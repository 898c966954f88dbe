---------------------------- MODULE MCGroupListing ----------------------------
(* A small instance of GroupListing for TLC: three top groups and three        *)
(* children of the first, with pages of two, and names that sort before,       *)
(* between and after those there are.                                          *)
EXTENDS GroupListing

CONSTANTS g1, g2, g3, g4, g5, g6, g7, g8

Names == {"a", "b", "c", "d"}
Ranks == [a |-> 1, b |-> 2, c |-> 3, d |-> 4]

Tree  == {<<n>> : n \in Names} \cup {<<"b", n>> : n \in Names}

Full == [live |-> {g1, g2, g3, g4, g5, g6},
         pathOf |-> [g \in GroupId |->
                       CASE g = g1 -> <<"b">> [] g = g2 -> <<"c">> [] g = g3 -> <<"d">>
                         [] g = g4 -> <<"b", "b">> [] g = g5 -> <<"b", "c">>
                         [] g = g6 -> <<"b", "d">> [] OTHER -> None],
         attrs |-> [g \in GroupId |-> NoAttrs], members |-> [g \in GroupId |-> {}]]
OneChild == [Full EXCEPT !.live = {g1, g2, g4}]
Starts == {Full, OneChild}
==============================================================================
