--------------------------- MODULE KeycloakContract ---------------------------
(***************************************************************************)
(* What the repair workflow may rely on when it makes a call of the        *)
(* Keycloak client (the methods of service.KeycloakAdminService that       *)
(* change groups and memberships), said without requests one by one:       *)
(*                                                                         *)
(*   - a call changes nothing but what its operation is about, and a call  *)
(*     for a membership or a deletion changes it once;                     *)
(*   - a result without an error is true when it is decided;               *)
(*   - an error says nothing: the change may have been made, and may even  *)
(*     be made after the call is over, also when the caller is no more.    *)
(*                                                                         *)
(* KeycloakClient implements it, and so does the client as ApplyPlan's     *)
(* commands use it, call after call, until they end or are killed.         *)
(***************************************************************************)
EXTENDS KeycloakRealm

CONSTANTS
    Client,    \* processes that use the client
    Operation  \* the operations they ask for

VARIABLES
    phase,     \* where each call is: "done" is decided but not yet returned
    op,        \* the operation it carries out
    aim,       \* the group it acts on, once it is known
    late       \* changes that may still be made for calls that failed

contractVars == <<realm, phase, op, aim, late>>

Init ==
    /\ RealmInit
    /\ phase = [c \in Client |-> "idle"]
    /\ op \in [Client -> Operation]
    /\ aim = [c \in Client |-> None]
    /\ late = {}

(***************************************************************************)
(* The changes an operation o that acts on group g is about: the levels of *)
(* its path and the attributes of the group there, or one membership, or   *)
(* the group.                                                              *)
(***************************************************************************)
Req(v, g, n, u, a) == [verb |-> v, group |-> g, name |-> n, user |-> u, attrs |-> a]

LevelAttrs(o, p) == IF p = o.path THEN o.attrs ELSE NoAttrs
Levels(o) ==
    {r \in {Req("post", g, o.path[k], None, LevelAttrs(o, SubSeq(o.path, 1, k))) :
              g \in GroupId \cup {None}, k \in 1..Len(o.path)} :
        /\ r.group # None => pathOf[r.group] # None
        /\ Under(NewPath(r), o.path)
        /\ r.attrs = LevelAttrs(o, NewPath(r))}

Labels(o) == {Req("put", g, None, None, o.attrs) : g \in {h \in GroupId : pathOf[h] = o.path}}

Changes(o, g) ==
    CASE o.action = "group_create"  -> Levels(o) \cup Labels(o)
      [] o.action = "member_add"    -> {Req("join", g, None, o.user, NoAttrs)}
      [] o.action = "member_remove" -> {Req("leave", g, None, o.user, NoAttrs)}
      [] o.action = "group_delete"  -> {Req("delete", g, None, None, NoAttrs)}

\* What a result without an error says.
ActedOn(o, g) == IF g = None THEN GroupsAt(o.path) ELSE {g} \cap live
Outcome(o, g) ==
    CASE o.action = "group_create"  -> GroupsAt(o.path) # {}
      [] o.action = "member_add"    -> \E h \in ActedOn(o, g) : o.user \in members[h]
      [] o.action = "member_remove" -> \A h \in ActedOn(o, g) : o.user \notin members[h]
      [] o.action = "group_delete"  -> ActedOn(o, g) = {}

(***************************************************************************)
(* A call.                                                                 *)
(***************************************************************************)
Become(c, p) == phase' = [phase EXCEPT ![c] = p] /\ UNCHANGED op

Begin(c, o) ==
    /\ phase[c] = "idle"
    /\ phase' = [phase EXCEPT ![c] = "busy"]
    /\ op' = [op EXCEPT ![c] = o]
    /\ aim' = [aim EXCEPT ![c] = IF o.action = "group_create" THEN None ELSE o.gid]
    /\ UNCHANGED <<realm, late>>

\* Without a recorded id the group is looked up by its path, once.
Resolve(c) ==
    /\ phase[c] = "busy" /\ aim[c] = None /\ op[c].action # "group_create"
    /\ \E g \in GroupsAt(op[c].path) : aim' = [aim EXCEPT ![c] = g]
    /\ UNCHANGED <<realm, phase, op, late>>

\* Creating may take several changes, of which the attributes are the last.
Change(c) ==
    /\ phase[c] = "busy"
    /\ \E r \in Changes(op[c], aim[c]) :
         /\ Serve(r)
         /\ \/ r.verb = "post" /\ UNCHANGED <<phase, op>>
            \/ Become(c, "failed")
            \/ r.verb # "post" /\ Outcome(op[c], aim[c])'
               /\ (Become(c, "done") \/ Become(c, "ok"))
    /\ UNCHANGED <<aim, late>>

Conclude(c) ==
    /\ \/ phase[c] = "done"
       \/ phase[c] = "busy" /\ Outcome(op[c], aim[c])
    /\ Become(c, "ok")
    /\ UNCHANGED <<realm, aim, late>>

\* The call fails, or its caller is killed and asks no more.
GiveUp(c) ==
    /\ phase[c] \in {"busy", "done"}
    /\ Become(c, "failed") \/ Become(c, "idle")
    /\ late' = late \/ \E r \in Changes(op[c], aim[c]) : late' = late \cup {r}
    /\ UNCHANGED <<realm, aim>>

\* The caller has the result.
Take(c) ==
    /\ phase[c] \in {"ok", "failed"}
    /\ Become(c, "idle")
    /\ UNCHANGED <<realm, aim, late>>

Afterwards ==
    /\ \E r \in late : Serve(r) /\ late' = late \ {r}
    /\ UNCHANGED <<phase, op, aim>>

Others == AdminEdit /\ UNCHANGED <<phase, op, aim, late>>

Next == \/ \E c \in Client : \/ \E o \in Operation : Begin(c, o)
                             \/ Resolve(c) \/ Change(c) \/ Conclude(c) \/ GiveUp(c) \/ Take(c)
        \/ Afterwards \/ Others

Spec == Init /\ [][Next]_contractVars
==============================================================================
