--------------------------- MODULE MCKeycloakClient ---------------------------
(* Small instances of KeycloakClient for TLC. *)
EXTENDS KeycloakClient, TLC

CONSTANTS c1, c2, g1, g2, g3, g4, g5, g6, alice, bob, mirror

Root   == <<"irods">>
Team   == <<"irods", "team">>
Deep   == <<"irods", "team", "sub">>
Paths  == {Root, Team}
DeepPaths == {Root, Team, Deep}

Op(a, p, g, u, attr, r) ==
    [id |-> 1, action |-> a, path |-> p, gid |-> g, user |-> u, attrs |-> attr,
     risk |-> r, evidence |-> [realm |-> "irods", zone |-> "tempZone", path |-> p]]

\* The operations a plan for /irods/team can hold: with a group id when the
\* group existed when the plan was made, without one when it did not.
Create    == Op("group_create", Team, None, None, mirror, "low")
AddByPath == Op("member_add", Team, None, alice, NoAttrs, "low")
AddById   == Op("member_add", Team, g2, bob, NoAttrs, "low")
Remove    == Op("member_remove", Team, g2, alice, NoAttrs, "medium")
RemoveByPath == Op("member_remove", Team, None, alice, NoAttrs, "medium")
Delete    == Op("group_delete", Team, g2, None, NoAttrs, "requires_approval")
DeleteByPath == Op("group_delete", Team, None, None, NoAttrs, "requires_approval")
CreateDeep == Op("group_create", Deep, None, None, mirror, "low")

Operations     == {Create, AddByPath, AddById, Remove, RemoveByPath, Delete, DeleteByPath}
DeepOperations == {CreateDeep, AddById, DeleteByPath}

NoRealm == [live |-> {}, pathOf |-> [g \in GroupId |-> None],
            attrs |-> [g \in GroupId |-> NoAttrs], members |-> [g \in GroupId |-> {}]]
RootOnly  == [NoRealm EXCEPT !.live = {g1}, !.pathOf = [NoRealm.pathOf EXCEPT ![g1] = Root]]
WithTeam  == [NoRealm EXCEPT !.live = {g1, g2},
                !.pathOf = [NoRealm.pathOf EXCEPT ![g1] = Root, ![g2] = Team],
                !.attrs = [NoRealm.attrs EXCEPT ![g2] = mirror],
                !.members = [NoRealm.members EXCEPT ![g2] = {alice}]]
Starts     == {NoRealm, RootOnly, WithTeam}

ASSUME AgreeAssumption == CreatesAgree
==============================================================================
