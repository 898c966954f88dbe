----------------------------- MODULE MCApplyPlan -----------------------------
(* Small instances of ApplyPlan for TLC. *)
EXTENDS ApplyPlan, TLC

CONSTANTS c1, c2, g1, g2, g3, g4, g5, alice, bob, carol, mirror

Root  == <<"irods">>
Team  == <<"irods", "team">>
Old   == <<"irods", "old">>
Paths == {Root, Team, Old}

Op(i, a, p, g, u, attr, r) ==
    [id |-> i, action |-> a, path |-> p, gid |-> g, user |-> u, attrs |-> attr,
     risk |-> r, evidence |-> [realm |-> "irods", zone |-> "tempZone", path |-> p]]

Create(i)    == Op(i, "group_create", Team, None, None, mirror, "low")
Add(i, g, u) == Op(i, "member_add", Team, g, u, NoAttrs, "low")
Remove(i, u) == Op(i, "member_remove", Team, g2, u, NoAttrs, "medium")
Delete(i, r) == Op(i, "group_delete", Old, g3, None, NoAttrs, r)

File(r, o) == [realm |-> r, zone |-> "tempZone", header |-> "repair_keycloak", ops |-> o]

\* Plans the dry run writes: /irods/team missing, and /irods/team out of date.
Fresh == File("irods", <<Create(1), Add(2, None, alice), Delete(3, "requires_approval")>>)
Mend  == File("irods", <<Add(1, g2, alice), Remove(2, bob), Delete(3, "requires_approval")>>)
\* Files edited by hand, or meant for another realm.
Lowered   == File("irods", <<Delete(1, "low")>>)
Foreign   == File("other", <<[Delete(1, "requires_approval") EXCEPT !.evidence.realm = "other"]>>)
Twice     == File("irods", <<Add(1, g2, alice), Delete(1, "requires_approval")>>)
AwayZone  == File("irods", <<[Add(1, g2, alice) EXCEPT !.evidence.zone = "away"]>>)
Misplaced == File("irods", <<[Add(1, g2, alice) EXCEPT !.evidence.path = Old]>>)
Irregularly == File("irods", <<Add(1, g2, carol), Add(2, g2, alice)>>)
Bootstrap == [File("irods", <<Add(1, g2, alice)>>) EXCEPT !.header = "other"]
Empty     == File("irods", <<>>)

AllPlans   == {Fresh, Mend, Lowered, Foreign, Twice, AwayZone, Misplaced, Irregularly,
                Bootstrap, Empty}
RacePlans  == {Fresh, Mend}
OperationsOf(plans) == UNION {{p.ops[i] : i \in DOMAIN p.ops} : p \in plans}
AllOperations == OperationsOf(AllPlans)

Configured == [realm |-> "irods", zone |-> None]

NoRealm == [live |-> {}, pathOf |-> [g \in GroupId |-> None],
            attrs |-> [g \in GroupId |-> NoAttrs], members |-> [g \in GroupId |-> {}]]
\* /irods/team has been deleted since a plan named its id, or is still there.
WithOld  == [NoRealm EXCEPT !.live = {g1, g3},
               !.pathOf = [NoRealm.pathOf EXCEPT ![g1] = Root, ![g2] = Team, ![g3] = Old],
               !.attrs = [NoRealm.attrs EXCEPT ![g3] = mirror]]
WithTeam == [WithOld EXCEPT !.live = {g1, g2, g3}, !.attrs[g2] = mirror,
               !.members[g2] = {bob}]
Starts     == {WithOld, WithTeam}

ASSUME AgreeAssumption == CreatesAgree
ASSUME ConsistentAssumption == \A p \in Plans : Consistent(p)
==============================================================================
