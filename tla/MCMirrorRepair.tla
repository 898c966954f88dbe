---------------------------- MODULE MCMirrorRepair ----------------------------
(* Small instances of MirrorRepair for TLC. *)
EXTENDS MirrorRepair

CONSTANTS g1, g2, g3, g4, g5, g6, abe, alice, bob

LabName  == <<"lab">>
TeamName == <<"team">>
BothNames == <<LabName, TeamName>>
OneName   == <<TeamName>>
AliceBob  == <<alice, bob>>
ThreeUsers == <<abe, alice, bob>>

Root == <<"irods">>
Lab  == <<"irods", "lab">>
Team == <<"irods", "team">>
Away == <<"teams">>
TeamPaths == {Root, Team}
MirrorPaths == {Root, Lab, Team}
LabTeam     == Lab \o TeamName
NestedPaths == {Root, Lab, Team, LabTeam}
AwayPaths   == {Root, Team, Away}

BareAttrs  == Bare
TeamAttrs  == MirrorAttrs(TeamName, "home")
LabAttrs   == MirrorAttrs(LabName, "home")
OtherZone  == MirrorAttrs(TeamName, "away")
OnlyBare   == {Bare}
AllAttrs   == {Bare, TeamAttrs, LabAttrs, OtherZone}

Groups(t, l) == IF l = None THEN [n \in {TeamName} |-> t]
                ELSE [n \in {TeamName, LabName} |-> IF n = TeamName THEN t ELSE l]
IrodsTeam     == {Groups({alice, bob}, None)}
IrodsThree    == {Groups({abe, alice, bob}, None)}
IrodsTeams    == {Groups({alice, bob}, None), Groups({alice}, {bob})}

NoRealm == [live |-> {}, pathOf |-> [g \in GroupId |-> None],
            attrs |-> [g \in GroupId |-> Bare], members |-> [g \in GroupId |-> {}]]
\* A group added to a start realm.
Put(s, g, p, a, m) ==
    [live |-> s.live \cup {g}, pathOf |-> [s.pathOf EXCEPT ![g] = p],
     attrs |-> [s.attrs EXCEPT ![g] = a], members |-> [s.members EXCEPT ![g] = m]]
RootRealm == Put(NoRealm, g1, Root, Bare, {})
WithTeam  == Put(RootRealm, g2, Team, TeamAttrs, {bob})
WithStale == Put(WithTeam, g3, Lab, LabAttrs, {alice})
\* A bare group below the root counts as a mirror.
WithBare  == Put(RootRealm, g2, Team, Bare, {bob})
Starts      == {NoRealm, WithTeam, WithStale, WithBare}
\* The mirror of "team", moved below the mirror of a group iRODS no longer has.
Nested      == Put(Put(RootRealm, g2, Lab, LabAttrs, {alice}), g3, LabTeam, TeamAttrs, {bob})
NestedStarts == {WithBare, Nested}
Foreign     == {Put(RootRealm, g2, Team, OtherZone, {bob})}
\* /irods/team by its path and /teams by its attributes both mirror "team".
Doubled     == {Put(WithTeam, g3, Away, TeamAttrs, {bob})}
==============================================================================
