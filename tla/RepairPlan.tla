------------------------------ MODULE RepairPlan ------------------------------
(***************************************************************************)
(* Service.planRepair and what it rests on                                 *)
(* (internal/workflow/repair/service.go): which Keycloak groups count as   *)
(* mirrors and of which iRODS group, and the operations that make the      *)
(* mirrors of one zone match the iRODS groups.                             *)
(*                                                                         *)
(* An iRODS group name is a sequence of one name, so that the mirror path  *)
(* of a group is its name appended to the root, and the name read off a    *)
(* deeper path ("a/b" in the code) is the rest of that path.               *)
(***************************************************************************)
EXTENDS Naturals, Sequences, SequencesExt

CONSTANTS
    RootName,   \* the "irods" of defaultKeycloakGroupRoot
    NameOrder,  \* every group name, in the order sort.Strings gives them
    UserOrder,  \* every username, likewise
    RealmName,  \* the Keycloak realm the plan is for
    NoValue     \* an absent attribute, id or user

Attributes(names, zones) == [name : names \cup {NoValue}, zone : zones \cup {NoValue},
                             authority : {"irods", "other", NoValue}]
Bare          == [name |-> NoValue, zone |-> NoValue, authority |-> NoValue]
MirrorAttrs(n, z) == [name |-> n, zone |-> z, authority |-> "irods"]

(***************************************************************************)
(* keycloakGroupMapping: the iRODS group a Keycloak group mirrors, or      *)
(* NoValue if it is not a mirror of this zone.                             *)
(***************************************************************************)
MirrorPath(n) == <<RootName>> \o n
UnderRoot(p)  == Len(p) > 1 /\ p[1] = RootName

IsMirror(zone, p, a) ==
    /\ a.name # NoValue \/ a.authority = "irods" \/ UnderRoot(p)
    /\ a.zone \in {zone, NoValue}
    /\ a.authority \in {"irods", NoValue}

MirroredName(p, a) == IF a.name # NoValue THEN a.name
                      ELSE IF UnderRoot(p) THEN Tail(p)
                      ELSE <<Last(p)>>

(***************************************************************************)
(* Snapshots.  iRODS: a function from group names to member sets.          *)
(* Keycloak: a function from mirrored names to [id, path, members].        *)
(***************************************************************************)
Sorted(S, order) ==
    LET upTo[i \in 0..Len(order)] ==
            IF i = 0 THEN << >>
            ELSE IF order[i] \in S THEN Append(upTo[i - 1], order[i]) ELSE upTo[i - 1]
    IN  upTo[Len(order)]

\* Operations are numbered when the plan is complete; see Numbered.
NewOp(action, zone, path, gid, user, attrs, risk) ==
    [id |-> 0, action |-> action, path |-> path, gid |-> gid, user |-> user,
     attrs |-> attrs, risk |-> risk,
     evidence |-> [realm |-> RealmName, zone |-> zone, path |-> path]]

CreateOpByName(n, zone) == NewOp("group_create", zone, n, NoValue, NoValue,
                                 MirrorAttrs(n, zone), "low")
CreateOp(n, zone) == NewOp("group_create", zone, MirrorPath(n), NoValue, NoValue,
                           MirrorAttrs(n, zone), "low")
AddOp(zone, path, gid, u)    == NewOp("member_add", zone, path, gid, u, Bare, "low")
RemoveOp(zone, path, gid, u) == NewOp("member_remove", zone, path, gid, u, Bare, "medium")
DeleteOpAtMediumRisk(zone, path, gid) ==
    NewOp("group_delete", zone, path, gid, NoValue, Bare, "medium")
DeleteOp(zone, path, gid) ==
    NewOp("group_delete", zone, path, gid, NoValue, Bare, "requires_approval")

MapSeq(s, Op(_)) == [i \in DOMAIN s |-> Op(s[i])]

AddOps(zone, path, gid, users) ==
    MapSeq(Sorted(users, UserOrder), LAMBDA u : AddOp(zone, path, gid, u))
RemoveOps(zone, path, gid, users) ==
    MapSeq(Sorted(users, UserOrder), LAMBDA u : RemoveOp(zone, path, gid, u))

\* An iRODS group without a mirror: create it, then add every member by path.
OpsForMissing(n, zone, people) ==
    <<CreateOp(n, zone)>> \o AddOps(zone, MirrorPath(n), NoValue, people)

\* One with a mirror: add who is missing, then remove who is too many, by id.
OpsWithoutRemovals(zone, people, g) == AddOps(zone, g.path, g.id, people \ g.members)
OpsRemovingAll(zone, people, g) ==
    AddOps(zone, g.path, g.id, people \ g.members) \o RemoveOps(zone, g.path, g.id, g.members)
OpsForExisting(zone, people, g) ==
    AddOps(zone, g.path, g.id, people \ g.members)
    \o RemoveOps(zone, g.path, g.id, g.members \ people)

OpsFor(n, zone, irods, keycloak) ==
    IF n \in DOMAIN keycloak THEN OpsForExisting(zone, irods[n], keycloak[n])
                             ELSE OpsForMissing(n, zone, irods[n])

Numbered(ops) == [i \in DOMAIN ops |-> [ops[i] EXCEPT !.id = i]]

RepairOps(zone, irods, keycloak) ==
    FlattenSeq(MapSeq(Sorted(DOMAIN irods, NameOrder),
                      LAMBDA n : OpsFor(n, zone, irods, keycloak)))
DeleteOps(zone, irods, keycloak) ==
    MapSeq(Sorted(DOMAIN keycloak \ DOMAIN irods, NameOrder),
           LAMBDA n : DeleteOp(zone, keycloak[n].path, keycloak[n].id))

PlanRepair(zone, irods, keycloak) ==
    Numbered(RepairOps(zone, irods, keycloak) \o DeleteOps(zone, irods, keycloak))
==============================================================================
