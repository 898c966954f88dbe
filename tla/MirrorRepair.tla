----------------------------- MODULE MirrorRepair -----------------------------
(***************************************************************************)
(* The repair cycle of one zone: "repair-keycloak --dry-run"               *)
(* (Service.RepairKeycloak with readIRODSSnapshot, readKeycloakSnapshot    *)
(* and planRepair) writes a plan, and some time later "apply" carries it   *)
(* out.  The snapshots are read piece by piece while iRODS and Keycloak    *)
(* change, and the plan is applied without looking at iRODS again.         *)
(*                                                                         *)
(* Each call of the Keycloak client is one step here (two when a missing   *)
(* ancestor is created first); KeycloakClient has its single requests and  *)
(* ApplyPlan the prompts, crashes and concurrent runs.                     *)
(***************************************************************************)
EXTENDS KeycloakRealm

CONSTANTS
    RootName, NameOrder, UserOrder, RealmName,  \* see RepairPlan
    Irregular,     \* see PlanValidation
    Zone,          \* the iRODS zone being repaired
    StartIrods,    \* the iRODS groups an execution may start from
    MaxIrodsEdits, \* bound: changes of iRODS groups
    MaxEdits,      \* bound: edits of an administrator in Keycloak
    MaxMishaps     \* bound: operations that fail or that the operator skips

INSTANCE RepairPlan WITH NoValue <- None
INSTANCE PlanValidation

Names == Range(NameOrder)

\* A group of iRODS has a name of one level, which its mirror has below the root.
ASSUME OrderAssumption ==
    /\ NameOrder \in Seq(Names) /\ UserOrder \in Seq(User) /\ Range(UserOrder) = User
    /\ \A n \in Names : /\ n \in Seq(Segment) /\ Len(n) = 1
                        /\ MirrorPath(n) \in Path /\ MirrorAttrs(n, Zone) \in Attrs

ASSUME BareAssumption  == NoAttrs = Bare /\ None # "irods"
ASSUME StartIrodsAssumption ==
    \A s \in StartIrods : DOMAIN s \subseteq Names /\ \A n \in DOMAIN s : s[n] \subseteq User
ASSUME RepairBoundAssumption ==
    MaxIrodsEdits \in Nat /\ MaxEdits \in Nat /\ MaxMishaps \in Nat

VARIABLES
    irods,     \* the groups of the zone: a function from names to member sets
    stage,     \* what the cycle is doing
    unread,    \* iRODS groups listed whose members were not read yet
    irodsSeen, \* the iRODS snapshot so far
    listed,    \* mirrors listed whose members were not read yet: [id, name, path]
    mirrorSeen,\* the Keycloak snapshot so far
    plan,      \* operations of the plan that are still to be applied
    complete,  \* no operation of this plan failed or was skipped so far
    quiet,     \* history: nobody else changed anything since the cycle began
    steady,    \* history: pairs of group and user of which iRODS changed nothing since
    irodsEdits, edits, mishaps  \* counters for the bounds

scan     == <<unread, irodsSeen, listed, mirrorSeen>>
counters == <<irodsEdits, edits, mishaps>>
vars     == <<realm, irods, stage, scan, plan, complete, quiet, steady, counters>>

Stages == {"idle", "irods", "keycloak", "planned", "applying", "done"}

TypeOK ==
    /\ RealmTypeOK
    /\ DOMAIN irods \subseteq Names /\ \A n \in DOMAIN irods : irods[n] \subseteq User
    /\ stage \in Stages
    /\ unread \subseteq Names
    /\ DOMAIN irodsSeen \subseteq Names
    /\ \A m \in listed : m.id \in GroupId /\ m.path \in Path
    /\ \A n \in DOMAIN mirrorSeen : mirrorSeen[n].id \in GroupId
    /\ \A i \in DOMAIN plan : plan[i].path \in Path
    /\ complete \in BOOLEAN /\ quiet \in BOOLEAN
    /\ steady \subseteq Names \X User
    /\ irodsEdits \in 0..MaxIrodsEdits /\ edits \in 0..MaxEdits
    /\ mishaps \in 0..MaxMishaps

Grants(n, u) == n \in DOMAIN irods /\ u \in irods[n]

NoSnapshot == [n \in {} |-> {}]

Init ==
    /\ RealmInit
    /\ irods \in StartIrods
    /\ stage = "idle"
    /\ unread = {} /\ irodsSeen = NoSnapshot
    /\ listed = {} /\ mirrorSeen = NoSnapshot
    /\ plan = <<>> /\ complete = TRUE /\ quiet = FALSE /\ steady = {}
    /\ irodsEdits = 0 /\ edits = 0 /\ mishaps = 0

(***************************************************************************)
(* The mirrors in Keycloak, as keycloakGroupMapping sees them.             *)
(***************************************************************************)
IsMirrorGroup(g) == IsMirror(Zone, pathOf[g], attrs[g])
NameOf(g)        == MirroredName(pathOf[g], attrs[g])
Mirrors          == {g \in live : IsMirrorGroup(g)}

(***************************************************************************)
(* The dry run.                                                            *)
(***************************************************************************)
With(f, n, value) == [m \in DOMAIN f \cup {n} |-> IF m = n THEN value ELSE f[m]]

BeginScan ==
    /\ stage \in {"idle", "planned", "done"}
    /\ stage' = "irods"
    /\ unread' = DOMAIN irods /\ irodsSeen' = NoSnapshot
    /\ listed' = {} /\ mirrorSeen' = NoSnapshot
    /\ plan' = <<>> /\ complete' = TRUE
    /\ quiet' = TRUE /\ steady' = Names \X User
    /\ UNCHANGED <<realm, irods, counters>>

\* The members of a group that was removed since it was listed are none.
ReadIrodsGroup(n) ==
    /\ stage = "irods" /\ n \in unread
    /\ unread' = unread \ {n}
    /\ irodsSeen' = With(irodsSeen, n, IF n \in DOMAIN irods THEN irods[n] ELSE {})
    /\ UNCHANGED <<realm, irods, stage, listed, mirrorSeen, plan, complete, quiet, steady, counters>>

ListMirrors ==
    /\ stage = "irods" /\ unread = {}
    /\ stage' = "keycloak"
    /\ listed' = {[id |-> g, name |-> NameOf(g), path |-> pathOf[g]] : g \in Mirrors}
    /\ UNCHANGED <<realm, irods, unread, irodsSeen, mirrorSeen, plan, complete, quiet, steady, counters>>

\* Two groups with the same mirrored name: the one read last stays in the map.
ReadMirror(m) ==
    /\ stage = "keycloak" /\ m \in listed /\ m.id \in live
    /\ listed' = listed \ {m}
    /\ \E page \in MemberPages(m.id) :
         mirrorSeen' = With(mirrorSeen, m.name,
                            [id |-> m.id, path |-> m.path, members |-> page])
    /\ UNCHANGED <<realm, irods, stage, unread, irodsSeen, plan, complete, quiet, steady, counters>>

\* The members of a group that is gone are a 404, and the dry run fails.
ScanFails ==
    /\ stage = "keycloak" /\ \E m \in listed : m.id \notin live
    /\ stage' = "idle"
    /\ UNCHANGED <<realm, irods, scan, plan, complete, quiet, steady, counters>>

WritePlan ==
    /\ stage = "keycloak" /\ listed = {}
    /\ stage' = "planned"
    /\ plan' = PlanRepair(Zone, irodsSeen, mirrorSeen)
    /\ UNCHANGED <<realm, irods, scan, complete, quiet, steady, counters>>

(***************************************************************************)
(* Applying the plan, operation by operation.                              *)
(***************************************************************************)
\* The file as written.  Both commands are configured for the same realm and zone.
PlanFile == [realm |-> RealmName, zone |-> Zone, header |-> "repair_keycloak", ops |-> plan]
Accepted == ValidPlan(PlanFile, [realm |-> RealmName, zone |-> Zone])

BeginApply ==
    /\ stage = "planned" /\ Accepted
    /\ stage' = "applying"
    /\ UNCHANGED <<realm, irods, scan, plan, complete, quiet, steady, counters>>

\* The group an operation acts on: its recorded id, or the group at its path.
ActsOn(o) == IF o.gid # None THEN {o.gid} \cap live ELSE GroupsAt(o.path)

\* The path from the root down to the first level that does not exist.
FirstMissing(p) ==
    SubSeq(p, 1, CHOOSE k \in 1..Len(p) :
                   /\ GroupsAt(SubSeq(p, 1, k)) = {}
                   /\ \A j \in 1..(k - 1) : GroupsAt(SubSeq(p, 1, j)) # {})

\* Ids that were never issued are all alike: one of them stands for any.
FreshIds == LET unused == {g \in GroupId : pathOf[g] = None}
            IN  IF unused = {} THEN {} ELSE {CHOOSE g \in unused : TRUE}

TookTillFailure(o, ok) ==
    /\ plan' = IF ok THEN Tail(plan) ELSE << >>
    /\ complete' = (complete /\ ok)
Took(o, ok) ==
    /\ plan' = Tail(plan)
    /\ complete' = (complete /\ ok)

ApplyCreate(o) ==
    /\ o.action = "group_create"
    /\ \/ \E g \in GroupsAt(o.path) : SetAttrs(g, o.attrs) /\ Took(o, TRUE)
       \/ /\ GroupsAt(o.path) = {}
          /\ LET p == FirstMissing(o.path)
             IN  /\ \E g \in FreshIds : AddGroup(g, p, IF p = o.path THEN o.attrs ELSE NoAttrs)
                 /\ IF p = o.path THEN Took(o, TRUE) ELSE UNCHANGED <<plan, complete>>

ApplyAdd(o) ==
    /\ o.action = "member_add"
    /\ IF ActsOn(o) # {} /\ o.user \in Account
       THEN \E g \in ActsOn(o) : Join(g, o.user) /\ Took(o, TRUE)
       ELSE UNCHANGED realm /\ Took(o, FALSE)

\* No group, nothing to remove; a user beyond the page listed is not removed.
ApplyRemove(o) ==
    /\ o.action = "member_remove"
    /\ Took(o, TRUE)
    /\ IF ActsOn(o) = {} THEN UNCHANGED realm
       ELSE \E g \in ActsOn(o) : \E page \in MemberPages(g) :
              IF o.user \in page THEN Leave(g, o.user) ELSE UNCHANGED realm

ApplyDelete(o) ==
    /\ o.action = "group_delete"
    /\ Took(o, TRUE)
    /\ IF ActsOn(o) = {} THEN UNCHANGED realm ELSE \E g \in ActsOn(o) : DropGroup(g)

ApplyOperation ==
    /\ stage = "applying" /\ plan # <<>>
    /\ LET o == Head(plan) IN ApplyCreate(o) \/ ApplyAdd(o) \/ ApplyRemove(o) \/ ApplyDelete(o)
    /\ UNCHANGED <<irods, stage, scan, quiet, steady, counters>>

\* A call fails, or the operator skips the operation.
MissOperation ==
    /\ stage = "applying" /\ plan # <<>> /\ mishaps < MaxMishaps
    /\ mishaps' = mishaps + 1
    /\ Took(Head(plan), FALSE)
    /\ UNCHANGED <<realm, irods, stage, scan, quiet, steady, irodsEdits, edits>>

\* The run returns, or is killed on the way.
EndApply ==
    /\ stage = "applying" /\ plan = <<>>
    /\ stage' = "done"
    /\ UNCHANGED <<realm, irods, scan, plan, complete, quiet, steady, counters>>

Crash ==
    /\ stage \in {"irods", "keycloak", "applying"} /\ mishaps < MaxMishaps
    /\ stage' = "idle"
    /\ mishaps' = mishaps + 1
    /\ UNCHANGED <<realm, irods, scan, plan, complete, quiet, steady, irodsEdits, edits>>

(***************************************************************************)
(* Everybody else: iRODS administrators and Keycloak administrators.       *)
(***************************************************************************)
IrodsChanges ==
    /\ irodsEdits < MaxIrodsEdits
    /\ irodsEdits' = irodsEdits + 1
    /\ quiet' = FALSE
    /\ \/ \E n \in Names \ DOMAIN irods : irods' = With(irods, n, {})
       \/ \E n \in DOMAIN irods :
            \/ irods' = [m \in DOMAIN irods \ {n} |-> irods[m]]
            \/ \E u \in User \ irods[n] : irods' = [irods EXCEPT ![n] = @ \cup {u}]
            \/ \E u \in irods[n] : irods' = [irods EXCEPT ![n] = @ \ {u}]
    /\ steady' = {x \in steady : Grants(x[1], x[2]) <=> Grants(x[1], x[2])'}
    /\ UNCHANGED <<realm, stage, scan, plan, complete, edits, mishaps>>

KeycloakDrifts ==
    /\ edits < MaxEdits
    /\ edits' = edits + 1
    /\ quiet' = FALSE
    /\ AdminEdit
    /\ UNCHANGED <<irods, stage, scan, plan, complete, steady, irodsEdits, mishaps>>

ScanStep  == \/ BeginScan \/ ListMirrors \/ ScanFails \/ WritePlan
             \/ \E n \in unread : ReadIrodsGroup(n)
             \/ \E m \in listed : ReadMirror(m)
ApplyStep == BeginApply \/ ApplyOperation \/ EndApply

Next == ScanStep \/ ApplyStep \/ MissOperation \/ Crash \/ IrodsChanges \/ KeycloakDrifts

Spec == Init /\ [][Next]_vars

\* The operator goes on to apply the plans she has written, and starts another
\* cycle after one ("periodic repair"); a started command keeps running.
FairSpec ==
    /\ Spec
    /\ WF_vars(ScanStep /\ stage # "planned")
    /\ WF_vars(ApplyStep)
    /\ SF_vars(BeginApply)

(***************************************************************************)
(* Where groups may stand: with the paths and attributes they start with,  *)
(* are created with by an administrator, or are given by apply.            *)
(***************************************************************************)
Placed == (UNION {{<<s.pathOf[g], s.attrs[g]>> : g \in s.live} : s \in StartRealms})
          \cup (Path \X EditAttrs)
          \cup {<<MirrorPath(n), MirrorAttrs(n, Zone)>> : n \in Names}

\* No group stands below a mirror, and one below the root is called after its path.
Apart(p, a)   == IsMirror(Zone, p, a) => /\ UnderRoot(p) => MirroredName(p, a) = Tail(p)
                                         /\ \A q \in Path : Under(p, q) => q = p
\* Moreover the mirrors are the groups below the root, one for each name at most.
InPlace(p, a) == /\ Apart(p, a)
                 /\ IsMirror(Zone, p, a) <=> UnderRoot(p)
                 /\ UnderRoot(p) => Tail(p) \in Names

MirrorsApart   == \A x \in Placed : Apart(x[1], x[2])
MirrorsInPlace == \A x \in Placed : InPlace(x[1], x[2])

(***************************************************************************)
(* Properties.                                                             *)
(***************************************************************************)

\* Where Keycloak and iRODS differ: groups without a mirror, mirrors without a
\* group, memberships a mirror lacks, and memberships it has too many.
MirrorsOf(n) == {g \in Mirrors : NameOf(g) = n}
Drift ==
    {<<"missing", n>> : n \in {m \in DOMAIN irods : MirrorsOf(m) = {}}}
    \cup {<<"stale", n>> : n \in {NameOf(g) : g \in Mirrors} \ DOMAIN irods}
    \cup {<<"lacks", x>> : x \in {y \in (DOMAIN irods) \X User :
              /\ Grants(y[1], y[2])
              /\ MirrorsOf(y[1]) = {} \/ \E g \in MirrorsOf(y[1]) : y[2] \notin members[g]}}
    \cup {<<"extra", x>> : x \in {y \in {NameOf(g) : g \in Mirrors} \X User :
              ~Grants(y[1], y[2]) /\ \E g \in MirrorsOf(y[1]) : y[2] \in members[g]}}
InSync == Drift = {}

\* What the dry run writes, apply accepts: were one operation of a plan refused,
\* none of them would be carried out, in this cycle and in every later one.
WrittenPlansApply == stage = "planned" => Accepted

\* A cycle during which nobody else changed anything, and of which no operation
\* failed or was skipped, leaves Keycloak matching iRODS: planRepair and apply
\* together do all that is needed ("periodic repair makes Keycloak match iRODS").
CleanCycleSyncs == stage = "done" /\ quiet /\ complete => InSync

\* On the way there no operation makes anything worse: in a quiet cycle every
\* step of apply, also of one that is interrupted or fails in part, leaves at
\* most the differences there were before.
DriftShrinks == [][stage = "applying" /\ quiet' => Drift' \subseteq Drift]_vars

\* A plan may be old when it is applied, and its snapshots may never have
\* existed at one time.  Still, where iRODS has not changed its mind about a
\* user and a group since the cycle began, apply takes no membership away that
\* iRODS grants and gives none that it does not, whatever else has changed.
Loses(n, u)  == \E g \in MirrorsOf(n) : u \in members[g] /\ ~(g \in live' /\ u \in members'[g])
Gains(n, u)  == \E g \in MirrorsOf(n) : u \notin members[g] /\ g \in live' /\ u \in members'[g]
SteadyGrantsKept ==
    [][stage = "applying" /\ edits' = edits =>
         \A x \in steady : IF Grants(x[1], x[2]) THEN ~Loses(x[1], x[2])
                                                ELSE ~Gains(x[1], x[2])]_vars

\* Once the changes stop, repeated repair brings the mirror in line and keeps it
\* there, whatever stale plans were applied before.  A member without an account
\* in Keycloak is never added, which every plan tries again and every apply
\* reports as failed: all the others are in line in spite of it.
WithoutAccount  == {<<"lacks", x>> : x \in Names \X (User \ Account)}
MirrorConverges == <>[](Drift \subseteq WithoutAccount)

\* Groups that are not mirrors of this zone are left alone by dry run and apply.
\* (Not so: planRepair takes a foreign group at /irods/<name> for a missing one,
\* and CreateOrUpdateGroup then overwrites its attributes.)
ForeignGroupsUntouched ==
    [][\A g \in live \ Mirrors : edits' = edits =>
         g \in live' /\ attrs'[g] = attrs[g] /\ members'[g] = members[g]]_vars
==============================================================================
