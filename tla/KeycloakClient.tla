---------------------------- MODULE KeycloakClient ----------------------------
(***************************************************************************)
(* internal/keycloakadmin/http_client.go: the calls that change a realm    *)
(* (CreateOrUpdateGroup with ensureGroupPath, AddUserToGroup,              *)
(* RemoveUserFromGroup, DeleteGroup), request by request.  Every process   *)
(* in Client makes calls; between two requests of one call anything else   *)
(* may happen to the realm: requests of the other clients, an              *)
(* administrator's edits, and requests of calls that already failed        *)
(* because their answer did not come back in time.                         *)
(***************************************************************************)
EXTENDS KeycloakRealm

CONSTANTS
    Client,    \* processes that use the client
    Operation, \* the operations of the plans: what applyOperation passes on
    MaxEdits,  \* bound: edits an administrator makes
    MaxLate    \* bound: requests on their way whose sender has given up

Action == {"group_create", "member_add", "member_remove", "group_delete"}

ASSUME OperationAssumption ==
    Operation \subseteq [id : Nat, action : Action, path : Path, gid : GroupId \cup {None},
                         user : User \cup {None}, attrs : Attrs,
                         risk : {"low", "medium", "requires_approval"},
                         evidence : [realm : STRING, zone : STRING, path : Path \cup {<<>>}]]
ASSUME OperationExists == Operation # {}
ASSUME BoundAssumption == MaxEdits \in Nat /\ MaxLate \in Nat

VARIABLES
    pc,        \* where each call is; "ok" and "failed" are its results
    op,        \* the operation it carries out
    ref,       \* the id of the group in hand, None before one is resolved
    depth,     \* how much of the target path the call is looking at
    late,      \* requests that may still arrive after their caller gave up
    edits      \* administrator edits so far

call == <<pc, op, ref, depth>>
clientVars == <<realm, call, late, edits>>

Reading  == {"find", "reread", "verify", "list"}
Writing  == {"update", "post", "mutate"}
Settled  == {"ok", "failed"}
CallStep == {"idle"} \cup Reading \cup Writing \cup Settled

ClientTypeOK ==
    /\ RealmTypeOK
    /\ pc \in [Client -> CallStep]
    /\ op \in [Client -> Operation]
    /\ ref \in [Client -> GroupId \cup {None}]
    /\ depth \in [Client -> Nat]
    /\ \A c \in Client : depth[c] \in 1..Len(op[c].path)
    /\ late \subseteq Request
    /\ edits \in 0..MaxEdits

ClientInit ==
    /\ RealmInit
    /\ pc = [c \in Client |-> "idle"]
    /\ op = [c \in Client |-> CHOOSE o \in Operation : TRUE]
    /\ ref = [c \in Client |-> None]
    /\ depth = [c \in Client |-> 1]
    /\ late = {}
    /\ edits = 0

(***************************************************************************)
(* One call.  Goto moves it on; Found is what the answer to a listing of   *)
(* all groups says about the path the call is looking at.                  *)
(***************************************************************************)
Target(c)  == op[c].path
At(c)      == SubSeq(Target(c), 1, depth[c])
AtTarget(c) == depth[c] = Len(Target(c))
Found(c)   == GroupAt(At(c))

Goto(c, step, g, d) ==
    /\ pc'    = [pc EXCEPT ![c] = step]
    /\ ref'   = [ref EXCEPT ![c] = g]
    /\ depth' = [depth EXCEPT ![c] = d]
    /\ UNCHANGED <<op, late, edits>>

Stop(c, result) == Goto(c, result, ref[c], depth[c])

\* parentGroupPath is "" for a top-level path: there is no parent to ensure.
HasParentOffByOne(c) == depth[c] > 0
HasParent(c)         == depth[c] > 1

\* The next level to create, once its parent is in hand.
BelowSkipping(c) == Len(Target(c))
Below(c)         == depth[c] + 1

(***************************************************************************)
(* applyOperation prefers the group id recorded in the plan and falls back *)
(* to the path; a call given an id does not look its path up.              *)
(***************************************************************************)
FirstStep(o) ==
    IF o.action = "group_create" \/ o.gid = None THEN "find"
    ELSE IF o.action = "group_delete" THEN "mutate" ELSE "list"

Call(c, o) ==
    /\ pc[c] = "idle"
    /\ pc'    = [pc EXCEPT ![c] = FirstStep(o)]
    /\ op'    = [op EXCEPT ![c] = o]
    /\ ref'   = [ref EXCEPT ![c] = IF FirstStep(o) = "find" THEN None ELSE o.gid]
    /\ depth' = [depth EXCEPT ![c] = Len(o.path)]
    /\ UNCHANGED <<realm, late, edits>>

(***************************************************************************)
(* findGroupByPath, then what each caller does with the group or with nil. *)
(* Creating climbs towards the root until a group exists (ensureGroupPath  *)
(* calls itself for the parent) and then comes down creating one level     *)
(* after the other.                                                        *)
(***************************************************************************)
Find(c) ==
    /\ pc[c] = "find"
    /\ UNCHANGED realm
    /\ \/ /\ op[c].action = "group_create" /\ Found(c) # None
          /\ IF AtTarget(c) THEN Goto(c, "update", Found(c), depth[c])
                            ELSE Goto(c, "post", Found(c), Below(c))
       \/ /\ op[c].action = "group_create" /\ Found(c) = None
          /\ IF HasParent(c) THEN Goto(c, "find", None, depth[c] - 1)
                             ELSE Goto(c, "post", None, 1)
       \/ /\ op[c].action \in {"member_add", "member_remove"} /\ Found(c) # None
          /\ Goto(c, "list", Found(c), depth[c])
       \/ /\ op[c].action = "group_delete" /\ Found(c) # None
          /\ Goto(c, "mutate", Found(c), depth[c])
       \/ /\ op[c].action = "member_add" /\ Found(c) = None
          /\ Stop(c, "failed")
       \/ /\ op[c].action \in {"member_remove", "group_delete"} /\ Found(c) = None
          /\ Stop(c, "ok")

\* The group found after a POST becomes the parent of the next level.
Verify(c) ==
    /\ pc[c] = "verify"
    /\ UNCHANGED realm
    /\ IF Found(c) = None THEN Stop(c, "failed")
       ELSE IF AtTarget(c) THEN Goto(c, "ok", Found(c), depth[c])
       ELSE Goto(c, "post", Found(c), Below(c))

\* CreateOrUpdateGroup returns what it reads back, and its caller ignores it.
Reread(c) ==
    /\ pc[c] = "reread"
    /\ UNCHANGED realm
    /\ Stop(c, "ok")

\* A member listing of a group that is gone is a 404: there is nothing to remove,
\* but adding has failed.
WithoutGroupAlwaysOk(c) == "ok"
WithoutGroup(c) == IF op[c].action = "member_add" THEN "failed" ELSE "ok"

List(c) ==
    /\ pc[c] = "list"
    /\ UNCHANGED realm
    /\ IF ref[c] \notin live
       THEN Stop(c, WithoutGroup(c))
       ELSE \E page \in MemberPages(ref[c]) :
              IF (op[c].user \in page) = (op[c].action = "member_add")
              THEN Stop(c, "ok") ELSE Stop(c, "mutate")

(***************************************************************************)
(* The requests that change the realm.                                     *)
(***************************************************************************)
PostAttrsNone(c)  == NoAttrs
PostAttrsAlways(c) == op[c].attrs
PostAttrs(c)      == IF AtTarget(c) THEN op[c].attrs ELSE NoAttrs
PutAttrsNone(c)   == NoAttrs
PutAttrs(c)       == op[c].attrs

RequestOf(c) ==
    LET Req(v, g, n, u, a) == [verb |-> v, group |-> g, name |-> n, user |-> u, attrs |-> a]
    IN  CASE pc[c] = "post"   -> Req("post", ref[c], Target(c)[depth[c]], None, PostAttrs(c))
          [] pc[c] = "update" -> Req("put", ref[c], None, None, PutAttrs(c))
          [] OTHER -> CASE op[c].action = "group_delete" -> Req("delete", ref[c], None, None, NoAttrs)
                        [] op[c].action = "member_add"   -> Req("join", ref[c], None, op[c].user, NoAttrs)
                        [] OTHER -> Req("leave", ref[c], None, op[c].user, NoAttrs)

\* Where an answer leads: a 409 to a POST and a 404 to a DELETE are no errors.
AbsenceIsFineForAll(c) == TRUE
AbsenceIsFine(c) == op[c].action \in {"member_remove", "group_delete"}

AfterAnswerRetrying(c, status) ==
    CASE pc[c] = "post"   -> IF status = 204 THEN "verify" ELSE IF status = 409 THEN "post" ELSE "failed"
      [] pc[c] = "update" -> IF status = 204 THEN "reread" ELSE "failed"
      [] OTHER -> IF status = 204 \/ (status = 404 /\ AbsenceIsFine(c)) THEN "ok" ELSE "failed"
AfterAnswerAnew(c, status) ==
    CASE pc[c] = "post"   -> IF status \in {204, 409} THEN "verify" ELSE "failed"
      [] pc[c] = "update" -> IF status = 204 THEN "find" ELSE "failed"
      [] OTHER -> IF status = 204 \/ (status = 404 /\ AbsenceIsFine(c)) THEN "ok" ELSE "failed"
AfterAnswer(c, status) ==
    CASE pc[c] = "post"   -> IF status \in {204, 409} THEN "verify" ELSE "failed"
      [] pc[c] = "update" -> IF status = 204 THEN "reread" ELSE "failed"
      [] OTHER -> IF status = 204 \/ (status = 404 /\ AbsenceIsFine(c))
                  THEN "ok" ELSE "failed"

Send(c) ==
    /\ pc[c] \in Writing
    /\ Serve(RequestOf(c))
    /\ Stop(c, AfterAnswer(c, Answer(RequestOf(c))))

(***************************************************************************)
(* Failures.  Any request may fail without being served (connection, 5xx,  *)
(* token endpoint, expired context), or its answer may be lost: the caller *)
(* takes it for failed, and Keycloak serves it now, later or never.        *)
(***************************************************************************)
Fail(c) ==
    /\ pc[c] \in Reading \cup Writing
    /\ Stop(c, "failed")
    /\ UNCHANGED realm

LoseAnswer(c) ==
    /\ pc[c] \in Writing
    /\ Cardinality(late) < MaxLate
    /\ late' = late \cup {RequestOf(c)}
    /\ pc' = [pc EXCEPT ![c] = "failed"]
    /\ UNCHANGED <<realm, op, ref, depth, edits>>

Arrive(r) ==
    /\ r \in late
    /\ Serve(r)
    /\ late' = late \ {r}
    /\ UNCHANGED <<call, edits>>

Admin ==
    /\ edits < MaxEdits
    /\ AdminEdit
    /\ edits' = edits + 1
    /\ UNCHANGED <<call, late>>

Step(c)   == Find(c) \/ Verify(c) \/ Reread(c) \/ List(c) \/ Send(c)
Outside   == Admin \/ \E r \in late : Arrive(r)
ClientNext == \/ \E c \in Client : \/ \E o \in Operation : Call(c, o)
                                   \/ Step(c) \/ Fail(c) \/ LoseAnswer(c)
              \/ Outside

ClientSpec == ClientInit /\ [][ClientNext]_clientVars
FairClientSpec == ClientSpec /\ \A c \in Client : WF_clientVars(Step(c))

(***************************************************************************)
(* Properties.                                                             *)
(***************************************************************************)

\* Every POST is sent to the parent of the path the call is working on: a
\* parent id that went stale can make it fail, never create a group elsewhere
\* (ensureGroupPath hands parent.ID down, one level at a time).
PostsAimAtTarget ==
    \A c \in Client : pc[c] = "post" => NewPath(RequestOf(c)) = At(c)

\* The id in hand fits the step a call is at, and a POST that may still arrive
\* creates a group inside the tree of paths: what the properties around rest on.
PostOnCourse(c) ==
    \/ ref[c] = None /\ depth[c] = 1
    \/ /\ ref[c] \in GroupId /\ depth[c] > 1
       /\ pathOf[ref[c]] = SubSeq(Target(c), 1, depth[c] - 1)
OnCourse(c) ==
    /\ pc[c] = "find" => ref[c] = None /\ (op[c].action # "group_create" => AtTarget(c))
    /\ pc[c] \in {"list", "update", "mutate"} => ref[c] \in GroupId
    /\ pc[c] = "list" => op[c].action \in {"member_add", "member_remove"}
    /\ pc[c] = "mutate" => op[c].action # "group_create"
    /\ pc[c] \in {"update", "post", "verify", "reread"} => op[c].action = "group_create"
    /\ pc[c] = "update" => pathOf[ref[c]] = Target(c)
    /\ pc[c] = "post" => PostOnCourse(c)
Aimed(r) == r.verb = "post" => /\ r.group # None => pathOf[r.group] \in Path
                               /\ NewPath(r) \in Path
CallsOnCourse == (\A c \in Client : OnCourse(c)) /\ (\A r \in late : Aimed(r))

\* The group a membership or delete call acts on, if it still exists.
ActedOn(c) == IF ref[c] = None THEN GroupsAt(Target(c)) ELSE {ref[c]} \cap live

Outcome(c) ==
    CASE op[c].action = "group_create"  -> GroupsAt(Target(c)) # {}
      [] op[c].action = "member_add"    -> \E g \in ActedOn(c) : op[c].user \in members[g]
      [] op[c].action = "member_remove" -> \A g \in ActedOn(c) : op[c].user \notin members[g]
      [] op[c].action = "group_delete"  -> ActedOn(c) = {}

\* A call that returns without an error did what it says: the group existed,
\* the user was in the group or out of it, or the group was gone, when the
\* request was answered that decided the result.
Decides(c) == pc[c] \notin {"reread", "ok"} /\ pc'[c] \in {"reread", "ok"}
SuccessIsTrue == [][\A c \in Client : Decides(c) => Outcome(c) \/ Outcome(c)']_clientVars

\* Operations that create a group give it the same attributes, and none creates
\* groups on the way to its own that another is to create.
CreatesAgree ==
    \A o, q \in Operation :
        o.action = "group_create" /\ q.action = "group_create" /\ Under(o.path, q.path)
        => o.path = q.path /\ o.attrs = q.attrs

\* A successful CreateOrUpdateGroup also left the mirror attributes on the
\* group, which later repairs recognise it by.  (An administrator who creates the
\* bare group between the lookup and the POST breaks this: the 409 counts as
\* success; other calls, also late ones, do not if CreatesAgree.)
AttributesOf(c) == {attrs[g] : g \in GroupsAt(Target(c))}
SuccessWritesAttributes ==
    [][\A c \in Client :
         edits = 0 /\ Decides(c) /\ op[c].action = "group_create"
         => op[c].attrs \in AttributesOf(c)']_clientVars

\* The calls keep the contract the repair workflow relies on: between its first
\* request and its result a call changes nothing but what its operation is about,
\* whatever interleaves with it, and its result is true (KeycloakContract).
PhaseOf(step) == CASE step = "reread" -> "done"
                   [] step \in {"idle", "ok", "failed"} -> step
                   [] OTHER -> "busy"
Phase == [c \in Client |-> PhaseOf(pc[c])]
Aim   == [c \in Client |-> IF op[c].action = "group_create" THEN None ELSE ref[c]]

Contract == INSTANCE KeycloakContract WITH phase <- Phase, aim <- Aim
KeepsContract == Contract!Spec

\* How many steps a call for o has left at most when it is at a step: a creation
\* climbs one level after the other (d), then posts and lists again at each level,
\* or updates and reads back.
StepsFrom(o, step, d) ==
    CASE step = "find"   -> IF o.action = "group_create" THEN d + 2 * Len(o.path) ELSE 3
      [] step = "post"   -> 2 * (Len(o.path) - d) + 2
      [] step = "verify" -> 2 * (Len(o.path) - d) + 1
      [] step \in {"update", "list"}   -> 2
      [] step \in {"reread", "mutate"} -> 1
      [] OTHER -> 0
StepsLeft(c) == StepsFrom(op[c], pc[c], depth[c])

\* Whatever answers a call gets, each of its own steps brings it closer to its end
\* and nothing else moves it: ensureGroupPath calls itself for the parent only, and
\* no failure, conflict or vanished group makes a call start over.  Any operation
\* on a group at level n takes at most 3 * n steps.
Moves(c) == pc'[c] # pc[c] \/ ref'[c] # ref[c] \/ depth'[c] # depth[c]
CallsAdvance ==
    [][\A c \in Client : pc[c] # "idle" /\ Moves(c) =>
         StepsLeft(c) \in 1..(3 * Len(Target(c))) /\ StepsLeft(c)' < StepsLeft(c)]_clientVars

\* Every call ends with a result, whatever the other clients and the
\* administrator do: climbing to a missing ancestor and coming down again is
\* never started over.
CallsEnd == \A c \in Client : pc[c] # "idle" ~> pc[c] \in Settled
==============================================================================
