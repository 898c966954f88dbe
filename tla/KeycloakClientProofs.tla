------------------------ MODULE KeycloakClientProofs ------------------------
(***************************************************************************)
(* Theorems about KeycloakClient, for any number of clients, any set of    *)
(* operations, any paths, and without bounds on the length of an execution.*)
(*                                                                         *)
(* ClientInv, the type invariant together with CallsOnCourse, is           *)
(* inductive.  Two facts carry it: Keycloak never gives a group id a       *)
(* second path (PathsStay), so what a call has learnt about the id in hand *)
(* stays true while others change the realm; and the paths are closed      *)
(* under prefixes, so that a POST to the parent a call has found creates   *)
(* the next level of its own target.                                       *)
(***************************************************************************)
EXTENDS KeycloakClient, KeycloakRealmProofs

\* Serving a request whose POST aims at a path of Path.
LEMMA ServeKeepsRealm ==
    ASSUME RealmTypeOK, NEW r \in Request, Aimed(r), Serve(r)
    PROVE  RealmTypeOK' /\ PathsStay
<1>1. CASE UNCHANGED realm
  BY <1>1 DEF RealmTypeOK, realm, PathsStay
<1>2. CASE Answer(r) = 204 /\ r.verb = "post" /\ \E g \in GroupId : AddGroup(g, NewPath(r), r.attrs)
  <2>1. NewPath(r) \in Path /\ r.attrs \in Attrs
    BY <1>2 DEF Aimed, Request
  <2>. QED
    BY <1>2, <2>1, AddGroupKeepsRealm
<1>3. CASE Answer(r) = 204 /\ r.verb # "post"
  <2>1. r.group \in live /\ r.group \in GroupId
    BY <1>3 DEF Answer, RealmTypeOK
  <2>2. r.attrs \in Attrs /\ (r.verb = "join" => r.user \in Account)
                          /\ (r.verb = "leave" => r.user \in User)
    BY <1>3, AccountAssumption DEF Answer, Request
  <2>3. \/ r.verb = "put" /\ SetAttrs(r.group, r.attrs)
        \/ r.verb = "delete" /\ DropGroup(r.group)
        \/ r.verb = "join" /\ Join(r.group, r.user)
        \/ r.verb = "leave" /\ Leave(r.group, r.user)
    BY <1>3 DEF Serve
  <2>. QED
    BY <2>1, <2>2, <2>3, OtherChangesKeepRealm
<1>. QED
  BY <1>1, <1>2, <1>3 DEF Serve

(***************************************************************************)
(* The inductive invariant.                                                *)
(***************************************************************************)
ClientInv == ClientTypeOK /\ CallsOnCourse

\* The paths a call works with.
LEMMA TargetFacts ==
    ASSUME ClientTypeOK, NEW c \in Client
    PROVE  /\ op[c] \in Operation
           /\ Target(c) \in Path
           /\ depth[c] \in 1..Len(Target(c))
           /\ At(c) \in Path
           /\ AtTarget(c) => At(c) = Target(c)
<1>1. op[c] \in Operation /\ Target(c) \in Path /\ depth[c] \in 1..Len(Target(c))
  BY OperationAssumption DEF ClientTypeOK, Target
<1>. QED
  BY <1>1, PathFacts DEF At, AtTarget

\* findGroupByPath: a group it finds exists and has that path; if it finds none,
\* there is none.
LEMMA FoundFacts ==
    ASSUME ClientTypeOK, NEW c \in Client
    PROVE  /\ Found(c) # None => Found(c) \in live /\ Found(c) \in GroupId
                                 /\ pathOf[Found(c)] = At(c)
           /\ Found(c) = None => GroupsAt(At(c)) = {}
BY NoneAssumption DEF Found, GroupAt, GroupsAt, ClientTypeOK, RealmTypeOK

\* What holds of the paths of issued ids keeps holding.
LEMMA StaysOnCourse ==
    ASSUME ClientTypeOK, PathsStay, NEW c \in Client, OnCourse(c),
           pc'[c] = pc[c], op'[c] = op[c], ref'[c] = ref[c], depth'[c] = depth[c]
    PROVE  OnCourse(c)'
<1>1. Target(c) \in Path /\ \A k \in 1..Len(Target(c)) : SubSeq(Target(c), 1, k) \in Path
  BY TargetFacts, PathFacts
<1>2. Target(c)' = Target(c) /\ AtTarget(c)' = AtTarget(c)
  BY DEF Target, AtTarget
<1>3. ASSUME pc[c] = "update" PROVE pathOf'[ref[c]] = Target(c)
  BY <1>1, <1>3, NoneAssumption DEF OnCourse, PathsStay
<1>4. ASSUME pc[c] = "post" PROVE PostOnCourse(c)'
  <2>1. PostOnCourse(c)
    BY <1>4 DEF OnCourse
  <2>2. CASE ref[c] = None /\ depth[c] = 1
    BY <2>2 DEF PostOnCourse
  <2>3. CASE /\ ref[c] \in GroupId /\ depth[c] > 1
             /\ pathOf[ref[c]] = SubSeq(Target(c), 1, depth[c] - 1)
    <3>1. depth[c] - 1 \in 1..Len(Target(c))
      BY <2>3, TargetFacts, PathFacts
    <3>2. pathOf[ref[c]] # None
      BY <1>1, <2>3, <3>1, NoneAssumption
    <3>. QED
      BY <1>2, <2>3, <3>2 DEF PostOnCourse, PathsStay
  <2>. QED
    BY <2>1, <2>2, <2>3 DEF PostOnCourse
<1>. QED
  BY <1>2, <1>3, <1>4 DEF OnCourse

\* A POST that was aimed inside the tree of paths still is.
LEMMA StaysAimed ==
    ASSUME RealmTypeOK, PathsStay, NEW r \in Request, Aimed(r)
    PROVE  Aimed(r)'
<1>. SUFFICES ASSUME r.verb = "post"
              PROVE  (r.group # None => pathOf'[r.group] \in Path) /\ NewPath(r)' \in Path
  BY DEF Aimed
<1>1. CASE r.group = None
  BY <1>1 DEF Aimed, NewPath
<1>2. CASE r.group # None
  <2>1. r.group \in GroupId /\ pathOf[r.group] \in Path
    BY <1>2 DEF Request, Aimed
  <2>2. pathOf'[r.group] = pathOf[r.group]
    BY <2>1, NoneAssumption DEF PathsStay
  <2>. QED
    BY <1>2, <2>1, <2>2 DEF Aimed, NewPath
<1>. QED
  BY <1>1, <1>2

\* The request of a writing call is one of Request, and a POST creates the level
\* the call is at.
LEMMA RequestFacts ==
    ASSUME ClientTypeOK, NEW c \in Client, OnCourse(c), pc[c] \in Writing
    PROVE  /\ RequestOf(c) \in Request
           /\ Aimed(RequestOf(c))
           /\ pc[c] = "post" => NewPath(RequestOf(c)) = At(c)
           /\ (RequestOf(c).verb = "post") = (pc[c] = "post")
           /\ RequestOf(c).group = ref[c]
<1>1. /\ op[c] \in Operation /\ Target(c) \in Path
      /\ depth[c] \in 1..Len(Target(c)) /\ At(c) \in Path
  BY TargetFacts
<1>2. /\ op[c].attrs \in Attrs /\ op[c].user \in User \cup {None}
      /\ op[c].action \in Action
  BY <1>1, OperationAssumption
<1>3. Target(c)[depth[c]] \in Segment
  BY <1>1, PathFacts
<1>4. ref[c] \in GroupId \cup {None}
  BY DEF ClientTypeOK
<1>5. RequestOf(c) \in Request /\ RequestOf(c).group = ref[c]
      /\ ((RequestOf(c).verb = "post") = (pc[c] = "post"))
  BY <1>2, <1>3, <1>4, AttrsAssumption
     DEF RequestOf, Request, Verb, Writing, PostAttrs, PutAttrs
<1>6. ASSUME pc[c] = "post"
      PROVE  /\ NewPath(RequestOf(c)) = At(c)
             /\ ref[c] # None => pathOf[ref[c]] \in Path
  <2>1. RequestOf(c).group = ref[c] /\ RequestOf(c).name = Target(c)[depth[c]]
    BY <1>6 DEF RequestOf
  <2>2. CASE ref[c] = None /\ depth[c] = 1
    BY <1>1, <2>1, <2>2, PathFacts DEF NewPath, At
  <2>3. CASE /\ ref[c] \in GroupId /\ depth[c] > 1
             /\ pathOf[ref[c]] = SubSeq(Target(c), 1, depth[c] - 1)
    <3>1. depth[c] \in 2..Len(Target(c)) /\ depth[c] - 1 \in 1..Len(Target(c))
      BY <1>1, <2>3, PathFacts
    <3>2. ref[c] # None
      BY <2>3, NoneAssumption
    <3>3. NewPath(RequestOf(c)) = SubSeq(Target(c), 1, depth[c])
      BY <1>1, <2>1, <2>3, <3>1, <3>2, NextPrefix DEF NewPath
    <3>. QED
      BY <1>1, <2>3, <3>1, <3>3, PathFacts DEF At
  <2>. QED
    BY <1>6, <2>2, <2>3 DEF OnCourse, PostOnCourse
<1>. QED
  BY <1>1, <1>5, <1>6 DEF Aimed

(***************************************************************************)
(* The inductive invariant holds initially, and every action keeps it.     *)
(***************************************************************************)
LEMMA InitEstablishesClientInv ==
    ASSUME ClientInit
    PROVE  ClientInv
<1>1. RealmTypeOK
  BY StartAssumption DEF ClientInit, RealmInit, RealmTypeOK
<1>2. \A c \in Client : op[c] \in Operation /\ Len(op[c].path) \in Nat \ {0}
  <2>1. (CHOOSE o \in Operation : TRUE) \in Operation
    BY OperationExists
  <2>. QED
    BY <2>1, OperationAssumption, PathFacts DEF ClientInit
<1>3. ClientTypeOK
  BY <1>1, <1>2, BoundAssumption DEF ClientInit, ClientTypeOK, CallStep
<1>4. CallsOnCourse
  BY DEF ClientInit, CallsOnCourse, OnCourse
<1>. QED
  BY <1>3, <1>4 DEF ClientInv

\* A step that moves one call on: it is enough that this call stays on course.
LEMMA MoveKeepsClientInv ==
    ASSUME ClientInv, RealmTypeOK', PathsStay, NEW c \in Client,
           pc' \in [Client -> CallStep], op' \in [Client -> Operation],
           ref' \in [Client -> GroupId \cup {None}], depth' \in [Client -> Nat],
           \A d \in Client \ {c} : /\ pc'[d] = pc[d] /\ op'[d] = op[d]
                                   /\ ref'[d] = ref[d] /\ depth'[d] = depth[d],
           depth'[c] \in 1..Len(op'[c].path), OnCourse(c)',
           late' = late \/ \E r \in Request : late' = late \cup {r} /\ Aimed(r),
           edits' = edits
    PROVE  ClientInv'
<1>1. ClientTypeOK'
  <2>1. \A d \in Client : depth'[d] \in 1..Len(op'[d].path)
    BY DEF ClientInv, ClientTypeOK
  <2>2. late' \subseteq Request
    BY DEF ClientInv, ClientTypeOK
  <2>. QED
    BY <2>1, <2>2 DEF ClientInv, ClientTypeOK
<1>2. \A d \in Client : OnCourse(d)'
  BY StaysOnCourse DEF ClientInv, CallsOnCourse
<1>3. \A r \in late' : Aimed(r)'
  BY StaysAimed DEF ClientInv, CallsOnCourse, ClientTypeOK
<1>. QED
  BY <1>1, <1>2, <1>3 DEF ClientInv, CallsOnCourse

\* Goto, as far as the invariant is concerned.
LEMMA GotoKeepsClientInv ==
    ASSUME ClientInv, RealmTypeOK', PathsStay, NEW c \in Client,
           NEW step \in CallStep, NEW g \in GroupId \cup {None},
           NEW d \in 1..Len(Target(c)), Goto(c, step, g, d),
           OnCourse(c)'
    PROVE  ClientInv'
<1>1. /\ pc' = [pc EXCEPT ![c] = step] /\ ref' = [ref EXCEPT ![c] = g]
      /\ depth' = [depth EXCEPT ![c] = d]
      /\ op' = op /\ late' = late /\ edits' = edits
  BY DEF Goto
<1>2. /\ pc' \in [Client -> CallStep] /\ op' \in [Client -> Operation]
      /\ ref' \in [Client -> GroupId \cup {None}] /\ depth' \in [Client -> Nat]
  BY <1>1 DEF ClientInv, ClientTypeOK
<1>3. \A e \in Client \ {c} : /\ pc'[e] = pc[e] /\ op'[e] = op[e]
                              /\ ref'[e] = ref[e] /\ depth'[e] = depth[e]
  BY <1>1 DEF ClientInv, ClientTypeOK
<1>4. depth'[c] \in 1..Len(op'[c].path)
  BY <1>1 DEF ClientInv, ClientTypeOK, Target
<1>. QED
  BY <1>1, <1>2, <1>3, <1>4, MoveKeepsClientInv

\* Ending a call puts it nowhere it could be off course.
LEMMA StopKeepsClientInv ==
    ASSUME ClientInv, RealmTypeOK', PathsStay, NEW c \in Client,
           NEW result \in {"ok", "failed", "verify", "reread"}, Stop(c, result),
           result \in {"verify", "reread"} => op[c].action = "group_create"
    PROVE  ClientInv'
<1>1. ref[c] \in GroupId \cup {None} /\ depth[c] \in 1..Len(Target(c))
  BY DEF ClientInv, ClientTypeOK, Target
<1>2. result \in CallStep
  BY DEF CallStep, Reading, Settled
<1>3. pc'[c] = result /\ op' = op
  BY DEF Stop, Goto, ClientInv, ClientTypeOK
<1>4. OnCourse(c)'
  BY <1>3 DEF OnCourse
<1>. QED
  BY <1>1, <1>2, <1>4, GotoKeepsClientInv DEF Stop

\* Steps that only read.
LEMMA RealmUnchanged ==
    ASSUME RealmTypeOK, UNCHANGED realm
    PROVE  RealmTypeOK' /\ PathsStay
BY DEF RealmTypeOK, realm, PathsStay

LEMMA CallKeepsClientInv ==
    ASSUME ClientInv, NEW c \in Client, NEW o \in Operation, Call(c, o)
    PROVE  ClientInv'
<1>1. RealmTypeOK' /\ PathsStay
  BY RealmUnchanged DEF ClientInv, ClientTypeOK, Call
<1>2. /\ o.path \in Path /\ o.gid \in GroupId \cup {None} /\ o.action \in Action
      /\ Len(o.path) \in 1..Len(o.path)
  BY OperationAssumption, PathFacts
<1>3. FirstStep(o) \in {"find", "mutate", "list"}
  BY DEF FirstStep
<1>4. /\ pc' = [pc EXCEPT ![c] = FirstStep(o)] /\ op' = [op EXCEPT ![c] = o]
      /\ ref' = [ref EXCEPT ![c] = IF FirstStep(o) = "find" THEN None ELSE o.gid]
      /\ depth' = [depth EXCEPT ![c] = Len(o.path)]
      /\ late' = late /\ edits' = edits
  BY DEF Call
<1>5. /\ pc' \in [Client -> CallStep] /\ op' \in [Client -> Operation]
      /\ ref' \in [Client -> GroupId \cup {None}] /\ depth' \in [Client -> Nat]
  BY <1>2, <1>3, <1>4 DEF ClientInv, ClientTypeOK, CallStep, Reading, Writing
<1>6. \A d \in Client \ {c} : /\ pc'[d] = pc[d] /\ op'[d] = op[d]
                              /\ ref'[d] = ref[d] /\ depth'[d] = depth[d]
  BY <1>4 DEF ClientInv, ClientTypeOK
<1>7. /\ pc'[c] = FirstStep(o) /\ op'[c] = o /\ depth'[c] = Len(o.path)
      /\ ref'[c] = IF FirstStep(o) = "find" THEN None ELSE o.gid
  BY <1>4 DEF ClientInv, ClientTypeOK
<1>8. OnCourse(c)'
  BY <1>2, <1>3, <1>7 DEF OnCourse, FirstStep, AtTarget, Target, Action
<1>. QED
  BY <1>1, <1>2, <1>4, <1>5, <1>6, <1>7, <1>8, MoveKeepsClientInv

\* Where a call stands after Goto.
LEMMA AfterGoto ==
    ASSUME ClientTypeOK, NEW c \in Client, NEW step, NEW g, NEW d, Goto(c, step, g, d)
    PROVE  /\ pc'[c] = step /\ ref'[c] = g /\ depth'[c] = d
           /\ op' = op /\ Target(c)' = Target(c)
BY DEF Goto, ClientTypeOK, Target

LEMMA FindKeepsClientInv ==
    ASSUME ClientInv, NEW c \in Client, Find(c)
    PROVE  ClientInv'
<1>. /\ ClientTypeOK /\ OnCourse(c) /\ pc[c] = "find"
     /\ op[c].action \in Action
  BY TargetFacts, OperationAssumption DEF ClientInv, CallsOnCourse, Find
<1>1. RealmTypeOK' /\ PathsStay /\ pathOf' = pathOf
  BY RealmUnchanged DEF ClientTypeOK, Find, realm
<1>2. /\ Target(c) \in Path /\ Len(Target(c)) \in Nat \ {0}
      /\ depth[c] \in 1..Len(Target(c))
  BY TargetFacts, PathFacts
<1>3. CASE op[c].action = "group_create" /\ Found(c) # None /\ AtTarget(c)
            /\ Goto(c, "update", Found(c), depth[c])
  <2>1. Found(c) \in GroupId /\ pathOf[Found(c)] = Target(c)
    BY <1>3, FoundFacts, TargetFacts
  <2>2. OnCourse(c)'
    BY <1>1, <1>3, <2>1, AfterGoto DEF OnCourse
  <2>. QED
    BY <1>1, <1>2, <1>3, <2>1, <2>2, GotoKeepsClientInv DEF CallStep, Writing
<1>4. CASE op[c].action = "group_create" /\ Found(c) # None /\ ~AtTarget(c)
            /\ Goto(c, "post", Found(c), Below(c))
  <2>1. Found(c) \in GroupId /\ pathOf[Found(c)] = SubSeq(Target(c), 1, depth[c])
    BY <1>4, FoundFacts DEF At
  <2>2. Below(c) \in 1..Len(Target(c)) /\ Below(c) > 1 /\ Below(c) - 1 = depth[c]
    BY <1>2, <1>4 DEF Below, AtTarget
  <2>3. OnCourse(c)'
    BY <1>1, <1>4, <2>1, <2>2, AfterGoto DEF OnCourse, PostOnCourse
  <2>. QED
    BY <1>1, <1>4, <2>1, <2>2, <2>3, GotoKeepsClientInv DEF CallStep, Writing
<1>5. CASE op[c].action = "group_create" /\ HasParent(c) /\ Goto(c, "find", None, depth[c] - 1)
  <2>1. depth[c] - 1 \in 1..Len(Target(c))
    BY <1>2, <1>5 DEF HasParent
  <2>2. OnCourse(c)'
    BY <1>5, AfterGoto DEF OnCourse
  <2>. QED
    BY <1>1, <1>5, <2>1, <2>2, GotoKeepsClientInv DEF CallStep, Reading
<1>6. CASE op[c].action = "group_create" /\ Goto(c, "post", None, 1)
  <2>1. OnCourse(c)'
    BY <1>6, AfterGoto DEF OnCourse, PostOnCourse
  <2>2. 1 \in 1..Len(Target(c))
    BY <1>2
  <2>3. "post" \in CallStep
    BY DEF CallStep, Writing
  <2>. QED
    BY <1>1, <1>6, <2>1, <2>2, <2>3, GotoKeepsClientInv
<1>7. CASE op[c].action \in {"member_add", "member_remove"} /\ Found(c) # None
            /\ Goto(c, "list", Found(c), depth[c])
  <2>1. Found(c) \in GroupId
    BY <1>7, FoundFacts
  <2>2. OnCourse(c)'
    BY <1>7, <2>1, AfterGoto DEF OnCourse
  <2>. QED
    BY <1>1, <1>2, <1>7, <2>1, <2>2, GotoKeepsClientInv DEF CallStep, Reading
<1>8. CASE op[c].action = "group_delete" /\ Found(c) # None
            /\ Goto(c, "mutate", Found(c), depth[c])
  <2>1. Found(c) \in GroupId
    BY <1>8, FoundFacts
  <2>2. OnCourse(c)'
    BY <1>8, <2>1, AfterGoto DEF OnCourse
  <2>. QED
    BY <1>1, <1>2, <1>8, <2>1, <2>2, GotoKeepsClientInv DEF CallStep, Writing
<1>9. CASE Stop(c, "ok") \/ Stop(c, "failed")
  BY <1>1, <1>9, StopKeepsClientInv
<1>. QED
  BY <1>3, <1>4, <1>5, <1>6, <1>7, <1>8, <1>9 DEF Find

LEMMA VerifyKeepsClientInv ==
    ASSUME ClientInv, NEW c \in Client, Verify(c)
    PROVE  ClientInv'
<1>. ClientTypeOK /\ OnCourse(c) /\ op[c].action = "group_create"
  BY DEF ClientInv, CallsOnCourse, Verify, OnCourse
<1>1. RealmTypeOK' /\ PathsStay /\ pathOf' = pathOf
  BY RealmUnchanged DEF ClientTypeOK, Verify, realm
<1>2. /\ Target(c) \in Path /\ Len(Target(c)) \in Nat \ {0}
      /\ depth[c] \in 1..Len(Target(c))
  BY TargetFacts, PathFacts
<1>3. CASE Stop(c, "failed")
  BY <1>1, <1>3, StopKeepsClientInv
<1>4. CASE Found(c) # None /\ Goto(c, "ok", Found(c), depth[c])
  <2>1. OnCourse(c)'
    BY <1>4, AfterGoto DEF OnCourse
  <2>. QED
    BY <1>1, <1>2, <1>4, <2>1, FoundFacts, GotoKeepsClientInv DEF CallStep, Settled
<1>5. CASE Found(c) # None /\ ~AtTarget(c) /\ Goto(c, "post", Found(c), Below(c))
  <2>1. Found(c) \in GroupId /\ pathOf[Found(c)] = SubSeq(Target(c), 1, depth[c])
    BY <1>5, FoundFacts DEF At
  <2>2. Below(c) \in 1..Len(Target(c)) /\ Below(c) > 1 /\ Below(c) - 1 = depth[c]
    BY <1>2, <1>5 DEF Below, AtTarget
  <2>3. OnCourse(c)'
    BY <1>1, <1>5, <2>1, <2>2, AfterGoto DEF OnCourse, PostOnCourse
  <2>. QED
    BY <1>1, <1>5, <2>1, <2>2, <2>3, GotoKeepsClientInv DEF CallStep, Writing
<1>. QED
  BY <1>3, <1>4, <1>5 DEF Verify

LEMMA ListKeepsClientInv ==
    ASSUME ClientInv, NEW c \in Client, List(c)
    PROVE  ClientInv'
<1>. /\ ClientTypeOK /\ OnCourse(c)
     /\ op[c].action \in {"member_add", "member_remove"} /\ ref[c] \in GroupId
  BY DEF ClientInv, CallsOnCourse, List, OnCourse
<1>1. RealmTypeOK' /\ PathsStay
  BY RealmUnchanged DEF ClientTypeOK, List
<1>2. CASE Stop(c, "ok") \/ Stop(c, "failed")
  BY <1>1, <1>2, StopKeepsClientInv
<1>3. CASE Stop(c, "mutate")
  <2>1. Goto(c, "mutate", ref[c], depth[c]) /\ depth[c] \in 1..Len(Target(c))
    BY <1>3, TargetFacts DEF Stop
  <2>2. OnCourse(c)'
    BY <2>1, AfterGoto DEF OnCourse
  <2>. QED
    BY <1>1, <2>1, <2>2, GotoKeepsClientInv DEF CallStep, Writing
<1>. QED
  BY <1>2, <1>3 DEF List, WithoutGroup

LEMMA RereadKeepsClientInv ==
    ASSUME ClientInv, NEW c \in Client, Reread(c)
    PROVE  ClientInv'
BY RealmUnchanged, StopKeepsClientInv DEF ClientInv, ClientTypeOK, Reread

\* The realm after a request of a call was served.
LEMMA SendKeepsRealm ==
    ASSUME ClientInv, NEW c \in Client, Send(c)
    PROVE  RealmTypeOK' /\ PathsStay
<1>1. RequestOf(c) \in Request /\ Aimed(RequestOf(c))
  BY RequestFacts DEF ClientInv, CallsOnCourse, Send
<1>. QED
  BY <1>1, ServeKeepsRealm DEF ClientInv, ClientTypeOK, Send

LEMMA SendKeepsClientInv ==
    ASSUME ClientInv, NEW c \in Client, Send(c)
    PROVE  ClientInv'
<1>1. RealmTypeOK' /\ PathsStay
  BY SendKeepsRealm
<1>2. PICK result : /\ result = AfterAnswer(c, Answer(RequestOf(c)))
                    /\ Stop(c, result)
  BY DEF Send
<1>3. /\ result \in {"ok", "failed", "verify", "reread"}
      /\ result \in {"verify", "reread"} => op[c].action = "group_create"
  BY <1>2 DEF AfterAnswer, ClientInv, CallsOnCourse, OnCourse
<1>. QED
  BY <1>1, <1>2, <1>3, StopKeepsClientInv

LEMMA FailKeepsClientInv ==
    ASSUME ClientInv, NEW c \in Client, Fail(c)
    PROVE  ClientInv'
BY RealmUnchanged, StopKeepsClientInv DEF ClientInv, ClientTypeOK, Fail

LEMMA LoseAnswerKeepsClientInv ==
    ASSUME ClientInv, NEW c \in Client, LoseAnswer(c)
    PROVE  ClientInv'
<1>1. RealmTypeOK' /\ PathsStay
  BY RealmUnchanged DEF ClientInv, ClientTypeOK, LoseAnswer
<1>2. RequestOf(c) \in Request /\ Aimed(RequestOf(c))
  BY RequestFacts DEF ClientInv, CallsOnCourse, LoseAnswer
<1>3. /\ pc' = [pc EXCEPT ![c] = "failed"] /\ op' = op /\ ref' = ref /\ depth' = depth
      /\ late' = late \cup {RequestOf(c)} /\ edits' = edits
  BY DEF LoseAnswer
<1>4. /\ pc' \in [Client -> CallStep] /\ op' \in [Client -> Operation]
      /\ ref' \in [Client -> GroupId \cup {None}] /\ depth' \in [Client -> Nat]
  BY <1>3 DEF ClientInv, ClientTypeOK, CallStep, Settled
<1>5. /\ pc'[c] = "failed" /\ \A d \in Client \ {c} : pc'[d] = pc[d]
      /\ depth'[c] \in 1..Len(op'[c].path)
  BY <1>3 DEF ClientInv, ClientTypeOK
<1>6. OnCourse(c)'
  BY <1>5 DEF OnCourse
<1>. QED
  BY <1>1, <1>2, <1>3, <1>4, <1>5, <1>6, MoveKeepsClientInv

\* Steps that leave the calls alone.
LEMMA OutsideKeepsClientInv ==
    ASSUME ClientInv, RealmTypeOK', PathsStay, UNCHANGED call,
           late' \subseteq late, edits' \in 0..MaxEdits
    PROVE  ClientInv'
<1>1. ClientTypeOK'
  BY DEF ClientInv, ClientTypeOK, call
<1>2. \A c \in Client : OnCourse(c)'
  BY StaysOnCourse DEF ClientInv, CallsOnCourse, call
<1>3. \A r \in late' : Aimed(r)'
  BY StaysAimed DEF ClientInv, CallsOnCourse, ClientTypeOK
<1>. QED
  BY <1>1, <1>2, <1>3 DEF ClientInv, CallsOnCourse

LEMMA ArriveKeepsClientInv ==
    ASSUME ClientInv, NEW r \in late, Arrive(r)
    PROVE  ClientInv'
<1>1. RealmTypeOK' /\ PathsStay
  BY ServeKeepsRealm DEF ClientInv, ClientTypeOK, CallsOnCourse, Arrive
<1>. QED
  BY <1>1, OutsideKeepsClientInv DEF ClientInv, ClientTypeOK, Arrive

LEMMA AdminKeepsClientInv ==
    ASSUME ClientInv, Admin
    PROVE  ClientInv'
<1>1. RealmTypeOK' /\ PathsStay
  BY AdminKeepsRealm DEF ClientInv, ClientTypeOK, Admin
<1>2. edits' \in 0..MaxEdits
  BY BoundAssumption DEF ClientInv, ClientTypeOK, Admin
<1>. QED
  BY <1>1, <1>2, OutsideKeepsClientInv DEF Admin

LEMMA NextKeepsClientInv ==
    ASSUME ClientInv, [ClientNext]_clientVars
    PROVE  ClientInv'
<1>1. ASSUME NEW c \in Client, NEW o \in Operation, Call(c, o) PROVE ClientInv'
  BY <1>1, CallKeepsClientInv
<1>2. ASSUME NEW c \in Client, Find(c) PROVE ClientInv'
  BY <1>2, FindKeepsClientInv
<1>3. ASSUME NEW c \in Client, Verify(c) PROVE ClientInv'
  BY <1>3, VerifyKeepsClientInv
<1>4. ASSUME NEW c \in Client, Reread(c) PROVE ClientInv'
  BY <1>4, RereadKeepsClientInv
<1>5. ASSUME NEW c \in Client, List(c) PROVE ClientInv'
  BY <1>5, ListKeepsClientInv
<1>6. ASSUME NEW c \in Client, Send(c) PROVE ClientInv'
  BY <1>6, SendKeepsClientInv
<1>7. ASSUME NEW c \in Client, Fail(c) PROVE ClientInv'
  BY <1>7, FailKeepsClientInv
<1>8. ASSUME NEW c \in Client, LoseAnswer(c) PROVE ClientInv'
  BY <1>8, LoseAnswerKeepsClientInv
<1>9. ASSUME NEW r \in late, Arrive(r) PROVE ClientInv'
  BY <1>9, ArriveKeepsClientInv
<1>10. CASE Admin
  BY <1>10, AdminKeepsClientInv
<1>11. CASE UNCHANGED clientVars
  <2>1. RealmTypeOK' /\ PathsStay
    BY <1>11, RealmUnchanged DEF clientVars, ClientInv, ClientTypeOK
  <2>. QED
    BY <1>11, <2>1, OutsideKeepsClientInv DEF clientVars, ClientInv, ClientTypeOK
<1>. QED
  BY <1>1, <1>2, <1>3, <1>4, <1>5, <1>6, <1>7, <1>8, <1>9, <1>10, <1>11
     DEF ClientNext, Step, Outside

(***************************************************************************)
(* The theorems.                                                           *)
(***************************************************************************)
THEOREM ClientInvariant == ClientSpec => []ClientInv
<1>1. ClientInit => ClientInv
  BY InitEstablishesClientInv
<1>2. ClientInv /\ [ClientNext]_clientVars => ClientInv'
  BY NextKeepsClientInv
<1>. QED
  BY <1>1, <1>2, PTL DEF ClientSpec

\* Type correctness of the client and of the realm it changes.
THEOREM TypeCorrect == ClientSpec => []ClientTypeOK
BY ClientInvariant, PTL DEF ClientInv

\* However often ids go stale under a call, its id in hand fits the step it is
\* at, and POSTs whose caller gave up still aim inside the tree of paths.
THEOREM CallsStayOnCourse == ClientSpec => []CallsOnCourse
BY ClientInvariant, PTL DEF ClientInv

\* No POST of ensureGroupPath or CreateOrUpdateGroup is ever sent to another
\* parent than the one of the path the call is working on.
THEOREM PostsAim == ClientSpec => []PostsAimAtTarget
<1>1. ClientInv => PostsAimAtTarget
  BY RequestFacts DEF ClientInv, CallsOnCourse, PostsAimAtTarget, Writing
<1>. QED
  BY <1>1, ClientInvariant, PTL

(***************************************************************************)
(* A call that returns without an error has done what it says.             *)
(***************************************************************************)

\* The steps that can decide a call for success.
LEMMA DecidingSteps ==
    ASSUME ClientInv, [ClientNext]_clientVars, NEW c \in Client, Decides(c)
    PROVE  Find(c) \/ Verify(c) \/ List(c) \/ Send(c)
<1>. ClientTypeOK /\ pc'[c] # pc[c]
  BY DEF ClientInv, Decides
<1>1. \A d \in Client \ {c} : ~(Step(d) \/ Fail(d) \/ LoseAnswer(d))
  <2>1. \A d \in Client \ {c} : \A step, g, k : Goto(d, step, g, k) => pc'[c] = pc[c]
    BY DEF Goto, ClientTypeOK
  <2>2. \A d \in Client \ {c} : \A result : Stop(d, result) => pc'[c] = pc[c]
    BY <2>1 DEF Stop
  <2>3. \A d \in Client \ {c} : LoseAnswer(d) => pc'[c] = pc[c]
    BY DEF LoseAnswer, ClientTypeOK
  <2>. QED
    BY <2>1, <2>2, <2>3 DEF Step, Find, Verify, Reread, List, Send, Fail
<1>2. \A d \in Client, o \in Operation : ~Call(d, o)
  <2>1. \A d \in Client \ {c}, o \in Operation : Call(d, o) => pc'[c] = pc[c]
    BY DEF Call, ClientTypeOK
  <2>2. \A o \in Operation : Call(c, o) => pc'[c] \notin {"reread", "ok"}
    BY DEF Call, FirstStep, ClientTypeOK
  <2>. QED
    BY <2>1, <2>2 DEF Decides
<1>3. ~(Reread(c) \/ Fail(c) \/ LoseAnswer(c))
  BY DEF Decides, Reread, Fail, LoseAnswer, Stop, Goto, ClientTypeOK
<1>4. ~(Outside \/ UNCHANGED clientVars)
  BY DEF Outside, Admin, Arrive, call, clientVars
<1>. QED
  BY <1>1, <1>2, <1>3, <1>4 DEF ClientNext, Step

LEMMA FindDecides ==
    ASSUME ClientInv, NEW c \in Client, Find(c), Decides(c)
    PROVE  Outcome(c)
<1>. ClientTypeOK /\ OnCourse(c) /\ pc[c] = "find"
  BY DEF ClientInv, CallsOnCourse, Find
<1>1. \A step, g, d : Goto(c, step, g, d) => step \in {"reread", "ok"}
  BY AfterGoto DEF Decides
<1>2. op[c].action \in {"member_remove", "group_delete"} /\ Found(c) = None
  BY <1>1 DEF Find, Stop
<1>3. At(c) = Target(c) /\ ref[c] = None
  BY <1>2, TargetFacts DEF OnCourse
<1>4. ActedOn(c) = {}
  BY <1>2, <1>3, FoundFacts DEF ActedOn
<1>. QED
  BY <1>2, <1>4 DEF Outcome

LEMMA VerifyDecides ==
    ASSUME ClientInv, NEW c \in Client, Verify(c), Decides(c)
    PROVE  Outcome(c)
<1>. ClientTypeOK /\ op[c].action = "group_create"
  BY DEF ClientInv, CallsOnCourse, Verify, OnCourse
<1>1. \A step, g, d : Goto(c, step, g, d) => step \in {"reread", "ok"}
  BY AfterGoto DEF Decides
<1>2. Found(c) # None /\ AtTarget(c)
  BY <1>1 DEF Verify, Stop
<1>3. Found(c) \in GroupsAt(Target(c))
  BY <1>2, FoundFacts, TargetFacts DEF GroupsAt
<1>. QED
  BY <1>3 DEF Outcome

\* A listing that reaches every member decides rightly.
LEMMA ListDecides ==
    ASSUME IsFiniteSet(Account), Cardinality(Account) <= PageSize,
           ClientInv, NEW c \in Client, List(c), Decides(c)
    PROVE  Outcome(c)
<1>. /\ ClientTypeOK /\ ref[c] \in GroupId /\ ref[c] # None
     /\ op[c].action \in {"member_add", "member_remove"}
  BY NoneAssumption DEF ClientInv, CallsOnCourse, List, OnCourse
<1>1. \A result : Stop(c, result) => result \in {"reread", "ok"}
  BY AfterGoto DEF Decides, Stop
<1>2. CASE ref[c] \notin live
  <2>1. op[c].action = "member_remove" /\ ActedOn(c) = {}
    BY <1>1, <1>2 DEF List, WithoutGroup, ActedOn
  <2>. QED
    BY <2>1 DEF Outcome
<1>3. CASE ref[c] \in live
  <2>1. PICK page \in MemberPages(ref[c]) :
               (op[c].user \in page) = (op[c].action = "member_add")
    BY <1>1, <1>3 DEF List
  <2>2. members[ref[c]] \in SUBSET Account
    BY DEF ClientTypeOK, RealmTypeOK
  <2>3. page = members[ref[c]]
    <3>1. /\ Cardinality(members[ref[c]]) \in Nat /\ Cardinality(Account) \in Nat
          /\ Cardinality(members[ref[c]]) <= Cardinality(Account)
      BY <2>2, FS_Subset, FS_CardinalityType
    <3>2. \/ page = members[ref[c]]
          \/ Cardinality(members[ref[c]]) > PageSize
      BY <2>1 DEF MemberPages
    <3>. QED
      BY <3>1, <3>2, PageSizeAssumption
  <2>4. ActedOn(c) = {ref[c]}
    BY <1>3 DEF ActedOn
  <2>. QED
    BY <2>1, <2>3, <2>4 DEF Outcome
<1>. QED
  BY <1>2, <1>3

LEMMA SendDecides ==
    ASSUME ClientInv, NEW c \in Client, Send(c), Decides(c)
    PROVE  Outcome(c)'
<1>. DEFINE r == RequestOf(c)
<1>. /\ ClientTypeOK /\ OnCourse(c) /\ pc[c] \in Writing
     /\ op[c] \in Operation /\ Target(c) \in Path
  BY TargetFacts DEF ClientInv, CallsOnCourse, Send
<1>1. /\ AfterAnswer(c, Answer(r)) \in {"reread", "ok"}
      /\ op'[c] = op[c] /\ ref'[c] = ref[c] /\ Target(c)' = Target(c)
  BY AfterGoto DEF Send, Stop, Decides
<1>2. pc[c] \in {"update", "mutate"} /\ ref[c] \in GroupId /\ ref[c] # None
  BY <1>1, NoneAssumption DEF AfterAnswer, Writing, OnCourse
<1>3. r.group = ref[c]
  BY RequestFacts
<1>4. CASE pc[c] = "update"
  <2>1. Answer(r) = 204 /\ r.verb = "put"
    BY <1>1, <1>4 DEF AfterAnswer, RequestOf
  <2>2. ref[c] \in live
    BY <1>3, <2>1 DEF Answer
  <2>3. live' = live /\ pathOf' = pathOf
    BY <2>1 DEF Send, Serve, SetAttrs
  <2>4. ref[c] \in GroupsAt(Target(c))' /\ op'[c].action = "group_create"
    BY <1>1, <1>4, <2>2, <2>3 DEF GroupsAt, OnCourse
  <2>. QED
    BY <2>4 DEF Outcome
<1>5. CASE pc[c] = "mutate" /\ op[c].action = "group_delete"
  <2>1. r.verb = "delete"
    BY <1>5 DEF RequestOf
  <2>2. CASE ref[c] \notin live
    <3>1. live' = live
      BY <1>3, <2>1, <2>2 DEF Send, Serve, Answer, realm
    <3>. QED
      BY <1>1, <1>2, <1>5, <2>2, <3>1 DEF Outcome, ActedOn
  <2>3. CASE ref[c] \in live
    <3>1. Answer(r) = 204
      BY <1>3, <2>1, <2>3 DEF Answer
    <3>2. DropGroup(ref[c])
      BY <1>3, <2>1, <3>1 DEF Send, Serve
    <3>3. pathOf[ref[c]] \in Path
      BY <2>3 DEF ClientTypeOK, RealmTypeOK
    <3>4. ref[c] \notin live'
      BY <3>2, <3>3, PathFacts DEF DropGroup, Under
    <3>. QED
      BY <1>1, <1>2, <1>5, <3>4 DEF Outcome, ActedOn
  <2>. QED
    BY <2>2, <2>3
<1>6. CASE pc[c] = "mutate" /\ op[c].action = "member_add"
  <2>1. Answer(r) = 204 /\ r.verb = "join" /\ r.user = op[c].user
    BY <1>1, <1>6 DEF AfterAnswer, AbsenceIsFine, RequestOf
  <2>2. ref[c] \in live /\ Join(ref[c], op[c].user)
    BY <1>3, <2>1 DEF Answer, Send, Serve
  <2>3. ref[c] \in live' /\ op[c].user \in members'[ref[c]]
    BY <1>2, <2>2 DEF Join, ClientTypeOK, RealmTypeOK
  <2>. QED
    BY <1>1, <1>2, <1>6, <2>3 DEF Outcome, ActedOn
<1>7. CASE pc[c] = "mutate" /\ op[c].action = "member_remove"
  <2>1. r.verb = "leave" /\ r.user = op[c].user
    BY <1>7 DEF RequestOf
  <2>2. CASE ref[c] \notin live \/ op[c].user \notin Account
    <3>1. live' = live /\ members' = members
      BY <1>3, <2>1, <2>2 DEF Send, Serve, Answer, realm
    <3>. QED
      BY <1>1, <1>2, <1>7, <2>2, <3>1 DEF Outcome, ActedOn, ClientTypeOK, RealmTypeOK
  <2>3. CASE ref[c] \in live /\ op[c].user \in Account
    <3>1. Answer(r) = 204
      BY <1>3, <2>1, <2>3 DEF Answer
    <3>2. Leave(ref[c], op[c].user)
      BY <1>3, <2>1, <3>1 DEF Send, Serve
    <3>3. op[c].user \notin members'[ref[c]]
      BY <1>2, <3>2 DEF Leave, ClientTypeOK, RealmTypeOK
    <3>. QED
      BY <1>1, <1>2, <1>7, <3>3 DEF Outcome, ActedOn
  <2>. QED
    BY <2>2, <2>3
<1>8. op[c].action \in {"group_delete", "member_add", "member_remove"} \/ pc[c] = "update"
  BY <1>2, OperationAssumption DEF OnCourse, Action
<1>. QED
  BY <1>2, <1>4, <1>5, <1>6, <1>7, <1>8

\* A call that returns without an error has done what it says, as long as one
\* listing shows every member (ListGroupMembers asks for a single page).
THEOREM SuccessHolds ==
    ASSUME IsFiniteSet(Account), Cardinality(Account) <= PageSize
    PROVE  ClientSpec => SuccessIsTrue
<1>1. ClientInv /\ [ClientNext]_clientVars
      => [\A c \in Client : Decides(c) => Outcome(c) \/ Outcome(c)']_clientVars
  BY DecidingSteps, FindDecides, VerifyDecides, ListDecides, SendDecides
<1>. QED
  BY <1>1, ClientInvariant, PTL DEF ClientSpec, SuccessIsTrue

(***************************************************************************)
(* A call takes a bounded number of steps.  With Step(c) enabled while a   *)
(* call is under way and weakly fair, CallsEnd follows.                    *)
(***************************************************************************)
LEMMA MovingSteps ==
    ASSUME ClientTypeOK, [ClientNext]_clientVars, NEW c \in Client, Moves(c), pc[c] # "idle"
    PROVE  Step(c) \/ Fail(c) \/ LoseAnswer(c)
<1>1. ASSUME NEW d \in Client \ {c}, Step(d) \/ Fail(d) \/ LoseAnswer(d)
      PROVE  FALSE
  <2>1. ASSUME NEW step, NEW g, NEW k, Goto(d, step, g, k)
        PROVE  ~Moves(c)
    BY <2>1 DEF Goto, Moves, ClientTypeOK
  <2>2. ~LoseAnswer(d)
    BY DEF LoseAnswer, Moves, ClientTypeOK
  <2>3. ~Stop(d, "ok") /\ ~Stop(d, "failed") /\ \A result : ~Stop(d, result)
    BY <2>1 DEF Stop
  <2>4. ~Find(d) /\ ~Verify(d)
    BY <2>1, <2>3 DEF Find, Verify
  <2>5. ~Reread(d) /\ ~List(d) /\ ~Send(d) /\ ~Fail(d)
    BY <2>3 DEF Reread, List, Send, Fail
  <2>. QED
    BY <1>1, <2>2, <2>4, <2>5 DEF Step
<1>2. ASSUME NEW d \in Client, NEW o \in Operation, Call(d, o)
      PROVE  FALSE
  BY <1>2 DEF Call, Moves, ClientTypeOK
<1>3. ~(Outside \/ UNCHANGED clientVars)
  BY DEF Outside, Admin, Arrive, call, clientVars, Moves
<1>. QED
  BY <1>1, <1>2, <1>3 DEF ClientNext

LEMMA LevelFacts ==
    ASSUME ClientInv, NEW c \in Client
    PROVE  /\ Len(op[c].path) \in Nat \ {0} /\ depth[c] \in 1..Len(op[c].path)
           /\ op[c].action \in Action /\ pc[c] \in CallStep /\ OnCourse(c)
           /\ (AtTarget(c) <=> depth[c] = Len(op[c].path))
<1>1. ClientTypeOK /\ OnCourse(c) /\ op[c] \in Operation /\ Target(c) \in Path
      /\ depth[c] \in 1..Len(Target(c))
  BY TargetFacts DEF ClientInv, CallsOnCourse
<1>. QED
  BY <1>1, PathFacts, OperationAssumption DEF Target, AtTarget, ClientTypeOK

LEMMA GotoCounts ==
    ASSUME ClientInv, NEW c \in Client, NEW step, NEW g, NEW d, Goto(c, step, g, d)
    PROVE  StepsLeft(c)' = StepsFrom(op[c], step, d)
BY AfterGoto DEF ClientInv, StepsLeft

LEMMA LeftBounds ==
    ASSUME NEW o, NEW step \in Reading \cup Writing, NEW d,
           Len(o.path) \in Nat \ {0}, d \in 1..Len(o.path)
    PROVE  StepsFrom(o, step, d) \in 1..(3 * Len(o.path))
<1>. PICK n \in Nat \ {0} : n = Len(o.path)
  OBVIOUS
<1>. d \in 1..n
  OBVIOUS
<1>1. CASE step = "find"
  <2>1. StepsFrom(o, step, d) \in {d + 2 * n, 3}
    BY <1>1 DEF StepsFrom
  <2>. QED
    BY <2>1
<1>2. CASE step = "post"
  <2>1. StepsFrom(o, step, d) = 2 * (n - d) + 2
    BY <1>2 DEF StepsFrom
  <2>. QED
    BY <2>1
<1>3. CASE step = "verify"
  <2>1. StepsFrom(o, step, d) = 2 * (n - d) + 1
    BY <1>3 DEF StepsFrom
  <2>. QED
    BY <2>1
<1>4. CASE step \in {"update", "list", "reread", "mutate"}
  <2>1. StepsFrom(o, step, d) \in {1, 2}
    BY <1>4 DEF StepsFrom
  <2>. QED
    BY <2>1
<1>. QED
  BY <1>1, <1>2, <1>3, <1>4 DEF Reading, Writing

LEMMA FindAdvances ==
    ASSUME ClientInv, NEW c \in Client, Find(c)
    PROVE  StepsLeft(c)' < StepsLeft(c)
<1>. DEFINE o == op[c]
            n == Len(o.path)
            d == depth[c]
<1>. /\ n \in Nat \ {0} /\ d \in 1..n /\ pc[c] = "find" /\ (AtTarget(c) <=> d = n)
     /\ StepsLeft(c) = IF o.action = "group_create" THEN d + 2 * n ELSE 3
  BY LevelFacts DEF Find, StepsLeft, StepsFrom
<1>1. CASE o.action = "group_create" /\ \E g : Goto(c, "update", g, d)
  <2>1. StepsLeft(c)' = 2
    BY <1>1, GotoCounts DEF StepsFrom
  <2>. QED
    BY <1>1, <2>1
<1>2. CASE o.action = "group_create" /\ d # n /\ \E g : Goto(c, "post", g, d + 1)
  <2>1. StepsLeft(c)' = 2 * (n - (d + 1)) + 2
    BY <1>2, GotoCounts DEF StepsFrom
  <2>. QED
    BY <1>2, <2>1
<1>3. CASE o.action = "group_create" /\ \E g : Goto(c, "find", g, d - 1)
  <2>1. StepsLeft(c)' = (d - 1) + 2 * n
    BY <1>3, GotoCounts DEF StepsFrom
  <2>. QED
    BY <1>3, <2>1
<1>4. CASE o.action = "group_create" /\ \E g : Goto(c, "post", g, 1)
  <2>1. StepsLeft(c)' = 2 * (n - 1) + 2
    BY <1>4, GotoCounts DEF StepsFrom
  <2>. QED
    BY <1>4, <2>1
<1>5. CASE o.action # "group_create" /\ \E step \in {"list", "mutate", "ok", "failed"} :
             \E g, k : Goto(c, step, g, k)
  <2>1. StepsLeft(c)' \in 0..2
    BY <1>5, GotoCounts DEF StepsFrom
  <2>. QED
    BY <1>5, <2>1
<1>. QED
  BY <1>1, <1>2, <1>3, <1>4, <1>5 DEF Find, Below, Stop, Action

LEMMA VerifyAdvances ==
    ASSUME ClientInv, NEW c \in Client, Verify(c)
    PROVE  StepsLeft(c)' < StepsLeft(c)
<1>. DEFINE n == Len(op[c].path)
            d == depth[c]
<1>. /\ n \in Nat \ {0} /\ d \in 1..n /\ pc[c] = "verify" /\ (AtTarget(c) <=> d = n)
     /\ StepsLeft(c) = 2 * (n - d) + 1
  BY LevelFacts DEF Verify, StepsLeft, StepsFrom
<1>1. CASE \E step \in {"ok", "failed"} : \E g, k : Goto(c, step, g, k)
  <2>1. StepsLeft(c)' = 0
    BY <1>1, GotoCounts DEF StepsFrom
  <2>. QED
    BY <2>1
<1>2. CASE d # n /\ \E g : Goto(c, "post", g, d + 1)
  <2>1. StepsLeft(c)' = 2 * (n - (d + 1)) + 2
    BY <1>2, GotoCounts DEF StepsFrom
  <2>. QED
    BY <1>2, <2>1
<1>. QED
  BY <1>1, <1>2 DEF Verify, Stop, Below

LEMMA OtherStepsAdvance ==
    ASSUME ClientInv, NEW c \in Client, Reread(c) \/ List(c) \/ Send(c) \/ Fail(c) \/ LoseAnswer(c)
    PROVE  StepsLeft(c)' < StepsLeft(c)
<1>. DEFINE n == Len(op[c].path)
            d == depth[c]
<1>. /\ n \in Nat \ {0} /\ d \in 1..n /\ pc[c] \in Reading \cup Writing
  BY LevelFacts DEF Reread, List, Send, Fail, LoseAnswer, Reading, Writing
<1>1. StepsLeft(c) \in 1..(3 * n)
  BY LeftBounds DEF StepsLeft
<1>2. CASE Stop(c, "ok") \/ Stop(c, "failed") \/ LoseAnswer(c)
  <2>1. ASSUME NEW result \in {"ok", "failed"}, Stop(c, result)
        PROVE  pc'[c] \in {"ok", "failed"}
    BY <2>1, AfterGoto DEF Stop, ClientInv
  <2>2. LoseAnswer(c) => pc'[c] = "failed"
    BY DEF LoseAnswer, ClientInv, ClientTypeOK
  <2>3. StepsLeft(c)' = 0
    BY <1>2, <2>1, <2>2 DEF StepsLeft, StepsFrom
  <2>. QED
    BY <1>1, <2>3
<1>3. CASE pc[c] = "list" /\ Stop(c, "mutate")
  <2>1. StepsLeft(c) = 2 /\ StepsLeft(c)' = 1
    BY <1>3, GotoCounts DEF Stop, StepsFrom, StepsLeft
  <2>. QED
    BY <2>1
<1>4. CASE pc[c] = "post" /\ Stop(c, "verify")
  <2>1. StepsLeft(c) = 2 * (n - d) + 2
    BY <1>4 DEF StepsFrom, StepsLeft
  <2>2. StepsLeft(c)' = StepsFrom(op[c], "verify", d)
    BY <1>4, GotoCounts DEF Stop
  <2>3. StepsLeft(c)' = 2 * (n - d) + 1
    BY <2>2 DEF StepsFrom
  <2>. QED
    BY <2>1, <2>3
<1>5. CASE pc[c] = "update" /\ Stop(c, "reread")
  <2>1. StepsLeft(c) = 2 /\ StepsLeft(c)' = 1
    BY <1>5, GotoCounts DEF Stop, StepsFrom, StepsLeft
  <2>. QED
    BY <2>1
<1>6. \/ Stop(c, "ok") \/ Stop(c, "failed") \/ LoseAnswer(c)
      \/ pc[c] = "list" /\ Stop(c, "mutate")
      \/ pc[c] = "post" /\ Stop(c, "verify")
      \/ pc[c] = "update" /\ Stop(c, "reread")
  BY DEF Reread, List, WithoutGroup, Send, AfterAnswer, Fail, Writing
<1>. QED
  BY <1>2, <1>3, <1>4, <1>5, <1>6

\* Every call takes at most three steps for each level of its path, and each of
\* them brings it closer to its end, whatever Keycloak answers.
THEOREM CallsAreBounded == ClientSpec => CallsAdvance
<1>1. ASSUME ClientInv, [ClientNext]_clientVars, NEW c \in Client, pc[c] # "idle", Moves(c)
      PROVE  StepsLeft(c) \in 1..(3 * Len(Target(c))) /\ StepsLeft(c)' < StepsLeft(c)
  <2>1. Step(c) \/ Fail(c) \/ LoseAnswer(c)
    BY <1>1, MovingSteps DEF ClientInv
  <2>2. StepsLeft(c)' < StepsLeft(c)
    BY <1>1, <2>1, FindAdvances, VerifyAdvances, OtherStepsAdvance DEF Step
  <2>3. pc[c] \in Reading \cup Writing
    BY <2>1 DEF Step, Find, Verify, Reread, List, Send, Fail, LoseAnswer, Reading, Writing
  <2>4. StepsLeft(c) \in 1..(3 * Len(op[c].path))
    BY <1>1, <2>3, LevelFacts, LeftBounds DEF StepsLeft
  <2>. QED
    BY <2>2, <2>4 DEF Target
<1>2. ClientInv /\ [ClientNext]_clientVars
      => [\A c \in Client : pc[c] # "idle" /\ Moves(c) =>
            StepsLeft(c) \in 1..(3 * Len(Target(c))) /\ StepsLeft(c)' < StepsLeft(c)]_clientVars
  BY <1>1
<1>. QED
  BY <1>2, ClientInvariant, PTL DEF ClientSpec, CallsAdvance

(***************************************************************************)
(* What a successful creation leaves behind.  Between the lookup that      *)
(* found nothing and the POST others may create the group; but if they do, *)
(* they give it the same attributes.                                       *)
(***************************************************************************)
Creating(o) == o.action = "group_create"
Carries(p, a) == \A o \in Operation : Creating(o) /\ o.path = p => a = o.attrs

\* A request writes no other attributes than those of the operations.
Writes(r) == /\ r.verb = "post" => Carries(NewPath(r), r.attrs)
             /\ r.verb = "put" => r.group \in GroupId /\ pathOf[r.group] \in Path
                                  /\ Carries(pathOf[r.group], r.attrs)

\* The group a call is creating is not there, or has its attributes.
CreatingStep(c) == pc[c] \in {"post", "verify"} \/ (pc[c] = "find" /\ ~AtTarget(c))
NoneBare(c) == \A g \in GroupsAt(Target(c)) : attrs[g] = op[c].attrs
AttrsFit(c) == Creating(op[c]) /\ CreatingStep(c) => NoneBare(c)
AttrsInv == edits = 0 => /\ \A c \in Client : AttrsFit(c)
                         /\ \A r \in late : Writes(r)

LEMMA RequestWrites ==
    ASSUME CreatesAgree, ClientInv, NEW c \in Client, pc[c] \in Writing
    PROVE  Writes(RequestOf(c))
<1>. DEFINE r == RequestOf(c)
<1>1. /\ ClientTypeOK /\ OnCourse(c) /\ op[c] \in Operation /\ Target(c) \in Path
      /\ depth[c] \in 1..Len(Target(c)) /\ Target(c) = op[c].path
  BY TargetFacts DEF ClientInv, CallsOnCourse, Target
<1>2. CASE pc[c] = "post"
  <2>1. NewPath(r) = At(c) /\ r.verb = "post" /\ r.attrs = PostAttrs(c) /\ Creating(op[c])
    BY <1>1, <1>2, RequestFacts DEF RequestOf, OnCourse, Creating
  <2>2. ASSUME NEW o \in Operation, Creating(o), o.path = At(c)
        PROVE  PostAttrs(c) = o.attrs
    <3>1. o.path \in Path /\ Len(o.path) \in Nat /\ Len(Target(c)) \in Nat
      BY <1>1, OperationAssumption, PathFacts
    <3>2. Target(c) \in Seq(Segment)
      BY <1>1, PathFacts
    <3>3. Len(o.path) = depth[c]
      BY <1>1, <2>2, <3>2 DEF At
    <3>4. Under(o.path, op[c].path)
      BY <1>1, <2>2, <3>3 DEF Under, At
    <3>5. o.path = Target(c) /\ o.attrs = op[c].attrs
      BY <1>1, <2>1, <2>2, <3>4 DEF CreatesAgree, Creating
    <3>. QED
      BY <3>3, <3>5 DEF PostAttrs, AtTarget
  <2>. QED
    BY <2>1, <2>2 DEF Writes, Carries
<1>3. CASE pc[c] = "update"
  <2>1. /\ r.verb = "put" /\ r.group = ref[c] /\ r.attrs = op[c].attrs /\ Creating(op[c])
        /\ ref[c] \in GroupId /\ pathOf[ref[c]] = op[c].path
    BY <1>1, <1>3 DEF RequestOf, PutAttrs, OnCourse, Creating
  <2>2. ASSUME NEW o \in Operation, Creating(o), o.path = op[c].path
        PROVE  op[c].attrs = o.attrs
    <3>1. Under(o.path, op[c].path)
      BY <1>1, <2>2, PathFacts DEF Under
    <3>. QED
      BY <1>1, <2>1, <2>2, <3>1 DEF CreatesAgree, Creating
  <2>. QED
    BY <1>1, <2>1, <2>2 DEF Writes, Carries
<1>4. CASE pc[c] = "mutate"
  <2>1. r.verb \notin {"post", "put"}
    BY <1>4 DEF RequestOf
  <2>. QED
    BY <2>1 DEF Writes
<1>. QED
  BY <1>2, <1>3, <1>4 DEF Writing

LEMMA WritesStay ==
    ASSUME RealmTypeOK, PathsStay, NEW q \in Request, Writes(q), Aimed(q)
    PROVE  Writes(q)'
<1>1. CASE q.verb = "post"
  <2>1. q.group # None => q.group \in GroupId /\ pathOf'[q.group] = pathOf[q.group]
    BY <1>1, NoneAssumption DEF Request, Aimed, PathsStay
  <2>2. NewPath(q)' = NewPath(q)
    BY <2>1 DEF NewPath
  <2>. QED
    BY <1>1, <2>2 DEF Writes, Carries
<1>2. CASE q.verb = "put"
  <2>1. pathOf'[q.group] = pathOf[q.group]
    BY <1>2, NoneAssumption DEF Writes, PathsStay
  <2>. QED
    BY <1>2, <2>1 DEF Writes, Carries
<1>. QED
  BY <1>1, <1>2 DEF Writes

\* Serving it, a group at the path of an operation keeps its attributes or gets those
\* of the operation.
LEMMA ServedWrites ==
    ASSUME RealmTypeOK, NEW r \in Request, Aimed(r), Writes(r), Serve(r),
           NEW o \in Operation, Creating(o), NEW g \in live', pathOf'[g] = o.path
    PROVE  attrs'[g] = o.attrs \/ (g \in GroupsAt(o.path) /\ attrs'[g] = attrs[g])
<1>1. g \in live' /\ pathOf'[g] = o.path /\ o.path \in Path
  BY OperationAssumption
<1>2. CASE UNCHANGED realm
  BY <1>1, <1>2 DEF realm, GroupsAt
<1>3. ASSUME NEW k \in GroupId, AddGroup(k, NewPath(r), r.attrs), r.verb = "post"
      PROVE  attrs'[g] = o.attrs \/ (g \in GroupsAt(o.path) /\ attrs'[g] = attrs[g])
  <2>1. CASE g = k
    <3>1. pathOf'[g] = NewPath(r) /\ attrs'[g] = r.attrs
      BY <1>3, <2>1 DEF AddGroup, RealmTypeOK
    <3>. QED
      BY <1>1, <1>3, <3>1 DEF Writes, Carries
  <2>2. CASE g # k
    BY <1>1, <1>3, <2>2 DEF AddGroup, RealmTypeOK, GroupsAt
  <2>. QED
    BY <2>1, <2>2
<1>4. CASE r.verb = "put" /\ SetAttrs(r.group, r.attrs)
  <2>1. live' = live /\ pathOf' = pathOf /\ attrs' = [attrs EXCEPT ![r.group] = r.attrs]
    BY <1>4 DEF SetAttrs
  <2>2. CASE g = r.group
    BY <1>1, <1>4, <2>1, <2>2 DEF Writes, Carries, RealmTypeOK
  <2>3. CASE g # r.group
    BY <1>1, <2>1, <2>3 DEF RealmTypeOK, GroupsAt
  <2>. QED
    BY <2>2, <2>3
<1>5. CASE DropGroup(r.group) \/ Join(r.group, r.user) \/ Leave(r.group, r.user)
  BY <1>1, <1>5 DEF DropGroup, Join, Leave, GroupsAt
<1>. QED
  BY <1>2, <1>3, <1>4, <1>5 DEF Serve

\* What is true of calls that stay where they are and of requests on their way stays
\* true under a request that is served.
LEMMA ServedKeepsAttrs ==
    ASSUME ClientInv, NEW r \in Request, Aimed(r), Writes(r), Serve(r)
    PROVE  /\ \A c \in Client : NoneBare(c) /\ Creating(op[c]) /\ op'[c] = op[c] => NoneBare(c)'
           /\ \A q \in Request : Writes(q) /\ Aimed(q) => Writes(q)'
<1>1. RealmTypeOK /\ PathsStay
  BY ServeKeepsRealm DEF ClientInv, ClientTypeOK
<1>2. ASSUME NEW c \in Client, NoneBare(c), Creating(op[c]), op'[c] = op[c] PROVE NoneBare(c)'
  <2>1. PICK o \in Operation : o = op[c]
    BY DEF ClientInv, ClientTypeOK
  <2>2. ASSUME NEW g \in live', pathOf'[g] = o.path PROVE attrs'[g] = o.attrs
    <3>1. attrs'[g] = o.attrs \/ (g \in GroupsAt(o.path) /\ attrs'[g] = attrs[g])
      BY <1>1, <1>2, <2>1, <2>2, ServedWrites
    <3>. QED
      BY <1>2, <2>1, <3>1 DEF NoneBare, Target
  <2>. QED
    BY <1>2, <2>1, <2>2 DEF NoneBare, Target, GroupsAt
<1>3. ASSUME NEW q \in Request, Writes(q), Aimed(q) PROVE Writes(q)'
  BY <1>1, <1>3, WritesStay
<1>. QED
  BY <1>2, <1>3

LEMMA UnservedKeepsAttrs ==
    ASSUME ClientInv, UNCHANGED realm
    PROVE  /\ \A c \in Client : NoneBare(c) /\ Creating(op[c]) /\ op'[c] = op[c] => NoneBare(c)'
           /\ \A q \in Request : Writes(q) /\ Aimed(q) => Writes(q)'
<1>1. \A q \in Request : Writes(q) /\ Aimed(q) => Writes(q)'
  BY RealmUnchanged, WritesStay DEF ClientInv, ClientTypeOK
<1>. QED
  BY <1>1 DEF NoneBare, GroupsAt, Target, realm

\* A step of one call: the others stay where they are.
LEMMA OthersKeepAttrs ==
    ASSUME ClientInv, AttrsInv, edits' = edits, NEW c \in Client,
           \A d \in Client \ {c} : pc'[d] = pc[d] /\ op'[d] = op[d] /\ depth'[d] = depth[d],
           \A d \in Client : NoneBare(d) /\ Creating(op[d]) /\ op'[d] = op[d] => NoneBare(d)',
           \A q \in Request : Writes(q) /\ Aimed(q) => Writes(q)',
           \A q \in late' : q \in late \/ (q \in Request /\ Aimed(q) /\ Writes(q)),
           edits = 0 => AttrsFit(c)'
    PROVE  AttrsInv'
<1>. SUFFICES ASSUME edits = 0 PROVE AttrsInv'
  BY DEF AttrsInv
<1>1. ASSUME NEW d \in Client \ {c} PROVE AttrsFit(d)'
  <2>1. AttrsFit(d) /\ pc'[d] = pc[d] /\ op'[d] = op[d] /\ depth'[d] = depth[d]
    BY DEF AttrsInv
  <2>2. (Creating(op[d]) /\ CreatingStep(d))' => Creating(op[d]) /\ CreatingStep(d)
    BY <2>1 DEF Creating, CreatingStep, AtTarget, Target
  <2>3. NoneBare(d) /\ Creating(op[d]) => NoneBare(d)'
    BY <2>1
  <2>. QED
    BY <2>1, <2>2, <2>3 DEF AttrsFit
<1>2. \A d \in Client : AttrsFit(d)'
  BY <1>1
<1>3. \A q \in late' : Writes(q)'
  BY DEF AttrsInv, ClientInv, ClientTypeOK, CallsOnCourse
<1>. QED
  BY <1>2, <1>3 DEF AttrsInv

\* Where a call that is moved on stands.
LEMMA MovedCall ==
    ASSUME ClientTypeOK, NEW c \in Client, NEW step, NEW g, NEW k, Goto(c, step, g, k)
    PROVE  /\ pc'[c] = step /\ depth'[c] = k /\ op' = op /\ late' = late /\ edits' = edits
           /\ \A d \in Client \ {c} : pc'[d] = pc[d] /\ op'[d] = op[d] /\ depth'[d] = depth[d]
BY DEF Goto, ClientTypeOK

LEMMA FindKeepsAttrs ==
    ASSUME ClientInv, AttrsInv, NEW c \in Client, Find(c)
    PROVE  AttrsInv'
<1>. ClientTypeOK /\ pc[c] = "find" /\ UNCHANGED realm
  BY DEF ClientInv, Find
<1>1. PICK step, g, k : Goto(c, step, g, k)
  BY DEF Find, Stop
<1>2. edits = 0 => AttrsFit(c)'
  <2>. SUFFICES ASSUME edits = 0, (Creating(op[c]) /\ CreatingStep(c))' PROVE NoneBare(c)'
    BY DEF AttrsFit
  <2>1. Creating(op[c]) /\ op'[c] = op[c]
    BY <1>1, MovedCall DEF Creating
  <2>2. CASE ~AtTarget(c)
    BY <2>1, <2>2, UnservedKeepsAttrs DEF AttrsInv, AttrsFit, CreatingStep
  <2>3. CASE AtTarget(c)
    <3>1. Found(c) = None
      <4>1. ASSUME Found(c) # None PROVE FALSE
        <5>1. Goto(c, "update", Found(c), depth[c])
          BY <2>1, <2>3, <4>1 DEF Find, Creating
        <5>2. pc'[c] = "update"
          BY <5>1, MovedCall
        <5>. QED
          BY <5>2 DEF CreatingStep
      <4>. QED
        BY <4>1
    <3>2. GroupsAt(Target(c)) = {}
      BY <2>3, <3>1, FoundFacts, TargetFacts
    <3>. QED
      BY <2>1, <3>2, UnservedKeepsAttrs DEF NoneBare
  <2>. QED
    BY <2>2, <2>3
<1>. QED
  BY <1>1, <1>2, MovedCall, UnservedKeepsAttrs, OthersKeepAttrs

\* The other steps that only read, and those that fail.
LEMMA ReadsKeepAttrs ==
    ASSUME ClientInv, AttrsInv, NEW c \in Client, Verify(c) \/ Reread(c) \/ List(c) \/ Fail(c)
    PROVE  AttrsInv'
<1>. ClientTypeOK /\ UNCHANGED realm
  BY DEF ClientInv, Verify, Reread, List, Fail
<1>1. PICK step, g, k :
        /\ Goto(c, step, g, k)
        /\ step \in {"ok", "failed", "mutate"} \/ (pc[c] = "verify" /\ step = "post")
  BY DEF Verify, Reread, List, Fail, Stop, WithoutGroup
<1>2. edits = 0 => AttrsFit(c)'
  <2>. SUFFICES ASSUME edits = 0, (Creating(op[c]) /\ CreatingStep(c))' PROVE NoneBare(c)'
    BY DEF AttrsFit
  <2>1. Creating(op[c]) /\ op'[c] = op[c] /\ pc[c] = "verify"
    BY <1>1, MovedCall DEF Creating, CreatingStep
  <2>. QED
    BY <2>1, UnservedKeepsAttrs DEF AttrsInv, AttrsFit, CreatingStep
<1>. QED
  BY <1>1, <1>2, MovedCall, UnservedKeepsAttrs, OthersKeepAttrs

LEMMA SendKeepsAttrs ==
    ASSUME CreatesAgree, ClientInv, AttrsInv, NEW c \in Client, Send(c)
    PROVE  AttrsInv'
<1>. DEFINE r == RequestOf(c)
<1>1. ClientTypeOK /\ OnCourse(c) /\ pc[c] \in Writing /\ Serve(r)
  BY DEF ClientInv, CallsOnCourse, Send
<1>2. r \in Request /\ Aimed(r) /\ Writes(r)
  BY <1>1, RequestFacts, RequestWrites
<1>3. PICK step, g, k :
        /\ Goto(c, step, g, k)
        /\ step \in {"ok", "failed", "reread"} \/ (pc[c] = "post" /\ step = "verify")
  BY <1>1 DEF Send, Stop, AfterAnswer
<1>. HIDE DEF r
<1>4. /\ \A d \in Client : NoneBare(d) /\ Creating(op[d]) /\ op'[d] = op[d] => NoneBare(d)'
      /\ \A q \in Request : Writes(q) /\ Aimed(q) => Writes(q)'
  <2>1. PICK q \in Request : q = r
    BY <1>2
  <2>. QED
    BY <1>1, <1>2, <2>1, ServedKeepsAttrs
<1>5. edits = 0 => AttrsFit(c)'
  <2>. SUFFICES ASSUME edits = 0, (Creating(op[c]) /\ CreatingStep(c))' PROVE NoneBare(c)'
    BY DEF AttrsFit
  <2>1. Creating(op[c]) /\ op'[c] = op[c] /\ pc[c] = "post"
    BY <1>1, <1>3, MovedCall DEF Creating, CreatingStep
  <2>. QED
    BY <1>4, <2>1 DEF AttrsInv, AttrsFit, CreatingStep
<1>. QED
  BY <1>1, <1>3, <1>4, <1>5, MovedCall, OthersKeepAttrs

LEMMA CallKeepsAttrs ==
    ASSUME ClientInv, AttrsInv, NEW c \in Client, NEW o \in Operation, Call(c, o)
    PROVE  AttrsInv'
<1>1. /\ ClientTypeOK /\ UNCHANGED <<realm, late, edits>>
      /\ pc'[c] = FirstStep(o) /\ op'[c] = o /\ depth'[c] = Len(o.path)
      /\ \A d \in Client \ {c} : pc'[d] = pc[d] /\ op'[d] = op[d] /\ depth'[d] = depth[d]
  BY DEF ClientInv, ClientTypeOK, Call
<1>2. ~CreatingStep(c)'
  BY <1>1 DEF CreatingStep, FirstStep, AtTarget, Target
<1>. QED
  BY <1>1, <1>2, UnservedKeepsAttrs, OthersKeepAttrs DEF AttrsFit

LEMMA LoseAnswerKeepsAttrs ==
    ASSUME CreatesAgree, ClientInv, AttrsInv, NEW c \in Client, LoseAnswer(c)
    PROVE  AttrsInv'
<1>1. /\ ClientTypeOK /\ OnCourse(c) /\ pc[c] \in Writing /\ UNCHANGED <<realm, op, depth, edits>>
      /\ late' = late \cup {RequestOf(c)} /\ pc'[c] = "failed"
      /\ \A d \in Client \ {c} : pc'[d] = pc[d]
  BY DEF ClientInv, ClientTypeOK, CallsOnCourse, LoseAnswer
<1>2. \A q \in late' : q \in late \/ (q \in Request /\ Aimed(q) /\ Writes(q))
  <2>1. RequestOf(c) \in Request /\ Aimed(RequestOf(c)) /\ Writes(RequestOf(c))
    BY <1>1, RequestFacts, RequestWrites
  <2>. HIDE DEF Aimed, Writes
  <2>. QED
    BY <1>1, <2>1
<1>3. ~CreatingStep(c)'
  BY <1>1 DEF CreatingStep
<1>. QED
  BY <1>1, <1>2, <1>3, UnservedKeepsAttrs, OthersKeepAttrs DEF AttrsFit

LEMMA OutsideKeepsAttrs ==
    ASSUME ClientInv, AttrsInv, Outside \/ UNCHANGED clientVars
    PROVE  AttrsInv'
<1>1. CASE Admin
  BY <1>1 DEF Admin, AttrsInv, ClientInv, ClientTypeOK
<1>2. ASSUME UNCHANGED <<call, edits>>, late' \subseteq late,
             \A d \in Client : NoneBare(d) /\ Creating(op[d]) /\ op'[d] = op[d] => NoneBare(d)',
             \A q \in Request : Writes(q) /\ Aimed(q) => Writes(q)'
      PROVE  AttrsInv'
  <2>. SUFFICES ASSUME edits = 0 PROVE AttrsInv'
    BY <1>2 DEF AttrsInv
  <2>1. \A d \in Client : AttrsFit(d)'
    BY <1>2 DEF AttrsInv, AttrsFit, CreatingStep, AtTarget, Target, Creating, call
  <2>2. \A q \in late' : Writes(q)'
    BY <1>2 DEF AttrsInv, ClientInv, ClientTypeOK, CallsOnCourse
  <2>. QED
    BY <2>1, <2>2 DEF AttrsInv
<1>3. ASSUME NEW r \in late, Arrive(r) PROVE AttrsInv'
  <2>. SUFFICES ASSUME edits = 0 PROVE AttrsInv'
    BY <1>3 DEF AttrsInv, Arrive
  <2>1. r \in Request /\ Aimed(r) /\ Writes(r) /\ Serve(r)
    BY <1>3 DEF AttrsInv, ClientInv, ClientTypeOK, CallsOnCourse, Arrive
  <2>. QED
    BY <1>2, <1>3, <2>1, ServedKeepsAttrs DEF Arrive
<1>. QED
  BY <1>1, <1>2, <1>3, UnservedKeepsAttrs DEF Outside, clientVars

LEMMA NextKeepsAttrs ==
    ASSUME CreatesAgree
    PROVE  ClientInv /\ AttrsInv /\ [ClientNext]_clientVars => AttrsInv'
<1>. SUFFICES ASSUME ClientInv, AttrsInv, [ClientNext]_clientVars PROVE AttrsInv'
  OBVIOUS
<1>. QED
  BY FindKeepsAttrs, ReadsKeepAttrs, SendKeepsAttrs, CallKeepsAttrs, LoseAnswerKeepsAttrs,
     OutsideKeepsAttrs DEF ClientNext, Step

\* The step that concludes a creation sees its attributes.
LEMMA CreationCarries ==
    ASSUME ClientInv, AttrsInv, [ClientNext]_clientVars, NEW c \in Client,
           edits = 0, Decides(c), op[c].action = "group_create"
    PROVE  op[c].attrs \in AttributesOf(c)'
<1>. ClientTypeOK /\ OnCourse(c) /\ Creating(op[c])
  BY DEF ClientInv, CallsOnCourse, Creating
<1>1. \A step, g, d : Goto(c, step, g, d) => step \in {"reread", "ok"}
  BY AfterGoto DEF Decides
<1>2. CASE Find(c)
  BY <1>1, <1>2 DEF Find, Stop
<1>3. CASE List(c)
  BY <1>3 DEF List, OnCourse
<1>4. CASE Verify(c)
  <2>1. Found(c) # None /\ AtTarget(c) /\ UNCHANGED realm /\ pc[c] = "verify"
    BY <1>1, <1>4 DEF Verify, Stop
  <2>2. Found(c) \in GroupsAt(Target(c))
    BY <2>1, FoundFacts, TargetFacts DEF GroupsAt
  <2>3. attrs[Found(c)] = op[c].attrs
    BY <2>1, <2>2 DEF AttrsInv, AttrsFit, CreatingStep, NoneBare
  <2>4. op' = op
    BY <2>1, <1>4, AfterGoto DEF Verify, Stop
  <2>5. AttributesOf(c)' = AttributesOf(c)
    BY <2>1, <2>4 DEF AttributesOf, GroupsAt, Target, realm
  <2>. QED
    BY <2>2, <2>3, <2>5 DEF AttributesOf
<1>5. CASE Send(c)
  <2>. DEFINE r == RequestOf(c)
  <2>1. AfterAnswer(c, Answer(r)) \in {"reread", "ok"} /\ op' = op /\ pc[c] \in Writing
    BY <1>5, AfterGoto DEF Send, Stop, Decides
  <2>2. pc[c] = "update" /\ Answer(r) = 204 /\ r.verb = "put"
    BY <2>1 DEF AfterAnswer, Writing, OnCourse, RequestOf
  <2>3. r.group = ref[c] /\ r.attrs = op[c].attrs
    BY <2>2 DEF RequestOf, PutAttrs
  <2>4. ref[c] \in live /\ SetAttrs(ref[c], op[c].attrs)
    BY <1>5, <2>2, <2>3 DEF Answer, Send, Serve
  <2>5. ref[c] \in GroupId /\ pathOf[ref[c]] = Target(c)
    BY <2>2 DEF OnCourse
  <2>6. ref[c] \in GroupsAt(Target(c))' /\ attrs'[ref[c]] = op[c].attrs
    BY <2>1, <2>4, <2>5 DEF SetAttrs, GroupsAt, Target, ClientTypeOK, RealmTypeOK
  <2>. QED
    BY <2>6 DEF AttributesOf
<1>. QED
  BY <1>2, <1>3, <1>4, <1>5, DecidingSteps

\* SuccessWritesAttributes: a creation that succeeds leaves the mirror attributes on the
\* group, whatever calls interleave with it or arrive late, as long as
\* administrators keep out and no operation creates groups on another's path.
THEOREM CreationsWriteAttributes ==
    ASSUME CreatesAgree
    PROVE  ClientSpec => SuccessWritesAttributes
<1>1. ClientInit => AttrsInv
  BY DEF ClientInit, AttrsInv, AttrsFit, CreatingStep
<1>2. ClientInv /\ AttrsInv /\ [ClientNext]_clientVars => AttrsInv'
  BY NextKeepsAttrs
<1>3. ClientInv /\ AttrsInv /\ [ClientNext]_clientVars
      => [\A c \in Client : edits = 0 /\ Decides(c) /\ op[c].action = "group_create"
                            => op[c].attrs \in AttributesOf(c)']_clientVars
  BY CreationCarries
<1>. QED
  BY <1>1, <1>2, <1>3, ClientInvariant, PTL DEF ClientSpec, SuccessWritesAttributes
==============================================================================
