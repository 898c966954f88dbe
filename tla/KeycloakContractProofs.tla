------------------------ MODULE KeycloakContractProofs ------------------------
(***************************************************************************)
(* KeycloakClient implements KeycloakContract, for every value of the      *)
(* constants in which one member listing shows every member.               *)
(***************************************************************************)
EXTENDS KeycloakClientProofs

\* What a request of a call does, the contract counts among the changes its
\* operation is about.
LEMMA RequestIsAChange ==
    ASSUME ClientInv, NEW c \in Client, pc[c] \in Writing
    PROVE  RequestOf(c) \in Contract!Changes(op[c], Aim[c])
<1>. DEFINE r == RequestOf(c)
            o == op[c]
<1>. /\ ClientTypeOK /\ OnCourse(c)
     /\ o \in Operation /\ Target(c) \in Path /\ o.action \in Action
     /\ depth[c] \in 1..Len(Target(c)) /\ At(c) \in Path
     /\ r \in Request /\ Aimed(r)
  BY TargetFacts, RequestFacts, OperationAssumption DEF ClientInv, CallsOnCourse
<1>1. CASE pc[c] = "post"
  <2>1. o.action = "group_create" /\ NewPath(r) = At(c)
    BY <1>1, RequestFacts DEF OnCourse
  <2>2. PostAttrs(c) = Contract!LevelAttrs(o, At(c))
    <3>1. AtTarget(c) => At(c) = Target(c)
      BY TargetFacts
    <3>2. At(c) = Target(c) => AtTarget(c)
      <4>1. Target(c) \in Seq(Segment) /\ Len(Target(c)) \in Nat
        BY PathFacts
      <4>. QED
        BY <4>1 DEF At, AtTarget
    <3>. QED
      BY <3>1, <3>2 DEF PostAttrs, Contract!LevelAttrs, Target
  <2>3. r = Contract!Req("post", ref[c], o.path[depth[c]], None, Contract!LevelAttrs(o, At(c)))
    BY <1>1, <2>2 DEF RequestOf, Contract!Req, Target
  <2>4. ref[c] \in GroupId \cup {None} /\ depth[c] \in 1..Len(o.path) /\ At(c) = SubSeq(o.path, 1, depth[c])
    BY DEF ClientTypeOK, Target, At
  <2>5. r.group # None => pathOf[r.group] # None
    BY <2>1, <1>1, NoneAssumption DEF Aimed, RequestOf
  <2>6. Under(At(c), o.path)
    <3>1. Target(c) \in Seq(Segment) /\ Len(Target(c)) \in Nat
      BY PathFacts
    <3>2. Len(At(c)) = depth[c]
      BY <3>1 DEF At
    <3>. QED
      BY <3>1, <3>2 DEF Under, At, Target
  <2>7. Contract!Under(Contract!NewPath(r), o.path)
    BY <2>1, <2>6 DEF Contract!Under, Under, Contract!NewPath, NewPath
  <2>8. Contract!NewPath(r) = At(c) /\ r.attrs = Contract!LevelAttrs(o, At(c))
    BY <2>1, <2>3 DEF Contract!NewPath, NewPath, Contract!Req
  <2>9. r \in Contract!Levels(o)
    <3>. DEFINE Posts == {Contract!Req("post", g, o.path[k], None,
                                       Contract!LevelAttrs(o, SubSeq(o.path, 1, k))) :
                            g \in GroupId \cup {None}, k \in 1..Len(o.path)}
    <3>1. r \in Posts
      BY <2>3, <2>4
    <3>2. r.attrs = Contract!LevelAttrs(o, Contract!NewPath(r))
      BY <2>8
    <3>. QED
      BY <3>1, <3>2, <2>5, <2>7 DEF Contract!Levels
  <2>. QED
    BY <2>1, <2>9 DEF Contract!Changes
<1>2. CASE pc[c] = "update"
  <2>1. o.action = "group_create" /\ ref[c] \in GroupId /\ pathOf[ref[c]] = o.path
    BY <1>2 DEF OnCourse, Target
  <2>2. r = Contract!Req("put", ref[c], None, None, o.attrs)
    BY <1>2 DEF RequestOf, PutAttrs, Contract!Req
  <2>. QED
    BY <2>1, <2>2 DEF Contract!Changes, Contract!Labels
<1>3. CASE pc[c] = "mutate"
  <2>1. o.action \in {"member_add", "member_remove", "group_delete"} /\ Aim[c] = ref[c]
    BY <1>3 DEF OnCourse, Action, Aim
  <2>. QED
    BY <1>3, <2>1 DEF RequestOf, Contract!Changes, Contract!Req
<1>. QED
  BY <1>1, <1>2, <1>3 DEF Writing

\* How a move of one call looks to the contract.
LEMMA GotoMaps ==
    ASSUME ClientInv, NEW c \in Client, NEW step, NEW g, NEW d, Goto(c, step, g, d)
    PROVE  /\ Phase' = [Phase EXCEPT ![c] = PhaseOf(step)]
           /\ Aim' = IF op[c].action = "group_create" THEN Aim ELSE [Aim EXCEPT ![c] = g]
           /\ op' = op /\ late' = late
<1>1. /\ pc' = [pc EXCEPT ![c] = step] /\ ref' = [ref EXCEPT ![c] = g]
      /\ op' = op /\ late' = late
  BY DEF Goto
<1>2. pc \in [Client -> CallStep] /\ ref \in [Client -> GroupId \cup {None}]
  BY DEF ClientInv, ClientTypeOK
<1>3. Phase' = [Phase EXCEPT ![c] = PhaseOf(step)]
  BY <1>1, <1>2 DEF Phase
<1>4. ASSUME op[c].action = "group_create" PROVE Aim' = Aim
  <2>1. \A e \in Client : op[e].action # "group_create" => ref'[e] = ref[e]
    BY <1>1, <1>2, <1>4
  <2>. QED
    BY <1>1, <1>4, <2>1 DEF Aim
<1>5. ASSUME op[c].action # "group_create" PROVE Aim' = [Aim EXCEPT ![c] = g]
  <2>1. \A e \in Client : ref'[e] = IF e = c THEN g ELSE ref[e]
    BY <1>1, <1>2
  <2>2. Aim' = [e \in Client |-> IF op[e].action = "group_create" THEN None
                                ELSE IF e = c THEN g ELSE ref[e]]
    BY <1>1, <2>1 DEF Aim
  <2>. QED
    BY <1>5, <2>2 DEF Aim
<1>. QED
  BY <1>1, <1>3, <1>4, <1>5

LEMMA StaysBusy ==
    ASSUME ClientInv, NEW c \in Client, NEW step, NEW g, NEW d, Goto(c, step, g, d),
           PhaseOf(pc[c]) = "busy", PhaseOf(step) = "busy"
    PROVE  Phase' = Phase /\ Phase[c] = "busy"
<1>1. Phase[c] = "busy" /\ Phase = [e \in Client |-> Phase[e]]
  BY DEF Phase
<1>2. Phase' = [Phase EXCEPT ![c] = "busy"]
  BY GotoMaps
<1>. QED
  BY <1>1, <1>2

LEMMA StopMaps ==
    ASSUME ClientInv, NEW c \in Client, NEW result, Stop(c, result)
    PROVE  /\ Contract!Become(c, PhaseOf(result))
           /\ Aim' = Aim /\ late' = late
<1>1. Goto(c, result, ref[c], depth[c])
  BY DEF Stop
<1>2. op[c].action # "group_create" => [Aim EXCEPT ![c] = ref[c]] = Aim
  BY DEF Aim
<1>. QED
  BY <1>1, <1>2, GotoMaps DEF Contract!Become

LEMMA OutcomeMaps ==
    ASSUME ClientInv, NEW c \in Client
    PROVE  Contract!Outcome(op[c], Aim[c]) = Outcome(c)
BY OperationAssumption DEF Contract!Outcome, Outcome, Contract!ActedOn, ActedOn, Aim, Target,
   Contract!GroupsAt, GroupsAt, ClientInv, ClientTypeOK

LEMMA CallMaps ==
    ASSUME ClientInv, NEW c \in Client, NEW o \in Operation, Call(c, o)
    PROVE  Contract!Begin(c, o)
<1>1. /\ pc' = [pc EXCEPT ![c] = FirstStep(o)] /\ op' = [op EXCEPT ![c] = o]
      /\ ref' = [ref EXCEPT ![c] = IF FirstStep(o) = "find" THEN None ELSE o.gid]
      /\ pc[c] = "idle" /\ UNCHANGED <<realm, late>>
  BY DEF Call
<1>2. /\ pc \in [Client -> CallStep] /\ ref \in [Client -> GroupId \cup {None}]
      /\ op \in [Client -> Operation]
  BY DEF ClientInv, ClientTypeOK
<1>3. Phase' = [Phase EXCEPT ![c] = "busy"] /\ Phase[c] = "idle"
  BY <1>1, <1>2 DEF Phase, PhaseOf, FirstStep
<1>4. Aim' = [Aim EXCEPT ![c] = IF o.action = "group_create" THEN None ELSE o.gid]
  <2>1. \A e \in Client : /\ op'[e] = IF e = c THEN o ELSE op[e]
                          /\ ref'[e] = IF e = c THEN IF FirstStep(o) = "find" THEN None ELSE o.gid
                                                 ELSE ref[e]
    BY <1>1, <1>2
  <2>2. o.action # "group_create" /\ FirstStep(o) = "find" => o.gid = None
    BY DEF FirstStep
  <2>. QED
    BY <2>1, <2>2 DEF Aim
<1>. QED
  BY <1>1, <1>3, <1>4 DEF Contract!Begin, Contract!realm, realm

\* A call that ends without an error, or reads back, where its outcome holds.
LEMMA SettledMaps ==
    ASSUME ClientInv, NEW c \in Client, pc[c] \in Reading, Stop(c, "ok"), UNCHANGED realm,
           pc[c] # "reread" => Outcome(c)
    PROVE  Contract!Conclude(c)
<1>1. Contract!Become(c, "ok") /\ UNCHANGED <<Aim, late>>
  BY StopMaps DEF PhaseOf
<1>2. Phase[c] = IF pc[c] = "reread" THEN "done" ELSE "busy"
  BY DEF Phase, PhaseOf, Reading
<1>. QED
  BY <1>1, <1>2, OutcomeMaps DEF Contract!Conclude, Contract!realm, realm

\* A call that fails.
LEMMA FailedMaps ==
    ASSUME ClientInv, NEW c \in Client, pc[c] \in Reading \cup Writing,
           Stop(c, "failed"), UNCHANGED realm
    PROVE  Contract!GiveUp(c)
<1>1. Contract!Become(c, "failed") /\ UNCHANGED <<Aim, late>>
  BY StopMaps DEF PhaseOf
<1>2. Phase[c] \in {"busy", "done"}
  BY DEF Phase, PhaseOf, Reading, Writing
<1>. QED
  BY <1>1, <1>2 DEF Contract!GiveUp, Contract!realm, realm

LEMMA FindMaps ==
    ASSUME ClientInv, NEW c \in Client, Find(c)
    PROVE  [Contract!Next]_(Contract!contractVars)
<1>. ClientTypeOK /\ OnCourse(c) /\ pc[c] = "find" /\ ref[c] = None /\ UNCHANGED realm
  BY DEF ClientInv, CallsOnCourse, Find, OnCourse
<1>1. CASE op[c].action = "group_create" /\ \E step \in {"update", "post", "find"} : \E g, d :
             Goto(c, step, g, d)
  <2>1. Phase' = Phase
    BY <1>1, StaysBusy DEF PhaseOf
  <2>. QED
    BY <1>1, <2>1, GotoMaps DEF Contract!contractVars, Contract!realm, realm
<1>2. CASE op[c].action # "group_create" /\ Found(c) # None
           /\ \E step \in {"list", "mutate"} : Goto(c, step, Found(c), depth[c])
  <2>1. At(c) = Target(c) /\ Found(c) \in Contract!GroupsAt(op[c].path)
    BY <1>2, FoundFacts, TargetFacts DEF OnCourse, Contract!GroupsAt, Target
  <2>2. Phase' = Phase /\ Phase[c] = "busy" /\ Aim[c] = None
    BY <1>2, StaysBusy DEF PhaseOf, Aim
  <2>3. Aim' = [Aim EXCEPT ![c] = Found(c)] /\ op' = op /\ late' = late
    BY <1>2, GotoMaps
  <2>4. Contract!Resolve(c)
    BY <1>2, <2>1, <2>2, <2>3 DEF Contract!Resolve, Contract!realm, realm
  <2>. QED
    BY <2>4 DEF Contract!Next
<1>3. CASE Stop(c, "failed")
  BY <1>3, FailedMaps DEF Contract!Next, Reading
<1>4. CASE op[c].action \in {"member_remove", "group_delete"} /\ Found(c) = None /\ Stop(c, "ok")
  <2>1. At(c) = Target(c)
    BY <1>4, TargetFacts DEF OnCourse
  <2>2. ActedOn(c) = {}
    BY <1>4, <2>1, FoundFacts DEF ActedOn
  <2>3. Outcome(c)
    BY <1>4, <2>2 DEF Outcome
  <2>. QED
    BY <1>4, <2>3, SettledMaps DEF Contract!Next, Reading
<1>. QED
  BY <1>1, <1>2, <1>3, <1>4 DEF Find

LEMMA VerifyMaps ==
    ASSUME ClientInv, NEW c \in Client, Verify(c)
    PROVE  [Contract!Next]_(Contract!contractVars)
<1>. /\ ClientTypeOK /\ pc[c] = "verify" /\ op[c].action = "group_create" /\ UNCHANGED realm
  BY DEF ClientInv, CallsOnCourse, Verify, OnCourse
<1>1. CASE Stop(c, "failed")
  BY <1>1, FailedMaps DEF Contract!Next, Reading
<1>2. CASE Found(c) # None /\ AtTarget(c) /\ Goto(c, "ok", Found(c), depth[c])
  <2>1. Found(c) \in Contract!GroupsAt(op[c].path)
    BY <1>2, FoundFacts, TargetFacts DEF Contract!GroupsAt, Target
  <2>2. Contract!Outcome(op[c], Aim[c]) /\ Phase[c] = "busy"
    BY <2>1 DEF Contract!Outcome, Phase, PhaseOf
  <2>3. Contract!Become(c, "ok") /\ UNCHANGED <<Aim, late>>
    BY <1>2, GotoMaps DEF Contract!Become, PhaseOf
  <2>. QED
    BY <2>2, <2>3 DEF Contract!Conclude, Contract!Next, Contract!realm, realm
<1>3. CASE Goto(c, "post", Found(c), Below(c))
  <2>1. Phase' = Phase /\ Aim' = Aim /\ op' = op /\ late' = late
    BY <1>3, StaysBusy, GotoMaps DEF PhaseOf
  <2>. QED
    BY <2>1 DEF Contract!contractVars, Contract!realm, realm
<1>. QED
  BY <1>1, <1>2, <1>3 DEF Verify

LEMMA ListMaps ==
    ASSUME IsFiniteSet(Account), Cardinality(Account) <= PageSize,
           ClientInv, NEW c \in Client, List(c)
    PROVE  [Contract!Next]_(Contract!contractVars)
<1>. ClientTypeOK /\ pc[c] = "list" /\ UNCHANGED realm
  BY DEF ClientInv, List
<1>1. CASE Stop(c, "failed")
  BY <1>1, FailedMaps DEF Contract!Next, Reading
<1>2. CASE Stop(c, "ok")
  <2>1. Decides(c)
    BY <1>2, AfterGoto DEF Stop, Decides
  <2>2. Outcome(c)
    BY <2>1, ListDecides
  <2>. QED
    BY <1>2, <2>2, SettledMaps DEF Contract!Next, Reading
<1>3. CASE Stop(c, "mutate")
  <2>1. Phase' = Phase
    BY <1>3, StaysBusy DEF Stop, PhaseOf
  <2>2. Aim' = Aim /\ op' = op /\ late' = late
    BY <1>3, StopMaps DEF Contract!Become
  <2>. QED
    BY <2>1, <2>2 DEF Contract!contractVars, Contract!realm, realm
<1>. QED
  BY <1>1, <1>2, <1>3 DEF List, WithoutGroup

\* A request is served, and the answer decides or moves the call on.
LEMMA ServeMaps ==
    ASSUME NEW r, Serve(r)
    PROVE  Contract!Serve(r)
BY DEF Serve, Contract!Serve, Answer, Contract!Answer, realm, Contract!realm,
   GroupsAt, Contract!GroupsAt, NewPath, Contract!NewPath, AddGroup, Contract!AddGroup,
   Parent, Contract!Parent, SetAttrs, Contract!SetAttrs, DropGroup, Contract!DropGroup,
   Under, Contract!Under, Join, Contract!Join, Leave, Contract!Leave

LEMMA SendMaps ==
    ASSUME ClientInv, NEW c \in Client, Send(c)
    PROVE  Contract!Change(c)
<1>. DEFINE r == RequestOf(c)
            result == AfterAnswer(c, Answer(r))
<1>. /\ ClientTypeOK /\ pc[c] \in Writing /\ OnCourse(c)
  BY DEF ClientInv, CallsOnCourse, Send
<1>1. /\ r \in Contract!Changes(op[c], Aim[c]) /\ Contract!Serve(r)
      /\ (r.verb = "post") = (pc[c] = "post")
  BY RequestIsAChange, ServeMaps, RequestFacts DEF Send
<1>2. Phase[c] = "busy" /\ Contract!Become(c, PhaseOf(result)) /\ Aim' = Aim /\ late' = late
  <2>1. Stop(c, result)
    BY DEF Send
  <2>2. Phase[c] = "busy"
    BY DEF Phase, PhaseOf, Writing
  <2>. QED
    BY <2>1, <2>2, StopMaps
<1>3. CASE result = "failed"
  BY <1>1, <1>2, <1>3 DEF Contract!Change, PhaseOf
<1>4. CASE pc[c] = "post" /\ result # "failed"
  <2>1. result = "verify"
    BY <1>4 DEF AfterAnswer
  <2>2. Phase' = Phase /\ op' = op
    BY <2>1, <1>4, StaysBusy, GotoMaps DEF Send, Stop, PhaseOf
  <2>. QED
    BY <1>1, <1>2, <1>4, <2>2 DEF Contract!Change
<1>5. CASE pc[c] # "post" /\ result # "failed"
  <2>1. result \in {"reread", "ok"}
    BY <1>5 DEF AfterAnswer, Writing
  <2>2. Outcome(c)'
    <3>1. Decides(c)
      BY <2>1, AfterGoto DEF Send, Stop, Decides, Writing
    <3>. QED
      BY <3>1, SendDecides
  <2>3. ClientInv'
    BY SendKeepsClientInv
  <2>4. Contract!Outcome(op[c], Aim[c])'
    BY <2>2, <2>3, OperationAssumption
       DEF Contract!Outcome, Outcome, Contract!ActedOn, ActedOn, Aim, Target,
           Contract!GroupsAt, GroupsAt, ClientInv, ClientTypeOK
  <2>. QED
    BY <1>1, <1>2, <1>5, <2>1, <2>4 DEF Contract!Change, PhaseOf
<1>. QED
  BY <1>3, <1>4, <1>5

LEMMA LoseAnswerMaps ==
    ASSUME ClientInv, NEW c \in Client, LoseAnswer(c)
    PROVE  Contract!GiveUp(c)
<1>1. /\ pc[c] \in Writing /\ pc' = [pc EXCEPT ![c] = "failed"]
      /\ late' = late \cup {RequestOf(c)} /\ UNCHANGED <<realm, op, ref>>
  BY DEF LoseAnswer
<1>2. Phase[c] = "busy" /\ Phase' = [Phase EXCEPT ![c] = "failed"] /\ Aim' = Aim
  BY <1>1 DEF Phase, PhaseOf, Aim, Writing, ClientInv, ClientTypeOK
<1>. QED
  BY <1>1, <1>2, RequestIsAChange DEF Contract!GiveUp, Contract!Become, Contract!realm, realm

\* What happens outside the calls.
LEMMA OutsideMaps ==
    ASSUME Outside
    PROVE  Contract!Next
<1>1. Phase' = Phase /\ Aim' = Aim /\ op' = op
  BY DEF Outside, Arrive, Admin, call, Phase, Aim
<1>2. CASE Admin
  <2>1. Contract!AdminEdit /\ late' = late
    BY <1>2 DEF Admin, call, AdminEdit, Contract!AdminEdit,
       GroupsAt, Contract!GroupsAt, AddGroup, Contract!AddGroup,
       Parent, Contract!Parent, DropGroup, Contract!DropGroup,
       Under, Contract!Under, Join, Contract!Join, Leave, Contract!Leave
  <2>. QED
    BY <1>1, <2>1 DEF Contract!Others, Contract!Next
<1>3. ASSUME NEW r \in late, Arrive(r)
      PROVE  Contract!Next
  BY <1>1, <1>3, ServeMaps DEF Arrive, Contract!Afterwards, Contract!Next
<1>. QED
  BY <1>2, <1>3 DEF Outside

LEMMA InitMaps ==
    ASSUME ClientInit
    PROVE  Contract!Init
<1>1. op \in [Client -> Operation] /\ Phase = [c \in Client |-> "idle"]
      /\ Aim = [c \in Client |-> None]
  BY InitEstablishesClientInv DEF ClientInit, ClientInv, ClientTypeOK, Phase, PhaseOf, Aim
<1>2. Contract!RealmInit /\ late = {}
  BY DEF ClientInit, RealmInit, Contract!RealmInit
<1>. QED
  BY <1>1, <1>2 DEF Contract!Init

LEMMA NextMaps ==
    ASSUME IsFiniteSet(Account), Cardinality(Account) <= PageSize,
           ClientInv, [ClientNext]_clientVars
    PROVE  [Contract!Next]_(Contract!contractVars)
<1>1. ASSUME NEW c \in Client, NEW o \in Operation, Call(c, o) PROVE Contract!Next
  BY <1>1, CallMaps DEF Contract!Next
<1>2. ASSUME NEW c \in Client, Reread(c) PROVE Contract!Next
  BY <1>2, SettledMaps DEF Reread, Reading, Contract!Next
<1>3. ASSUME NEW c \in Client, Send(c) PROVE Contract!Next
  BY <1>3, SendMaps DEF Contract!Next
<1>4. ASSUME NEW c \in Client, Fail(c) PROVE Contract!Next
  BY <1>4, FailedMaps DEF Fail, Contract!Next
<1>5. ASSUME NEW c \in Client, LoseAnswer(c) PROVE Contract!Next
  BY <1>5, LoseAnswerMaps DEF Contract!Next
<1>6. ASSUME NEW c \in Client, Find(c) \/ Verify(c) \/ List(c)
      PROVE  [Contract!Next]_(Contract!contractVars)
  BY <1>6, FindMaps, VerifyMaps, ListMaps
<1>7. CASE UNCHANGED clientVars
  BY <1>7 DEF clientVars, call, Phase, Aim, Contract!contractVars, Contract!realm, realm
<1>. QED
  BY <1>1, <1>2, <1>3, <1>4, <1>5, <1>6, <1>7, OutsideMaps DEF ClientNext, Step

\* The calls of the client keep the contract the repair workflow relies on, as
\* long as one listing shows every member (ListGroupMembers asks for one page).
THEOREM ContractKept ==
    ASSUME IsFiniteSet(Account), Cardinality(Account) <= PageSize
    PROVE  ClientSpec => KeepsContract
<1>1. ClientInit => Contract!Init
  BY InitMaps
<1>2. ClientInv /\ [ClientNext]_clientVars => [Contract!Next]_(Contract!contractVars)
  BY NextMaps
<1>. QED
  BY <1>1, <1>2, ClientInvariant, PTL DEF ClientSpec, KeepsContract, Contract!Spec
==============================================================================
