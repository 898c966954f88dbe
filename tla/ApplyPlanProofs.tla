--------------------------- MODULE ApplyPlanProofs ---------------------------
(***************************************************************************)
(* Theorems about ApplyPlan, for any number of commands, any plan files,   *)
(* any values of --prompts and any answers, with crashes, edits and late   *)
(* requests at any moment and in any number.                               *)
(*                                                                         *)
(* RunInv says of one run how its session, its answers and its results     *)
(* hang together; it depends on nothing the other runs do.  CallInv says   *)
(* of the calls of all runs that they, and the requests they have left     *)
(* behind, are about operations that were carried out.                     *)
(* AchievedInv says of what is recorded as applied, while nobody edits the *)
(* realm, that it has nothing left to do.                                  *)
(***************************************************************************)
EXTENDS ApplyPlan, KeycloakContractProofs

(***************************************************************************)
(* The inductive invariant of one run.                                     *)
(***************************************************************************)
Chose(r, d) == \E j \in DOMAIN answers[r] : answers[r][j] = d

\* One answer for each operation with a result, and one for the call under way.
InStep(r) ==
    /\ Len(results[r]) <= Len(answers[r]) /\ Len(answers[r]) <= Len(Ops(r))
    /\ stage[r] \in {"deciding", "prompting"} => Len(answers[r]) = Len(results[r])
    /\ stage[r] = "prompting" => More(r) /\ Asks(session[r], Current(r))
    /\ stage[r] = "calling" => /\ Len(answers[r]) = Index(r)
                               /\ ~MustSkip(r, Index(r))

\* The session is what the flag and the answers so far make of it.
SessionFits(r) ==
    stage[r] \in Running =>
        /\ session[r].mode = IF Chose(r, "accept_all") THEN "none" ELSE flag[r]
        /\ session[r].skipAll <=> Chose(r, "skip_all")

\* A run with an answer has passed the validation.
Validated(r) ==
    stage[r] \in Running \/ answers[r] # <<>> =>
        /\ flag[r] \in PromptModes
        /\ \A i \in DOMAIN Ops(r) :
             Ops(r)[i].action = "group_delete" => Ops(r)[i].risk = "requires_approval"

RunInv(r) == /\ InStep(r) /\ SessionFits(r) /\ Validated(r) /\ FollowsPolicy(r)
             /\ stage[r] = "returned" => ReportsAll(r)

ApplyInv == ApplyTypeOK /\ CallsOnCourse /\ \A r \in Client : RunInv(r)

(***************************************************************************)
(* The calls of all runs.                                                  *)
(***************************************************************************)

\* What a request is about, in terms of the operation behind it.
AboutGroup(q, o) ==
    IF q.verb = "post"
    THEN /\ o.action = "group_create" /\ Under(NewPath(q), o.path)
         /\ q.attrs = IF NewPath(q) = o.path THEN o.attrs ELSE NoAttrs
    ELSE /\ q.group \in GroupId /\ pathOf[q.group] = o.path
         /\ o.gid # None /\ o.action # "group_create" => q.group = o.gid
         /\ \/ q.verb = "put"    /\ o.action = "group_create" /\ q.attrs = o.attrs
            \/ q.verb = "delete" /\ o.action = "group_delete"
            \/ q.verb = "join"   /\ o.action = "member_add" /\ q.user = o.user
            \/ q.verb = "leave"  /\ o.action = "member_remove" /\ q.user = o.user

\* No group has members before it exists, and a recorded id goes with its path.
NoStrayMembers == \A g \in GroupId : pathOf[g] = None => members[g] = {}
RecordedIdsFit == \A o \in Operation : o.gid # None => pathOf[o.gid] = o.path

\* A call is made for an operation that is carried out, on a group at its path, and
\* on the group the plan names, if it names one.
CarriedOut(c)    == pc[c] # "idle" => op[c] \in carried
ActsOnItsPath(c) ==
    /\ pc[c] \in {"list", "mutate"} => /\ pathOf[ref[c]] = Target(c)
                                       /\ op[c].gid # None => ref[c] = op[c].gid
    /\ pc[c] = "find" /\ op[c].action # "group_create" => op[c].gid = None
LateCarriedOut   == \A q \in late : \E o \in carried : AboutGroup(q, o)

CallInv == /\ NoStrayMembers /\ RecordedIdsFit
           /\ \A c \in Client : CarriedOut(c) /\ ActsOnItsPath(c)
           /\ LateCarriedOut

(***************************************************************************)
(* One run.                                                                *)
(***************************************************************************)
RunParts(r) == <<stage[r], plan[r], session[r], results[r], report[r], flag[r], answers[r]>>

\* RunInv(r) looks at nothing but the run r.
LEMMA OtherRunsKeepRunInv ==
    ASSUME NEW r \in Client, RunInv(r), UNCHANGED RunParts(r)
    PROVE  RunInv(r)'
<1>1. InStep(r)' /\ SessionFits(r)' /\ Validated(r)'
  BY DEF RunInv, RunParts, InStep, SessionFits, Validated, Ops, Index, More, Current,
         MustSkip, Said, Chose
<1>2. FollowsPolicy(r)'
  BY DEF RunInv, RunParts, FollowsPolicy, Ops, MustAsk, MustSkip, Said
<1>3. (stage[r] = "returned" => ReportsAll(r))'
  BY DEF RunInv, RunParts, ReportsAll, Ops
<1>. QED
  BY <1>1, <1>2, <1>3 DEF RunInv

\* The parts of a run, well-typed.
LEMMA RunTypes ==
    ASSUME RunTypeOK, NEW r \in Client
    PROVE  /\ stage[r] \in Stages /\ session[r] \in Session
           /\ results[r] \in Seq(Statuses) /\ Len(results[r]) \in Nat
           /\ answers[r] \in Seq(Decisions \cup {"-"}) /\ Len(answers[r]) \in Nat
           /\ plan[r] \in Plans /\ Ops(r) \in Seq(Operation) /\ Len(Ops(r)) \in Nat
           /\ Index(r) = Len(results[r]) + 1
           /\ More(r) => Current(r) \in Operation /\ Index(r) \in DOMAIN Ops(r)
BY PlanAssumption DEF RunTypeOK, Ops, Index, More, Current

LEMMA AppendFacts ==
    ASSUME NEW S, NEW s \in Seq(S), NEW e \in S
    PROVE  /\ Append(s, e) \in Seq(S) /\ Len(Append(s, e)) = Len(s) + 1
           /\ DOMAIN Append(s, e) = 1..(Len(s) + 1)
           /\ \A i \in 1..Len(s) : Append(s, e)[i] = s[i]
           /\ Append(s, e)[Len(s) + 1] = e
OBVIOUS

\* What an answer more changes in what has been said.
LEMMA AnswersGrow ==
    ASSUME RunTypeOK, NEW r \in Client, NEW a \in Decisions \cup {"-"},
           answers'[r] = Append(answers[r], a)
    PROVE  /\ Len(answers'[r]) = Len(answers[r]) + 1
           /\ DOMAIN answers'[r] = 1..(Len(answers[r]) + 1)
           /\ DOMAIN answers[r] = 1..Len(answers[r])
           /\ \A i \in 1..Len(answers[r]) : answers'[r][i] = answers[r][i]
           /\ answers'[r][Len(answers[r]) + 1] = a
           /\ \A d : \A i \in 1..(Len(answers[r]) + 1) : Said(r, i, d)' <=> Said(r, i, d)
           /\ \A d : Said(r, Len(answers[r]) + 1, d) <=> Chose(r, d)
           /\ \A d : Chose(r, d)' <=> Chose(r, d) \/ a = d
<1>1. answers[r] \in Seq(Decisions \cup {"-"}) /\ Len(answers[r]) \in Nat
  BY RunTypes
<1>2. /\ Len(answers'[r]) = Len(answers[r]) + 1
      /\ DOMAIN answers'[r] = 1..(Len(answers[r]) + 1)
      /\ DOMAIN answers[r] = 1..Len(answers[r])
      /\ \A i \in 1..Len(answers[r]) : answers'[r][i] = answers[r][i]
      /\ answers'[r][Len(answers[r]) + 1] = a
  BY <1>1, AppendFacts
<1>3. \A d : \A i \in 1..(Len(answers[r]) + 1) : Said(r, i, d)' <=> Said(r, i, d)
  <2>. SUFFICES ASSUME NEW d, NEW i \in 1..(Len(answers[r]) + 1)
                PROVE  \A j \in 1..(i - 1) : answers'[r][j] = answers[r][j]
    BY DEF Said
  <2>. QED
    BY <1>1, <1>2
<1>4. \A d : Said(r, Len(answers[r]) + 1, d) <=> Chose(r, d)
  BY <1>1, <1>2 DEF Said, Chose
<1>5. \A d : Chose(r, d)' <=> Chose(r, d) \/ a = d
  <2>. SUFFICES ASSUME NEW d
                PROVE (\E j \in DOMAIN answers'[r] : answers'[r][j] = d)
                      <=> (\E j \in DOMAIN answers[r] : answers[r][j] = d) \/ a = d
    BY DEF Chose
  <2>. QED
    BY <1>1, <1>2
<1>. QED
  BY <1>2, <1>3, <1>4, <1>5

\* Taking an operation up, with or without an answer a, to carry it out or to skip it.
LEMMA TakeUpKeepsRunInv ==
    ASSUME RunTypeOK, NEW r \in Client, RunInv(r), NEW a \in Decisions \cup {"-"},
           stage[r] \in {"deciding", "prompting"}, More(r),
           (a # "-") <=> Asks(session[r], Current(r)),
           session'[r].mode = IF a = "accept_all" THEN "none" ELSE session[r].mode,
           session'[r].skipAll <=> session[r].skipAll \/ a = "skip_all",
           plan'[r] = plan[r], flag'[r] = flag[r],
           answers'[r] = Append(answers[r], a),
           \/ /\ stage'[r] = "calling" /\ results'[r] = results[r]
              /\ ~session[r].skipAll /\ a \notin {"skip", "skip_all"}
           \/ /\ stage'[r] = "deciding" /\ results'[r] = Append(results[r], "skipped")
              /\ session[r].skipAll \/ a \in {"skip", "skip_all"}
    PROVE  RunInv(r)'
<1>0. PICK n \in Nat : n = Index(r)
  BY RunTypes
<1>1. /\ n = Len(results[r]) + 1 /\ n = Len(answers[r]) + 1
      /\ n <= Len(Ops(r)) /\ Len(Ops(r)) \in Nat /\ Ops(r)' = Ops(r)
      /\ Len(results[r]) \in Nat /\ DOMAIN results[r] = 1..Len(results[r])
  BY <1>0, RunTypes DEF RunInv, InStep, More, Ops
<1>2. /\ session[r].mode = IF Chose(r, "accept_all") THEN "none" ELSE flag[r]
      /\ session[r].skipAll <=> Chose(r, "skip_all")
      /\ flag[r] \in PromptModes
  BY DEF RunInv, SessionFits, Validated, Running
<1>. /\ answers[r] \in Seq(Decisions \cup {"-"}) /\ Len(answers'[r]) = n
     /\ DOMAIN answers'[r] = 1..n /\ DOMAIN answers[r] = 1..Len(answers[r])
     /\ \A i \in 1..Len(answers[r]) : answers'[r][i] = answers[r][i]
     /\ answers'[r][n] = a
  BY <1>1, RunTypes, AnswersGrow
<1>a. ASSUME NEW d
      PROVE  /\ \A i \in 1..n : Said(r, i, d)' <=> Said(r, i, d)
             /\ Said(r, n, d)' <=> Chose(r, d)
             /\ Chose(r, d)' <=> Chose(r, d) \/ a = d
  BY <1>1, AnswersGrow
<1>3. SessionFits(r)'
  BY <1>2, <1>a DEF SessionFits
<1>4. Validated(r)'
  BY <1>1 DEF RunInv, Validated, Running
<1>5. \A i \in 1..Len(answers[r]) : /\ (MustAsk(r, i)' <=> MustAsk(r, i))
                                    /\ (MustSkip(r, i)' <=> MustSkip(r, i))
  BY <1>1, <1>a DEF MustAsk, MustSkip
<1>6. MustAsk(r, n)' <=> a # "-"
  <2>1. /\ Said(r, n, "accept_all")' <=> Chose(r, "accept_all")
        /\ Said(r, n, "skip_all")' <=> Chose(r, "skip_all")
    BY <1>a
  <2>2. MustAsk(r, n)' <=>
           /\ ~Chose(r, "accept_all") /\ ~Chose(r, "skip_all")
           /\ flag[r] = "all" \/ (flag[r] = "required" /\ Current(r).risk = "requires_approval")
    BY <1>0, <1>1, <2>1 DEF MustAsk, Current
  <2>3. Asks(session[r], Current(r)) <=>
           /\ ~Chose(r, "accept_all") /\ ~Chose(r, "skip_all")
           /\ flag[r] = "all" \/ (flag[r] = "required" /\ Current(r).risk = "requires_approval")
    BY <1>2 DEF Asks, ShouldPrompt, PromptModes
  <2>. QED
    BY <2>2, <2>3
<1>7. MustSkip(r, n)' <=> session[r].skipAll \/ a \in {"skip", "skip_all"}
  BY <1>1, <1>2, <1>a DEF MustSkip
<1>8. FollowsPolicy(r)'
  <2>1. \A i \in DOMAIN answers'[r] : (answers'[r][i] # "-") <=> MustAsk(r, i)'
    BY <1>1, <1>5, <1>6 DEF RunInv, FollowsPolicy
  <2>2. \A i \in DOMAIN results'[r] : (results'[r][i] = "skipped") <=> MustSkip(r, i)'
    <3>1. \A i \in 1..Len(results[r]) : (results[r][i] = "skipped") <=> MustSkip(r, i)'
      BY <1>1, <1>5 DEF RunInv, FollowsPolicy
    <3>2. CASE results'[r] = results[r]
      BY <1>1, <3>1, <3>2
    <3>3. CASE /\ results'[r] = Append(results[r], "skipped")
               /\ session[r].skipAll \/ a \in {"skip", "skip_all"}
      <4>1. /\ DOMAIN results'[r] = 1..n /\ results'[r][n] = "skipped"
            /\ \A i \in 1..Len(results[r]) : results'[r][i] = results[r][i]
        BY <1>1, <3>3, RunTypes, AppendFacts DEF Statuses
      <4>. QED
        BY <1>1, <1>7, <3>1, <3>3, <4>1
    <3>. QED
      BY <3>2, <3>3
  <2>. QED
    BY <2>1, <2>2 DEF FollowsPolicy
<1>9. InStep(r)'
  <2>2. CASE /\ stage'[r] = "calling" /\ results'[r] = results[r]
             /\ ~session[r].skipAll /\ a \notin {"skip", "skip_all"}
    <3>1. Index(r)' = n
      BY <1>1, <2>2 DEF Index
    <3>. QED
      BY <1>1, <1>7, <2>2, <3>1 DEF InStep
  <2>3. CASE stage'[r] = "deciding" /\ results'[r] = Append(results[r], "skipped")
    <3>1. Len(results'[r]) = n
      BY <1>1, <2>3, RunTypes, AppendFacts DEF Statuses
    <3>. QED
      BY <1>1, <2>3, <3>1 DEF InStep
  <2>. QED
    BY <2>2, <2>3
<1>. QED
  BY <1>3, <1>4, <1>8, <1>9 DEF RunInv

LEMMA OneRunMoves ==
    ASSUME NEW r \in Client, \A s \in Client : RunInv(s), RunInv(r)',
           \A s \in Client \ {r} : UNCHANGED RunParts(s)
    PROVE  \A s \in Client : RunInv(s)'
BY OtherRunsKeepRunInv

\* Handing an operation on, or passing over it, in terms of the parts of the run.
LEMMA TakeUpParts ==
    ASSUME RunTypeOK, NEW r \in Client, NEW a \in Decisions \cup {"-"}, More(r),
           CarryOut(r, a) \/ PassOver(r, a)
    PROVE  /\ answers' = [answers EXCEPT ![r] = Append(@, a)]
           /\ answers' \in [Client -> Seq(Decisions \cup {"-"})]
           /\ stage' \in [Client -> Stages] /\ results' \in [Client -> Seq(Statuses)]
           /\ carried' \subseteq Operation /\ carried \subseteq carried'
           /\ \/ CarryOut(r, a) /\ stage'[r] = "calling" /\ results'[r] = results[r]
              \/ /\ PassOver(r, a) /\ stage'[r] = "deciding"
                 /\ results'[r] = Append(results[r], "skipped")
           /\ \A s \in Client \ {r} : /\ stage'[s] = stage[s] /\ results'[s] = results[s]
                                      /\ answers'[s] = answers[s]
<1>1. /\ answers[r] \in Seq(Decisions \cup {"-"}) /\ results[r] \in Seq(Statuses)
      /\ Current(r) \in Operation
  BY RunTypes
<1>2. Append(answers[r], a) \in Seq(Decisions \cup {"-"})
  BY <1>1, AppendFacts
<1>3. Append(results[r], "skipped") \in Seq(Statuses)
  BY <1>1, AppendFacts DEF Statuses
<1>4. CASE CarryOut(r, a)
  BY <1>1, <1>2, <1>4 DEF CarryOut, RunTypeOK, Stages
<1>5. CASE PassOver(r, a)
  BY <1>2, <1>3, <1>5 DEF PassOver, RunTypeOK, Stages
<1>. QED
  BY <1>4, <1>5

LEMMA DecideKeepsRunInv ==
    ASSUME RunTypeOK, NEW r \in Client, \A s \in Client : RunInv(s), Decide(r)
    PROVE  RunTypeOK' /\ \A s \in Client : RunInv(s)'
<1>1. /\ stage[r] = "deciding" /\ More(r)
      /\ UNCHANGED <<plan, session, report, flag, finished, starts>>
      /\ session[r] \in Session /\ session[r].skipAll \in BOOLEAN
  BY RunTypes DEF Decide, Session
<1>2. CASE /\ Asks(session[r], Current(r))
           /\ stage' = [stage EXCEPT ![r] = "prompting"]
           /\ UNCHANGED <<clientVars, results, answers, carried>>
  <2>1. RunTypeOK' /\ stage'[r] = "prompting"
    BY <1>1, <1>2 DEF RunTypeOK, Stages
  <2>2. UNCHANGED <<Ops(r), Index(r), Current(r), More(r), results, answers, session>>
    BY <1>1, <1>2 DEF Ops, Index, Current, More
  <2>3. InStep(r)'
    BY <1>1, <1>2, <2>1, <2>2 DEF RunInv, InStep
  <2>4. SessionFits(r)' /\ Validated(r)' /\ FollowsPolicy(r)'
    BY <1>1, <1>2, <2>1, <2>2
       DEF RunInv, SessionFits, Validated, FollowsPolicy, Chose, Said, MustAsk, MustSkip, Running
  <2>5. RunInv(r)'
    BY <2>1, <2>3, <2>4 DEF RunInv
  <2>6. \A s \in Client \ {r} : UNCHANGED RunParts(s)
    BY <1>1, <1>2 DEF RunParts, RunTypeOK
  <2>. QED
    BY <2>1, <2>5, <2>6, OneRunMoves
<1>3. CASE \/ SkipsUnasked(session[r]) /\ PassOver(r, "-")
           \/ ~SkipsUnasked(session[r]) /\ ~Asks(session[r], Current(r)) /\ CarryOut(r, "-")
  <2>1. ~Asks(session[r], Current(r))
    BY <1>3 DEF Asks, SkipsUnasked
  <2>2. RunTypeOK'
    BY <1>1, <1>3, TakeUpParts DEF RunTypeOK
  <2>3. /\ answers'[r] = Append(answers[r], "-")
        /\ \A s \in Client \ {r} : UNCHANGED RunParts(s)
    BY <1>1, <1>3, TakeUpParts DEF RunTypeOK, RunParts
  <2>4. \/ stage'[r] = "calling" /\ results'[r] = results[r] /\ ~session[r].skipAll
        \/ /\ stage'[r] = "deciding" /\ results'[r] = Append(results[r], "skipped")
           /\ session[r].skipAll
    BY <1>3 DEF CarryOut, PassOver, SkipsUnasked, RunTypeOK
  <2>5. RunInv(r)'
    BY <1>1, <2>1, <2>3, <2>4, TakeUpKeepsRunInv
  <2>. QED
    BY <2>2, <2>3, <2>5, OneRunMoves
<1>. QED
  BY <1>2, <1>3 DEF Decide

LEMMA AnsweredKeepsRunInv ==
    ASSUME RunTypeOK, NEW r \in Client, \A s \in Client : RunInv(s),
           NEW d \in Decisions, Answered(r, d)
    PROVE  RunTypeOK' /\ \A s \in Client : RunInv(s)'
<1>1. /\ stage[r] = "prompting" /\ More(r) /\ Asks(session[r], Current(r))
      /\ session' = [session EXCEPT ![r] = After(@, d)]
      /\ UNCHANGED <<plan, report, flag, finished, starts>>
      /\ session[r] \in Session /\ d # "-"
  BY RunTypes DEF Answered, RunInv, InStep, Decisions
<1>2. CarryOut(r, d) \/ PassOver(r, d)
  BY DEF Answered
<1>3. /\ After(session[r], d) \in Session
      /\ session'[r].mode = IF d = "accept_all" THEN "none" ELSE session[r].mode
      /\ session'[r].skipAll <=> session[r].skipAll \/ d = "skip_all"
  BY <1>1 DEF After, Session, PromptModes, RunTypeOK
<1>4. RunTypeOK'
  BY <1>1, <1>2, <1>3, TakeUpParts DEF RunTypeOK
<1>5. /\ answers'[r] = Append(answers[r], d)
      /\ \A s \in Client \ {r} : UNCHANGED RunParts(s)
  BY <1>1, <1>2, TakeUpParts DEF RunTypeOK, RunParts
<1>6. \/ /\ stage'[r] = "calling" /\ results'[r] = results[r]
         /\ ~session[r].skipAll /\ d \notin {"skip", "skip_all"}
      \/ /\ stage'[r] = "deciding" /\ results'[r] = Append(results[r], "skipped")
         /\ d \in {"skip", "skip_all"}
  BY <1>1 DEF Answered, Accepts, Asks, CarryOut, PassOver, Decisions, RunTypeOK
<1>7. RunInv(r)'
  BY <1>1, <1>3, <1>5, <1>6, TakeUpKeepsRunInv
<1>. QED
  BY <1>4, <1>5, <1>7, OneRunMoves

\* A run that leaves the loop where it stands, at a prompt or killed.
LEMMA LeavingKeepsRunInv ==
    ASSUME RunTypeOK, NEW r \in Client, \A s \in Client : RunInv(s),
           Hangup(r) \/ Crash(r)
    PROVE  RunTypeOK' /\ \A s \in Client : RunInv(s)'
<1>1. PICK end \in {"aborted", "crashed"} :
        /\ stage[r] \in Running /\ stage' = [stage EXCEPT ![r] = end]
        /\ UNCHANGED <<plan, session, results, report, flag, answers, carried, finished, starts>>
  BY DEF Hangup, Crash, Running
<1>2. RunTypeOK' /\ stage'[r] \in {"aborted", "crashed"}
  BY <1>1 DEF RunTypeOK, Stages
<1>3. InStep(r)' /\ SessionFits(r)' /\ Validated(r)'
  BY <1>1, <1>2 DEF RunInv, InStep, SessionFits, Validated, Running, Ops
<1>4. FollowsPolicy(r)'
  BY <1>1 DEF RunInv, FollowsPolicy, Ops, MustAsk, MustSkip, Said
<1>5. RunInv(r)'
  BY <1>2, <1>3, <1>4 DEF RunInv
<1>6. \A s \in Client \ {r} : UNCHANGED RunParts(s)
  BY <1>1 DEF RunParts, RunTypeOK
<1>. QED
  BY <1>2, <1>5, <1>6, OneRunMoves

LEMMA RecordKeepsRunInv ==
    ASSUME RunTypeOK, NEW r \in Client, \A s \in Client : RunInv(s), Record(r)
    PROVE  RunTypeOK' /\ \A s \in Client : RunInv(s)'
<1>1. /\ stage[r] = "calling" /\ stage' = [stage EXCEPT ![r] = "deciding"]
      /\ results' = [results EXCEPT ![r] = WithOutcome(r)]
      /\ UNCHANGED <<plan, session, report, flag, answers, carried, finished, starts>>
  BY DEF Record
<1>2. PICK n \in Nat : n = Index(r)
  BY RunTypes
<1>3. /\ n = Len(results[r]) + 1 /\ Len(answers[r]) = n /\ n <= Len(Ops(r))
      /\ ~MustSkip(r, n) /\ DOMAIN results[r] = 1..Len(results[r]) /\ Len(results[r]) \in Nat
  BY <1>1, <1>2, RunTypes DEF RunInv, InStep
<1>4. PICK o \in {"applied", "failed"} : results'[r] = Append(results[r], o)
  BY <1>1 DEF WithOutcome, OutcomeOf, RunTypeOK
<1>5. /\ results'[r] \in Seq(Statuses) /\ Len(results'[r]) = n
      /\ DOMAIN results'[r] = 1..n /\ results'[r][n] = o
      /\ \A i \in 1..Len(results[r]) : results'[r][i] = results[r][i]
  BY <1>3, <1>4, RunTypes, AppendFacts DEF Statuses
<1>6. RunTypeOK' /\ stage'[r] = "deciding"
  BY <1>1, <1>5 DEF RunTypeOK, Stages
<1>7. InStep(r)' /\ SessionFits(r)' /\ Validated(r)'
  BY <1>1, <1>3, <1>5, <1>6
     DEF RunInv, InStep, SessionFits, Validated, Running, Ops, Chose
<1>8. FollowsPolicy(r)'
  <2>1. \A i : MustSkip(r, i)' <=> MustSkip(r, i)
    BY <1>1 DEF MustSkip, Said
  <2>2. \A i \in DOMAIN results'[r] : (results'[r][i] = "skipped") <=> MustSkip(r, i)'
    BY <1>3, <1>5, <2>1 DEF RunInv, FollowsPolicy
  <2>3. \A i \in DOMAIN answers'[r] : (answers'[r][i] # "-") <=> MustAsk(r, i)'
    BY <1>1 DEF RunInv, FollowsPolicy, MustAsk, Said, Ops
  <2>. QED
    BY <2>2, <2>3 DEF FollowsPolicy
<1>9. RunInv(r)'
  BY <1>6, <1>7, <1>8 DEF RunInv
<1>10. \A s \in Client \ {r} : UNCHANGED RunParts(s)
  BY <1>1 DEF RunParts, RunTypeOK
<1>. QED
  BY <1>6, <1>9, <1>10, OneRunMoves

\* Every result is counted, and once.
LEMMA CountsAddUp ==
    ASSUME RunTypeOK, NEW r \in Client
    PROVE  /\ Count(r, "applied") \in Nat /\ Count(r, "skipped") \in Nat
           /\ Count(r, "failed") \in Nat
           /\ Count(r, "applied") + Count(r, "skipped") + Count(r, "failed") = Len(results[r])
<1>. DEFINE D == 1..Len(results[r])
            With(x) == {i \in D : results[r][i] = x}
<1>1. /\ results[r] \in Seq(Statuses) /\ Len(results[r]) \in Nat /\ DOMAIN results[r] = D
      /\ \A i \in D : results[r][i] \in {"applied", "skipped", "failed"}
  BY RunTypes DEF Statuses
<1>2. IsFiniteSet(D) /\ Cardinality(D) = Len(results[r])
  BY <1>1, FS_Interval
<1>3. ASSUME NEW x
      PROVE  IsFiniteSet(With(x)) /\ Cardinality(With(x)) \in Nat /\ Count(r, x) = Cardinality(With(x))
  BY <1>1, <1>2, FS_Subset, FS_CardinalityType DEF Count
<1>4. Cardinality(With("applied") \cup With("skipped"))
      = Cardinality(With("applied")) + Cardinality(With("skipped"))
  <2>1. With("applied") \cap With("skipped") = {}
    OBVIOUS
  <2>2. /\ IsFiniteSet(With("applied")) /\ Cardinality(With("applied")) \in Nat
        /\ IsFiniteSet(With("skipped")) /\ Cardinality(With("skipped")) \in Nat
    BY <1>3
  <2>. HIDE DEF With
  <2>3. Cardinality(With("applied") \cup With("skipped"))
        = Cardinality(With("applied")) + Cardinality(With("skipped"))
          - Cardinality(With("applied") \cap With("skipped"))
    BY <2>2, FS_Union
  <2>. QED
    BY <2>1, <2>2, <2>3, FS_EmptySet
<1>5. Cardinality(D) = Cardinality(With("applied") \cup With("skipped")) + Cardinality(With("failed"))
  <2>1. /\ (With("applied") \cup With("skipped")) \cap With("failed") = {}
        /\ D = (With("applied") \cup With("skipped")) \cup With("failed")
    BY <1>1
  <2>2. IsFiniteSet(With("applied") \cup With("skipped"))
    BY <1>3, FS_Union
  <2>3. Cardinality(With("applied") \cup With("skipped")) \in Nat
    BY <2>2, FS_CardinalityType
  <2>. HIDE DEF D, With
  <2>. QED
    BY <1>3, <2>1, <2>2, <2>3, FS_Union, FS_EmptySet
<1>. QED
  BY <1>2, <1>3, <1>4, <1>5

LEMMA ReturnKeepsRunInv ==
    ASSUME RunTypeOK, NEW r \in Client, \A s \in Client : RunInv(s), Return(r)
    PROVE  RunTypeOK' /\ \A s \in Client : RunInv(s)'
<1>. DEFINE summary == [status |-> ResultStatus(r), applied |-> Count(r, "applied"),
                        skipped |-> Count(r, "skipped"), failed |-> Count(r, "failed")]
<1>1. /\ stage[r] = "deciding" /\ ~More(r) /\ stage' = [stage EXCEPT ![r] = "returned"]
      /\ report' = [report EXCEPT ![r] = summary]
      /\ finished' \in {plan[r], finished}
      /\ UNCHANGED <<plan, session, results, flag, answers, carried, starts>>
  BY DEF Return
<1>2. summary \in Report
  BY CountsAddUp DEF Report, ResultStatus, Statuses
<1>3. RunTypeOK' /\ stage'[r] = "returned" /\ report'[r] = summary
  BY <1>1, <1>2 DEF RunTypeOK, Stages
<1>4. Len(results[r]) = Len(Ops(r))
  BY <1>1, RunTypes DEF RunInv, InStep, More
<1>5. ReportsAll(r)'
  <2>1. summary.status = "applied" => summary.failed = 0
    BY CountsAddUp DEF ResultStatus
  <2>2. summary.applied + summary.skipped + summary.failed = Len(Ops(r))
    BY <1>4, CountsAddUp
  <2>. QED
    BY <1>1, <1>3, <1>4, <2>1, <2>2 DEF ReportsAll, Ops
<1>6. InStep(r)' /\ SessionFits(r)' /\ Validated(r)'
  BY <1>1, <1>3 DEF RunInv, InStep, SessionFits, Validated, Running, Ops
<1>7. FollowsPolicy(r)'
  BY <1>1 DEF RunInv, FollowsPolicy, Ops, MustAsk, MustSkip, Said
<1>8. RunInv(r)'
  BY <1>5, <1>6, <1>7 DEF RunInv
<1>9. \A s \in Client \ {r} : UNCHANGED RunParts(s)
  BY <1>1 DEF RunParts, RunTypeOK
<1>. QED
  BY <1>3, <1>8, <1>9, OneRunMoves

LEMMA StartKeepsRunInv ==
    ASSUME RunTypeOK, NEW r \in Client, \A s \in Client : RunInv(s),
           NEW p \in Plans, NEW m \in Modes, Start(r, p, m)
    PROVE  RunTypeOK' /\ \A s \in Client : RunInv(s)'
<1>. DEFINE fit == ValidatePromptMode(m) /\ ValidPlan(p, ExpectedFor(p))
<1>1. /\ starts < MaxStarts /\ starts' = starts + 1
      /\ stage' = [stage EXCEPT ![r] = IF fit THEN "deciding" ELSE "refused"]
      /\ plan' = [plan EXCEPT ![r] = p] /\ flag' = [flag EXCEPT ![r] = m]
      /\ session' = IF ValidatePromptMode(m) THEN [session EXCEPT ![r] = NewSession(m)]
                                             ELSE session
      /\ results' = [results EXCEPT ![r] = <<>>] /\ answers' = [answers EXCEPT ![r] = <<>>]
      /\ report' = [report EXCEPT ![r] = None] /\ finished' \in {p, None} /\ carried' = carried
  BY DEF Start
<1>2. ValidatePromptMode(m) => NewSession(m) = [mode |-> m, skipAll |-> FALSE]
  BY DEF ValidatePromptMode, NewSession, PromptModes
<1>3. session' \in [Client -> Session]
  <2>1. session \in [Client -> Session]
    BY DEF RunTypeOK
  <2>2. ValidatePromptMode(m) => NewSession(m) \in Session
    <3>1. m \in PromptModes => [mode |-> m, skipAll |-> FALSE] \in Session
      BY DEF Session
    <3>. QED
      BY <1>2, <3>1 DEF ValidatePromptMode
  <2>. QED
    BY <1>1, <2>1, <2>2
<1>4. RunTypeOK'
  BY <1>1, <1>3, StartsAssumption DEF RunTypeOK, Stages
<1>5. /\ stage'[r] = IF fit THEN "deciding" ELSE "refused"
      /\ plan'[r] = p /\ flag'[r] = m /\ results'[r] = <<>> /\ answers'[r] = <<>>
      /\ fit => session'[r] = [mode |-> m, skipAll |-> FALSE]
  BY <1>1, <1>2 DEF RunTypeOK
<1>6. InStep(r)' /\ FollowsPolicy(r)'
  BY <1>5, PlanAssumption DEF InStep, FollowsPolicy, Ops
<1>7. SessionFits(r)'
  BY <1>5 DEF SessionFits, Running, Chose
<1>8. Validated(r)'
  BY <1>5 DEF Validated, Running, Ops, ValidPlan, ValidOperation, ValidatePromptMode
<1>9. RunInv(r)'
  BY <1>5, <1>6, <1>7, <1>8 DEF RunInv
<1>10. \A s \in Client \ {r} : UNCHANGED RunParts(s)
  BY <1>1 DEF RunParts, RunTypeOK
<1>. QED
  BY <1>4, <1>9, <1>10, OneRunMoves

(***************************************************************************)
(* The calls stay on course: the command adds taking a call up, taking its *)
(* result, and being killed.                                               *)
(***************************************************************************)
LEMMA ResetKeepsClientInv ==
    ASSUME ClientInv, NEW r \in Client, pc' = [pc EXCEPT ![r] = "idle"],
           UNCHANGED <<realm, op, ref, depth, edits>>,
           late' = late \/ (pc[r] \in Writing /\ late' = late \cup {RequestOf(r)})
    PROVE  ClientInv'
<1>1. RealmTypeOK' /\ PathsStay
  BY RealmUnchanged DEF ClientInv, ClientTypeOK
<1>2. late' = late \/ \E q \in Request : late' = late \cup {q} /\ Aimed(q)
  BY RequestFacts DEF ClientInv, CallsOnCourse
<1>3. /\ pc' \in [Client -> CallStep] /\ op' \in [Client -> Operation]
      /\ ref' \in [Client -> GroupId \cup {None}] /\ depth' \in [Client -> Nat]
      /\ pc'[r] = "idle" /\ depth'[r] \in 1..Len(op'[r].path)
      /\ \A d \in Client \ {r} : /\ pc'[d] = pc[d] /\ op'[d] = op[d]
                                 /\ ref'[d] = ref[d] /\ depth'[d] = depth[d]
  BY DEF ClientInv, ClientTypeOK, CallStep
<1>4. OnCourse(r)'
  BY <1>3 DEF OnCourse
<1>. QED
  BY <1>1, <1>2, <1>3, <1>4, MoveKeepsClientInv

LEMMA TakeUpKeepsClientInv ==
    ASSUME RunTypeOK, ClientInv, NEW r \in Client, NEW a, More(r),
           CarryOut(r, a) \/ PassOver(r, a)
    PROVE  ClientInv'
<1>1. CASE CarryOut(r, a)
  BY <1>1, RunTypes, CallKeepsClientInv DEF CarryOut
<1>2. CASE PassOver(r, a)
  BY <1>2, NextKeepsClientInv DEF PassOver
<1>. QED
  BY <1>1, <1>2

\* What a run does of its own, without a step of its call.
OwnStep(r) == \/ \E p \in Plans, m \in Modes : Start(r, p, m)
              \/ \E d \in Decisions : Answered(r, d)
              \/ RunStep(r) \/ Hangup(r) \/ Crash(r)

LEMMA OwnStepsKeepInv ==
    ASSUME RunTypeOK, ClientInv, \A s \in Client : RunInv(s), NEW r \in Client, OwnStep(r)
    PROVE  RunTypeOK' /\ ClientInv' /\ \A s \in Client : RunInv(s)'
<1>1. ASSUME NEW p \in Plans, NEW m \in Modes, Start(r, p, m)
      PROVE  RunTypeOK' /\ ClientInv' /\ \A s \in Client : RunInv(s)'
  BY <1>1, StartKeepsRunInv, NextKeepsClientInv DEF Start
<1>2. ASSUME NEW d \in Decisions, Answered(r, d)
      PROVE  RunTypeOK' /\ ClientInv' /\ \A s \in Client : RunInv(s)'
  BY <1>2, AnsweredKeepsRunInv, TakeUpKeepsClientInv DEF Answered, RunInv, InStep
<1>3. CASE Decide(r)
  BY <1>3, DecideKeepsRunInv, TakeUpKeepsClientInv, NextKeepsClientInv DEF Decide
<1>4. CASE Record(r)
  BY <1>4, RecordKeepsRunInv, ResetKeepsClientInv DEF Record
<1>5. CASE Return(r)
  BY <1>5, ReturnKeepsRunInv, NextKeepsClientInv DEF Return
<1>6. CASE Hangup(r)
  BY <1>6, LeavingKeepsRunInv, NextKeepsClientInv DEF Hangup
<1>7. CASE Crash(r)
  BY <1>7, LeavingKeepsRunInv, ResetKeepsClientInv DEF Crash
<1>. QED
  BY <1>1, <1>2, <1>3, <1>4, <1>5, <1>6, <1>7 DEF OwnStep, RunStep

\* The steps of calls, late requests and administrators leave the runs alone.
LEMMA RunsUntouched ==
    ASSUME RunTypeOK, \A s \in Client : RunInv(s), UNCHANGED <<runVars, starts>>
    PROVE  RunTypeOK' /\ \A s \in Client : RunInv(s)'
<1>1. RunTypeOK'
  BY DEF RunTypeOK, runVars
<1>2. \A s \in Client : UNCHANGED RunParts(s)
  BY DEF RunParts, runVars
<1>. QED
  BY <1>1, <1>2, OtherRunsKeepRunInv

LEMMA InitEstablishesApplyInv ==
    ASSUME ApplyInit
    PROVE  ApplyInv
<1>1. ClientInv
  BY InitEstablishesClientInv DEF ApplyInit
<1>2. RunTypeOK
  <2>1. (CHOOSE p \in Plans : TRUE) \in Plans
    BY PlanExists
  <2>2. NewSession("required") \in Session
    BY DEF NewSession, Session, PromptModes
  <2>. QED
    BY <2>1, <2>2, StartsAssumption DEF ApplyInit, RunTypeOK, Stages
<1>3. \A r \in Client : RunInv(r)
  BY <1>2, RunTypes DEF ApplyInit, RunInv, InStep, SessionFits, Validated, FollowsPolicy, Running
<1>. QED
  BY <1>1, <1>2, <1>3 DEF ApplyInv, ApplyTypeOK, ClientInv

LEMMA ApplyInvParts == ApplyInv <=> RunTypeOK /\ ClientInv /\ \A r \in Client : RunInv(r)
BY DEF ApplyInv, ApplyTypeOK, ClientInv

LEMMA NextKeepsApplyInv ==
    ASSUME ApplyInv, [ApplyNext]_applyVars
    PROVE  ApplyInv'
<1>. RunTypeOK /\ ClientInv /\ \A r \in Client : RunInv(r)
  BY ApplyInvParts
<1>1. ASSUME NEW r \in Client, OwnStep(r)
      PROVE  ApplyInv'
  BY <1>1, OwnStepsKeepInv DEF ApplyInv, ApplyTypeOK, ClientInv
<1>2. CASE [ClientNext]_clientVars /\ UNCHANGED <<runVars, starts>>
  BY <1>2, RunsUntouched, NextKeepsClientInv DEF ApplyInv, ApplyTypeOK, ClientInv
<1>3. ASSUME NEW r \in Client, Calling(r)
      PROVE  [ClientNext]_clientVars /\ UNCHANGED <<runVars, starts>>
  BY <1>3 DEF Calling, ClientNext
<1>. QED
  BY <1>1, <1>2, <1>3 DEF ApplyNext, OwnStep, applyVars, ClientNext

(***************************************************************************)
(* The theorems about the loop.                                            *)
(***************************************************************************)
\* Types, calls on course, and every run in itself consistent: inductive together.
THEOREM ApplyInvariant == ApplySpec => []ApplyInv
<1>1. ApplyInit => ApplyInv
  BY InitEstablishesApplyInv
<1>2. ApplyInv /\ [ApplyNext]_applyVars => ApplyInv'
  BY NextKeepsApplyInv
<1>. QED
  BY <1>1, <1>2, PTL DEF ApplySpec

\* The command, the client under it and the realm stay well-typed.
THEOREM ApplyTypeCorrect == ApplySpec => []ApplyTypeOK
BY ApplyInvariant, PTL DEF ApplyInv

\* Who is asked, and what is skipped, follows from the flag, the risks and the
\* earlier answers, for any plan and any sequence of answers.
THEOREM PolicyHolds == ApplySpec => []PromptPolicy
<1>1. ApplyInv => PromptPolicy
  BY DEF ApplyInv, RunInv, PromptPolicy
<1>. QED
  BY <1>1, ApplyInvariant, PTL

\* Deletions are approved: the validator refuses a plan that understates their
\* risk, and the session asks for every operation of that risk.
THEOREM DeletionsNeedApproval == ApplySpec => []DeletesApproved
<1>1. ASSUME ApplyInv, NEW r \in Client, NEW i \in DOMAIN answers[r],
             Ops(r)[i].action = "group_delete", ~MustSkip(r, i)
      PROVE  Approved(r, i)
  <2>. RunTypeOK /\ RunInv(r)
    BY <1>1 DEF ApplyInv, ApplyTypeOK
  <2>1. answers[r] \in Seq(Decisions \cup {"-"}) /\ answers[r][i] \in Decisions \cup {"-"}
    BY <1>1, RunTypes
  <2>2. i \in DOMAIN Ops(r) /\ answers[r] # <<>>
    BY <1>1, <2>1, RunTypes DEF RunInv, InStep
  <2>3. flag[r] \in PromptModes /\ Ops(r)[i].risk = "requires_approval"
    BY <1>1, <2>2 DEF RunInv, Validated
  <2>4. (answers[r][i] # "-") <=> MustAsk(r, i)
    BY <1>1 DEF RunInv, FollowsPolicy
  <2>. QED
    BY <1>1, <2>1, <2>3, <2>4 DEF MustAsk, MustSkip, Approved, PromptModes, Decisions
<1>2. ApplyInv => DeletesApproved
  BY <1>1 DEF DeletesApproved
<1>. QED
  BY <1>2, ApplyInvariant, PTL

\* A run that returns has a result for every operation, counted once.
THEOREM ReportIsComplete == ApplySpec => []ReportComplete
<1>1. ApplyInv => ReportComplete
  BY DEF ApplyInv, RunInv, ReportComplete
<1>. QED
  BY <1>1, ApplyInvariant, PTL

(***************************************************************************)
(* What the calls do to the realm.                                         *)
(***************************************************************************)
LEMMA RequestIsAbout ==
    ASSUME ClientInv, NEW c \in Client, pc[c] \in Writing, ActsOnItsPath(c)
    PROVE  AboutGroup(RequestOf(c), op[c])
<1>1. /\ ClientTypeOK /\ OnCourse(c) /\ Target(c) = op[c].path /\ op[c].action \in Action
      /\ Target(c) \in Seq(Segment) /\ Len(Target(c)) \in Nat /\ depth[c] \in 1..Len(Target(c))
  BY TargetFacts, PathFacts, OperationAssumption DEF ClientInv, CallsOnCourse, Target
<1>2. CASE pc[c] = "post"
  <2>1. /\ RequestOf(c).verb = "post" /\ RequestOf(c).attrs = PostAttrs(c)
        /\ NewPath(RequestOf(c)) = At(c) /\ op[c].action = "group_create"
    BY <1>1, <1>2, RequestFacts DEF RequestOf, OnCourse
  <2>2. Len(At(c)) = depth[c] /\ Under(At(c), Target(c))
    BY <1>1 DEF At, Under
  <2>3. AtTarget(c) <=> At(c) = Target(c)
    BY <1>1, <2>2, TargetFacts DEF AtTarget
  <2>. QED
    BY <1>1, <2>1, <2>2, <2>3 DEF AboutGroup, PostAttrs
<1>3. CASE pc[c] = "update"
  BY <1>1, <1>3 DEF AboutGroup, RequestOf, PutAttrs, OnCourse
<1>4. CASE pc[c] = "mutate"
  BY <1>1, <1>4 DEF AboutGroup, RequestOf, OnCourse, Action, ActsOnItsPath
<1>. QED
  BY <1>2, <1>3, <1>4 DEF Writing

\* A request stays about what it is about.
LEMMA AboutStays ==
    ASSUME RealmTypeOK, PathsStay, NEW q \in Request, NEW o \in Operation,
           Aimed(q), AboutGroup(q, o)
    PROVE  AboutGroup(q, o)'
<1>1. o.path \in Path /\ o.path # None
  BY OperationAssumption, NoneAssumption
<1>2. CASE q.verb = "post"
  <2>1. NewPath(q)' = NewPath(q)
    BY <1>2, NoneAssumption DEF Aimed, NewPath, PathsStay, Request
  <2>. QED
    BY <1>2, <2>1 DEF AboutGroup
<1>3. CASE q.verb # "post"
  BY <1>1, <1>3 DEF AboutGroup, PathsStay, Request, Verb
<1>. QED
  BY <1>2, <1>3

\* Serving a request about an operation is explained by the operation.
LEMMA ServeIsExplained ==
    ASSUME RealmTypeOK, NoStrayMembers,
           NEW q \in Request, NEW o \in Operation, AboutGroup(q, o), Serve(q)
    PROVE  UNCHANGED realm \/ Explains(o)
<1>1. CASE q.verb = "post" /\ Answer(q) = 204
  <2>1. PICK g \in GroupId : AddGroup(g, NewPath(q), q.attrs)
    BY <1>1 DEF Serve
  <2>2. /\ g \notin live /\ live' = live \cup {g} /\ pathOf'[g] = NewPath(q) /\ attrs'[g] = q.attrs
        /\ \A h \in live : attrs'[h] = attrs[h] /\ members'[h] = members[h]
        /\ members'[g] = {} /\ members[g] = {}
    BY <2>1, NoneAssumption DEF AddGroup, RealmTypeOK, NoStrayMembers
  <2>3. Created = {g} /\ Rewritten = {} /\ Dropped = {} /\ Entered = {} /\ Left = {}
    BY <2>2 DEF Created, Rewritten, Dropped, Entered, Left
  <2>. QED
    BY <1>1, <2>2, <2>3 DEF Explains, AboutGroup
<1>2. CASE q.verb = "put" /\ Answer(q) = 204
  <2>1. attrs' = [attrs EXCEPT ![q.group] = q.attrs] /\ UNCHANGED <<live, pathOf, members>>
    BY <1>2 DEF Serve, SetAttrs
  <2>2. /\ Created = {} /\ Dropped = {} /\ Entered = {} /\ Left = {}
        /\ \A g \in Rewritten : g = q.group /\ attrs'[g] = q.attrs
    BY <2>1 DEF Created, Rewritten, Dropped, Entered, Left, RealmTypeOK
  <2>. QED
    BY <1>2, <2>2 DEF Explains, AboutGroup
<1>3. CASE q.verb = "delete" /\ Answer(q) = 204
  <2>1. /\ live' = {h \in live : ~Under(pathOf[q.group], pathOf[h])}
        /\ UNCHANGED <<pathOf, attrs, members>>
    BY <1>3 DEF Serve, DropGroup
  <2>2. /\ Created = {} /\ Rewritten = {} /\ Entered = {} /\ Left = {}
        /\ \A g \in Dropped : Under(pathOf[q.group], pathOf[g])
    BY <2>1 DEF Created, Rewritten, Dropped, Entered, Left
  <2>. QED
    BY <1>3, <2>2 DEF Explains, AboutGroup
<1>4. CASE q.verb = "join" /\ Answer(q) = 204
  <2>1. /\ members' = [members EXCEPT ![q.group] = @ \cup {q.user}]
        /\ UNCHANGED <<live, pathOf, attrs>>
    BY <1>4 DEF Serve, Join
  <2>2. /\ Created = {} /\ Rewritten = {} /\ Dropped = {} /\ Left = {}
        /\ \A x \in Entered : x[1] = q.group /\ x[2] = q.user
    BY <2>1 DEF Created, Rewritten, Dropped, Entered, Left, RealmTypeOK
  <2>. QED
    BY <1>4, <2>2 DEF Explains, AboutGroup
<1>5. CASE q.verb = "leave" /\ Answer(q) = 204
  <2>1. /\ members' = [members EXCEPT ![q.group] = @ \ {q.user}]
        /\ UNCHANGED <<live, pathOf, attrs>>
    BY <1>5 DEF Serve, Leave
  <2>2. /\ Created = {} /\ Rewritten = {} /\ Dropped = {} /\ Entered = {}
        /\ \A x \in Left : x[1] = q.group /\ x[2] = q.user
    BY <2>1 DEF Created, Rewritten, Dropped, Entered, Left, RealmTypeOK
  <2>. QED
    BY <1>5, <2>2 DEF Explains, AboutGroup
<1>. QED
  BY <1>1, <1>2, <1>3, <1>4, <1>5 DEF Serve, Request, Verb

\* A realm that is left alone, or changed by a request or an administrator.
RealmStep == UNCHANGED realm \/ (\E q \in Request : Aimed(q) /\ Serve(q)) \/ AdminEdit

LEMMA RealmStepFacts ==
    ASSUME RealmTypeOK, NoStrayMembers, RecordedIdsFit, RealmStep
    PROVE  PathsStay /\ NoStrayMembers' /\ RecordedIdsFit'
<1>1. PathsStay
  BY RealmUnchanged, ServeKeepsRealm, AdminKeepsRealm DEF RealmStep
<1>2. RecordedIdsFit'
  BY <1>1, OperationAssumption, NoneAssumption DEF RecordedIdsFit, PathsStay
<1>3. ASSUME NEW g \in GroupId, NEW p, NEW a, AddGroup(g, p, a)
      PROVE  NoStrayMembers'
  BY <1>3 DEF NoStrayMembers, AddGroup, RealmTypeOK
<1>4. ASSUME NEW g \in live, NEW u, Join(g, u) \/ Leave(g, u)
      PROVE  NoStrayMembers'
  BY <1>4, NoneAssumption DEF NoStrayMembers, Join, Leave, RealmTypeOK
<1>5. ASSUME NEW g, NEW a, SetAttrs(g, a) \/ DropGroup(g)
      PROVE  NoStrayMembers'
  BY <1>5 DEF NoStrayMembers, SetAttrs, DropGroup
<1>6. ASSUME NEW q \in Request, Serve(q)
      PROVE  NoStrayMembers'
  <2>1. CASE q.verb \in {"join", "leave"} /\ Answer(q) = 204
    <3>1. q.group \in live
      BY <2>1 DEF Answer
    <3>. QED
      BY <1>4, <1>6, <2>1, <3>1 DEF Serve
  <2>. QED
    BY <1>3, <1>5, <1>6, <2>1 DEF Serve, NoStrayMembers, realm
<1>7. ASSUME AdminEdit
      PROVE  NoStrayMembers'
  BY <1>3, <1>4, <1>5, <1>7 DEF AdminEdit
<1>8. ASSUME UNCHANGED realm
      PROVE  NoStrayMembers'
  BY <1>8 DEF NoStrayMembers, realm
<1>. QED
  BY <1>1, <1>2, <1>6, <1>7, <1>8 DEF RealmStep

\* A call that has not moved acts on what it acted on.
LEMMA StaysOnItsPath ==
    ASSUME ClientInv, PathsStay, NEW c \in Client, ActsOnItsPath(c),
           pc'[c] = pc[c], op'[c] = op[c], ref'[c] = ref[c]
    PROVE  ActsOnItsPath(c)'
<1>1. Target(c) \in Path /\ (pc[c] \in {"list", "mutate"} => ref[c] \in GroupId)
  BY TargetFacts DEF ClientInv, CallsOnCourse, OnCourse
<1>. QED
  BY <1>1, NoneAssumption DEF ActsOnItsPath, PathsStay, Target

LEMMA LateStays ==
    ASSUME ClientInv, PathsStay, LateCarriedOut, carried \subseteq Operation,
           carried \subseteq carried',
           \/ late' \subseteq late
           \/ \E c \in Client : /\ pc[c] \in Writing /\ ActsOnItsPath(c) /\ op[c] \in carried
                                /\ late' = late \cup {RequestOf(c)}
    PROVE  LateCarriedOut'
<1>1. ASSUME NEW q \in late
      PROVE  \E o \in carried' : AboutGroup(q, o)'
  <2>1. PICK o \in carried : AboutGroup(q, o)
    BY DEF LateCarriedOut
  <2>2. RealmTypeOK /\ q \in Request /\ Aimed(q) /\ o \in Operation
    BY DEF ClientInv, ClientTypeOK, CallsOnCourse
  <2>. QED
    BY <2>1, <2>2, AboutStays
<1>2. ASSUME NEW c \in Client, pc[c] \in Writing, ActsOnItsPath(c), op[c] \in carried,
             NEW q \in Request, q = RequestOf(c)
      PROVE  \E o \in carried' : AboutGroup(q, o)'
  <2>1. AboutGroup(q, op[c]) /\ Aimed(q) /\ RealmTypeOK
    BY <1>2, RequestIsAbout, RequestFacts DEF ClientInv, ClientTypeOK, CallsOnCourse
  <2>. QED
    BY <1>2, <2>1, AboutStays
<1>3. ASSUME NEW q \in late'
      PROVE  \E o \in carried' : AboutGroup(q, o)'
  <2>1. CASE q \in late
    BY <2>1, <1>1
  <2>2. CASE q \notin late
    <3>1. PICK c \in Client : /\ pc[c] \in Writing /\ ActsOnItsPath(c) /\ op[c] \in carried
                              /\ q = RequestOf(c)
      BY <1>3, <2>2
    <3>2. q \in Request
      BY <3>1, RequestFacts DEF ClientInv, CallsOnCourse
    <3>. QED
      BY <1>2, <3>1, <3>2
  <2>. QED
    BY <2>1, <2>2
<1>. QED
  BY <1>3 DEF LateCarriedOut

\* A step of one call, or of none: it is enough to look at that call.
LEMMA MoveKeepsCallInv ==
    ASSUME ClientInv, CallInv, RealmStep, carried \subseteq Operation,
           carried \subseteq carried', NEW c \in Client,
           \A d \in Client \ {c} : pc'[d] = pc[d] /\ op'[d] = op[d] /\ ref'[d] = ref[d],
           CarriedOut(c)', ActsOnItsPath(c)',
           \/ late' \subseteq late
           \/ pc[c] \in Writing /\ late' = late \cup {RequestOf(c)}
    PROVE  CallInv'
<1>1. PathsStay /\ NoStrayMembers' /\ RecordedIdsFit'
  BY RealmStepFacts DEF CallInv, ClientInv, ClientTypeOK
<1>2. \A d \in Client : CarriedOut(d)'
  BY DEF CallInv, CarriedOut
<1>3. \A d \in Client : ActsOnItsPath(d)'
  BY <1>1, StaysOnItsPath DEF CallInv
<1>4. LateCarriedOut'
  <2>1. pc[c] \in Writing => op[c] \in carried
    BY DEF CallInv, CarriedOut, Writing
  <2>. QED
    BY <1>1, <2>1, LateStays DEF CallInv
<1>. QED
  BY <1>1, <1>2, <1>3, <1>4 DEF CallInv

\* A call that moves on keeps its operation, and finds its group by its path.
LEMMA StepsStayOnPath ==
    ASSUME ClientInv, NEW c \in Client, CarriedOut(c), ActsOnItsPath(c),
           Step(c) \/ Fail(c) \/ LoseAnswer(c), carried' = carried
    PROVE  /\ CarriedOut(c)' /\ ActsOnItsPath(c)'
           /\ \A d \in Client \ {c} : pc'[d] = pc[d] /\ op'[d] = op[d] /\ ref'[d] = ref[d]
<1>. ClientTypeOK /\ OnCourse(c)
  BY DEF ClientInv, CallsOnCourse
<1>1. ASSUME NEW step, NEW g, NEW d, Goto(c, step, g, d), pc[c] # "idle",
             step # "find" \/ op[c].action = "group_create",
             step \in {"list", "mutate"} => /\ pathOf'[g] = Target(c)
                                            /\ op[c].gid # None => g = op[c].gid
      PROVE  /\ CarriedOut(c)' /\ ActsOnItsPath(c)'
             /\ \A e \in Client \ {c} : pc'[e] = pc[e] /\ op'[e] = op[e] /\ ref'[e] = ref[e]
  BY <1>1 DEF Goto, CarriedOut, ActsOnItsPath, ClientTypeOK, Target
<1>2. CASE Find(c)
  <2>1. Found(c) # None /\ AtTarget(c) => pathOf[Found(c)] = Target(c)
    BY FoundFacts, TargetFacts
  <2>2. op[c].action # "group_create" => AtTarget(c) /\ op[c].gid = None
    BY <1>2 DEF Find, OnCourse, ActsOnItsPath
  <2>. QED
    BY <1>1, <1>2, <2>1, <2>2 DEF Find, Stop, realm
<1>3. CASE Verify(c)
  BY <1>1, <1>3 DEF Verify, Stop
<1>4. CASE Reread(c)
  BY <1>1, <1>4 DEF Reread, Stop
<1>5. CASE List(c)
  <2>1. /\ pathOf'[ref[c]] = Target(c) /\ pc[c] # "idle"
        /\ op[c].gid # None => ref[c] = op[c].gid
    BY <1>5 DEF List, ActsOnItsPath, realm
  <2>2. PICK step : Stop(c, step) /\ step # "find"
    BY <1>5 DEF List, WithoutGroup
  <2>. QED
    BY <1>1, <2>1, <2>2 DEF Stop
<1>6. CASE Send(c)
  <2>1. PICK result \in {"ok", "failed", "verify", "reread"} : Stop(c, result)
    BY <1>6 DEF Send, AfterAnswer
  <2>. QED
    BY <1>1, <1>6, <2>1 DEF Stop, Send, Writing
<1>7. CASE Fail(c)
  BY <1>1, <1>7 DEF Fail, Stop, Reading, Writing
<1>8. CASE LoseAnswer(c)
  BY <1>8 DEF LoseAnswer, CarriedOut, ActsOnItsPath, ClientTypeOK, Writing
<1>. QED
  BY <1>2, <1>3, <1>4, <1>5, <1>6, <1>7, <1>8 DEF Step

LEMMA CallingKeepsCallInv ==
    ASSUME ApplyInv, CallInv, NEW c \in Client, Calling(c)
    PROVE  CallInv'
<1>1. /\ ClientInv /\ carried \subseteq Operation /\ carried' = carried
      /\ Step(c) \/ Fail(c) \/ LoseAnswer(c)
  BY ApplyInvParts DEF RunTypeOK, Calling, runVars
<1>2. RealmStep
  BY <1>1, RequestFacts DEF RealmStep, Step, Find, Verify, Reread, List, Send, Fail, LoseAnswer,
     ClientInv, CallsOnCourse, realm
<1>3. late' = late \/ (pc[c] \in Writing /\ late' = late \cup {RequestOf(c)})
  BY <1>1 DEF Step, Find, Verify, Reread, List, Send, Fail, LoseAnswer, Stop, Goto
<1>4. CarriedOut(c) /\ ActsOnItsPath(c)
  BY DEF CallInv
<1>5. /\ CarriedOut(c)' /\ ActsOnItsPath(c)'
      /\ \A d \in Client \ {c} : pc'[d] = pc[d] /\ op'[d] = op[d] /\ ref'[d] = ref[d]
  BY <1>1, <1>4, StepsStayOnPath
<1>6. /\ ClientInv /\ carried \subseteq Operation /\ carried \subseteq carried'
      /\ \/ late' \subseteq late
         \/ pc[c] \in Writing /\ late' = late \cup {RequestOf(c)}
  BY <1>1, <1>3
<1>. QED
  BY <1>2, <1>5, <1>6, MoveKeepsCallInv

LEMMA TakeUpKeepsCallInv ==
    ASSUME ApplyInv, CallInv, NEW r \in Client, NEW a, More(r), CarryOut(r, a)
    PROVE  CallInv'
<1>. DEFINE o == Current(r)
<1>1. ClientInv /\ ClientTypeOK /\ RunTypeOK /\ carried \subseteq Operation /\ o \in Operation
  BY ApplyInvParts, RunTypes DEF RunTypeOK, ClientInv
<1>2. /\ Call(r, o) /\ carried' = carried \cup {o}
  BY DEF CarryOut
<1>3. RealmStep /\ late' = late
  BY <1>2 DEF Call, RealmStep
<1>4. /\ pc'[r] = FirstStep(o) /\ op'[r] = o /\ pathOf' = pathOf
      /\ ref'[r] = IF FirstStep(o) = "find" THEN None ELSE o.gid
      /\ \A d \in Client \ {r} : pc'[d] = pc[d] /\ op'[d] = op[d] /\ ref'[d] = ref[d]
  BY <1>1, <1>2 DEF Call, ClientTypeOK, realm
<1>5. CarriedOut(r)'
  BY <1>2, <1>4 DEF CarriedOut
<1>6. ActsOnItsPath(r)'
  <2>1. /\ FirstStep(o) \in {"list", "mutate"} => pathOf[o.gid] = o.path
        /\ FirstStep(o) = "find" /\ o.action # "group_create" => o.gid = None
    BY <1>1 DEF FirstStep, CallInv, RecordedIdsFit
  <2>. HIDE DEF o
  <2>. QED
    BY <1>4, <2>1 DEF ActsOnItsPath, Target
<1>7. carried \subseteq carried' /\ late' \subseteq late
  BY <1>2, <1>3
<1>. QED
  BY <1>1, <1>3, <1>4, <1>5, <1>6, <1>7, MoveKeepsCallInv

LEMMA ResetKeepsCallInv ==
    ASSUME ApplyInv, CallInv, NEW r \in Client, Record(r) \/ Crash(r)
    PROVE  CallInv'
<1>1. ClientInv /\ ClientTypeOK /\ carried \subseteq Operation
  BY ApplyInvParts DEF RunTypeOK, ClientInv
<1>2. /\ pc' = [pc EXCEPT ![r] = "idle"] /\ UNCHANGED <<realm, op, ref, carried>>
      /\ \/ late' = late
         \/ pc[r] \in Writing /\ late' = late \cup {RequestOf(r)}
  BY DEF Record, Crash
<1>3. /\ CarriedOut(r)' /\ ActsOnItsPath(r)'
      /\ \A d \in Client \ {r} : pc'[d] = pc[d] /\ op'[d] = op[d] /\ ref'[d] = ref[d]
  BY <1>1, <1>2 DEF CarriedOut, ActsOnItsPath, ClientTypeOK
<1>4. RealmStep /\ carried \subseteq carried'
  BY <1>2 DEF RealmStep
<1>. QED
  BY <1>1, <1>2, <1>3, <1>4, MoveKeepsCallInv

\* A step that no call takes part in.
LEMMA CallsUntouched ==
    ASSUME ApplyInv, CallInv, RealmStep, UNCHANGED <<call, carried>>, late' \subseteq late
    PROVE  CallInv'
<1>1. ClientInv /\ RealmTypeOK /\ carried \subseteq Operation
  BY ApplyInvParts DEF RunTypeOK, ClientInv, ClientTypeOK
<1>2. PathsStay /\ NoStrayMembers' /\ RecordedIdsFit'
  BY <1>1, RealmStepFacts DEF CallInv
<1>3. \A d \in Client : CarriedOut(d)' /\ ActsOnItsPath(d)'
  BY <1>1, <1>2, StaysOnItsPath DEF CallInv, CarriedOut, call
<1>4. LateCarriedOut'
  BY <1>1, <1>2, LateStays DEF CallInv
<1>. QED
  BY <1>2, <1>3, <1>4 DEF CallInv

LEMMA NextKeepsCallInv ==
    ASSUME ApplyInv, CallInv, [ApplyNext]_applyVars
    PROVE  CallInv'
<1>1. ASSUME UNCHANGED clientVars, carried' = carried
      PROVE  CallInv'
  BY <1>1, CallsUntouched DEF clientVars, RealmStep
<1>2. ASSUME NEW r \in Client, NEW a, More(r), CarryOut(r, a) \/ PassOver(r, a)
      PROVE  CallInv'
  BY <1>1, <1>2, TakeUpKeepsCallInv DEF PassOver
<1>3. ASSUME NEW r \in Client, OwnStep(r)
      PROVE  CallInv'
  <2>1. RunInv(r)
    BY DEF ApplyInv
  <2>2. ASSUME NEW d, Answered(r, d)
        PROVE  CallInv'
    BY <1>2, <2>1, <2>2 DEF Answered, RunInv, InStep
  <2>3. CASE Decide(r)
    BY <1>1, <1>2, <2>3 DEF Decide
  <2>4. CASE Record(r) \/ Crash(r)
    BY <2>4, ResetKeepsCallInv
  <2>5. CASE Return(r) \/ Hangup(r) \/ \E p \in Plans, m \in Modes : Start(r, p, m)
    BY <1>1, <2>5 DEF Return, Hangup, Start
  <2>. QED
    BY <1>3, <2>2, <2>3, <2>4, <2>5 DEF OwnStep, RunStep
<1>4. CASE Outside /\ UNCHANGED <<runVars, starts>>
  <2>1. RealmStep
    BY <1>4, ApplyInvParts
       DEF Outside, Arrive, Admin, RealmStep, ClientInv, ClientTypeOK, CallsOnCourse
  <2>2. UNCHANGED <<call, carried>> /\ late' \subseteq late
    BY <1>4 DEF Outside, Arrive, Admin, runVars
  <2>. QED
    BY <2>1, <2>2, CallsUntouched
<1>5. CASE UNCHANGED applyVars
  BY <1>1, <1>5 DEF applyVars, runVars
<1>. QED
  BY <1>3, <1>4, <1>5, CallingKeepsCallInv DEF ApplyNext, OwnStep

LEMMA InitEstablishesCallInv ==
    ASSUME ApplyInit
    PROVE  CallInv
BY StartAssumption, RecordedIdsAssumption
   DEF ApplyInit, ClientInit, RealmInit, CallInv, NoStrayMembers, RecordedIdsFit,
       CarriedOut, ActsOnItsPath, LateCarriedOut

\* With CallInv added, still inductive: every call, and every request left behind
\* by one, belongs to an operation that was carried out.
THEOREM CallInvariant == ApplySpec => [](ApplyInv /\ CallInv)
<1>1. ApplyInit => ApplyInv /\ CallInv
  BY InitEstablishesApplyInv, InitEstablishesCallInv
<1>2. ApplyInv /\ CallInv /\ [ApplyNext]_applyVars => ApplyInv' /\ CallInv'
  BY NextKeepsApplyInv, NextKeepsCallInv
<1>. QED
  BY <1>1, <1>2, PTL DEF ApplySpec

\* The realm changes only by requests about operations that were carried out, and by an
\* administrator.
LEMMA RealmChangesBy ==
    ASSUME ApplyInv, CallInv, [ApplyNext]_applyVars, edits' = edits, ~(UNCHANGED realm)
    PROVE  \E q \in Request, o \in carried :
             Aimed(q) /\ AboutGroup(q, o) /\ Serve(q) /\ o \in Operation
<1>. ClientInv /\ ClientTypeOK /\ RealmTypeOK /\ carried \subseteq Operation
  BY ApplyInvParts DEF RunTypeOK, ClientInv, ClientTypeOK
<1>1. ASSUME NEW c \in Client, Send(c)
      PROVE  \E q \in Request, o \in carried : Aimed(q) /\ AboutGroup(q, o) /\ Serve(q)
  <2>1. pc[c] \in Writing /\ op[c] \in carried /\ ActsOnItsPath(c)
    BY <1>1 DEF Send, CallInv, CarriedOut, Writing
  <2>2. /\ RequestOf(c) \in Request /\ Aimed(RequestOf(c))
        /\ AboutGroup(RequestOf(c), op[c])
    BY <2>1, RequestFacts, RequestIsAbout DEF ClientInv, CallsOnCourse
  <2>. QED
    BY <1>1, <2>1, <2>2 DEF Send
<1>2. ASSUME NEW q \in late, Arrive(q)
      PROVE  \E o \in carried : q \in Request /\ Aimed(q) /\ AboutGroup(q, o) /\ Serve(q)
  BY <1>2 DEF CallInv, LateCarriedOut, Arrive, ClientTypeOK, ClientInv, CallsOnCourse
<1>3. ~Admin
  BY DEF Admin, ClientTypeOK
<1>4. ASSUME NEW r \in Client, OwnStep(r)
      PROVE  UNCHANGED realm
  BY <1>4 DEF OwnStep, RunStep, Start, Answered, Decide, Record, Return, Hangup, Crash,
     CarryOut, PassOver, Call, clientVars
<1>5. ASSUME NEW r \in Client, Calling(r), ~Send(r)
      PROVE  UNCHANGED realm
  BY <1>5 DEF Calling, Step, Find, Verify, Reread, List, Fail, LoseAnswer
<1>. QED
  BY <1>1, <1>2, <1>3, <1>4, <1>5 DEF ApplyNext, OwnStep, Outside, applyVars, clientVars

\* Whatever crashes, is lost or arrives late: the realm changes only as some
\* operation says that was decided to be carried out (or by an administrator).
THEOREM NothingElseTouched == ApplySpec => OnlyCarriedOutTouches
<1>1. ASSUME ApplyInv, CallInv, [ApplyNext]_applyVars, edits' = edits
      PROVE  UNCHANGED realm \/ \E o \in carried : Explains(o)
  <2>1. RealmTypeOK /\ NoStrayMembers
    BY <1>1, ApplyInvParts DEF ClientInv, ClientTypeOK, CallInv
  <2>. QED
    BY <1>1, <2>1, RealmChangesBy, ServeIsExplained
<1>2. ApplyInv /\ CallInv /\ [ApplyNext]_applyVars
      => [edits' = edits => UNCHANGED realm \/ \E o \in carried : Explains(o)]_applyVars
  BY <1>1
<1>. QED
  BY <1>2, CallInvariant, PTL DEF ApplySpec, OnlyCarriedOutTouches

\* What a command records as applied was done, also while other commands run,
\* are killed, or have left requests behind (as SuccessHolds, with its condition).
THEOREM AppliedIsTrue ==
    ASSUME IsFiniteSet(Account), Cardinality(Account) <= PageSize
    PROVE  ApplySpec => SuccessIsTrue
<1>1. ASSUME ApplyInv, [ApplyNext]_applyVars, NEW c \in Client, Decides(c)
      PROVE  Outcome(c) \/ Outcome(c)'
  <2>. ClientInv /\ ClientTypeOK
    BY <1>1, ApplyInvParts DEF ClientInv
  <2>1. ASSUME [ClientNext]_clientVars
        PROVE  Outcome(c) \/ Outcome(c)'
    BY <1>1, <2>1, DecidingSteps, FindDecides, VerifyDecides, ListDecides, SendDecides
  <2>2. ASSUME NEW r \in Client, NEW a, CarryOut(r, a) \/ PassOver(r, a)
        PROVE  Outcome(c) \/ Outcome(c)'
    <3>1. ASSUME Call(r, Current(r))
          PROVE  FALSE
      BY <1>1, <3>1 DEF Call, Decides, FirstStep, ClientTypeOK
    <3>. QED
      BY <2>1, <2>2, <3>1 DEF CarryOut, PassOver
  <2>3. ASSUME NEW r \in Client, Record(r) \/ Crash(r)
        PROVE  FALSE
    BY <1>1, <2>3 DEF Record, Crash, Decides, ClientTypeOK
  <2>4. ASSUME NEW r \in Client, OwnStep(r)
        PROVE  Outcome(c) \/ Outcome(c)'
    <3>1. \/ UNCHANGED clientVars \/ Record(r) \/ Crash(r)
          \/ \E a : CarryOut(r, a) \/ PassOver(r, a)
      BY <2>4 DEF OwnStep, RunStep, Start, Answered, Decide, Return, Hangup
    <3>. QED
      BY <2>1, <2>2, <2>3, <3>1
  <2>. QED
    BY <1>1, <2>1, <2>4 DEF ApplyNext, OwnStep, Calling, applyVars, ClientNext
<1>2. ApplyInv /\ [ApplyNext]_applyVars
      => [\A c \in Client : Decides(c) => Outcome(c) \/ Outcome(c)']_clientVars
  BY <1>1
<1>. QED
  BY <1>2, ApplyInvariant, PTL DEF ApplySpec, SuccessIsTrue

(***************************************************************************)
(* The contract, for the calls the commands make: they are made one after  *)
(* the other, their results are taken, and who makes them may be killed.   *)
(***************************************************************************)
LEMMA ResetMaps ==
    ASSUME ClientInv, NEW r \in Client, pc' = [pc EXCEPT ![r] = "idle"],
           UNCHANGED <<realm, op, ref>>,
           late' = late \/ (pc[r] \in Writing /\ late' = late \cup {RequestOf(r)})
    PROVE  [Contract!Next]_(Contract!contractVars)
<1>. pc \in [Client -> CallStep]
  BY DEF ClientInv, ClientTypeOK
<1>1. Phase' = [Phase EXCEPT ![r] = "idle"] /\ Aim' = Aim
  BY DEF Phase, PhaseOf, Aim
<1>2. Contract!Become(r, "idle")
  BY <1>1 DEF Contract!Become
<1>3. CASE pc[r] = "idle"
  <2>1. Phase[r] = "idle" /\ Phase = [c \in Client |-> Phase[c]]
    BY <1>3 DEF Phase, PhaseOf
  <2>2. Phase' = Phase
    BY <1>1, <2>1
  <2>3. late' = late
    BY <1>3 DEF Writing
  <2>. QED
    BY <1>1, <2>2, <2>3 DEF Contract!contractVars, Contract!realm, realm
<1>4. CASE pc[r] \in Settled
  <2>1. Phase[r] \in {"ok", "failed"} /\ late' = late
    BY <1>4 DEF Phase, PhaseOf, Settled, Writing
  <2>. QED
    BY <1>1, <1>2, <2>1 DEF Contract!Take, Contract!Next, Contract!realm, realm
<1>5. CASE pc[r] \in Reading \cup Writing
  <2>1. Phase[r] \in {"busy", "done"}
    BY <1>5 DEF Phase, PhaseOf, Reading, Writing
  <2>2. late' = late \/ \E q \in Contract!Changes(op[r], Aim[r]) : late' = late \cup {q}
    BY RequestIsAChange
  <2>3. Contract!GiveUp(r)
    BY <1>1, <1>2, <2>1, <2>2 DEF Contract!GiveUp, Contract!realm, realm
  <2>. QED
    BY <2>3 DEF Contract!Next
<1>. QED
  BY <1>3, <1>4, <1>5 DEF CallStep

LEMMA OwnStepMaps ==
    ASSUME ApplyInv, NEW r \in Client, OwnStep(r)
    PROVE  [Contract!Next]_(Contract!contractVars)
<1>. RunTypeOK /\ ClientInv /\ RunInv(r)
  BY ApplyInvParts
<1>1. CASE UNCHANGED clientVars
  BY <1>1 DEF clientVars, call, Phase, Aim, Contract!contractVars, Contract!realm, realm
<1>2. ASSUME NEW a, More(r), CarryOut(r, a)
      PROVE  Contract!Next
  BY <1>2, RunTypes, CallMaps DEF CarryOut, Contract!Next
<1>3. CASE Record(r) \/ Crash(r)
  BY <1>3, ResetMaps DEF Record, Crash
<1>4. \/ UNCHANGED clientVars \/ Record(r) \/ Crash(r)
      \/ \E a : More(r) /\ CarryOut(r, a)
  <2>1. stage[r] = "prompting" => More(r)
    BY DEF RunInv, InStep
  <2>. QED
    BY <2>1 DEF OwnStep, RunStep, Start, Answered, Decide, Return, Hangup, PassOver
<1>. QED
  BY <1>1, <1>2, <1>3, <1>4

\* The commands keep the contract of the client, call after call and crash after
\* crash: a killed run leaves at most one change of its operation behind.
THEOREM CommandsKeepContract ==
    ASSUME IsFiniteSet(Account), Cardinality(Account) <= PageSize
    PROVE  ApplySpec => KeepsContract
<1>1. ApplyInit => Contract!Init
  BY InitMaps DEF ApplyInit
<1>2. ASSUME ApplyInv, [ApplyNext]_applyVars
      PROVE  [Contract!Next]_(Contract!contractVars)
  <2>1. ASSUME [ClientNext]_clientVars
        PROVE  [Contract!Next]_(Contract!contractVars)
    BY <1>2, <2>1, ApplyInvParts, NextMaps
  <2>2. ASSUME NEW r \in Client, Calling(r)
        PROVE  [ClientNext]_clientVars
    BY <2>2 DEF Calling, ClientNext
  <2>. QED
    BY <1>2, <2>1, <2>2, OwnStepMaps DEF ApplyNext, OwnStep, applyVars, ClientNext
<1>. QED
  BY <1>1, <1>2, ApplyInvariant, PTL DEF ApplySpec, KeepsContract, Contract!Spec

(***************************************************************************)
(* A plan applied in full stays applied.  Achieved(p) are the operations   *)
(* of p that have nothing left to do: as long as only operations of p are  *)
(* carried out, and p does not undo itself, it grows.  An operation that   *)
(* goes by the path of its group counts as achieved without the group if   *)
(* the plan deletes that group itself.                                     *)
(***************************************************************************)
Only(p) == carried \subseteq OpsOf(p)
Shadowed(p, path) == \E d \in OpsOf(p) : d.action = "group_delete" /\ Under(d.path, path)

ActsOn(o) == IF o.gid = None THEN GroupsAt(o.path) ELSE {o.gid} \cap live
Done(p, o) ==
    CASE o.action = "group_create"  -> \E g \in GroupsAt(o.path) : attrs[g] = o.attrs
      [] o.action = "member_add"    -> /\ \A g \in ActsOn(o) : o.user \in members[g]
                                       /\ o.gid = None => GroupsAt(o.path) # {}
                                                          \/ Shadowed(p, o.path)
      [] o.action = "member_remove" -> \A g \in ActsOn(o) : o.user \notin members[g]
      [] o.action = "group_delete"  -> ActsOn(o) = {}
Achieved(p) == {o \in OpsOf(p) : Done(p, o)}

\* The groups a call may have in hand: they exist, or the plan has deleted them for good.
Tracked(p) ==
    {g \in GroupId : /\ pathOf[g] \in Path
                     /\ g \in live \/ (GroupsAt(pathOf[g]) = {} /\ Shadowed(p, pathOf[g]))}

RunAchieves(r) ==
    /\ stage[r] # "calling" => pc[r] = "idle"
    /\ stage[r] = "calling" => pc[r] # "idle" /\ op[r] = Current(r)
    /\ \A p \in Plans : plan[r] = p /\ Only(p) =>
         /\ \A i \in DOMAIN results[r] : results[r][i] = "applied" => p.ops[i] \in Achieved(p)
         /\ pc[r] \in {"reread", "ok"} => op[r] \in Achieved(p)
         /\ pc[r] \in {"list", "mutate"} /\ op[r].gid = None => ref[r] \in Tracked(p)
FinishedAchieved ==
    \A p \in Plans : finished = p /\ p # None =>
        /\ Only(p) /\ OpsOf(p) \subseteq Achieved(p)
        /\ \A r \in Client : stage[r] \in Running => plan[r] = p
AchievedInv == (\A r \in Client : RunAchieves(r)) /\ FinishedAchieved

\* Created groups have ids that were never used.
NewIds == \A g \in live' \ live : pathOf[g] = None

LEMMA RealmStepKeepsTree ==
    ASSUME RealmTypeOK, TreeOK, RealmStep
    PROVE  TreeOK' /\ NewIds
<1>1. ASSUME NEW g \in GroupId, NEW p \in Path, NEW a, AddGroup(g, p, a)
      PROVE  TreeOK' /\ NewIds
  BY <1>1, AddGroupKeepsTree DEF AddGroup, NewIds
<1>2. ASSUME UNCHANGED <<live, pathOf>> PROVE TreeOK' /\ NewIds
  BY <1>2, OtherChangesKeepTree DEF NewIds
<1>3. ASSUME NEW g \in live, DropGroup(g) PROVE TreeOK' /\ NewIds
  BY <1>3, OtherChangesKeepTree DEF NewIds, DropGroup
<1>4. ASSUME NEW q \in Request, Aimed(q), Serve(q) PROVE TreeOK' /\ NewIds
  <2>1. CASE q.verb = "post" /\ \E g \in GroupId : AddGroup(g, NewPath(q), q.attrs)
    BY <1>1, <1>4, <2>1 DEF Aimed
  <2>2. CASE UNCHANGED realm \/ SetAttrs(q.group, q.attrs) \/ Join(q.group, q.user)
             \/ Leave(q.group, q.user)
    BY <1>2, <2>2 DEF SetAttrs, Join, Leave, realm
  <2>3. CASE q.verb = "delete" /\ Answer(q) = 204 /\ DropGroup(q.group)
    BY <1>3, <2>3 DEF Answer
  <2>. QED
    BY <1>4, <2>1, <2>2, <2>3 DEF Serve
<1>5. CASE AdminEdit
  BY <1>1, <1>2, <1>3, <1>5 DEF AdminEdit, Join, Leave
<1>. QED
  BY <1>2, <1>4, <1>5 DEF RealmStep, realm

LEMMA NextIsRealmStep ==
    ASSUME ApplyInv, [ApplyNext]_applyVars
    PROVE  RealmStep
<1>. ClientInv
  BY ApplyInvParts
<1>1. ASSUME NEW r \in Client, OwnStep(r) PROVE UNCHANGED realm
  BY <1>1 DEF OwnStep, RunStep, Start, Answered, Decide, Record, Return, Hangup, Crash,
     CarryOut, PassOver, Call, clientVars
<1>2. ASSUME NEW c \in Client, Calling(c) PROVE RealmStep
  BY <1>2, RequestFacts DEF Calling, RealmStep, Step, Find, Verify, Reread, List, Send, Fail,
     LoseAnswer, ClientInv, CallsOnCourse, realm
<1>3. CASE Outside
  BY <1>3 DEF Outside, Arrive, Admin, RealmStep, ClientInv, ClientTypeOK, CallsOnCourse
<1>. QED
  BY <1>1, <1>2, <1>3 DEF ApplyNext, OwnStep, RealmStep, applyVars, clientVars

LEMMA StartIsTree ==
    ASSUME RealmInit
    PROVE  TreeOK
BY StartAssumption DEF RealmInit, TreeOK, OneGroupPerPath, ParentsExist, GroupsAt

(***************************************************************************)
(* What is achieved stays achieved while only operations of the plan touch *)
(* the realm.                                                              *)
(***************************************************************************)

\* What a change that an operation explains can do, group by group.
LEMMA ExplainedChanges ==
    ASSUME RealmTypeOK, RealmTypeOK', NoStrayMembers, NewIds,
           NEW s \in Operation, UNCHANGED realm \/ Explains(s)
    PROVE  /\ \A g \in live' \ live : /\ s.action = "group_create" /\ Under(pathOf'[g], s.path)
                                      /\ members'[g] = {}
           /\ \A g \in live \ live' : s.action = "group_delete" /\ Under(s.path, pathOf[g])
           /\ \A g \in live \cap live' :
                /\ attrs'[g] # attrs[g] => /\ s.action = "group_create" /\ pathOf[g] = s.path
                                           /\ attrs'[g] = s.attrs
                /\ \A u : /\ u \in members'[g] /\ u \notin members[g]
                             => /\ s.action = "member_add" /\ s.user = u
                                /\ pathOf[g] = s.path
                          /\ u \in members[g] /\ u \notin members'[g]
                             => /\ s.action = "member_remove" /\ s.user = u
                                /\ pathOf[g] = s.path
<1>1. CASE UNCHANGED realm
  BY <1>1 DEF realm
<1>2. CASE Explains(s)
  <2>1. s.path # None /\ live \subseteq GroupId /\ live' \subseteq GroupId
    BY OperationAssumption, NoneAssumption DEF RealmTypeOK
  <2>2. \A g \in GroupId : members[g] \subseteq User /\ members'[g] \subseteq User
    BY AccountAssumption DEF RealmTypeOK
  <2>3. ASSUME NEW g \in live', NEW u, u \in members'[g], u \notin members[g]
        PROVE  s.action = "member_add" /\ s.user = u /\ pathOf[g] = s.path
    <3>1. <<g, u>> \in live' \X User /\ <<g, u>>[1] = g /\ <<g, u>>[2] = u
      BY <2>1, <2>2, <2>3
    <3>2. <<g, u>> \in Entered
      BY <2>3, <3>1 DEF Entered
    <3>. QED
      BY <1>2, <3>1, <3>2 DEF Explains
  <2>4. ASSUME NEW g \in live', NEW u, u \in members[g], u \notin members'[g]
        PROVE  s.action = "member_remove" /\ s.user = u /\ pathOf[g] = s.path
    <3>1. <<g, u>> \in live' \X User /\ <<g, u>>[1] = g /\ <<g, u>>[2] = u
      BY <2>1, <2>2, <2>4
    <3>2. <<g, u>> \in Left
      BY <2>4, <3>1 DEF Left
    <3>. QED
      BY <1>2, <3>1, <3>2 DEF Explains
  <2>5. ASSUME NEW g \in live' \ live
        PROVE  s.action = "group_create" /\ Under(pathOf'[g], s.path) /\ members'[g] = {}
    <3>1. pathOf[g] = None /\ members[g] = {}
      BY <2>1 DEF NewIds, NoStrayMembers
    <3>2. members'[g] = {}
      BY <2>1, <2>3, <3>1
    <3>. QED
      BY <1>2, <3>2 DEF Explains, Created
  <2>6. \A g \in live \ live' : s.action = "group_delete" /\ Under(s.path, pathOf[g])
    BY <1>2 DEF Explains, Dropped
  <2>7. \A g \in live \cap live' :
          attrs'[g] # attrs[g] => /\ s.action = "group_create" /\ pathOf[g] = s.path
                                  /\ attrs'[g] = s.attrs
    BY <1>2 DEF Explains, Rewritten
  <2>. QED
    BY <2>3, <2>4, <2>5, <2>6, <2>7
<1>. QED
  BY <1>1, <1>2

\* The situation: an operation s of the plan P, consistent in itself, touches the realm.
Touches(P, s) ==
    /\ RealmTypeOK /\ NoStrayMembers /\ RecordedIdsFit /\ NewIds /\ PathsStay
    /\ P \in Plans /\ Consistent(P) /\ OpsOf(P) \subseteq Operation /\ s \in OpsOf(P)
    /\ UNCHANGED realm \/ Explains(s)

\* A path with a group gets no second one, and one that the plan deletes gets none back.
LEMMA NoneReturns ==
    ASSUME NEW P, NEW s, Touches(P, s), RealmTypeOK', OneGroupPerPath',
           NEW path \in Path, GroupsAt(path) # {} \/ Shadowed(P, path),
           NEW g \in live', pathOf'[g] = path
    PROVE  g \in live /\ pathOf[g] = path
<1>1. s \in Operation /\ s.path \in Path
  BY OperationAssumption DEF Touches
<1>2. g \in live => pathOf[g] = path
  BY NoneAssumption DEF Touches, PathsStay, RealmTypeOK
<1>3. ASSUME g \notin live PROVE FALSE
  <2>1. s.action = "group_create" /\ Under(path, s.path)
    BY <1>1, <1>3, ExplainedChanges DEF Touches
  <2>2. CASE Shadowed(P, path)
    <3>1. PICK d \in OpsOf(P) : d.action = "group_delete" /\ Under(d.path, path)
      BY <2>2 DEF Shadowed
    <3>2. Under(d.path, s.path)
      BY <1>1, <2>1, <3>1, UnderFacts, OperationAssumption DEF Touches
    <3>. QED
      BY <2>1, <3>1, <3>2 DEF Touches, Consistent
  <2>3. ASSUME NEW h \in live, pathOf[h] = path PROVE FALSE
    <3>1. h \in live'
      BY <1>1, <2>1, <2>3, ExplainedChanges DEF Touches
    <3>2. pathOf'[h] = path
      BY <2>3, NoneAssumption DEF Touches, PathsStay, RealmTypeOK
    <3>. QED
      BY <1>3, <2>3, <3>1, <3>2 DEF OneGroupPerPath
  <2>. QED
    BY <2>2, <2>3 DEF GroupsAt
<1>. QED
  BY <1>2, <1>3

\* The groups an operation acts on are those it acted on, but for new ones at the path
\* of an operation that goes by its path.
LEMMA ActsOnStays ==
    ASSUME NEW P, NEW s, Touches(P, s), RealmTypeOK', NEW x \in OpsOf(P),
           NEW g \in ActsOn(x)'
    PROVE  /\ g \in live' /\ pathOf'[g] = x.path
           /\ g \in live => g \in ActsOn(x) /\ pathOf[g] = x.path
           /\ g \notin live => x.gid = None
<1>1. x \in Operation /\ x.path \in Path /\ x.path # None
  BY OperationAssumption, NoneAssumption DEF Touches
<1>2. CASE x.gid = None
  <2>1. g \in live' /\ pathOf'[g] = x.path
    BY <1>2 DEF ActsOn, GroupsAt
  <2>2. g \in live => pathOf[g] = x.path
    BY <2>1, NoneAssumption DEF Touches, PathsStay, RealmTypeOK
  <2>. QED
    BY <1>2, <2>1, <2>2 DEF ActsOn, GroupsAt
<1>3. CASE x.gid # None
  <2>1. g = x.gid /\ g \in live' /\ pathOf[g] = x.path
    BY <1>1, <1>3 DEF ActsOn, Touches, RecordedIdsFit
  <2>2. g \in GroupId /\ pathOf'[g] = x.path
    BY <1>1, <2>1 DEF Touches, PathsStay, RealmTypeOK
  <2>3. g \in live
    BY <1>1, <2>1 DEF Touches, NewIds
  <2>. QED
    BY <1>3, <2>1, <2>2, <2>3 DEF ActsOn
<1>. QED
  BY <1>2, <1>3

LEMMA DoneStays ==
    ASSUME CreatesAgree, NEW P, NEW s, Touches(P, s), RealmTypeOK', OneGroupPerPath',
           NEW x \in OpsOf(P), Done(P, x)
    PROVE  Done(P, x)'
<1>1. /\ x \in Operation /\ x.path \in Path /\ s \in Operation /\ s.path \in Path
      /\ x.action \in Action
  BY OperationAssumption DEF Touches
<1>2. ASSUME NEW g \in live, pathOf[g] = x.path
      PROVE  \/ g \in live' /\ pathOf'[g] = x.path
             \/ s.action = "group_delete" /\ Under(s.path, x.path)
  <2>1. g \notin live' => s.action = "group_delete" /\ Under(s.path, x.path)
    BY <1>1, <1>2, ExplainedChanges DEF Touches
  <2>2. pathOf'[g] = x.path
    BY <1>1, <1>2, NoneAssumption DEF Touches, PathsStay, RealmTypeOK
  <2>. QED
    BY <2>1, <2>2
<1>3. CASE x.action = "group_create"
  <2>1. PICK g \in live : pathOf[g] = x.path /\ attrs[g] = x.attrs
    BY <1>3 DEF Done, GroupsAt
  <2>2. g \in live' /\ pathOf'[g] = x.path
    BY <1>2, <1>3, <2>1 DEF Touches, Consistent
  <2>3. attrs'[g] # attrs[g] => s.action = "group_create" /\ x.path = s.path /\ attrs'[g] = s.attrs
    BY <1>1, <2>1, <2>2, ExplainedChanges DEF Touches
  <2>4. s.action = "group_create" /\ x.path = s.path => x.attrs = s.attrs
    BY <1>1, <1>3, UnderFacts DEF CreatesAgree
  <2>5. attrs'[g] = x.attrs
    BY <2>1, <2>3, <2>4
  <2>. QED
    BY <1>3, <2>2, <2>5 DEF Done, GroupsAt
<1>4. CASE x.action = "member_add"
  <2>1. ASSUME NEW g \in ActsOn(x)' PROVE x.user \in members'[g]
    <3>1. /\ g \in live' /\ pathOf'[g] = x.path
          /\ g \in live => g \in ActsOn(x) /\ pathOf[g] = x.path
          /\ g \notin live => x.gid = None
      BY ActsOnStays
    <3>2. g \in live
      <4>1. x.gid = None => GroupsAt(x.path) # {} \/ Shadowed(P, x.path)
        BY <1>4 DEF Done
      <4>. QED
        BY <1>1, <3>1, <4>1, NoneReturns
    <3>3. x.user \in members[g]
      BY <1>4, <3>1, <3>2 DEF Done
    <3>4. x.user \notin members'[g] => s.action = "member_remove" /\ s.user = x.user /\ s.path = x.path
      BY <1>1, <3>1, <3>2, <3>3, ExplainedChanges DEF Touches
    <3>. QED
      BY <1>4, <3>4 DEF Touches, Consistent
  <2>2. x.gid = None => (GroupsAt(x.path) # {})' \/ Shadowed(P, x.path)'
    <3>1. Shadowed(P, x.path) => Shadowed(P, x.path)'
      BY DEF Shadowed
    <3>2. ASSUME NEW g \in live, pathOf[g] = x.path
          PROVE  (GroupsAt(x.path) # {})' \/ Shadowed(P, x.path)
      <4>1. CASE g \in live' /\ pathOf'[g] = x.path
        BY <4>1 DEF GroupsAt
      <4>2. CASE s.action = "group_delete" /\ Under(s.path, x.path)
        BY <4>2 DEF Shadowed, Touches
      <4>. QED
        BY <1>2, <3>2, <4>1, <4>2
    <3>. QED
      BY <1>4, <3>1, <3>2 DEF Done, GroupsAt
  <2>. QED
    BY <1>4, <2>1, <2>2 DEF Done
<1>5. CASE x.action = "member_remove"
  <2>1. ASSUME NEW g \in ActsOn(x)' PROVE x.user \notin members'[g]
    <3>1. /\ g \in live'
          /\ g \in live => g \in ActsOn(x) /\ pathOf[g] = x.path
      BY ActsOnStays
    <3>2. g \notin live => members'[g] = {}
      BY <1>1, <3>1, ExplainedChanges DEF Touches
    <3>3. ASSUME g \in live, x.user \in members'[g]
          PROVE  s.action = "member_add" /\ s.user = x.user /\ s.path = x.path
      <4>1. x.user \notin members[g]
        BY <1>5, <3>1, <3>3 DEF Done
      <4>. QED
        BY <1>1, <3>1, <3>3, <4>1, ExplainedChanges DEF Touches
    <3>. QED
      BY <1>5, <3>2, <3>3 DEF Touches, Consistent
  <2>. QED
    BY <1>5, <2>1 DEF Done
<1>6. CASE x.action = "group_delete"
  <2>1. ASSUME NEW g \in ActsOn(x)' PROVE FALSE
    <3>1. g \in live' /\ pathOf'[g] = x.path /\ g \notin live
      BY <1>6, ActsOnStays DEF Done
    <3>2. Shadowed(P, x.path)
      BY <1>1, <1>6, UnderFacts DEF Shadowed
    <3>. QED
      BY <1>1, <3>1, <3>2, NoneReturns
  <2>. QED
    BY <1>6, <2>1 DEF Done
<1>. QED
  BY <1>1, <1>3, <1>4, <1>5, <1>6 DEF Action

LEMMA TrackedStays ==
    ASSUME NEW P, NEW s, Touches(P, s), RealmTypeOK', OneGroupPerPath,
           OneGroupPerPath', NEW g \in Tracked(P)
    PROVE  g \in Tracked(P)'
<1>0. PICK path \in Path : path = pathOf[g]
  BY DEF Tracked
<1>1. g \in GroupId /\ path # None /\ pathOf'[g] = path /\ s \in Operation
  BY <1>0, NoneAssumption DEF Tracked, Touches, PathsStay
<1>2. Shadowed(P, path) => Shadowed(P, path)'
  BY DEF Shadowed
<1>3. CASE g \in live'
  BY <1>0, <1>1, <1>3 DEF Tracked
<1>4. CASE g \notin live'
  <2>1. Shadowed(P, path)
    <3>1. g \in live => s.action = "group_delete" /\ Under(s.path, path)
      BY <1>0, <1>1, <1>4, ExplainedChanges DEF Touches
    <3>. QED
      BY <1>0, <3>1 DEF Tracked, Shadowed, Touches
  <2>2. ASSUME NEW h \in live', pathOf'[h] = path PROVE FALSE
    <3>1. h \in live /\ pathOf[h] = path
      BY <1>1, <2>1, <2>2, NoneReturns
    <3>2. g \in live
      BY <1>0, <3>1 DEF Tracked, GroupsAt
    <3>. QED
      BY <1>0, <1>4, <2>2, <3>1, <3>2 DEF OneGroupPerPath
  <2>. QED
    BY <1>0, <1>1, <1>2, <2>1, <2>2 DEF Tracked, GroupsAt
<1>. QED
  BY <1>3, <1>4

\* A step without an administrator, all invariants holding before it.
QuietStep == /\ ApplyInv /\ CallInv /\ AttrsInv /\ TreeOK
             /\ CreatesAgree /\ (\A p \in Plans : Consistent(p))
             /\ [ApplyNext]_applyVars /\ edits = 0 /\ edits' = 0

LEMMA PlanFacts ==
    ASSUME NEW P \in Plans
    PROVE  /\ P.ops \in Seq(Operation) /\ Len(P.ops) \in Nat /\ DOMAIN P.ops = 1..Len(P.ops)
           /\ OpsOf(P) \subseteq Operation
           /\ \A i \in DOMAIN P.ops : P.ops[i] \in OpsOf(P)
BY PlanAssumption DEF OpsOf

LEMMA QuietStepFacts ==
    ASSUME QuietStep
    PROVE  /\ ApplyInv' /\ ClientInv /\ ClientTypeOK /\ RealmTypeOK /\ RealmTypeOK' /\ RunTypeOK
           /\ TreeOK' /\ PathsStay /\ NewIds /\ carried \subseteq carried'
           /\ OneGroupPerPath /\ OneGroupPerPath'
<1>1. ApplyInv' /\ ClientInv /\ ClientTypeOK /\ RealmTypeOK /\ RunTypeOK
  BY NextKeepsApplyInv, ApplyInvParts DEF QuietStep, ClientInv, ClientTypeOK
<1>2. RealmTypeOK'
  BY <1>1 DEF ApplyInv, ApplyTypeOK, ClientTypeOK
<1>3. RealmStep
  BY NextIsRealmStep DEF QuietStep
<1>4. TreeOK' /\ PathsStay /\ NewIds
  BY <1>1, <1>3, RealmStepFacts, RealmStepKeepsTree DEF QuietStep, CallInv
<1>5. carried \subseteq carried'
  BY DEF QuietStep, ApplyNext, Start, Answered, RunStep, Decide, Record, Return, Hangup, Crash,
     Calling, CarryOut, PassOver, applyVars, runVars
<1>. QED
  BY <1>1, <1>2, <1>4, <1>5 DEF TreeOK, QuietStep

\* Without edits, a step that leaves only operations of P carried out touches the realm
\* as one of them.
LEMMA AchievedGrows ==
    ASSUME QuietStep, NEW P \in Plans, Only(P)
    PROVE  /\ Achieved(P) \subseteq Achieved(P)'
           /\ OpsOf(P) # {} => Tracked(P) \subseteq Tracked(P)'
<1>1. /\ RealmTypeOK /\ RealmTypeOK' /\ PathsStay /\ NewIds /\ OneGroupPerPath
      /\ OneGroupPerPath' /\ NoStrayMembers /\ RecordedIdsFit /\ CreatesAgree /\ Consistent(P)
      /\ OpsOf(P) \subseteq Operation
  BY QuietStepFacts, PlanFacts DEF QuietStep, CallInv
<1>2. ASSUME NEW x \in OpsOf(P) PROVE \E s \in OpsOf(P) : Touches(P, s)
  <2>1. UNCHANGED realm \/ \E s \in carried : Explains(s)
    <3>1. ASSUME ~(UNCHANGED realm) PROVE \E s \in carried : Explains(s)
      BY <1>1, <3>1, RealmChangesBy, ServeIsExplained DEF QuietStep
    <3>. QED
      BY <3>1
  <2>. QED
    BY <1>1, <1>2, <2>1 DEF Touches, Only
<1>3. ASSUME NEW x \in Achieved(P) PROVE x \in Achieved(P)'
  <2>1. x \in OpsOf(P) /\ x \in OpsOf(P)'
    BY DEF Achieved, OpsOf
  <2>2. Done(P, x)'
    BY <1>1, <1>2, <2>1, DoneStays DEF Achieved
  <2>. QED
    BY <2>1, <2>2 DEF Achieved
<1>4. ASSUME NEW x \in OpsOf(P), NEW g \in Tracked(P) PROVE g \in Tracked(P)'
  BY <1>1, <1>2, TrackedStays
<1>. QED
  BY <1>3, <1>4

(***************************************************************************)
(* A call that is decided has achieved its operation.                      *)
(***************************************************************************)
InHand(P, c, o) ==
    /\ o = op[c] /\ o.action # "group_create" /\ o.path \in Path
    /\ ref[c] \in GroupId /\ pathOf[ref[c]] = o.path
    /\ o.gid # None => ref[c] = o.gid
    /\ o.gid = None => ref[c] \in Tracked(P)

\* What Outcome says of the group in hand is what Done says of the operation.
OutcomeAgrees ==
    \A P, o : \A c \in Client :
        OneGroupPerPath /\ InHand(P, c, o) /\ Outcome(c) /\ o.action \in Action => Done(P, o)
LEMMA OutcomeIsDone == OutcomeAgrees
<1>. SUFFICES ASSUME NEW P, NEW o, NEW c \in Client, OneGroupPerPath, InHand(P, c, o),
                     Outcome(c), o.action \in Action
              PROVE  Done(P, o)
  BY DEF OutcomeAgrees
<1>1. ref[c] # None /\ ActedOn(c) = {ref[c]} \cap live
  BY NoneAssumption DEF InHand, ActedOn
<1>2. ActsOn(o) = ActedOn(c)
  <2>1. CASE o.gid # None
    BY <1>1, <2>1 DEF ActsOn, InHand
  <2>2. CASE o.gid = None /\ ref[c] \in live
    <3>1. GroupsAt(o.path) = {ref[c]}
      BY <2>2 DEF GroupsAt, InHand, OneGroupPerPath
    <3>. QED
      BY <1>1, <2>2, <3>1 DEF ActsOn
  <2>3. CASE o.gid = None /\ ref[c] \notin live
    <3>1. GroupsAt(o.path) = {}
      BY <2>3 DEF InHand, Tracked
    <3>. QED
      BY <1>1, <2>3, <3>1 DEF ActsOn
  <2>. QED
    BY <2>1, <2>2, <2>3
<1>3. o.gid = None => GroupsAt(o.path) # {} \/ Shadowed(P, o.path)
  BY DEF InHand, Tracked, GroupsAt
<1>4. o.action = "member_add" => \A g \in ActsOn(o) : o.user \in members[g]
  BY <1>1, <1>2 DEF Outcome, InHand
<1>5. o.action = "member_remove" => \A g \in ActsOn(o) : o.user \notin members[g]
  BY <1>2 DEF Outcome, InHand
<1>6. o.action = "group_delete" => ActsOn(o) = {}
  BY <1>2 DEF Outcome, InHand
<1>. QED
  BY <1>3, <1>4, <1>5, <1>6 DEF Done, InHand, Action

LEMMA DecidedIsAchieved ==
    ASSUME IsFiniteSet(Account), Cardinality(Account) <= PageSize,
           QuietStep, NEW P \in Plans, Only(P), NEW c \in Client, Decides(c),
           op[c] \in OpsOf(P), op'[c] = op[c],
           pc[c] \in {"list", "mutate"} /\ op[c].gid = None => ref[c] \in Tracked(P),
           Step(c)
    PROVE  op[c] \in Achieved(P)'
<1>0. PICK o \in OpsOf(P) : o = op[c]
  OBVIOUS
<1>1. /\ ClientInv /\ ClientTypeOK /\ OnCourse(c) /\ ActsOnItsPath(c) /\ AttrsInv /\ edits = 0
      /\ o.action \in Action /\ o.path \in Path /\ Target(c) = o.path /\ OneGroupPerPath
  BY <1>0, QuietStepFacts, PlanFacts, OperationAssumption
     DEF QuietStep, CallInv, ClientInv, CallsOnCourse, Target
<1>2. [ClientNext]_clientVars /\ (Find(c) \/ Verify(c) \/ List(c) \/ Send(c))
  BY <1>1, DecidingSteps DEF ClientNext
<1>3. o \in Achieved(P) => o \in Achieved(P)'
  BY AchievedGrows
<1>4. Done(P, o) => o \in Achieved(P)
  BY DEF Achieved
<1>5. Done(P, o)' => o \in Achieved(P)'
  BY DEF Achieved, OpsOf
<1>6. CASE o.action = "group_create"
  <2>1. o.attrs \in AttributesOf(c)'
    BY <1>0, <1>1, <1>2, <1>6, CreationCarries
  <2>2. Target(c)' = o.path
    BY <1>0 DEF Target
  <2>3. PICK p : p = o.path
    OBVIOUS
  <2>4. \E g \in GroupsAt(p)' : attrs'[g] = o.attrs
    BY <2>1, <2>2, <2>3 DEF AttributesOf, GroupsAt
  <2>5. Done(P, o)'
    BY <1>6, <2>3, <2>4 DEF Done
  <2>. QED
    BY <1>0, <1>5, <2>5
<1>7. CASE o.action # "group_create" /\ Find(c)
  <2>1. /\ o.action \in {"member_remove", "group_delete"} /\ Found(c) = None
        /\ AtTarget(c) /\ o.gid = None
    <3>1. \A step, g, d : Goto(c, step, g, d) => step \in {"reread", "ok"}
      BY <1>1, AfterGoto DEF Decides
    <3>. QED
      BY <1>0, <1>1, <1>7, <3>1 DEF Find, Stop, OnCourse, ActsOnItsPath
  <2>2. ActsOn(o) = {}
    BY <1>1, <2>1, FoundFacts, TargetFacts DEF ActsOn
  <2>. QED
    BY <1>0, <1>3, <1>4, <2>1, <2>2 DEF Done
<1>8. CASE o.action # "group_create" /\ List(c)
  <2>1. Outcome(c)
    BY <1>1, <1>8, ListDecides
  <2>2. InHand(P, c, o)
    BY <1>0, <1>1, <1>8 DEF InHand, List, OnCourse, ActsOnItsPath
  <2>. QED
    BY <1>0, <1>1, <1>3, <1>4, <2>1, <2>2, OutcomeIsDone DEF OutcomeAgrees
<1>9. CASE o.action # "group_create" /\ Send(c)
  <2>1. pc[c] = "mutate"
    BY <1>0, <1>1, <1>9 DEF Send, Writing, OnCourse
  <2>2. ref'[c] = ref[c] /\ Outcome(c)'
    BY <1>1, <1>9, AfterGoto, SendDecides DEF Send, Stop
  <2>3. ref[c] \in GroupId /\ pathOf[ref[c]] = o.path /\ pathOf'[ref[c]] = o.path
    BY <1>0, <1>1, <2>1, QuietStepFacts, NoneAssumption DEF OnCourse, ActsOnItsPath, PathsStay
  <2>4. /\ o.gid # None => ref[c] = o.gid
        /\ o.gid = None => ref[c] \in Tracked(P)'
    BY <1>0, <1>1, <2>1, AchievedGrows DEF ActsOnItsPath
  <2>5. InHand(P, c, o)'
    BY <1>0, <1>1, <1>9, <2>2, <2>3, <2>4 DEF InHand
  <2>6. OneGroupPerPath'
    BY QuietStepFacts
  <2>7. OutcomeAgrees'
    BY OutcomeIsDone, PTL
  <2>. QED
    BY <1>0, <1>1, <1>5, <2>2, <2>5, <2>6, <2>7 DEF OutcomeAgrees
<1>10. CASE Verify(c)
  BY <1>0, <1>1, <1>6, <1>10 DEF Verify, OnCourse
<1>. QED
  BY <1>2, <1>6, <1>7, <1>8, <1>9, <1>10

(***************************************************************************)
(* The steps keep AchievedInv.                                             *)
(***************************************************************************)
LEMMA CallOfPlan ==
    ASSUME RunTypeOK, NEW r \in Client, RunInv(r), RunAchieves(r), stage[r] = "calling",
           NEW P \in Plans, plan[r] = P
    PROVE  /\ Index(r) \in DOMAIN P.ops /\ op[r] = P.ops[Index(r)] /\ op[r] \in OpsOf(P)
           /\ Index(r) = Len(results[r]) + 1 /\ OpsOf(P) # {}
<1>1. Index(r) \in DOMAIN Ops(r) /\ Index(r) = Len(results[r]) + 1
  BY RunTypes DEF RunInv, InStep, More
<1>. QED
  BY <1>1, PlanFacts DEF RunAchieves, Current, Ops

\* A run that keeps its plan, looked at after the step.
LEMMA RunAchievesAfter ==
    ASSUME QuietStep, NEW r \in Client, RunAchieves(r), plan'[r] = plan[r],
           stage'[r] # "calling" => pc'[r] = "idle",
           stage'[r] = "calling" => pc'[r] # "idle" /\ op'[r] = Current(r)',
           NEW P \in Plans, plan[r] = P,
           Only(P)' =>
             /\ \A i \in DOMAIN results'[r] : results'[r][i] = "applied" =>
                  \/ i \in DOMAIN results[r] /\ results[r][i] = "applied"
                  \/ P.ops[i] \in Achieved(P)
             /\ pc'[r] \in {"reread", "ok"} => op'[r] \in Achieved(P)'
             /\ pc'[r] \in {"list", "mutate"} /\ op'[r].gid = None => ref'[r] \in Tracked(P)'
    PROVE  RunAchieves(r)'
<1>1. Only(P)' => Only(P)
  BY QuietStepFacts DEF Only, OpsOf
<1>2. Only(P)' => Achieved(P) \subseteq Achieved(P)'
  BY <1>1, AchievedGrows
<1>3. Only(P)' => \A i \in DOMAIN results'[r] : results'[r][i] = "applied" =>
                    P.ops[i] \in Achieved(P)'
  BY <1>1, <1>2 DEF RunAchieves
<1>. QED
  BY <1>3 DEF RunAchieves

LEMMA OtherRunsAchieve ==
    ASSUME QuietStep, NEW r \in Client, RunAchieves(r),
           UNCHANGED <<stage[r], plan[r], results[r], pc[r], op[r], ref[r]>>
    PROVE  RunAchieves(r)'
<1>1. PICK P \in Plans : P = plan[r]
  BY QuietStepFacts DEF RunTypeOK
<1>2. Current(r)' = Current(r)
  BY DEF Current, Ops, Index
<1>3. Only(P)' => Only(P)
  BY QuietStepFacts DEF Only, OpsOf
<1>4. stage[r] = "calling" => OpsOf(P) # {}
  BY <1>1, QuietStepFacts, CallOfPlan DEF QuietStep, ApplyInv
<1>5. pc[r] \in {"list", "mutate"} => stage[r] = "calling"
  BY DEF RunAchieves
<1>6. Only(P)' => Achieved(P) \subseteq Achieved(P)' /\ (OpsOf(P) # {} => Tracked(P) \subseteq Tracked(P)')
  BY <1>3, AchievedGrows
<1>7. Only(P)' =>
        /\ pc'[r] \in {"reread", "ok"} => op'[r] \in Achieved(P)'
        /\ pc'[r] \in {"list", "mutate"} /\ op'[r].gid = None => ref'[r] \in Tracked(P)'
  BY <1>1, <1>3, <1>4, <1>5, <1>6 DEF RunAchieves
<1>8. /\ stage'[r] # "calling" => pc'[r] = "idle"
      /\ stage'[r] = "calling" => pc'[r] # "idle" /\ op'[r] = Current(r)'
  BY <1>2 DEF RunAchieves
<1>. QED
  BY <1>1, <1>7, <1>8, RunAchievesAfter

\* The run's own steps, without its call.
LEMMA OwnStepAchieves ==
    ASSUME QuietStep, NEW r \in Client, RunAchieves(r), OwnStep(r)
    PROVE  RunAchieves(r)'
<1>. /\ RunTypeOK /\ ClientTypeOK /\ RunInv(r)
  BY QuietStepFacts DEF QuietStep, ApplyInv
<1>1. PICK P \in Plans : P = plan[r]
  BY DEF RunTypeOK
<1>2. ASSUME NEW p \in Plans, NEW m \in Modes, Start(r, p, m) PROVE RunAchieves(r)'
  <2>1. /\ pc' = pc /\ pc[r] = "idle" /\ stage'[r] # "calling" /\ results'[r] = <<>>
    BY <1>2 DEF Start, RunTypeOK, RunAchieves, Running, clientVars, call
  <2>. QED
    BY <2>1 DEF RunAchieves
<1>3. ASSUME NEW a, More(r), stage[r] \in {"deciding", "prompting"}, CarryOut(r, a), plan' = plan
      PROVE  RunAchieves(r)'
  <2>1. /\ Call(r, Current(r)) /\ stage'[r] = "calling" /\ results' = results
    BY <1>3 DEF CarryOut, RunTypeOK
  <2>2. /\ pc'[r] = FirstStep(Current(r)) /\ op'[r] = Current(r)
    BY <2>1 DEF Call, ClientTypeOK
  <2>3. Current(r)' = Current(r)
    BY <1>3, <2>1 DEF Current, Ops, Index
  <2>4. /\ pc'[r] \notin {"idle", "reread", "ok"}
        /\ pc'[r] \in {"list", "mutate"} => op'[r].gid # None
    BY <2>2 DEF FirstStep
  <2>. QED
    BY <1>1, <1>3, <2>1, <2>2, <2>3, <2>4, RunAchievesAfter
<1>4. ASSUME plan' = plan, pc' = pc, stage[r] # "calling", stage'[r] # "calling",
             \/ results'[r] = results[r]
             \/ results'[r] = Append(results[r], "skipped")
      PROVE  RunAchieves(r)'
  <2>1. pc'[r] = "idle"
    BY <1>4 DEF RunAchieves
  <2>2. \A i \in DOMAIN results'[r] : results'[r][i] = "applied" =>
          i \in DOMAIN results[r] /\ results[r][i] = "applied"
    <3>1. results[r] \in Seq(Statuses) /\ "skipped" \in Statuses
      BY RunTypes DEF Statuses
    <3>2. PICK R : R = results[r]
      OBVIOUS
    <3>3. \A i \in DOMAIN Append(R, "skipped") :
             Append(R, "skipped")[i] = "applied" => i \in DOMAIN R /\ R[i] = "applied"
      BY <3>1, <3>2
    <3>. QED
      BY <1>4, <3>2, <3>3
  <2>. QED
    BY <1>1, <1>4, <2>1, <2>2, RunAchievesAfter
<1>5. ASSUME NEW a, stage[r] \in {"deciding", "prompting"}, PassOver(r, a), plan' = plan
      PROVE  RunAchieves(r)'
  BY <1>4, <1>5 DEF PassOver, RunTypeOK, clientVars, call
<1>6. CASE Decide(r)
  <2>1. CASE stage' = [stage EXCEPT ![r] = "prompting"] /\ UNCHANGED <<clientVars, results>>
    BY <1>4, <1>6, <2>1 DEF Decide, RunTypeOK, clientVars, call
  <2>. QED
    BY <1>3, <1>5, <1>6, <2>1 DEF Decide
<1>7. ASSUME NEW d \in Decisions, Answered(r, d) PROVE RunAchieves(r)'
  BY <1>3, <1>5, <1>7 DEF Answered, RunInv, InStep
<1>8. CASE Return(r) \/ Hangup(r)
  BY <1>4, <1>8 DEF Return, Hangup, RunTypeOK, clientVars, call
<1>9. CASE Crash(r)
  <2>1. pc'[r] = "idle" /\ stage'[r] = "crashed" /\ UNCHANGED <<plan, results>>
    BY <1>9 DEF Crash, ClientTypeOK, RunTypeOK
  <2>. QED
    BY <1>1, <2>1, RunAchievesAfter
<1>10. CASE Record(r)
  <2>1. /\ stage[r] = "calling" /\ pc'[r] = "idle" /\ stage'[r] = "deciding" /\ plan' = plan
        /\ results'[r] = Append(results[r], OutcomeOf(r)) /\ OutcomeOf(r) \in Statuses
        /\ carried' = carried
    BY <1>10 DEF Record, ClientTypeOK, RunTypeOK, WithOutcome, OutcomeOf, Statuses
  <2>2. OutcomeOf(r) = "applied" => pc[r] = "ok"
    BY DEF OutcomeOf
  <2>3. /\ op[r] = P.ops[Len(results[r]) + 1]
        /\ results[r] \in Seq(Statuses) /\ Len(results[r]) \in Nat
    BY <1>1, <2>1, CallOfPlan, RunTypes
  <2>4. Only(P)' => Only(P)
    BY <2>1 DEF Only, OpsOf
  <2>5. ASSUME Only(P), NEW i \in DOMAIN results'[r], results'[r][i] = "applied"
        PROVE  \/ i \in DOMAIN results[r] /\ results[r][i] = "applied"
               \/ P.ops[i] \in Achieved(P)
    <3>1. PICK R \in Seq(Statuses), s \in Statuses : R = results[r] /\ s = OutcomeOf(r)
      BY <2>1, <2>3
    <3>2. \A j \in DOMAIN Append(R, s) :
             \/ j \in DOMAIN R /\ Append(R, s)[j] = R[j]
             \/ j = Len(R) + 1 /\ Append(R, s)[j] = s
      BY <3>1
    <3>3. CASE i \in DOMAIN R /\ Append(R, s)[i] = R[i]
      BY <2>1, <2>5, <3>1, <3>3
    <3>4. CASE i = Len(R) + 1 /\ Append(R, s)[i] = s
      <4>1. pc[r] = "ok"
        BY <2>1, <2>2, <2>5, <3>1, <3>4
      <4>2. op[r] \in Achieved(P)
        BY <1>1, <2>5, <4>1 DEF RunAchieves
      <4>. QED
        BY <2>3, <3>1, <3>4, <4>2
    <3>. QED
      BY <2>1, <2>5, <3>1, <3>2, <3>3, <3>4
  <2>. QED
    BY <1>1, <2>1, <2>4, <2>5, RunAchievesAfter
<1>. QED
  BY <1>2, <1>6, <1>7, <1>8, <1>9, <1>10 DEF OwnStep, RunStep

\* A step of the call the run waits for.
LEMMA CallingAchieves ==
    ASSUME IsFiniteSet(Account), Cardinality(Account) <= PageSize,
           QuietStep, NEW r \in Client, RunAchieves(r), Calling(r)
    PROVE  RunAchieves(r)'
<1>. /\ RunTypeOK /\ ClientTypeOK /\ RunInv(r) /\ ClientInv /\ OnCourse(r)
  BY QuietStepFacts DEF QuietStep, ApplyInv, ClientInv, CallsOnCourse
<1>1. PICK P \in Plans : P = plan[r]
  BY DEF RunTypeOK
<1>2. /\ UNCHANGED <<stage, plan, results, carried>> /\ op' = op
      /\ pc[r] # "idle" /\ pc'[r] # "idle"
  <2>1. UNCHANGED <<stage, plan, results, carried>>
    BY DEF Calling, runVars
  <2>2. \/ LoseAnswer(r)
        \/ \E step, g, d : Goto(r, step, g, d) /\ step # "idle" /\ pc[r] # "idle"
    BY DEF Calling, Step, Find, Verify, Reread, List, Send, Fail, Stop, AfterAnswer,
       WithoutGroup, Reading, Writing
  <2>. QED
    BY <2>1, <2>2, AfterGoto DEF LoseAnswer, Goto, ClientTypeOK, Writing
<1>3. stage[r] = "calling"
  BY <1>2 DEF RunAchieves
<1>4. op[r] \in OpsOf(P) /\ OpsOf(P) # {}
  BY <1>1, <1>3, CallOfPlan
<1>5. Current(r)' = Current(r)
  BY <1>2 DEF Current, Ops, Index
<1>6. ASSUME Only(P), pc'[r] \in {"reread", "ok"} PROVE op'[r] \in Achieved(P)'
  <2>1. CASE pc[r] \in {"reread", "ok"}
    BY <1>1, <1>2, <1>6, <2>1, AchievedGrows DEF RunAchieves
  <2>2. CASE pc[r] \notin {"reread", "ok"}
    <3>1. Decides(r)
      BY <1>6, <2>2 DEF Decides
    <3>2. Step(r)
      BY <1>6, AfterGoto DEF Calling, Fail, Stop, LoseAnswer, ClientTypeOK
    <3>3. pc[r] \in {"list", "mutate"} /\ op[r].gid = None => ref[r] \in Tracked(P)
      BY <1>1, <1>6 DEF RunAchieves
    <3>. QED
      BY <1>2, <1>4, <1>6, <3>1, <3>2, <3>3, DecidedIsAchieved
  <2>. QED
    BY <2>1, <2>2
<1>7. ASSUME Only(P), pc'[r] \in {"list", "mutate"}, op'[r].gid = None
      PROVE  ref'[r] \in Tracked(P)'
  <2>1. CASE Find(r)
    <3>1. /\ ref'[r] = Found(r) /\ Found(r) # None /\ UNCHANGED realm
      BY <1>7, <2>1, AfterGoto DEF Find, Stop
    <3>2. Found(r) \in live /\ Found(r) \in GroupId /\ pathOf[Found(r)] \in Path
      BY <3>1, FoundFacts, TargetFacts
    <3>3. Found(r) \in Tracked(P)
      BY <3>2 DEF Tracked
    <3>. QED
      BY <1>4, <1>7, <3>1, <3>3, AchievedGrows
  <2>2. CASE List(r)
    <3>1. pc[r] = "list" /\ ref'[r] = ref[r] /\ op'[r] = op[r]
      BY <1>2, <2>2, AfterGoto DEF List, Stop
    <3>2. ref[r] \in Tracked(P)
      BY <1>1, <1>7, <3>1 DEF RunAchieves
    <3>. QED
      BY <1>4, <1>7, <3>1, <3>2, AchievedGrows
  <2>3. ~(Verify(r) \/ Reread(r) \/ Send(r) \/ Fail(r) \/ LoseAnswer(r))
    BY <1>7, AfterGoto DEF Verify, Reread, Send, Fail, LoseAnswer, Stop, AfterAnswer, ClientTypeOK
  <2>. QED
    BY <2>1, <2>2, <2>3 DEF Calling, Step
<1>8. Only(P)' => Only(P)
  BY <1>2 DEF Only, OpsOf
<1>. QED
  BY <1>1, <1>2, <1>3, <1>5, <1>6, <1>7, <1>8, RunAchievesAfter DEF RunAchieves

\* A plan applied in full stays so, as long as no other one is taken up.
LEMMA FinishedStays ==
    ASSUME QuietStep, FinishedAchieved, finished' = finished,
           \A r \in Client : stage'[r] \in Running => stage[r] \in Running /\ plan'[r] = plan[r],
           \A o \in carried' : \/ o \in carried
                               \/ \E r \in Client : stage[r] \in Running /\ o \in OpsOf(plan[r])
    PROVE  FinishedAchieved'
<1>. SUFFICES ASSUME NEW P \in Plans, finished = P, P # None
              PROVE  /\ Only(P)' /\ OpsOf(P) \subseteq Achieved(P)'
                     /\ \A r \in Client : stage'[r] \in Running => plan'[r] = P
  BY DEF FinishedAchieved, OpsOf
<1>1. /\ Only(P) /\ OpsOf(P) \subseteq Achieved(P)
      /\ \A r \in Client : stage[r] \in Running => plan[r] = P
  BY DEF FinishedAchieved
<1>2. Only(P)'
  BY <1>1 DEF Only, OpsOf
<1>. QED
  BY <1>1, <1>2, AchievedGrows

\* Only a run in which every operation was applied concludes that its plan is.
LEMMA ReturnFinishes ==
    ASSUME QuietStep, AchievedInv, NEW r \in Client, Return(r)
    PROVE  FinishedAchieved'
<1>. RunTypeOK /\ RunInv(r) /\ RunAchieves(r)
  BY QuietStepFacts DEF QuietStep, ApplyInv, AchievedInv
<1>1. /\ stage' = [stage EXCEPT ![r] = "returned"] /\ UNCHANGED <<plan, carried>>
  BY DEF Return
<1>2. \A s \in Client : stage'[s] \in Running => s # r /\ stage[s] \in Running /\ plan'[s] = plan[s]
  BY <1>1 DEF RunTypeOK, Running
<1>3. CASE finished' = finished
  BY <1>1, <1>2, <1>3, FinishedStays DEF AchievedInv
<1>4. CASE /\ finished' = plan[r] /\ Count(r, "applied") = Len(Ops(r))
           /\ carried \subseteq OpsOf(plan[r])
           /\ \A s \in Client : stage[s] \in Running => plan[s] = plan[r]
  <2>1. PICK P \in Plans : P = plan[r]
    BY DEF RunTypeOK
  <2>2. Only(P) /\ Only(P)'
    BY <1>1, <1>4, <2>1 DEF Only, OpsOf
  <2>3. /\ Len(results[r]) = Len(P.ops) /\ Len(P.ops) \in Nat
        /\ DOMAIN P.ops = 1..Len(P.ops) /\ DOMAIN results[r] = 1..Len(P.ops)
    BY <2>1, RunTypes, PlanFacts DEF RunInv, InStep, More, Return, Ops
  <2>4. \A i \in DOMAIN P.ops : results[r][i] = "applied"
    <3>. DEFINE D == DOMAIN results[r]
                A == {i \in D : results[r][i] = "applied"}
    <3>1. IsFiniteSet(D) /\ Cardinality(D) = Len(P.ops)
      <4>1. PICK n \in Nat : n = Len(P.ops)
        BY <2>3
      <4>2. IsFiniteSet(1..n) /\ Cardinality(1..n) = n
        BY FS_Interval
      <4>. QED
        BY <2>3, <4>1, <4>2
    <3>2. Cardinality(A) = Cardinality(D) /\ A \subseteq D
      BY <1>4, <2>1, <3>1 DEF Count, Ops
    <3>3. A = D
      <4>. HIDE DEF A, D
      <4>. QED
        BY <3>1, <3>2, FS_Subset
    <3>. QED
      BY <2>3, <3>3
  <2>5. OpsOf(P) \subseteq Achieved(P)
    BY <2>1, <2>2, <2>3, <2>4 DEF RunAchieves, OpsOf
  <2>6. OpsOf(P) \subseteq Achieved(P)'
    BY <2>2, <2>5, AchievedGrows
  <2>7. \A s \in Client : stage'[s] \in Running => plan'[s] = P
    BY <1>2, <1>4, <2>1
  <2>. QED
    BY <1>4, <2>1, <2>2, <2>6, <2>7 DEF FinishedAchieved, OpsOf
<1>. QED
  BY <1>3, <1>4 DEF Return

LEMMA NextKeepsFinished ==
    ASSUME QuietStep, AchievedInv
    PROVE  FinishedAchieved'
<1>. /\ RunTypeOK /\ FinishedAchieved /\ \A r \in Client : RunInv(r)
  BY QuietStepFacts DEF QuietStep, ApplyInv, AchievedInv
<1>1. ASSUME NEW r \in Client, NEW p \in Plans, NEW m \in Modes, Start(r, p, m)
      PROVE  FinishedAchieved'
  <2>. SUFFICES ASSUME NEW P \in Plans, finished' = P, P # None
                PROVE  /\ Only(P)' /\ OpsOf(P) \subseteq Achieved(P)'
                       /\ \A s \in Client : stage'[s] \in Running => plan'[s] = P
    BY DEF FinishedAchieved, OpsOf
  <2>1. finished = P /\ p = P /\ carried' = carried
    BY <1>1 DEF Start
  <2>2. /\ Only(P) /\ OpsOf(P) \subseteq Achieved(P)
        /\ \A s \in Client : stage[s] \in Running => plan[s] = P
    BY <2>1 DEF FinishedAchieved
  <2>3. Only(P)'
    BY <2>1, <2>2 DEF Only, OpsOf
  <2>4. \A s \in Client : stage'[s] \in Running => plan'[s] = P
    BY <1>1, <2>1, <2>2 DEF Start, RunTypeOK
  <2>. QED
    BY <2>2, <2>3, <2>4, AchievedGrows
<1>2. ASSUME NEW r \in Client, Decide(r) \/ \E d \in Decisions : Answered(r, d)
      PROVE  FinishedAchieved'
  <2>1. /\ finished' = finished /\ plan' = plan /\ stage[r] \in Running /\ More(r)
        /\ \A s \in Client : stage'[s] \in Running => stage[s] \in Running
        /\ carried' \subseteq carried \cup {Current(r)}
    BY <1>2 DEF Decide, Answered, CarryOut, PassOver, RunTypeOK, Running, RunInv, InStep
  <2>2. Current(r) \in OpsOf(plan[r])
    BY <2>1, RunTypes DEF OpsOf, Current, Ops
  <2>. QED
    BY <2>1, <2>2, FinishedStays
<1>3. ASSUME NEW r \in Client, Record(r) \/ Hangup(r) \/ Crash(r) \/ Calling(r)
      PROVE  FinishedAchieved'
  <2>1. /\ finished' = finished /\ plan' = plan /\ carried' = carried
        /\ \A s \in Client : stage'[s] \in Running => stage[s] \in Running
    BY <1>3 DEF Record, Hangup, Crash, Calling, RunTypeOK, Running, runVars
  <2>. QED
    BY <2>1, FinishedStays
<1>4. CASE UNCHANGED runVars
  <2>1. /\ finished' = finished /\ plan' = plan /\ carried' = carried /\ stage' = stage
    BY <1>4 DEF runVars
  <2>. QED
    BY <2>1, FinishedStays
<1>. QED
  BY <1>1, <1>2, <1>3, <1>4, ReturnFinishes DEF QuietStep, ApplyNext, RunStep, applyVars

LEMMA NextKeepsAchieved ==
    ASSUME IsFiniteSet(Account), Cardinality(Account) <= PageSize, QuietStep, AchievedInv
    PROVE  AchievedInv'
<1>. ClientTypeOK /\ RunTypeOK
  BY QuietStepFacts
<1>1. ASSUME NEW r \in Client, NEW s \in Client \ {r}, OwnStep(s) \/ Calling(s)
      PROVE  RunAchieves(r)'
  <2>1. UNCHANGED <<stage[r], plan[r], results[r]>>
    <3>1. CASE OwnStep(s)
      BY <1>1, <3>1 DEF OwnStep, RunStep, Start, Answered, Decide, Record, Return, Hangup, Crash,
         CarryOut, PassOver, RunTypeOK
    <3>2. CASE Calling(s)
      BY <3>2 DEF Calling, runVars
    <3>. QED
      BY <1>1, <3>1, <3>2
  <2>2. UNCHANGED <<pc[r], op[r], ref[r]>>
    <3>1. CASE OwnStep(s)
      BY <1>1, <3>1 DEF OwnStep, RunStep, Start, Answered, Decide, Record, Return, Hangup, Crash,
         CarryOut, PassOver, Call, clientVars, call, ClientTypeOK
    <3>2. CASE Calling(s)
      <4>1. LoseAnswer(s) \/ \E step, g, d : Goto(s, step, g, d)
        BY <3>2 DEF Calling, Step, Find, Verify, Reread, List, Send, Fail, Stop
      <4>. QED
        BY <4>1 DEF LoseAnswer, Goto, ClientTypeOK
    <3>. QED
      BY <1>1, <3>1, <3>2
  <2>. QED
    BY <2>1, <2>2, OtherRunsAchieve DEF AchievedInv
<1>2. ASSUME NEW r \in Client, OwnStep(r) \/ Calling(r) PROVE RunAchieves(r)'
  BY <1>2, OwnStepAchieves, CallingAchieves DEF AchievedInv
<1>3. ASSUME NEW r \in Client, UNCHANGED <<stage, plan, results, pc, op, ref>>
      PROVE  RunAchieves(r)'
  BY <1>3, OtherRunsAchieve DEF AchievedInv
<1>4. \A r \in Client : RunAchieves(r)'
  BY <1>1, <1>2, <1>3
     DEF QuietStep, ApplyNext, OwnStep, Outside, Arrive, Admin, call, runVars, clientVars, applyVars
<1>. QED
  BY <1>4, NextKeepsFinished DEF AchievedInv

\* The rest of the client's invariants, in the steps of the command.
LEMMA NextKeepsApplyAttrs ==
    ASSUME CreatesAgree, ApplyInv, AttrsInv, [ApplyNext]_applyVars
    PROVE  AttrsInv'
<1>. ClientInv /\ ClientTypeOK /\ RunTypeOK /\ \A r \in Client : RunInv(r)
  BY ApplyInvParts DEF ClientInv
<1>1. ASSUME NEW r \in Client, Record(r) \/ Crash(r) PROVE AttrsInv'
  <2>1. /\ pc'[r] = "idle" /\ UNCHANGED <<realm, op, ref, depth, edits>>
        /\ \A d \in Client \ {r} : pc'[d] = pc[d]
        /\ late' = late \/ (pc[r] \in Writing /\ late' = late \cup {RequestOf(r)})
    BY <1>1 DEF Record, Crash, ClientTypeOK
  <2>2. pc[r] \in Writing
        => RequestOf(r) \in Request /\ Aimed(RequestOf(r)) /\ Writes(RequestOf(r))
    BY RequestFacts, RequestWrites DEF ClientInv, CallsOnCourse
  <2>3. \A q \in late' : q \in late \/ (q \in Request /\ Aimed(q) /\ Writes(q))
    <3>. HIDE DEF Aimed, Writes
    <3>. QED
      BY <2>1, <2>2
  <2>4. AttrsFit(r)'
    BY <2>1 DEF AttrsFit, CreatingStep
  <2>. QED
    BY <2>1, <2>3, <2>4, UnservedKeepsAttrs, OthersKeepAttrs
<1>2. ASSUME [ClientNext]_clientVars PROVE AttrsInv'
  BY <1>2, NextKeepsAttrs
<1>3. ASSUME NEW r \in Client, OwnStep(r), ~(Record(r) \/ Crash(r))
      PROVE  [ClientNext]_clientVars
  <2>1. ASSUME NEW a, More(r), CarryOut(r, a) \/ PassOver(r, a) PROVE [ClientNext]_clientVars
    BY <2>1, RunTypes DEF CarryOut, PassOver, ClientNext
  <2>. QED
    BY <1>3, <2>1 DEF OwnStep, RunStep, Start, Answered, Decide, Return, Hangup, RunInv, InStep
<1>. QED
  BY <1>1, <1>2, <1>3 DEF ApplyNext, OwnStep, Calling, applyVars, ClientNext

(***************************************************************************)
(* A request about an operation that has nothing left to do is refused or  *)
(* without effect.                                                         *)
(***************************************************************************)
LEMMA NothingLeftToDo ==
    ASSUME RealmTypeOK, TreeOK, NEW P, NEW s \in Operation, Done(P, s),
           NEW q \in Request, Aimed(q), AboutGroup(q, s), Serve(q)
    PROVE  UNCHANGED realm
<1>. SUFFICES ASSUME Answer(q) = 204 PROVE UNCHANGED realm
  BY DEF Serve
<1>1. s.path \in Path
  BY OperationAssumption
<1>2. CASE q.verb = "post"
  <2>1. s.action = "group_create" /\ Under(NewPath(q), s.path) /\ NewPath(q) \in Path
    BY <1>2 DEF AboutGroup, Aimed
  <2>2. PICK g \in live : pathOf[g] = s.path
    BY <2>1 DEF Done, GroupsAt
  <2>3. PICK k : k = Len(NewPath(q))
    OBVIOUS
  <2>4. k \in 1..Len(pathOf[g]) /\ SubSeq(pathOf[g], 1, k) = NewPath(q)
    BY <1>1, <2>1, <2>2, <2>3, PathFacts DEF Under
  <2>5. GroupsAt(NewPath(q)) # {}
    <3>1. GroupsAt(SubSeq(pathOf[g], 1, k)) # {}
      BY <2>2, <2>4, PrefixesExist DEF TreeOK
    <3>. QED
      BY <2>4, <3>1 DEF GroupsAt
  <2>. QED
    BY <1>2, <2>5 DEF Answer
<1>3. CASE q.verb # "post"
  <2>1. q.group \in live /\ q.group \in GroupId /\ pathOf[q.group] = s.path
    BY <1>3 DEF Answer, AboutGroup
  <2>2. s.action # "group_create" => q.group \in ActsOn(s)
    BY <1>3, <2>1 DEF ActsOn, AboutGroup, GroupsAt
  <2>3. CASE q.verb = "put"
    <3>1. s.action = "group_create" /\ q.attrs = s.attrs
      BY <2>3 DEF AboutGroup
    <3>2. PICK g \in live : pathOf[g] = s.path /\ attrs[g] = s.attrs
      BY <3>1 DEF Done, GroupsAt
    <3>3. g = q.group
      BY <2>1, <3>2 DEF TreeOK, OneGroupPerPath
    <3>4. SetAttrs(q.group, q.attrs)
      BY <2>3 DEF Serve
    <3>5. attrs' = attrs
      BY <2>1, <3>1, <3>2, <3>3, <3>4 DEF SetAttrs, RealmTypeOK
    <3>. QED
      BY <3>4, <3>5 DEF SetAttrs, realm
  <2>4. CASE q.verb = "delete"
    BY <2>2, <2>4 DEF AboutGroup, Done
  <2>5. CASE q.verb = "join"
    <3>1. q.user \in members[q.group]
      BY <2>2, <2>5 DEF AboutGroup, Done
    <3>2. Join(q.group, q.user)
      BY <2>5 DEF Serve
    <3>3. members' = members
      BY <2>1, <3>1, <3>2 DEF Join, RealmTypeOK
    <3>. QED
      BY <3>2, <3>3 DEF Join, realm
  <2>6. CASE q.verb = "leave"
    <3>1. q.user \notin members[q.group]
      BY <2>2, <2>6 DEF AboutGroup, Done
    <3>2. Leave(q.group, q.user)
      BY <2>6 DEF Serve
    <3>3. members' = members
      BY <2>1, <3>1, <3>2 DEF Leave, RealmTypeOK
    <3>. QED
      BY <3>2, <3>3 DEF Leave, realm
  <2>. QED
    BY <1>3, <2>3, <2>4, <2>5, <2>6 DEF Request, Verb
<1>. QED
  BY <1>2, <1>3

(***************************************************************************)
(* The theorems about repetition.                                          *)
(***************************************************************************)

\* The groups form a tree throughout, whatever commands and administrators do.
THEOREM TreeInvariant == ApplySpec => []TreeOK
<1>1. ApplyInit => TreeOK
  BY StartIsTree DEF ApplyInit, ClientInit
<1>2. ApplyInv /\ TreeOK /\ [ApplyNext]_applyVars => TreeOK'
  BY NextIsRealmStep, RealmStepKeepsTree DEF ApplyInv, ApplyTypeOK, ClientTypeOK
<1>. QED
  BY <1>1, <1>2, ApplyInvariant, PTL DEF ApplySpec

\* What is recorded as applied has nothing left to do as long as nothing but its plan is
\* carried out, nor does a plan applied in full: until an administrator edits the realm.
THEOREM AchievedInvariant ==
    ASSUME IsFiniteSet(Account), Cardinality(Account) <= PageSize,
           CreatesAgree, \A p \in Plans : Consistent(p)
    PROVE  ApplySpec => [](AttrsInv /\ (edits = 0 => AchievedInv))
<1>1. ApplyInit => AttrsInv /\ AchievedInv
  <2>1. ApplyInit => AttrsInv
    BY DEF ApplyInit, ClientInit, AttrsInv, AttrsFit, CreatingStep
  <2>2. ApplyInit => AchievedInv
    BY DEF ApplyInit, ClientInit, AchievedInv, RunAchieves, FinishedAchieved
  <2>. QED
    BY <2>1, <2>2
<1>2. ApplyInv /\ CallInv /\ TreeOK /\ AttrsInv /\ (edits = 0 => AchievedInv)
      /\ [ApplyNext]_applyVars => AttrsInv' /\ (edits = 0 => AchievedInv)'
  <2>. SUFFICES ASSUME ApplyInv, CallInv, TreeOK, AttrsInv, edits = 0 => AchievedInv,
                       [ApplyNext]_applyVars
                PROVE  AttrsInv' /\ (edits' = 0 => AchievedInv')
    OBVIOUS
  <2>1. AttrsInv'
    BY NextKeepsApplyAttrs
  <2>2. edits' = edits \/ edits' = edits + 1
    BY DEF ApplyNext, Start, Answered, RunStep, Decide, Record, Return, Hangup, Crash, Calling,
       CarryOut, PassOver, Call, Step, Find, Verify, Reread, List, Send, Fail, LoseAnswer, Stop,
       Goto, Outside, Arrive, Admin, clientVars, applyVars
  <2>3. edits' = 0 => edits = 0
    BY <2>2 DEF ApplyInv, ApplyTypeOK, ClientTypeOK
  <2>4. edits' = 0 => QuietStep /\ AchievedInv
    BY <2>3 DEF QuietStep
  <2>. QED
    BY <2>1, <2>4, NextKeepsAchieved
<1>. QED
  BY <1>1, <1>2, CallInvariant, TreeInvariant, PTL DEF ApplySpec

\* RepeatChangesNothing: once a plan has been applied in full, applying the file again
\* changes nothing, whatever fails, is killed, runs beside it or arrives late, as
\* long as no administrator edits the realm and the plans do not undo themselves.
THEOREM RepetitionIsSafe ==
    ASSUME IsFiniteSet(Account), Cardinality(Account) <= PageSize,
           CreatesAgree, \A p \in Plans : Consistent(p)
    PROVE  ApplySpec /\ [](edits = 0) => RepeatChangesNothing
<1>1. ASSUME ApplyInv, CallInv, TreeOK, AchievedInv, [ApplyNext]_applyVars,
             edits = 0, edits' = 0, finished # None, ~(UNCHANGED realm)
      PROVE  FALSE
  <2>1. PICK P \in Plans : P = finished
    BY <1>1 DEF ApplyInv, ApplyTypeOK, RunTypeOK
  <2>2. carried \subseteq OpsOf(P) /\ OpsOf(P) \subseteq Achieved(P)
    BY <1>1, <2>1 DEF AchievedInv, FinishedAchieved, Only
  <2>3. PICK q \in Request, o \in carried :
               Aimed(q) /\ AboutGroup(q, o) /\ Serve(q) /\ o \in Operation
    BY <1>1, RealmChangesBy
  <2>4. Done(P, o)
    BY <2>2, <2>3 DEF Achieved
  <2>5. RealmTypeOK
    BY <1>1 DEF ApplyInv, ApplyTypeOK, ClientTypeOK
  <2>. QED
    BY <1>1, <2>3, <2>4, <2>5, NothingLeftToDo
<1>2. /\ ApplyInv /\ CallInv /\ TreeOK /\ (edits = 0 => AchievedInv)
      /\ [ApplyNext]_applyVars /\ edits = 0 /\ (edits = 0)'
      => [finished # None => UNCHANGED realm]_applyVars
  BY <1>1
<1>. QED
  BY <1>2, CallInvariant, TreeInvariant, AchievedInvariant, PTL
     DEF ApplySpec, RepeatChangesNothing
==============================================================================
