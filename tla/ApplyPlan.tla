------------------------------ MODULE ApplyPlan ------------------------------
(***************************************************************************)
(* "irods-kc-sync apply": runApply in cmd/irods-kc-sync/main.go and        *)
(* Service.Apply in internal/workflow/repair/service.go.  Each process in  *)
(* Client runs the command, possibly several times: it reads a plan file,  *)
(* validates it, and for one operation after the other asks the reviewer   *)
(* where the prompt mode wants it, calls the Keycloak client, and records  *)
(* the outcome.  Runs share the realm and nothing else; a run may crash at *)
(* any point and the same file be applied again.                           *)
(***************************************************************************)
EXTENDS KeycloakClient, PlanReview, PlanValidation

CONSTANTS
    Plans,      \* the plan files: [realm, zone, header, ops]
    Modes,      \* values of --prompts
    Typed,      \* what the operator types at a prompt
    Expected,   \* the realm and zone of the configuration, None if not given
    MaxStarts   \* bound: how often a command is started

ASSUME PlanAssumption ==
    \A p \in Plans : /\ p.ops \in Seq(Operation)
                     /\ p.header \in {"repair_keycloak", "other"}
ASSUME PlanExists == Plans # {}
\* A dry run reads an id together with the path of its group, and an id that has
\* been issued keeps its path; who edits a plan by hand leaves the two together.
ASSUME RecordedIdsAssumption ==
    \A s \in StartRealms, o \in Operation : o.gid # None => s.pathOf[o.gid] = o.path
ASSUME StartsAssumption == MaxStarts \in Nat

VARIABLES
    stage,     \* where each run is
    plan,      \* the plan it applies
    session,   \* its review session
    results,   \* MutationResult.Status of the operations so far
    report,    \* the ApplyResult it printed, None if it printed none
    flag,      \* history: the --prompts it was started with
    answers,   \* history: the operator's decision for each operation, "-" if not asked
    carried,   \* history: operations handed to applyOperation by some run
    finished,  \* history: the plan applied in full, if no other one was carried out
    starts     \* commands started so far

runVars   == <<stage, plan, session, results, report, flag, answers, carried,
             finished>>
applyVars == <<clientVars, runVars, starts>>

Stages   == {"none", "deciding", "prompting", "calling", "returned", "refused",
             "aborted", "crashed"}
Running  == {"deciding", "prompting", "calling"}
Statuses == {"applied", "failed", "skipped"}
Report   == [status : Statuses, applied : Nat, skipped : Nat, failed : Nat]

RunTypeOK ==
    /\ stage \in [Client -> Stages]
    /\ plan \in [Client -> Plans]
    /\ session \in [Client -> Session]
    /\ results \in [Client -> Seq(Statuses)]
    /\ report \in [Client -> Report \cup {None}]
    /\ flag \in [Client -> Modes \cup {"required"}]
    /\ answers \in [Client -> Seq(Decisions \cup {"-"})]
    /\ carried \subseteq Operation
    /\ finished \in Plans \cup {None}
    /\ starts \in 0..MaxStarts
ApplyTypeOK == ClientTypeOK /\ RunTypeOK

ApplyInit ==
    /\ ClientInit
    /\ stage = [r \in Client |-> "none"]
    /\ plan = [r \in Client |-> CHOOSE p \in Plans : TRUE]
    /\ session = [r \in Client |-> NewSession("required")]
    /\ results = [r \in Client |-> <<>>]
    /\ report = [r \in Client |-> None]
    /\ flag = [r \in Client |-> "required"]
    /\ answers = [r \in Client |-> <<>>]
    /\ carried = {}
    /\ finished = None
    /\ starts = 0

(***************************************************************************)
(* What ValidateForApply compares with: the configured realm and zone      *)
(* and, where none is configured, the plan's own.                          *)
(***************************************************************************)
ExpectedFor(p) == [realm |-> IF Expected.realm = None THEN p.realm ELSE Expected.realm,
                   zone  |-> IF Expected.zone = None THEN p.zone ELSE Expected.zone]

(***************************************************************************)
(* The run's loop.  The operation being decided or carried out is the one  *)
(* after those that have a result.                                         *)
(***************************************************************************)
OpsOf(p)   == {p.ops[i] : i \in DOMAIN p.ops}
Ops(r)     == plan[r].ops
Index(r)   == Len(results[r]) + 1
Current(r) == Ops(r)[Index(r)]
More(r)    == Index(r) <= Len(Ops(r))

Start(r, p, m) ==
    /\ stage[r] \notin Running
    /\ starts < MaxStarts
    /\ starts'  = starts + 1
    /\ stage'   = [stage EXCEPT ![r] = IF ValidatePromptMode(m) /\ ValidPlan(p, ExpectedFor(p))
                                       THEN "deciding" ELSE "refused"]
    /\ plan'    = [plan EXCEPT ![r] = p]
    /\ session' = IF ValidatePromptMode(m) THEN [session EXCEPT ![r] = NewSession(m)]
                                           ELSE session
    /\ flag'    = [flag EXCEPT ![r] = m]
    /\ results' = [results EXCEPT ![r] = <<>>]
    /\ answers' = [answers EXCEPT ![r] = <<>>]
    /\ report'  = [report EXCEPT ![r] = None]
    /\ finished' = IF finished = p THEN p ELSE None
    /\ UNCHANGED <<clientVars, carried>>

\* Take the operation up: hand it to applyOperation, or record that it is skipped.
CarryOut(r, answer) ==
    /\ Call(r, Current(r))
    /\ stage'   = [stage EXCEPT ![r] = "calling"]
    /\ carried' = carried \cup {Current(r)}
    /\ answers' = [answers EXCEPT ![r] = Append(@, answer)]
    /\ UNCHANGED results

PassOverFallingThrough(r, answer) ==
    /\ Call(r, Current(r))
    /\ stage'   = [stage EXCEPT ![r] = "calling"]
    /\ answers' = [answers EXCEPT ![r] = Append(@, answer)]
    /\ UNCHANGED <<results, carried>>
PassOver(r, answer) ==
    /\ stage'   = [stage EXCEPT ![r] = "deciding"]
    /\ results' = [results EXCEPT ![r] = Append(@, "skipped")]
    /\ answers' = [answers EXCEPT ![r] = Append(@, answer)]
    /\ UNCHANGED <<clientVars, carried>>

\* Session.Decide up to the point where it would ask.
Decide(r) ==
    /\ stage[r] = "deciding" /\ More(r)
    /\ \/ SkipsUnasked(session[r]) /\ PassOver(r, "-")
       \/ /\ Asks(session[r], Current(r))
          /\ stage' = [stage EXCEPT ![r] = "prompting"]
          /\ UNCHANGED <<clientVars, results, answers, carried>>
       \/ /\ ~SkipsUnasked(session[r]) /\ ~Asks(session[r], Current(r))
          /\ CarryOut(r, "-")
    /\ UNCHANGED <<plan, session, report, flag, finished, starts>>

\* The operator answers; terminalReviewer asks again after anything it cannot read.
Answered(r, d) ==
    /\ stage[r] = "prompting"
    /\ \E text \in Typed : Means(text, d)
    /\ session' = [session EXCEPT ![r] = After(@, d)]
    /\ IF Accepts(d) THEN CarryOut(r, d) ELSE PassOver(r, d)
    /\ UNCHANGED <<plan, report, flag, finished, starts>>

\* The terminal is closed: Review fails, and Apply returns an empty ApplyResult.
Hangup(r) ==
    /\ stage[r] = "prompting"
    /\ stage' = [stage EXCEPT ![r] = "aborted"]
    /\ UNCHANGED <<clientVars, plan, session, results, report, flag, answers, carried, finished, starts>>

OutcomeOf(r) == IF pc[r] = "ok" THEN "applied" ELSE "failed"
WithOutcome(r) == Append(results[r], OutcomeOf(r))

\* The call has returned; an error of one operation does not end the run.
Record(r) ==
    /\ stage[r] = "calling" /\ pc[r] \in Settled
    /\ stage'   = [stage EXCEPT ![r] = "deciding"]
    /\ results' = [results EXCEPT ![r] = WithOutcome(r)]
    /\ pc' = [pc EXCEPT ![r] = "idle"]
    /\ UNCHANGED <<realm, op, ref, depth, late, edits>>
    /\ UNCHANGED <<plan, session, report, flag, answers, carried, finished, starts>>

Count(r, status) == Cardinality({i \in DOMAIN results[r] : results[r][i] = status})
ResultStatusOptimistic(r) ==
    IF Count(r, "applied") > 0 THEN "applied"
    ELSE IF Count(r, "failed") > 0 THEN "failed" ELSE "skipped"
ResultStatus(r) ==
    IF Ops(r) = <<>> THEN "skipped"
    ELSE IF Count(r, "failed") > 0 THEN "failed"
    ELSE IF Count(r, "applied") = 0 /\ Count(r, "skipped") > 0 THEN "skipped"
    ELSE "applied"

Return(r) ==
    /\ stage[r] = "deciding" /\ ~More(r)
    /\ stage'  = [stage EXCEPT ![r] = "returned"]
    /\ report' = [report EXCEPT ![r] =
                    [status |-> ResultStatus(r), applied |-> Count(r, "applied"),
                     skipped |-> Count(r, "skipped"), failed |-> Count(r, "failed")]]
    /\ finished' = IF /\ Count(r, "applied") = Len(Ops(r))
                      /\ carried \subseteq OpsOf(plan[r])
                      /\ \A s \in Client : stage[s] \in Running => plan[s] = plan[r]
                   THEN plan[r] ELSE finished
    /\ UNCHANGED <<clientVars, plan, session, results, flag, answers, carried, starts>>

\* The command is killed.  A request it has just sent may still arrive.
Crash(r) ==
    /\ stage[r] \in Running
    /\ stage' = [stage EXCEPT ![r] = "crashed"]
    /\ pc'    = [pc EXCEPT ![r] = "idle"]
    /\ \/ late' = late
       \/ /\ pc[r] \in Writing /\ Cardinality(late) < MaxLate
          /\ late' = late \cup {RequestOf(r)}
    /\ UNCHANGED <<realm, op, ref, depth, edits>>
    /\ UNCHANGED <<plan, session, results, report, flag, answers, carried, finished, starts>>

\* The steps of the call, while the loop waits for it.
Calling(r) == (Step(r) \/ Fail(r) \/ LoseAnswer(r)) /\ UNCHANGED <<runVars, starts>>

RunStep(r) == Decide(r) \/ Record(r) \/ Return(r)
ApplyNext ==
    \/ \E r \in Client :
         \/ \E p \in Plans, m \in Modes : Start(r, p, m)
         \/ \E d \in Decisions : Answered(r, d)
         \/ RunStep(r) \/ Hangup(r) \/ Crash(r) \/ Calling(r)
    \/ Outside /\ UNCHANGED <<runVars, starts>>

ApplySpec == ApplyInit /\ [][ApplyNext]_applyVars

\* The command never stops between two statements; requests come to an end (the
\* HTTP client gives each 30 seconds, the command two minutes); the operator
\* answers or hangs up.
FairApplySpec ==
    /\ ApplySpec
    /\ \A r \in Client :
         /\ WF_applyVars(RunStep(r))
         /\ WF_applyVars((Step(r) \/ Fail(r)) /\ UNCHANGED <<runVars, starts>>)
         /\ WF_applyVars(Hangup(r) \/ \E d \in Decisions : Answered(r, d))

(***************************************************************************)
(* Properties.                                                             *)
(***************************************************************************)

\* The prompt policy as DEVELOPER_NOTES.md and --prompts state it, for every
\* operation of a run at once: who was asked, and what became of the
\* operation, follows from the flag, the operation's risk and the earlier
\* answers alone (Session.Decide computes it from a mode it overwrites).
Said(r, i, d) == \E j \in 1..(i - 1) : answers[r][j] = d
MustAsk(r, i) == /\ ~Said(r, i, "accept_all") /\ ~Said(r, i, "skip_all")
                 /\ \/ flag[r] = "all"
                    \/ flag[r] = "required" /\ Ops(r)[i].risk = "requires_approval"
MustSkip(r, i) == Said(r, i, "skip_all") \/ answers[r][i] \in {"skip", "skip_all"}

FollowsPolicy(r) ==
    /\ \A i \in DOMAIN answers[r] : (answers[r][i] # "-") <=> MustAsk(r, i)
    /\ \A i \in DOMAIN results[r] : (results[r][i] = "skipped") <=> MustSkip(r, i)
PromptPolicy == \A r \in Client : FollowsPolicy(r)

\* No group disappears through the command unless an operator approved that
\* deletion: he accepted it, or accepted everything, or ran with --prompts=none.
\* This covers plans edited by hand, crashes and requests that arrive late.
Approved(r, i) == \/ flag[r] = "none" \/ Said(r, i, "accept_all")
                  \/ answers[r][i] \in {"accept", "accept_all"}
DeletesApproved ==
    \A r \in Client : \A i \in DOMAIN answers[r] :
        Ops(r)[i].action = "group_delete" /\ ~MustSkip(r, i) => Approved(r, i)

\* The realm changes, apart from an administrator's edits, only as one of the
\* operations that were carried out says: nothing skipped, refused or not yet
\* reached touches Keycloak, not even through a request that arrives late.
Created   == live' \ live
Dropped   == live \ live'
Rewritten == {g \in live \cap live' : attrs'[g] # attrs[g]}
Entered   == {x \in live' \X User : x[2] \in members'[x[1]] \ members[x[1]]}
Left      == {x \in live' \X User : x[2] \in members[x[1]] \ members'[x[1]]}

Explains(o) ==
    /\ \A g \in Created   : /\ o.action = "group_create" /\ Under(pathOf'[g], o.path)
                            /\ attrs'[g] = IF pathOf'[g] = o.path THEN o.attrs ELSE NoAttrs
    /\ \A g \in Rewritten : /\ o.action = "group_create" /\ pathOf[g] = o.path
                            /\ attrs'[g] = o.attrs
    /\ \A g \in Dropped   : o.action = "group_delete" /\ Under(o.path, pathOf[g])
    /\ \A x \in Entered   : /\ o.action = "member_add" /\ o.user = x[2]
                            /\ pathOf[x[1]] = o.path
    /\ \A x \in Left      : /\ o.action = "member_remove" /\ o.user = x[2]
                            /\ pathOf[x[1]] = o.path
OnlyCarriedOutTouches ==
    [][edits' = edits => UNCHANGED realm \/ \E o \in carried : Explains(o)]_applyVars

\* A failed operation is one operation's failure: a run that returns has a
\* result for every operation of its plan, and its counts add up to them.
ReportsAll(r) ==
    /\ Len(results[r]) = Len(Ops(r))
    /\ report[r].applied + report[r].skipped + report[r].failed = Len(Ops(r))
    /\ report[r].status = "applied" => report[r].failed = 0
ReportComplete == \A r \in Client : stage[r] = "returned" => ReportsAll(r)

\* A plan that does not undo itself: it deletes no group on the path of one it
\* creates, and removes no member it adds.
Consistent(p) ==
    \A o, q \in OpsOf(p) :
        /\ o.action = "group_delete" /\ q.action = "group_create" => ~Under(o.path, q.path)
        /\ o.action = "member_add" /\ q.action = "member_remove"
           => o.path # q.path \/ o.user # q.user

\* "Repeat apply is safe for already-converged mirror state" (DEVELOPER_NOTES.md,
\* success criteria): once a plan has been applied in full, applying the same
\* file again changes nothing, whatever fails or crashes during the repetition,
\* runs beside it, or arrives late from an earlier attempt.
RepeatChangesNothing == [][finished # None => UNCHANGED realm]_applyVars

\* What a run changed is reported, unless the process was killed.  (Not so: an
\* operator who hangs up at a prompt gets no result for what was applied before.)
PartialResultReported ==
    \A r \in Client :
        stage[r] \in {"returned", "aborted"} /\ Count(r, "applied") > 0
        => report[r] # None

\* Every command comes to an end.
RunsEnd == \A r \in Client : stage[r] \in Running ~> stage[r] \notin Running
==============================================================================
