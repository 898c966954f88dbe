# Verification of irods-keycloak-admin

`irods-keycloak-admin` keeps groups in a Keycloak realm, the *mirrors*, in line
with the groups of an iRODS zone. Its working part is the command
`irods-kc-sync`: `repair-keycloak --dry-run` compares the two and writes a plan,
`apply` reviews the plan with an operator and carries it out through Keycloak's
Admin REST API. iRODS is the authority and is only read. This directory models
that part, and the HTTP server that is to offer it to administrators, in TLA+,
checks it with TLC and proves theorems about it with TLAPS.

## The system

| Component | State it keeps | Operations | Modelled in |
|---|---|---|---|
| Keycloak client (`internal/keycloakadmin`) | none between calls but a token; a call holds a group id and a path | `CreateOrUpdateGroup` (with `ensureGroupPath`), `AddUserToGroup`, `RemoveUserFromGroup`, `DeleteGroup`, listings | `KeycloakClient`, `KeycloakContract`, `GroupListing` |
| Token cache (same package) | a token and its expiry | `accessToken` | `TokenCache` |
| Keycloak (external) | groups: id, path, attributes, members | serves requests one at a time | `KeycloakRealm` |
| Repair dry run (`internal/workflow/repair`) | two snapshots while it runs | `RepairKeycloak`: `readIRODSSnapshot`, `readKeycloakSnapshot`, `planRepair` | `RepairPlan`, `MirrorRepair` |
| Apply (same package) | position in the plan, results | `Apply`, `applyOperation` | `ApplyPlan`, `MirrorRepair` |
| Plan review (`internal/planreview`) | prompt mode, skip-all flag | `NewSession`, `Decide` | `PlanReview`, `ApplyPlan` |
| Plan validation (`internal/plan`) | none | `ValidateForApply` | `PlanValidation` |
| Command (`cmd/irods-kc-sync`) | the plan file | `runRepairKeycloak`, `runApply`, terminal reviewer | `ApplyPlan`, `MirrorRepair` |
| iRODS adapter, mapper, domain types | none | reads, a fallback for a group's name, records | folded into the above |
| Admin server (`cmd/irods-kc-admin-server`, `internal/app`, `config`, `server`) | a listener goroutine, an error channel, a signal context | start, serve, shut down | `AdminServer` |
| HTTP admin API (`internal/httpapi`) | one goroutine per connection | decode, call a service, answer | `AdminServer` |
| Service stubs | none | return "not implemented" | `AdminServer` (as one of the results) |
| authz, audit, events, reconcile, AVU, other workflows and commands | none | none yet | not modelled |

How they interact: the dry run lists iRODS groups and reads the members of one
after the other, then lists Keycloak's groups and reads the members of each
mirror, then computes the plan; nothing is locked meanwhile. The plan is a file,
applied at any later time, any number of times, by any number of operators at
once. `apply` validates it against the configured realm and zone, and for every
operation asks `planreview`, then calls the client, which sends several requests
for one call, each with a token from the cache. Requests fail, time out after 30
seconds on the client while Keycloak still serves them, and the command gives up
after two minutes.

What is hard about it:

* a call decides on what an earlier request of the same call returned;
* other commands and administrators change the realm between the requests;
* a request that was given up may take effect later;
* a command may be killed anywhere, and the same plan applied again;
* plans are stale, and the snapshots behind them never existed at one time;
* one operation of several fails, or the operator leaves half-way;
* groups are listed page by page while groups come and go;
* tokens expire while requests and answers are under way;
* the server is stopped while requests are being served, or just as its listener
  fails.

What makes each component correct:

* *client*: a call that returns without an error did what it says; recursive
  creation creates groups on its own path only, and ends; a group it created
    carries its mirror attributes; a listing shows no group twice and misses none
  without a deletion;
* *token cache*: no token is used that has expired; no call waits for ever;
* *apply*: nothing happens in Keycloak but what an operation says that was
  decided to be carried out; deletions are approved; every operation has a
  result; repeating a plan that was applied changes nothing; it ends;
* *repair*: a cycle nobody interferes with ends in line with iRODS and makes
  nothing worse on the way; a stale plan takes away nothing that iRODS has
  granted throughout; repeated repair converges; other groups are left alone;
  the plan it writes is one that apply accepts;
* *server*: it ends when it is told to or cannot listen; exit status 0 means that
  no request was cut off; every request gets one answer.

`PROJECT.json` lists the hazards line by line, with the properties that cover
them, and those that no property covers yet.

## The modules

`KeycloakRealm` is the external part: the group tree, the requests that change
it, the status each is answered with, and an administrator's edits. It assumes
what the client relies on: ids are never issued twice, a path belongs to one
group, deleting a group deletes what is below it, a member listing without
`first`/`max` holds at most `PageSize` members (100 in Keycloak).

`KeycloakClient` has a process counter `pc` per caller. `Call` is
`applyOperation`'s dispatch, `Find` is `findGroupByPath` and what each caller
does with its result, `Verify` and `Reread` the listings after a POST and a PUT,
`List` the member listing, `Send` a request that changes the realm with the
handling of its status. `ref` is the id in hand (`existing.ID`, `parent.ID`,
`groupID`), `depth` the length of the path prefix in hand; `ensureGroupPath`
climbs by lowering it and comes down by raising it. `Fail` is a request that is
never served (connection, 5xx, token, deadline); `LoseAnswer` one whose answer is
lost: it joins `late` and may `Arrive` at any time.

`KeycloakContract` is what a caller of the client may assume: a call that is
`busy` makes some of the `Changes` its operation is about, on the group it is
aimed at (`aim`), and returns without an error only after a moment at which
`Outcome` held; a call that fails, or whose caller is killed, may leave one change
behind that happens later (`GiveUp`). When the caller has the result (`Take`) it may
begin another call. It knows no listings, ids in hand or steps.
`KeycloakClient!KeepsContract` states
that the client implements it, with `Phase` and `Aim` as the refinement mapping:
looking up, climbing and verifying are stutters, a request that is served is a
`Change`, the moment of success `Conclude`. `ApplyPlan` implements it too, by the
same mapping: its `Record` is `Take`, its `Crash` a `GiveUp`, or a `Take` when the
result was there already.

`GroupListing` takes one listing apart. `work` is the recursion over the tree: the
next page of top groups, a group to append, the next page of its children.
`Page` is cut out of the siblings sorted by name as they are at that moment, so a
deletion shifts the rest to the left. How an answer shows the groups below one
(counted, embedded, both) differs between Keycloak versions.

`TokenCache` has time (`Tick`), which passes only while callers wait for Keycloak
or rest. `Hit` and `Ask` are `accessToken` under its first lock, `Keep` under its
second; `Issue` is the moment from which the token's life counts at Keycloak.

`PlanReview` gives `planreview.Session` as operators on a record, `PlanValidation`
`ValidateForApply` on plan files as records.

`ApplyPlan` extends these and the client: each process runs `apply`, possibly
several times. `Start` is `runApply` up to the loop with the whole validation,
`Decide`, `Answered` and `Hangup` are `Session.Decide` with its reviewer,
`Calling` embeds the client's steps, `Record` stores the outcome, `Return`
computes status and counts, `Crash` kills the process with a request perhaps on
its way. `flag`, `answers`, `carried` and `finished` are history variables for
the properties.

`RepairPlan` is pure: `keycloakGroupMapping` (`IsMirror`, `MirroredName`) and
`planRepair` (`PlanRepair`), whose operations come in the order of the code:
iRODS groups by name (create, adds by user, removals by user), then deletions.
The operations are numbered and carry the evidence the validator looks at.

`MirrorRepair` composes them into the cycle: `BeginScan`, `ReadIrodsGroup`,
`ListMirrors`, `ReadMirror`, `ScanFails`, `WritePlan`, `BeginApply`, one
`Apply...` action for each call of the client, `EndApply`, `Crash`, and the
environment's `IrodsChanges` and `KeycloakDrifts`. Here a call of the client is
one step (two with a missing ancestor), so that the cycle stays checkable;
`KeycloakClient` has the requests, and the contract says what such a step may do.

`AdminServer` has the main goroutine (`Configure`, `SelectStop`, `SelectError`,
`ShutdownDone`, `ShutdownTimesOut`), the listener's (`Listen`, `ServeReturns`,
`SendResult`) with the channel `errCh` between them, which holds `Capacity` reports
and makes the listener wait when it is full, and a goroutine for each
connection (`Accept`, `Dispatch`, `Decode`, `CallService`, `Return`).

The modules whose names end in `Proofs` hold the theorems; `KeycloakRealmProofs`
has the facts about paths, realms and numbers that the others share.

The `MC` modules give the constants for TLC; `MCMirrorRepairCycle` also states that
its instance meets the condition of the theorems about quiet cycles. An operator whose name continues
that of another (`BelowSkipping` after `Below`) is a plausible bug of that
operator, used to see that a property can fail; no specification uses it.

### Abstractions

* A lookup by path (`ListGroups` and all its pages) is one step outside
  `GroupListing`, which says what a listing may miss when groups are deleted
  meanwhile; user lookups are not steps of their own, for the set of accounts
  does not change.
* A user's id and username are one value, and a user is spelled in Keycloak as in
  iRODS; remote zones' members are not told from local ones.
* The target of an operation is a path and a user, not text; usernames with a '#'
  or a '/' are the set `Irregular`; format version, mode and authority are one
  header.
* The two-minute deadline is a run of failures to the end of the plan.
* A planned group's name is the last name of its path, as the planner writes it.
* In `late`, two identical requests count as one.
* What a caller that has failed once does to the realm later is `Arrive` only:
  Go's HTTP client does not repeat a POST.
* Administrators create and delete groups but do not move or rename them.
* In `MirrorRepair` the client takes one of the ids never issued (`FreshIds`):
  they differ in nothing.
* A call that finds no token fails like any other request; outside `TokenCache`
  there are no tokens.
* Routes that decode a body and answer with the same status are one kind; a
  connection carries one request; a service returns a result, `ErrNotImplemented`
  or another error, of which the stubs wired today return the second only.
* A signal before `signal.NotifyContext` kills the process and is left out; those
  after the first change nothing.

## Runs and bounds

| Run | Question | Bounds |
|---|---|---|
| `MCKeycloakClient_admin` | are successes true while an administrator interferes? does every step keep the contract? types | 1 caller, 7 kinds of operation, 3 edits, 1 late request |
| `MCKeycloakClient_nested` | does recursive creation stay on its path, write attributes, advance with every step and end? the strengthening the proofs use; successes | 2 callers, paths of 3 levels, 1 edit, 1 late request |
| `MCApplyPlan_prompts` | prompt policy, approval, report, effects, the client's contract over several calls and a kill, termination; types | 1 command, 10 plan files, 5 values of `--prompts`, 5 answers, 1 late request |
| `MCApplyPlan_race` | effects, successes and repetition with two commands | 2 commands started twice, 2 plan files, 1 late request |
| `MCMirrorRepair_cycle` (`MCMirrorRepairCycle`) | quiet cycles, drift, stale plans, plans the validator accepts; types | 2 groups, 2 users, 4 start realms, 2 changes of iRODS, 1 of Keycloak, 1 mishap |
| `MCMirrorRepair_converges` | convergence, also with a mirror below a stale one and a member nobody can add | 2 groups, 3 users, one without an account, 2 start realms, 2 changes of iRODS, 1 of Keycloak, 1 mishap |
| `MCTokenCache` | are cached tokens alive? does every call end? | 2 callers, 8 ticks of 15 s, lifetimes of 60 s (not given), 15 s and 45 s |
| `MCGroupListing` | is anything listed twice, or missed? does a listing end? | 3 top groups and 3 children, pages of 2, 3 edits, 3 ways to show children |
| `MCAdminServer` | exit status, answers, a listener that can always report, end after a signal or a failed listener | 2 connections, 3 listen addresses, 4 kinds of route, 3 bodies, 3 results |

Three more runs show where the code and its documents differ; see below.

Why these bounds are enough to be of interest: a call makes at most as many
decisions on one listing as its path has levels, so three levels show climbing,
coming down and a parent replaced in between; a conflict between calls takes two
of them and one group; a stale id takes one deletion and one creation; every
action of every module fires in some run; a token takes one caller that is slow
and one that is fast, and a margin of at least one tick; a page boundary takes
one more group than a page holds. `GroupId` is large enough for every creation
within the bounds; in `_race` ids may run out, and a creation is then refused,
which only removes behaviours of a run without liveness. The counters `MaxEdits`,
`MaxLate`, `MaxStarts`, `MaxIrodsEdits` and `MaxMishaps` and the end of time
`MaxTime` are the only bounds in guards. Deadlock is not checked: commands end.

Where a property needs a condition, it or the constants of its run say so:
`SuccessIsTrue` needs a page that shows all members; `SuccessWritesAttributes`
needs that there was no edit, lest an administrator create the bare group between
the client's lookup and its POST (the 409 is then taken for success without
writing attributes), and operations that agree on attributes; `RepeatChangesNothing` needs
the same, and plans that do not undo themselves (`Consistent`); `MirrorConverges` needs
that no group of another zone is in the way, and says nothing of members without an
account in Keycloak, whom every plan adds and every apply fails to add
(`WithoutAccount`): all others get in line although that operation fails each time; in `_cycle` an administrator's new
groups carry no attributes. The cycle's mirrors lie side by side: where a stale
mirror lies above a valid one, deleting it takes the other along within the same
cycle, and the next cycle creates it again, which `_converges` starts from too
(administrators there only delete groups and change members; were one to create a
second mirror of a group, see `_doubled`). `WrittenPlansApply` needs usernames
without '#' and '/'.

### Fairness

A started command goes on: weak fairness of the steps of a call and of the loop
(`Step`, `RunStep`), since Go code between two requests does not block and each
request ends by the client's 30-second timeout. In `ApplyPlan` a request may end
in failure each time (`Step(r) \/ Fail(r)`), so `RunsEnd` does not assume a
healthy Keycloak. The operator answers or closes the terminal. In `MirrorRepair`
an operator applies the plans she has written again and again (strong fairness
of `BeginApply`, as a new dry run may replace a plan) and starts another cycle
after one, the periodic repair of DEVELOPER_NOTES.md; nothing is assumed of
mishaps, crashes, edits, late requests or administrators.

In `TokenCache` time passes and a request ends when its timeout comes; Keycloak need
not answer. In `GroupListing` the listing goes on, and a request may fail. In
`AdminServer` the main goroutine and the listener's go on; a handler may hang, so
nothing is assumed of connections, and `ServerEnds` rests on the ten seconds given
to `Shutdown`.

## Where the code and its documents differ

* `MCApplyPlan_hangup`: when the operator closes the terminal at a prompt,
  `Apply` discards the results of the operations already applied
  (`service.go:119-122`), although DEVELOPER_NOTES.md promises a result with the
  counts of what was applied.
* `MCMirrorRepair_foreign`: a group of another zone (or another authority) at
  `/irods/<name>` is taken for a missing mirror, and applying the plan overwrites
  its attributes, although apply "mutates only Keycloak mirror groups".
* `MCMirrorRepair_doubled`: of two groups that mirror the same iRODS group only
  the one listed last is repaired.

Three more differences are in the code and in no run:

* The member listing asks for no page (`http_client.go:170`), unlike the group
  listings, and Keycloak then answers with its first 100 members. Members beyond are
  neither removed nor noticed, so that a clean cycle may leave one too many, although
  "periodic repair makes Keycloak match iRODS" (DEVELOPER_NOTES.md:1927). The runs
  have pages that show everybody; with `PageSize` below the size of a group
  `SuccessIsTrue` and `CleanCycleSyncs` fail.
* DEVELOPER_NOTES.md:1354-1355 asks that apply "refuse plans generated for a different
  config, authority mode, realm, zone, or mapping policy hash". Where realm or zone is
  left unset the expected one is taken from the plan itself (`main.go:217-222`,
  `service.go:93-94`, modelled by `ExpectedFor`), so that one configuration accepts
  plans for any realm; and nothing reads the hash, which is therefore not modelled.
* `api/openapi.yaml` documents 202 for applying a provisioning plan and 200 for a
  Keycloak repair (lines 139 and 102), where the handlers answer 200 and 202
  (`handler.go:94`, `:181`). It shows only once a service succeeds, which the stubs of
  today never do. `Route` follows the code, and `OneAnswer` counts the statuses of a
  request without looking at them.

## Proofs

For every number of callers or connections, every set of operations and paths, and
without the bounds of the runs on what can happen:

| Theorem | Statement |
|---|---|
| `TypeCorrect` | `ClientSpec => []ClientTypeOK` |
| `CallsStayOnCourse` | `ClientSpec => []CallsOnCourse` |
| `PostsAim` | `ClientSpec => []PostsAimAtTarget` |
| `SuccessHolds` | `ClientSpec => SuccessIsTrue`, if the accounts are finitely many and fit a page |
| `CreationsWriteAttributes` | `ClientSpec => SuccessWritesAttributes`, if `CreatesAgree` |
| `CallsAreBounded` | `ClientSpec => CallsAdvance` |
| `ContractKept` | `ClientSpec => KeepsContract`, under the condition of `SuccessHolds` |
| `ApplyInvariant` | `ApplySpec => []ApplyInv` |
| `ApplyTypeCorrect` | `ApplySpec => []ApplyTypeOK` |
| `PolicyHolds` | `ApplySpec => []PromptPolicy` |
| `DeletionsNeedApproval` | `ApplySpec => []DeletesApproved` |
| `ReportIsComplete` | `ApplySpec => []ReportComplete` |
| `CallInvariant` | `ApplySpec => [](ApplyInv /\ CallInv)` |
| `NothingElseTouched` | `ApplySpec => OnlyCarriedOutTouches` |
| `AppliedIsTrue` | `ApplySpec => SuccessIsTrue`, under the condition of `SuccessHolds` |
| `CommandsKeepContract` | `ApplySpec => KeepsContract`, under the same condition |
| `TreeInvariant` | `ApplySpec => []TreeOK` |
| `AchievedInvariant` | `ApplySpec => [](AttrsInv /\ (edits = 0 => AchievedInv))`, under the condition of `SuccessHolds`, `CreatesAgree` and `Consistent` |
| `RepetitionIsSafe` | `ApplySpec /\ [](edits = 0) => RepeatChangesNothing`, under the same |
| `CacheInvariant` | `Spec => []CacheInv` of `TokenCache` |
| `ExpiryIsBounded` | `Spec => []ExpiryBound` |
| `CachedTokensLive` | `Spec => CachedTokenLives` |
| `CacheTypesHold` | `Spec => []TypeOK` |
| `ListingInvariant` | `Spec => []ListInv` of `GroupListing` |
| `ListingTypesHold` | `Spec => []TypeOK` |
| `ListsOnceAfterParent` | `Spec => []ListedOnceAfterParent` |
| `HidingInvariant` | `Spec => [](ListInv /\ HidingInv)` |
| `DeletionsHideAtMostOne` | `Spec => []DeletionsHideOneEach` |
| `RepairTypesHold` | `Spec => []TypeOK` of `MirrorRepair` |
| `RefusedForUsernamesOnly` | `Spec => [](stage = "planned" => (Accepted <=> RegularUsers))` |
| `RegularPlansApply` | `Spec => []WrittenPlansApply`, if no username is irregular |
| `SteadyGrantsAreKept` | `Spec => SteadyGrantsKept`, if `MirrorsApart` |
| `QuietDriftShrinks` | `Spec => DriftShrinks`, if `MirrorsInPlace` |
| `CleanCyclesSync` | `Spec /\ []OnePage => []CleanCycleSyncs`, if `MirrorsInPlace` |
| `ServerTypesHold` | `Spec => []TypeOK` of `AdminServer` |
| `ExitsCleanly` | `Spec => []CleanExit` |
| `AnswersOnce` | `Spec => []OneAnswer` |
| `ListenerIsNotBlocked` | `Spec => []ListenerNeverBlocks` |

*The client* (`KeycloakClientProofs`, `KeycloakContractProofs`).

Type correctness is not inductive by itself: serving a POST must give a path of
`Path`, so the id in it must be that of the parent of the path being created.
`CallsOnCourse` says so for each caller at its step (`OnCourse`) and for requests
whose sender gave up (`Aimed`); `ClientInv`, both together, is inductive
(`ClientInvariant`). The argument rests on `PathsStay`: no step gives an issued id
another path, so what was true of the id in hand when it was looked up stays
true, whatever happens to the group. The lemmas go from paths and prefixes, over
the realm's changes, to one lemma per action. `SuccessHolds` then needs one lemma
for each step that can decide a call (`FindDecides`, `VerifyDecides`,
`ListDecides`, `SendDecides`); it shows by its assumption where unpaged listings
enter. `CreationsWriteAttributes` follows the group between the lookup that found none
and the POST: others may create it meanwhile, and the 409 is then taken for
success, but as long as operations agree (`CreatesAgree`) they give it the same
attributes (`AttrsInv`, for calls and for requests on their way). `CreatesAgree` holds
of plans for one zone whose groups have names of one level: a plan that creates
`/irods/a/b` would create a bare `/irods/a` that another creation takes for its own.
`ContractKept` maps each action: `RequestIsAChange` shows by `ClientInv` that
a request the client sends is one of the `Changes` of its operation, and the same
deciding lemmas give `Outcome` where a call concludes. `CallsAreBounded` is the part
of `CallsEnd` that needs no fairness: `StepsLeft` counts down with every step of a
call (`FindAdvances`, `VerifyAdvances`, `OtherStepsAdvance`), from at most three for each
level of its path, and nothing another process does moves it. The lemmas show it of
every step there is, so none repeats a request without getting on, which a property
`[][A]_vars` could not say. What is left to the runs is that a call under way always
has a step to take.

*Apply* (`ApplyPlanProofs`). The loop keeps a session it overwrites, while
`PromptPolicy` speaks of the flag and of all earlier answers; `SessionFits` ties the
two, `InStep` says how many answers and results there are at each stage, and
`Validated` what the validation has left behind. Together with `FollowsPolicy` they
make up `RunInv`, which looks at one run alone, so that a step of another run
cannot disturb it (`OtherRunsKeepRunInv`). `DeletesApproved` then follows: a
validated deletion has the risk that is asked about, and an operation asked about
and not skipped was accepted. `ReportComplete` needs that statuses partition the
results (`CountsAddUp`). For `OnlyCarriedOutTouches` the requests matter that
nobody waits for any more: `LateCarriedOut` says that each is about an operation
carried out, which stays so since an id keeps its path; `ServeIsExplained` compares
what serving such a request changes with what the operation says.

`RepeatChangesNothing` takes most. `Done(p, o)` says that the operation `o` of the plan
`p` has nothing left to do: the group is there with its attributes, the user is in or
out of whatever group the call would act on, the group is gone. A call that
concludes leaves its operation so (`DecidedIsAchieved`; a call that has had its
group deleted under it does so only because the plan itself deletes that group,
which `Tracked` says), and what is done stays done under any request about an
operation of the same plan (`DoneStays`): by case, no operation of a consistent
plan takes back what another gave, and a group that comes to a path is the only
one there. `AchievedInv` says so of every result of every run and of a plan that
was applied in full. Requests that are repeated or late are then refused or
without effect (`NothingLeftToDo`), for a POST since every group above an existing one
exists (`TreeInvariant`). The condition `Consistent` is needed: a plan that deletes a group
on the path of one it creates, or removes a member it adds, does it all over
again when it is applied again. Both can be met outside the instances: a mirror
whose attributes name another group than its path does, or a username that the two
systems spell differently (`service.go:419`).

*The token cache* (`TokenCacheProofs`). `CacheInv` says of a caller that waits
that it does so for a `Timeout` at most, and of a token on its way that it was
issued since; so the expiry reckoned at its arrival is late by no more than that.
As `Timeout <= Margin` (both are 30 s in the code, `http_client.go:84` and
`:670`), what the cache gives out is alive. Were one of the two constants changed
alone, the assumption would fail.

*The listing* (`GroupListingProofs`). The work of a listing holds answers of
Keycloak that may be long out of date. `Fits` says what is still true of them: a
group in one has the path it had then (`PathsStay` again), and its parent was
appended before; if its children are asked for, it was itself. So each group finds
its parent in the result, however much was created and deleted in between, and
`seen` keeps it from coming twice. That a page holds children, and each place of
it one, rests on siblings being told apart by their names (`PlacesExist`,
`SiblingsDiffer`).

What a listing misses is a matter of counting. `Hidden` are the groups that have been
there all the time, whose parent is listed and which are no longer due: they wait
nowhere in the work, and their place among their siblings lies before the offset the
paging has come to. `HidingInv` says that they are no more than the deletions so
far. A request hides nothing, for what a page does not show lies behind it
(`PageShows`, `WorkMoves`); a creation moves places to the right only; a deletion takes
one place from its siblings, so that only the one that stood exactly at the offset
falls before it (`EditTakesPlaces`), and there is one such group, as siblings have
different places (`PlacesDiffer`) and each list of siblings is paged through by one
item of the work (`ListedByOne`).

*The repair cycle* (`MirrorRepairProofs`). Four invariants build on each other.

* `TypeInv` and `WrittenInv` give types and the shape of what the planner writes. From
  them follows what the validator makes of a plan: it is refused for irregular
  usernames and for nothing else.
* `RepairInv` says what a snapshot and a plan are still worth. What was read of iRODS is
  true where iRODS has not changed since; an id read from Keycloak is that of a
  mirror of the same group as long as it exists; every operation is one that
  iRODS wanted. `steady` is what iRODS has not changed its mind about since the
  scan began, so an operation never goes against it: `SteadyGrantsAreKept`, which
  holds for plans of any age and for mirrors that somebody else replaced.
* `QuietInv` adds that every mirror stands at the path where apply looks for it. The
  operations of a quiet cycle then rest on what iRODS grants now (`QuietMeaning`),
  so that none adds to `Drift`, also of a run that is killed or fails half-way.
* `CycleInv` adds the other direction: a quiet scan sees every mirror with all its
  members, and every difference that is left has an operation further on in the
  plan that mends it, in an order that works (a group is created before members
  are added to it). At the end of the plan no difference is left.

The conditions are needed, and show what the workflow relies on. `MirrorsApart`: no
group stands below a mirror (deleting a mirror takes along what is below it, and
with it memberships nobody revoked), and a mirror below the root is called by its
attributes as by its path. `MirrorsInPlace`: moreover the mirrors are the groups
below the root, one level deep, so that no two mirror the same group; `_doubled` is
the counterexample without it. Both speak of where groups may start, be created by
an administrator, or be put by apply (`Placed`), not of what happens; `_cycle` meets
them. `OnePage`: a listing shows all members of a group, which beyond 100 members
the code does not see to.

What plans contain is computed by folds and sorting. A fold of the community
modules is a recursive function, and what it returns for every sequence is proved
by taking the least number for which it would be wrong (`LeastNumber`,
`AllNumbers`): `FlattenExists` and what follows it, and `PlacesExist`.

*The server* (`AdminServerProofs`). The types hold because the listener reports at
most once (`ReportsOnce`): its channel is empty until then and has room for the
report, also after a signal, when nobody reads it (`ListenerIsNotBlocked`).
`StopInv` relates main goroutine, signal,
`closing` and the channel: "nil" is in the channel only after `Shutdown` was called,
and then main is past its select.

The assumptions are those of the modules: paths are closed under prefixes, `None`
is no id, user or path, operations have paths, members are accounts,
a recorded id goes with the path recorded beside it, the timeout does not exceed
the margin; a group of iRODS has a name of one level, whose mirror has a path
and attributes there are, and the order of usernames is one of all usernames;
distinct names have distinct ranks, and a realm starts with finitely many groups.
They hold of the instances TLC checks, which evaluates them on every run.

Only model-checked: liveness (`CallsEnd`, `RunsEnd`, `MirrorConverges`, `FetchEnds`,
`ListingEnds`, `ServerEnds`), which is beyond this prover.

## Plan

Done: `KeycloakRealm`, `KeycloakClient`, `PlanReview`, `PlanValidation`,
`ApplyPlan`, `RepairPlan`, `MirrorRepair`, `KeycloakContract`, `GroupListing`,
`TokenCache`, `AdminServer`, their runs, and the theorems above.

Left: the spelling of usernames and members of remote zones (`service.go:419`,
`:481`), and groups that are moved or renamed between dry run and apply, which takes
another invariant than `PathsStay`.

Theorems worth proving next: that `MirrorRepair`, which carries a plan out in
one step for each operation, is what `KeycloakContract` allows a caller whose calls
all succeed.

## Not modelled

Authorization, audit, events, reconcile and AVU scaffolding, the other
workflows and commands (empty), `CreateOrUpdateUser` (no caller), configuration
and flag parsing beyond realm, zone, prompt mode and listen address, JSON and URL handling,
output, the Docker test stack and the end-to-end tests.
