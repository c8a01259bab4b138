# Verification of the AI Operating Platform

TLA+ specifications of the parts of the platform in which order, failure and
concurrency decide whether the outcome is right; TLC configurations that check
them on small instances; and TLAPS proofs of their safety properties for every
value of the constants. All paths below are relative to the repository root
(`src/src/...` is the TypeScript tree, `src/docs/...` its documentation).
`PROJECT.json` gives, definition by definition, the lines each one translates.

    tlc -config CoreRuntime_safety.cfg MCCoreRuntime.tla
    tlapm CoreRuntimeProofs.tla

## 1. The system

The platform is one Node.js process per node, with a SQLite file for everything
durable and in-memory variants of every repository for tests. Code is layered:
`domain/` holds immutable value objects with a transition table each,
`application/` the services that read, await and save them, `infrastructure/`
the repositories and adapters, `platform/` and `interfaces/` the HTTP API and
the wiring. Three facts shape every model here:

- **One event loop.** Between two `await`s a call is atomic. All interleaving is
  at awaits, so an action is the code from one await to the next. A `SqliteDatabase`
  transaction is synchronous and commits or rolls back inside one action.
- **Several processes may share the file.** The trigger leases and the version
  columns exist for that; the daemon and the budgets are modelled so.
- **Most saves are blind upserts.** `save()` on tasks, executions and budgets
  carries no expected version; the autonomous state row, workflow instances,
  approval requests and triggers carry one. What keeps a stale copy from
  destroying a newer row is, in each service, an argument about the order of
  calls or about versions, and those arguments are what the invariants below
  state.

### 1.1 Components that are modelled

| Component | State | Operations | Talks to |
|---|---|---|---|
| **Task and execution runtime** `application/runtime/core-runtime.ts`, `domain/task`, `domain/execution` | rows of `tasks` and `executions`; the durable event log; the local `task` and `execution` of each call | `execute()`: create, queue, start both, await the strategy, close both; each save is one transaction {upsert, append} followed by an in-memory publication | called by the operation loop, the HTTP API and orchestrations; its rows are read by recovery |
| **Crash recovery** `application/recovery/restart-recovery-service.ts` | none of its own; rewrites open rows | `reconcile()` in one transaction at startup, before anything is served | the tables of tasks, executions and operations, the event log, the subscribers |
| **Autonomous operations** `application/autonomy/autonomous-operation-service.ts`, `autonomous-orchestrator.ts` | operation rows; the `activeTokens` map; budget and consumption of a run | `executeOperation()`, `cancelOperation()`; the observe/plan/decide/act loop | planner, team budgets, policies, `CoreRuntime.execute` for each step |
| **Team resource budgets** `application/organization/team-resource-budget-service.ts`, `domain/organization/team-resource-budget.ts` | one row per team: limits, consumption, status | create, update limits, suspend, reactivate, delete (read, await, save); `evaluateAndConsume()` (one transaction) | called by the operation loop and by administrators |
| **Autonomous runtime (daemon)** `application/autonomous/autonomous-operations-runtime.ts` | runtime state row (status, failures, version), trigger leases; `timerHandle`, `isProcessingTick`, `isShuttingDown` in memory; trigger rows and the `executedWindows` of each instance | start, pause, resume, stop; scheduler tick, domain event, fire on demand; enable and disable a trigger | the executive cycle it dispatches; other instances through the file |
| **Plan execution and sagas** `application/autonomy/plan-execution-engine.ts`, `domain/autonomy/saga-execution.ts` | step records, flags and the saga of one call | `executePlan()`: dependency-ordered steps, then LIFO compensation | secured tools and their `compensate()`; wired in `interfaces/composition.ts:355`, no caller in `src/src` yet |
| **Workflow orchestration and verification** `application/workflow/workflow-orchestrator-service.ts`, `workflow-verification-service.ts`, `domain/workflow/workflow-instance.ts` | one versioned row per instance: status, and status, attempts and verdict of each step, the verdicts lost by every read; the copy, the list of runnable steps and the current step of each `advanceWorkflow()` | `startWorkflow()`, `advanceWorkflow()` with `executeStep()`, pause, resume, cancel, `verifyStepResult()` | policies, team budgets, the executor of a step, the oversight service |
| **Human oversight** `application/workflow/human-oversight-service.ts`, `domain/workflow/approval-request.ts` | one versioned row per approval request, with a deadline | request, start a review, approve, reject, escalate, cancel, `expirePendingApprovals()` | marks steps of the workflow instance; called by `executeStep()`, the HTTP API and a sweep |

What makes each one correct, and what is hard about it:

- **Runtime and recovery.** The process may die between the transaction that
  closes an execution and the one that closes its task, and again during the
  reconciliation. Correct: no open row survives a startup, the two rows end in
  one of the agreed pairs, the log stays a legal history of the row, and nothing
  a caller has been told is ever changed.
- **Operations.** A run holds a copy of the operation across many awaits while
  `cancelOperation()` may write the row or flag a token. Correct: the token map
  tells the two apart, a cancellation in time is honoured, the step budget is
  exact, an ended row is never rewritten.
- **Budgets.** Administrative calls save copies that are one await old.
  Correct: what is granted stays within the envelope, the status agrees with
  the counters, a suspension holds. Not all of that is true of the code: the
  properties say precisely under which overlap it fails.
- **Daemon.** Leases, a versioned row with a retry on conflict, and flags in
  memory. Correct: one cycle of a trigger at a time, a halt is a halt, the
  circuit breaker opens. Again the properties say how much of it holds.
- **Plans.** Refusals, failures, partial failures, cancellations and failing
  compensations combine. Correct: effects follow dependencies and are undone
  against them, and the report tells the truth about what is left.
- **Triggers.** A window is marked in memory before its cycle and recorded in the
  row after it, by a look and an upsert. Correct: no window twice, none passed
  over in silence, none brought back by a stale save, and no failing trigger
  that starves the others.
- **Workflows.** Nothing serialises `advanceWorkflow()`: calls work through lists
  computed before an await, beside operators and verdicts from outside, and a
  catch block saves whatever it holds. What the SQLite repositories return is not
  what was saved: a read drops the verdicts of an instance and the verification
  rules of a definition. Correct: only a call that is up to date writes, decisions
  and records stand, dependencies gate, retries are bounded. The documented gate
  on verified dependencies is lost with what is dropped (section 7).
- **Oversight.** Reviewers, the deadline, the sweep and the workflow race. Correct:
  the first decision stands, only its author marks the step, none comes late.

### 1.2 Components that are not modelled

| Component | Why |
|---|---|
| Plans and their validation | pure checks of a value; what they guarantee (acyclic, forward-ordered dependencies) is the initial condition of `PlanExecution` |
| Durable event store | its append is part of every transaction of `CoreRuntime`; queries, cursors and subscriber delivery are left out |
| Tool invocation and its idempotency records, worker queue, resilience, multi-agent coordination | state and interleavings of their own: candidates, see section 2 |
| The HITL bridge | suspended MCP tool calls and their tokens in the memory of the MCP server |
| Automation (webhooks, n8n, scheduler), billing quotas | adapters and in-process counters |
| Orchestrations | a sequential loop inside one execution, which `CoreRuntime` represents by its strategy |
| Agents, organizations, executive and business services, portfolio, governance, feature flags | administrative records read and written in one step, or stale copies of the kind `TeamBudget` models |
| Memory, spare parts, VTO and AR, solution factory | data and scoring, no control to interleave |
| Model gateway, security, observability, devices, HTTP API, MCP, web client, CLI, satellite application, scripts | external services, pure evaluation, transport, presentation or wiring |

`PROJECT.json` lists all of them with their sources.

## 2. Plan

Done, in this order: (1) runtime, recovery and the abstract `TaskStore`,
(2) operations, (3) team budgets, (4) daemon, (5) plans and sagas, (6) workflows,
(7) human oversight composed with (6), (8) the triggers of the daemon; each with a
run, mutants of the code for each of its properties, and its safety proved; then
the abstract specifications of operations (`OperationStore`) and of plan execution
(`SagaContract`), their refinement, and the progress arguments of section 5.

What could follow, most important first:

1. **Tool invocation** (`application/tools/tool-invocation-runtime.ts`,
   `infrastructure/persistence/in-memory-idempotency-store.ts`,
   `platform/api/http-router.ts:1486`): records NEW, IN_PROGRESS, COMPLETED,
   FAILED (re-arms) and MISMATCH with a TTL. Abstract specification: at most one
   call per key between acquire and settle; executions <= 1 + reported failures +
   expirations + crashes; a replay carries a completed execution's response.
2. **Worker queue** (`infrastructure/queue/in-memory-worker-queue.ts`): leases,
   heartbeats, attempts, reclaim; **resilience**: half-open probes of the circuit
   breaker, rate limiters; **webhooks**: delivery and retry; **multi-agent
   coordination**: inherited budgets.
3. **Composition** of `OperationRuns` over `TaskStore`: a step of an operation is
   a task, so that a crash in a step closes both tables consistently. And of
   `TriggerSchedule` with `AutonomousRuntime`, which today abstract each other.
4. An abstract specification of budgets: a ledger, in which the lost updates of
   `TeamBudget` are explicit entries.

## 3. Modules

| Module | Role |
|---|---|
| `Lifecycle` | statuses and transition tables of `domain/task/task.ts` and `domain/execution/execution.ts` |
| `TaskStore` | abstract: what a client may observe of the record of a task |
| `OperationStore` | abstract: what a client is promised of an autonomous operation |
| `SagaContract` | abstract: what one call of `executePlan()` does to the world and what its caller is told |
| `CoreRuntime`, `MCCoreRuntime`, `CoreRuntimeProofs` | `execute()`, crashes, `reconcile()` |
| `OperationRuns`, `MCOperationRuns`, `OperationRunsProofs` | operation service, loop and its recovery |
| `TeamBudget`, `MCTeamBudget`, `TeamBudgetProofs` | the budget of one team |
| `AutonomousRuntime`, `MCAutonomousRuntime`, `AutonomousRuntimeProofs` | the daemon of one tenant |
| `PlanExecution`, `PlanExecutionProofs` | one call of `executePlan()`; few enough constants to need no MC module |
| `WorkflowRuns`, `MCWorkflowRuns`, `WorkflowRunsProofs` | one workflow instance and all that write it |
| `Oversight`, `MCOversight`, `OversightProofs` | approval requests; extends `WorkflowRuns` and implements it |
| `TriggerSchedule`, `MCTriggerSchedule`, `TriggerScheduleProofs` | scheduled triggers and their windows |

Some modules contain definitions named for a mistake (`OvertakenSilently`,
`AfterStepOffByOne`, `MayClaimAlways`, ...). No specification uses them: each is
the body its neighbour would have under a plausible bug, and putting it in place
makes TLC report the property it is paired with in `PROJECT.json` ("mutants").

### 3.1 CoreRuntime

One action per save transaction of `execute()`: `Submit`, `CreateExecution`,
`QueueTask`, `StartExecution`, `StartTask`, the settling of the strategy
(`StrategyReturns`, `StrategyCancelled`, `StrategyThrows`), then
`Complete/Cancel/Fail` of execution and task. `busy` is the call that holds the
event loop: only at `"strategy"` is it given up, because that is the only await.
`SaveExecution`/`SaveTask` update the row and the log together (one transaction)
and then `notified`. `SaveThrows` is a save that throws: inside the `try` it
goes where the `catch` goes with what the local `execution` says (`AfterThrow`),
outside it the call rejects. `Crash` forgets calls, not rows. `Restart` is
`reconcile()`: RUNNING becomes FAILED, CREATED, QUEUED and WAITING become
CANCELLED, in both tables, with their events; `RestartAborts` is the same
transaction rolled back after subscribers were told. `unreadable` holds
the tasks whose row `rehydrate()` will refuse because the clock stepped back.

Abstracted: ids are fresh, so the execution of task `t` is indexed by `t`;
inputs, outputs and error texts are dropped; of timestamps only "is the end
before the start" is kept. Nothing in `src/src` puts a task in WAITING; the
status is in `Lifecycle` and in the recovery, which closes such rows too.

### 3.2 TaskStore

A task is accepted (`Accept`), moves along the table (`Advance`), its outcome is
acknowledged in the step that records it, and `Restart` closes all open tasks at
once. `CoreRuntime` implements it under `status <- taskRow, ack <- reply`:
executions, transactions, the event loop, crashes and refused startups are
stutters.

### 3.3 OperationRuns

`Execute` creates the row and enters the run in one synchronous segment. A run is
at one of four awaits (planning, team budget, policy, step) or settled;
`PlanArrives`, `TeamBudgetAllows`, `PolicyAllows`, `StepEnds` and their refusals
are the segments between them, `AfterStep` the decision evaluator. `SaveRun` is
the single save of a settled run, `RunRejects`/`SaveThrows` its failures.
Cancellation has three faces, as in the code: an ended row (`CancelEnded`), a
row without a token (`CancelSubmitted`), a live token (`CancelRunning`).
`begun`, `asked`, `begunThen` are history variables. `createOperation()` and
`runOperation()` called apart are not modelled: `src/src` only calls
`executeOperation()` and `cancelOperation()`. Of the budget only the step count is
exact; the other limits are a free choice after each step. The code compares the
step count in three places (the bound of the loop, the check before a step and the
evaluator, `autonomous-orchestrator.ts:175`, `:208`, `:498`) that agree;
`AfterStep` stands for all of them, so an error in one of the three alone,
which the other two would mask, cannot be expressed.

`OperationStore` is the promise: an operation is accepted once and ends once, what it
is charged is within its budget and written with its end, a cancellation taken in
time rules out that it completes, and a restart closes together what is open.
`OperationRuns` implements it under `status <- row`, `used <- rowSteps` and
`promised <- {o \in Ops : asked[o] \in Awaiting}` (the run was flagged at an await);
the loop, its awaits, the tokens, rejected runs and crashes are stutters.

### 3.4 TeamBudget

An administrative call reads (`CreateBudget`, `UpdateBudget`, `SuspendBudget`,
`ReactivateBudget`, `DeleteBudget`) and writes later (`Save`, `Delete`);
`EvaluateAndConsume` is one transaction. The six dimensions become three that the
code treats differently: `executions` (counted by `isExhausted()` with a zero
limit), `toolCalls` (for four alike) and `tokens` (may be unlimited). `granted`,
`strict`, `exposed`, `deleted` are a ledger of what happened, kept beside the
row so that a lost update can be seen; `pause` remembers an acknowledged suspension.

### 3.5 AutonomousRuntime

A call is a lifecycle request (`Request`, `EarlyReturn`, `ComputeState`,
`SaveState`/`SaveConflict`, `ClearLeases`), a `Tick` with its heartbeat, a
`DomainEvent`, or a `FireOnDemand`; the last three go through `Fire`,
`LookUpLease`, `ClaimLease`/`ClaimRefused`, `Enter`, the cycle,
`SuccessSaved`/`SuccessConflict`, `FailureSaved`/`FailureConflict` and `Release`.
Reads and upserts of the repositories are separate actions, because they are
separate awaits. `LeaseExpires` may happen to any lease, since nothing renews it;
`Crash(r)` kills an instance. `lost`, `quiet` and `pardoned` are history
variables. One tenant is modelled (the code shares one `timerHandle` among
tenants); trigger rows and window keys are left to `TriggerSchedule` and active
cycle ids are abstracted: any set of triggers may be due, and saving a trigger
succeeds or conflicts.

### 3.6 PlanExecution

Every plan of `N` steps whose dependencies point backwards, every mix of tool
kinds, both options, with and without a saga, is an initial state. The loop
cancels, skips, refuses or starts the next step; a started step completes, fails
or is found to have settled after a failure; then the saga starts compensating,
or refuses to (`CompensationRefused`: `startCompensation()` throws), and the
stack is walked in reverse. `effect` is a history variable: what a step has done
to the outside. A tool that says it only reads is taken at its word; a failed
tool may or may not have acted. The token can be cancelled, and a tool can
settle, only while something is awaited.

`SagaContract` knows the plan, the effects, which steps are built and which failed,
a phase (forward, backward, stopped at a failed compensation, over) and the answer.
`PlanExecution` implements it with the COMPLETED steps as `built`, the FAILED ones as
`failed`, the phase taken from `pc`, and as answer the outcome of the saga, REJECTED,
or REPORTED for a call without saga; passing over steps, awaiting, cancelling and
the stack are stutters. Its `Answer` spells out what the caller may conclude:
COMPENSATED means everything undoable was undone, and no more.

### 3.7 WorkflowRuns

`stored` is the row of one instance, `call[a]` the local variables of one
`advanceWorkflow()`: its position, `copy` (`updatedInstance`), the rest of
`runnableStepIds`, and `behind`, how many versions the copy is behind the row.
Every save compares versions, so what matters is not the number but the
difference; 2 stands for 2 or more, which is exact because no copy is bumped
more than once without being saved. `Continue` and `NextRound` compute a list,
`Step` takes its first element, and each action up to the next save is one of
`Assign`/`Refuse`, `Dispatch`/`Deny`, `Execute`, `Succeed`/`Fail`/`Throw`,
`FinishStep`, `Reload`, and `Complete`. `ConflictIsCaught` is a save
inside the `try` that finds a newer version: `Catch` then marks the step
failed on a copy that was bumped once without being stored, and saves it, which
passes the version check of a row that moved by exactly one. `Judge` is a
verdict from outside, `Pause`, `Resume`, `Cancel` the operators. `Crash` forgets
the calls. `moved` is a history variable: others have written since the list
was computed. Who is assigned a step and how a verdict is computed are free choices.

The repositories are those of SQLite. Every reader, caller or operator or verdict,
gets `findById`, which is `mapRowToInstance` of the row: without the verdicts. So
the row holds a verdict only until the next save of anybody. `mapRowToDefinition`
copies every field of a step but its `verificationRule`; that is why `DependencyDone`
asks for a completed step and no more, why `FinishStep` follows `Succeed` without a
verification, and why `Rules`, the steps that were saved with a rule, occurs in
`VerifiedFirst` only.

### 3.8 Oversight

Extends `WorkflowRuns` with requests, reviewers and the sweep. `Ask` is
`executeStep()` filing a request for a completed step that requires one,
`FileByHand` the HTTP route. `Open` reads the request, `Decide` is the segment
after the reviewer's policy has answered (state change and save, refused by
`DecideConflict` when the row moved), `Mark` the verdict on the step, `MarkLost`
its swallowed error. An approval judges its own payload, which without a rule always
passes; a rejection fails the step (`VerdictOf`). `Expire` works through a list read before. A request never
returns to a status, so comparing statuses is comparing versions.
`WorkflowMoves` is every action of `WorkflowRuns` but its crash, which takes
reviewers and sweep with it. Filing does not hold the workflow: a step goes on
when the request is stored, as in the code.

### 3.9 TriggerSchedule

`Tick`, `List`, then for each listed trigger that is due `Skip` (window already
marked), `ClaimRefused` or `Claim` (lease and active cycle granted, window
marked), `StartConflict` or `Dispatch`, `CycleThrows` or `CycleResolves`, and the
two halves of the trigger's save, `WriteRow`/`WriteConflict` after a look that
read the version. The upsert is separate from the look because it is a separate
await: between them another copy may be saved, and the later upsert wins.
`Settle` ends the firing; an error ends the whole tick. `Request` and `Change`
are an operator who fires, enables or disables a trigger. `Restart` gives an
instance an empty memory. `fired`, `dropped` and `recorded` are history
variables. Windows are seconds of `nextRunAt`; event and threshold triggers, whose
marks are event ids and not windows of a row, are left out. The `Clock` does not
reach the next window between the look and the upsert of a save: within one
process nothing but the event loop's queue lies between the two. Where several
processes write one row that is an assumption.

## 4. What TLC checks

| Run | Instance | Distinct states | Shows |
|---|---|---|---|
| `CoreRuntime_safety` | 2 tasks, 2 crashes, 1 refused startup, 1 throwing save, clock may step back | 24,720 | log and rows agree and read as a legal history; rows end in agreed pairs; no open row is inherited; acknowledged outcomes last; no upsert rewrites a terminal row; `TaskStore` is implemented; every row closes |
| `OperationRuns_safety` | 2 operations, 2 steps, plans of 1-3, 1 crash, 1 throw | 634 k | budget exact, cancellation honoured and prompt, `OperationStore` is implemented, every operation ends or its run rejects |
| `TeamBudget_safety` | 2 overlapping calls, limits 0-1, 3 grants, 3 reads | 898 k | where units go, status against counters, envelope, sealed suspensions |
| `AutonomousRuntime_safety` | 2 instances, 1 trigger, 2 calls at once and 4 in all, threshold 2 | 2.24 M | what the lease excludes, the tick flag, halts, the breaker |
| `PlanExecution_safety` | every plan of 3 steps | 168 k | `SagaContract` is implemented, order of undoing, verdicts, rejections, reports, termination |
| `WorkflowRuns_safety` | 2 calls, 3 steps (2 and 3 depend on 1), one retry each | 429 k | who may still save, what stands of decisions and records, when a step starts, attempts, completion |
| `Oversight_safety` | 1 call, 1 step with a retry, 1 request, 2 reviewers | 395 k | one marker, final decisions, none late, and `WorkflowRuns` is implemented |
| `TriggerSchedule_safety` | 1 instance, 2 triggers, 1 operator, 2 windows, 1 request, 1 refusal, 1 crash | 251 k | no window twice, none lost in silence, none brought back, none starved |

Four further runs (`CoreRuntime_clock`, `AutonomousRuntime_exclusion`,
`WorkflowRuns_livelock`, `WorkflowRuns_unverified`) each check one statement of
the repository's documentation that the code does not keep; see section 7. Type
invariants are proved, in every module, and are in no run.

**Bounds.** Each bound is a named constant and limits faults or work, never the
order of steps. Two crashes let a recovery meet rows that an earlier recovery
closed and calls of two generations; one abort and one throw each suffice to
interact with both crashes, since they leave no state but rows. Two tasks, two
operations and two calls are what pairwise interference needs: every
hazard listed is between two actors, and each actor's own path is complete.
Two steps in a budget with plans of three make "last step of the budget",
"plan longer" and "plan shorter" different cases. A limit of 0 or 1 with
requests of 1 and of 2 tokens reaches zero limits, exact fit and overshoot.
Three reads allow a chain of stale copies. Four daemon calls allow
a failure, a failure at the threshold, a halt and a restart, with two in
progress; a threshold of 2 keeps "one failure" and "at the threshold" apart.
Two `advanceWorkflow()` calls over three steps let one call work
through a list while the other, a verdict or an operator overtakes it; one
retry of the step others depend on takes a dependency back, and a retry of the others
lets an old list dispatch a step again. Two reviewers of one
request, and one step with a retry, are the races of oversight; a second step or
request multiplies the states beyond a few minutes without a new pair of
actors. Two windows, so that a trigger is due again after it was
recorded or dropped, and one operator beside one instance give every pair of
copies of a trigger row; instances share nothing here but the rows and the recorded
windows, and what they do to each other is proved for any number of them.
Three plan steps allow a chain, a fork, a join, and a middle step that differs
from both ends. The theorems remove all of these bounds for safety.

**Symmetry** is used for interchangeable calls, instances, requests and reviewers,
and only in runs without liveness or, where action properties are checked,
properties that treat the elements alike.

**Deadlock checking** is off in the runs of the first five components because
each instance really stops: bounded work is finished, or the bound on calls is
used up. It is on in the runs of workflows, oversight and triggers, where an
operator, a verdict or a tick can always come.

### Fairness

- `CoreRuntime`: `WF` on the statements of `execute()` (synchronous code runs on),
  `SF` on the strategy of each call (a promise that settles; strong, because other
  calls may hold the loop each time it is ready), `WF` on `Restart` (the
  supervisor restarts the process). No fairness on submitting, crashing or throwing.
- `OperationRuns`: `WF` on the segments of a run (planner, policy, budget and step
  promises settle) and on `Restart`; none on cancelling or failing.
- `PlanExecution`: `WF` on the engine's own code and on the settling of a step,
  which `invokeSecurely` races against a timer. None on `compensate()`, which
  the engine awaits without timer or token: `EveryCallSettles` excuses a call
  that waits for it for ever, and only that.
- `TriggerSchedule`: `WF` on the tick of each instance (`start()` sets an interval
  timer that ticks on, and what a tick awaits settles); none on operators, the
  clock or crashes.
- `WorkflowRuns_livelock`: `WF` on each call, so that the call in its
  counterexample goes round for ever and does not merely stop; the same
  specification in `WorkflowRuns_unverified`, whose counterexample needs none.
- `TeamBudget`, `AutonomousRuntime` and `Oversight` are checked for safety only.

## 5. What is proved

Every theorem is of the form `Spec => []P`, `Spec => [][A]_vars` or
`Spec => Abstract!Spec`, for any (also infinite) set of tasks, operations, calls,
instances or triggers and any bounds, from the named assumptions of the modules
only: bounds are naturals, `None` is not an element of the sets, requests are
vectors of naturals, a plan has at least one step. Two theorems count, and need
what they count to be finite: `AttemptsBoundedCorrect` the calls
(`CallsAreFinite`, assumed in `WorkflowRuns`), `TickComesToAnEndCorrect` the triggers.
Induction is on steps: `Init => IInv`, `IInv /\ [Next]_vars => IInv'`, `IInv => P`,
with one lemma per action or group.

- **CoreRuntime.** The inductive core is `RowsFollowCalls`: the program counter of
  a call determines the pair of rows it has stored. It is needed because the
  properties speak of rows while the code decides from locals: only through it
  does "an upsert never meets a terminal row" follow. From it: `TypeOK`,
  `FinalStatusesAgree`, `NoInheritedOpenRows`, `AcknowledgedOutcomeIsDurable`,
  `TerminalRowsAreImmutable`, `NotifiedUnlessRolledBack`, and the refinement
  `ImplementsTaskStore` (initial states map to initial states; `RefinesStep` maps every
  step to a step of `TaskStore` or a stutter). A second invariant, the log's last
  element is the row and each step appends a legal transition, gives
  `AuditLogIsLegal`. A third, `Level`, bounds
  the log by the status of the row: `HistoriesAreShort`, three events at most
  however often the process dies and recovers.
- **OperationRuns.** Per operation: `Lifecycles` (pc, row and token), `Statuses`,
  `Budgets` (`begun` is `used`, or one more while a step runs), `Cancellations`
  (what a flag at each await has already made impossible). From it:
  `TokenTracksRun`, `StepsWithinBudget`, `CancelIsHonoured`, `TerminalIsFinal`,
  `AcceptedIsAttended` (while the process is up no open operation is without a run),
  and, action by action, `ImplementsOperationStore`.
- **TeamBudget.** What holds of the row must hold of every copy about to be
  saved: `CopiesAgree` and `CopiesAccounted` say so, `exposed` makes the second
  inductive, `SealedState` says that under a sealed suspension no copy
  exists. From it all four safety properties.
- **AutonomousRuntime.** `Shape` (what a call holds at each pc), `HolderOwns` (a call
  that has not lost its lease owns it), `TickInv`, `QuietInv` (after a quiet halt
  every call in progress is one that can dispatch nothing) and `ThresholdInv` (no
  copy of the state row that could still be saved says RUNNING at the threshold).
  From it all four safety properties.
- **PlanExecution.** Twelve conjuncts about the records the engine keeps: where the
  loop is, what is behind and ahead of it, how the saga follows the call, what
  the stack says of completed steps, and that the walk is LIFO (`Lifo`); effects
  and reports follow. From it `TypeOK` and the safety properties for plans of
  any length. The refinement `ImplementsSagaContract` needs `Recorded` besides: a
  completed step has left its effect, a saga that was not told of a failure is at
  the end of the loop, and only a failed compensation ends the walk early.
  `EffectsFollowDependencies` is proved on its own, and is no longer in a run because
  the contract implies it. `ReturnedIsCompensated` is the part of the engine's
  invariant 7 that holds: a call that returns keeps it; one that rejects does not, and
  `RejectionsLeaveEverything` says when that is and what it leaves.
- **WorkflowRuns.** `Good` says what the locals of a call are worth against the row:
  while it is not behind its copy is what a read of the row returns (the row without
  its verdicts), and a list nobody has overtaken
  names steps runnable in the row. A write by another makes the call behind and
  its list overtaken, so one lemma covers every foreign write. From it
  `OneWriter`, `DecisionsStand`, `RecordsStand`, `DependenciesGate`,
  `CompletedWhole`, with no bound on steps or calls. `AttemptsBounded` is not
  inductive: a call that holds an old list may dispatch a step once more, so
  `Budgeted` counts the attempts in the row together with the calls that still hold
  the step (`Holders`). That needs `AllArmed` (a step that is pending, in the row or
  in a copy, has an attempt left), `NoneAhead` (a copy the catch block could still save
  records no attempt that the row lacks) and `OneTry` (one call at a time can come to
  that save), which is a theorem of its own.
- **Oversight.** `MarkerWon` is inductive once it is known that a reviewer who is
  marking has a request and an operation (`Engaged`); the conflict check of the
  save is what preserves it. From it `DecisionsAreFinal` and `NoLateDecision`.
  `OversightImplements` proves `OversightSpec => WorkflowRuns!Spec` step by step, and
  `WorkflowUnderOversight` draws the conclusion: all that is proved of a workflow
  holds with any number of requests, reviewers and sweeps around it.
- **TriggerSchedule.** What a tick carries from one await to the next (the window
  it is firing has come, is marked, was not dispatched), and what any save is
  about to store (disabled, or a window in the future). No marked and no
  recorded window is in the future, so no save brings one back. From it
  `OncePerWindow`, `SkippedOnlyByFailure`, `RecordedStaysClosed`.

**Progress, as far as steps can say it.** Liveness has a safety half: a measure in
the naturals that every step of a call lowers, so that a call cannot go round for
ever, and the fact that a call which has not ended can be resumed. Proved are:
a call of `execute()` runs at most seven statements, the catch block included
(`CallComesToAnEnd`); a run of an operation is resumed at most `3 * MaxSteps + 2`
times whatever its plan (`RunsComeToAnEnd`); every step of a call of `executePlan()`
but the one cancellation lowers its measure (`CallComesToAnEnd`) and it is never
stuck (`NeverStuck`); a tick takes each listed trigger once, five steps at most
each (`TickComesToAnEnd`). These have no run: with the fairness of section 4 they
are what the liveness properties below rest on.

**Only model-checked:** the liveness properties themselves (`EveryRowCloses`,
`EveryOperationEnds`, `EveryCallSettles`, `NoWindowStarves`), since fairness and ENABLED
are out of the prover's reach, and the four violations (one of them,
`DownProcessRestarts`, is a liveness property too), which are counterexamples. Every
invariant and every action property of a passing run, and all four refinements,
are proved.

## 6. Properties worth a second look

- `FinalPairs`: a COMPLETED execution may end with a FAILED task (the process died,
  or the save threw, between the two final transactions); the converse cannot happen.
- `CancelIsHonoured`: a cancelled run does not complete, and a cancellation while the
  team budget or the policy is awaited lets exactly the step being authorised begin;
  any other, none.
- `ConsumptionIsAccounted`, `EnvelopeHolds`: the term `exposed` is the price of the
  blind saves. `src/docs/decisions/0028-team-resource-budget-governance.md:56`
  ("prevents over-quota execution") makes no such exception, and the version
  that `:31` speaks of is not compared by `save()`.
- `ExclusionUnlessLost`: across instances the lease is as good as its holder's hold on
  it; the ways to lose it are enumerated in the comment. Inside one instance it
  excludes nothing.
- `QuietHaltHolds`: the guarantee needs "no other call in progress". Otherwise a
  cycle that fails after a conflict writes its stale state with a fresh version
  and may win against a pause, a stop or a safety halt.
- `CompensatedLeavesOnly`: a saga that reports COMPENSATED may leave what the failed
  step itself did, and the effects of steps that cannot be compensated, as soon
  as one other step was.

- `NotifiedUnlessRolledBack`: a live save publishes after its commit, the recovery
  before its own, so one rolled-back startup is enough to have told subscribers
  what never happened; without one they never hear of anything that is not stored.
- `DecisionsStand`, `RecordsStand`: the exceptions are the content. The version check
  protects the row from every stale call but one: the catch block of
  `executeStep()`, whose copy was bumped without being stored. A failing verdict
  from outside rewrites an instance that has ended. `RecordsStand` speaks of attempts and
  completed steps; of verdicts nothing of the kind is true, as any save erases them.
- `DependenciesGate`: what the gate holds back is a step whose dependencies are not
  completed; that they were verified is `VerifiedFirst`, which fails. The list of
  runnable steps is not looked at again after an await, so a call that others have
  overtaken starts steps twice or too early.
- `StatusAgreesWithCounters` leaves limits of zero out: there `isExhausted()` and
  `consume()` disagree on the status of the same counters
  (`team-resource-budget.ts:293`), and no document says which is right.
- `MarkerWon`: the other direction does not hold. The decision is stored before the
  step is marked and the error of the marking is swallowed, so an APPROVED request
  may have a step that nobody will mark.
- `SkippedOnlyByFailure`: a cycle that fails once silences its trigger for that
  process, since the window stays marked and only a success moves `nextRunAt`.

## 7. Where code and documents disagree

| Run | Statement | What the code does |
|---|---|---|
| `CoreRuntime_clock` | ADR 0020:109, clean startup after any crash | a backward clock step during an execution is stored and then refused by `rehydrate()`: every later startup throws |
| `AutonomousRuntime_exclusion` | `runtime-lease.ts:5`, mutual exclusion without double execution | `acquire()` grants the lease again to its owner, so two calls of one instance run the same cycle |
| `WorkflowRuns_livelock` | ADR 0032:34, bounded step retries | only a dispatch counts an attempt: with retries configured, a step that is refused or denied each time keeps `advanceWorkflow()` going round |
| `WorkflowRuns_unverified` | ADR 0033:34, dependents wait for the PASS of what they depend on | `mapRowToDefinition()` drops the rules and `mapRowToInstance()` the verdicts (`sqlite-workflow-repository.ts:93`, `:258`): under SQLite a completed step is enough, nothing is verified by the workflow itself, and a verdict from outside is erased by the next save |

Shown by the models as the exceptions of properties that do hold, or as steps, and
without a run of their own:

- ADR 0021:51, subscribers are notified only after the commit: `reconcile()`
  publishes inside its transaction (`restart-recovery-service.ts:96`).
- ADR 0015:272, an operation interrupted in a step is FAILED: its row never says
  RUNNING (`autonomous-operation-service.ts:159`), so the recovery (`:278`) records
  it CANCELLED although steps have run.
- ADR 0028:19, a suspended budget rejects: a limit update that read the budget before
  the suspension saves it ACTIVE again (`team-resource-budget-service.ts:130`).
- ADR 0034, workflows pause for authorization: `executeStep()` files the request and
  goes on; dependents do not look at the approval.
- `plan-execution-engine.ts:82` (invariant 7), a failed step leads to the compensation
  of all completed steps: a refused step (`:231`), or a second step settling after a
  failure (`:312`, `:357`), makes `executePlan()` reject with nothing compensated and
  no report (`:388`). `RejectionsLeaveEverything` states exactly that; the theorem
  `ReturnedIsCompensatedCorrect` is what remains of the invariant.
- `plan-execution-engine.ts:77` (invariant 2), dependents of a failed step are SKIPPED:
  a refused step ends the loop at once, and in the report of a call without saga its
  dependents stay PENDING; `ReportAgreesWithSteps` admits that.
- ADR 0039:26, windows are not executed twice: the marks are in the memory of one
  instance, and are gone when it restarts.

Further: ADR 0020's case F names the
recovery code ORPHAN_TASK while the code always records CRASH_RECOVERY;
`src/docs/ARCHITECTURE.md:90` claims version checks that the upserts of tasks and
executions do not make; `reconcileState()` of the daemon has no caller, so after
a crash a row that says RUNNING makes `start()` return without a timer; a
conflict inside `stop()` leaves `isShuttingDown` set; a cancellation between the
loop's check and the start of a tool makes a plan FAILED rather than CANCELLED;
`WorkflowDefinition.activate()` and `archive()` (`workflow-definition.ts:200`) keep the
version that the SQLite `save()` expects to have grown
(`sqlite-workflow-repository.ts:152`), so a stored DRAFT cannot be activated: the
models start from an ACTIVE definition and leave this out.

## 8. What the models leave out

Contents of tasks, plans, messages and reports; wall-clock durations (a lease or a
timer may end at any moment); crashes inside a SQLite transaction other than as
a rollback; corruption of the file; authentication and tenancy checks; the
in-memory repositories, which differ in that nothing survives a crash; the one of
workflows keeps verdicts and rules but also accepts a save that did not raise the
version (`in-memory-workflow-repository.ts:57`), a different protocol. Each model
takes its environment (strategies, planners, policies, tools, executive cycles)
as a free choice among the outcomes the calling code distinguishes.
