----------------------------- MODULE PlanExecution -----------------------------
(***************************************************************************)
(* One call of PlanExecutionEngine.executePlan and its SagaExecution: the  *)
(* steps of a plan run in order, each after the steps it depends on; when  *)
(* one fails, the completed steps that can be compensated are compensated  *)
(* in reverse order.                                                       *)
(*                                                                         *)
(* The engine keeps no state between calls, so one call is the system.     *)
(* Everything between two awaits is synchronous; the caller can cancel the *)
(* token, and tools settle, only while a tool or a compensation is awaited *)
(* (pc is "running" or "compensating").                                    *)
(***************************************************************************)
EXTENDS Naturals

CONSTANT N  \* number of steps of the plan

ASSUME NAssumption == N \in Nat \ {0}

Steps == 1..N

\* How saga.registerCompletedStep() will classify a step: a tool that only reads,
\* a tool with a compensate() handler or a compensation action, a step whose
\* metadata claims compensable without either, and any other tool.
Kinds == {"reader", "handler", "claimed", "plain"}
Compensable == {"handler", "claimed"}

VARIABLES
  deps, kind,   \* the plan: deps[i] the steps i depends on
  partial,      \* option allowPartialBranchFailure
  pc, next,     \* position in executePlan; next step of the forward loop
  status,       \* status[i]: stepRecords
  planFailed, planCancelled,
  cancelled,    \* cancellationToken.isCancelled
  saga,         \* SagaExecution.state, "NONE" without enableSagaCompensation
  comp,         \* comp[i]: status of i on the compensation stack, "NONE" if absent
  effect,       \* effect[i]: what i has done to the outside world
  report        \* status of the report returned, "NONE" before

plan == <<deps, kind, partial>>
vars == <<deps, kind, partial, pc, next, status, planFailed, planCancelled,
          cancelled, saga, comp, effect, report>>

Init ==
  \* Plan and PlanValidator: dependencies strictly precede the step.
  /\ deps \in {d \in [Steps -> SUBSET Steps] : \A i \in Steps : \A j \in d[i] : j < i}
  /\ kind \in [Steps -> Kinds]
  /\ partial \in BOOLEAN /\ cancelled \in BOOLEAN
  /\ saga \in {"NONE", "RUNNING"}
  /\ pc = "loop" /\ next = 1
  /\ status = [i \in Steps |-> "PENDING"]
  /\ planFailed = FALSE /\ planCancelled = FALSE
  /\ comp = [i \in Steps |-> "NONE"] /\ effect = [i \in Steps |-> "none"]
  /\ report = "NONE"

--------------------------------------------------------------------------------
(* The forward loop.                                                           *)

AtStep(i) == pc = "loop" /\ next = i /\ i \in Steps
Cancelling == cancelled \/ planCancelled

\* Wrong variant: a dependency only has to be over.
RunnableWhenOver(i) == ~Cancelling /\ \A j \in deps[i] : status[j] # "PENDING"

Runnable(i) == ~Cancelling /\ \A j \in deps[i] : status[j] = "COMPLETED"

CancelStep(i) ==
  /\ AtStep(i) /\ Cancelling
  /\ planCancelled' = TRUE
  /\ status' = [status EXCEPT ![i] = "CANCELLED"]
  /\ next' = i + 1
  /\ UNCHANGED <<plan, pc, planFailed, cancelled, saga, comp, effect, report>>

SkipStep(i) ==
  /\ AtStep(i) /\ ~Cancelling /\ ~Runnable(i)
  /\ status' = [status EXCEPT ![i] = "SKIPPED"]
  /\ next' = i + 1
  /\ UNCHANGED <<plan, pc, planFailed, planCancelled, cancelled, saga, comp, effect, report>>

\* The bound input would put tainted data under a control key: the loop ends, in
\* both modes, with the later steps PENDING and without saga.failForward().
RefuseStep(i) ==
  /\ AtStep(i) /\ Runnable(i)
  /\ status' = [status EXCEPT ![i] = "FAILED"]
  /\ planFailed' = TRUE
  /\ next' = N + 1
  /\ UNCHANGED <<plan, pc, planCancelled, cancelled, saga, comp, effect, report>>

StartStep(i) ==
  /\ AtStep(i) /\ Runnable(i)
  /\ status' = [status EXCEPT ![i] = "RUNNING"]
  /\ pc' = "running"
  /\ UNCHANGED <<plan, next, planFailed, planCancelled, cancelled, saga, comp, effect, report>>

Awaited(i) == pc = "running" /\ next = i /\ i \in Steps

Registered(k) ==
  CASE k = "reader" -> "READ_ONLY" [] k = "plain" -> "NOT_COMPENSABLE" [] OTHER -> "PENDING"

Done(i) == effect' = [effect EXCEPT ![i] = IF kind[i] = "reader" THEN "none" ELSE "applied"]

StepCompletes(i) ==
  /\ Awaited(i) /\ saga \in {"NONE", "RUNNING"}
  /\ status' = [status EXCEPT ![i] = "COMPLETED"]
  /\ comp' = IF saga = "NONE" THEN comp ELSE [comp EXCEPT ![i] = Registered(kind[i])]
  /\ Done(i)
  /\ pc' = "loop" /\ next' = i + 1
  /\ UNCHANGED <<plan, planFailed, planCancelled, cancelled, saga, report>>

\* After an earlier failure the saga refuses to register the step; the catch
\* block records it as FAILED, and its own failForward() throws out of the call.
StepCompletesTooLate(i) ==
  /\ Awaited(i) /\ saga = "FORWARD_FAILED"
  /\ status' = [status EXCEPT ![i] = "FAILED"]
  /\ planFailed' = TRUE
  /\ Done(i)
  /\ pc' = "rejected"
  /\ UNCHANGED <<plan, next, planCancelled, cancelled, saga, comp, report>>

\* The tool throws, is refused, times out or returns a result that is refused:
\* it may have done its work all the same.
Attempted(i) ==
  \/ UNCHANGED effect
  \/ Done(i)

AfterFailure(i) ==
  [j \in Steps |-> IF j = i THEN "FAILED"
                   ELSE IF ~partial /\ status[j] = "PENDING" THEN "SKIPPED" ELSE status[j]]

\* Wrong variant: the loop goes on as if partial failures were always allowed.
StepAfterFailureAlways(i) == i + 1

StepAfterFailure(i) == IF partial THEN i + 1 ELSE N + 1

StepFails(i) ==
  /\ Awaited(i) /\ saga \in {"NONE", "RUNNING"}
  /\ status' = AfterFailure(i)
  /\ planFailed' = TRUE
  /\ saga' = IF saga = "NONE" THEN saga ELSE "FORWARD_FAILED"
  /\ Attempted(i)
  /\ pc' = "loop" /\ next' = StepAfterFailure(i)
  /\ UNCHANGED <<plan, planCancelled, cancelled, comp, report>>

\* A second failure: saga.failForward() throws inside the catch block.
StepFailsAgain(i) ==
  /\ Awaited(i) /\ saga = "FORWARD_FAILED"
  /\ status' = [status EXCEPT ![i] = "FAILED"]
  /\ planFailed' = TRUE
  /\ Attempted(i)
  /\ pc' = "rejected"
  /\ UNCHANGED <<plan, next, planCancelled, cancelled, saga, comp, report>>

Cancel ==
  /\ pc \in {"running", "compensating"} /\ ~cancelled
  /\ cancelled' = TRUE
  /\ UNCHANGED <<plan, pc, next, status, planFailed, planCancelled, saga, comp, effect, report>>

--------------------------------------------------------------------------------
(* Compensation.  The stack is walked from its top, which is the last step      *)
(* completed because the loop runs the steps in order.                          *)

ForwardEnded == pc = "loop" /\ next = N + 1

StartCompensation ==
  /\ ForwardEnded /\ planFailed /\ saga = "FORWARD_FAILED"
  /\ saga' = "COMPENSATING" /\ pc' = "unwinding"
  /\ UNCHANGED <<plan, next, status, planFailed, planCancelled, cancelled, comp, effect, report>>

\* A refused step never told the saga: startCompensation() throws.
CompensationRefused ==
  /\ ForwardEnded /\ planFailed /\ saga = "RUNNING"
  /\ pc' = "rejected"
  /\ UNCHANGED <<plan, next, status, planFailed, planCancelled, cancelled, saga, comp, effect, report>>

ToCompensate == {i \in Steps : comp[i] = "PENDING"}

\* Wrong variant: the stack is walked from its bottom.
IsNextToUndoFifo(i) == i \in ToCompensate /\ \A j \in ToCompensate : i <= j

IsNextToUndo(i) == i \in ToCompensate /\ \A j \in ToCompensate : j <= i

BeginCompensation(i) ==
  /\ pc = "unwinding" /\ IsNextToUndo(i) /\ kind[i] = "handler"
  /\ comp' = [comp EXCEPT ![i] = "RUNNING"]
  /\ pc' = "compensating"
  /\ UNCHANGED <<plan, next, status, planFailed, planCancelled, cancelled, saga, effect, report>>

\* No handler and no compensation action: the throw is caught as a failure.
CompensationMissing(i) ==
  /\ pc = "unwinding" /\ IsNextToUndo(i) /\ kind[i] = "claimed"
  /\ comp' = [comp EXCEPT ![i] = "FAILED"]
  /\ pc' = "finishing"
  /\ UNCHANGED <<plan, next, status, planFailed, planCancelled, cancelled, saga, effect, report>>

CompensationSucceeds(i) ==
  /\ pc = "compensating" /\ comp[i] = "RUNNING"
  /\ comp' = [comp EXCEPT ![i] = "COMPENSATED"]
  /\ effect' = [effect EXCEPT ![i] = "reverted"]
  /\ pc' = "unwinding"
  /\ UNCHANGED <<plan, next, status, planFailed, planCancelled, cancelled, saga, report>>

\* The walk stops at the first compensation that fails; a time-out or an unknown
\* outcome is IN_DOUBT, any other error FAILED.
CompensationFails(i) ==
  /\ pc = "compensating" /\ comp[i] = "RUNNING"
  /\ \E s \in {"FAILED", "IN_DOUBT"} : comp' = [comp EXCEPT ![i] = s]
  /\ effect' = [effect EXCEPT ![i] = "unknown"]
  /\ pc' = "finishing"
  /\ UNCHANGED <<plan, next, status, planFailed, planCancelled, cancelled, saga, report>>

--------------------------------------------------------------------------------
(* The end of the call.                                                         *)

Some(s) == \E i \in Steps : status[i] = s

\* Wrong variant: failures are looked for before the cancellation.
ReportStatusFailedFirst ==
  IF Some("FAILED") THEN "FAILED" ELSE IF planCancelled THEN "CANCELLED" ELSE "COMPLETED"

ReportStatus ==
  IF planCancelled THEN "CANCELLED"
  ELSE IF ~Some("FAILED") /\ ~Some("SKIPPED") THEN "COMPLETED"
  ELSE IF partial /\ Some("COMPLETED") /\ Some("FAILED") THEN "PARTIALLY_FAILED"
  ELSE "FAILED"

InSaga(S) == \E i \in Steps : comp[i] \in S

\* Wrong variant: only failures are looked for.
SagaOutcomeOptimistic == IF InSaga({"FAILED"}) THEN "COMPENSATION_FAILED" ELSE "COMPENSATED"

\* finishCompensation(): steps that cannot be compensated count only when there
\* is no other.
SagaOutcome ==
  IF ~InSaga({"PENDING", "RUNNING", "COMPENSATED", "FAILED", "IN_DOUBT"})
  THEN IF InSaga({"NOT_COMPENSABLE"}) THEN "IN_DOUBT" ELSE "COMPENSATED"
  ELSE IF InSaga({"IN_DOUBT"}) THEN "IN_DOUBT"
  ELSE IF InSaga({"FAILED"}) THEN "COMPENSATION_FAILED"
  ELSE IF ~InSaga({"PENDING", "RUNNING"}) THEN "COMPENSATED" ELSE "IN_DOUBT"

Return(sagaState) ==
  /\ saga' = sagaState
  /\ report' = ReportStatus
  /\ pc' = "returned"
  /\ UNCHANGED <<plan, next, status, planFailed, planCancelled, cancelled, comp, effect>>

\* Wrong variant: the call is only ended once nothing is left to compensate.
FinishCompensationIfEmpty ==
  pc = "unwinding" /\ ToCompensate = {} /\ Return(SagaOutcome)

FinishCompensation ==
  /\ pc = "finishing" \/ (pc = "unwinding" /\ ToCompensate = {})
  /\ Return(SagaOutcome)

\* saga.completeForward(), also when the plan was cancelled half-way.
CompleteForward == ForwardEnded /\ ~planFailed /\ saga = "RUNNING" /\ Return("COMPLETED")

ReturnWithoutSaga == ForwardEnded /\ saga = "NONE" /\ Return("NONE")

--------------------------------------------------------------------------------
EngineStep ==
  \/ \E i \in Steps : \/ CancelStep(i) \/ SkipStep(i) \/ RefuseStep(i) \/ StartStep(i)
                      \/ BeginCompensation(i) \/ CompensationMissing(i)
  \/ StartCompensation \/ CompensationRefused
  \/ FinishCompensation \/ CompleteForward \/ ReturnWithoutSaga
StepSettles ==
  \E i \in Steps : \/ StepCompletes(i) \/ StepCompletesTooLate(i)
                   \/ StepFails(i) \/ StepFailsAgain(i)
CompensationSettles == \E i \in Steps : CompensationSucceeds(i) \/ CompensationFails(i)

Next == EngineStep \/ StepSettles \/ CompensationSettles \/ Cancel

Spec == Init /\ [][Next]_vars

\* Code between awaits runs on; a tool settles because invokeSecurely() races it
\* with a timer.  compensate() is awaited directly, with no timer: no fairness.
FairSpec == Spec /\ WF_vars(EngineStep) /\ WF_vars(StepSettles)

--------------------------------------------------------------------------------
(* Properties.                                                                  *)

StepStatuses == {"PENDING", "RUNNING", "COMPLETED", "FAILED", "SKIPPED", "CANCELLED"}
CompStatuses == {"NONE", "NOT_COMPENSABLE", "READ_ONLY", "PENDING", "RUNNING",
                 "COMPENSATED", "FAILED", "IN_DOUBT"}
SagaOutcomes == {"COMPENSATED", "COMPENSATION_FAILED", "IN_DOUBT"}

\* Every variable keeps its shape.
TypeOK ==
  /\ deps \in [Steps -> SUBSET Steps] /\ kind \in [Steps -> Kinds] /\ partial \in BOOLEAN
  /\ pc \in {"loop", "running", "unwinding", "compensating", "finishing", "returned", "rejected"}
  /\ next \in 1..(N + 1)
  /\ status \in [Steps -> StepStatuses]
  /\ planFailed \in BOOLEAN /\ planCancelled \in BOOLEAN /\ cancelled \in BOOLEAN
  /\ saga \in {"NONE", "RUNNING", "FORWARD_FAILED", "COMPENSATING", "COMPLETED"} \union SagaOutcomes
  /\ comp \in [Steps -> CompStatuses]
  /\ effect \in [Steps -> {"none", "applied", "reverted", "unknown"}]
  /\ report \in {"NONE", "COMPLETED", "FAILED", "CANCELLED", "PARTIALLY_FAILED"}

\* A step that has touched the outside world did so after every step it depends
\* on had succeeded, and what it built on still counts as a success.
EffectsFollowDependencies ==
  \A i \in Steps : effect[i] # "none" => \A j \in deps[i] : status[j] = "COMPLETED"

\* The compensations run against the dependencies: while the effect of a step
\* that can be undone is in place, no step it built on has been undone.
UndoneAfterDependents ==
  \A i \in Steps : \A j \in deps[i] :
    effect[j] \in {"reverted", "unknown"} /\ kind[i] \in Compensable /\ status[i] = "COMPLETED"
      => effect[i] = "reverted"

\* What a report whose saga is COMPENSATED leaves in place: what a failed step did
\* before it failed, and what steps that cannot be compensated did when another
\* step was compensated.  Any other effect is undone.
CompensatedLeavesOnly ==
  pc = "returned" /\ saga = "COMPENSATED" =>
    \A i \in Steps :
      \/ effect[i] \in {"none", "reverted"}
      \/ effect[i] = "applied" /\ status[i] = "FAILED"
      \/ effect[i] = "applied" /\ kind[i] = "plain"
           /\ \E j \in Steps : comp[j] = "COMPENSATED"

\* executePlan() rejects only with a saga, either because a step settled after
\* another had failed (which takes allowPartialBranchFailure) or because a step
\* was refused; nothing has been compensated then, which is where the engine breaks its
\* documented invariant 7.
RejectionsLeaveEverything ==
  pc = "rejected" =>
    /\ saga = "FORWARD_FAILED" => partial
    /\ saga \in {"RUNNING", "FORWARD_FAILED"} /\ planFailed
    /\ \A i \in Steps : effect[i] \in {"none", "applied"}

\* The status of a report and its steps say the same, and with the saga's state:
\* a plan reported COMPLETED has run every step, one reported CANCELLED has
\* cancelled a suffix of its steps, any other has a failed step; without partial
\* failures nothing runs after it; and a failed plan with a saga was compensated.
ReportAgreesWithSteps ==
  report # "NONE" =>
    /\ report = "COMPLETED" => \A i \in Steps : status[i] = "COMPLETED"
    /\ report = "CANCELLED" =>
         \A i, j \in Steps : i < j /\ status[i] = "CANCELLED" => status[j] = "CANCELLED"
    /\ report \in {"FAILED", "PARTIALLY_FAILED"} => Some("FAILED") /\ ~Some("CANCELLED")
    /\ ~partial => \A i, j \in Steps : i < j /\ status[i] = "FAILED"
                                         => status[j] \in {"PENDING", "SKIPPED"}
    /\ saga \in {"NONE", "COMPLETED"} \union SagaOutcomes
    /\ saga \in SagaOutcomes <=> Some("FAILED") /\ saga # "NONE"

\* Every call settles, unless it waits for ever for a compensation to answer.
EveryCallSettles == <>(pc \in {"returned", "rejected"}) \/ <>[](pc = "compensating")

\* What a call does to the world, and what its caller is told of it.
Undoable == {i \in Steps : kind[i] \in Compensable}
Silent == {i \in Steps : kind[i] = "reader"}
Built == {i \in Steps : status[i] = "COMPLETED"}
Broken == {i \in Steps : status[i] = "FAILED"}
Phase == CASE pc \in {"loop", "running"} -> "forward"
           [] pc \in {"unwinding", "compensating"} -> "backward"
           [] pc = "finishing" -> "stopped"
           [] OTHER -> "over"
Told == CASE pc = "rejected" -> "REJECTED"
          [] pc = "returned" -> IF saga = "NONE" THEN "REPORTED" ELSE saga
          [] OTHER -> "NONE"
Contract == INSTANCE SagaContract WITH
  undoable <- Undoable, silent <- Silent, guarded <- saga # "NONE",
  built <- Built, failed <- Broken, phase <- Phase, answer <- Told

\* Every call of executePlan keeps the contract: no tool is called twice or before what
\* its step builds on, no effect is undone before those built on it, none is made or
\* undone after the answer, and the answer is true of the effects.
ImplementsSagaContract == Contract!Spec
================================================================================
