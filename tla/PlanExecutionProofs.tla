-------------------------- MODULE PlanExecutionProofs --------------------------
(***************************************************************************)
(* Proofs about PlanExecution, for plans of any length.                    *)
(*                                                                         *)
(* The properties speak of effects and reports; the induction is about the *)
(* records the engine keeps: which steps the loop has passed (Positions,   *)
(* DependenciesDone, Flags, Suffix, Break), how far the saga is            *)
(* (SagaFollowsCall), and what its stack says of the completed steps       *)
(* (Stack, Lifo, Effects).                                                 *)
(***************************************************************************)
EXTENDS PlanExecution, TLAPS, FiniteSetTheorems

Ordered == \A i \in Steps : \A j \in deps[i] : j < i

\* The loop has not touched the steps ahead of it, and runs one step at a time.
Positions ==
  /\ pc = "running" => next \in Steps /\ status[next] = "RUNNING" /\ ~planCancelled
  /\ \A i \in Steps : status[i] = "RUNNING" => pc = "running" /\ i = next
  /\ \A i \in Steps : i > next \/ (i = next /\ pc = "loop") => status[i] = "PENDING"
  /\ pc \in {"unwinding", "compensating", "finishing", "returned"} => next = N + 1

DependenciesDone ==
  \A i \in Steps : status[i] \in {"RUNNING", "COMPLETED", "FAILED"}
                     => \A j \in deps[i] : status[j] = "COMPLETED"

Flags ==
  /\ planFailed <=> Some("FAILED")
  /\ planCancelled <=> Some("CANCELLED")
  /\ \A i \in Steps : i < next /\ status[i] = "PENDING" => planFailed
  /\ Some("SKIPPED") => planFailed \/ planCancelled

Suffix ==
  \A i, j \in Steps : i < j /\ j < next /\ status[i] = "CANCELLED" => status[j] = "CANCELLED"

\* Without partial failures the first failure ends the loop.
Break ==
  ~partial =>
    /\ planFailed => pc # "running" /\ next = N + 1
    /\ \A i, j \in Steps : i < j /\ status[i] = "FAILED" => status[j] \in {"PENDING", "SKIPPED"}

SagaFollowsCall ==
  /\ pc \in {"loop", "running"} => saga \in {"NONE", "RUNNING", "FORWARD_FAILED"}
  /\ pc \in {"unwinding", "compensating", "finishing"} => saga = "COMPENSATING" /\ planFailed
  /\ pc = "rejected" => saga \in {"RUNNING", "FORWARD_FAILED"} /\ planFailed
  /\ pc = "rejected" /\ saga = "FORWARD_FAILED" => partial
  /\ saga = "FORWARD_FAILED" => planFailed
  /\ report # "NONE" => pc = "returned"
  /\ pc = "returned" => /\ saga \in {"NONE", "COMPLETED"} \union SagaOutcomes
                        /\ saga \in SagaOutcomes <=> planFailed /\ saga # "NONE"

\* The stack records the completed steps, each by its kind.
Undone == {"RUNNING", "COMPENSATED", "FAILED", "IN_DOUBT"}
Stack ==
  /\ saga = "NONE" => \A i \in Steps : comp[i] = "NONE"
  /\ \A i \in Steps : comp[i] # "NONE" => status[i] = "COMPLETED"
  /\ \A i \in Steps : status[i] = "COMPLETED" /\ saga # "NONE" => comp[i] # "NONE"
  /\ \A i \in Steps : /\ comp[i] = "READ_ONLY" => kind[i] = "reader"
                      /\ comp[i] = "NOT_COMPENSABLE" => kind[i] = "plain"
                      /\ comp[i] \in Undone \union {"PENDING"} => kind[i] \in Compensable
  /\ pc \in {"loop", "running", "rejected"} => \A i \in Steps : comp[i] \notin Undone

\* Above a step the walk has reached there is nothing left to compensate.
Lifo ==
  /\ \A i, j \in Steps : j < i /\ comp[j] \in Undone => comp[i] \notin {"PENDING", "RUNNING", "FAILED", "IN_DOUBT"}
  /\ \A i \in Steps : comp[i] = "RUNNING" => pc = "compensating"
  /\ \A i \in Steps : comp[i] \in {"FAILED", "IN_DOUBT"} => pc \in {"finishing", "returned"}

Effects ==
  \A i \in Steps : /\ effect[i] # "none" => status[i] \in {"COMPLETED", "FAILED"}
                   /\ effect[i] = "applied" => kind[i] # "reader"
                   /\ effect[i] = "reverted" <=> comp[i] = "COMPENSATED"
                   /\ effect[i] = "unknown" => comp[i] \in {"FAILED", "IN_DOUBT"}

ReportIsStatus == report # "NONE" => report = ReportStatus

IInv == /\ TypeOK /\ Ordered /\ Positions /\ DependenciesDone /\ Flags /\ Suffix /\ Break
        /\ SagaFollowsCall /\ Stack /\ Lifo /\ Effects
        /\ CompensatedLeavesOnly /\ ReportIsStatus

--------------------------------------------------------------------------------
\* A cancelled step extends the cancelled suffix.
LEMMA CancelStepKeeps ==
  ASSUME IInv, NEW i \in Steps, CancelStep(i)
  PROVE  IInv'
<1>1. Ordered' /\ SagaFollowsCall' /\ Lifo'
  BY DEF IInv, CancelStep, plan, Ordered, SagaFollowsCall, Lifo, Some
<1>2. TypeOK'
  BY NAssumption DEF IInv, Steps, plan, CancelStep, AtStep, Cancelling, TypeOK, StepStatuses,
         CompStatuses, SagaOutcomes, Kinds
<1>3. Positions'
  BY NAssumption DEF IInv, Steps, plan, CancelStep, AtStep, Cancelling, TypeOK, Positions
<1>4. DependenciesDone'
  BY DEF IInv, Steps, plan, CancelStep, AtStep, Cancelling, TypeOK, Ordered, Positions,
         DependenciesDone, Flags
<1>5. Flags'
  BY NAssumption DEF IInv, Steps, plan, CancelStep, AtStep, Cancelling, TypeOK, Ordered, Positions,
         Flags, Break, SagaFollowsCall, Some
<1>6. Suffix'
  <2> SUFFICES ASSUME NEW j \in Steps, NEW k \in Steps, j < k, k < next', status'[j] = "CANCELLED"
               PROVE  status'[k] = "CANCELLED"
    BY DEF Suffix
  <2>1. next = i /\ next' = i + 1 /\ status' = [status EXCEPT ![i] = "CANCELLED"]
    BY DEF CancelStep, AtStep
  <2>2. k = i \/ k < next BY <2>1 DEF Steps
  <2>3. CASE k = i BY <2>1, <2>3 DEF IInv, TypeOK
  <2>4. CASE k < next
    <3>1. j # i /\ k # i BY <2>1, <2>4 DEF Steps
    <3> QED BY <2>1, <2>4, <3>1 DEF IInv, TypeOK, Suffix
  <2> QED BY <2>2, <2>3, <2>4
<1>7. Break'
  <2>1. ~partial => ~planFailed BY NAssumption DEF IInv, Break, CancelStep, AtStep, Steps
  <2>2. ~partial => \A k \in Steps : status[k] # "FAILED" BY <2>1 DEF IInv, Flags, Some
  <2>3. \A k \in Steps : status'[k] = "FAILED" => status[k] = "FAILED" BY DEF IInv, TypeOK, CancelStep
  <2>4. partial' = partial /\ planFailed' = planFailed BY DEF CancelStep, plan
  <2> QED BY <2>1, <2>2, <2>3, <2>4 DEF Break
<1>8. Stack'
  BY DEF IInv, Steps, plan, CancelStep, AtStep, Cancelling, TypeOK, Positions,
         SagaFollowsCall, Stack, Lifo, Undone, Compensable, Kinds
<1>9. Effects'
  BY DEF IInv, Steps, plan, CancelStep, AtStep, Cancelling, TypeOK, Positions,
         SagaFollowsCall, Stack, Lifo, Effects, Undone
<1>10. CompensatedLeavesOnly'
  BY DEF IInv, CancelStep, AtStep, Cancelling, CompensatedLeavesOnly, SagaFollowsCall,
         SagaOutcomes
<1>11. ReportIsStatus'
  BY DEF IInv, SagaFollowsCall, ReportIsStatus, CancelStep, AtStep, Cancelling
<1> QED BY <1>1, <1>2, <1>3, <1>4, <1>5, <1>6, <1>7, <1>8, <1>9, <1>10, <1>11 DEF IInv

\* A skipped step has a failed or skipped step among its dependencies.
LEMMA SkipStepKeeps ==
  ASSUME IInv, NEW i \in Steps, SkipStep(i)
  PROVE  IInv'
<1>1. Ordered' /\ SagaFollowsCall' /\ Lifo'
  BY DEF IInv, SkipStep, plan, Ordered, SagaFollowsCall, Lifo, Some
<1>2. TypeOK'
  BY NAssumption DEF IInv, Steps, plan, SkipStep, AtStep, Cancelling, Runnable, TypeOK, StepStatuses,
         CompStatuses, SagaOutcomes, Kinds
<1>3. Positions'
  BY NAssumption DEF IInv, Steps, plan, SkipStep, AtStep, Cancelling, Runnable, TypeOK, Positions
<1>4. DependenciesDone'
  <2>1. status[i] = "PENDING" BY DEF IInv, SkipStep, AtStep, Positions
  <2>2. \A j \in Steps \ {i} : status'[j] = status[j] BY DEF IInv, TypeOK, SkipStep
  <2>3. status'[i] = "SKIPPED" BY DEF IInv, TypeOK, SkipStep
  <2>4. deps' = deps /\ \A j \in Steps : deps[j] \subseteq Steps BY DEF IInv, TypeOK, SkipStep, plan
  <2> QED BY <2>1, <2>2, <2>3, <2>4 DEF IInv, DependenciesDone
<1>5. Flags'
  <2>1. PICK j \in deps[i] : status[j] # "COMPLETED" BY DEF SkipStep, Runnable
  <2>2. ~planCancelled /\ status[i] = "PENDING" BY DEF IInv, SkipStep, AtStep, Cancelling, Positions
  <2>3. j \in Steps /\ j < next BY <2>1 DEF IInv, TypeOK, Ordered, SkipStep, AtStep
  <2>4. status[j] \in {"FAILED", "SKIPPED", "PENDING", "CANCELLED"}
    BY <2>1, <2>3 DEF IInv, TypeOK, StepStatuses, Positions, SkipStep, AtStep
  <2>5. planFailed BY <2>2, <2>3, <2>4 DEF IInv, Flags, Some
  <2>6. planFailed' = planFailed /\ planCancelled' = planCancelled BY DEF SkipStep
  <2>7. \A k \in Steps : status'[k] = IF k = i THEN "SKIPPED" ELSE status[k]
    BY DEF IInv, TypeOK, SkipStep
  <2>8. Some("FAILED")' /\ ~Some("CANCELLED")' BY <2>2, <2>5, <2>7 DEF IInv, Flags, Some
  <2> QED BY <2>2, <2>5, <2>6, <2>8 DEF Flags
<1>6. Suffix'
  <2>1. \A j \in Steps : status[j] # "CANCELLED" BY DEF IInv, SkipStep, Cancelling, Positions, Flags, Some
  <2>2. \A j \in Steps : status'[j] # "CANCELLED" BY <2>1 DEF IInv, TypeOK, SkipStep, plan
  <2> QED BY <2>2 DEF Suffix
<1>7. Break'
  <2>1. ~partial => ~planFailed BY NAssumption DEF IInv, Break, SkipStep, AtStep, Steps
  <2>2. ~partial => \A k \in Steps : status[k] # "FAILED" BY <2>1 DEF IInv, Flags, Some
  <2>3. \A k \in Steps : status'[k] = "FAILED" => status[k] = "FAILED" BY DEF IInv, TypeOK, SkipStep
  <2>4. partial' = partial /\ planFailed' = planFailed BY DEF SkipStep, plan
  <2> QED BY <2>1, <2>2, <2>3, <2>4 DEF Break
<1>8. Stack'
  BY DEF IInv, Steps, plan, SkipStep, AtStep, Cancelling, Runnable, TypeOK, Positions,
         SagaFollowsCall, Stack, Lifo, Undone, Compensable, Kinds
<1>9. Effects'
  BY DEF IInv, Steps, plan, SkipStep, AtStep, Cancelling, Runnable, TypeOK, Positions,
         SagaFollowsCall, Stack, Lifo, Effects, Undone
<1>10. CompensatedLeavesOnly'
  BY DEF IInv, SkipStep, AtStep, Cancelling, Runnable, CompensatedLeavesOnly,
         SagaFollowsCall, SagaOutcomes
<1>11. ReportIsStatus'
  BY DEF IInv, SagaFollowsCall, ReportIsStatus, SkipStep, AtStep, Cancelling, Runnable
<1> QED BY <1>1, <1>2, <1>3, <1>4, <1>5, <1>6, <1>7, <1>8, <1>9, <1>10, <1>11 DEF IInv

\* A refused step is a failure that ends the loop.
LEMMA RefuseStepKeeps ==
  ASSUME IInv, NEW i \in Steps, RefuseStep(i)
  PROVE  IInv'
<1>1. Ordered' /\ Lifo'
  BY DEF IInv, RefuseStep, plan, Ordered, Lifo
<1>2. TypeOK'
  BY NAssumption DEF IInv, Steps, plan, RefuseStep, AtStep, Cancelling, Runnable, TypeOK,
         StepStatuses, CompStatuses, SagaOutcomes, Kinds
<1>3. Positions'
  BY NAssumption DEF IInv, Steps, plan, RefuseStep, AtStep, Cancelling, Runnable, TypeOK, Positions
<1>4. DependenciesDone'
  BY DEF IInv, Steps, plan, RefuseStep, AtStep, Cancelling, Runnable, TypeOK, Ordered,
         Positions, DependenciesDone, Flags
<1>5. Flags'
  <2>1. ~planCancelled /\ ~planCancelled' /\ planFailed'
    BY DEF RefuseStep, Runnable, Cancelling
  <2>2. \A k \in Steps : status'[k] = IF k = i THEN "FAILED" ELSE status[k]
    BY DEF IInv, TypeOK, RefuseStep
  <2>3. Some("FAILED")' /\ ~Some("CANCELLED")' BY <2>1, <2>2 DEF IInv, Flags, Some
  <2> QED BY <2>1, <2>3 DEF Flags
<1>6. Suffix'
  <2>1. \A j \in Steps : status[j] # "CANCELLED" BY DEF IInv, RefuseStep, Runnable, Cancelling, Positions, Flags, Some
  <2>2. \A j \in Steps : status'[j] # "CANCELLED" BY <2>1 DEF IInv, TypeOK, RefuseStep, plan
  <2> QED BY <2>2 DEF Suffix
<1>7. Break'
  <2>1. ~partial => ~planFailed BY NAssumption DEF IInv, Break, RefuseStep, AtStep, Steps
  <2>2. ~partial => \A k \in Steps : status[k] # "FAILED" BY <2>1 DEF IInv, Flags, Some
  <2>3. \A k \in Steps : k > i => status[k] = "PENDING"
    BY DEF IInv, Positions, RefuseStep, AtStep
  <2>4. \A k \in Steps : status'[k] = IF k = i THEN "FAILED" ELSE status[k]
    BY DEF IInv, TypeOK, RefuseStep
  <2>5. partial' = partial /\ next' = N + 1 /\ pc' = "loop" BY DEF RefuseStep, AtStep, plan
  <2>6. \A k \in Steps : k > i => k # i BY DEF Steps
  <2> QED BY <2>2, <2>3, <2>4, <2>5, <2>6 DEF Break
<1>8. SagaFollowsCall'
  BY DEF IInv, Steps, plan, RefuseStep, AtStep, Cancelling, Runnable, TypeOK, Positions,
         Flags, Break, SagaFollowsCall, SagaOutcomes, Some
<1>9. Stack'
  BY DEF IInv, Steps, plan, RefuseStep, AtStep, Cancelling, Runnable, TypeOK, Positions,
         SagaFollowsCall, Stack, Lifo, Undone, Compensable, Kinds
<1>10. Effects'
  BY DEF IInv, Steps, plan, RefuseStep, AtStep, Cancelling, Runnable, TypeOK, Positions,
         SagaFollowsCall, Stack, Lifo, Effects, Undone
<1>11. CompensatedLeavesOnly'
  BY DEF IInv, RefuseStep, AtStep, Cancelling, Runnable, CompensatedLeavesOnly,
         SagaFollowsCall, SagaOutcomes
<1>12. ReportIsStatus'
  BY DEF IInv, SagaFollowsCall, ReportIsStatus, RefuseStep, AtStep, Cancelling, Runnable
<1> QED BY <1>1, <1>2, <1>3, <1>4, <1>5, <1>6, <1>7, <1>8, <1>9, <1>10, <1>11, <1>12 DEF IInv

\* A step starts only after its dependencies, and never after a cancellation.
LEMMA StartStepKeeps ==
  ASSUME IInv, NEW i \in Steps, StartStep(i)
  PROVE  IInv'
<1>1. Ordered'
  BY DEF IInv, StartStep, plan, Ordered
<1>2. TypeOK'
  BY NAssumption DEF IInv, Steps, plan, StartStep, AtStep, Cancelling, Runnable, TypeOK, StepStatuses,
         CompStatuses, SagaOutcomes, Kinds
<1>3. Positions'
  BY NAssumption DEF IInv, Steps, plan, StartStep, AtStep, Cancelling, Runnable, TypeOK, Positions
<1>4. DependenciesDone'
  BY DEF IInv, Steps, plan, StartStep, AtStep, Cancelling, Runnable, TypeOK, Ordered,
         Positions, DependenciesDone, Flags
<1>5. Flags'
  BY NAssumption DEF IInv, Steps, plan, StartStep, AtStep, Cancelling, Runnable, TypeOK, Ordered,
         Positions, Flags, Break, SagaFollowsCall, Some
<1>6. Suffix'
  <2>1. \A j \in Steps : status[j] # "CANCELLED" BY DEF IInv, StartStep, Runnable, Cancelling, Positions, Flags, Some
  <2>2. \A j \in Steps : status'[j] # "CANCELLED" BY <2>1 DEF IInv, TypeOK, StartStep, plan
  <2> QED BY <2>2 DEF Suffix
<1>7. Break'
  <2>1. ~partial => ~planFailed BY NAssumption DEF IInv, Break, StartStep, AtStep, Steps
  <2>2. ~partial => \A k \in Steps : status[k] # "FAILED" BY <2>1 DEF IInv, Flags, Some
  <2>3. \A k \in Steps : status'[k] = "FAILED" => status[k] = "FAILED" BY DEF IInv, TypeOK, StartStep
  <2>4. partial' = partial /\ planFailed' = planFailed BY DEF StartStep, plan
  <2> QED BY <2>1, <2>2, <2>3, <2>4 DEF Break
<1>8. SagaFollowsCall'
  BY DEF IInv, Steps, plan, StartStep, AtStep, Cancelling, Runnable, TypeOK, Positions,
         Flags, Break, SagaFollowsCall, SagaOutcomes, Some
<1>9. Stack'
  BY DEF IInv, Steps, plan, StartStep, AtStep, Cancelling, Runnable, TypeOK, Positions,
         SagaFollowsCall, Stack, Lifo, Undone, Compensable, Kinds
<1>10. Lifo'
  BY DEF IInv, Steps, plan, StartStep, AtStep, Cancelling, Runnable, TypeOK,
         SagaFollowsCall, Stack, Lifo, Undone
<1>11. Effects'
  BY DEF IInv, Steps, plan, StartStep, AtStep, Cancelling, Runnable, TypeOK, Positions,
         SagaFollowsCall, Stack, Lifo, Effects, Undone
<1>12. CompensatedLeavesOnly'
  BY DEF IInv, StartStep, AtStep, Cancelling, Runnable, CompensatedLeavesOnly,
         SagaFollowsCall, SagaOutcomes
<1>13. ReportIsStatus'
  BY DEF IInv, SagaFollowsCall, ReportIsStatus, StartStep, AtStep, Cancelling, Runnable
<1> QED BY <1>1, <1>2, <1>3, <1>4, <1>5, <1>6, <1>7, <1>8, <1>9, <1>10, <1>11, <1>12, <1>13 DEF IInv

\* A completed step enters the stack while nothing has been undone.
LEMMA StepCompletesKeeps ==
  ASSUME IInv, NEW i \in Steps, StepCompletes(i)
  PROVE  IInv'
<1>1. Ordered'
  BY DEF IInv, StepCompletes, plan, Ordered
<1>2. TypeOK'
  BY NAssumption DEF IInv, Steps, plan, StepCompletes, Awaited, Done, Registered, TypeOK,
         StepStatuses, CompStatuses, SagaOutcomes, Kinds
<1>3. Positions'
  BY NAssumption DEF IInv, Steps, plan, StepCompletes, Awaited, Done, Registered, TypeOK, Positions
<1>4. DependenciesDone'
  BY DEF IInv, Steps, plan, StepCompletes, Awaited, Done, Registered, TypeOK, Ordered,
         Positions, DependenciesDone, Flags
<1>5. Flags'
  <2>1. status[i] = "RUNNING" /\ next = i /\ next' = i + 1
    BY DEF IInv, Positions, StepCompletes, Awaited
  <2>2. \A k \in Steps : status'[k] = IF k = i THEN "COMPLETED" ELSE status[k]
    BY DEF IInv, TypeOK, StepCompletes
  <2>3. planFailed' = planFailed /\ planCancelled' = planCancelled BY DEF StepCompletes
  <2>4. \A s \in {"FAILED", "CANCELLED", "SKIPPED"} : Some(s)' <=> Some(s) BY <2>1, <2>2 DEF Some
  <2>5. \A k \in Steps : k < i + 1 /\ k # i => k < i BY DEF Steps
  <2>6. \A k \in Steps : k < next' /\ status'[k] = "PENDING" => planFailed
    BY <2>1, <2>2, <2>5 DEF IInv, Flags
  <2> QED BY <2>3, <2>4, <2>6 DEF IInv, Flags
<1>6. Suffix'
  <2>1. \A j \in Steps : status[j] # "CANCELLED" BY DEF IInv, StepCompletes, Awaited, Positions, Flags, Some
  <2>2. \A j \in Steps : status'[j] # "CANCELLED" BY <2>1 DEF IInv, TypeOK, StepCompletes, plan
  <2> QED BY <2>2 DEF Suffix
<1>7. Break'
  <2>1. ~partial => ~planFailed BY NAssumption DEF IInv, Break, StepCompletes, Awaited, Steps
  <2>2. ~partial => \A k \in Steps : status[k] # "FAILED" BY <2>1 DEF IInv, Flags, Some
  <2>3. \A k \in Steps : status'[k] = "FAILED" => status[k] = "FAILED" BY DEF IInv, TypeOK, StepCompletes
  <2>4. partial' = partial /\ planFailed' = planFailed BY DEF StepCompletes, plan
  <2> QED BY <2>1, <2>2, <2>3, <2>4 DEF Break
<1>8. SagaFollowsCall'
  BY DEF IInv, Steps, plan, StepCompletes, Awaited, Done, Registered, TypeOK, Positions,
         Flags, Break, SagaFollowsCall, SagaOutcomes, Some
<1>9. Stack'
  BY DEF IInv, Steps, plan, StepCompletes, Awaited, Done, Registered, TypeOK, Positions,
         SagaFollowsCall, Stack, Lifo, Undone, Compensable, Kinds
<1>10. Lifo'
  BY DEF IInv, Steps, plan, StepCompletes, Awaited, Done, Registered, TypeOK,
         SagaFollowsCall, Stack, Lifo, Undone
<1>11. Effects'
  BY DEF IInv, Steps, plan, StepCompletes, Awaited, Done, Registered, TypeOK, Positions,
         SagaFollowsCall, Stack, Lifo, Effects, Undone
<1>12. CompensatedLeavesOnly'
  BY DEF IInv, StepCompletes, Awaited, Done, Registered, CompensatedLeavesOnly,
         SagaFollowsCall, SagaOutcomes
<1>13. ReportIsStatus'
  BY DEF IInv, SagaFollowsCall, ReportIsStatus, StepCompletes, Awaited, Done, Registered
<1> QED BY <1>1, <1>2, <1>3, <1>4, <1>5, <1>6, <1>7, <1>8, <1>9, <1>10, <1>11, <1>12, <1>13 DEF IInv

\* A step that the saga refuses to register rejects the call.
LEMMA StepCompletesTooLateKeeps ==
  ASSUME IInv, NEW i \in Steps, StepCompletesTooLate(i)
  PROVE  IInv'
<1>1. Ordered'
  BY DEF IInv, StepCompletesTooLate, plan, Ordered
<1>2. TypeOK'
  BY NAssumption DEF IInv, Steps, plan, StepCompletesTooLate, Awaited, Done, TypeOK, StepStatuses,
         CompStatuses, SagaOutcomes, Kinds
<1>3. Positions'
  BY NAssumption DEF IInv, Steps, plan, StepCompletesTooLate, Awaited, Done, TypeOK, Positions
<1>4. DependenciesDone'
  BY DEF IInv, Steps, plan, StepCompletesTooLate, Awaited, Done, TypeOK, Ordered,
         Positions, DependenciesDone, Flags
<1>5. Flags'
  BY NAssumption DEF IInv, Steps, plan, StepCompletesTooLate, Awaited, Done, TypeOK, Ordered,
         Positions, Flags, Break, SagaFollowsCall, Some
<1>6. Suffix'
  <2>1. \A j \in Steps : status[j] # "CANCELLED" BY DEF IInv, StepCompletesTooLate, Awaited, Positions, Flags, Some
  <2>2. \A j \in Steps : status'[j] # "CANCELLED" BY <2>1 DEF IInv, TypeOK, StepCompletesTooLate, plan
  <2> QED BY <2>2 DEF Suffix
<1>7. Break'
  <2>1. partial BY DEF IInv, Break, SagaFollowsCall, StepCompletesTooLate, Awaited
  <2> QED BY <2>1 DEF Break, StepCompletesTooLate, plan
<1>8. SagaFollowsCall'
  BY DEF IInv, Steps, plan, StepCompletesTooLate, Awaited, Done, TypeOK, Positions, Flags,
         Break, SagaFollowsCall, SagaOutcomes, Some
<1>9. Stack'
  BY DEF IInv, Steps, plan, StepCompletesTooLate, Awaited, Done, TypeOK, Positions,
         SagaFollowsCall, Stack, Lifo, Undone, Compensable, Kinds
<1>10. Lifo'
  BY DEF IInv, Steps, plan, StepCompletesTooLate, Awaited, Done, TypeOK, SagaFollowsCall,
         Stack, Lifo, Undone
<1>11. Effects'
  BY DEF IInv, Steps, plan, StepCompletesTooLate, Awaited, Done, TypeOK, Positions,
         SagaFollowsCall, Stack, Lifo, Effects, Undone
<1>12. CompensatedLeavesOnly'
  BY DEF IInv, StepCompletesTooLate, Awaited, Done, CompensatedLeavesOnly,
         SagaFollowsCall, SagaOutcomes
<1>13. ReportIsStatus'
  BY DEF IInv, SagaFollowsCall, ReportIsStatus, StepCompletesTooLate, Awaited, Done
<1> QED BY <1>1, <1>2, <1>3, <1>4, <1>5, <1>6, <1>7, <1>8, <1>9, <1>10, <1>11, <1>12, <1>13 DEF IInv

\* A failed step skips what is pending, unless partial failures are allowed.
LEMMA StepFailsKeeps ==
  ASSUME IInv, NEW i \in Steps, StepFails(i)
  PROVE  IInv'
<1>1. Ordered'
  BY DEF IInv, StepFails, plan, Ordered
<1>2. TypeOK'
  BY NAssumption DEF IInv, Steps, plan, StepFails, Awaited, Attempted, Done, AfterFailure,
         StepAfterFailure, TypeOK, StepStatuses, CompStatuses, SagaOutcomes, Kinds
<1>3. Positions'
  BY NAssumption DEF IInv, Steps, plan, StepFails, Awaited, Attempted, Done, AfterFailure,
         StepAfterFailure, TypeOK, Positions
<1>4. DependenciesDone'
  BY DEF IInv, Steps, plan, StepFails, Awaited, Attempted, Done, AfterFailure,
         StepAfterFailure, TypeOK, Ordered, Positions, DependenciesDone, Flags
<1>5. Flags'
  <2>1. ~planCancelled /\ ~planCancelled' /\ planFailed'
    BY DEF IInv, Positions, StepFails, Awaited
  <2>2. status'[i] = "FAILED" /\ \A k \in Steps : status'[k] = "CANCELLED" => status[k] = "CANCELLED"
    BY DEF StepFails, AfterFailure
  <2>3. Some("FAILED")' /\ ~Some("CANCELLED")' BY <2>1, <2>2 DEF IInv, Flags, Some
  <2> QED BY <2>1, <2>3 DEF Flags
<1>6. Suffix'
  <2>1. \A j \in Steps : status[j] # "CANCELLED" BY DEF IInv, StepFails, Awaited, Positions, Flags, Some
  <2>2. \A j \in Steps : status'[j] # "CANCELLED" BY <2>1 DEF IInv, TypeOK, StepFails, AfterFailure, plan
  <2> QED BY <2>2 DEF Suffix
<1>7. Break'
  BY NAssumption DEF IInv, Steps, plan, StepFails, Awaited, Attempted, Done, AfterFailure,
         StepAfterFailure, TypeOK, Positions, Flags, Break
<1>8. SagaFollowsCall'
  BY DEF IInv, Steps, plan, StepFails, Awaited, Attempted, Done, AfterFailure,
         StepAfterFailure, TypeOK, Positions, Flags, Break, SagaFollowsCall, SagaOutcomes,
         Some
<1>9. Stack'
  BY DEF IInv, Steps, plan, StepFails, Awaited, Attempted, Done, AfterFailure,
         StepAfterFailure, TypeOK, Positions, SagaFollowsCall, Stack, Lifo, Undone,
         Compensable, Kinds
<1>10. Lifo'
  BY DEF IInv, Steps, plan, StepFails, Awaited, Attempted, Done, AfterFailure,
         StepAfterFailure, TypeOK, SagaFollowsCall, Stack, Lifo, Undone
<1>11. Effects'
  <2>1. comp[i] = "NONE" /\ comp' = comp /\ kind' = kind
    BY DEF IInv, Positions, Stack, StepFails, Awaited, plan
  <2>2. status'[i] = "FAILED" BY DEF IInv, TypeOK, StepFails, AfterFailure
  <2>3. \A k \in Steps \ {i} : status[k] \in {"COMPLETED", "FAILED"} => status'[k] = status[k]
    BY DEF IInv, TypeOK, StepFails, AfterFailure
  <2>4. \A k \in Steps \ {i} : effect'[k] = effect[k] BY DEF IInv, TypeOK, StepFails, Attempted, Done
  <2>5. effect'[i] = effect[i] \/ effect'[i] = IF kind[i] = "reader" THEN "none" ELSE "applied"
    BY DEF IInv, TypeOK, StepFails, Attempted, Done
  <2>6. effect'[i] \in {"none", "applied"} /\ (effect'[i] = "applied" => kind[i] # "reader")
    BY <2>1, <2>5 DEF IInv, TypeOK, Effects
  <2> QED BY <2>1, <2>2, <2>3, <2>4, <2>6 DEF IInv, Effects
<1>12. CompensatedLeavesOnly'
  BY DEF IInv, StepFails, Awaited, Attempted, Done, AfterFailure, StepAfterFailure,
         CompensatedLeavesOnly, SagaFollowsCall, SagaOutcomes
<1>13. ReportIsStatus'
  BY DEF IInv, SagaFollowsCall, ReportIsStatus, StepFails, Awaited, Attempted, Done,
         AfterFailure, StepAfterFailure
<1> QED BY <1>1, <1>2, <1>3, <1>4, <1>5, <1>6, <1>7, <1>8, <1>9, <1>10, <1>11, <1>12, <1>13 DEF IInv

\* A second failure rejects the call.
LEMMA StepFailsAgainKeeps ==
  ASSUME IInv, NEW i \in Steps, StepFailsAgain(i)
  PROVE  IInv'
<1>1. Ordered'
  BY DEF IInv, StepFailsAgain, plan, Ordered
<1>2. TypeOK'
  BY NAssumption DEF IInv, Steps, plan, StepFailsAgain, Awaited, Attempted, Done, TypeOK,
         StepStatuses, CompStatuses, SagaOutcomes, Kinds
<1>3. Positions'
  BY NAssumption DEF IInv, Steps, plan, StepFailsAgain, Awaited, Attempted, Done, TypeOK, Positions
<1>4. DependenciesDone'
  BY DEF IInv, Steps, plan, StepFailsAgain, Awaited, Attempted, Done, TypeOK, Ordered,
         Positions, DependenciesDone, Flags
<1>5. Flags'
  BY NAssumption DEF IInv, Steps, plan, StepFailsAgain, Awaited, Attempted, Done, TypeOK, Ordered,
         Positions, Flags, Break, SagaFollowsCall, Some
<1>6. Suffix'
  <2>1. \A j \in Steps : status[j] # "CANCELLED" BY DEF IInv, StepFailsAgain, Awaited, Positions, Flags, Some
  <2>2. \A j \in Steps : status'[j] # "CANCELLED" BY <2>1 DEF IInv, TypeOK, StepFailsAgain, plan
  <2> QED BY <2>2 DEF Suffix
<1>7. Break'
  <2>1. partial BY DEF IInv, Break, SagaFollowsCall, StepFailsAgain, Awaited
  <2> QED BY <2>1 DEF Break, StepFailsAgain, plan
<1>8. SagaFollowsCall'
  BY DEF IInv, Steps, plan, StepFailsAgain, Awaited, Attempted, Done, TypeOK, Positions,
         Flags, Break, SagaFollowsCall, SagaOutcomes, Some
<1>9. Stack'
  BY DEF IInv, Steps, plan, StepFailsAgain, Awaited, Attempted, Done, TypeOK, Positions,
         SagaFollowsCall, Stack, Lifo, Undone, Compensable, Kinds
<1>10. Lifo'
  BY DEF IInv, Steps, plan, StepFailsAgain, Awaited, Attempted, Done, TypeOK,
         SagaFollowsCall, Stack, Lifo, Undone
<1>11. Effects'
  <2>1. comp[i] = "NONE" /\ comp' = comp /\ kind' = kind
    BY DEF IInv, Positions, Stack, StepFailsAgain, Awaited, plan
  <2>2. status'[i] = "FAILED" BY DEF IInv, TypeOK, StepFailsAgain
  <2>3. \A k \in Steps \ {i} : status[k] \in {"COMPLETED", "FAILED"} => status'[k] = status[k]
    BY DEF IInv, TypeOK, StepFailsAgain
  <2>4. \A k \in Steps \ {i} : effect'[k] = effect[k] BY DEF IInv, TypeOK, StepFailsAgain, Attempted, Done
  <2>5. effect'[i] = effect[i] \/ effect'[i] = IF kind[i] = "reader" THEN "none" ELSE "applied"
    BY DEF IInv, TypeOK, StepFailsAgain, Attempted, Done
  <2>6. effect'[i] \in {"none", "applied"} /\ (effect'[i] = "applied" => kind[i] # "reader")
    BY <2>1, <2>5 DEF IInv, TypeOK, Effects
  <2> QED BY <2>1, <2>2, <2>3, <2>4, <2>6 DEF IInv, Effects
<1>12. CompensatedLeavesOnly'
  BY DEF IInv, StepFailsAgain, Awaited, Attempted, Done, CompensatedLeavesOnly,
         SagaFollowsCall, SagaOutcomes
<1>13. ReportIsStatus'
  BY DEF IInv, SagaFollowsCall, ReportIsStatus, StepFailsAgain, Awaited, Attempted, Done
<1> QED BY <1>1, <1>2, <1>3, <1>4, <1>5, <1>6, <1>7, <1>8, <1>9, <1>10, <1>11, <1>12, <1>13 DEF IInv

\* Cancelling the token touches nothing the engine keeps.
LEMMA CancelKeeps ==
  ASSUME IInv, Cancel
  PROVE  IInv'
<1>1. Ordered' /\ Positions' /\ DependenciesDone' /\ Flags' /\ Suffix' /\ Break' /\ SagaFollowsCall' /\ Stack' /\ Lifo' /\ Effects' /\ CompensatedLeavesOnly'
  BY DEF IInv, Cancel, plan, Ordered, Positions, DependenciesDone, Flags, Suffix, Break, SagaFollowsCall, Stack, Lifo, Effects, CompensatedLeavesOnly, Some
<1>2. TypeOK'
  BY NAssumption DEF IInv, Steps, plan, Cancel, TypeOK, StepStatuses, CompStatuses, SagaOutcomes,
         Kinds
<1>3. ReportIsStatus'
  BY DEF IInv, SagaFollowsCall, ReportIsStatus, Cancel
<1> QED BY <1>1, <1>2, <1>3 DEF IInv

\* The walk starts with nothing undone.
LEMMA StartCompensationKeeps ==
  ASSUME IInv, StartCompensation
  PROVE  IInv'
<1>1. Ordered' /\ DependenciesDone' /\ Flags' /\ Suffix' /\ Effects'
  BY DEF IInv, StartCompensation, plan, Ordered, DependenciesDone, Flags, Suffix, Effects, Some
<1>2. TypeOK'
  BY NAssumption DEF IInv, Steps, plan, StartCompensation, ForwardEnded, TypeOK, StepStatuses,
         CompStatuses, SagaOutcomes, Kinds
<1>3. Positions'
  BY NAssumption DEF IInv, Steps, plan, StartCompensation, ForwardEnded, TypeOK, Positions
<1>4. Break'
  BY NAssumption DEF IInv, Steps, plan, StartCompensation, ForwardEnded, TypeOK, Positions, Flags,
         Break
<1>5. SagaFollowsCall'
  BY DEF IInv, Steps, plan, StartCompensation, ForwardEnded, TypeOK, Positions, Flags,
         Break, SagaFollowsCall, SagaOutcomes, Some
<1>6. Stack'
  BY DEF IInv, Steps, plan, StartCompensation, ForwardEnded, TypeOK, Positions,
         SagaFollowsCall, Stack, Lifo, Undone, Compensable, Kinds
<1>7. Lifo'
  BY DEF IInv, Steps, plan, StartCompensation, ForwardEnded, TypeOK, SagaFollowsCall,
         Stack, Lifo, Undone
<1>8. CompensatedLeavesOnly'
  BY DEF IInv, StartCompensation, ForwardEnded, CompensatedLeavesOnly, SagaFollowsCall,
         SagaOutcomes
<1>9. ReportIsStatus'
  BY DEF IInv, SagaFollowsCall, ReportIsStatus, StartCompensation, ForwardEnded
<1> QED BY <1>1, <1>2, <1>3, <1>4, <1>5, <1>6, <1>7, <1>8, <1>9 DEF IInv

\* Without failForward() the walk never starts.
LEMMA CompensationRefusedKeeps ==
  ASSUME IInv, CompensationRefused
  PROVE  IInv'
<1>1. Ordered' /\ DependenciesDone' /\ Flags' /\ Suffix' /\ Effects'
  BY DEF IInv, CompensationRefused, plan, Ordered, DependenciesDone, Flags, Suffix, Effects, Some
<1>2. TypeOK'
  BY NAssumption DEF IInv, Steps, plan, CompensationRefused, ForwardEnded, TypeOK, StepStatuses,
         CompStatuses, SagaOutcomes, Kinds
<1>3. Positions'
  BY NAssumption DEF IInv, Steps, plan, CompensationRefused, ForwardEnded, TypeOK, Positions
<1>4. Break'
  BY NAssumption DEF IInv, Steps, plan, CompensationRefused, ForwardEnded, TypeOK, Positions, Flags,
         Break
<1>5. SagaFollowsCall'
  BY DEF IInv, Steps, plan, CompensationRefused, ForwardEnded, TypeOK, Positions, Flags,
         Break, SagaFollowsCall, SagaOutcomes, Some
<1>6. Stack'
  BY DEF IInv, Steps, plan, CompensationRefused, ForwardEnded, TypeOK, Positions,
         SagaFollowsCall, Stack, Lifo, Undone, Compensable, Kinds
<1>7. Lifo'
  BY DEF IInv, Steps, plan, CompensationRefused, ForwardEnded, TypeOK, SagaFollowsCall,
         Stack, Lifo, Undone
<1>8. CompensatedLeavesOnly'
  BY DEF IInv, CompensationRefused, ForwardEnded, CompensatedLeavesOnly, SagaFollowsCall,
         SagaOutcomes
<1>9. ReportIsStatus'
  BY DEF IInv, SagaFollowsCall, ReportIsStatus, CompensationRefused, ForwardEnded
<1> QED BY <1>1, <1>2, <1>3, <1>4, <1>5, <1>6, <1>7, <1>8, <1>9 DEF IInv

\* The walk takes the last step that is still to be compensated.
LEMMA BeginCompensationKeeps ==
  ASSUME IInv, NEW i \in Steps, BeginCompensation(i)
  PROVE  IInv'
<1>1. Ordered' /\ DependenciesDone' /\ Flags' /\ Suffix'
  BY DEF IInv, BeginCompensation, plan, Ordered, DependenciesDone, Flags, Suffix, Some
<1>2. TypeOK'
  BY NAssumption DEF IInv, Steps, plan, BeginCompensation, IsNextToUndo, ToCompensate, TypeOK,
         StepStatuses, CompStatuses, SagaOutcomes, Kinds
<1>3. Positions'
  BY NAssumption DEF IInv, Steps, plan, BeginCompensation, IsNextToUndo, ToCompensate, TypeOK,
         Positions
<1>4. Break'
  BY NAssumption DEF IInv, Steps, plan, BeginCompensation, IsNextToUndo, ToCompensate, TypeOK,
         Positions, Flags, Break
<1>5. SagaFollowsCall'
  BY DEF IInv, Steps, plan, BeginCompensation, IsNextToUndo, ToCompensate, TypeOK,
         Positions, Flags, Break, SagaFollowsCall, SagaOutcomes, Some
<1>6. Stack'
  BY DEF IInv, Steps, plan, BeginCompensation, IsNextToUndo, ToCompensate, TypeOK,
         Positions, SagaFollowsCall, Stack, Lifo, Undone, Compensable, Kinds
<1>7. Lifo'
  BY DEF IInv, Steps, plan, BeginCompensation, IsNextToUndo, ToCompensate, TypeOK,
         SagaFollowsCall, Stack, Lifo, Undone
<1>8. Effects'
  BY DEF IInv, Steps, plan, BeginCompensation, IsNextToUndo, ToCompensate, TypeOK,
         Positions, SagaFollowsCall, Stack, Lifo, Effects, Undone
<1>9. CompensatedLeavesOnly'
  BY DEF IInv, BeginCompensation, IsNextToUndo, ToCompensate, CompensatedLeavesOnly,
         SagaFollowsCall, SagaOutcomes
<1>10. ReportIsStatus'
  BY DEF IInv, SagaFollowsCall, ReportIsStatus, BeginCompensation, IsNextToUndo,
         ToCompensate
<1> QED BY <1>1, <1>2, <1>3, <1>4, <1>5, <1>6, <1>7, <1>8, <1>9, <1>10 DEF IInv

\* A step without a handler ends the walk.
LEMMA CompensationMissingKeeps ==
  ASSUME IInv, NEW i \in Steps, CompensationMissing(i)
  PROVE  IInv'
<1>1. Ordered' /\ DependenciesDone' /\ Flags' /\ Suffix'
  BY DEF IInv, CompensationMissing, plan, Ordered, DependenciesDone, Flags, Suffix, Some
<1>2. TypeOK'
  BY NAssumption DEF IInv, Steps, plan, CompensationMissing, IsNextToUndo, ToCompensate, TypeOK,
         StepStatuses, CompStatuses, SagaOutcomes, Kinds
<1>3. Positions'
  BY NAssumption DEF IInv, Steps, plan, CompensationMissing, IsNextToUndo, ToCompensate, TypeOK,
         Positions
<1>4. Break'
  BY NAssumption DEF IInv, Steps, plan, CompensationMissing, IsNextToUndo, ToCompensate, TypeOK,
         Positions, Flags, Break
<1>5. SagaFollowsCall'
  BY DEF IInv, Steps, plan, CompensationMissing, IsNextToUndo, ToCompensate, TypeOK,
         Positions, Flags, Break, SagaFollowsCall, SagaOutcomes, Some
<1>6. Stack'
  BY DEF IInv, Steps, plan, CompensationMissing, IsNextToUndo, ToCompensate, TypeOK,
         Positions, SagaFollowsCall, Stack, Lifo, Undone, Compensable, Kinds
<1>7. Lifo'
  BY DEF IInv, Steps, plan, CompensationMissing, IsNextToUndo, ToCompensate, TypeOK,
         SagaFollowsCall, Stack, Lifo, Undone
<1>8. Effects'
  BY DEF IInv, Steps, plan, CompensationMissing, IsNextToUndo, ToCompensate, TypeOK,
         Positions, SagaFollowsCall, Stack, Lifo, Effects, Undone
<1>9. CompensatedLeavesOnly'
  BY DEF IInv, CompensationMissing, IsNextToUndo, ToCompensate, CompensatedLeavesOnly,
         SagaFollowsCall, SagaOutcomes
<1>10. ReportIsStatus'
  BY DEF IInv, SagaFollowsCall, ReportIsStatus, CompensationMissing, IsNextToUndo,
         ToCompensate
<1> QED BY <1>1, <1>2, <1>3, <1>4, <1>5, <1>6, <1>7, <1>8, <1>9, <1>10 DEF IInv

\* A compensated step is reverted and the walk goes on.
LEMMA CompensationSucceedsKeeps ==
  ASSUME IInv, NEW i \in Steps, CompensationSucceeds(i)
  PROVE  IInv'
<1>1. Ordered' /\ DependenciesDone' /\ Flags' /\ Suffix'
  BY DEF IInv, CompensationSucceeds, plan, Ordered, DependenciesDone, Flags, Suffix, Some
<1>2. TypeOK'
  BY NAssumption DEF IInv, Steps, plan, CompensationSucceeds, TypeOK, StepStatuses, CompStatuses,
         SagaOutcomes, Kinds
<1>3. Positions'
  BY NAssumption DEF IInv, Steps, plan, CompensationSucceeds, TypeOK, Positions
<1>4. Break'
  BY NAssumption DEF IInv, Steps, plan, CompensationSucceeds, TypeOK, Positions, Flags, Break
<1>5. SagaFollowsCall'
  BY DEF IInv, Steps, plan, CompensationSucceeds, TypeOK, Positions, Flags, Break,
         SagaFollowsCall, SagaOutcomes, Some
<1>6. Stack'
  BY DEF IInv, Steps, plan, CompensationSucceeds, TypeOK, Positions, SagaFollowsCall,
         Stack, Lifo, Undone, Compensable, Kinds
<1>7. Lifo'
  BY DEF IInv, Steps, plan, CompensationSucceeds, TypeOK, SagaFollowsCall, Stack, Lifo,
         Undone
<1>8. Effects'
  BY DEF IInv, Steps, plan, CompensationSucceeds, TypeOK, Positions, SagaFollowsCall,
         Stack, Lifo, Effects, Undone
<1>9. CompensatedLeavesOnly'
  BY DEF IInv, CompensationSucceeds, CompensatedLeavesOnly, SagaFollowsCall, SagaOutcomes
<1>10. ReportIsStatus'
  BY DEF IInv, SagaFollowsCall, ReportIsStatus, CompensationSucceeds
<1> QED BY <1>1, <1>2, <1>3, <1>4, <1>5, <1>6, <1>7, <1>8, <1>9, <1>10 DEF IInv

\* A compensation that fails ends the walk.
LEMMA CompensationFailsKeeps ==
  ASSUME IInv, NEW i \in Steps, CompensationFails(i)
  PROVE  IInv'
<1>1. Ordered' /\ DependenciesDone' /\ Flags' /\ Suffix'
  BY DEF IInv, CompensationFails, plan, Ordered, DependenciesDone, Flags, Suffix, Some
<1>2. TypeOK'
  BY NAssumption DEF IInv, Steps, plan, CompensationFails, TypeOK, StepStatuses, CompStatuses,
         SagaOutcomes, Kinds
<1>3. Positions'
  BY NAssumption DEF IInv, Steps, plan, CompensationFails, TypeOK, Positions
<1>4. Break'
  BY NAssumption DEF IInv, Steps, plan, CompensationFails, TypeOK, Positions, Flags, Break
<1>5. SagaFollowsCall'
  BY DEF IInv, Steps, plan, CompensationFails, TypeOK, Positions, Flags, Break,
         SagaFollowsCall, SagaOutcomes, Some
<1>6. Stack'
  BY DEF IInv, Steps, plan, CompensationFails, TypeOK, Positions, SagaFollowsCall, Stack,
         Lifo, Undone, Compensable, Kinds
<1>7. Lifo'
  BY DEF IInv, Steps, plan, CompensationFails, TypeOK, SagaFollowsCall, Stack, Lifo,
         Undone
<1>8. Effects'
  BY DEF IInv, Steps, plan, CompensationFails, TypeOK, Positions, SagaFollowsCall, Stack,
         Lifo, Effects, Undone
<1>9. CompensatedLeavesOnly'
  BY DEF IInv, CompensationFails, CompensatedLeavesOnly, SagaFollowsCall, SagaOutcomes
<1>10. ReportIsStatus'
  BY DEF IInv, SagaFollowsCall, ReportIsStatus, CompensationFails
<1> QED BY <1>1, <1>2, <1>3, <1>4, <1>5, <1>6, <1>7, <1>8, <1>9, <1>10 DEF IInv

\* What the final state COMPENSATED says of every step.
LEMMA FinishCompensationKeeps ==
  ASSUME IInv, FinishCompensation
  PROVE  IInv'
<1>1. Ordered' /\ DependenciesDone' /\ Flags' /\ Suffix' /\ Effects'
  BY DEF IInv, FinishCompensation, Return, plan, Ordered, DependenciesDone, Flags, Suffix, Effects, Some
<1>2. TypeOK'
  BY NAssumption DEF IInv, Steps, plan, FinishCompensation, Return, SagaOutcome, ReportStatus,
         ToCompensate, InSaga, TypeOK, StepStatuses, CompStatuses, SagaOutcomes, Kinds
<1>3. Positions'
  BY NAssumption DEF IInv, Steps, plan, FinishCompensation, Return, SagaOutcome, ReportStatus,
         ToCompensate, InSaga, TypeOK, Positions
<1>4. Break'
  BY NAssumption DEF IInv, Steps, plan, FinishCompensation, Return, SagaOutcome, ReportStatus,
         ToCompensate, InSaga, TypeOK, Positions, Flags, Break
<1>5. SagaFollowsCall'
  BY DEF IInv, Steps, plan, FinishCompensation, Return, SagaOutcome, ReportStatus,
         ToCompensate, InSaga, TypeOK, Positions, Flags, Break, SagaFollowsCall,
         SagaOutcomes, Some
<1>6. Stack'
  BY DEF IInv, Steps, plan, FinishCompensation, Return, SagaOutcome, ReportStatus,
         ToCompensate, InSaga, TypeOK, Positions, SagaFollowsCall, Stack, Lifo, Undone,
         Compensable, Kinds
<1>7. Lifo'
  BY DEF IInv, Steps, plan, FinishCompensation, Return, SagaOutcome, ReportStatus,
         ToCompensate, InSaga, TypeOK, SagaFollowsCall, Stack, Lifo, Undone
<1>8. CompensatedLeavesOnly'
  <2> SUFFICES ASSUME SagaOutcome = "COMPENSATED", NEW j \in Steps, effect[j] \notin {"none", "reverted"},
                      ~(effect[j] = "applied" /\ status[j] = "FAILED")
               PROVE  effect[j] = "applied" /\ kind[j] = "plain" /\ \E k \in Steps : comp[k] = "COMPENSATED"
    BY DEF FinishCompensation, Return, CompensatedLeavesOnly, plan
  <2>1. \A k \in Steps : comp[k] \notin {"FAILED", "IN_DOUBT", "PENDING", "RUNNING"}
    BY DEF SagaOutcome, InSaga
  <2>2. effect[j] = "applied" /\ status[j] = "COMPLETED" /\ comp[j] # "COMPENSATED"
    BY <2>1 DEF IInv, TypeOK, Effects
  <2>3. saga # "NONE" BY DEF IInv, SagaFollowsCall, FinishCompensation
  <2>4. comp[j] = "NOT_COMPENSABLE"
    BY <2>1, <2>2, <2>3 DEF IInv, TypeOK, CompStatuses, Stack, Effects
  <2>5. \E k \in Steps : comp[k] = "COMPENSATED" BY <2>1, <2>4 DEF SagaOutcome, InSaga
  <2> QED BY <2>2, <2>4, <2>5 DEF IInv, Stack
<1>9. ReportIsStatus'
  BY DEF IInv, SagaFollowsCall, ReportIsStatus, FinishCompensation, Return, SagaOutcome,
         ReportStatus, ToCompensate, InSaga, Some, plan
<1> QED BY <1>1, <1>2, <1>3, <1>4, <1>5, <1>6, <1>7, <1>8, <1>9 DEF IInv

\* A saga is completed only when no step has failed.
LEMMA CompleteForwardKeeps ==
  ASSUME IInv, CompleteForward
  PROVE  IInv'
<1>1. Ordered' /\ DependenciesDone' /\ Flags' /\ Suffix' /\ Effects'
  BY DEF IInv, CompleteForward, Return, plan, Ordered, DependenciesDone, Flags, Suffix, Effects, Some
<1>2. TypeOK'
  BY NAssumption DEF IInv, Steps, plan, CompleteForward, Return, ForwardEnded, ReportStatus, TypeOK,
         StepStatuses, CompStatuses, SagaOutcomes, Kinds
<1>3. Positions'
  BY NAssumption DEF IInv, Steps, plan, CompleteForward, Return, ForwardEnded, ReportStatus, TypeOK,
         Positions
<1>4. Break'
  BY NAssumption DEF IInv, Steps, plan, CompleteForward, Return, ForwardEnded, ReportStatus, TypeOK,
         Positions, Flags, Break
<1>5. SagaFollowsCall'
  BY DEF IInv, Steps, plan, CompleteForward, Return, ForwardEnded, ReportStatus, TypeOK,
         Positions, Flags, Break, SagaFollowsCall, SagaOutcomes, Some
<1>6. Stack'
  BY DEF IInv, Steps, plan, CompleteForward, Return, ForwardEnded, ReportStatus, TypeOK,
         Positions, SagaFollowsCall, Stack, Lifo, Undone, Compensable, Kinds
<1>7. Lifo'
  BY DEF IInv, Steps, plan, CompleteForward, Return, ForwardEnded, ReportStatus, TypeOK,
         SagaFollowsCall, Stack, Lifo, Undone
<1>8. CompensatedLeavesOnly'
  BY DEF IInv, CompleteForward, Return, ForwardEnded, ReportStatus, CompensatedLeavesOnly,
         SagaFollowsCall, SagaOutcomes
<1>9. ReportIsStatus'
  BY DEF IInv, SagaFollowsCall, ReportIsStatus, CompleteForward, Return, ForwardEnded,
         ReportStatus, Some, plan
<1> QED BY <1>1, <1>2, <1>3, <1>4, <1>5, <1>6, <1>7, <1>8, <1>9 DEF IInv

\* Without a saga only the report is written.
LEMMA ReturnWithoutSagaKeeps ==
  ASSUME IInv, ReturnWithoutSaga
  PROVE  IInv'
<1>1. Ordered' /\ DependenciesDone' /\ Flags' /\ Suffix' /\ Effects'
  BY DEF IInv, ReturnWithoutSaga, Return, plan, Ordered, DependenciesDone, Flags, Suffix, Effects, Some
<1>2. TypeOK'
  BY NAssumption DEF IInv, Steps, plan, ReturnWithoutSaga, Return, ForwardEnded, ReportStatus, TypeOK,
         StepStatuses, CompStatuses, SagaOutcomes, Kinds
<1>3. Positions'
  BY NAssumption DEF IInv, Steps, plan, ReturnWithoutSaga, Return, ForwardEnded, ReportStatus, TypeOK,
         Positions
<1>4. Break'
  BY NAssumption DEF IInv, Steps, plan, ReturnWithoutSaga, Return, ForwardEnded, ReportStatus, TypeOK,
         Positions, Flags, Break
<1>5. SagaFollowsCall'
  BY DEF IInv, Steps, plan, ReturnWithoutSaga, Return, ForwardEnded, ReportStatus, TypeOK,
         Positions, Flags, Break, SagaFollowsCall, SagaOutcomes, Some
<1>6. Stack'
  BY DEF IInv, Steps, plan, ReturnWithoutSaga, Return, ForwardEnded, ReportStatus, TypeOK,
         Positions, SagaFollowsCall, Stack, Lifo, Undone, Compensable, Kinds
<1>7. Lifo'
  BY DEF IInv, Steps, plan, ReturnWithoutSaga, Return, ForwardEnded, ReportStatus, TypeOK,
         SagaFollowsCall, Stack, Lifo, Undone
<1>8. CompensatedLeavesOnly'
  BY DEF IInv, ReturnWithoutSaga, Return, ForwardEnded, ReportStatus,
         CompensatedLeavesOnly, SagaFollowsCall, SagaOutcomes
<1>9. ReportIsStatus'
  BY DEF IInv, SagaFollowsCall, ReportIsStatus, ReturnWithoutSaga, Return, ForwardEnded,
         ReportStatus, Some, plan
<1> QED BY <1>1, <1>2, <1>3, <1>4, <1>5, <1>6, <1>7, <1>8, <1>9 DEF IInv

--------------------------------------------------------------------------------
(* The invariant and its consequences.                                         *)

\* A call starts with every step ahead of it.
LEMMA InitIInv == Init => IInv
<1> SUFFICES ASSUME Init PROVE IInv OBVIOUS
<1>1. TypeOK
  <2>1. next \in 1..(N + 1) BY NAssumption DEF Init
  <2>2. deps \in [Steps -> SUBSET Steps] /\ status \in [Steps -> StepStatuses]
        /\ comp \in [Steps -> CompStatuses] /\ effect \in [Steps -> {"none", "applied", "reverted", "unknown"}]
    BY DEF Init, StepStatuses, CompStatuses
  <2> QED BY <2>1, <2>2 DEF Init, TypeOK
<1>2. Ordered /\ DependenciesDone /\ Suffix /\ Lifo /\ Effects
        /\ CompensatedLeavesOnly /\ ReportIsStatus
  BY DEF Init, Ordered, DependenciesDone, Suffix, Lifo, Undone, Effects,
         CompensatedLeavesOnly, ReportIsStatus
<1>3. Positions /\ Flags BY DEF Init, Positions, Flags, Some, Steps
<1>4. Break /\ SagaFollowsCall /\ Stack
  BY DEF Init, Break, SagaFollowsCall, Stack, Undone
<1> QED BY <1>1, <1>2, <1>3, <1>4 DEF IInv

\* Nothing depends on more than the variables.
LEMMA StutterIInv == IInv /\ UNCHANGED vars => IInv'
<1> SUFFICES ASSUME IInv, UNCHANGED vars PROVE IInv' OBVIOUS
<1> USE DEF IInv, vars
<1>1. TypeOK' /\ Ordered' /\ Positions' BY DEF TypeOK, Ordered, Positions
<1>2. DependenciesDone' /\ Flags' /\ Suffix' /\ Break'
  BY DEF DependenciesDone, Flags, Some, Suffix, Break
<1>3. SagaFollowsCall' /\ Stack' /\ Lifo' /\ Effects' /\ CompensatedLeavesOnly' /\ ReportIsStatus'
  BY DEF SagaFollowsCall, Stack, Lifo, Effects, CompensatedLeavesOnly, ReportIsStatus, ReportStatus, Some
<1> QED BY <1>1, <1>2, <1>3

\* Every step of the engine, the tools and the caller keeps the invariant.
LEMMA StepIInv == IInv /\ [Next]_vars => IInv'
<1> SUFFICES ASSUME IInv, [Next]_vars PROVE IInv' OBVIOUS
<1>1. CASE EngineStep
  BY <1>1, CancelStepKeeps, SkipStepKeeps, RefuseStepKeeps, StartStepKeeps, BeginCompensationKeeps,
     CompensationMissingKeeps, StartCompensationKeeps, CompensationRefusedKeeps,
     FinishCompensationKeeps, CompleteForwardKeeps, ReturnWithoutSagaKeeps DEF EngineStep
<1>2. CASE StepSettles
  BY <1>2, StepCompletesKeeps, StepCompletesTooLateKeeps, StepFailsKeeps, StepFailsAgainKeeps
  DEF StepSettles
<1>3. CASE CompensationSettles
  BY <1>3, CompensationSucceedsKeeps, CompensationFailsKeeps DEF CompensationSettles
<1>4. CASE Cancel BY <1>4, CancelKeeps
<1>5. CASE UNCHANGED vars BY <1>5, StutterIInv
<1> QED BY <1>1, <1>2, <1>3, <1>4, <1>5 DEF Next

\* The inductive invariant holds in every reachable state.
THEOREM Invariance == Spec => []IInv
<1>1. Init => IInv BY InitIInv
<1>2. IInv /\ [Next]_vars => IInv' BY StepIInv
<1> QED BY <1>1, <1>2, PTL DEF Spec

\* Every variable keeps its shape.
THEOREM TypeCorrect == Spec => []TypeOK
<1>1. IInv => TypeOK BY DEF IInv
<1> QED BY <1>1, Invariance, PTL

\* executePlan() starts a step only after its dependencies, so whatever a step
\* has done rests on steps that count as completed.
THEOREM EffectsFollowDependenciesCorrect == Spec => []EffectsFollowDependencies
<1>1. IInv => EffectsFollowDependencies
  BY DEF IInv, Effects, DependenciesDone, EffectsFollowDependencies
<1> QED BY <1>1, Invariance, PTL

\* The walk over the compensation stack undoes no step before the compensable
\* steps that were built on it.
THEOREM UndoneAfterDependentsCorrect == Spec => []UndoneAfterDependents
<1>1. IInv => UndoneAfterDependents
  <2> SUFFICES ASSUME IInv, NEW i \in Steps, NEW j \in deps[i],
                      effect[j] \in {"reverted", "unknown"}, kind[i] \in Compensable, status[i] = "COMPLETED"
               PROVE  effect[i] = "reverted"
    BY DEF UndoneAfterDependents
  <2>1. j \in Steps /\ j < i BY DEF IInv, TypeOK, Ordered
  <2>2. comp[j] \in Undone BY <2>1 DEF IInv, Effects, Undone
  <2>3. comp[i] # "NONE" BY <2>1, <2>2 DEF IInv, Stack, Undone
  <2>4. comp[i] \notin {"READ_ONLY", "NOT_COMPENSABLE"} BY DEF IInv, Stack, Compensable
  <2>5. comp[i] \notin {"PENDING", "RUNNING", "FAILED", "IN_DOUBT"} BY <2>1, <2>2 DEF IInv, Lifo
  <2>6. comp[i] = "COMPENSATED" BY <2>3, <2>4, <2>5 DEF IInv, TypeOK, CompStatuses
  <2> QED BY <2>6 DEF IInv, Effects
<1> QED BY <1>1, Invariance, PTL

\* What finishCompensation() leaves in place when it says COMPENSATED.
THEOREM CompensatedLeavesOnlyCorrect == Spec => []CompensatedLeavesOnly
<1>1. IInv => CompensatedLeavesOnly BY DEF IInv
<1> QED BY <1>1, Invariance, PTL

\* executePlan() rejects only where the saga was not told of a failure, or was
\* told twice, and then nothing has been compensated.
THEOREM RejectionsLeaveEverythingCorrect == Spec => []RejectionsLeaveEverything
<1>1. IInv => RejectionsLeaveEverything
  <2> SUFFICES ASSUME IInv, pc = "rejected" PROVE RejectionsLeaveEverything
    BY DEF RejectionsLeaveEverything
  <2>1. saga \in {"RUNNING", "FORWARD_FAILED"} /\ planFailed /\ (saga = "FORWARD_FAILED" => partial)
    BY DEF IInv, SagaFollowsCall
  <2>2. \A i \in Steps : effect[i] \in {"none", "applied"}
    BY DEF IInv, TypeOK, Stack, Undone, Effects
  <2> QED BY <2>1, <2>2 DEF RejectionsLeaveEverything
<1> QED BY <1>1, Invariance, PTL

\* The status executePlan() derives from its flags agrees with the step records
\* and with the saga.
THEOREM ReportAgreesCorrect == Spec => []ReportAgreesWithSteps
<1>1. IInv => ReportAgreesWithSteps
  <2> SUFFICES ASSUME IInv, report # "NONE" PROVE ReportAgreesWithSteps
    BY DEF ReportAgreesWithSteps
  <2>1. pc = "returned" /\ next = N + 1 /\ report = ReportStatus
    BY DEF IInv, SagaFollowsCall, Positions, ReportIsStatus
  <2>2. \A i \in Steps : i < next /\ status[i] # "RUNNING"
    BY <2>1, NAssumption DEF IInv, Positions, Steps
  <2>3. ASSUME report = "COMPLETED", NEW i \in Steps PROVE status[i] = "COMPLETED"
    <3>1. ~planCancelled /\ ~Some("FAILED") /\ ~Some("SKIPPED") BY <2>1, <2>3 DEF ReportStatus
    <3>2. status[i] \notin {"FAILED", "SKIPPED", "CANCELLED", "PENDING"}
      BY <2>2, <3>1 DEF IInv, Flags, Some
    <3> QED BY <2>2, <3>2 DEF IInv, TypeOK, StepStatuses
  <2>4. \A i, j \in Steps : i < j /\ status[i] = "CANCELLED" => status[j] = "CANCELLED"
    BY <2>2 DEF IInv, Suffix
  <2>5. report \in {"FAILED", "PARTIALLY_FAILED"} => Some("FAILED") /\ ~Some("CANCELLED")
    BY <2>1 DEF IInv, Flags, ReportStatus
  <2>6. ~partial => \A i, j \in Steps : i < j /\ status[i] = "FAILED"
                                         => status[j] \in {"PENDING", "SKIPPED"}
    BY DEF IInv, Break
  <2>7. /\ saga \in {"NONE", "COMPLETED"} \union SagaOutcomes
        /\ saga \in SagaOutcomes <=> Some("FAILED") /\ saga # "NONE"
    BY <2>1 DEF IInv, SagaFollowsCall, Flags
  <2> QED BY <2>3, <2>4, <2>5, <2>6, <2>7 DEF ReportAgreesWithSteps
<1> QED BY <1>1, Invariance, PTL

--------------------------------------------------------------------------------
(* Every call comes to its end, as far as a step can say so.                   *)

\* How many steps a call can still take: two for each step of the plan ahead, two for
\* each step on the stack, and the turn from the one to the other.
CallStepsLeft ==
  CASE pc = "loop" -> 2 * N + 4 + 2 * (N + 1 - next)
    [] pc = "running" -> 2 * N + 3 + 2 * (N + 1 - next)
    [] pc = "unwinding" -> 2 * Cardinality(ToCompensate) + 2
    [] pc = "compensating" -> 2 * Cardinality(ToCompensate) + 3
    [] pc = "finishing" -> 1
    [] OTHER -> 0

\* Whatever the tools answer, each step brings the call nearer its end; only the
\* caller's cancellation, which there is one of, does not count.
CallComesToAnEnd == [][Cancel \/ CallStepsLeft' < CallStepsLeft]_vars

\* A call that has not settled can go on: the code has a case for the state of the
\* saga at the end of the loop, a top of the stack to undo, a compensation to await.
NeverStuck ==
  /\ pc = "loop" => next \in Steps \/ (next = N + 1 /\ saga \in {"NONE", "RUNNING", "FORWARD_FAILED"}
                                                     /\ (saga = "FORWARD_FAILED" => planFailed))
  /\ pc = "running" => next \in Steps /\ saga \in {"NONE", "RUNNING", "FORWARD_FAILED"}
  /\ pc = "unwinding" =>
       ToCompensate = {} \/ \E i \in Steps : IsNextToUndo(i) /\ kind[i] \in Compensable
  /\ pc = "compensating" => \E i \in Steps : comp[i] = "RUNNING"

\* A call that returns has kept the engine's invariant 7, which a call that rejects
\* does not: after a failure with a saga every completed step that can be compensated
\* was, or a compensation that failed is on record.
ReturnedIsCompensated ==
  pc = "returned" /\ saga # "NONE" /\ Some("FAILED")
    => \/ InSaga({"FAILED", "IN_DOUBT"})
       \/ \A i \in Steps : status[i] = "COMPLETED" /\ kind[i] \in Compensable
                             => effect[i] = "reverted"

\* The stack of a step fewer is one shorter, and never longer than the plan.
LEMMA StackLength ==
  /\ IsFiniteSet(ToCompensate) /\ Cardinality(ToCompensate) \in Nat /\ Cardinality(ToCompensate) <= N
  /\ \A i \in ToCompensate :
       Cardinality(ToCompensate \ {i}) = Cardinality(ToCompensate) - 1
<1>1. IsFiniteSet(Steps) /\ Cardinality(Steps) = N
  BY FS_Interval, NAssumption DEF Steps
<1>2. ToCompensate \subseteq Steps BY DEF ToCompensate
<1>3. IsFiniteSet(ToCompensate) /\ Cardinality(ToCompensate) <= N BY <1>1, <1>2, FS_Subset
<1> QED BY <1>3, FS_CardinalityType, FS_RemoveElement

\* The same for the next state.
LEMMA StackLengthNext ==
  /\ IsFiniteSet(ToCompensate') /\ Cardinality(ToCompensate') \in Nat /\ Cardinality(ToCompensate') <= N
<1>1. IsFiniteSet(Steps) /\ Cardinality(Steps) = N
  BY FS_Interval, NAssumption DEF Steps
<1>2. ToCompensate' \subseteq Steps BY DEF ToCompensate
<1>3. IsFiniteSet(ToCompensate') /\ Cardinality(ToCompensate') <= N BY <1>1, <1>2, FS_Subset
<1> QED BY <1>3, FS_CardinalityType

\* The loop only goes forward, and what is left of it outweighs the compensations.
LEMMA ForwardProgress ==
  ASSUME IInv, NEW i \in Steps,
         \/ CancelStep(i) \/ SkipStep(i) \/ RefuseStep(i) \/ StartStep(i)
         \/ StepCompletes(i) \/ StepCompletesTooLate(i) \/ StepFails(i) \/ StepFailsAgain(i)
  PROVE  CallStepsLeft' < CallStepsLeft
<1>0. i \in Nat /\ i <= N /\ N \in Nat BY NAssumption DEF Steps
<1>1. CASE CancelStep(i) \/ SkipStep(i) \/ RefuseStep(i)
  <2>1. /\ pc = "loop" /\ pc' = "loop" /\ next = i /\ next' \in {i + 1, N + 1}
    BY <1>1 DEF CancelStep, SkipStep, RefuseStep, AtStep
  <2> QED BY <1>0, <2>1 DEF CallStepsLeft
<1>2. CASE StartStep(i)
  <2>1. pc = "loop" /\ pc' = "running" /\ next = i /\ next' = i BY <1>2 DEF StartStep, AtStep
  <2> QED BY <1>0, <2>1 DEF CallStepsLeft
<1>3. CASE StepCompletes(i) \/ StepFails(i)
  <2>1. pc = "running" /\ pc' = "loop" /\ next = i /\ next' \in {i + 1, N + 1}
    BY <1>3 DEF StepCompletes, StepFails, StepAfterFailure, Awaited
  <2> QED BY <1>0, <2>1 DEF CallStepsLeft
<1>4. CASE StepCompletesTooLate(i) \/ StepFailsAgain(i)
  <2>1. pc = "running" /\ pc' = "rejected" /\ next = i
    BY <1>4 DEF StepCompletesTooLate, StepFailsAgain, Awaited
  <2> QED BY <1>0, <2>1 DEF CallStepsLeft
<1> QED BY <1>1, <1>2, <1>3, <1>4

\* The walk over the stack never adds to it.
LEMMA BackwardProgress ==
  ASSUME IInv, NEW i \in Steps,
         \/ BeginCompensation(i) \/ CompensationMissing(i)
         \/ CompensationSucceeds(i) \/ CompensationFails(i)
  PROVE  CallStepsLeft' < CallStepsLeft
<1>1. CASE BeginCompensation(i)
  <2>1. i \in ToCompensate /\ pc = "unwinding" /\ pc' = "compensating" /\ comp' = [comp EXCEPT ![i] = "RUNNING"]
    BY <1>1 DEF BeginCompensation, IsNextToUndo
  <2>2. ToCompensate' = ToCompensate \ {i} BY <2>1 DEF ToCompensate, IInv, TypeOK
  <2>3. Cardinality(ToCompensate') = Cardinality(ToCompensate) - 1 BY <2>1, <2>2, StackLength
  <2> QED BY <2>1, <2>3, StackLength DEF CallStepsLeft
<1>2. CASE CompensationMissing(i)
  <2>1. pc = "unwinding" /\ pc' = "finishing" BY <1>2 DEF CompensationMissing
  <2> QED BY <2>1, StackLength DEF CallStepsLeft
<1>3. CASE CompensationSucceeds(i)
  <2>1. /\ pc = "compensating" /\ pc' = "unwinding" /\ comp[i] = "RUNNING"
        /\ comp' = [comp EXCEPT ![i] = "COMPENSATED"]
    BY <1>3 DEF CompensationSucceeds
  <2>2. ToCompensate' = ToCompensate BY <2>1 DEF ToCompensate, IInv, TypeOK
  <2> QED BY <2>1, <2>2, StackLength DEF CallStepsLeft
<1>4. CASE CompensationFails(i)
  <2>1. pc = "compensating" /\ pc' = "finishing" BY <1>4 DEF CompensationFails
  <2> QED BY <2>1, StackLength DEF CallStepsLeft
<1> QED BY <1>1, <1>2, <1>3, <1>4

\* The turn from the loop to the stack, and the ends.
LEMMA TurnProgress ==
  ASSUME IInv,
         \/ StartCompensation \/ CompensationRefused
         \/ FinishCompensation \/ CompleteForward \/ ReturnWithoutSaga
  PROVE  CallStepsLeft' < CallStepsLeft
<1>0. N \in Nat BY NAssumption
<1>1. CASE StartCompensation
  <2>1. pc = "loop" /\ pc' = "unwinding" /\ next = N + 1 BY <1>1 DEF StartCompensation, ForwardEnded
  <2> QED BY <1>0, <2>1, StackLengthNext DEF CallStepsLeft
<1>2. CASE CompensationRefused \/ CompleteForward \/ ReturnWithoutSaga
  <2>1. pc = "loop" /\ pc' \in {"rejected", "returned"} /\ next = N + 1
    BY <1>2 DEF CompensationRefused, CompleteForward, ReturnWithoutSaga, Return, ForwardEnded
  <2> QED BY <1>0, <2>1 DEF CallStepsLeft
<1>3. CASE FinishCompensation
  <2>1. pc \in {"unwinding", "finishing"} /\ pc' = "returned" BY <1>3 DEF FinishCompensation, Return
  <2> QED BY <2>1, StackLength DEF CallStepsLeft
<1> QED BY <1>1, <1>2, <1>3

\* Each step of a call brings it nearer its end: a plan of any length is over after
\* a number of steps that is linear in it, whatever tools and compensations answer.
THEOREM CallComesToAnEndCorrect == Spec => CallComesToAnEnd
<1>1. IInv /\ [Next]_vars => [Cancel \/ CallStepsLeft' < CallStepsLeft]_vars
  BY ForwardProgress, BackwardProgress, TurnProgress
  DEF Next, EngineStep, StepSettles, CompensationSettles
<1> QED BY <1>1, Invariance, PTL DEF Spec, CallComesToAnEnd

\* What the end of the walk leaves: a compensation is awaited while one is running,
\* and the walk stops early only at a failed one.
WalkEnds ==
  /\ pc = "compensating" => \E i \in Steps : comp[i] = "RUNNING"
  /\ pc = "finishing" \/ (pc = "returned" /\ saga \in SagaOutcomes) =>
       InSaga({"FAILED", "IN_DOUBT"}) \/ ToCompensate = {}

\* It holds initially, and every step keeps it.
LEMMA WalkEndsKept == (Init => WalkEnds) /\ (IInv /\ WalkEnds /\ [Next]_vars => WalkEnds')
<1>1. Init => WalkEnds BY DEF Init, WalkEnds
<1>2. ASSUME IInv, WalkEnds, [Next]_vars PROVE WalkEnds'
  <2>0. comp \in [Steps -> CompStatuses] BY <1>2 DEF IInv, TypeOK
  <2>1. ASSUME NEW i \in Steps, BeginCompensation(i) PROVE WalkEnds'
    BY <2>0, <2>1 DEF BeginCompensation, WalkEnds
  <2>2. ASSUME NEW i \in Steps, CompensationMissing(i) \/ CompensationFails(i) PROVE WalkEnds'
    BY <2>0, <2>2 DEF CompensationMissing, CompensationFails, WalkEnds, InSaga
  <2>3. ASSUME NEW i \in Steps, CompensationSucceeds(i) PROVE WalkEnds'
    BY <2>3 DEF CompensationSucceeds, WalkEnds
  <2>4. CASE FinishCompensation
    BY <1>2, <2>4 DEF FinishCompensation, Return, WalkEnds, InSaga, ToCompensate
  <2>5. CASE CompleteForward \/ ReturnWithoutSaga
    BY <2>5 DEF CompleteForward, ReturnWithoutSaga, Return, WalkEnds, SagaOutcomes
  <2>6. CASE StartCompensation \/ CompensationRefused
    BY <2>6 DEF StartCompensation, CompensationRefused, WalkEnds
  <2>7. ASSUME NEW i \in Steps, CancelStep(i) \/ SkipStep(i) \/ RefuseStep(i) \/ StartStep(i) PROVE WalkEnds'
    BY <2>7 DEF CancelStep, SkipStep, RefuseStep, StartStep, AtStep, WalkEnds
  <2>8. ASSUME NEW i \in Steps,
               StepCompletes(i) \/ StepCompletesTooLate(i) \/ StepFails(i) \/ StepFailsAgain(i)
        PROVE  WalkEnds'
    BY <2>8 DEF StepCompletes, StepCompletesTooLate, StepFails, StepFailsAgain, WalkEnds
  <2>9. CASE Cancel \/ UNCHANGED vars
    BY <1>2, <2>9 DEF Cancel, vars, WalkEnds, InSaga, ToCompensate
  <2> QED BY <1>2, <2>1, <2>2, <2>3, <2>4, <2>5, <2>6, <2>7, <2>8, <2>9
          DEF Next, EngineStep, StepSettles, CompensationSettles
<1> QED BY <1>1, <1>2

\* A set of steps has a last one.
LEMMA LastStep ==
  ASSUME NEW S \in SUBSET Steps, S # {}
  PROVE  \E i \in S : \A j \in S : j <= i
<1> DEFINE R == {ss \in Nat \X Nat : ss[1] < ss[2]}
           D == {N - i : i \in S}
<1>0. N \in Nat /\ \A i \in S : i \in Nat /\ i <= N BY NAssumption DEF Steps
<1>1. D \subseteq Nat /\ D # {} BY <1>0
<1>2. IsWellFoundedOn(R, Nat) BY NatLessThanWellFounded DEF OpToRel
<1>3. PICK x \in D : \A y \in D : ~ (<<y, x>> \in R)
  <2> HIDE DEF R, D
  <2> QED BY WFMin, <1>1, <1>2
<1>4. PICK i \in S : x = N - i BY <1>3
<1>5. \A j \in S : j <= i
  <2> TAKE j \in S
  <2>1. N - j \in D /\ N - j \in Nat /\ x \in Nat BY <1>1, <1>3
  <2>2. ~(N - j < x) BY <1>3, <2>1
  <2> QED BY <1>0, <1>4, <2>2
<1> QED BY <1>5

\* executePlan() has a case for every state it can come to: a call that has not
\* settled is never without a next step, for plans of any length.
THEOREM NeverStuckCorrect == Spec => []NeverStuck
<1>1. IInv /\ WalkEnds => NeverStuck
  <2> SUFFICES ASSUME IInv, WalkEnds PROVE NeverStuck OBVIOUS
  <2>1. pc = "loop" => next \in Steps \/ next = N + 1
    BY NAssumption DEF IInv, TypeOK, Steps
  <2>2. pc = "unwinding" /\ ToCompensate # {} =>
          \E i \in Steps : IsNextToUndo(i) /\ kind[i] \in Compensable
    <3> SUFFICES ASSUME ToCompensate # {}
                 PROVE  \E i \in Steps : IsNextToUndo(i) /\ kind[i] \in Compensable
      OBVIOUS
    <3>1. ToCompensate \in SUBSET Steps BY DEF ToCompensate
    <3>2. PICK i \in ToCompensate : \A j \in ToCompensate : j <= i BY <3>1, LastStep
    <3>3. kind[i] \in Compensable BY <3>2 DEF ToCompensate, IInv, Stack
    <3> QED BY <3>1, <3>2, <3>3 DEF IsNextToUndo
  <2> QED BY <2>1, <2>2 DEF NeverStuck, IInv, Positions, SagaFollowsCall, WalkEnds
<1> QED BY <1>1, WalkEndsKept, Invariance, PTL DEF Spec

\* A call that returns has compensated what can be compensated, or says what failed.
THEOREM ReturnedIsCompensatedCorrect == Spec => []ReturnedIsCompensated
<1>1. IInv /\ WalkEnds => ReturnedIsCompensated
  <2> SUFFICES ASSUME IInv, WalkEnds, pc = "returned", saga # "NONE", Some("FAILED"),
                      ~InSaga({"FAILED", "IN_DOUBT"}), NEW i \in Steps,
                      status[i] = "COMPLETED", kind[i] \in Compensable
               PROVE  effect[i] = "reverted"
    BY DEF ReturnedIsCompensated
  <2>1. saga \in SagaOutcomes BY DEF IInv, SagaFollowsCall, Flags
  <2>2. ToCompensate = {} BY <2>1 DEF WalkEnds
  <2>3. comp[i] \notin {"NONE", "READ_ONLY", "NOT_COMPENSABLE"} BY DEF IInv, Stack, Compensable
  <2>4. comp[i] \notin {"PENDING", "RUNNING", "FAILED", "IN_DOUBT"}
    BY <2>2 DEF ToCompensate, InSaga, IInv, Lifo
  <2>5. comp[i] = "COMPENSATED" BY <2>3, <2>4 DEF IInv, TypeOK, CompStatuses
  <2> QED BY <2>5 DEF IInv, Effects
<1> QED BY <1>1, WalkEndsKept, Invariance, PTL DEF Spec

--------------------------------------------------------------------------------
(* PlanExecution implements SagaContract.                                      *)

\* What the mapping needs and the reports do not: a completed step has left its
\* effect, a saga that was not told of a failure is at the end of the loop, and the
\* walk is finished early only by a compensation that failed.
Recorded ==
  /\ \A i \in Steps : status[i] = "COMPLETED" /\ kind[i] # "reader" => effect[i] # "none"
  /\ saga = "RUNNING" /\ planFailed => pc # "running" /\ next = N + 1
  /\ pc = "finishing" => InSaga({"FAILED", "IN_DOUBT"})

\* It holds initially, and every step keeps it.
LEMMA RecordedKept == (Init => Recorded) /\ (IInv /\ Recorded /\ [Next]_vars => Recorded')
<1>1. Init => Recorded
  BY DEF Init, Recorded
<1>2. ASSUME IInv, Recorded, [Next]_vars PROVE Recorded'
  <2>0. /\ comp \in [Steps -> CompStatuses] /\ status \in [Steps -> StepStatuses]
        /\ effect \in [Steps -> {"none", "applied", "reverted", "unknown"}]
        /\ kind \in [Steps -> Kinds] /\ N \in Nat
    BY <1>2, NAssumption DEF IInv, TypeOK
  <2>1. ASSUME NEW i \in Steps, CancelStep(i) \/ SkipStep(i) PROVE Recorded'
    BY <1>2, <2>0, <2>1 DEF CancelStep, SkipStep, AtStep, Steps, plan, Recorded
  <2>2. ASSUME NEW i \in Steps, RefuseStep(i) \/ StartStep(i) PROVE Recorded'
    BY <1>2, <2>0, <2>2 DEF RefuseStep, StartStep, AtStep, Steps, plan, Recorded
  <2>3. ASSUME NEW i \in Steps, StepCompletes(i) PROVE Recorded'
    <3>1. /\ status' = [status EXCEPT ![i] = "COMPLETED"] /\ kind' = kind
          /\ effect' = [effect EXCEPT ![i] = IF kind[i] = "reader" THEN "none" ELSE "applied"]
          /\ saga' = saga /\ planFailed' = planFailed /\ pc = "running" /\ pc' = "loop"
      BY <2>3 DEF StepCompletes, Awaited, Done, plan
    <3> QED BY <1>2, <2>0, <3>1 DEF Recorded
  <2>4. ASSUME NEW i \in Steps, StepCompletesTooLate(i) \/ StepFails(i) \/ StepFailsAgain(i)
        PROVE  Recorded'
    <3>1. /\ \A j \in Steps : status'[j] = "COMPLETED" => status[j] = "COMPLETED" /\ j # i
          /\ \A j \in Steps : j # i => effect'[j] = effect[j]
          /\ kind' = kind /\ saga' # "RUNNING" /\ pc' # "finishing"
      BY <2>0, <2>4 DEF StepCompletesTooLate, StepFails, StepFailsAgain, Attempted, AfterFailure,
         Done, plan
    <3> QED BY <1>2, <3>1 DEF Recorded
  <2>5. ASSUME NEW i \in Steps, BeginCompensation(i) \/ CompensationMissing(i) PROVE Recorded'
    BY <1>2, <2>0, <2>5 DEF BeginCompensation, CompensationMissing, IsNextToUndo, ToCompensate,
       plan, Recorded, InSaga, IInv, SagaFollowsCall
  <2>6. ASSUME NEW i \in Steps, CompensationSucceeds(i) \/ CompensationFails(i) PROVE Recorded'
    BY <1>2, <2>0, <2>6 DEF CompensationSucceeds, CompensationFails, plan, Recorded, InSaga,
       IInv, SagaFollowsCall
  <2>7. CASE StartCompensation \/ CompensationRefused
    BY <1>2, <2>7 DEF StartCompensation, CompensationRefused, ForwardEnded, plan, Recorded, InSaga
  <2>8. CASE FinishCompensation \/ CompleteForward \/ ReturnWithoutSaga
    <3>1. /\ status' = status /\ effect' = effect /\ kind' = kind /\ pc' = "returned"
          /\ saga' # "RUNNING"
      BY <2>8 DEF FinishCompensation, CompleteForward, ReturnWithoutSaga, Return, SagaOutcome, plan
    <3> QED BY <1>2, <3>1 DEF Recorded
  <2>9. CASE Cancel \/ UNCHANGED vars
    BY <1>2, <2>9 DEF Cancel, vars, plan, Recorded, InSaga
  <2> QED BY <1>2, <2>1, <2>2, <2>3, <2>4, <2>5, <2>6, <2>7, <2>8, <2>9
          DEF Next, EngineStep, StepSettles, CompensationSettles
<1> QED BY <1>1, <1>2

\* A plan that has not begun is one the contract may begin with.
LEMMA ContractInit == Init => Contract!Init
<1> SUFFICES ASSUME Init PROVE Contract!Init
  OBVIOUS
<1>1. /\ deps \in [Steps -> SUBSET Steps] /\ kind \in [Steps -> Kinds]
      /\ effect = [i \in Steps |-> "none"] /\ \A i \in Steps : status[i] = "PENDING"
      /\ pc = "loop"
  BY DEF Init
<1>2. Silent \in SUBSET (Steps \ Undoable) /\ Undoable \in SUBSET Steps
  BY DEF Silent, Undoable, Compensable
<1>3. Built = {} /\ Broken = {}
  BY <1>1 DEF Built, Broken
<1>4. Phase = "forward" /\ Told = "NONE"
  BY <1>1 DEF Phase, Told
<1> QED BY <1>1, <1>2, <1>3, <1>4 DEF Contract!Init

\* The plan does not change, nor does whether there is a saga.
LEMMA PlanStays ==
  ASSUME UNCHANGED plan, saga' = "NONE" <=> saga = "NONE"
  PROVE  UNCHANGED Contract!plan
BY DEF plan, Contract!plan, Undoable, Silent

\* What the contract sees of the records of a step is not what the loop passes over,
\* awaits or cancels.
LEMMA Unseen ==
  ASSUME UNCHANGED plan, UNCHANGED effect, UNCHANGED saga,
         Built' = Built, Broken' = Broken, Phase' = Phase, Told' = Told
  PROVE  UNCHANGED Contract!vars
BY DEF plan, Contract!vars, Undoable, Silent

\* A step the loop is at, or awaits, may be tried.
LEMMA MayTry ==
  ASSUME IInv, NEW i \in Steps,
         \/ AtStep(i) /\ Runnable(i)
         \/ Awaited(i)
  PROVE  Contract!Tries(i)
<1>1. /\ status[i] \in {"PENDING", "RUNNING"} /\ Phase = "forward"
      /\ \A j \in deps[i] : status[j] = "COMPLETED"
  BY DEF IInv, Positions, DependenciesDone, AtStep, Awaited, Runnable, Phase
<1>2. effect[i] = "none"
  BY <1>1 DEF IInv, TypeOK, Effects
<1>3. i \notin Built \union Broken
  BY <1>1 DEF Built, Broken
<1>4. deps[i] \subseteq Built
  BY <1>1 DEF IInv, TypeOK, Built
<1> QED BY <1>1, <1>2, <1>3, <1>4 DEF Contract!Tries

\* The loop and the tools: what the contract makes of the steps forward.
LEMMA ForwardImplements ==
  ASSUME IInv, Recorded, NEW i \in Steps,
         \/ CancelStep(i) \/ SkipStep(i) \/ RefuseStep(i) \/ StartStep(i)
         \/ StepCompletes(i) \/ StepCompletesTooLate(i) \/ StepFails(i) \/ StepFailsAgain(i)
  PROVE  [Contract!Next]_Contract!vars
<1>0. /\ status \in [Steps -> StepStatuses] /\ kind \in [Steps -> Kinds]
      /\ effect \in [Steps -> {"none", "applied", "reverted", "unknown"}]
      /\ planFailed <=> Broken # {}
  BY DEF IInv, TypeOK, Flags, Some, Broken
<1>1. CASE CancelStep(i) \/ SkipStep(i) \/ StartStep(i)
  <2>1. /\ status[i] = "PENDING"
        /\ \E s \in {"CANCELLED", "SKIPPED", "RUNNING"} : status' = [status EXCEPT ![i] = s]
        /\ pc = "loop" /\ pc' \in {"loop", "running"}
        /\ UNCHANGED plan /\ UNCHANGED effect /\ UNCHANGED saga
    BY <1>1 DEF CancelStep, SkipStep, StartStep, AtStep, IInv, Positions
  <2>2. Built' = Built /\ Broken' = Broken
    BY <1>0, <2>1 DEF Built, Broken
  <2>3. Phase' = Phase /\ Told' = Told
    BY <2>1 DEF Phase, Told
  <2> QED BY <2>1, <2>2, <2>3, Unseen
<1>2. CASE RefuseStep(i)
  <2>1. Contract!Tries(i)
    BY <1>2, MayTry DEF RefuseStep
  <2>2. Built' = Built /\ Broken' = Broken \union {i}
    <3>1. status[i] = "PENDING" /\ status' = [status EXCEPT ![i] = "FAILED"]
      BY <1>2 DEF RefuseStep, AtStep, IInv, Positions
    <3> QED BY <1>0, <3>1 DEF Built, Broken
  <2>3. Phase' = Phase /\ Told' = Told /\ effect' = effect
    BY <1>2 DEF RefuseStep, AtStep, Phase, Told
  <2>4. UNCHANGED Contract!plan
    BY <1>2, PlanStays DEF RefuseStep
  <2> QED BY <2>1, <2>2, <2>3, <2>4 DEF Contract!Next, Contract!Refuse
<1>3. ASSUME Awaited(i), Done(i) PROVE Contract!Done(i)
  <2>1. effect[i] = "none"
    BY <1>3, MayTry DEF Contract!Tries
  <2>2. CASE kind[i] = "reader"
    <3>1. effect' = effect
      BY <1>0, <1>3, <2>1, <2>2 DEF Done
    <3> QED BY <2>2, <3>1 DEF Contract!Done, Silent
  <2>3. CASE kind[i] # "reader"
    BY <1>3, <2>3 DEF Done, Contract!Done, Silent
  <2> QED BY <2>2, <2>3
<1>4. CASE StepCompletes(i)
  <2>1. Contract!Tries(i) /\ Contract!Done(i)
    BY <1>3, <1>4, MayTry DEF StepCompletes
  <2>2. Built' = Built \union {i} /\ Broken' = Broken
    <3>1. status[i] = "RUNNING" /\ status' = [status EXCEPT ![i] = "COMPLETED"]
      BY <1>4 DEF StepCompletes, Awaited, IInv, Positions
    <3> QED BY <1>0, <3>1 DEF Built, Broken
  <2>3. Phase' = Phase /\ Told' = Told
    BY <1>4 DEF StepCompletes, Awaited, Phase, Told
  <2>4. saga # "NONE" => Broken = {}
    BY <1>0, <1>4 DEF StepCompletes, Awaited, Recorded
  <2>5. UNCHANGED Contract!plan
    BY <1>4, PlanStays DEF StepCompletes
  <2> QED BY <2>1, <2>2, <2>3, <2>4, <2>5 DEF Contract!Next, Contract!Succeed
<1>5. CASE StepFails(i)
  <2>1. Contract!Tries(i) /\ (Contract!Done(i) \/ UNCHANGED effect)
    BY <1>3, <1>5, MayTry DEF StepFails, Attempted
  <2>2. Built' = Built /\ Broken' = Broken \union {i}
    <3>1. status[i] = "RUNNING" /\ status' = AfterFailure(i)
      BY <1>5 DEF StepFails, Awaited, IInv, Positions
    <3> QED BY <1>0, <3>1 DEF Built, Broken, AfterFailure
  <2>3. Phase' = Phase /\ Told' = Told
    BY <1>5 DEF StepFails, Awaited, Phase, Told
  <2>4. saga # "NONE" => Broken = {}
    BY <1>0, <1>5 DEF StepFails, Awaited, Recorded
  <2>5. UNCHANGED Contract!plan
    BY <1>5, PlanStays DEF StepFails
  <2> QED BY <2>1, <2>2, <2>3, <2>4, <2>5 DEF Contract!Next, Contract!Fail
<1>6. CASE StepCompletesTooLate(i) \/ StepFailsAgain(i)
  <2>1. Contract!Tries(i) /\ (Contract!Done(i) \/ UNCHANGED effect)
    BY <1>3, <1>6, MayTry DEF StepCompletesTooLate, StepFailsAgain, Attempted
  <2>2. Built' = Built /\ Broken' = Broken \union {i}
    <3>1. status[i] = "RUNNING" /\ status' = [status EXCEPT ![i] = "FAILED"]
      BY <1>6 DEF StepCompletesTooLate, StepFailsAgain, Awaited, IInv, Positions
    <3> QED BY <1>0, <3>1 DEF Built, Broken
  <2>3. Phase' = "over" /\ Told' = "REJECTED" /\ saga = "FORWARD_FAILED"
    BY <1>6 DEF StepCompletesTooLate, StepFailsAgain, Phase, Told
  <2>4. Broken # {}
    BY <1>0, <2>3 DEF IInv, SagaFollowsCall
  <2>5. UNCHANGED Contract!plan
    BY <1>6, PlanStays DEF StepCompletesTooLate, StepFailsAgain
  <2> QED BY <2>1, <2>2, <2>3, <2>4, <2>5 DEF Contract!Next, Contract!Fail
<1> QED BY <1>1, <1>2, <1>4, <1>5, <1>6

\* What the stack says of the steps that can be undone, once the walk has begun: one
\* that is on it has its effect in place until it is compensated.
LEMMA StackTells ==
  ASSUME IInv, Recorded, saga # "NONE", NEW i \in Built \intersect Undoable
  PROVE  /\ comp[i] \in Undone \union {"PENDING"}
         /\ comp[i] = "COMPENSATED" <=> effect[i] = "reverted"
         /\ comp[i] \in {"PENDING", "RUNNING"} => effect[i] = "applied"
<1>1. /\ i \in Steps /\ status[i] = "COMPLETED" /\ kind[i] \in Compensable
      /\ comp[i] \in CompStatuses /\ effect[i] \in {"none", "applied", "reverted", "unknown"}
  BY DEF Built, Undoable, IInv, TypeOK
<1>2. comp[i] \notin {"NONE", "READ_ONLY", "NOT_COMPENSABLE"}
  BY <1>1 DEF IInv, Stack, Compensable
<1>3. effect[i] # "none"
  BY <1>1 DEF Recorded, Compensable
<1> QED BY <1>1, <1>2, <1>3 DEF IInv, Effects, CompStatuses, Undone

\* A step on the stack that is to be undone next, or is being undone, is the topmost.
LEMMA TopOfStack ==
  ASSUME IInv, Recorded, NEW i \in Steps,
         \/ pc = "unwinding" /\ IsNextToUndo(i)
         \/ pc = "compensating" /\ comp[i] = "RUNNING"
  PROVE  Contract!Topmost(i)
<1>1. /\ comp[i] \in {"PENDING", "RUNNING"} /\ saga # "NONE" /\ Phase = "backward"
  BY DEF IsNextToUndo, ToCompensate, IInv, SagaFollowsCall, Phase
<1>2. i \in Built \intersect Undoable
  BY <1>1 DEF IInv, Stack, Built, Undoable, Undone
<1>3. effect[i] = "applied"
  BY <1>1, <1>2, StackTells
<1>4. ASSUME NEW j \in Built \intersect Undoable, i \in deps[j] PROVE effect[j] = "reverted"
  <2>1. j \in Steps /\ i < j
    BY <1>4 DEF Built, IInv, Ordered
  <2>2. comp[j] \in Undone \union {"PENDING"}
    BY <1>1, StackTells
  <2>3. CASE comp[i] = "RUNNING"
    <3>1. comp[j] \notin {"PENDING", "RUNNING", "FAILED", "IN_DOUBT"}
      BY <2>1, <2>3 DEF IInv, Lifo, Undone
    <3> QED BY <1>1, <2>2, <3>1, StackTells DEF Undone
  <2>4. CASE comp[i] # "RUNNING"
    <3>1. pc = "unwinding" /\ IsNextToUndo(i)
      BY <2>4
    <3>2. comp[j] # "PENDING"
      BY <2>1, <3>1 DEF IsNextToUndo, ToCompensate, Steps
    <3>3. comp[j] \notin {"RUNNING", "FAILED", "IN_DOUBT"}
      BY <2>1, <3>1 DEF IInv, Lifo
    <3> QED BY <1>1, <2>2, <3>2, <3>3, StackTells DEF Undone
  <2> QED BY <2>3, <2>4
<1> QED BY <1>1, <1>2, <1>3, <1>4 DEF Contract!Topmost

\* The compensations: what the contract makes of the steps backward.
LEMMA BackwardImplements ==
  ASSUME IInv, Recorded, NEW i \in Steps,
         \/ BeginCompensation(i) \/ CompensationMissing(i)
         \/ CompensationSucceeds(i) \/ CompensationFails(i)
  PROVE  [Contract!Next]_Contract!vars
<1>0. status' = status /\ saga' = saga /\ UNCHANGED plan
  BY DEF BeginCompensation, CompensationMissing, CompensationSucceeds, CompensationFails
<1>1. Built' = Built /\ Broken' = Broken
  BY <1>0 DEF Built, Broken
<1>2. UNCHANGED Contract!plan
  BY <1>0, PlanStays
<1>3. CASE BeginCompensation(i)
  <2>1. Phase' = Phase /\ Told' = Told /\ effect' = effect
    BY <1>3 DEF BeginCompensation, Phase, Told
  <2> QED BY <1>0, <1>1, <2>1, Unseen
<1>4. CASE CompensationMissing(i)
  <2>1. Contract!Topmost(i)
    BY <1>4, TopOfStack DEF CompensationMissing
  <2>2. Phase' = "stopped" /\ Told' = Told /\ effect' = effect
    BY <1>4 DEF CompensationMissing, Phase, Told
  <2> QED BY <1>1, <1>2, <2>1, <2>2 DEF Contract!Next, Contract!Stop
<1>5. CASE CompensationSucceeds(i)
  <2>1. Contract!Topmost(i)
    BY <1>5, TopOfStack DEF CompensationSucceeds
  <2>2. Phase' = Phase /\ Told' = Told /\ effect' = [effect EXCEPT ![i] = "reverted"]
    BY <1>5 DEF CompensationSucceeds, Phase, Told
  <2> QED BY <1>1, <1>2, <2>1, <2>2 DEF Contract!Next, Contract!Undo
<1>6. CASE CompensationFails(i)
  <2>1. Contract!Topmost(i)
    BY <1>6, TopOfStack DEF CompensationFails
  <2>2. Phase' = "stopped" /\ Told' = Told /\ effect' = [effect EXCEPT ![i] = "unknown"]
    BY <1>6 DEF CompensationFails, Phase, Told
  <2> QED BY <1>1, <1>2, <2>1, <2>2 DEF Contract!Next, Contract!Stop
<1> QED BY <1>3, <1>4, <1>5, <1>6

\* The verdict of the saga is true of the effects.
LEMMA VerdictIsTrue ==
  ASSUME IInv, Recorded, FinishCompensation
  PROVE  Contract!Answer(SagaOutcome) /\ SagaOutcome \in SagaOutcomes
<1>0. saga # "NONE"
  BY DEF FinishCompensation, IInv, SagaFollowsCall
<1>1. SagaOutcome \in SagaOutcomes
  BY DEF SagaOutcome, SagaOutcomes
<1>2. CASE pc = "finishing"
  <2>1. InSaga({"FAILED", "IN_DOUBT"}) /\ Phase = "stopped"
    BY <1>2 DEF Recorded, Phase
  <2>2. SagaOutcome \in {"IN_DOUBT", "COMPENSATION_FAILED"}
    BY <2>1 DEF SagaOutcome, InSaga
  <2> QED BY <1>1, <2>1, <2>2 DEF Contract!Answer
<1>3. CASE pc = "unwinding" /\ ToCompensate = {}
  <2>1. /\ ~InSaga({"PENDING", "RUNNING"}) /\ ~InSaga({"FAILED", "IN_DOUBT"}) /\ Phase = "backward"
        /\ \A i \in Steps : comp[i] \in CompStatuses
    BY <1>3 DEF IInv, TypeOK, Lifo, InSaga, ToCompensate, Phase
  <2>2. ASSUME NEW i \in Built \intersect Undoable PROVE effect[i] = "reverted" /\ i \in Steps
    <3>1. i \in Steps
      BY DEF Built
    <3>2. comp[i] \notin {"PENDING", "RUNNING", "FAILED", "IN_DOUBT"}
      BY <2>1, <3>1 DEF InSaga
    <3> QED BY <1>0, <3>1, <3>2, StackTells DEF Undone
  <2>3. \A i \in Steps : comp[i] = "COMPENSATED" <=> effect[i] = "reverted"
    BY DEF IInv, Effects
  <2>4. CASE InSaga({"COMPENSATED"})
    <3>1. Contract!Undone # {}
      BY <2>3, <2>4 DEF InSaga, Contract!Undone
    <3>2. SagaOutcome = "COMPENSATED"
      BY <2>1, <2>4 DEF SagaOutcome, InSaga
    <3>3. Built \intersect Undoable \subseteq Contract!Undone
      BY <2>2 DEF Contract!Undone
    <3> QED BY <1>1, <2>1, <3>1, <3>2, <3>3 DEF Contract!Answer
  <2>5. CASE ~InSaga({"COMPENSATED"})
    <3>1. Built \intersect Undoable = {}
      BY <2>2, <2>3, <2>5 DEF InSaga
    <3>2. ~InSaga({"PENDING", "RUNNING", "COMPENSATED", "FAILED", "IN_DOUBT"})
      BY <2>1, <2>5 DEF InSaga
    <3>3. InSaga({"NOT_COMPENSABLE"}) <=> ~(Built \subseteq Silent)
      <4>1. \A i \in Steps : comp[i] = "NOT_COMPENSABLE" => i \in Built \ Silent
        BY DEF IInv, Stack, Built, Silent
      <4>2. \A i \in Built \ Silent : i \in Steps /\ comp[i] = "NOT_COMPENSABLE"
        BY <1>0, <2>1, <3>2 DEF IInv, Stack, Built, Silent, InSaga, CompStatuses
      <4> QED BY <4>1, <4>2 DEF InSaga
    <3>4. SagaOutcome = IF Built \subseteq Silent THEN "COMPENSATED" ELSE "IN_DOUBT"
      BY <3>2, <3>3 DEF SagaOutcome
    <3> QED BY <1>1, <2>1, <3>1, <3>4 DEF Contract!Answer
  <2> QED BY <2>4, <2>5
<1> QED BY <1>2, <1>3 DEF FinishCompensation

\* Turning back, and the ways a call ends.
LEMMA EndImplements ==
  ASSUME IInv, Recorded,
         \/ StartCompensation \/ CompensationRefused
         \/ FinishCompensation \/ CompleteForward \/ ReturnWithoutSaga
  PROVE  [Contract!Next]_Contract!vars
<1>0. /\ status' = status /\ effect' = effect /\ UNCHANGED plan
      /\ planFailed <=> Broken # {}
  BY DEF StartCompensation, CompensationRefused, FinishCompensation, CompleteForward,
     ReturnWithoutSaga, Return, IInv, Flags, Some, Broken
<1>1. Built' = Built /\ Broken' = Broken
  BY <1>0 DEF Built, Broken
<1>2. CASE StartCompensation
  <2>1. /\ Phase = "forward" /\ Phase' = "backward" /\ Told' = Told /\ saga # "NONE" /\ saga' # "NONE"
        /\ Broken # {}
    BY <1>0, <1>2 DEF StartCompensation, ForwardEnded, Phase, Told
  <2> QED BY <1>0, <1>1, <2>1, PlanStays DEF Contract!Next, Contract!TurnBack
<1>3. ASSUME NEW a \in Contract!Answers, Contract!Answer(a), Phase' = "over", Told' = a,
             saga' = "NONE" <=> saga = "NONE"
      PROVE  Contract!Next
  BY <1>0, <1>1, <1>3, PlanStays DEF Contract!Next, Contract!End
<1>4. CASE CompensationRefused
  <2>1. Phase = "forward" /\ Phase' = "over" /\ Told' = "REJECTED" /\ saga' = saga /\ saga # "NONE"
    BY <1>4 DEF CompensationRefused, ForwardEnded, Phase, Told
  <2>2. Contract!Answer("REJECTED")
    BY <1>0, <1>4, <2>1 DEF CompensationRefused, Contract!Answer
  <2> QED BY <1>3, <2>1, <2>2 DEF Contract!Answers
<1>5. CASE FinishCompensation
  <2>1. /\ Phase' = "over" /\ saga' = SagaOutcome /\ Told' = SagaOutcome /\ saga # "NONE"
        /\ SagaOutcome # "NONE"
    BY <1>5, VerdictIsTrue
    DEF FinishCompensation, Return, Phase, Told, SagaOutcomes, IInv, SagaFollowsCall
  <2> QED BY <1>3, <1>5, <2>1, VerdictIsTrue DEF SagaOutcomes, Contract!Answers
<1>6. CASE CompleteForward
  <2>1. /\ Phase = "forward" /\ Phase' = "over" /\ Told' = "COMPLETED" /\ saga' # "NONE"
        /\ saga # "NONE" /\ Broken = {}
    BY <1>0, <1>6 DEF CompleteForward, ForwardEnded, Return, Phase, Told
  <2>2. Contract!Answer("COMPLETED")
    BY <2>1 DEF Contract!Answer
  <2> QED BY <1>3, <2>1, <2>2 DEF Contract!Answers
<1>7. CASE ReturnWithoutSaga
  <2>1. Phase = "forward" /\ Phase' = "over" /\ Told' = "REPORTED" /\ saga' = "NONE" /\ saga = "NONE"
    BY <1>7 DEF ReturnWithoutSaga, ForwardEnded, Return, Phase, Told
  <2>2. Contract!Answer("REPORTED")
    BY <2>1 DEF Contract!Answer
  <2> QED BY <1>3, <2>1, <2>2 DEF Contract!Answers
<1> QED BY <1>2, <1>4, <1>5, <1>6, <1>7

\* A call of executePlan, for a plan of any length, any tools and any failures, keeps
\* the contract: seen from outside, each of its steps is one the contract allows.
THEOREM ImplementsSagaContractCorrect == Spec => ImplementsSagaContract
<1>1. IInv /\ Recorded /\ [Next]_vars => [Contract!Next]_Contract!vars
  <2> SUFFICES ASSUME IInv, Recorded, [Next]_vars PROVE [Contract!Next]_Contract!vars
    OBVIOUS
  <2>1. CASE Cancel \/ UNCHANGED vars
    <3>1. /\ UNCHANGED plan /\ UNCHANGED effect /\ UNCHANGED saga /\ status' = status /\ pc' = pc
      BY <2>1 DEF Cancel, vars, plan
    <3>2. Built' = Built /\ Broken' = Broken /\ Phase' = Phase /\ Told' = Told
      BY <3>1 DEF Built, Broken, Phase, Told
    <3> QED BY <3>1, <3>2, Unseen
  <2> QED BY <2>1, ForwardImplements, BackwardImplements, EndImplements
          DEF Next, EngineStep, StepSettles, CompensationSettles
<1> QED BY <1>1, ContractInit, RecordedKept, Invariance, PTL
        DEF Spec, ImplementsSagaContract, Contract!Spec
================================================================================
