------------------------------ MODULE WorkflowRuns ------------------------------
(***************************************************************************)
(* One workflow instance: the stored row, any number of concurrent calls   *)
(* of WorkflowOrchestratorService.advanceWorkflow, the operators who       *)
(* pause, resume and cancel it, and verdicts given from outside by         *)
(* verifyStepResult (the verification API, or an approval decision of      *)
(* HumanOversightService, which marks the step in the same way).           *)
(*                                                                         *)
(* Every write goes through instanceRepo.save(), which compares versions.  *)
(* Versions are not modelled as numbers: behind[a] is how many versions    *)
(* the copy of call a is behind the row, with 2 for "2 or more".  That is  *)
(* exact, because a copy is compared with the row after at most one bump   *)
(* that was not saved.  An operation that reads the row, changes its copy  *)
(* and saves it with nothing else in between is one action: if the row     *)
(* moved between its read and its save, the save is refused and nothing    *)
(* changes.                                                                *)
(*                                                                         *)
(* The repositories are those of SQLite, which composition.ts wires when   *)
(* there is a database.  What they return is not what was saved: a read    *)
(* of the instance drops the verdict of every step, a read of the          *)
(* definition drops the verification rules.  So executeStep never finds a  *)
(* rule and never verifies, and no verdict outlives the next save.         *)
(***************************************************************************)
EXTENDS Naturals, FiniteSets

CONSTANTS
  Calls,       \* concurrent calls of advanceWorkflow
  N,           \* the steps are 1..N, in their order
  Deps,        \* Deps[s]: dependsOn
  MaxRetries,  \* MaxRetries[s]
  Rules        \* steps saved with a verificationRule: no read returns it

Steps == 1..N

ASSUME WorkflowAssumption ==
  /\ N \in Nat \ {0}
  /\ Deps \in [Steps -> SUBSET Steps]
  /\ MaxRetries \in [Steps -> Nat]
  /\ Rules \subseteq Steps

\* A process has finitely many requests in progress.
ASSUME CallsAreFinite == IsFiniteSet(Calls)

VARIABLES
  stored,  \* the row of workflow_instances
  call     \* the local variables of each call in progress

vars == <<stored, call>>

Status == {"RUNNING", "PAUSED", "COMPLETED", "FAILED", "CANCELLED"}
Terminal == {"COMPLETED", "FAILED", "CANCELLED"}
StepStatus == {"PENDING", "ASSIGNING", "DISPATCHED", "RUNNING", "COMPLETED", "FAILED"}
Instance == [status : Status, step : [Steps -> StepStatus],
             attempts : [Steps -> Nat], verdict : [Steps -> {"NONE", "PASS", "FAIL"}]]

\* pc: position; copy: updatedInstance; behind: how far copy is behind the row;
\* todo: the rest of runnableStepIds, the current step included; moved: somebody
\* else wrote the row since runnableStepIds was computed.
Call == [pc : {"returned", "preflight", "policy", "dispatched", "running", "catch",
               "completed", "reload", "complete"},
         copy : Instance, behind : 0..2, todo : SUBSET Steps, moved : BOOLEAN]

Unjudged == [s \in Steps |-> "NONE"]

\* startWorkflow() has created and started the instance.
Started == [status |-> "RUNNING", step |-> [s \in Steps |-> "PENDING"],
            attempts |-> [s \in Steps |-> 0], verdict |-> Unjudged]

\* No call: nothing is kept from one call to the next.
Returned == [pc |-> "returned", copy |-> Started, behind |-> 0, todo |-> {}, moved |-> FALSE]

Init == stored = Started /\ call = [a \in Calls |-> Returned]

--------------------------------------------------------------------------------
(* WorkflowInstance.                                                           *)

\* getNextRunnableStepIds() also asks for a PASS where the dependency has a
\* verificationRule; mapRowToDefinition() copies every field of a step but that one.
DependencyDone(i, d) == i.step[d] = "COMPLETED"

Runnable(i, s) ==
  i.step[s] = "PENDING" /\ \A d \in Deps[s] : DependencyDone(i, d)

\* Wrong variant: a dependency only has to have been taken up.
RunnableEarly(i) ==
  {s \in Steps : i.step[s] = "PENDING" /\ \A d \in Deps[s] : i.step[d] # "PENDING"}

getNextRunnableStepIds(i) == {s \in Steps : Runnable(i, s)}

\* Wrong variant: nothing is left to start.
IsDrained(i) == \A s \in Steps : i.step[s] # "PENDING"

isCompleted(i) == \A s \in Steps : i.step[s] = "COMPLETED"

mark(i, s, status) == [i EXCEPT !.step[s] = status]

markStepDispatched(i, s) ==
  [i EXCEPT !.step[s] = "DISPATCHED", !.attempts[s] = @ + 1]

\* Wrong variant: the attempts made are not looked at.
RetriesAlways(i, s) == MaxRetries[s] > 0

willRetry(i, s) == i.attempts[s] < MaxRetries[s]

\* A step with attempts left goes back to PENDING and the status of the instance
\* is kept, whatever it is; otherwise both fail, whatever they were.
markStepFailed(i, s) ==
  IF willRetry(i, s) THEN mark(i, s, "PENDING")
  ELSE [mark(i, s, "FAILED") EXCEPT !.status = "FAILED"]

\* markStepVerified and markStepVerificationFailed
judged(i, s, verdict) ==
  IF verdict = "PASS" THEN [i EXCEPT !.verdict[s] = "PASS"]
  ELSE [markStepFailed(i, s) EXCEPT !.verdict[s] = "FAIL"]

--------------------------------------------------------------------------------
(* instanceRepo.findById() and save()                                          *)

\* What a reader gets of a row: no verdicts, so that the next save of whoever read it
\* writes the row without them.
mapRowToInstance(row) == [row EXCEPT !.verdict = Unjudged]

findById == mapRowToInstance(stored)

\* Wrong variant: the writer forgot to bump the version.
OvertakenSilently(c) == IF c = Returned THEN c ELSE [c EXCEPT !.moved = TRUE]

\* The row was written by somebody else.
Overtaken(c) ==
  IF c = Returned THEN c
  ELSE [c EXCEPT !.behind = IF @ = 2 THEN 2 ELSE @ + 1, !.moved = TRUE]

\* Call a writes i, and its local variables become c.
Write(a, i, c) ==
  /\ stored' = i
  /\ call' = [b \in Calls |-> IF b = a THEN c ELSE Overtaken(call[b])]

\* Wrong variant: UPDATE ... WHERE id = ? without the version.
Whichever(a) == TRUE

Current(a) == call[a].behind = 0

\* Call a goes on with local variables c; the row is not written.
Continue(a, c) == call' = [call EXCEPT ![a] = c] /\ UNCHANGED stored

\* Call a saves i and goes on at place p.
Saves(a, i, p) ==
  /\ Current(a)
  /\ Write(a, i, [call[a] EXCEPT !.copy = i, !.pc = p])

\* WorkflowConcurrencyConflictError leaves advanceWorkflow.
ConflictRejects(a) == ~Current(a) /\ Continue(a, Returned)

\* The same error inside the try of executeStep: the catch block takes over with i,
\* whose version was bumped though it was not saved.
ConflictIsCaught(a, i) ==
  /\ ~Current(a)
  /\ Continue(a, [call[a] EXCEPT !.copy = i, !.behind = @ - 1, !.pc = "catch"])

--------------------------------------------------------------------------------
(* advanceWorkflow                                                             *)

\* The local variables of a call that has just read the row, at place p.
Loaded(p, list, since) ==
  [pc |-> p, copy |-> findById, behind |-> 0, todo |-> list, moved |-> since]

NextRound ==
  LET runnable == getNextRunnableStepIds(findById) IN
  IF runnable # {} THEN Loaded("preflight", runnable, FALSE)
  ELSE IF isCompleted(findById) THEN Loaded("complete", {}, FALSE) ELSE Returned

Advance(a) ==
  /\ call[a] = Returned
  /\ stored.status = "RUNNING"
  /\ Continue(a, NextRound)

Step(a) == CHOOSE s \in call[a].todo : \A t \in call[a].todo : s <= t

\* The steps of a list are taken one after the other, each from a fresh copy, but
\* whether they are still runnable is not asked again.
AfterReload(a) ==
  LET remaining == call[a].todo \ {Step(a)} IN
  IF stored.status # "RUNNING" THEN Returned
  ELSE IF remaining # {} THEN Loaded("preflight", remaining, call[a].moved)
  ELSE NextRound

Reload(a) ==
  /\ call[a].pc = "reload"
  /\ Continue(a, AfterReload(a))

Complete(a) ==
  /\ call[a].pc = "complete"
  /\ \/ Current(a) /\ Write(a, [call[a].copy EXCEPT !.status = "COMPLETED"], Returned)
     \/ ConflictRejects(a)

--------------------------------------------------------------------------------
(* executeStep, outside its try.                                               *)

Marked(a, status) == mark(call[a].copy, Step(a), status)
Failed(a) == markStepFailed(call[a].copy, Step(a))

\* No eligible agent, segregation of duties, cross-enterprise authority: the step
\* fails before it was dispatched, so its attempts are not counted.
Refuse(a) ==
  /\ call[a].pc = "preflight"
  /\ Saves(a, Failed(a), "reload") \/ ConflictRejects(a)

Assign(a) ==
  /\ call[a].pc = "preflight"
  /\ Saves(a, Marked(a, "ASSIGNING"), "policy") \/ ConflictRejects(a)

\* Policy or team budget
Deny(a) ==
  /\ call[a].pc = "policy"
  /\ Saves(a, Failed(a), "reload") \/ ConflictRejects(a)

Dispatch(a) ==
  /\ call[a].pc = "policy"
  /\ \/ Saves(a, markStepDispatched(call[a].copy, Step(a)), "dispatched")
     \/ ConflictRejects(a)

Execute(a) ==
  /\ call[a].pc = "dispatched"
  /\ Saves(a, Marked(a, "RUNNING"), "running") \/ ConflictRejects(a)

--------------------------------------------------------------------------------
(* executeStep, inside its try: runtime.execute() is awaited at "running".     *)

Succeed(a) ==
  /\ call[a].pc = "running"
  /\ \/ Saves(a, Marked(a, "COMPLETED"), "completed")
     \/ ConflictIsCaught(a, Marked(a, "COMPLETED"))

Fail(a) ==
  /\ call[a].pc = "running"
  /\ Saves(a, Failed(a), "reload") \/ ConflictIsCaught(a, Failed(a))

\* Whatever throws inside the try: runtime.execute(), the approval request, the metrics.
Throw(a) ==
  /\ call[a].pc \in {"running", "completed"}
  /\ Continue(a, [call[a] EXCEPT !.pc = "catch"])

Catch(a) ==
  /\ call[a].pc = "catch"
  /\ Saves(a, Failed(a), "reload") \/ ConflictRejects(a)

\* The step as read has no rule, so it is not verified; the approval request is filed
\* and the metrics are recorded: executeStep returns.
FinishStep(a) ==
  /\ call[a].pc = "completed"
  /\ Continue(a, [call[a] EXCEPT !.pc = "reload"])

--------------------------------------------------------------------------------
(* The other writers.                                                          *)

WriteFromOutside(i) ==
  /\ stored' = i
  /\ call' = [b \in Calls |-> Overtaken(call[b])]

Pause ==
  /\ stored.status = "RUNNING"
  /\ WriteFromOutside([findById EXCEPT !.status = "PAUSED"])

Resume ==
  /\ stored.status = "PAUSED"
  /\ WriteFromOutside([findById EXCEPT !.status = "RUNNING"])

Cancel ==
  /\ stored.status \notin Terminal
  /\ WriteFromOutside([findById EXCEPT !.status = "CANCELLED"])

\* POST /verifications, or an approval decided: neither asks for the state of the
\* step or of the instance.
Judge(s, verdict) == WriteFromOutside(judged(findById, s, verdict))

\* The process dies and its calls with it; a restart resumes nothing.
Crash ==
  /\ call' = [a \in Calls |-> Returned]
  /\ UNCHANGED stored

CallStep(a) ==
  \/ Reload(a) \/ Complete(a) \/ Refuse(a) \/ Assign(a) \/ Deny(a) \/ Dispatch(a)
  \/ Execute(a) \/ Succeed(a) \/ Fail(a) \/ Throw(a) \/ Catch(a) \/ FinishStep(a)

Next ==
  \/ \E a \in Calls : Advance(a) \/ CallStep(a)
  \/ Pause \/ Resume \/ Cancel
  \/ \E s \in Steps, v \in {"PASS", "FAIL"} : Judge(s, v)
  \/ Crash

Spec == Init /\ [][Next]_vars

\* What a call awaits settles: the services are local, and the runtime's own calls
\* time out.
FairSpec == Spec /\ \A a \in Calls : WF_vars(CallStep(a))

--------------------------------------------------------------------------------
(* Properties                                                                  *)

\* Every variable keeps its shape.
TypeOK ==
  /\ stored \in Instance
  /\ call \in [Calls -> Call]

\* Nothing serialises concurrent advanceWorkflow calls, and several may be executing
\* steps at once, even the same one; but at most one of them can still save.
OneWriter ==
  \A a, b \in Calls :
    a # b /\ {call[a].pc, call[b].pc} \subseteq {"policy", "dispatched", "running", "completed"}
    => ~(Current(a) /\ Current(b))

\* The catch block of executeStep saves: the one write that the version check does
\* not protect, because its copy was bumped twice since the row was read.
CatchSaves == \E a \in Calls : call[a].pc = "catch" /\ call'[a].pc = "reload"

\* A pause, a cancellation and an outcome stand: apart from an operator, only a
\* failing verdict (markStepVerificationFailed rewrites terminal instances) and that
\* catch block take them back.
DecisionsStand ==
  [][stored.status # "RUNNING" /\ stored'.status # stored.status =>
       \/ Resume \/ Cancel
       \/ \E s \in Steps : stored' = judged(findById, s, "FAIL")
       \/ CatchSaves]_vars

\* What was recorded of a step stands: attempts only grow, and a completed step is
\* taken back only by a failing verdict, by the catch block, or by a call whose list is
\* out of date.  (Verdicts do not stand: see mapRowToInstance.)
RecordsStand ==
  [][\/ CatchSaves
     \/ \A s \in Steps :
          /\ stored'.attempts[s] >= stored.attempts[s]
          /\ stored.step[s] = "COMPLETED" /\ stored'.step[s] # "COMPLETED" =>
               \/ stored' = judged(findById, s, "FAIL")
               \/ \E a \in Calls : call[a].pc = "preflight" /\ call[a].moved /\ Step(a) = s]_vars

\* A step is taken up only when the row says it is pending and its dependencies are
\* completed; whether they were verified is VerifiedFirst.  The list a call works
\* through was computed before its earlier steps were awaited, and is not looked at
\* again: a call whose list others have overtaken is the exception, and it starts steps
\* twice or too early.
DependenciesGate ==
  [][\A s \in Steps :
       stored.step[s] # "ASSIGNING" /\ stored'.step[s] = "ASSIGNING" =>
         \/ Runnable(stored, s)
         \/ CatchSaves
         \/ \E a \in Calls : call[a].pc = "preflight" /\ call[a].moved /\ Step(a) = s]_vars

\* "Dependent workflow steps cannot execute unless their preceding prerequisite steps
\* have achieved verificationVerdict PASS": not where the repository drops both the rule
\* and the verdict.
VerifiedFirst ==
  [][\A s \in Steps :
       stored.step[s] # "ASSIGNING" /\ stored'.step[s] = "ASSIGNING" =>
         \A d \in Deps[s] \intersect Rules : stored.verdict[d] = "PASS"]_vars

AtLeastOne(n) == IF n = 0 THEN 1 ELSE n

\* Such lists let a step be dispatched more often than maxRetries allows, but only
\* once more for each other call.
AttemptsBounded ==
  \A s \in Steps : stored.attempts[s] < AtLeastOne(MaxRetries[s]) + Cardinality(Calls)

\* An instance is completed only from RUNNING, with every step completed in the row:
\* not on the strength of a copy.
CompletedWhole ==
  [][stored.status # "COMPLETED" /\ stored'.status = "COMPLETED" =>
       stored.status = "RUNNING" /\ \A s \in Steps : stored.step[s] = "COMPLETED"]_vars

\* "Bounded step retries": a call of advanceWorkflow returns.  It does not when a step
\* with retries is refused or denied each time, since only a dispatch counts as an
\* attempt.
BoundedRetries == \A a \in Calls : call[a] # Returned ~> call[a] = Returned

================================================================================
