----------------------------- MODULE OperationRuns -----------------------------
(***************************************************************************)
(* Autonomous operations: AutonomousOperationService (create, run, cancel  *)
(* and the activeTokens map), the bounded loop of AutonomousOrchestrator   *)
(* with each of its awaits, and the reconciliation of operation rows after *)
(* a crash.                                                                *)
(*                                                                         *)
(* The platform starts an operation through executeOperation() only, which *)
(* creates it and enters run() in one synchronous segment: operation o has *)
(* one run.  An action is the code between two awaits.  The row of o is    *)
(* written when it is created, when its run has settled, by a cancellation *)
(* that finds no run, and by the recovery; it never says RUNNING.          *)
(***************************************************************************)
EXTENDS Naturals

CONSTANTS Ops,          \* operation ids
          MaxSteps,     \* budget.maxSteps of every operation
          MaxPlan,      \* bound: length of the plans the planner returns
          MaxCrashes,   \* bound: crashes of the process
          MaxThrows     \* bound: saves of a settled run that throw

ASSUME StepsAssumption == MaxSteps \in Nat \ {0} /\ MaxPlan \in Nat \ {0}
ASSUME FaultsAssumption == MaxCrashes \in Nat /\ MaxThrows \in Nat

VARIABLES
  proc,      \* "up" or "down"
  row,       \* durable: status of the operation, "ABSENT" before it is created
  rowSteps,  \* durable: consumption.stepsUsed of the row
  token,     \* activeTokens: "none", "live" or "flagged" (isCancelled)
  run,       \* run[o]: pc and local state of the run of o
  begun,     \* number of steps of o ever handed to CoreRuntime.execute
  asked,     \* where the run was when a cancellation flagged its token, or "never"
  begunThen, \* the value of begun[o] at that moment
  crashes, throws

vars == <<proc, row, rowSteps, token, run, begun, asked, begunThen, crashes, throws>>
ghosts == <<begun, asked, begunThen>>

Final == {"COMPLETED", "FAILED", "CANCELLED", "BUDGET_EXHAUSTED"}
Awaiting == {"planning", "teamBudget", "policy", "step"}
InProgress == Awaiting \union {"settled"}
RunState == [pc : InProgress \union {"idle", "returned", "rejected"},
             status : {"RUNNING"} \union Final, order : 1..MaxPlan, length : 0..MaxPlan,
             used : Nat]

NoRun == [pc |-> "idle", status |-> "RUNNING", order |-> 1, length |-> 0, used |-> 0]

Init ==
  /\ proc = "up"
  /\ row = [o \in Ops |-> "ABSENT"] /\ rowSteps = [o \in Ops |-> 0]
  /\ token = [o \in Ops |-> "none"]
  /\ run = [o \in Ops |-> NoRun]
  /\ begun = [o \in Ops |-> 0]
  /\ asked = [o \in Ops |-> "never"] /\ begunThen = [o \in Ops |-> 0]
  /\ crashes = 0 /\ throws = 0

--------------------------------------------------------------------------------
(* The loop of AutonomousOrchestrator.run.                                     *)

\* The orchestrator returns; the continuation of runOperation() is still queued.
Settled(r, status) == [r EXCEPT !.pc = "settled", !.status = status]

\* checkBudget(): overspent stands for the duration, tool call and token limits.
OutOfBudget(r, overspent) == r.used >= MaxSteps \/ overspent

\* Wrong variants of AfterStep: the check that follows execution is missing,
\* and the budget is compared with > instead of >=.
AfterStepUnchecked(r, result, flagged, overspent) ==
  LET s == [r EXCEPT !.used = @ + 1] IN
  CASE result = "CANCELLED" -> Settled(s, "CANCELLED")
    [] result = "FAILED" -> Settled(s, "FAILED")
    [] result = "COMPLETED" /\ r.order = r.length -> Settled(s, "COMPLETED")
    [] result = "COMPLETED" /\ r.order < r.length /\ OutOfBudget(s, overspent)
         -> Settled(s, "BUDGET_EXHAUSTED")
    [] OTHER -> [s EXCEPT !.pc = "teamBudget", !.order = @ + 1]
AfterStepOffByOne(r, result, flagged, overspent) ==
  LET s == [r EXCEPT !.used = @ + 1] IN
  CASE flagged -> Settled(s, "CANCELLED")
    [] ~flagged /\ result = "CANCELLED" -> Settled(s, "CANCELLED")
    [] ~flagged /\ result = "FAILED" -> Settled(s, "FAILED")
    [] ~flagged /\ result = "COMPLETED" /\ r.order = r.length -> Settled(s, "COMPLETED")
    [] ~flagged /\ result = "COMPLETED" /\ r.order < r.length /\ s.used > MaxSteps
         -> Settled(s, "BUDGET_EXHAUSTED")
    [] OTHER -> [s EXCEPT !.pc = "teamBudget", !.order = @ + 1]

\* The segment after runtime.execute() resolves: recordStep, the cancellation
\* check, the objective (achieved by the last step of the plan), the rules of
\* DeterministicDecisionEvaluator, and the next turn of the loop.
AfterStep(r, result, flagged, overspent) ==
  LET s == [r EXCEPT !.used = @ + 1]
      spent == OutOfBudget(s, overspent)
  IN
  CASE flagged -> Settled(s, "CANCELLED")
    [] ~flagged /\ result = "CANCELLED" ->
         Settled(s, IF spent THEN "BUDGET_EXHAUSTED" ELSE "CANCELLED")
    [] ~flagged /\ result = "FAILED" -> Settled(s, "FAILED")
    [] ~flagged /\ result = "COMPLETED" /\ r.order = r.length -> Settled(s, "COMPLETED")
    [] ~flagged /\ result = "COMPLETED" /\ r.order # r.length ->
         IF spent THEN Settled(s, "BUDGET_EXHAUSTED")
                  ELSE [s EXCEPT !.pc = "teamBudget", !.order = @ + 1]

\* The run of o resumes from the await it is suspended in, in local state r.
Resume(o, at, r) ==
  /\ proc = "up" /\ run[o].pc = at
  /\ run' = [run EXCEPT ![o] = r]
  /\ UNCHANGED <<proc, row, rowSteps, token, asked, begunThen, crashes, throws>>

\* planner.plan() resolves with a valid plan of n steps; the cancellation check
\* at the top of the loop comes before the first step.
PlanArrives(o) == \E n \in 1..MaxPlan :
  LET r == [run[o] EXCEPT !.length = n] IN
  /\ Resume(o, "planning", IF token[o] = "flagged" THEN Settled(r, "CANCELLED")
                                                   ELSE [r EXCEPT !.pc = "teamBudget"])
  /\ UNCHANGED begun

\* The planner throws, or returns an invalid plan.
PlanFails(o) == Resume(o, "planning", Settled(run[o], "FAILED")) /\ UNCHANGED begun

\* The memberships of the agent and evaluateAndConsume() are awaited.
TeamBudgetAllows(o) ==
  Resume(o, "teamBudget", [run[o] EXCEPT !.pc = "policy"]) /\ UNCHANGED begun
TeamBudgetDenies(o) ==
  \E status \in {"BUDGET_EXHAUSTED", "FAILED"} :   \* no allowance; no active team
     Resume(o, "teamBudget", Settled(run[o], status)) /\ UNCHANGED begun

\* The policy allows the step, which is handed to CoreRuntime at once.
PolicyAllows(o) == /\ Resume(o, "policy", [run[o] EXCEPT !.pc = "step"])
                   /\ begun' = [begun EXCEPT ![o] = @ + 1]
PolicyDenies(o) == Resume(o, "policy", Settled(run[o], "FAILED")) /\ UNCHANGED begun

StepEnds(o) == \E result \in {"COMPLETED", "FAILED", "CANCELLED"}, overspent \in BOOLEAN :
  /\ Resume(o, "step", AfterStep(run[o], result, token[o] = "flagged", overspent))
  /\ UNCHANGED begun

\* CoreRuntime.execute() rejects: no step is recorded.
StepThrows(o) == Resume(o, "step", Settled(run[o], "FAILED")) /\ UNCHANGED begun

--------------------------------------------------------------------------------
(* AutonomousOperationService.                                                 *)

\* executeOperation(): the row is created and the run reaches its first await
\* before anything else happens.
Execute(o) ==
  /\ proc = "up" /\ row[o] = "ABSENT"
  /\ row' = [row EXCEPT ![o] = "SUBMITTED"]
  /\ token' = [token EXCEPT ![o] = "live"]
  /\ run' = [run EXCEPT ![o] = [NoRun EXCEPT !.pc = "planning"]]
  /\ UNCHANGED <<proc, rowSteps, begun, asked, begunThen, crashes, throws>>

\* The token leaves the map in the same segment that saves the result.
SaveRun(o) ==
  /\ proc = "up" /\ run[o].pc = "settled"
  /\ token' = [token EXCEPT ![o] = "none"]
  /\ row' = [row EXCEPT ![o] = run[o].status]
  /\ rowSteps' = [rowSteps EXCEPT ![o] = run[o].used]
  /\ run' = [run EXCEPT ![o].pc = "returned"]
  /\ UNCHANGED <<proc, ghosts, crashes, throws>>

\* The run rejects (a repository or the team budget throws, or an error has an
\* empty message, which operation.fail() refuses): the token is removed, and
\* nothing is saved.
Reject(o) ==
  /\ token' = [token EXCEPT ![o] = "none"]
  /\ run' = [run EXCEPT ![o].pc = "rejected"]
  /\ UNCHANGED <<proc, row, rowSteps, ghosts, crashes>>
RunRejects(o) == proc = "up" /\ run[o].pc \in Awaiting /\ Reject(o) /\ UNCHANGED throws
SaveThrows(o) == /\ proc = "up" /\ run[o].pc = "settled" /\ throws < MaxThrows
                 /\ Reject(o) /\ throws' = throws + 1

\* Wrong variant: the row is cancelled although the operation has ended.
CancelEnded(o) ==
  /\ proc = "up" /\ row[o] # "ABSENT" /\ token[o] = "none"
  /\ row' = [row EXCEPT ![o] = "CANCELLED"]
  /\ UNCHANGED <<proc, rowSteps, token, run, ghosts, crashes, throws>>

\* cancelOperation() finds no run: SUBMITTED -> RUNNING -> CANCELLED, saved once.
CancelSubmitted(o) ==
  /\ proc = "up" /\ row[o] = "SUBMITTED" /\ token[o] = "none"
  /\ row' = [row EXCEPT ![o] = "CANCELLED"]
  /\ UNCHANGED <<proc, rowSteps, token, run, ghosts, crashes, throws>>

\* cancelOperation() finds a run: it flags the token and returns.
CancelRunning(o) ==
  /\ proc = "up" /\ row[o] = "SUBMITTED" /\ token[o] = "live"
  /\ token' = [token EXCEPT ![o] = "flagged"]
  /\ asked' = [asked EXCEPT ![o] = run[o].pc]
  /\ begunThen' = [begunThen EXCEPT ![o] = begun[o]]
  /\ UNCHANGED <<proc, row, rowSteps, run, begun, crashes, throws>>

--------------------------------------------------------------------------------
Crash ==
  /\ proc = "up" /\ crashes < MaxCrashes
  /\ proc' = "down" /\ crashes' = crashes + 1
  /\ token' = [o \in Ops |-> "none"]
  /\ run' = [o \in Ops |-> NoRun]
  /\ UNCHANGED <<row, rowSteps, ghosts, throws>>

\* Wrong variant: only RUNNING rows are looked for.
RecoveredRunningOnly(s) == IF s = "RUNNING" THEN "FAILED" ELSE s

\* RestartRecoveryService.reconcile(), third part.  Its RUNNING branch is there,
\* but no row ever says RUNNING.
RecoveredOperation(s) == CASE s = "RUNNING" -> "FAILED"
                           [] s = "SUBMITTED" -> "CANCELLED"
                           [] OTHER -> s
Restart ==
  /\ proc = "down" /\ proc' = "up"
  /\ row' = [o \in Ops |-> RecoveredOperation(row[o])]
  /\ UNCHANGED <<rowSteps, token, run, ghosts, crashes, throws>>

--------------------------------------------------------------------------------
RunStep(o) ==
  \/ PlanArrives(o) \/ PlanFails(o)
  \/ TeamBudgetAllows(o) \/ TeamBudgetDenies(o)
  \/ PolicyAllows(o) \/ PolicyDenies(o)
  \/ StepEnds(o) \/ StepThrows(o)
  \/ SaveRun(o)

Next ==
  \/ \E o \in Ops : \/ Execute(o) \/ RunStep(o) \/ RunRejects(o) \/ SaveThrows(o)
                    \/ CancelSubmitted(o) \/ CancelRunning(o)
  \/ Crash \/ Restart

Spec == Init /\ [][Next]_vars

\* Everything a run awaits is a call with a timeout (model, policy, tools), and
\* Node.js runs the continuation of a settled promise; a supervisor restarts the
\* process.  Nothing obliges a client to submit or cancel.
FairSpec == Spec /\ (\A o \in Ops : WF_vars(RunStep(o))) /\ WF_vars(Restart)

--------------------------------------------------------------------------------
(* Properties.                                                                 *)

\* Every variable keeps its shape; in particular no row says RUNNING.
TypeOK ==
  /\ proc \in {"up", "down"}
  /\ row \in [Ops -> {"ABSENT", "SUBMITTED"} \union Final]
  /\ rowSteps \in [Ops -> Nat]
  /\ token \in [Ops -> {"none", "live", "flagged"}]
  /\ run \in [Ops -> RunState]
  /\ begun \in [Ops -> Nat]
  /\ asked \in [Ops -> InProgress \union {"never"}]
  /\ begunThen \in [Ops -> Nat]
  /\ crashes \in Nat /\ throws \in Nat

\* The activeTokens map has an entry exactly while a run of the operation is in
\* progress, and while it has one the row is still SUBMITTED: this is what lets
\* cancelOperation() tell a running operation from one that is not.
TokenTracksRun ==
  \A o \in Ops : /\ token[o] # "none" <=> run[o].pc \in InProgress
                 /\ token[o] # "none" => row[o] = "SUBMITTED"

\* No operation hands more steps to CoreRuntime than its budget allows, and the
\* row never claims more steps than were begun.
StepsWithinBudget ==
  \A o \in Ops : begun[o] <= MaxSteps /\ rowSteps[o] <= begun[o]

\* A cancellation that reached a run before it settled is never answered by a
\* COMPLETED operation, whatever the run was waiting for; and a cancelled run begins
\* no further step, except the one it was already seeking an allowance or a policy
\* decision for.
CancelIsHonoured ==
  \A o \in Ops :
    /\ asked[o] \in Awaiting => row[o] # "COMPLETED"
    /\ asked[o] # "never" =>
         begun[o] <= begunThen[o] + (IF asked[o] \in {"teamBudget", "policy"} THEN 1 ELSE 0)

\* No step rewrites the row of an operation that has ended, although save()
\* is called without an expected version.
TerminalIsFinal == [][\A o \in Ops : row[o] \in Final => row'[o] = row[o]]_vars

\* The record of an operation keeps what a client is promised of it: it is accepted and
\* ends once, what it is charged is within its budget and written with its end, and a
\* cancellation that reached the run in time rules out that it completes.
Store == INSTANCE OperationStore
         WITH status <- row, used <- rowSteps, promised <- {o \in Ops : asked[o] \in Awaiting}
ImplementsOperationStore == Store!Spec

\* Every accepted operation ends, or its run rejected and left it SUBMITTED to
\* a cancellation or the next restart.
EveryOperationEnds ==
  \A o \in Ops : row[o] = "SUBMITTED" ~> row[o] \in Final \/ run[o].pc = "rejected"
================================================================================
