-------------------------- MODULE OperationRunsProofs --------------------------
(***************************************************************************)
(* What OperationRuns guarantees for every set of operations, every budget *)
(* and any number of crashes: cancellations are honoured, the step budget  *)
(* is never exceeded and rows that have ended stay as they are.            *)
(***************************************************************************)
EXTENDS OperationRuns, TLAPS

\* The inductive invariant, for one operation.  The conjuncts say: the token
\* tells whether a run is in progress; a run has a status exactly when it is
\* over; the steps begun are the steps recorded, plus the one in CoreRuntime;
\* a flagged run has not completed and has begun at most the step it was after.
Lifecycles(o) ==
  /\ token[o] # "none" <=> run[o].pc \in InProgress
  /\ run[o].pc \in InProgress => row[o] = "SUBMITTED"
  /\ row[o] = "ABSENT" => run[o].pc = "idle" /\ begun[o] = 0 /\ asked[o] = "never"
  /\ proc = "down" => run[o].pc = "idle"
Statuses(o) ==
  /\ run[o].pc \in Awaiting => run[o].status = "RUNNING"
  /\ run[o].pc \in {"settled", "returned"} => run[o].status \in Final
  /\ run[o].pc = "returned" => row[o] = run[o].status
  /\ run[o].pc = "planning" => run[o].order = 1
  /\ run[o].pc \in {"teamBudget", "policy", "step"} => run[o].order <= run[o].length
Budgets(o) ==
  /\ begun[o] <= MaxSteps /\ rowSteps[o] <= begun[o]
  /\ run[o].pc \in Awaiting =>
       /\ run[o].used < MaxSteps
       /\ begun[o] = run[o].used + (IF run[o].pc = "step" THEN 1 ELSE 0)
  /\ run[o].pc = "planning" => begun[o] = 0
  /\ run[o].pc = "settled" => run[o].used <= begun[o]
Cancellations(o) ==
  /\ asked[o] \in Awaiting => row[o] # "COMPLETED"
  /\ asked[o] # "never" /\ run[o].pc \in InProgress => token[o] = "flagged"
  /\ token[o] = "flagged" => asked[o] # "never"
  /\ asked[o] \in Awaiting /\ run[o].pc = "settled" => run[o].status # "COMPLETED"
  /\ asked[o] = "settled" /\ run[o].pc \in InProgress => run[o].pc = "settled"
  /\ asked[o] \in {"planning", "step", "settled"} => begun[o] = begunThen[o]
  /\ asked[o] \in {"planning", "step"} /\ run[o].pc \in Awaiting => run[o].pc = asked[o]
  /\ asked[o] \in {"teamBudget", "policy"} =>
       /\ begun[o] \in {begunThen[o], begunThen[o] + 1}
       /\ run[o].pc \in {"teamBudget", "policy"} => begun[o] = begunThen[o]
       /\ run[o].pc # "planning"
OpInv(o) == Lifecycles(o) /\ Statuses(o) /\ Budgets(o) /\ Cancellations(o)
IInv == TypeOK /\ \A o \in Ops : OpInv(o)

\* It holds initially.
LEMMA IInvInit == Init => IInv
BY StepsAssumption
DEF Init, IInv, OpInv, Lifecycles, Statuses, Budgets, Cancellations, TypeOK, NoRun, RunState,
    InProgress, Awaiting, Final

\* Where the segment after a step leaves the local state of a run.
LEMMA AfterStepOutcome ==
  ASSUME NEW r \in RunState, r.status = "RUNNING", r.order <= r.length,
         NEW result \in {"COMPLETED", "FAILED", "CANCELLED"},
         NEW o \in Ops, NEW overspent \in BOOLEAN,
         NEW s, s = AfterStep(r, result, token[o] = "flagged", overspent)
  PROVE  /\ s \in RunState
         /\ s.used = r.used + 1
         /\ \/ s.pc = "settled" /\ s.status \in Final
            \/ /\ s.pc = "teamBudget" /\ s.status = "RUNNING"
               /\ s.used < MaxSteps /\ s.order <= s.length
         /\ token[o] = "flagged" => s.pc = "settled" /\ s.status = "CANCELLED"
<1> DEFINE u == [r EXCEPT !.used = @ + 1]
<1>1. u \in RunState /\ u.used = r.used + 1 /\ u.status = "RUNNING"
  BY DEF RunState
<1>2. \A status \in Final : /\ Settled(u, status) \in RunState
                            /\ Settled(u, status).pc = "settled"
                            /\ Settled(u, status).status = status
                            /\ Settled(u, status).used = r.used + 1
  BY <1>1 DEF Settled, RunState, InProgress
<1>3. CASE \E status \in Final : s = Settled(u, status) /\ (token[o] = "flagged" => status = "CANCELLED")
  BY <1>2, <1>3
<1>4. CASE /\ token[o] # "flagged" /\ r.order # r.length /\ ~OutOfBudget(u, overspent)
           /\ s = [u EXCEPT !.pc = "teamBudget", !.order = @ + 1]
  <2>1. r.order + 1 \in 1..MaxPlan /\ r.order + 1 <= r.length
    BY <1>4, StepsAssumption DEF RunState
  <2>2. u.used < MaxSteps
    BY <1>1, <1>4, StepsAssumption DEF OutOfBudget, RunState
  <2> QED
    BY <1>1, <1>4, <2>1, <2>2 DEF RunState, InProgress, Awaiting
<1> QED
  BY <1>3, <1>4 DEF AfterStep, Final

\* A step of one operation does not disturb the invariant of another.
LEMMA OthersUndisturbed ==
  ASSUME IInv, NEW o \in Ops, TypeOK', OpInv(o)', proc' = proc,
         \A u \in Ops \ {o} :
            /\ row'[u] = row[u] /\ rowSteps'[u] = rowSteps[u] /\ token'[u] = token[u]
            /\ run'[u] = run[u] /\ begun'[u] = begun[u]
            /\ asked'[u] = asked[u] /\ begunThen'[u] = begunThen[u]
  PROVE  IInv'
<1>1. ASSUME NEW u \in Ops \ {o} PROVE OpInv(u)'
  BY <1>1 DEF IInv, OpInv, Lifecycles, Statuses, Budgets, Cancellations
<1> QED
  BY <1>1 DEF IInv

\* A run resumes: only its local state and the count of begun steps change.
LEMMA ResumeInv ==
  ASSUME IInv, NEW o \in Ops, NEW at \in Awaiting, NEW r \in RunState, Resume(o, at, r),
         begun' \in [Ops -> Nat], \A u \in Ops \ {o} : begun'[u] = begun[u],
         r.pc \in InProgress,
         r.pc \in Awaiting => r.status = "RUNNING" /\ r.used < MaxSteps
                              /\ r.pc # "planning" /\ r.order <= r.length
                              /\ begun'[o] = r.used + (IF r.pc = "step" THEN 1 ELSE 0),
         r.pc = "settled" => r.status \in Final /\ r.used <= begun'[o],
         \/ begun'[o] = begun[o] /\ r.pc # "step"
         \/ begun'[o] = begun[o] + 1 /\ at = "policy" /\ r.pc = "step",
         token[o] = "flagged" => /\ r.status # "COMPLETED"
                                 /\ at \in {"planning", "step"} => r.pc = "settled"
  PROVE  IInv'
<1>1. OpInv(o) /\ TypeOK
  BY DEF IInv
<1>2. TypeOK'
  BY <1>1 DEF Resume, TypeOK
<1>3. /\ proc' = proc /\ row' = row /\ rowSteps' = rowSteps /\ token' = token
      /\ asked' = asked /\ begunThen' = begunThen
      /\ run[o].pc = at /\ run'[o] = r
      /\ \A u \in Ops \ {o} : run'[u] = run[u]
  BY <1>1 DEF Resume, TypeOK
<1>4. Lifecycles(o)'
  BY <1>1, <1>3 DEF OpInv, Lifecycles, InProgress, Awaiting
<1>5. Statuses(o)'
  BY <1>3 DEF Statuses, InProgress, Awaiting
<1>6. Budgets(o)'
  BY <1>1, <1>2, <1>3, StepsAssumption DEF OpInv, Budgets, TypeOK, RunState, Awaiting, InProgress
<1>7. Cancellations(o)'
  BY <1>1, <1>2, <1>3 DEF OpInv, Cancellations, Lifecycles, TypeOK, InProgress, Awaiting
<1> QED
  BY <1>2, <1>3, <1>4, <1>5, <1>6, <1>7, OthersUndisturbed DEF OpInv

\* Every await of the loop may resume.
LEMMA LoopInv ==
  ASSUME IInv, NEW o \in Ops,
         \/ PlanArrives(o) \/ PlanFails(o) \/ TeamBudgetAllows(o) \/ TeamBudgetDenies(o)
         \/ PolicyAllows(o) \/ PolicyDenies(o) \/ StepEnds(o) \/ StepThrows(o)
  PROVE  IInv'
<1>1. OpInv(o) /\ TypeOK /\ run[o] \in RunState /\ begun \in [Ops -> Nat]
  BY DEF IInv, TypeOK
<1>2. \A status \in Final : /\ Settled(run[o], status) \in RunState
                            /\ Settled(run[o], status).pc = "settled"
                            /\ Settled(run[o], status).status = status
                            /\ Settled(run[o], status).used = run[o].used
  BY <1>1 DEF Settled, RunState, InProgress
<1>3. run[o].pc \in Awaiting => run[o].used <= begun[o]
  BY <1>1 DEF OpInv, Budgets, RunState, TypeOK
<1>4. ASSUME NEW at \in Awaiting, NEW status \in Final \ {"COMPLETED"},
             Resume(o, at, Settled(run[o], status)), UNCHANGED begun
      PROVE  IInv'
  <2>1. run[o].pc = at
    BY <1>4 DEF Resume
  <2> QED
    BY <1>1, <1>2, <1>3, <1>4, <2>1, ResumeInv DEF Final, InProgress, Awaiting
<1>5. CASE PlanFails(o) \/ TeamBudgetDenies(o) \/ PolicyDenies(o) \/ StepThrows(o)
  BY <1>4, <1>5 DEF PlanFails, TeamBudgetDenies, PolicyDenies, StepThrows, Awaiting, Final
<1>6. CASE PlanArrives(o)
  <2>1. PICK n \in 1..MaxPlan :
          Resume(o, "planning", LET r == [run[o] EXCEPT !.length = n] IN
                                IF token[o] = "flagged" THEN Settled(r, "CANCELLED")
                                ELSE [r EXCEPT !.pc = "teamBudget"])
    BY <1>6 DEF PlanArrives
  <2>2. begun' = begun /\ run[o].pc = "planning"
    BY <1>6 DEF PlanArrives, Resume
  <2>3. /\ begun[o] = 0 /\ run[o].used = 0 /\ run[o].order = 1 /\ run[o].status = "RUNNING"
    BY <1>1, <2>2, StepsAssumption DEF OpInv, Budgets, Statuses, Awaiting, RunState
  <2> DEFINE r == [run[o] EXCEPT !.length = n]
  <2>6. /\ r \in RunState /\ r.length = n /\ r.order = 1 /\ r.used = 0 /\ r.status = "RUNNING"
        /\ 1 <= n
    BY <1>1, <2>1, <2>3, StepsAssumption DEF RunState
  <2>4. CASE token[o] = "flagged"
    <3> DEFINE s == Settled(r, "CANCELLED")
    <3>1. s \in RunState /\ s.pc = "settled" /\ s.status = "CANCELLED" /\ s.used = 0
      BY <2>6 DEF Settled, RunState, InProgress, Final
    <3>2. Resume(o, "planning", s)
      BY <2>1, <2>4
    <3> HIDE DEF s, r
    <3> QED
      BY <1>1, <2>2, <2>3, <3>1, <3>2, ResumeInv DEF InProgress, Awaiting, Final
  <2>5. CASE token[o] # "flagged"
    <3> DEFINE s == [r EXCEPT !.pc = "teamBudget"]
    <3>1. /\ s \in RunState /\ s.pc = "teamBudget" /\ s.status = "RUNNING" /\ s.used = 0
          /\ s.order <= s.length
      BY <2>6 DEF RunState, InProgress, Awaiting
    <3>2. Resume(o, "planning", s)
      BY <2>1, <2>5
    <3> HIDE DEF s, r
    <3> QED
      BY <1>1, <2>2, <2>3, <2>5, <3>1, <3>2, StepsAssumption, ResumeInv DEF InProgress, Awaiting
  <2> QED
    BY <2>4, <2>5
<1>7. CASE TeamBudgetAllows(o)
  <2> DEFINE s == [run[o] EXCEPT !.pc = "policy"]
  <2>1. Resume(o, "teamBudget", s) /\ begun' = begun /\ run[o].pc = "teamBudget"
    BY <1>7 DEF TeamBudgetAllows, Resume
  <2>2. /\ s \in RunState /\ s.pc = "policy" /\ s.status = "RUNNING" /\ s.used = run[o].used
        /\ s.order <= s.length /\ run[o].used < MaxSteps /\ begun[o] = run[o].used
    BY <1>1, <2>1 DEF RunState, InProgress, Awaiting, OpInv, Statuses, Budgets
  <2> HIDE DEF s
  <2> QED
    BY <1>1, <2>1, <2>2, ResumeInv DEF InProgress, Awaiting
<1>8. CASE PolicyAllows(o)
  <2> DEFINE s == [run[o] EXCEPT !.pc = "step"]
  <2>1. /\ Resume(o, "policy", s) /\ run[o].pc = "policy"
        /\ begun' = [begun EXCEPT ![o] = @ + 1]
    BY <1>8 DEF PolicyAllows, Resume
  <2>2. /\ s \in RunState /\ s.pc = "step" /\ s.status = "RUNNING" /\ s.used = run[o].used
        /\ s.order <= s.length /\ run[o].used < MaxSteps /\ begun[o] = run[o].used
    BY <1>1, <2>1 DEF RunState, InProgress, Awaiting, OpInv, Statuses, Budgets
  <2>3. begun' \in [Ops -> Nat] /\ begun'[o] = begun[o] + 1 /\ \A u \in Ops \ {o} : begun'[u] = begun[u]
    BY <1>1, <2>1
  <2> HIDE DEF s
  <2> QED
    BY <1>1, <2>1, <2>2, <2>3, ResumeInv DEF InProgress, Awaiting
<1>9. CASE StepEnds(o)
  <2>1. PICK result \in {"COMPLETED", "FAILED", "CANCELLED"}, overspent \in BOOLEAN :
          Resume(o, "step", AfterStep(run[o], result, token[o] = "flagged", overspent))
    BY <1>9 DEF StepEnds
  <2> DEFINE s == AfterStep(run[o], result, token[o] = "flagged", overspent)
  <2>2. begun' = begun /\ run[o].pc = "step"
    BY <1>9 DEF StepEnds, Resume
  <2>3. run[o].status = "RUNNING" /\ run[o].order <= run[o].length /\ begun[o] = run[o].used + 1
    BY <1>1, <2>2 DEF OpInv, Statuses, Budgets, Awaiting
  <2>4. /\ s \in RunState
        /\ s.used = run[o].used + 1
        /\ \/ s.pc = "settled" /\ s.status \in Final
           \/ /\ s.pc = "teamBudget" /\ s.status = "RUNNING"
              /\ s.used < MaxSteps /\ s.order <= s.length
        /\ token[o] = "flagged" => s.pc = "settled" /\ s.status = "CANCELLED"
    BY <1>1, <2>1, <2>3, AfterStepOutcome
  <2>5. Resume(o, "step", s)
    BY <2>1
  <2> HIDE DEF s
  <2> QED
    BY <1>1, <2>2, <2>3, <2>4, <2>5, ResumeInv DEF InProgress, Awaiting, RunState
<1> QED
  BY <1>5, <1>6, <1>7, <1>8, <1>9

\* An operation is created, its run ends, or a cancellation arrives.
LEMMA ServiceInv ==
  ASSUME IInv, NEW o \in Ops,
         \/ Execute(o) \/ SaveRun(o) \/ RunRejects(o) \/ SaveThrows(o)
         \/ CancelSubmitted(o) \/ CancelRunning(o)
  PROVE  IInv'
<1>1. OpInv(o) /\ TypeOK
  BY DEF IInv
<1>2. CASE Execute(o)
  <2>1. TypeOK' /\ run'[o] = [NoRun EXCEPT !.pc = "planning"]
    BY <1>1, <1>2, StepsAssumption
    DEF Execute, TypeOK, NoRun, RunState, InProgress, Awaiting
  <2>2. OpInv(o)'
    BY <1>1, <1>2, <2>1, StepsAssumption
    DEF Execute, TypeOK, NoRun, OpInv, Lifecycles, Statuses, Budgets, Cancellations,
        InProgress, Awaiting, Final
  <2> QED
    BY <1>1, <1>2, <2>1, <2>2, OthersUndisturbed DEF Execute, TypeOK
<1>3. CASE SaveRun(o)
  <2>1. TypeOK'
    BY <1>1, <1>3 DEF SaveRun, ghosts, TypeOK, RunState, OpInv, Statuses
  <2>2. OpInv(o)'
    BY <1>1, <1>3
    DEF SaveRun, ghosts, TypeOK, OpInv, Lifecycles, Statuses, Budgets, Cancellations,
        InProgress, Awaiting, Final, RunState
  <2> QED
    BY <1>1, <1>3, <2>1, <2>2, OthersUndisturbed DEF SaveRun, ghosts, TypeOK
<1>4. CASE RunRejects(o) \/ SaveThrows(o)
  <2>1. Reject(o) /\ proc' = proc /\ proc = "up" /\ run[o].pc \in InProgress /\ throws' \in Nat
    BY <1>1, <1>4 DEF RunRejects, SaveThrows, Reject, InProgress, TypeOK
  <2>2. TypeOK'
    BY <1>1, <2>1 DEF Reject, ghosts, TypeOK, RunState
  <2>3. OpInv(o)'
    BY <1>1, <2>1
    DEF Reject, ghosts, TypeOK, OpInv, Lifecycles, Statuses, Budgets, Cancellations,
        InProgress, Awaiting
  <2> QED
    BY <1>1, <2>1, <2>2, <2>3, OthersUndisturbed DEF Reject, ghosts, TypeOK
<1>5. CASE CancelSubmitted(o)
  <2>1. TypeOK'
    BY <1>1, <1>5 DEF CancelSubmitted, ghosts, TypeOK, Final
  <2>2. OpInv(o)'
    BY <1>1, <1>5
    DEF CancelSubmitted, ghosts, TypeOK, OpInv, Lifecycles, Statuses, Budgets, Cancellations,
        InProgress, Awaiting, Final
  <2> QED
    BY <1>1, <1>5, <2>1, <2>2, OthersUndisturbed DEF CancelSubmitted, ghosts, TypeOK
<1>6. CASE CancelRunning(o)
  <2>1. TypeOK' /\ run[o].pc \in InProgress
    BY <1>1, <1>6 DEF CancelRunning, TypeOK, OpInv, Lifecycles
  <2>2. OpInv(o)'
    BY <1>1, <1>6, <2>1
    DEF CancelRunning, TypeOK, OpInv, Lifecycles, Statuses, Budgets, Cancellations,
        InProgress, Awaiting, Final
  <2> QED
    BY <1>1, <1>6, <2>1, <2>2, OthersUndisturbed DEF CancelRunning, TypeOK
<1> QED
  BY <1>2, <1>3, <1>4, <1>5, <1>6

\* A crash forgets every run; the restart closes the rows they left.
LEMMA CrashInv == ASSUME IInv, Crash \/ Restart PROVE IInv'
<1>1. TypeOK
  BY DEF IInv
<1>2. CASE Crash
  <2>1. TypeOK'
    BY <1>1, <1>2, StepsAssumption DEF Crash, ghosts, TypeOK, NoRun, RunState
  <2>2. ASSUME NEW o \in Ops PROVE OpInv(o)'
    BY <1>1, <1>2
    DEF IInv, Crash, ghosts, TypeOK, NoRun, OpInv, Lifecycles, Statuses, Budgets, Cancellations,
        InProgress, Awaiting
  <2> QED
    BY <2>1, <2>2 DEF IInv
<1>3. CASE Restart
  <2>1. TypeOK'
    BY <1>1, <1>3 DEF Restart, ghosts, TypeOK, RecoveredOperation, Final
  <2>2. ASSUME NEW o \in Ops PROVE OpInv(o)'
    <3>1. OpInv(o) /\ run[o].pc = "idle" /\ token[o] = "none"
      BY <1>3 DEF IInv, OpInv, Lifecycles, Restart, InProgress, Awaiting
    <3>2. /\ row'[o] = RecoveredOperation(row[o])
          /\ rowSteps' = rowSteps /\ token' = token /\ run' = run
          /\ begun' = begun /\ asked' = asked /\ begunThen' = begunThen
      BY <1>3 DEF Restart, ghosts
    <3>3. /\ row'[o] = "ABSENT" => row[o] = "ABSENT"
          /\ row'[o] = "COMPLETED" => row[o] = "COMPLETED"
      BY <3>2 DEF RecoveredOperation
    <3> QED
      BY <3>1, <3>2, <3>3
      DEF OpInv, Lifecycles, Statuses, Budgets, Cancellations, InProgress, Awaiting
  <2> QED
    BY <2>1, <2>2 DEF IInv
<1> QED
  BY <1>2, <1>3

\* Every step preserves the invariant.
LEMMA IInvStep == IInv /\ [Next]_vars => IInv'
<1> SUFFICES ASSUME IInv, [Next]_vars PROVE IInv'
  OBVIOUS
<1>1. CASE UNCHANGED vars
  BY <1>1 DEF vars, IInv, TypeOK, OpInv, Lifecycles, Statuses, Budgets, Cancellations
<1> QED
  BY <1>1, LoopInv, ServiceInv, CrashInv DEF Next, RunStep

\* The invariant holds in every reachable state.
THEOREM Invariant == Spec => []IInv
<1> QED
  BY IInvInit, IInvStep, PTL DEF Spec

\* Every variable keeps its shape, and no row ever says RUNNING.
THEOREM TypeCorrect == Spec => []TypeOK
<1>1. IInv => TypeOK
  BY DEF IInv
<1> QED
  BY <1>1, Invariant, PTL

\* The map of active tokens always tells a running operation from one that is
\* not, whatever order runs, cancellations and crashes come in.
THEOREM TokenTracksRunCorrect == Spec => []TokenTracksRun
<1>1. IInv => TokenTracksRun
  BY DEF IInv, OpInv, Lifecycles, TokenTracksRun
<1> QED
  BY <1>1, Invariant, PTL

\* No operation begins more steps than its budget, for any budget and any plan.
THEOREM StepsWithinBudgetCorrect == Spec => []StepsWithinBudget
<1>1. IInv => StepsWithinBudget
  BY DEF IInv, OpInv, Budgets, StepsWithinBudget
<1> QED
  BY <1>1, Invariant, PTL

\* A cancellation that reaches a run in time is honoured, and promptly.
THEOREM CancellationHonoured == Spec => []CancelIsHonoured
<1>1. IInv => CancelIsHonoured
  <2> SUFFICES ASSUME IInv, NEW o \in Ops
               PROVE  /\ asked[o] \in Awaiting => row[o] # "COMPLETED"
                      /\ asked[o] # "never" =>
                           begun[o] <= begunThen[o]
                                       + (IF asked[o] \in {"teamBudget", "policy"} THEN 1 ELSE 0)
    BY DEF CancelIsHonoured
  <2>1. asked[o] \in InProgress \union {"never"} /\ begun[o] \in Nat /\ begunThen[o] \in Nat
        /\ Cancellations(o)
    BY DEF IInv, TypeOK, OpInv
  <2> QED
    BY <2>1 DEF Cancellations, InProgress, Awaiting
<1> QED
  BY <1>1, Invariant, PTL

\* The row of an operation that has ended is never written again, by its run,
\* a late cancellation or a recovery, although no save carries a version.
THEOREM TerminalIsFinalCorrect == Spec => TerminalIsFinal
<1>1. IInv /\ [Next]_vars => [\A o \in Ops : row[o] \in Final => row'[o] = row[o]]_vars
  <2> SUFFICES ASSUME IInv, Next, NEW o \in Ops, row[o] \in Final
               PROVE  row'[o] = row[o]
    BY DEF vars
  <2>1. OpInv(o) /\ TypeOK
    BY DEF IInv
  <2>2. run[o].pc \notin InProgress
    BY <2>1 DEF OpInv, Lifecycles, Final
  <2>3. ASSUME NEW u \in Ops, Execute(u) \/ SaveRun(u) \/ CancelSubmitted(u)
        PROVE  row'[o] = row[o]
    BY <2>1, <2>2, <2>3 DEF Execute, SaveRun, CancelSubmitted, TypeOK, Final, InProgress
  <2>4. ASSUME NEW u \in Ops,
               \/ PlanArrives(u) \/ PlanFails(u) \/ TeamBudgetAllows(u) \/ TeamBudgetDenies(u)
               \/ PolicyAllows(u) \/ PolicyDenies(u) \/ StepEnds(u) \/ StepThrows(u)
        PROVE  row' = row
    BY <2>4 DEF PlanArrives, PlanFails, TeamBudgetAllows, TeamBudgetDenies, PolicyAllows,
                PolicyDenies, StepEnds, StepThrows, Resume
  <2>5. ASSUME NEW u \in Ops, RunRejects(u) \/ SaveThrows(u) \/ CancelRunning(u)
        PROVE  row' = row
    BY <2>5 DEF RunRejects, SaveThrows, Reject, CancelRunning
  <2>6. CASE Crash
    BY <2>6 DEF Crash
  <2>7. CASE Restart
    BY <2>7 DEF Restart, RecoveredOperation, Final
  <2> QED
    BY <2>3, <2>4, <2>5, <2>6, <2>7 DEF Next, RunStep
<1> QED
  BY <1>1, Invariant, PTL DEF Spec, TerminalIsFinal

--------------------------------------------------------------------------------
(* What a client is promised: the refinement of OperationStore.                *)

\* The row and the cancellations that were taken change as the store allows.
LEMMA RefinesStep == IInv /\ [Next]_vars => [Store!Next]_<<row, rowSteps, {o \in Ops : asked[o] \in Awaiting}>>
<1> DEFINE taken == {o \in Ops : asked[o] \in Awaiting}
           record == <<row, rowSteps, taken>>
<1> SUFFICES ASSUME IInv, [Next]_vars PROVE [Store!Next]_record
  OBVIOUS
<1>0. TypeOK /\ \A o \in Ops : OpInv(o)
  BY DEF IInv
<1>1. ASSUME row' = row, rowSteps' = rowSteps, asked' = asked PROVE UNCHANGED record
  BY <1>1
<1>2. ASSUME NEW o \in Ops, Execute(o) PROVE Store!Accept(o)
  BY <1>2 DEF Execute, Store!Accept
<1>3. ASSUME NEW o \in Ops, SaveRun(o) PROVE Store!End(o)
  <2>1. OpInv(o) /\ run[o].pc = "settled" /\ run[o] \in RunState
    BY <1>0, <1>3 DEF SaveRun, TypeOK
  <2>2. row[o] = "SUBMITTED" /\ run[o].status \in Final
    BY <2>1 DEF OpInv, Lifecycles, Statuses, InProgress
  <2>3. run[o].used \in 0..MaxSteps
    BY <1>0, <2>1, StepsAssumption DEF OpInv, Budgets, RunState, TypeOK
  <2>4. run[o].status = "COMPLETED" => o \notin taken
    BY <2>1 DEF OpInv, Cancellations
  <2> QED
    BY <1>3, <2>2, <2>3, <2>4 DEF SaveRun, ghosts, Store!End, Store!Ended, Final
<1>4. ASSUME NEW o \in Ops, CancelSubmitted(o) PROVE Store!End(o)
  <2>1. row' = [row EXCEPT ![o] = "CANCELLED"] /\ rowSteps' = rowSteps /\ asked' = asked
    BY <1>4 DEF CancelSubmitted, ghosts
  <2>2. rowSteps' = [rowSteps EXCEPT ![o] = rowSteps[o]] /\ rowSteps[o] \in 0..MaxSteps
    BY <1>0, <2>1, StepsAssumption DEF OpInv, Budgets, TypeOK
  <2> QED
    BY <1>4, <2>1, <2>2 DEF CancelSubmitted, Store!End, Store!Ended
<1>5. ASSUME NEW o \in Ops, CancelRunning(o) PROVE Store!Promise(o) \/ UNCHANGED record
  <2>1. /\ row[o] = "SUBMITTED" /\ row' = row /\ rowSteps' = rowSteps
        /\ asked' = [asked EXCEPT ![o] = run[o].pc] /\ run[o].pc \in InProgress
    BY <1>0, <1>5 DEF CancelRunning, OpInv, Lifecycles
  <2>2. asked[o] \notin Awaiting
    BY <1>0, <1>5 DEF CancelRunning, OpInv, Cancellations, Lifecycles, InProgress, Awaiting
  <2>3. CASE run[o].pc \in Awaiting
    <3>1. taken' = taken \union {o}
      BY <1>0, <2>1, <2>3 DEF TypeOK
    <3> QED
      BY <2>1, <3>1 DEF Store!Promise
  <2>4. CASE run[o].pc \notin Awaiting
    <3>1. taken' = taken
      BY <1>0, <2>1, <2>2, <2>4 DEF TypeOK
    <3> QED
      BY <2>1, <3>1
  <2> QED
    BY <2>3, <2>4
<1>6. ASSUME Restart PROVE Store!Restart
  <2>1. row' = [o \in Ops |-> IF row[o] = "SUBMITTED" THEN "CANCELLED" ELSE row[o]]
    BY <1>0, <1>6 DEF Restart, RecoveredOperation, TypeOK, Final
  <2> QED
    BY <1>6, <2>1 DEF Restart, ghosts, Store!Restart
<1>7. ASSUME NEW o \in Ops,
             \/ PlanArrives(o) \/ PlanFails(o) \/ TeamBudgetAllows(o) \/ TeamBudgetDenies(o)
             \/ PolicyAllows(o) \/ PolicyDenies(o) \/ StepEnds(o) \/ StepThrows(o)
      PROVE  UNCHANGED record
  BY <1>1, <1>7 DEF PlanArrives, PlanFails, TeamBudgetAllows, TeamBudgetDenies, PolicyAllows,
                    PolicyDenies, StepEnds, StepThrows, Resume
<1>8. ASSUME NEW o \in Ops, RunRejects(o) \/ SaveThrows(o) PROVE UNCHANGED record
  BY <1>1, <1>8 DEF RunRejects, SaveThrows, Reject, ghosts
<1>9. ASSUME Crash \/ UNCHANGED vars PROVE UNCHANGED record
  BY <1>1, <1>9 DEF Crash, ghosts, vars
<1> HIDE DEF record
<1> QED
  BY <1>2, <1>3, <1>4, <1>5, <1>6, <1>7, <1>8, <1>9 DEF Next, RunStep, Store!Next

\* Operations implement their store: accepted once, ended once, charged within the
\* budget, never completed against a cancellation taken in time, closed together.
THEOREM ImplementsOperationStoreCorrect == Spec => ImplementsOperationStore
<1>1. Init => Store!Init
  BY DEF Init, Store!Init, Awaiting
<1> QED
  BY <1>1, RefinesStep, Invariant, PTL DEF Spec, ImplementsOperationStore, Store!Spec

--------------------------------------------------------------------------------
(* Runs come to an end.                                                        *)

\* How often a run can still be resumed.
SegmentsLeft(r) ==
  CASE r.pc = "planning" -> 3 * MaxSteps + 2
    [] r.pc = "teamBudget" -> 3 * (MaxSteps - r.used) + 1
    [] r.pc = "policy" -> 3 * (MaxSteps - r.used)
    [] r.pc = "step" -> 3 * (MaxSteps - r.used) - 1
    [] r.pc = "settled" -> 1
    [] OTHER -> 0

\* A run goes round its loop at most once per step of its budget, whatever the plan:
\* every segment brings it nearer its end.
RunsComeToAnEnd ==
  [][\A o \in Ops : run'[o] # run[o] =>
       \/ Execute(o) \/ Crash
       \/ SegmentsLeft(run'[o]) < SegmentsLeft(run[o])]_vars

\* While the process is up, an open operation has a run in progress, or one that has
\* rejected: no operation is accepted and then attended by nobody.
AcceptedIsAttended ==
  \A o \in Ops : proc = "up" /\ row[o] = "SUBMITTED" => run[o].pc \in InProgress \union {"rejected"}

\* A run that is awaiting something can be resumed a positive number of times.
LEMMA SegmentsAre ==
  ASSUME IInv, NEW o \in Ops
  PROVE  SegmentsLeft(run[o]) \in Nat /\ (run[o].pc \in InProgress => SegmentsLeft(run[o]) > 0)
<1>1. run[o] \in RunState /\ Budgets(o)
  BY DEF IInv, TypeOK, OpInv
<1>2. run[o].used \in Nat /\ (run[o].pc \in Awaiting => run[o].used < MaxSteps)
  BY <1>1 DEF RunState, Budgets
<1> QED
  BY <1>2, StepsAssumption DEF SegmentsLeft, InProgress, Awaiting

\* A settled run has only its save left.
LEMMA SettlingIsProgress ==
  ASSUME IInv, NEW o \in Ops, run[o].pc \in Awaiting, NEW r, r.pc = "settled"
  PROVE  SegmentsLeft(r) < SegmentsLeft(run[o])
<1>1. run[o] \in RunState /\ Budgets(o)
  BY DEF IInv, TypeOK, OpInv
<1>2. run[o].used \in Nat /\ run[o].used < MaxSteps
  BY <1>1 DEF RunState, Budgets
<1> QED
  BY <1>2, StepsAssumption DEF SegmentsLeft, Awaiting

\* Every segment of a run brings it nearer its end.
LEMMA LoopProgress ==
  ASSUME IInv, NEW o \in Ops,
         \/ PlanArrives(o) \/ PlanFails(o) \/ TeamBudgetAllows(o) \/ TeamBudgetDenies(o)
         \/ PolicyAllows(o) \/ PolicyDenies(o) \/ StepEnds(o) \/ StepThrows(o)
  PROVE  /\ \A u \in Ops \ {o} : run'[u] = run[u]
         /\ SegmentsLeft(run'[o]) < SegmentsLeft(run[o])
<1>1. /\ run[o] \in RunState /\ run \in [Ops -> RunState] /\ OpInv(o)
  BY DEF IInv, TypeOK
<1>2. \A at, r : Resume(o, at, r) =>
        run[o].pc = at /\ run'[o] = r /\ \A u \in Ops \ {o} : run'[u] = run[u]
  BY <1>1 DEF Resume
<1>3. \A status \in Final : Settled(run[o], status).pc = "settled"
  BY <1>1 DEF Settled, RunState
<1>4. run[o].pc \in Awaiting => run[o].used \in Nat /\ run[o].used < MaxSteps
  BY <1>1 DEF OpInv, Budgets, RunState
<1>5. CASE PlanFails(o) \/ TeamBudgetDenies(o) \/ PolicyDenies(o) \/ StepThrows(o)
  <2>1. PICK at \in Awaiting, status \in Final : Resume(o, at, Settled(run[o], status))
    BY <1>5 DEF PlanFails, TeamBudgetDenies, PolicyDenies, StepThrows, Awaiting, Final
  <2> QED
    BY <1>2, <1>3, <2>1, SettlingIsProgress
<1>6. CASE PlanArrives(o)
  <2>1. PICK n \in 1..MaxPlan :
          Resume(o, "planning", LET r == [run[o] EXCEPT !.length = n] IN
                                IF token[o] = "flagged" THEN Settled(r, "CANCELLED")
                                ELSE [r EXCEPT !.pc = "teamBudget"])
    BY <1>6 DEF PlanArrives
  <2> DEFINE r == [run[o] EXCEPT !.length = n]
             s == [r EXCEPT !.pc = "teamBudget"]
  <2>2. Settled(r, "CANCELLED").pc = "settled"
    BY <1>1 DEF Settled, RunState
  <2>3. s.pc = "teamBudget" /\ s.used = run[o].used
    BY <1>1 DEF RunState
  <2>4. run[o].pc = "planning"
    BY <1>2, <2>1
  <2>5. CASE run'[o] = Settled(r, "CANCELLED")
    BY <1>2, <2>1, <2>2, <2>4, <2>5, SettlingIsProgress DEF Awaiting
  <2>6. CASE run'[o] = s
    <3> HIDE DEF s
    <3>1. SegmentsLeft(s) < SegmentsLeft(run[o])
      BY <1>4, <2>3, <2>4, StepsAssumption DEF SegmentsLeft, Awaiting
    <3> QED
      BY <1>2, <2>1, <2>6, <3>1
  <2> QED
    BY <1>2, <2>1, <2>5, <2>6
<1>7. CASE TeamBudgetAllows(o)
  <2> DEFINE s == [run[o] EXCEPT !.pc = "policy"]
  <2>1. s.pc = "policy" /\ s.used = run[o].used
    BY <1>1 DEF RunState
  <2>2. Resume(o, "teamBudget", s)
    BY <1>7 DEF TeamBudgetAllows
  <2> HIDE DEF s
  <2> QED
    BY <1>2, <1>4, <2>1, <2>2, StepsAssumption DEF SegmentsLeft, Awaiting
<1>8. CASE PolicyAllows(o)
  <2> DEFINE s == [run[o] EXCEPT !.pc = "step"]
  <2>1. s.pc = "step" /\ s.used = run[o].used
    BY <1>1 DEF RunState
  <2>2. Resume(o, "policy", s)
    BY <1>8 DEF PolicyAllows
  <2> HIDE DEF s
  <2> QED
    BY <1>2, <1>4, <2>1, <2>2, StepsAssumption DEF SegmentsLeft, Awaiting
<1>9. CASE StepEnds(o)
  <2>1. PICK result \in {"COMPLETED", "FAILED", "CANCELLED"}, overspent \in BOOLEAN :
          Resume(o, "step", AfterStep(run[o], result, token[o] = "flagged", overspent))
    BY <1>9 DEF StepEnds
  <2> DEFINE s == AfterStep(run[o], result, token[o] = "flagged", overspent)
  <2>2. run[o].pc = "step" /\ run'[o] = s /\ \A u \in Ops \ {o} : run'[u] = run[u]
    BY <1>2, <2>1
  <2>3. run[o].status = "RUNNING" /\ run[o].order <= run[o].length
    BY <1>1, <2>2 DEF OpInv, Statuses, Awaiting
  <2>4. s.used = run[o].used + 1 /\ s.pc \in {"settled", "teamBudget"}
    BY <1>1, <2>1, <2>3, AfterStepOutcome
  <2> HIDE DEF s
  <2>5. SegmentsLeft(s) < SegmentsLeft(run[o])
    BY <1>4, <2>2, <2>4, StepsAssumption DEF SegmentsLeft, Awaiting
  <2> QED
    BY <2>2, <2>5
<1> QED
  BY <1>5, <1>6, <1>7, <1>8, <1>9

\* A run goes round its loop at most once per step of its budget: whatever the plan,
\* it is resumed at most 3 * MaxSteps + 2 times.
THEOREM RunsComeToAnEndCorrect == Spec => RunsComeToAnEnd
<1> DEFINE A == \A o \in Ops : run'[o] # run[o] =>
                   \/ Execute(o) \/ Crash
                   \/ SegmentsLeft(run'[o]) < SegmentsLeft(run[o])
<1>1. IInv /\ [Next]_vars => [A]_vars
  <2> SUFFICES ASSUME IInv, Next, ~Crash, NEW o \in Ops, run'[o] # run[o], ~Execute(o)
               PROVE  SegmentsLeft(run'[o]) < SegmentsLeft(run[o])
    BY DEF vars
  <2>0. run \in [Ops -> RunState] /\ run[o] \in RunState
    BY DEF IInv, TypeOK
  <2>1. ASSUME NEW u \in Ops,
               \/ PlanArrives(u) \/ PlanFails(u) \/ TeamBudgetAllows(u) \/ TeamBudgetDenies(u)
               \/ PolicyAllows(u) \/ PolicyDenies(u) \/ StepEnds(u) \/ StepThrows(u)
        PROVE  SegmentsLeft(run'[o]) < SegmentsLeft(run[o])
    BY <2>1, LoopProgress
  <2>2. ASSUME NEW u \in Ops, SaveRun(u) \/ RunRejects(u) \/ SaveThrows(u)
        PROVE  SegmentsLeft(run'[o]) < SegmentsLeft(run[o])
    <3>1. PICK p \in {"returned", "rejected"} : run' = [run EXCEPT ![u].pc = p]
      BY <2>2 DEF SaveRun, RunRejects, SaveThrows, Reject
    <3>2. u = o /\ run[o].pc \in InProgress
      BY <2>0, <2>2, <3>1 DEF SaveRun, RunRejects, SaveThrows, Reject, InProgress
    <3>3. run'[o].pc = p
      BY <2>0, <3>1, <3>2 DEF RunState
    <3>4. SegmentsLeft(run'[o]) = 0
      BY <3>3 DEF SegmentsLeft
    <3>5. SegmentsLeft(run[o]) \in Nat /\ SegmentsLeft(run[o]) > 0
      BY <3>2, SegmentsAre
    <3> QED
      BY <3>4, <3>5
  <2>3. ASSUME NEW u \in Ops, Execute(u) PROVE FALSE
    BY <2>0, <2>3 DEF Execute
  <2>4. ASSUME NEW u \in Ops, CancelSubmitted(u) \/ CancelRunning(u) PROVE FALSE
    BY <2>4 DEF CancelSubmitted, CancelRunning
  <2>5. ~Restart
    BY DEF Restart
  <2> QED
    BY <2>1, <2>2, <2>3, <2>4, <2>5 DEF Next, RunStep
<1> QED
  BY <1>1, Invariant, PTL DEF Spec, RunsComeToAnEnd

\* Every open operation is attended by a run, or was left by one that rejected.
THEOREM AcceptedIsAttendedCorrect == Spec => []AcceptedIsAttended
<1>1. Init => AcceptedIsAttended
  BY DEF Init, AcceptedIsAttended
<1>2. IInv /\ AcceptedIsAttended /\ [Next]_vars => AcceptedIsAttended'
  <2> SUFFICES ASSUME IInv, AcceptedIsAttended, [Next]_vars, NEW o \in Ops,
                      proc' = "up", row'[o] = "SUBMITTED"
               PROVE  run'[o].pc \in InProgress \union {"rejected"}
    BY DEF AcceptedIsAttended
  <2>0. TypeOK /\ IInv'
    BY IInvStep DEF IInv
  <2>1. ASSUME NEW u \in Ops,
               \/ PlanArrives(u) \/ PlanFails(u) \/ TeamBudgetAllows(u) \/ TeamBudgetDenies(u)
               \/ PolicyAllows(u) \/ PolicyDenies(u) \/ StepEnds(u) \/ StepThrows(u)
        PROVE  run'[o].pc \in InProgress \union {"rejected"}
    <3>1. /\ proc = "up" /\ row' = row /\ run[u].pc \in InProgress /\ token' = token
          /\ \A v \in Ops \ {u} : run'[v] = run[v]
      BY <2>0, <2>1 DEF PlanArrives, PlanFails, TeamBudgetAllows, TeamBudgetDenies, PolicyAllows,
             PolicyDenies, StepEnds, StepThrows, Resume, TypeOK, InProgress, Awaiting
    <3>2. run'[u].pc \in InProgress
      BY <2>0, <3>1 DEF IInv, OpInv, Lifecycles
    <3> QED
      BY <3>1, <3>2 DEF AcceptedIsAttended
  <2>2. ASSUME NEW u \in Ops, Execute(u) \/ SaveRun(u) \/ RunRejects(u) \/ SaveThrows(u)
        PROVE  run'[o].pc \in InProgress \union {"rejected"}
    <3>1. run[u] \in RunState /\ OpInv(u)
      BY <2>0 DEF TypeOK, IInv
    <3>2. CASE u = o
      BY <2>0, <2>2, <3>1, <3>2 DEF Execute, SaveRun, RunRejects, SaveThrows, Reject, TypeOK, NoRun,
             OpInv, Statuses, Final, RunState, InProgress, Awaiting
    <3>3. CASE u # o
      BY <2>0, <2>2, <3>3 DEF Execute, SaveRun, RunRejects, SaveThrows, Reject, TypeOK, AcceptedIsAttended
    <3> QED
      BY <3>2, <3>3
  <2>3. ASSUME NEW u \in Ops, CancelSubmitted(u) \/ CancelRunning(u)
        PROVE  run'[o].pc \in InProgress \union {"rejected"}
    BY <2>0, <2>3 DEF CancelSubmitted, CancelRunning, AcceptedIsAttended, TypeOK
  <2>4. ~Crash
    BY DEF Crash
  <2>5. ~Restart
    BY DEF Restart, RecoveredOperation
  <2>6. CASE UNCHANGED vars
    BY <2>6 DEF vars, AcceptedIsAttended
  <2> QED
    BY <2>1, <2>2, <2>3, <2>4, <2>5, <2>6 DEF Next, RunStep
<1> QED
  BY <1>1, <1>2, Invariant, PTL DEF Spec
================================================================================
