--------------------------- MODULE CoreRuntimeProofs ---------------------------
(***************************************************************************)
(* What CoreRuntime guarantees for every set of tasks and every number of  *)
(* crashes, aborted startups and throwing saves: its type invariant, the   *)
(* invariant RowsFollowCalls that ties the two tables to the position of   *)
(* each call, and what follows from them.                                  *)
(***************************************************************************)
EXTENDS CoreRuntime, TLAPS

\* The row pairs of one call are one of finitely many, whatever the call does.
ReachablePairs == OpenPairs \union SettledPairs

\* The initial states have the shape.
LEMMA TypeInit == Init => TypeOK
BY NoneAssumption DEF Init, TypeOK, PC, Opening, Closing, ExecStatus

\* A save of an execution keeps the shape of the state.
LEMMA TypeSaveExecution ==
  ASSUME TypeOK, NEW t \in Tasks, NEW at \in PC, NEW status \in ExecStatus, NEW next \in PC,
         SaveExecution(t, at, status, next)
  PROVE  TypeOK'
<1>1. /\ call' \in [Tasks -> [pc : PC, exec : ExecStatus]]
      /\ busy' \in Tasks \union {None}
  BY DEF TypeOK, SaveExecution, Goto
<1>2. /\ execRow' \in [Tasks -> ExecStatus \union {"ABSENT"}]
      /\ execLog' \in [Tasks -> Seq(ExecStatus)]
  BY DEF TypeOK, SaveExecution
<1>3. /\ unreadable' \subseteq Tasks
      /\ notified' \subseteq ({"execution", "task"} \X Tasks \X TaskStatus)
  BY DEF TypeOK, SaveExecution, Stamp, ExecStatus, TaskStatus
<1> QED
  BY <1>1, <1>2, <1>3 DEF TypeOK, SaveExecution

\* A save of a task keeps the shape of the state.
LEMMA TypeSaveTask ==
  ASSUME TypeOK, NEW t \in Tasks, NEW at \in PC, NEW status \in TaskStatus, NEW next \in PC,
         next = "returned" => status \in Terminal,
         SaveTask(t, at, status, next)
  PROVE  TypeOK'
<1>1. /\ call' \in [Tasks -> [pc : PC, exec : ExecStatus]]
      /\ busy' \in Tasks \union {None}
  BY DEF TypeOK, SaveTask, Goto
<1>2. /\ taskRow' \in [Tasks -> TaskStatus \union {"ABSENT"}]
      /\ taskLog' \in [Tasks -> Seq(TaskStatus)]
      /\ reply' \in [Tasks -> Terminal \union {"NONE"}]
  BY DEF TypeOK, SaveTask
<1>3. /\ unreadable' \subseteq Tasks
      /\ notified' \subseteq ({"execution", "task"} \X Tasks \X TaskStatus)
  BY DEF TypeOK, SaveTask, Stamp
<1> QED
  BY <1>1, <1>2, <1>3 DEF TypeOK, SaveTask

\* What the recovery writes for each row is a status of its table.
LEMMA RecoveredStatuses ==
  /\ \A s \in ExecStatus \union {"ABSENT"} :
        /\ RecoveredExec(s) \in ExecStatus \union {"ABSENT"}
        /\ s # "ABSENT" => RecoveredExec(s) \in ExecStatus
  /\ \A s \in TaskStatus \union {"ABSENT"} :
        /\ RecoveredTask(s) \in TaskStatus \union {"ABSENT"}
        /\ s # "ABSENT" => RecoveredTask(s) \in TaskStatus
BY DEF RecoveredExec, RecoveredTask, ExecStatus, TaskStatus

\* The events of a recovery are well-formed lifecycle events.
LEMMA TypeRecoveryEvents ==
  ASSUME TypeOK, NEW execs \in SUBSET StaleExecs, NEW tasks \in SUBSET StaleTasks
  PROVE  RecoveryEvents(execs, tasks) \subseteq ({"execution", "task"} \X Tasks \X TaskStatus)
<1>1. \A t \in execs : t \in Tasks /\ RecoveredExec(execRow[t]) \in TaskStatus
  BY DEF StaleExecs, RecoveredExec, TaskStatus
<1>2. \A t \in tasks : t \in Tasks /\ RecoveredTask(taskRow[t]) \in TaskStatus
  BY DEF StaleTasks, RecoveredTask, TaskStatus
<1> QED
  BY <1>1, <1>2 DEF RecoveryEvents

\* A recovery, committed or rolled back, keeps the shape of the state.
LEMMA TypeRestart == TypeOK /\ (Restart \/ RestartAborts) => TypeOK'
<1> SUFFICES ASSUME TypeOK, Restart \/ RestartAborts PROVE TypeOK'
  OBVIOUS
<1>1. CASE Restart
  <2>1. /\ execRow' \in [Tasks -> ExecStatus \union {"ABSENT"}]
        /\ taskRow' \in [Tasks -> TaskStatus \union {"ABSENT"}]
    BY <1>1, RecoveredStatuses DEF Restart, TypeOK
  <2>2. \A t \in Tasks :
          /\ RecoveryLog(execLog[t], StaleExecs, t, RecoveredExec(execRow[t])) \in Seq(ExecStatus)
          /\ RecoveryLog(taskLog[t], StaleTasks, t, RecoveredTask(taskRow[t])) \in Seq(TaskStatus)
    <3> TAKE t \in Tasks
    <3>1. t \in StaleExecs => RecoveredExec(execRow[t]) \in ExecStatus
      BY RecoveredStatuses DEF StaleExecs, ExecStatus
    <3>2. t \in StaleTasks => RecoveredTask(taskRow[t]) \in TaskStatus
      BY RecoveredStatuses DEF StaleTasks, TaskStatus
    <3> QED
      BY <3>1, <3>2 DEF RecoveryLog, TypeOK
  <2>3. execLog' \in [Tasks -> Seq(ExecStatus)] /\ taskLog' \in [Tasks -> Seq(TaskStatus)]
    BY <1>1, <2>2 DEF Restart
  <2>4. unreadable' \subseteq Tasks
    BY <1>1 DEF Restart, StaleExecs
  <2>5. notified' \subseteq ({"execution", "task"} \X Tasks \X TaskStatus)
    BY <1>1, TypeRecoveryEvents DEF Restart, TypeOK
  <2> QED
    BY <1>1, <2>1, <2>3, <2>4, <2>5 DEF Restart, TypeOK
<1>2. CASE RestartAborts
  <2>1. notified' \subseteq ({"execution", "task"} \X Tasks \X TaskStatus)
    BY <1>2, TypeRecoveryEvents DEF RestartAborts, TypeOK
  <2> QED
    BY <1>2, <2>1 DEF RestartAborts, durable, TypeOK
<1> QED
  BY <1>1, <1>2

\* Every step keeps the shape of the state.
LEMMA TypeStep == TypeOK /\ [Next]_vars => TypeOK'
<1> SUFFICES ASSUME TypeOK, [Next]_vars PROVE TypeOK'
  OBVIOUS
<1>1. ASSUME NEW t \in Tasks, Submit(t) PROVE TypeOK'
  BY <1>1 DEF Submit, TypeOK, PC, Opening, ExecStatus
<1>2. ASSUME NEW t \in Tasks, ExecuteStep(t) PROVE TypeOK'
  <2>1. CASE \/ CreateExecution(t) \/ StartExecution(t) \/ CompleteExecution(t)
             \/ CancelExecution(t) \/ FailExecution(t)
    BY <2>1, TypeSaveExecution
    DEF CreateExecution, StartExecution, CompleteExecution, CancelExecution, FailExecution,
        PC, Opening, Closing, ExecStatus
  <2>2. CASE \/ QueueTask(t) \/ StartTask(t) \/ CompleteTask(t) \/ CancelTask(t) \/ FailTask(t)
    BY <2>2, TypeSaveTask
    DEF QueueTask, StartTask, CompleteTask, CancelTask, FailTask,
        PC, Opening, Closing, TaskStatus, Terminal
  <2> QED
    BY <1>2, <2>1, <2>2 DEF ExecuteStep
<1>3. ASSUME NEW t \in Tasks, StrategyEnds(t) PROVE TypeOK'
  <2>1. CASE StrategyThrowsBlank(t)
    BY <2>1 DEF StrategyThrowsBlank, Goto, TypeOK, PC
  <2>2. CASE StrategyReturns(t) \/ StrategyCancelled(t) \/ StrategyThrows(t)
    <3>1. PICK outcome \in ExecStatus, pc \in PC : StrategySettles(t, outcome, pc)
      BY <2>2 DEF StrategyReturns, StrategyCancelled, StrategyThrows, PC, Closing, ExecStatus
    <3>2. [pc |-> pc, exec |-> outcome] \in [pc : PC, exec : ExecStatus]
      OBVIOUS
    <3> QED
      BY <3>1, <3>2 DEF StrategySettles, TypeOK
  <2> QED
    BY <1>3, <2>1, <2>2 DEF StrategyEnds
<1>4. ASSUME NEW t \in Tasks, SaveThrows(t) PROVE TypeOK'
  <2>1. AfterThrow(call[t].pc, call[t].exec) \in PC
    BY DEF AfterThrow, PC, Closing
  <2>2. /\ call' \in [Tasks -> [pc : PC, exec : ExecStatus]]
        /\ busy' \in Tasks \union {None}
    BY <1>4, <2>1 DEF SaveThrows, Goto, TypeOK
  <2>3. throws' \in Nat
    BY <1>4 DEF SaveThrows, TypeOK
  <2> QED
    BY <1>4, <2>2, <2>3 DEF SaveThrows, TypeOK
<1>5. CASE Crash
  BY <1>5 DEF Crash, durable, TypeOK, PC, ExecStatus
<1>6. CASE Restart \/ RestartAborts
  BY <1>6, TypeRestart
<1>7. CASE UNCHANGED vars
  BY <1>7 DEF vars, TypeOK
<1> QED
  BY <1>1, <1>2, <1>3, <1>4, <1>5, <1>6, <1>7 DEF Next

\* Every variable keeps its shape, for any set of tasks and any bounds.
THEOREM TypeCorrect == Spec => []TypeOK
<1>1. Init => TypeOK
  BY TypeInit
<1>2. TypeOK /\ [Next]_vars => TypeOK'
  BY TypeStep
<1> QED
  BY <1>1, <1>2, PTL DEF Spec

--------------------------------------------------------------------------------
(* RowsFollowCalls is inductive.  The rows of the other calls do not move      *)
(* when one call takes a step, so each step is a fact about its own call.      *)

\* The part of RowsFollowCalls that concerns one task.
RowsFollowCall(t) ==
  /\ <<execRow[t], taskRow[t]>> \in PairsAt(call[t].pc)
  /\ call[t].pc \in {"completeExec", "completeTask"} => call[t].exec = "COMPLETED"
  /\ proc = "down" => call[t].pc = "idle"
  /\ reply[t] # "NONE" => /\ call[t].pc \in {"idle", "returned"}
                          /\ reply[t] \in Terminal
                          /\ taskRow[t] = reply[t] /\ execRow[t] = reply[t]

\* A step that only moves the rows and the call of t preserves the invariant
\* of every other task.
LEMMA OthersFollow ==
  ASSUME TypeOK, RowsFollowCalls, NEW t \in Tasks,
         proc' = proc,
         \A u \in Tasks \ {t} : /\ execRow'[u] = execRow[u] /\ taskRow'[u] = taskRow[u]
                                /\ call'[u] = call[u] /\ reply'[u] = reply[u],
         RowsFollowCall(t)'
  PROVE  RowsFollowCalls'
<1>1. ASSUME NEW u \in Tasks \ {t} PROVE RowsFollowCall(u)'
  BY <1>1 DEF RowsFollowCalls, RowsFollowCall, PairsAt
<1> QED
  BY <1>1 DEF RowsFollowCalls, RowsFollowCall

\* A statement of execute() that saves the execution moves its pair of rows
\* from the one its program counter expects to the next.
LEMMA FollowSaveExecution ==
  ASSUME TypeOK, RowsFollowCalls, NEW t \in Tasks,
         \/ CreateExecution(t) \/ StartExecution(t) \/ CompleteExecution(t)
         \/ CancelExecution(t) \/ FailExecution(t)
  PROVE  RowsFollowCalls'
<1>1. PICK at \in {"createExec", "startExec", "completeExec", "cancelExec", "failExec"},
           status \in ExecStatus, next \in PC : SaveExecution(t, at, status, next)
  BY DEF CreateExecution, StartExecution, CompleteExecution, CancelExecution, FailExecution,
         PC, Opening, Closing, ExecStatus
<1>2. /\ proc' = proc /\ taskRow' = taskRow /\ reply' = reply
      /\ \A u \in Tasks \ {t} : execRow'[u] = execRow[u] /\ call'[u] = call[u]
  BY <1>1 DEF SaveExecution, Goto, TypeOK
<1>3. RowsFollowCall(t)
  BY DEF RowsFollowCalls, RowsFollowCall
<1>4. /\ call'[t].exec = call[t].exec
      /\ proc = "up" /\ call[t].pc = at
      /\ reply[t] = "NONE"
  BY <1>1, <1>3 DEF SaveExecution, OnLoop, Goto, TypeOK, RowsFollowCall
<1>5. RowsFollowCall(t)'
  <2>1. CASE CreateExecution(t)
    BY <2>1, <1>2, <1>3, <1>4
    DEF CreateExecution, SaveExecution, OnLoop, Goto, TypeOK, RowsFollowCall, PairsAt
  <2>2. CASE StartExecution(t)
    BY <2>2, <1>2, <1>3, <1>4
    DEF StartExecution, SaveExecution, OnLoop, Goto, TypeOK, RowsFollowCall, PairsAt
  <2>3. CASE CompleteExecution(t)
    BY <2>3, <1>2, <1>3, <1>4
    DEF CompleteExecution, SaveExecution, OnLoop, Goto, TypeOK, RowsFollowCall, PairsAt
  <2>4. CASE CancelExecution(t)
    BY <2>4, <1>2, <1>3, <1>4
    DEF CancelExecution, SaveExecution, OnLoop, Goto, TypeOK, RowsFollowCall, PairsAt
  <2>5. CASE FailExecution(t)
    BY <2>5, <1>2, <1>3, <1>4
    DEF FailExecution, SaveExecution, OnLoop, Goto, TypeOK, RowsFollowCall, PairsAt
  <2> QED
    BY <2>1, <2>2, <2>3, <2>4, <2>5
<1> QED
  BY <1>2, <1>5, OthersFollow

\* A statement of execute() that saves the task does the same, and reports an
\* outcome only where both rows already hold it.
LEMMA FollowSaveTask ==
  ASSUME TypeOK, RowsFollowCalls, NEW t \in Tasks,
         QueueTask(t) \/ StartTask(t) \/ CompleteTask(t) \/ CancelTask(t) \/ FailTask(t)
  PROVE  RowsFollowCalls'
<1>1. PICK at \in {"queueTask", "startTask", "completeTask", "cancelTask", "failTask"},
           status \in TaskStatus, next \in PC : SaveTask(t, at, status, next)
  BY DEF QueueTask, StartTask, CompleteTask, CancelTask, FailTask,
         PC, Opening, Closing, TaskStatus
<1>2. /\ proc' = proc /\ execRow' = execRow
      /\ \A u \in Tasks \ {t} : /\ taskRow'[u] = taskRow[u] /\ call'[u] = call[u]
                                /\ reply'[u] = reply[u]
  BY <1>1 DEF SaveTask, Goto, TypeOK
<1>3. RowsFollowCall(t)
  BY DEF RowsFollowCalls, RowsFollowCall
<1>4. /\ call'[t].exec = call[t].exec
      /\ proc = "up" /\ call[t].pc = at
      /\ reply[t] = "NONE"
  BY <1>1, <1>3 DEF SaveTask, OnLoop, Goto, TypeOK, RowsFollowCall
<1>5. RowsFollowCall(t)'
  <2>1. CASE QueueTask(t)
    BY <2>1, <1>2, <1>3, <1>4
    DEF QueueTask, SaveTask, OnLoop, Goto, TypeOK, RowsFollowCall, PairsAt
  <2>2. CASE StartTask(t)
    BY <2>2, <1>2, <1>3, <1>4
    DEF StartTask, SaveTask, OnLoop, Goto, TypeOK, RowsFollowCall, PairsAt
  <2>3. CASE CompleteTask(t)
    BY <2>3, <1>2, <1>3, <1>4
    DEF CompleteTask, SaveTask, OnLoop, Goto, TypeOK, RowsFollowCall, PairsAt, Terminal
  <2>4. CASE CancelTask(t)
    BY <2>4, <1>2, <1>3, <1>4
    DEF CancelTask, SaveTask, OnLoop, Goto, TypeOK, RowsFollowCall, PairsAt, Terminal
  <2>5. CASE FailTask(t)
    BY <2>5, <1>2, <1>3, <1>4
    DEF FailTask, SaveTask, OnLoop, Goto, TypeOK, RowsFollowCall, PairsAt, Terminal
  <2> QED
    BY <2>1, <2>2, <2>3, <2>4, <2>5
<1> QED
  BY <1>2, <1>5, OthersFollow

\* A call that starts, whose strategy settles or whose save throws leaves the
\* rows alone, and goes where those rows are expected.
LEMMA FollowLocalStep ==
  ASSUME TypeOK, RowsFollowCalls, NEW t \in Tasks,
         Submit(t) \/ StrategyEnds(t) \/ SaveThrows(t)
  PROVE  RowsFollowCalls'
<1>1. /\ proc' = proc /\ proc = "up" /\ execRow' = execRow /\ taskRow' = taskRow /\ reply' = reply
      /\ \A u \in Tasks \ {t} : call'[u] = call[u]
  BY DEF Submit, StrategyEnds, StrategyReturns, StrategyCancelled, StrategyThrows,
         StrategyThrowsBlank, StrategySettles, SaveThrows, Goto, TypeOK
<1>2. RowsFollowCall(t)
  BY DEF RowsFollowCalls, RowsFollowCall
<1>3. CASE Submit(t)
  <2>1. RowsFollowCall(t)'
    BY <1>1, <1>2, <1>3 DEF Submit, TypeOK, RowsFollowCall, PairsAt, Terminal
  <2> QED
    BY <2>1, <1>1, OthersFollow
<1>4. CASE StrategyThrowsBlank(t)
  <2>1. RowsFollowCall(t)'
    BY <1>1, <1>2, <1>4
    DEF StrategyThrowsBlank, Goto, TypeOK, RowsFollowCall, PairsAt, OpenPairs
  <2> QED
    BY <2>1, <1>1, OthersFollow
<1>5. CASE StrategyReturns(t) \/ StrategyCancelled(t) \/ StrategyThrows(t)
  <2>1. RowsFollowCall(t)'
    BY <1>1, <1>2, <1>5
    DEF StrategyReturns, StrategyCancelled, StrategyThrows, StrategySettles, TypeOK,
        RowsFollowCall, PairsAt
  <2> QED
    BY <2>1, <1>1, OthersFollow
<1>6. CASE SaveThrows(t)
  <2>1. AfterThrow(call[t].pc, call[t].exec) = "rejected"
    BY <1>2 DEF AfterThrow, RowsFollowCall, ExecTransition
  <2>2. call'[t].pc = "rejected"
    BY <1>6, <2>1 DEF SaveThrows, Goto, TypeOK
  <2>3. call[t].pc \in Opening \union Closing
    BY <1>6 DEF SaveThrows
  <2>4. <<execRow[t], taskRow[t]>> \in OpenPairs \union {<<"ABSENT", "ABSENT">>}
    BY <1>2, <2>3 DEF RowsFollowCall, PairsAt, Opening, Closing, OpenPairs
  <2>5. reply[t] = "NONE"
    BY <1>2, <2>3 DEF RowsFollowCall, Opening, Closing
  <2>6. RowsFollowCall(t)'
    BY <1>1, <2>2, <2>4, <2>5 DEF RowsFollowCall, PairsAt
  <2> QED
    BY <2>6, <1>1, OthersFollow
<1> QED
  BY <1>3, <1>4, <1>5, <1>6 DEF StrategyEnds

\* Whatever a crash interrupts, the pair of rows is an open or a settled one.
LEMMA FollowCrash == ASSUME TypeOK, RowsFollowCalls, Crash PROVE RowsFollowCalls'
<1> SUFFICES ASSUME NEW t \in Tasks PROVE RowsFollowCall(t)'
  BY DEF RowsFollowCalls, RowsFollowCall
<1>1. RowsFollowCall(t) /\ call[t].pc \in PC
  BY DEF RowsFollowCalls, RowsFollowCall, TypeOK
<1>2. <<execRow[t], taskRow[t]>> \in ReachablePairs
  BY <1>1 DEF RowsFollowCall, PairsAt, PC, Opening, Closing, ReachablePairs, OpenPairs,
              SettledPairs, FinalPairs, Terminal
<1>3. /\ call'[t].pc = "idle" /\ proc' = "down"
      /\ execRow' = execRow /\ taskRow' = taskRow /\ reply' = reply
  BY DEF Crash, durable
<1> QED
  BY <1>1, <1>2, <1>3 DEF RowsFollowCall, PairsAt, ReachablePairs

\* The recovery maps every open or settled pair to a settled one, and leaves
\* pairs that are both terminal alone.
LEMMA FollowRestart == ASSUME TypeOK, RowsFollowCalls, Restart PROVE RowsFollowCalls'
<1> SUFFICES ASSUME NEW t \in Tasks PROVE RowsFollowCall(t)'
  BY DEF RowsFollowCalls, RowsFollowCall
<1>1. RowsFollowCall(t) /\ proc = "down" /\ call[t].pc = "idle"
  BY DEF RowsFollowCalls, RowsFollowCall, Restart
<1>2. <<execRow[t], taskRow[t]>> \in ReachablePairs
  BY <1>1 DEF RowsFollowCall, PairsAt, ReachablePairs
<1>3. <<RecoveredExec(execRow[t]), RecoveredTask(taskRow[t])>> \in SettledPairs
  BY <1>2 DEF ReachablePairs, OpenPairs, SettledPairs, FinalPairs, RecoveredExec, RecoveredTask
<1>4. /\ execRow'[t] = RecoveredExec(execRow[t]) /\ taskRow'[t] = RecoveredTask(taskRow[t])
      /\ proc' = "up" /\ call' = call /\ reply' = reply
  BY DEF Restart
<1>5. reply[t] # "NONE" => execRow'[t] = execRow[t] /\ taskRow'[t] = taskRow[t]
  BY <1>1, <1>4 DEF RowsFollowCall, RecoveredExec, RecoveredTask, Terminal
<1> QED
  BY <1>1, <1>3, <1>4, <1>5 DEF RowsFollowCall, PairsAt

\* The inductive invariant.
IInv == TypeOK /\ RowsFollowCalls

\* It holds initially: there are no rows, and the process is down.
LEMMA IInvInit == Init => IInv
BY TypeInit DEF Init, IInv, RowsFollowCalls, PairsAt, SettledPairs

\* Every step preserves it.
LEMMA IInvStep == IInv /\ [Next]_vars => IInv'
<1> SUFFICES ASSUME TypeOK, RowsFollowCalls, [Next]_vars PROVE RowsFollowCalls'
  BY TypeStep DEF IInv
<1>1. ASSUME NEW t \in Tasks, ExecuteStep(t) PROVE RowsFollowCalls'
  BY <1>1, FollowSaveExecution, FollowSaveTask DEF ExecuteStep
<1>2. ASSUME NEW t \in Tasks, Submit(t) \/ StrategyEnds(t) \/ SaveThrows(t) PROVE RowsFollowCalls'
  BY <1>2, FollowLocalStep
<1>3. CASE Crash
  BY <1>3, FollowCrash
<1>4. CASE Restart
  BY <1>4, FollowRestart
<1>5. CASE RestartAborts \/ UNCHANGED vars
  BY <1>5 DEF RestartAborts, durable, vars, RowsFollowCalls, PairsAt
<1> QED
  BY <1>1, <1>2, <1>3, <1>4, <1>5 DEF Next

\* The rows of every task follow its call, across crashes and recoveries.
THEOREM RowsFollowCallsCorrect == Spec => [](TypeOK /\ RowsFollowCalls)
<1>1. Init => IInv
  BY IInvInit
<1>2. IInv /\ [Next]_vars => IInv'
  BY IInvStep
<1> QED
  BY <1>1, <1>2, PTL DEF Spec, IInv

--------------------------------------------------------------------------------
(* What follows from the inductive invariant.                                  *)

\* A call in any position has stored a reachable pair of rows.
LEMMA PairsReachable ==
  ASSUME IInv, NEW t \in Tasks
  PROVE  \/ <<execRow[t], taskRow[t]>> \in OpenPairs /\ taskRow[t] \notin Terminal
         \/ <<execRow[t], taskRow[t]>> \in SettledPairs
<1>1. <<execRow[t], taskRow[t]>> \in PairsAt(call[t].pc) /\ call[t].pc \in PC
  BY DEF IInv, RowsFollowCalls, TypeOK
<1> QED
  BY <1>1 DEF PairsAt, PC, Opening, Closing, OpenPairs, SettledPairs, FinalPairs, Terminal

\* When an execution and its task have both ended, they ended in one of the six
\* listed pairs; in particular no COMPLETED task has an execution that did not
\* complete.
THEOREM FinalStatusesAgreeCorrect == Spec => []FinalStatusesAgree
<1>1. IInv => FinalStatusesAgree
  <2> SUFFICES ASSUME IInv, NEW t \in Tasks, execRow[t] \in Terminal, taskRow[t] \in Terminal
               PROVE  <<execRow[t], taskRow[t]>> \in FinalPairs
    BY DEF FinalStatusesAgree
  <2>1. <<execRow[t], taskRow[t]>> \in SettledPairs
    BY PairsReachable
  <2> QED
    BY <2>1 DEF SettledPairs, FinalPairs, Terminal
<1> QED
  BY <1>1, RowsFollowCallsCorrect, PTL DEF IInv

\* Once the process is up, every open row belongs to a call it has started.
THEOREM NoInheritedOpenRowsCorrect == Spec => []NoInheritedOpenRows
<1>1. IInv => NoInheritedOpenRows
  <2> SUFFICES ASSUME IInv, proc = "up", NEW t \in Tasks, call[t].pc = "idle"
               PROVE  t \notin StaleExecs \union StaleTasks
    BY DEF NoInheritedOpenRows
  <2>1. <<execRow[t], taskRow[t]>> \in SettledPairs
    BY DEF IInv, RowsFollowCalls, PairsAt
  <2> QED
    BY <2>1 DEF SettledPairs, FinalPairs, StaleExecs, StaleTasks
<1> QED
  BY <1>1, RowsFollowCallsCorrect, PTL DEF IInv

\* The outcome a caller was given is never changed by anything that happens
\* afterwards.
THEOREM AcknowledgedOutcomeIsDurableCorrect == Spec => []AcknowledgedOutcomeIsDurable
<1>1. IInv => AcknowledgedOutcomeIsDurable
  BY DEF IInv, RowsFollowCalls, AcknowledgedOutcomeIsDurable
<1> QED
  BY <1>1, RowsFollowCallsCorrect, PTL DEF IInv

\* What one step may do to the two rows of a task: nothing, or one transition
\* of their tables from a row that is not terminal.
LEMMA RowSteps ==
  ASSUME IInv, [Next]_vars, NEW t \in Tasks
  PROVE  /\ execRow[t] \in Terminal => execRow'[t] = execRow[t]
         /\ taskRow[t] \in Terminal => taskRow'[t] = taskRow[t]
<1>1. ASSUME NEW u \in Tasks, ExecuteStep(u) PROVE
       /\ execRow[t] \in Terminal => execRow'[t] = execRow[t]
       /\ taskRow[t] \in Terminal => taskRow'[t] = taskRow[t]
  <2>0. <<execRow[u], taskRow[u]>> \in PairsAt(call[u].pc)
    BY DEF IInv, RowsFollowCalls
  <2>1. CASE \/ CreateExecution(u) \/ StartExecution(u) \/ CompleteExecution(u)
             \/ CancelExecution(u) \/ FailExecution(u)
    BY <2>0, <2>1 DEF CreateExecution, StartExecution, CompleteExecution, CancelExecution,
       FailExecution, SaveExecution, OnLoop, PairsAt, Terminal, IInv, TypeOK
  <2>2. CASE QueueTask(u) \/ StartTask(u) \/ CompleteTask(u) \/ CancelTask(u) \/ FailTask(u)
    BY <2>0, <2>2 DEF QueueTask, StartTask, CompleteTask, CancelTask, FailTask,
       SaveTask, OnLoop, PairsAt, Terminal, IInv, TypeOK
  <2> QED
    BY <1>1, <2>1, <2>2 DEF ExecuteStep
<1>2. CASE Restart
  BY <1>2 DEF Restart, RecoveredExec, RecoveredTask, Terminal
<1>3. ASSUME NEW u \in Tasks, Submit(u) \/ StrategyEnds(u) \/ SaveThrows(u)
      PROVE  execRow' = execRow /\ taskRow' = taskRow
  BY <1>3 DEF Submit, StrategyEnds, StrategyReturns, StrategyCancelled, StrategyThrows,
         StrategyThrowsBlank, StrategySettles, SaveThrows
<1>4. CASE Crash \/ RestartAborts \/ UNCHANGED vars
  BY <1>4 DEF Crash, RestartAborts, durable, vars
<1> QED
  BY <1>1, <1>2, <1>3, <1>4 DEF Next

\* No step, live or recovering, rewrites a terminal row, although no save reads
\* the row it overwrites.
THEOREM TerminalRowsAreImmutableCorrect == Spec => TerminalRowsAreImmutable
<1>1. IInv /\ [Next]_vars
        => [\A t \in Tasks : /\ taskRow[t] \in Terminal => taskRow'[t] = taskRow[t]
                             /\ execRow[t] \in Terminal => execRow'[t] = execRow[t]]_vars
  BY RowSteps
<1> QED
  BY <1>1, RowsFollowCallsCorrect, PTL DEF IInv, Spec, TerminalRowsAreImmutable

--------------------------------------------------------------------------------
(* CoreRuntime implements TaskStore.                                           *)

\* The initial states of the runtime are initial states of the store.
LEMMA RefinesInit == Init => Store!Init
BY DEF Init, Store!Init

\* Every step of the runtime is a step of the store, or is invisible to it.
LEMMA RefinesStep ==
  ASSUME IInv, [Next]_vars
  PROVE  [Store!Next]_<<taskRow, reply>>
<1>1. ASSUME NEW t \in Tasks, ExecuteStep(t) PROVE [Store!Next]_<<taskRow, reply>>
  <2>0. <<execRow[t], taskRow[t]>> \in PairsAt(call[t].pc)
    BY DEF IInv, RowsFollowCalls
  <2>1. CASE \/ CreateExecution(t) \/ StartExecution(t) \/ CompleteExecution(t)
             \/ CancelExecution(t) \/ FailExecution(t)
    BY <2>1 DEF CreateExecution, StartExecution, CompleteExecution, CancelExecution,
       FailExecution, SaveExecution
  <2>2. CASE QueueTask(t)
    <3>1. Store!Accept(t)
      BY <2>0, <2>2 DEF QueueTask, SaveTask, OnLoop, PairsAt, Store!Accept
    <3> QED
      BY <3>1 DEF Store!Next
  <2>3. CASE StartTask(t)
    <3>1. Store!Advance(t, "RUNNING")
      BY <2>0, <2>3 DEF StartTask, SaveTask, OnLoop, PairsAt, Store!Advance,
         Store!TaskTransition, Store!Terminal
    <3> QED
      BY <3>1 DEF Store!Next, Store!TaskStatus
  <2>4. ASSUME NEW s \in Terminal, taskRow[t] = "RUNNING",
               taskRow' = [taskRow EXCEPT ![t] = s], reply' = [reply EXCEPT ![t] = s]
        PROVE  Store!Next
    <3>1. Store!Advance(t, s)
      BY <2>4 DEF Store!Advance, Store!TaskTransition, Store!Terminal, Terminal
    <3> QED
      BY <3>1 DEF Store!Next, Store!TaskStatus, Terminal
  <2>5. CASE CompleteTask(t) \/ CancelTask(t) \/ FailTask(t)
    <3>1. taskRow[t] = "RUNNING"
      BY <2>0, <2>5 DEF CompleteTask, CancelTask, FailTask, SaveTask, OnLoop, PairsAt
    <3>2. PICK s \in Terminal : /\ taskRow' = [taskRow EXCEPT ![t] = s]
                                /\ reply' = [reply EXCEPT ![t] = s]
      BY <2>5 DEF CompleteTask, CancelTask, FailTask, SaveTask, Terminal
    <3> QED
      BY <2>4, <3>1, <3>2
  <2> QED
    BY <1>1, <2>1, <2>2, <2>3, <2>5 DEF ExecuteStep
<1>2. CASE Restart
  <2>1. Store!Restart
    BY <1>2 DEF Restart, Store!Restart, RecoveredTask, Store!Closed
  <2> QED
    BY <2>1 DEF Store!Next
<1>3. ASSUME NEW t \in Tasks, Submit(t) \/ StrategyEnds(t) \/ SaveThrows(t)
      PROVE  reply' = reply /\ taskRow' = taskRow
  BY <1>3 DEF Submit, StrategyEnds, StrategyReturns, StrategyCancelled, StrategyThrows,
         StrategyThrowsBlank, StrategySettles, SaveThrows
<1>4. CASE Crash \/ RestartAborts \/ UNCHANGED vars
  BY <1>4 DEF Crash, RestartAborts, durable, vars
<1> QED
  BY <1>1, <1>2, <1>3, <1>4 DEF Next

\* The durable record of tasks implements the abstract task store: statuses move
\* along the transition table only, an outcome is reported in the very step
\* that records it, and a restart closes all open tasks at once.
THEOREM ImplementsTaskStoreCorrect == Spec => ImplementsTaskStore
<1>1. Init => Store!Init
  BY RefinesInit
<1>2. IInv /\ [Next]_vars => [Store!Next]_<<taskRow, reply>>
  BY RefinesStep
<1> QED
  BY <1>1, <1>2, RowsFollowCallsCorrect, PTL DEF IInv, Spec, ImplementsTaskStore, Store!Spec

--------------------------------------------------------------------------------
(* The durable audit log.                                                      *)

\* A log that matches its row and is a legal path still does and is once the
\* status of a legal transition is appended to it.
LEMMA AppendLegal ==
  ASSUME NEW S, NEW transition, NEW first, NEW row, NEW log \in Seq(S), NEW status \in S,
         LogMatches(row, log), LegalPath(log, first, transition),
         status # "ABSENT",
         \/ row = "ABSENT" /\ status = first
         \/ <<row, status>> \in transition /\ row # "ABSENT"
  PROVE  LogMatches(status, Append(log, status)) /\ LegalPath(Append(log, status), first, transition)
<1> DEFINE long == Append(log, status)
<1>1. /\ long \in Seq(S) /\ Len(log) \in Nat /\ Len(long) = Len(log) + 1
      /\ long # << >>
      /\ long[Len(long)] = status
      /\ \A i \in 1..Len(log) : long[i] = log[i]
  OBVIOUS
<1>2. LogMatches(status, long)
  BY <1>1 DEF LogMatches
<1>3. long[1] = first
  <2>1. CASE log = << >>
    BY <2>1, <1>1 DEF LogMatches
  <2>2. CASE log # << >>
    <3>1. 1 \in 1..Len(log)
      BY <2>2
    <3> QED
      BY <2>2, <3>1, <1>1 DEF LegalPath
  <2> QED
    BY <2>1, <2>2
<1>4. ASSUME NEW i \in 1..(Len(long) - 1) PROVE <<long[i], long[i + 1]>> \in transition
  <2>1. CASE i = Len(log)
    <3>1. log # << >> /\ long[i] = row /\ long[i + 1] = status /\ row # "ABSENT"
      BY <2>1, <1>1 DEF LogMatches
    <3> QED
      BY <3>1
  <2>2. CASE i # Len(log)
    <3>1. i \in 1..(Len(log) - 1) /\ i \in 1..Len(log) /\ i + 1 \in 1..Len(log)
      BY <2>2, <1>1
    <3> QED
      BY <3>1, <1>1 DEF LegalPath
  <2> QED
    BY <2>1, <2>2
<1> QED
  BY <1>2, <1>3, <1>4 DEF LegalPath

\* Both audit log invariants, for one task.
LogsOf(t) ==
  /\ LogMatches(taskRow[t], taskLog[t]) /\ LegalPath(taskLog[t], "QUEUED", TaskTransition)
  /\ LogMatches(execRow[t], execLog[t]) /\ LegalPath(execLog[t], "CREATED", ExecTransition)
Logs == \A t \in Tasks : LogsOf(t)

\* Every step of the runtime keeps the log of every aggregate legal and level
\* with its row.
LEMMA LogsStep ==
  ASSUME IInv, Logs, [Next]_vars
  PROVE  Logs'
<1> SUFFICES ASSUME NEW t \in Tasks PROVE LogsOf(t)'
  BY DEF Logs
<1>0. /\ LogsOf(t)
      /\ taskLog[t] \in Seq(TaskStatus) /\ execLog[t] \in Seq(ExecStatus)
      /\ <<execRow[t], taskRow[t]>> \in PairsAt(call[t].pc)
      /\ execRow[t] \in ExecStatus \union {"ABSENT"}
      /\ taskRow[t] \in TaskStatus \union {"ABSENT"}
  BY DEF Logs, IInv, TypeOK, RowsFollowCalls
<1>1. ASSUME NEW status \in ExecStatus,
             \/ execRow[t] = "ABSENT" /\ status = "CREATED"
             \/ <<execRow[t], status>> \in ExecTransition /\ execRow[t] # "ABSENT",
             execRow'[t] = status, execLog'[t] = Append(execLog[t], status)
      PROVE  LogMatches(execRow[t], execLog[t])' /\ LegalPath(execLog[t], "CREATED", ExecTransition)'
  <2>1. status # "ABSENT"
    BY DEF ExecStatus
  <2> QED
    BY <1>0, <1>1, <2>1, AppendLegal DEF LogsOf
<1>2. ASSUME NEW status \in TaskStatus,
             \/ taskRow[t] = "ABSENT" /\ status = "QUEUED"
             \/ <<taskRow[t], status>> \in TaskTransition /\ taskRow[t] # "ABSENT",
             taskRow'[t] = status, taskLog'[t] = Append(taskLog[t], status)
      PROVE  LogMatches(taskRow[t], taskLog[t])' /\ LegalPath(taskLog[t], "QUEUED", TaskTransition)'
  <2>1. status # "ABSENT"
    BY DEF TaskStatus
  <2> QED
    BY <1>0, <1>2, <2>1, AppendLegal DEF LogsOf
<1>3. ASSUME execRow'[t] = execRow[t], execLog'[t] = execLog[t]
      PROVE  LogMatches(execRow[t], execLog[t])' /\ LegalPath(execLog[t], "CREATED", ExecTransition)'
  BY <1>0, <1>3 DEF LogsOf
<1>4. ASSUME taskRow'[t] = taskRow[t], taskLog'[t] = taskLog[t]
      PROVE  LogMatches(taskRow[t], taskLog[t])' /\ LegalPath(taskLog[t], "QUEUED", TaskTransition)'
  BY <1>0, <1>4 DEF LogsOf
<1>5. ASSUME NEW u \in Tasks,
             \/ CreateExecution(u) \/ StartExecution(u) \/ CompleteExecution(u)
             \/ CancelExecution(u) \/ FailExecution(u)
      PROVE  LogsOf(t)'
  <2>1. PICK status \in ExecStatus :
          /\ execRow' = [execRow EXCEPT ![u] = status]
          /\ execLog' = [execLog EXCEPT ![u] = Append(@, status)]
          /\ taskRow' = taskRow /\ taskLog' = taskLog
          /\ u = t => \/ execRow[t] = "ABSENT" /\ status = "CREATED"
                      \/ <<execRow[t], status>> \in ExecTransition /\ execRow[t] # "ABSENT"
    BY <1>0, <1>5 DEF CreateExecution, StartExecution, CompleteExecution, CancelExecution,
       FailExecution, SaveExecution, OnLoop, PairsAt, ExecTransition, ExecStatus
  <2>2. CASE u = t
    BY <2>1, <2>2, <1>1, <1>4 DEF LogsOf, IInv, TypeOK
  <2>3. CASE u # t
    BY <2>1, <2>3, <1>3, <1>4 DEF LogsOf, IInv, TypeOK
  <2> QED
    BY <2>2, <2>3
<1>6. ASSUME NEW u \in Tasks,
             QueueTask(u) \/ StartTask(u) \/ CompleteTask(u) \/ CancelTask(u) \/ FailTask(u)
      PROVE  LogsOf(t)'
  <2>1. PICK status \in TaskStatus :
          /\ taskRow' = [taskRow EXCEPT ![u] = status]
          /\ taskLog' = [taskLog EXCEPT ![u] = Append(@, status)]
          /\ execRow' = execRow /\ execLog' = execLog
          /\ u = t => \/ taskRow[t] = "ABSENT" /\ status = "QUEUED"
                      \/ <<taskRow[t], status>> \in TaskTransition /\ taskRow[t] # "ABSENT"
    BY <1>0, <1>6 DEF QueueTask, StartTask, CompleteTask, CancelTask, FailTask,
       SaveTask, OnLoop, PairsAt, TaskTransition, TaskStatus
  <2>2. CASE u = t
    BY <2>1, <2>2, <1>2, <1>3 DEF LogsOf, IInv, TypeOK
  <2>3. CASE u # t
    BY <2>1, <2>3, <1>3, <1>4 DEF LogsOf, IInv, TypeOK
  <2> QED
    BY <2>2, <2>3
<1>7. CASE Restart
  <2>1. LogMatches(execRow[t], execLog[t])' /\ LegalPath(execLog[t], "CREATED", ExecTransition)'
    <3>1. CASE t \in StaleExecs
      <4>1. /\ RecoveredExec(execRow[t]) \in ExecStatus
            /\ <<execRow[t], RecoveredExec(execRow[t])>> \in ExecTransition
            /\ execRow[t] # "ABSENT"
        BY <3>1 DEF StaleExecs, RecoveredExec, ExecStatus, ExecTransition
      <4>2. /\ execRow'[t] = RecoveredExec(execRow[t])
            /\ execLog'[t] = Append(execLog[t], RecoveredExec(execRow[t]))
        BY <1>7, <3>1 DEF Restart, RecoveryLog
      <4> QED
        BY <4>1, <4>2, <1>1
    <3>2. CASE t \notin StaleExecs
      BY <1>0, <1>3, <1>7, <3>2 DEF Restart, RecoveryLog, StaleExecs, RecoveredExec, ExecStatus
    <3> QED
      BY <3>1, <3>2
  <2>2. LogMatches(taskRow[t], taskLog[t])' /\ LegalPath(taskLog[t], "QUEUED", TaskTransition)'
    <3>1. CASE t \in StaleTasks
      <4>1. /\ RecoveredTask(taskRow[t]) \in TaskStatus
            /\ <<taskRow[t], RecoveredTask(taskRow[t])>> \in TaskTransition
            /\ taskRow[t] # "ABSENT"
        BY <3>1 DEF StaleTasks, RecoveredTask, TaskStatus, TaskTransition
      <4>2. /\ taskRow'[t] = RecoveredTask(taskRow[t])
            /\ taskLog'[t] = Append(taskLog[t], RecoveredTask(taskRow[t]))
        BY <1>7, <3>1 DEF Restart, RecoveryLog
      <4> QED
        BY <4>1, <4>2, <1>2
    <3>2. CASE t \notin StaleTasks
      BY <1>0, <1>4, <1>7, <3>2 DEF Restart, RecoveryLog, StaleTasks, RecoveredTask, TaskStatus
    <3> QED
      BY <3>1, <3>2
  <2> QED
    BY <2>1, <2>2 DEF LogsOf
<1>8. ASSUME NEW u \in Tasks, Submit(u) \/ StrategyEnds(u) \/ SaveThrows(u) PROVE LogsOf(t)'
  <2>1. execRow' = execRow /\ taskRow' = taskRow /\ execLog' = execLog /\ taskLog' = taskLog
    BY <1>8 DEF Submit, StrategyEnds, StrategyReturns, StrategyCancelled, StrategyThrows,
       StrategyThrowsBlank, StrategySettles, SaveThrows
  <2> QED
    BY <2>1, <1>3, <1>4 DEF LogsOf
<1>9. CASE Crash \/ RestartAborts \/ UNCHANGED vars
  <2>1. execRow' = execRow /\ taskRow' = taskRow /\ execLog' = execLog /\ taskLog' = taskLog
    BY <1>9 DEF Crash, RestartAborts, durable, vars
  <2> QED
    BY <2>1, <1>3, <1>4 DEF LogsOf
<1> QED
  BY <1>5, <1>6, <1>7, <1>8, <1>9 DEF Next, ExecuteStep

\* The log is empty before the first save.
LEMMA LogsInit == Init => Logs
BY DEF Init, Logs, LogsOf, LogMatches, LegalPath

\* The audit log is level with the tables, and reads as a legal history of every
\* aggregate however many recoveries extended it.
THEOREM AuditLogCorrect == Spec => []AuditLogIsLegal
<1>1. Init => Logs
  BY LogsInit
<1>2. IInv /\ Logs /\ [Next]_vars => Logs'
  BY LogsStep
<1>3. Logs => AuditLogIsLegal
  BY DEF Logs, LogsOf, AuditLogIsLegal
<1> QED
  BY <1>1, <1>2, <1>3, RowsFollowCallsCorrect, PTL DEF IInv, Spec

--------------------------------------------------------------------------------
(* What the subscribers were told.                                             *)

Tells(log, s) == \E i \in 1..Len(log) : log[i] = s
Logged(e) == Tells(IF e[1] = "task" THEN taskLog[e[2]] ELSE execLog[e[2]], e[3])

\* A longer log tells what it told before, and its last event.
LEMMA AppendTells ==
  ASSUME NEW S, NEW log \in Seq(S), NEW x \in S
  PROVE  /\ Tells(Append(log, x), x)
         /\ \A s : Tells(log, s) => Tells(Append(log, x), s)
<1> DEFINE long == Append(log, x)
<1>1. /\ Len(log) \in Nat /\ Len(long) = Len(log) + 1 /\ long[Len(log) + 1] = x
      /\ \A i \in 1..Len(log) : long[i] = log[i]
  OBVIOUS
<1> HIDE DEF long
<1>2. Tells(long, x)
  BY <1>1 DEF Tells
<1>3. \A s : Tells(log, s) => Tells(long, s)
  BY <1>1 DEF Tells
<1> QED
  BY <1>2, <1>3 DEF long

\* A step that saves tells of what it saved, a committing recovery likewise, and no
\* log forgets.
LEMMA NotifiedStep ==
  ASSUME TypeOK, NotifiedUnlessRolledBack, [Next]_vars
  PROVE  NotifiedUnlessRolledBack'
<1> SUFFICES ASSUME aborts' = 0, NEW e \in notified' PROVE Logged(e)'
  BY DEF NotifiedUnlessRolledBack, Logged, Tells
<1>0. /\ \A t \in Tasks : taskLog[t] \in Seq(TaskStatus) /\ execLog[t] \in Seq(ExecStatus)
      /\ notified \subseteq ({"execution", "task"} \X Tasks \X TaskStatus)
      /\ taskLog \in [Tasks -> Seq(TaskStatus)] /\ execLog \in [Tasks -> Seq(ExecStatus)]
      /\ aborts \in Nat
  BY DEF TypeOK
<1>1. aborts = 0 => \A d \in notified : Logged(d)
  BY DEF NotifiedUnlessRolledBack, Logged, Tells
<1>2. ASSUME UNCHANGED <<taskLog, execLog, notified, aborts>> PROVE Logged(e)'
  BY <1>1, <1>2 DEF Logged
<1>3. ASSUME NEW u \in Tasks, NEW status \in ExecStatus, NEW at, NEW next,
             SaveExecution(u, at, status, next)
      PROVE  Logged(e)'
  <2>1. /\ execLog' = [execLog EXCEPT ![u] = Append(@, status)] /\ taskLog' = taskLog
        /\ notified' = notified \union {<<"execution", u, status>>} /\ aborts' = aborts
    BY <1>3 DEF SaveExecution
  <2>2. execLog'[u] = Append(execLog[u], status)
        /\ \A t \in Tasks \ {u} : execLog'[t] = execLog[t]
    BY <1>0, <2>1
  <2>3. Tells(execLog'[u], status) /\ \A s : Tells(execLog[u], s) => Tells(execLog'[u], s)
    BY <1>0, <2>2, AppendTells
  <2>4. CASE e = <<"execution", u, status>>
    BY <2>3, <2>4 DEF Logged
  <2>5. CASE e \in notified
    <3>1. Logged(e) /\ e[2] \in Tasks BY <1>0, <1>1, <2>1, <2>5
    <3> QED BY <2>1, <2>2, <2>3, <3>1 DEF Logged
  <2> QED BY <2>1, <2>4, <2>5
<1>4. ASSUME NEW u \in Tasks, NEW status \in TaskStatus, NEW at, NEW next,
             SaveTask(u, at, status, next)
      PROVE  Logged(e)'
  <2>1. /\ taskLog' = [taskLog EXCEPT ![u] = Append(@, status)] /\ execLog' = execLog
        /\ notified' = notified \union {<<"task", u, status>>} /\ aborts' = aborts
    BY <1>4 DEF SaveTask
  <2>2. taskLog'[u] = Append(taskLog[u], status)
        /\ \A t \in Tasks \ {u} : taskLog'[t] = taskLog[t]
    BY <1>0, <2>1
  <2>3. Tells(taskLog'[u], status) /\ \A s : Tells(taskLog[u], s) => Tells(taskLog'[u], s)
    BY <1>0, <2>2, AppendTells
  <2>4. CASE e = <<"task", u, status>>
    BY <2>3, <2>4 DEF Logged
  <2>5. CASE e \in notified
    <3>1. Logged(e) /\ e[2] \in Tasks BY <1>0, <1>1, <2>1, <2>5
    <3> QED BY <2>1, <2>2, <2>3, <3>1 DEF Logged
  <2> QED BY <2>1, <2>4, <2>5
<1>5. CASE Restart
  <2>1. /\ notified' = notified \union RecoveryEvents(StaleExecs, StaleTasks) /\ aborts' = aborts
        /\ \A t \in Tasks :
             /\ execLog'[t] = RecoveryLog(execLog[t], StaleExecs, t, RecoveredExec(execRow[t]))
             /\ taskLog'[t] = RecoveryLog(taskLog[t], StaleTasks, t, RecoveredTask(taskRow[t]))
    BY <1>5 DEF Restart
  <2>2. ASSUME NEW t \in Tasks
        PROVE  /\ t \in StaleExecs => Tells(execLog'[t], RecoveredExec(execRow[t]))
               /\ \A s : Tells(execLog[t], s) => Tells(execLog'[t], s)
    <3>1. CASE t \in StaleExecs
      <4>1. RecoveredExec(execRow[t]) \in ExecStatus
        BY <3>1 DEF StaleExecs, RecoveredExec, ExecStatus
      <4> QED BY <1>0, <2>1, <3>1, <4>1, AppendTells DEF RecoveryLog
    <3>2. CASE t \notin StaleExecs BY <2>1, <3>2 DEF RecoveryLog
    <3> QED BY <3>1, <3>2
  <2>3. ASSUME NEW t \in Tasks
        PROVE  /\ t \in StaleTasks => Tells(taskLog'[t], RecoveredTask(taskRow[t]))
               /\ \A s : Tells(taskLog[t], s) => Tells(taskLog'[t], s)
    <3>1. CASE t \in StaleTasks
      <4>1. RecoveredTask(taskRow[t]) \in TaskStatus
        BY <3>1 DEF StaleTasks, RecoveredTask, TaskStatus
      <4> QED BY <1>0, <2>1, <3>1, <4>1, AppendTells DEF RecoveryLog
    <3>2. CASE t \notin StaleTasks BY <2>1, <3>2 DEF RecoveryLog
    <3> QED BY <3>1, <3>2
  <2>4. CASE e \in notified
    <3>1. Logged(e) /\ e[2] \in Tasks BY <1>0, <1>1, <2>1, <2>4
    <3> QED BY <2>2, <2>3, <3>1 DEF Logged
  <2>5. CASE e \in RecoveryEvents(StaleExecs, StaleTasks)
    BY <2>2, <2>3, <2>5 DEF RecoveryEvents, Logged, StaleExecs, StaleTasks
  <2> QED BY <2>1, <2>4, <2>5
<1>6. CASE RestartAborts
  BY <1>0, <1>6 DEF RestartAborts
<1>7. ASSUME NEW t \in Tasks, Submit(t) \/ StrategyEnds(t) \/ SaveThrows(t) PROVE Logged(e)'
  BY <1>2, <1>7 DEF Submit, StrategyEnds, StrategyReturns, StrategyCancelled, StrategyThrows,
     StrategyThrowsBlank, StrategySettles, SaveThrows
<1>8. CASE Crash \/ UNCHANGED vars
  BY <1>2, <1>8 DEF Crash, durable, vars
<1>9. ASSUME NEW t \in Tasks, ExecuteStep(t) PROVE Logged(e)'
  BY <1>3, <1>4, <1>9 DEF ExecuteStep, CreateExecution, QueueTask, StartExecution, StartTask,
     CompleteExecution, CompleteTask, CancelExecution, CancelTask, FailExecution, FailTask,
     ExecStatus, TaskStatus
<1> QED
  BY <1>5, <1>6, <1>7, <1>8, <1>9 DEF Next

\* Subscribers hear only of what was stored, unless a recovery has rolled back.
THEOREM NotifiedCorrect == Spec => []NotifiedUnlessRolledBack
<1>1. Init => NotifiedUnlessRolledBack
  BY DEF Init, NotifiedUnlessRolledBack
<1>2. TypeOK /\ NotifiedUnlessRolledBack /\ [Next]_vars => NotifiedUnlessRolledBack'
  BY NotifiedStep
<1> QED
  BY <1>1, <1>2, TypeCorrect, PTL DEF Spec

--------------------------------------------------------------------------------
(* How long a call and a history can get.                                      *)

\* The statements a call may still run: at most four saves, the strategy, and two
\* more saves.
StatementsLeft(pc) ==
  CASE pc = "createExec" -> 7
    [] pc = "queueTask" -> 6
    [] pc = "startExec" -> 5
    [] pc = "startTask" -> 4
    [] pc = "strategy" -> 3
    [] pc \in {"completeExec", "cancelExec", "failExec"} -> 2
    [] pc \in {"completeTask", "cancelTask", "failTask"} -> 1
    [] OTHER -> 0

\* A call never runs a statement twice, also when a save throws and the catch block
\* saves instead: what moves it brings it nearer its end, unless the process dies.
CallComesToAnEnd ==
  [][\A t \in Tasks :
       call'[t] # call[t] =>
         \/ Submit(t) \/ Crash
         \/ StatementsLeft(call'[t].pc) < StatementsLeft(call[t].pc)]_vars

\* However often the process dies and the recovery runs, the durable history of a
\* task and of its execution is three events long: accepted, started, closed.
HistoriesAreShort == \A t \in Tasks : Len(taskLog[t]) <= 3 /\ Len(execLog[t]) <= 3

\* A step of one call moves no other.
LEMMA OneCallMoves ==
  ASSUME TypeOK, NEW t \in Tasks, NEW u \in Tasks, u # t,
         ExecuteStep(u) \/ StrategyEnds(u) \/ SaveThrows(u) \/ Submit(u)
  PROVE  call'[t] = call[t]
BY DEF TypeOK, ExecuteStep, CreateExecution, QueueTask, StartExecution, StartTask,
   CompleteExecution, CompleteTask, CancelExecution, CancelTask, FailExecution, FailTask,
   SaveExecution, SaveTask, Goto, StrategyEnds, StrategyReturns, StrategyCancelled,
   StrategyThrows, StrategyThrowsBlank, StrategySettles, SaveThrows, Submit

\* Each statement, and each settling of the strategy, leaves fewer.
LEMMA StatementRuns ==
  ASSUME IInv, NEW t \in Tasks, ExecuteStep(t) \/ StrategyEnds(t)
  PROVE  StatementsLeft(call'[t].pc) < StatementsLeft(call[t].pc)
<1>1. CASE ExecuteStep(t)
  <2>1. <<call[t].pc, call'[t].pc>> \in
          {<<"createExec", "queueTask">>, <<"queueTask", "startExec">>,
           <<"startExec", "startTask">>, <<"startTask", "strategy">>,
           <<"completeExec", "completeTask">>, <<"completeTask", "returned">>,
           <<"cancelExec", "cancelTask">>, <<"cancelTask", "returned">>,
           <<"failExec", "failTask">>, <<"failTask", "returned">>}
    BY <1>1 DEF IInv, TypeOK, ExecuteStep, CreateExecution, QueueTask, StartExecution, StartTask,
       CompleteExecution, CompleteTask, CancelExecution, CancelTask, FailExecution, FailTask,
       SaveExecution, SaveTask, OnLoop, Goto
  <2> QED BY <2>1 DEF StatementsLeft
<1>2. CASE StrategyEnds(t)
  <2>1. call[t].pc = "strategy"
        /\ call'[t].pc \in {"completeExec", "cancelExec", "failExec", "rejected"}
    BY <1>2 DEF IInv, TypeOK, StrategyEnds, StrategyReturns, StrategyCancelled,
       StrategyThrows, StrategyThrowsBlank, StrategySettles, Goto
  <2> QED BY <2>1 DEF StatementsLeft
<1> QED BY <1>1, <1>2

\* The catch block is entered only with an execution it may fail; that is never so
\* once the COMPLETED execution is being saved, so a throwing save ends the call.
LEMMA ThrowEnds ==
  ASSUME IInv, NEW t \in Tasks, SaveThrows(t)
  PROVE  StatementsLeft(call'[t].pc) < StatementsLeft(call[t].pc)
<1>1. call[t].pc \in Opening \union Closing
      /\ call'[t].pc = AfterThrow(call[t].pc, call[t].exec)
  BY DEF IInv, TypeOK, SaveThrows, Goto
<1>2. call[t].pc \in {"completeExec", "completeTask"} => call[t].exec = "COMPLETED"
  BY DEF IInv, RowsFollowCalls
<1>3. call'[t].pc = "rejected"
  BY <1>1, <1>2 DEF AfterThrow, ExecTransition
<1>4. call[t].pc \notin {"idle", "returned", "rejected"}
  BY <1>1 DEF Opening, Closing
<1> QED BY <1>1, <1>3, <1>4 DEF StatementsLeft, Opening, Closing

\* A call runs each statement once, for every strategy and every failing save: it is
\* over after at most seven of them.
THEOREM CallComesToAnEndCorrect == Spec => CallComesToAnEnd
<1> DEFINE Nearer(t) == call'[t] # call[t] =>
                          \/ Submit(t) \/ Crash
                          \/ StatementsLeft(call'[t].pc) < StatementsLeft(call[t].pc)
<1>1. ASSUME IInv, [Next]_vars, NEW t \in Tasks PROVE Nearer(t)
  <2>1. ASSUME NEW u \in Tasks, ExecuteStep(u) \/ StrategyEnds(u) \/ SaveThrows(u) \/ Submit(u)
        PROVE  Nearer(t)
    <3>1. CASE u = t BY <1>1, <2>1, <3>1, StatementRuns, ThrowEnds
    <3>2. CASE u # t BY <1>1, <2>1, <3>2, OneCallMoves DEF IInv
    <3> QED BY <3>1, <3>2
  <2>2. CASE Restart \/ RestartAborts \/ UNCHANGED vars
    BY <2>2 DEF Restart, RestartAborts, vars
  <2> QED BY <1>1, <2>1, <2>2 DEF Next
<1>2. IInv /\ [Next]_vars => [\A t \in Tasks : Nearer(t)]_vars
  BY <1>1
<1> QED BY <1>2, RowsFollowCallsCorrect, PTL DEF IInv, Spec, CallComesToAnEnd

\* How many events a row with status s may have behind it.
EventsOf(s) == CASE s = "ABSENT" -> 0
                 [] s \in {"CREATED", "QUEUED"} -> 1
                 [] s \in {"RUNNING", "WAITING"} -> 2
                 [] OTHER -> 3

\* No history is longer than the status of its row allows.
Level == \A t \in Tasks : /\ Len(taskLog[t]) <= EventsOf(taskRow[t])
                          /\ Len(execLog[t]) <= EventsOf(execRow[t])

\* What one step does to the history of a task and of its execution: nothing, or one
\* event for a status that allows one more.
LEMMA HistoryGrows ==
  ASSUME IInv, [Next]_vars, NEW t \in Tasks
  PROVE  /\ \/ taskLog'[t] = taskLog[t] /\ taskRow'[t] = taskRow[t]
            \/ \E s \in TaskStatus : taskLog'[t] = Append(taskLog[t], s)
                                     /\ EventsOf(taskRow[t]) < EventsOf(taskRow'[t])
         /\ \/ execLog'[t] = execLog[t] /\ execRow'[t] = execRow[t]
            \/ \E s \in ExecStatus : execLog'[t] = Append(execLog[t], s)
                                     /\ EventsOf(execRow[t]) < EventsOf(execRow'[t])
<1> DEFINE TaskGrows == \/ taskLog'[t] = taskLog[t] /\ taskRow'[t] = taskRow[t]
                        \/ \E s \in TaskStatus : taskLog'[t] = Append(taskLog[t], s)
                                                 /\ EventsOf(taskRow[t]) < EventsOf(taskRow'[t])
           ExecGrows == \/ execLog'[t] = execLog[t] /\ execRow'[t] = execRow[t]
                        \/ \E s \in ExecStatus : execLog'[t] = Append(execLog[t], s)
                                                 /\ EventsOf(execRow[t]) < EventsOf(execRow'[t])
<1>0. /\ \A u \in Tasks : <<execRow[u], taskRow[u]>> \in PairsAt(call[u].pc)
      /\ taskRow[t] \in TaskStatus \union {"ABSENT"} /\ execRow[t] \in ExecStatus \union {"ABSENT"}
      /\ taskRow \in [Tasks -> TaskStatus \union {"ABSENT"}]
      /\ execRow \in [Tasks -> ExecStatus \union {"ABSENT"}]
      /\ taskLog \in [Tasks -> Seq(TaskStatus)] /\ execLog \in [Tasks -> Seq(ExecStatus)]
  BY DEF IInv, TypeOK, RowsFollowCalls
<1>1. ASSUME NEW u \in Tasks,
             \/ CreateExecution(u) \/ StartExecution(u) \/ CompleteExecution(u)
             \/ CancelExecution(u) \/ FailExecution(u)
      PROVE  TaskGrows /\ ExecGrows
  <2>1. PICK s \in ExecStatus :
          /\ execRow' = [execRow EXCEPT ![u] = s] /\ execLog' = [execLog EXCEPT ![u] = Append(@, s)]
          /\ taskRow' = taskRow /\ taskLog' = taskLog
          /\ <<execRow[u], s>> \in {<<"ABSENT", "CREATED">>, <<"CREATED", "RUNNING">>,
                                   <<"RUNNING", "COMPLETED">>, <<"RUNNING", "CANCELLED">>,
                                   <<"RUNNING", "FAILED">>}
    BY <1>0, <1>1 DEF CreateExecution, StartExecution, CompleteExecution, CancelExecution,
       FailExecution, SaveExecution, OnLoop, PairsAt, ExecStatus
  <2>0. EventsOf(execRow[u]) < EventsOf(s)
    BY <2>1 DEF EventsOf
  <2>2. CASE u = t
    <3>1. execLog'[t] = Append(execLog[t], s) /\ execRow'[t] = s
      BY <1>0, <2>1, <2>2
    <3> QED BY <2>0, <2>1, <2>2, <3>1
  <2>3. CASE u # t
    BY <1>0, <2>1, <2>3
  <2> QED BY <2>2, <2>3
<1>2. ASSUME NEW u \in Tasks,
             QueueTask(u) \/ StartTask(u) \/ CompleteTask(u) \/ CancelTask(u) \/ FailTask(u)
      PROVE  TaskGrows /\ ExecGrows
  <2>1. PICK s \in TaskStatus :
          /\ taskRow' = [taskRow EXCEPT ![u] = s] /\ taskLog' = [taskLog EXCEPT ![u] = Append(@, s)]
          /\ execRow' = execRow /\ execLog' = execLog
          /\ <<taskRow[u], s>> \in {<<"ABSENT", "QUEUED">>, <<"QUEUED", "RUNNING">>,
                                   <<"RUNNING", "COMPLETED">>, <<"RUNNING", "CANCELLED">>,
                                   <<"RUNNING", "FAILED">>}
    BY <1>0, <1>2 DEF QueueTask, StartTask, CompleteTask, CancelTask, FailTask,
       SaveTask, OnLoop, PairsAt, TaskStatus
  <2>0. EventsOf(taskRow[u]) < EventsOf(s)
    BY <2>1 DEF EventsOf
  <2>2. CASE u = t
    <3>1. taskLog'[t] = Append(taskLog[t], s) /\ taskRow'[t] = s
      BY <1>0, <2>1, <2>2
    <3> QED BY <2>0, <2>1, <2>2, <3>1
  <2>3. CASE u # t
    BY <1>0, <2>1, <2>3
  <2> QED BY <2>2, <2>3
<1>3. CASE Restart
  <2>1. TaskGrows
    BY <1>0, <1>3 DEF Restart, RecoveryLog, RecoveredTask, StaleTasks, EventsOf, TaskStatus
  <2>2. ExecGrows
    BY <1>0, <1>3 DEF Restart, RecoveryLog, RecoveredExec, StaleExecs, EventsOf, ExecStatus
  <2> QED BY <2>1, <2>2
<1>4. ASSUME NEW u \in Tasks, Submit(u) \/ StrategyEnds(u) \/ SaveThrows(u)
      PROVE  TaskGrows /\ ExecGrows
  BY <1>4 DEF Submit, StrategyEnds, StrategyReturns, StrategyCancelled, StrategyThrows,
     StrategyThrowsBlank, StrategySettles, SaveThrows
<1>5. CASE Crash \/ RestartAborts \/ UNCHANGED vars
  BY <1>5 DEF Crash, RestartAborts, durable, vars
<1> QED BY <1>1, <1>2, <1>3, <1>4, <1>5 DEF Next, ExecuteStep

\* A recovery that runs again and again adds nothing to the record of a task: at most
\* three events are ever stored of it, and three of its execution.
THEOREM HistoriesAreShortCorrect == Spec => []HistoriesAreShort
<1>1. Init => Level
  BY DEF Init, Level, EventsOf
<1>2. IInv /\ Level /\ [Next]_vars => Level'
  <2> SUFFICES ASSUME IInv, Level, [Next]_vars, NEW t \in Tasks
               PROVE  /\ Len(taskLog'[t]) <= EventsOf(taskRow'[t])
                      /\ Len(execLog'[t]) <= EventsOf(execRow'[t])
    BY DEF Level
  <2>1. taskLog[t] \in Seq(TaskStatus) /\ execLog[t] \in Seq(ExecStatus)
    BY DEF IInv, TypeOK
  <2>2. \A s : EventsOf(s) \in 0..3
    BY DEF EventsOf
  <2> QED BY <2>1, <2>2, HistoryGrows DEF Level
<1>3. IInv /\ Level => HistoriesAreShort
  <2>1. \A s : EventsOf(s) \in 0..3
    BY DEF EventsOf
  <2>2. ASSUME IInv PROVE \A t \in Tasks : Len(taskLog[t]) \in Nat /\ Len(execLog[t]) \in Nat
    BY <2>2 DEF IInv, TypeOK
  <2> QED BY <2>1, <2>2 DEF Level, HistoriesAreShort
<1> QED BY <1>1, <1>2, <1>3, RowsFollowCallsCorrect, PTL DEF Spec, IInv

================================================================================
