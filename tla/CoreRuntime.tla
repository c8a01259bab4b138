------------------------------ MODULE CoreRuntime ------------------------------
(***************************************************************************)
(* The task and execution lifecycle of the platform: CoreRuntime.execute,  *)
(* the SQLite transactions it saves through, a crash of the Node.js        *)
(* process between any two of them, and the reconciliation that            *)
(* RestartRecoveryService runs when the process starts again.              *)
(*                                                                         *)
(* One action is one synchronous statement group of execute(): exactly one *)
(* transaction {row upsert, durable event append} followed by the          *)
(* in-memory publication.  The event loop is single-threaded: `busy' is    *)
(* the call that is between two awaits, and no other call moves while it   *)
(* holds the loop.  Every execute() mints one execution, so the execution  *)
(* of task t is indexed by t.                                              *)
(***************************************************************************)
EXTENDS Naturals, Sequences, Lifecycle

CONSTANTS Tasks,            \* the tasks clients may submit (fresh UUIDs)
          None,             \* no call holds the event loop
          MaxCrashes,       \* bound: crashes of a running process
          MaxAborts,        \* bound: startups that abort inside reconcile()
          MaxThrows,        \* bound: saves that throw (disk full, SQLITE_BUSY, ...)
          ClockMayStepBack  \* whether the wall clock may run backwards

ASSUME NoneAssumption == None \notin Tasks
ASSUME BoundsAssumption == MaxCrashes \in Nat /\ MaxAborts \in Nat /\ MaxThrows \in Nat
ASSUME ClockAssumption == ClockMayStepBack \in BOOLEAN

VARIABLES
  proc,        \* "up" or "down"
  busy,        \* the call holding the event loop, or None
  call,        \* call[t]: program counter of execute(t) and its local `execution'
  taskRow,     \* durable: status in table tasks, "ABSENT" if there is no row
  execRow,     \* durable: status in table executions
  taskLog,     \* durable: statuses of the task events of t, in sequence order
  execLog,     \* durable: statuses of the execution events of t
  unreadable,  \* durable: tasks with a row that rehydrate() refuses
  notified,    \* <<kind, task, status>> lifecycle events subscribers were given
  reply,       \* reply[t]: status of the task execute() resolved with, or "NONE"
  crashes, aborts, throws

durable == <<taskRow, execRow, taskLog, execLog, unreadable>>
vars == <<proc, busy, call, taskRow, execRow, taskLog, execLog, unreadable,
          notified, reply, crashes, aborts, throws>>

Opening == {"createExec", "queueTask", "startExec", "startTask"}
Closing == {"completeExec", "completeTask", "cancelExec", "cancelTask", "failExec", "failTask"}
PC == {"idle", "strategy", "returned", "rejected"} \union Opening \union Closing

Init ==
  /\ proc = "down" /\ busy = None
  /\ call = [t \in Tasks |-> [pc |-> "idle", exec |-> "CREATED"]]
  /\ taskRow = [t \in Tasks |-> "ABSENT"] /\ execRow = [t \in Tasks |-> "ABSENT"]
  /\ taskLog = [t \in Tasks |-> << >>]    /\ execLog = [t \in Tasks |-> << >>]
  /\ unreadable = {} /\ notified = {}
  /\ reply = [t \in Tasks |-> "NONE"]
  /\ crashes = 0 /\ aborts = 0 /\ throws = 0

--------------------------------------------------------------------------------
(* Saving an aggregate.  Each save is one BEGIN IMMEDIATE ... COMMIT.       *)

\* completedAt (or startedAt) is read from the wall clock and stored without a
\* check; rehydrate() later refuses a row whose time stamps decrease.
Stamp(t) ==
  \/ UNCHANGED unreadable
  \/ ClockMayStepBack /\ unreadable' = unreadable \union {t}

OnLoop(t, pc) == proc = "up" /\ busy = t /\ call[t].pc = pc

\* Where the loop goes after the statement: an await or the end of the call frees it.
Goto(t, pc) ==
  /\ call' = [call EXCEPT ![t].pc = pc]
  /\ busy' = IF pc \in {"strategy", "returned", "rejected"} THEN None ELSE t

SaveExecution(t, at, status, next) ==
  /\ OnLoop(t, at)
  /\ execRow' = [execRow EXCEPT ![t] = status]
  /\ execLog' = [execLog EXCEPT ![t] = Append(@, status)]
  /\ notified' = notified \union {<<"execution", t, status>>}
  /\ IF status = "CREATED" THEN UNCHANGED unreadable ELSE Stamp(t)
  /\ Goto(t, next)
  /\ UNCHANGED <<proc, taskRow, taskLog, reply, crashes, aborts, throws>>

SaveTask(t, at, status, next) ==
  /\ OnLoop(t, at)
  /\ taskRow' = [taskRow EXCEPT ![t] = status]
  /\ taskLog' = [taskLog EXCEPT ![t] = Append(@, status)]
  /\ notified' = notified \union {<<"task", t, status>>}
  /\ IF status = "COMPLETED" THEN Stamp(t) ELSE UNCHANGED unreadable
  /\ Goto(t, next)
  /\ reply' = IF next = "returned" THEN [reply EXCEPT ![t] = status] ELSE reply
  /\ UNCHANGED <<proc, execRow, execLog, crashes, aborts, throws>>

--------------------------------------------------------------------------------
(* CoreRuntime.execute, statement by statement.                             *)

Submit(t) ==
  /\ proc = "up" /\ busy = None
  /\ call[t].pc = "idle" /\ taskRow[t] = "ABSENT" /\ execRow[t] = "ABSENT"
  /\ call' = [call EXCEPT ![t] = [pc |-> "createExec", exec |-> "CREATED"]]
  /\ busy' = t
  /\ UNCHANGED <<proc, taskRow, execRow, taskLog, execLog, unreadable,
                 notified, reply, crashes, aborts, throws>>

CreateExecution(t) == SaveExecution(t, "createExec", "CREATED", "queueTask")
QueueTask(t) == SaveTask(t, "queueTask", "QUEUED", "startExec")
StartExecution(t) == SaveExecution(t, "startExec", "RUNNING", "startTask")
StartTask(t) == SaveTask(t, "startTask", "RUNNING", "strategy")

\* The awaited strategy settles.  `execution' is reassigned before it is saved.
StrategySettles(t, outcome, pc) ==
  /\ proc = "up" /\ busy = None /\ call[t].pc = "strategy"
  /\ call' = [call EXCEPT ![t] = [pc |-> pc, exec |-> outcome]]
  /\ busy' = t
  /\ UNCHANGED <<proc, taskRow, execRow, taskLog, execLog, unreadable,
                 notified, reply, crashes, aborts, throws>>

\* A wrong variant: the COMPLETED execution is not saved before the task.
StrategyReturnsTaskOnly(t) == StrategySettles(t, "COMPLETED", "completeTask")

StrategyReturns(t) == StrategySettles(t, "COMPLETED", "completeExec")
StrategyCancelled(t) == StrategySettles(t, "CANCELLED", "cancelExec")
StrategyThrows(t) == StrategySettles(t, "FAILED", "failExec")

\* The strategy throws an Error with an empty message: TaskError refuses it, so
\* the catch block itself throws and nothing more is saved.
StrategyThrowsBlank(t) ==
  /\ proc = "up" /\ busy = None /\ call[t].pc = "strategy"
  /\ Goto(t, "rejected")
  /\ UNCHANGED <<proc, taskRow, execRow, taskLog, execLog, unreadable,
                 notified, reply, crashes, aborts, throws>>

CompleteExecution(t) == SaveExecution(t, "completeExec", "COMPLETED", "completeTask")
CompleteTask(t) == SaveTask(t, "completeTask", "COMPLETED", "returned")
CancelExecution(t) == SaveExecution(t, "cancelExec", "CANCELLED", "cancelTask")
CancelTask(t) == SaveTask(t, "cancelTask", "CANCELLED", "returned")
FailExecution(t) == SaveExecution(t, "failExec", "FAILED", "failTask")
FailTask(t) == SaveTask(t, "failTask", "FAILED", "returned")

\* A wrong variant of AfterThrow: the catch block forces the failure, whatever
\* state the execution has reached.
AfterThrowForced(pc, exec) ==
  IF pc \in {"completeExec", "completeTask"} THEN "failExec" ELSE "rejected"

\* A throw while the result is being saved lands in the catch block, whose
\* execution.fail() is refused once the local execution is COMPLETED; every
\* other save is outside the try, or inside the catch.
AfterThrow(pc, exec) ==
  IF pc \in {"completeExec", "completeTask"} /\ <<exec, "FAILED">> \in ExecTransition
  THEN "failExec" ELSE "rejected"

\* A wrong variant of SaveThrows: the event is published before the transaction.
SaveThrowsPublished(t) ==
  /\ throws < MaxThrows
  /\ proc = "up" /\ busy = t /\ call[t].pc \in Opening \union Closing
  /\ Goto(t, AfterThrow(call[t].pc, call[t].exec))
  /\ notified' = notified \union {<<"execution", t, call[t].exec>>}
  /\ throws' = throws + 1
  /\ UNCHANGED <<proc, taskRow, execRow, taskLog, execLog, unreadable,
                 reply, crashes, aborts>>

\* A save throws: its transaction is rolled back and nothing is published.
SaveThrows(t) ==
  /\ throws < MaxThrows
  /\ proc = "up" /\ busy = t /\ call[t].pc \in Opening \union Closing
  /\ Goto(t, AfterThrow(call[t].pc, call[t].exec))
  /\ throws' = throws + 1
  /\ UNCHANGED <<proc, taskRow, execRow, taskLog, execLog, unreadable,
                 notified, reply, crashes, aborts>>

--------------------------------------------------------------------------------
(* Crash and restart.                                                       *)

\* The process dies between two transactions; only the database survives.
Crash ==
  /\ proc = "up" /\ crashes < MaxCrashes
  /\ proc' = "down" /\ busy' = None /\ crashes' = crashes + 1
  /\ call' = [t \in Tasks |-> [pc |-> "idle", exec |-> "CREATED"]]
  /\ UNCHANGED <<durable, notified, reply, aborts, throws>>

\* Wrong variants of RecoveredTask.
RecoveredTaskFailsAll(s) ==
  IF s \in {"CREATED", "QUEUED", "WAITING", "RUNNING"} THEN "FAILED" ELSE s
RecoveredTaskMissesQueued(s) == CASE s = "RUNNING" -> "FAILED"
                                  [] s = "WAITING" -> "CANCELLED"
                                  [] OTHER -> s

RecoveredExec(s) == CASE s = "CREATED" -> "CANCELLED"
                      [] s = "RUNNING" -> "FAILED"
                      [] OTHER -> s
RecoveredTask(s) == CASE s = "RUNNING" -> "FAILED"
                      [] s \in {"CREATED", "QUEUED", "WAITING"} -> "CANCELLED"
                      [] OTHER -> s

StaleExecs == {t \in Tasks : execRow[t] \in {"CREATED", "RUNNING"}}
StaleTasks == {t \in Tasks : taskRow[t] \in {"CREATED", "QUEUED", "RUNNING", "WAITING"}}

\* A wrong variant: only failures are logged during recovery.
RecoveryLogFailuresOnly(log, stale, t, status) ==
  IF t \in stale /\ status = "FAILED" THEN Append(log, status) ELSE log

RecoveryLog(log, stale, t, status) ==
  IF t \in stale THEN Append(log, status) ELSE log

RecoveryEvents(execs, tasks) ==
  {<<"execution", t, RecoveredExec(execRow[t])>> : t \in execs}
    \union {<<"task", t, RecoveredTask(taskRow[t])>> : t \in tasks}

\* reconcile() commits: list() rehydrates every row first, so it needs all of
\* them readable; each open execution and task is closed and logged.
Restart ==
  /\ proc = "down" /\ unreadable = {}
  /\ execRow' = [t \in Tasks |-> RecoveredExec(execRow[t])]
  /\ taskRow' = [t \in Tasks |-> RecoveredTask(taskRow[t])]
  /\ execLog' = [t \in Tasks |-> RecoveryLog(execLog[t], StaleExecs, t, RecoveredExec(execRow[t]))]
  /\ taskLog' = [t \in Tasks |-> RecoveryLog(taskLog[t], StaleTasks, t, RecoveredTask(taskRow[t]))]
  /\ \E late \in SUBSET StaleExecs :
        (late # {} => ClockMayStepBack) /\ unreadable' = late
  /\ notified' = notified \union RecoveryEvents(StaleExecs, StaleTasks)
  /\ proc' = "up"
  /\ UNCHANGED <<busy, call, reply, crashes, aborts, throws>>

\* reconcile() throws, or the process dies, before COMMIT: executions are
\* reconciled before tasks, each is published as soon as it is saved, and the
\* whole transaction is rolled back.  The process does not come up.
RestartAborts ==
  /\ proc = "down" /\ unreadable = {} /\ aborts < MaxAborts
  /\ \E execs \in SUBSET StaleExecs, tasks \in SUBSET StaleTasks :
       /\ tasks # {} => execs = StaleExecs
       /\ notified' = notified \union RecoveryEvents(execs, tasks)
  /\ aborts' = aborts + 1
  /\ UNCHANGED <<proc, busy, call, durable, reply, crashes, throws>>

--------------------------------------------------------------------------------
ExecuteStep(t) ==
  \/ CreateExecution(t) \/ QueueTask(t) \/ StartExecution(t) \/ StartTask(t)
  \/ CompleteExecution(t) \/ CompleteTask(t)
  \/ CancelExecution(t) \/ CancelTask(t)
  \/ FailExecution(t) \/ FailTask(t)
StrategyEnds(t) ==
  StrategyReturns(t) \/ StrategyCancelled(t) \/ StrategyThrows(t) \/ StrategyThrowsBlank(t)

Next ==
  \/ \E t \in Tasks : Submit(t) \/ ExecuteStep(t) \/ StrategyEnds(t) \/ SaveThrows(t)
  \/ Crash \/ Restart \/ RestartAborts

Spec == Init /\ [][Next]_vars

\* Node.js runs a pending continuation to its next await; a strategy settles
\* because model and tool calls are bounded by timeouts; the operator (or the
\* supervisor) starts a process that is down.  A settling strategy competes for
\* the loop with other calls, hence strong fairness.  Nothing obliges a client
\* to submit, a save to throw or a process to crash.
FairSpec ==
  /\ Spec
  /\ \A t \in Tasks : WF_vars(ExecuteStep(t)) /\ SF_vars(StrategyEnds(t))
  /\ WF_vars(Restart)

--------------------------------------------------------------------------------
(* Properties.                                                              *)

\* Every variable keeps its shape.
TypeOK ==
  /\ proc \in {"up", "down"}
  /\ busy \in Tasks \union {None}
  /\ call \in [Tasks -> [pc : PC, exec : ExecStatus]]
  /\ taskRow \in [Tasks -> TaskStatus \union {"ABSENT"}]
  /\ execRow \in [Tasks -> ExecStatus \union {"ABSENT"}]
  /\ taskLog \in [Tasks -> Seq(TaskStatus)]
  /\ execLog \in [Tasks -> Seq(ExecStatus)]
  /\ unreadable \subseteq Tasks
  /\ notified \subseteq ({"execution", "task"} \X Tasks \X TaskStatus)
  /\ reply \in [Tasks -> Terminal \union {"NONE"}]
  /\ crashes \in Nat /\ aborts \in Nat /\ throws \in Nat

\* The last durable event of an aggregate names the status of its row, and an
\* aggregate without a row has no event.
LogMatches(row, log) == IF row = "ABSENT" THEN log = << >>
                                          ELSE log # << >> /\ log[Len(log)] = row

\* A log is a path of a transition table.
LegalPath(log, first, transition) ==
  /\ log # << >> => log[1] = first
  /\ \A i \in 1..(Len(log) - 1) : <<log[i], log[i + 1]>> \in transition

\* The audit log is never behind or ahead of the tables, whoever wrote them (execute
\* or the recovery); and read back after any number of crashes and recoveries, it is
\* a path of the transition table from the first status recorded.
AuditLogIsLegal ==
  \A t \in Tasks :
    /\ LogMatches(taskRow[t], taskLog[t]) /\ LegalPath(taskLog[t], "QUEUED", TaskTransition)
    /\ LogMatches(execRow[t], execLog[t]) /\ LegalPath(execLog[t], "CREATED", ExecTransition)

\* The pairs of final statuses an execution and its task can end in, over every
\* crash window and both ways of recovering them.  In particular a task is
\* COMPLETED only with a COMPLETED execution, and the converse fails only when
\* the process died, or the save threw, between the two final transactions.
FinalPairs ==
  {<<"COMPLETED", "COMPLETED">>, <<"FAILED", "FAILED">>, <<"CANCELLED", "CANCELLED">>,
   <<"FAILED", "CANCELLED">>,     \* closed between startExec and startTask
   <<"COMPLETED", "FAILED">>,     \* closed between completeExec and completeTask
   <<"CANCELLED", "FAILED">>}     \* closed between cancelExec and cancelTask
FinalStatusesAgree ==
  \A t \in Tasks :
    execRow[t] \in Terminal /\ taskRow[t] \in Terminal
      => <<execRow[t], taskRow[t]>> \in FinalPairs

\* Where a call is determines the pair of rows it has stored so far, a call that
\* is not in progress has left a settled pair unless the process is down or the
\* call gave up, and a call that may still write has reported nothing.  This is
\* the inductive core of the other invariants: it is what makes blind upserts
\* and a recovery that treats the two tables separately safe.
OpenPairs ==
  {<<"CREATED", "ABSENT">>, <<"CREATED", "QUEUED">>, <<"RUNNING", "QUEUED">>,
   <<"RUNNING", "RUNNING">>, <<"COMPLETED", "RUNNING">>, <<"CANCELLED", "RUNNING">>,
   <<"FAILED", "RUNNING">>}
SettledPairs == {<<"ABSENT", "ABSENT">>, <<"CANCELLED", "ABSENT">>} \union FinalPairs
PairsAt(pc) ==
  CASE pc = "createExec" -> {<<"ABSENT", "ABSENT">>}
    [] pc = "queueTask" -> {<<"CREATED", "ABSENT">>}
    [] pc = "startExec" -> {<<"CREATED", "QUEUED">>}
    [] pc = "startTask" -> {<<"RUNNING", "QUEUED">>}
    [] pc \in {"strategy", "completeExec", "cancelExec", "failExec"} -> {<<"RUNNING", "RUNNING">>}
    [] pc = "completeTask" -> {<<"COMPLETED", "RUNNING">>}
    [] pc = "cancelTask" -> {<<"CANCELLED", "RUNNING">>}
    [] pc = "failTask" -> {<<"FAILED", "RUNNING">>}
    [] pc = "returned" -> {<<s, s>> : s \in Terminal}
    [] pc = "rejected" -> OpenPairs \union {<<"ABSENT", "ABSENT">>}
    [] pc = "idle" -> IF proc = "up" THEN SettledPairs ELSE OpenPairs \union SettledPairs
RowsFollowCalls ==
  \A t \in Tasks :
    /\ <<execRow[t], taskRow[t]>> \in PairsAt(call[t].pc)
    /\ call[t].pc \in {"completeExec", "completeTask"} => call[t].exec = "COMPLETED"
    /\ proc = "down" => call[t].pc = "idle"
    /\ reply[t] # "NONE" => /\ call[t].pc \in {"idle", "returned"}
                            /\ reply[t] \in Terminal
                            /\ taskRow[t] = reply[t] /\ execRow[t] = reply[t]

\* A process that is up has no open row left over from an earlier process: an
\* open row belongs to a call in progress, or to a call of this process whose
\* save threw (it stays open until the next restart).
NoInheritedOpenRows ==
  proc = "up" =>
    \A t \in Tasks : t \in StaleExecs \union StaleTasks => call[t].pc # "idle"

\* The outcome the caller was given stays the recorded outcome of the task and
\* of its execution, across crashes and recoveries.
AcknowledgedOutcomeIsDurable ==
  \A t \in Tasks : reply[t] # "NONE" => taskRow[t] = reply[t] /\ execRow[t] = reply[t]

\* In-memory subscribers hear of a lifecycle event only once its transaction has
\* committed.  The exception is a recovery that does not commit: it publishes inside
\* its transaction, so what it announced and rolled back was never stored.
NotifiedUnlessRolledBack ==
  aborts = 0 =>
    \A e \in notified :
      LET log == IF e[1] = "task" THEN taskLog[e[2]] ELSE execLog[e[2]]
      IN  \E i \in 1..Len(log) : log[i] = e[3]

\* A terminal row is never written again, although save() is a blind upsert
\* that neither reads the stored status nor carries a version.
TerminalRowsAreImmutable ==
  [][\A t \in Tasks : /\ taskRow[t] \in Terminal => taskRow'[t] = taskRow[t]
                      /\ execRow[t] \in Terminal => execRow'[t] = execRow[t]]_vars

\* A process that is down comes back up.
DownProcessRestarts == proc = "down" ~> proc = "up"

\* Whatever was recorded open is eventually closed, by its call, by the
\* recovery after a crash, or left to the next restart by a throwing save; a row
\* the clock has made unreadable (only where ClockMayStepBack) excuses it.
Abandoned(t) == call[t].pc = "rejected"
EveryRowCloses ==
  \A t \in Tasks :
    t \in StaleExecs \union StaleTasks
      ~> \/ t \notin StaleExecs \union StaleTasks
         \/ Abandoned(t) \/ unreadable # {}

\* The durable record of tasks implements the abstract task store.
Store == INSTANCE TaskStore WITH status <- taskRow, ack <- reply
ImplementsTaskStore == Store!Spec
================================================================================
