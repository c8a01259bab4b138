------------------------------- MODULE TaskStore -------------------------------
(***************************************************************************)
(* What the platform promises a client about the durable record of a task: *)
(* a status that only moves along the transition table of                  *)
(* src/src/domain/task/task.ts, an outcome that is reported to the caller  *)
(* only in the step that records it, and a restart that closes every open  *)
(* task at once.  CoreRuntime.tla implements it: executions, transactions, *)
(* the event loop, crashes and refused startups are all invisible here.    *)
(***************************************************************************)
EXTENDS Lifecycle

CONSTANT Tasks

VARIABLES status,  \* status[t]: the recorded status of task t, "ABSENT" before it is known
          ack      \* ack[t]: the outcome reported to the caller, "NONE" before

\* What a restart makes of a recorded status.
Closed(s) == CASE s = "RUNNING" -> "FAILED"
               [] s \in {"CREATED", "QUEUED", "WAITING"} -> "CANCELLED"
               [] OTHER -> s

Init == /\ status = [t \in Tasks |-> "ABSENT"]
        /\ ack = [t \in Tasks |-> "NONE"]

\* A task enters the record when it is queued for execution.
Accept(t) == /\ status[t] = "ABSENT"
             /\ status' = [status EXCEPT ![t] = "QUEUED"]
             /\ UNCHANGED ack

\* A recorded task takes one allowed transition; its outcome is reported in
\* the very step that records it, and open statuses are never reported.
Advance(t, s) ==
  /\ <<status[t], s>> \in TaskTransition
  /\ status' = [status EXCEPT ![t] = s]
  /\ ack' = IF s \in Terminal THEN [ack EXCEPT ![t] = s] ELSE ack

\* A restart closes all open tasks together and reports nothing.
Restart == /\ status' = [t \in Tasks |-> Closed(status[t])]
           /\ UNCHANGED ack

Next == \/ \E t \in Tasks : Accept(t)
        \/ \E t \in Tasks, s \in TaskStatus : Advance(t, s)
        \/ Restart

Spec == Init /\ [][Next]_<<status, ack>>
================================================================================
