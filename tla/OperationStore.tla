---------------------------- MODULE OperationStore ----------------------------
(***************************************************************************)
(* What the platform promises a client about an autonomous operation: it   *)
(* is accepted once and ends once; the steps it is charged for are written *)
(* with its end and never exceed its budget; a cancellation taken in time  *)
(* rules out that it completes; and a restart closes, together, whatever   *)
(* is open.  OperationRuns.tla implements it: the loop, its awaits, the    *)
(* map of tokens and the crashes are all invisible here.                   *)
(***************************************************************************)
EXTENDS Naturals

CONSTANTS Ops, MaxSteps

VARIABLES status,   \* status[o]: the recorded status, "ABSENT" before o is accepted
          used,     \* used[o]: the steps recorded as consumed
          promised  \* the operations whose cancellation was taken in time

Ended == {"COMPLETED", "FAILED", "CANCELLED", "BUDGET_EXHAUSTED"}

Init == /\ status = [o \in Ops |-> "ABSENT"]
        /\ used = [o \in Ops |-> 0]
        /\ promised = {}

Accept(o) == /\ status[o] = "ABSENT"
             /\ status' = [status EXCEPT ![o] = "SUBMITTED"]
             /\ UNCHANGED <<used, promised>>

\* A cancellation is acknowledged while the operation can still be kept from completing.
Promise(o) == /\ status[o] = "SUBMITTED"
              /\ promised' = promised \union {o}
              /\ UNCHANGED <<status, used>>

\* The operation ends, with what it has consumed.
End(o) == /\ status[o] = "SUBMITTED"
          /\ \E s \in Ended, n \in 0..MaxSteps :
               /\ s = "COMPLETED" => o \notin promised
               /\ status' = [status EXCEPT ![o] = s]
               /\ used' = [used EXCEPT ![o] = n]
          /\ UNCHANGED promised

\* A restart closes all open operations together and charges nothing.
Restart == /\ status' = [o \in Ops |-> IF status[o] = "SUBMITTED" THEN "CANCELLED" ELSE status[o]]
           /\ UNCHANGED <<used, promised>>

Next == Restart \/ \E o \in Ops : Accept(o) \/ Promise(o) \/ End(o)

Spec == Init /\ [][Next]_<<status, used, promised>>
================================================================================
