------------------------- MODULE MCTriggerSchedule -------------------------
(* TriggerSchedule on a small instance, checked as it is: the run has a       *)
(* liveness property, so the triggers are not taken as symmetric.             *)
EXTENDS TriggerSchedule
================================================================================
