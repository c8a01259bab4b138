---------------------------- MODULE MCOperationRuns ----------------------------
(* OperationRuns on a small instance; two operations are interchangeable, but *)
(* a liveness property is checked, so no symmetry is declared.                *)
EXTENDS OperationRuns
================================================================================
