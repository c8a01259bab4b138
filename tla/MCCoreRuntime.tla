----------------------------- MODULE MCCoreRuntime -----------------------------
(* Small instances of CoreRuntime for TLC.  The tasks are model values and     *)
(* interchangeable: no action or safety property tells two of them apart.      *)
EXTENDS CoreRuntime, TLC

TaskSymmetry == Permutations(Tasks)
================================================================================
