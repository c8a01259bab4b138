----------------------------- MODULE MCWorkflowRuns -----------------------------
(* Values of the constants of WorkflowRuns for TLC. *)
EXTENDS WorkflowRuns, TLC

MCDeps == [s \in Steps |-> IF s = 1 THEN {} ELSE {1}]
MCMaxRetries == [s \in Steps |-> 1]
MCSymmetry == Permutations(Calls)
================================================================================
