----------------------------- MODULE MCTeamBudget -----------------------------
(* Small instances of TeamBudget for TLC.  Calls are interchangeable.          *)
EXTENDS TeamBudget, TLC

Ask(d, n) == [Zero EXCEPT ![d] = n]
\* One unit of a dimension, and a request over several of them.
MCRequests == {Ask("executions", 1), Ask("toolCalls", 1), [executions |-> 1, toolCalls |-> 0, tokens |-> 2]}
CallSymmetry == Permutations(Calls)
================================================================================
