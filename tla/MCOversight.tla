---------------------------- MODULE MCOversight ----------------------------
(* Values of the constants of Oversight for TLC. *)
EXTENDS Oversight, TLC

MCDeps == [s \in Steps |-> IF s = 1 THEN {} ELSE {1}]
MCMaxRetries == [s \in Steps |-> 1]
MCSymmetry == Permutations(Requests) \union Permutations(Reviewers)
================================================================================
