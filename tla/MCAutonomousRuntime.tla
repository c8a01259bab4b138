-------------------------- MODULE MCAutonomousRuntime --------------------------
(* Small instances of AutonomousRuntime for TLC.  Calls and instances are       *)
(* interchangeable.                                                            *)
EXTENDS AutonomousRuntime, TLC

Interchange == Permutations(Calls) \union Permutations(Runtimes)
================================================================================
