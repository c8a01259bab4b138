------------------------------ MODULE SagaContract ------------------------------
(***************************************************************************)
(* What one call of executePlan promises about the world: the effects of a *)
(* plan's steps are made along its dependencies and undone against them,   *)
(* and the answer says how far that got.  PlanExecution.tla implements it: *)
(* the order of the loop, the compensation stack, skipped and cancelled    *)
(* steps and what is awaited are all invisible here.                       *)
(***************************************************************************)
CONSTANT Steps

VARIABLES
  deps,      \* deps[i]: the steps i builds on
  undoable,  \* steps that can be compensated
  silent,    \* steps that only read
  guarded,   \* whether compensation was asked for
  effect,    \* effect[i]: what i has done to the outside world
  built,     \* steps that count as done
  failed,    \* steps that were tried or refused, and are not done
  phase,     \* "forward", "backward", "stopped" at a compensation that failed, "over"
  answer     \* what the caller is told of the effects, "NONE" before

plan == <<deps, undoable, silent, guarded>>
vars == <<deps, undoable, silent, guarded, effect, built, failed, phase, answer>>

Init ==
  /\ deps \in [Steps -> SUBSET Steps]
  /\ undoable \in SUBSET Steps /\ silent \in SUBSET (Steps \ undoable)
  /\ guarded \in BOOLEAN
  /\ effect = [i \in Steps |-> "none"]
  /\ built = {} /\ failed = {}
  /\ phase = "forward" /\ answer = "NONE"

\* A step is tried once, after everything it builds on.
Tries(i) ==
  /\ phase = "forward" /\ i \notin built \union failed /\ effect[i] = "none"
  /\ deps[i] \subseteq built

Done(i) == effect' = IF i \in silent THEN effect ELSE [effect EXCEPT ![i] = "applied"]

\* With compensation, no step counts as done once another has failed.
Succeed(i) ==
  /\ Tries(i) /\ (guarded => failed = {})
  /\ Done(i) /\ built' = built \union {i}
  /\ UNCHANGED <<plan, failed, phase, answer>>

\* The tool was called and may have done its work; after an earlier failure the
\* call is abandoned if compensation was asked for.
Fail(i) ==
  /\ Tries(i)
  /\ Done(i) \/ UNCHANGED effect
  /\ failed' = failed \union {i}
  /\ IF guarded /\ failed # {} THEN phase' = "over" /\ answer' = "REJECTED"
                               ELSE UNCHANGED <<phase, answer>>
  /\ UNCHANGED <<plan, built>>

\* The tool was not called.
Refuse(i) ==
  /\ Tries(i)
  /\ failed' = failed \union {i}
  /\ UNCHANGED <<plan, effect, built, phase, answer>>

TurnBack ==
  /\ phase = "forward" /\ guarded /\ failed # {}
  /\ phase' = "backward"
  /\ UNCHANGED <<plan, effect, built, failed, answer>>

\* The next step to undo: nothing undoable that was built on it is left.
Topmost(i) ==
  /\ phase = "backward" /\ i \in built \intersect undoable /\ effect[i] = "applied"
  /\ \A j \in built \intersect undoable : i \in deps[j] => effect[j] = "reverted"

Undo(i) ==
  /\ Topmost(i)
  /\ effect' = [effect EXCEPT ![i] = "reverted"]
  /\ UNCHANGED <<plan, built, failed, phase, answer>>

\* A compensation that fails, or is missing, is the last one.
Stop(i) ==
  /\ Topmost(i)
  /\ effect' = [effect EXCEPT ![i] = "unknown"] \/ UNCHANGED effect
  /\ phase' = "stopped"
  /\ UNCHANGED <<plan, built, failed, answer>>

Undone == {i \in Steps : effect[i] = "reverted"}

\* What the caller may be told, and when.
Answer(a) ==
  CASE a = "REJECTED"  -> phase = "forward" /\ guarded /\ failed # {}
    [] a = "REPORTED"  -> phase = "forward" /\ ~guarded
    [] a = "COMPLETED" -> phase = "forward" /\ guarded /\ failed = {}
    [] a = "COMPENSATED" ->
         /\ phase = "backward" /\ built \intersect undoable \subseteq Undone
         /\ Undone # {} \/ built \subseteq silent
    [] a = "IN_DOUBT" ->
         \/ phase = "stopped"
         \/ phase = "backward" /\ built \intersect undoable = {} /\ ~(built \subseteq silent)
    [] a = "COMPENSATION_FAILED" -> phase = "stopped"

Answers == {"REJECTED", "REPORTED", "COMPLETED", "COMPENSATED", "IN_DOUBT", "COMPENSATION_FAILED"}

End(a) ==
  /\ Answer(a)
  /\ phase' = "over" /\ answer' = a
  /\ UNCHANGED <<plan, effect, built, failed>>

Next ==
  \/ \E i \in Steps : Succeed(i) \/ Fail(i) \/ Refuse(i) \/ Undo(i) \/ Stop(i)
  \/ TurnBack
  \/ \E a \in Answers : End(a)

Spec == Init /\ [][Next]_vars
================================================================================
