------------------------ MODULE AutonomousRuntimeProofs ------------------------
(***************************************************************************)
(* Proofs about AutonomousRuntime, for any number of instances, triggers   *)
(* and calls and any failure threshold.                                    *)
(*                                                                         *)
(* Shape says what a call holds at each of its awaits; the other           *)
(* invariants rest on it and are preserved one by one: a holder that lost  *)
(* nothing owns its lease (HolderOwns), an instance has at most one tick   *)
(* (TickInv), every call in a quiet halt is on its way out (QuietInv), and *)
(* no copy of the state row outruns the breaker (ThresholdInv).            *)
(***************************************************************************)
EXTENDS AutonomousRuntime, TLAPS

Shaped(k) ==
  /\ k \in CallState
  /\ k.pc = "idle" => k = NoCall
  /\ k.pc # "idle" => k.op # "none" /\ k.rt \in alive
  /\ k.pc = "row" => k.op \in Lifecycle \union {"tick", "event"}
  /\ k.pc = "save" => k.op \in Lifecycle \union {"tick"}
  /\ k.pc = "clear" => k.op = "stop"
  /\ k.pc \in {"next", "guard", "claim"} \union Holding => k.op \in Firing
  /\ k.pc \in {"guard", "claim"} \union Holding => k.trig \in Triggers
  /\ k.pc \in Saving => k.st \in States
  /\ k.pc = "enterSave" => k.st.status = "RUNNING"
CallsShaped == \A c \in Calls : Shaped(call[c])
Shape == TypeOK /\ CallsShaped

HolderOwns == \A c \in Holders : c \notin lost => lease[call[c].trig] = call[c].rt

TickUnique ==
  \A c, d \in Calls : call[c].op = "tick" /\ call[d].op = "tick" /\ call[c].rt = call[d].rt => c = d
TickInv == TickFlagTracksTick /\ TickUnique

\* A call that can dispatch nothing: it read a halted row, saves a stop, or is leaving.
Leaving(k) ==
  /\ k.op \notin {"start", "resume"}
  /\ k.pc \in {"idle", "row", "save", "clear", "next", "guard", "claim", "enter", "unwind"}
  /\ k.pc \in {"row", "guard"} => k.st.status \in Halted
  /\ k.pc = "save" => k.op = "stop" /\ k.st.status = "STOPPED"
  /\ k.pc \in {"claim", "enter"} => k.st.status = "STOPPED"
QuietInv == quiet => row.status \in Halted /\ \A c \in Calls : Leaving(call[c])

Below(s) == s.status = "RUNNING" => s.fails < MaxFailures
ThresholdInv == ~pardoned => Below(row) /\ \A c \in Calls : Below(call[c].st)

\* The actions that end a call, those that only move it, those that also store the row.
Ends(c) ==
  \/ EarlyReturn(c) \/ SaveConflict(c) \/ NoneLeft(c) \/ FireRefused(c)
  \/ ClaimRefused(c) \/ EnterStopped(c) \/ EnterConflict(c)
Moves(c) ==
  \/ Heartbeat(c) \/ EventMatches(c) \/ Fire(c) \/ LookUpLease(c) \/ EnterUntracked(c)
  \/ Enter(c) \/ CycleResolves(c) \/ CycleThrows(c) \/ SuccessConflict(c) \/ FailureConflict(c)
Stores(c) == SaveHeartbeat(c) \/ EnterSaved(c) \/ SuccessSaved(c) \/ FailureSaved(c)

--------------------------------------------------------------------------------
(* Copies of the state row.                                                    *)

\* Every transition of a state is a state again.
LEMMA StatesShape ==
  ASSUME NEW s \in States
  PROVE  /\ CycleStarted(s) \in States /\ CycleStarted(s).status = s.status
         /\ CycleSuccess(s) \in States /\ CycleFailure(s) \in States
         /\ s # NoRow
  BY BoundsAssumption DEF States, Copy, CycleStarted, CycleSuccess, CycleFailure, Halted, NoRow

\* None of them outruns the breaker.
LEMMA StatesBelow ==
  ASSUME NEW s \in States, Below(s)
  PROVE  Below(CycleStarted(s)) /\ Below(CycleSuccess(s)) /\ Below(CycleFailure(s))
  BY BoundsAssumption DEF States, Copy, CycleStarted, CycleSuccess, CycleFailure, Halted, Below

\* What a lifecycle call saves is a state, and a pardon is needed to outrun the breaker.
LEMMA LifecycleShape ==
  ASSUME NEW op \in Lifecycle, NEW s \in States \union {NoRow}, ~ReturnsEarly(op, s),
         ~(op = "stop" /\ NothingToStop(s))
  PROVE  /\ LifecycleState(op, s) \in States
         /\ op = "stop" => LifecycleState(op, s).status = "STOPPED"
         /\ op = "pause" => s.status = "RUNNING"
         /\ \/ op \in {"start", "resume"} /\ s.fails >= MaxFailures
            \/ Below(LifecycleState(op, s))
<1>1. CASE op \in {"start", "resume"}
  BY <1>1, BoundsAssumption DEF LifecycleState, Started, Copy, States, Halted, NoRow, Below
<1>2. CASE op = "pause"
  BY <1>2 DEF LifecycleState, Copy, States, Halted, NoRow, ReturnsEarly, Below
<1>3. CASE op = "stop"
  BY <1>3 DEF LifecycleState, Copy, States, Halted, NoRow, NothingToStop, Below
<1> QED BY <1>1, <1>2, <1>3 DEF Lifecycle

--------------------------------------------------------------------------------
(* What the actions of a kind have in common.                                  *)

\* Goto() changes the program counter and the local state.
LEMMA GotoShape ==
  ASSUME Shape, NEW c \in Calls, NEW pc \in PC, NEW st \in States \union {NoRow}, Goto(c, pc, st)
  PROVE  /\ call' = [call EXCEPT ![c] = call'[c]] /\ call'[c] \in CallState
         /\ call'[c].pc = pc /\ call'[c].st = st
         /\ call'[c].op = call[c].op /\ call'[c].rt = call[c].rt /\ call'[c].trig = call[c].trig
<1>1. row.version \in Nat BY DEF Shape, TypeOK, States, NoRow
<1>2. call[c] \in CallState BY DEF Shape, TypeOK
<1> QED BY <1>1, <1>2 DEF Goto, Shape, TypeOK, CallState

\* Call c goes on, and does nothing that a halt or the breaker forbids.
Advances(c) ==
  /\ call' = [call EXCEPT ![c] = call'[c]]
  /\ Shaped(call'[c]) /\ call'[c].pc # "idle"
  /\ call'[c].op = call[c].op /\ call'[c].rt = call[c].rt
  /\ call'[c].pc \in Holding => call[c].pc \in Holding /\ call'[c].trig = call[c].trig
  /\ row.status \in Halted /\ Leaving(call[c]) => Leaving(call'[c])
  /\ Below(row) /\ Below(call[c].st) => Below(call'[c].st)

\* A step that only moves a call advances it.
LEMMA MovesAdvance ==
  ASSUME Shape, NEW c \in Calls, Moves(c)
  PROVE  Advances(c) /\ UNCHANGED <<row, lease, alive, memory, ghosts>>
<1> USE DEF Shape, TypeOK, CallsShaped, memory, ghosts
<1>0. Shaped(call[c]) /\ call[c] \in CallState /\ call[c].st \in States \union {NoRow}
  BY DEF Shaped, CallState
<1>1. CASE Heartbeat(c)
  BY <1>1, <1>0, StatesShape, StatesBelow, GotoShape DEF Heartbeat, Advances, Leaving, At, Shaped,
     PC, Holding, Saving, Lifecycle, Firing, Below, NoRow, Halted
<1>2. CASE EventMatches(c)
  BY <1>2, <1>0, StatesShape, StatesBelow DEF EventMatches, Advances, Leaving, Listed, CallState,
     At, Shaped, PC, Holding, Saving, Lifecycle, Firing, Below, NoRow, Halted
<1>3. CASE Fire(c)
  BY <1>3, <1>0, StatesShape, StatesBelow DEF Fire, Advances, Leaving, Listed, CallState, At,
     Shaped, PC, Holding, Saving, Lifecycle, Firing, Below, NoRow, Halted
<1>4. CASE LookUpLease(c)
  BY <1>4, <1>0, StatesShape, StatesBelow DEF LookUpLease, Advances, Leaving, Listed, CallState, At,
     Shaped, PC, Holding, Saving, Lifecycle, Firing, Below, NoRow, Halted
<1>5. CASE EnterUntracked(c)
  BY <1>5, <1>0, StatesShape, StatesBelow, GotoShape DEF EnterUntracked, Advances, Leaving, At,
     Shaped, PC, Holding, Saving, Lifecycle, Firing, Below, NoRow
<1>6. CASE Enter(c)
  BY <1>6, <1>0, StatesShape, StatesBelow, GotoShape DEF Enter, Advances, Leaving, At, Shaped, PC,
     Holding, Saving, Lifecycle, Firing, Below, NoRow, Halted
<1>7. CASE CycleResolves(c)
  BY <1>7, <1>0, StatesShape, StatesBelow, GotoShape DEF CycleResolves, Advances, Leaving, At,
     Shaped, PC, Holding, Saving, Lifecycle, Firing, Below, NoRow
<1>8. CASE CycleThrows(c)
  BY <1>8, <1>0, StatesShape, StatesBelow, GotoShape DEF CycleThrows, Advances, Leaving, At, Shaped,
     PC, Holding, Saving, Lifecycle, Firing, Below, NoRow
<1>9. CASE SuccessConflict(c)
  BY <1>9, <1>0, StatesShape, StatesBelow, GotoShape DEF SuccessConflict, Advances, Leaving, At,
     Shaped, PC, Holding, Saving, Lifecycle, Firing, Below, NoRow
<1>10. CASE FailureConflict(c)
  BY <1>10, <1>0, StatesShape, StatesBelow, GotoShape DEF FailureConflict, Advances, Leaving, At,
     Shaped, PC, Holding, Saving, Lifecycle, Firing, Below, NoRow
<1> QED BY <1>1, <1>2, <1>3, <1>4, <1>5, <1>6, <1>7, <1>8, <1>9, <1>10 DEF Moves

\* So does a step that also stores the row; no such call was on its way out.
LEMMA StoresAdvance ==
  ASSUME Shape, NEW c \in Calls, Stores(c)
  PROVE  /\ Advances(c) /\ row' = call[c].st /\ row' \in States
         /\ Leaving(call[c]) => FALSE
         /\ UNCHANGED <<lease, alive, memory, lost, pardoned, begun>>
         /\ UNCHANGED quiet \/ FailureSaved(c)
         /\ quiet' \in BOOLEAN
<1> USE DEF Shape, TypeOK, CallsShaped, memory, ghosts
<1>0. Shaped(call[c]) /\ call[c] \in CallState /\ call[c].st \in States \union {NoRow}
  BY DEF Shaped, CallState
<1>1. CASE SaveHeartbeat(c)
  BY <1>1, <1>0 DEF SaveHeartbeat, Advances, Leaving, Listed, CallState, At, Shaped, PC, Holding,
     Saving, Lifecycle, Firing, Below, NoRow
<1>2. CASE EnterSaved(c)
  BY <1>2, <1>0, GotoShape DEF EnterSaved, Advances, Leaving, At, Shaped, PC, Holding, Saving,
     Lifecycle, Firing, Below, NoRow
<1>3. CASE SuccessSaved(c)
  BY <1>3, <1>0, GotoShape DEF SuccessSaved, Advances, Leaving, At, Shaped, PC, Holding, Saving,
     Lifecycle, Firing, Below, NoRow
<1>4. CASE FailureSaved(c)
  BY <1>4, <1>0, GotoShape DEF FailureSaved, Advances, Leaving, At, Shaped, PC, Holding, Saving,
     Lifecycle, Firing, Below, NoRow
<1> QED BY <1>1, <1>2, <1>3, <1>4 DEF Stores

\* The steps in which a call returns or throws do nothing else.
LEMMA EndsEnd ==
  ASSUME Shape, NEW c \in Calls, Ends(c)
  PROVE  End(c) /\ UNCHANGED <<row, lease, alive, timer, stopping, quiet, pardoned, begun>>
  BY SMT DEF Ends, EarlyReturn, SaveConflict, NoneLeft, FireRefused, ClaimRefused, EnterStopped,
     EnterConflict

--------------------------------------------------------------------------------
(* Shape.                                                                      *)

\* An idle call.
LEMMA NoCallShape == NoCall \in CallState /\ NoCall.pc = "idle"
  BY DEF NoCall, CallState, PC

\* The initial states.
LEMMA ShapeInit == Init => Shape
<1> SUFFICES ASSUME Init PROVE Shape OBVIOUS
<1>1. row \in States \union {NoRow} BY BoundsAssumption DEF Init, States
<1>2. Shaped(NoCall) BY NoCallShape DEF Shaped, Holding, Saving
<1> QED BY <1>1, <1>2, NoCallShape DEF Init, Shape, TypeOK, CallsShaped

\* A call that ends leaves the others as they are.
LEMMA EndShape ==
  ASSUME Shape, NEW c \in Calls, call' = [call EXCEPT ![c] = NoCall],
         ticking' = IF call[c].op = "tick" THEN [ticking EXCEPT ![call[c].rt] = FALSE] ELSE ticking,
         UNCHANGED alive
  PROVE  /\ call' \in [Calls -> CallState] /\ CallsShaped'
         /\ ticking' \in [Runtimes -> BOOLEAN]
<1> USE DEF Shape, TypeOK, CallsShaped
<1>1. call' \in [Calls -> CallState] BY NoCallShape
<1>2. ASSUME NEW d \in Calls PROVE Shaped(call[d])'
  <2>1. CASE d = c
    <3>1. call'[d] = NoCall BY <2>1
    <3> QED BY <3>1, NoCallShape DEF Shaped, Holding, Saving
  <2>2. CASE d # c
    <3>1. call'[d] = call[d] BY <2>2
    <3> QED BY <3>1 DEF Shaped
  <2> QED BY <2>1, <2>2
<1>3. ticking' \in [Runtimes -> BOOLEAN] OBVIOUS
<1> QED BY <1>1, <1>2, <1>3

\* Every step keeps the shape of the calls.
LEMMA ShapeNext == Shape /\ [Next]_vars => Shape'
<1> SUFFICES ASSUME Shape, [Next]_vars PROVE Shape' OBVIOUS
<1> USE DEF Shape, TypeOK, CallsShaped, vars, memory, ghosts
<1>1. ASSUME NEW c \in Calls, NEW r \in Runtimes, NEW op \in Lifecycle, Request(c, op, r)
      PROVE  Shape'
  BY <1>1 DEF Request, Begin, At, Shaped, CallState, NoCall, PC, Holding, Saving, Lifecycle, Firing
<1>2. ASSUME NEW c \in Calls, ComputeState(c) PROVE Shape'
  <2>1. /\ call[c] \in CallState /\ call[c].op \in Lifecycle /\ call[c].pc = "row"
        /\ call[c].st \in States \union {NoRow} /\ Shaped(call[c])
    BY <1>2 DEF ComputeState, At, CallState
  <2>2. CASE call[c].op = "stop" /\ NothingToStop(call[c].st)
    <3>1. Goto(c, "clear", call[c].st) /\ UNCHANGED pardoned BY <1>2, <2>2 DEF ComputeState
    <3> QED BY <1>2, <2>1, <2>2, <3>1, GotoShape DEF ComputeState, Shaped, PC, Holding, Saving
  <2>3. CASE ~(call[c].op = "stop" /\ NothingToStop(call[c].st))
    <3>1. Goto(c, "save", LifecycleState(call[c].op, call[c].st)) BY <1>2, <2>3 DEF ComputeState
    <3>2. LifecycleState(call[c].op, call[c].st) \in States
      BY <1>2, <2>1, <2>3, LifecycleShape DEF ComputeState
    <3>3. pardoned' \in BOOLEAN BY <1>2, <2>3 DEF ComputeState
    <3> QED BY <1>2, <2>1, <3>1, <3>2, <3>3, GotoShape DEF ComputeState, Shaped, PC, Holding, Saving
  <2> QED BY <2>2, <2>3
<1>3. ASSUME NEW c \in Calls, SaveState(c) PROVE Shape'
  <2>1. call[c] \in CallState /\ Shaped(call[c]) /\ call[c].st \in States
    BY <1>3 DEF SaveState, At, Shaped, Saving
  <2>2. quiet' \in BOOLEAN /\ timer' \in [Runtimes -> BOOLEAN]
    BY <1>3, <2>1 DEF SaveState
  <2>3. CASE call[c].op = "stop"
    BY <1>3, <2>1, <2>2, <2>3, GotoShape DEF SaveState, At, Shaped, PC, Holding, Saving
  <2>4. CASE call[c].op # "stop"
    BY <1>3, <2>1, <2>2, <2>4, EndShape DEF SaveState, End
  <2> QED BY <2>3, <2>4
<1>4. ASSUME NEW c \in Calls, ClearLeases(c) PROVE Shape'
  BY <1>4 DEF ClearLeases, Holders, At, Shaped, CallState, NoCall, PC, Holding, Saving, Lifecycle,
     Firing
<1>5. ASSUME NEW c \in Calls, NEW r \in Runtimes, Tick(c, r) PROVE Shape'
  BY <1>5 DEF Tick, Begin, At, Shaped, CallState, NoCall, PC, Holding, Saving, Lifecycle, Firing
<1>6. ASSUME NEW c \in Calls, NEW r \in Runtimes, DomainEvent(c, r) PROVE Shape'
  BY <1>6 DEF DomainEvent, Begin, At, Shaped, CallState, NoCall, PC, Holding, Saving, Lifecycle,
     Firing
<1>7. ASSUME NEW c \in Calls, NEW r \in Runtimes, FireOnDemand(c, r) PROVE Shape'
  BY <1>7 DEF FireOnDemand, Begin, At, Shaped, CallState, NoCall, PC, Holding, Saving, Lifecycle,
     Firing
<1>8. ASSUME NEW c \in Calls, ClaimLease(c) PROVE Shape'
  BY <1>8 DEF ClaimLease, MayClaim, Goto, Holders, At, Shaped, CallState, NoCall, PC, Holding,
     Saving, Lifecycle, Firing
<1>9. ASSUME NEW c \in Calls, Release(c) PROVE Shape'
  <2>1. call[c] \in CallState /\ Shaped(call[c]) /\ call[c].trig \in Triggers
    BY <1>9 DEF Release, Shaped, Holding
  <2>2. lease' \in [Triggers -> Runtimes \union {None}] /\ lost' \subseteq Calls
    BY <1>9, <2>1 DEF Release, Holders
  <2>3. CASE At(c, "release")
    BY <1>9, <2>1, <2>2, <2>3 DEF Release, Listed, At, Shaped, CallState, PC, Holding, Saving, NoRow
  <2>4. CASE ~At(c, "release")
    BY <1>9, <2>1, <2>2, <2>4, EndShape DEF Release
  <2> QED BY <2>3, <2>4
<1>10. ASSUME NEW c \in Calls, Ends(c) PROVE Shape'
  BY <1>10, EndsEnd, EndShape DEF End
<1>11. ASSUME NEW c \in Calls, Moves(c) PROVE Shape'
  BY <1>11, MovesAdvance DEF Advances, Shaped
<1>12. ASSUME NEW c \in Calls, Stores(c) PROVE Shape'
  BY <1>12, StoresAdvance DEF Advances, Shaped
<1>13. ASSUME NEW t \in Triggers, LeaseExpires(t) PROVE Shape'
  BY <1>13 DEF LeaseExpires, Holders, Shaped, CallState, NoCall, PC, Holding, Saving, Lifecycle,
     Firing
<1>14. ASSUME NEW r \in Runtimes, Crash(r) PROVE Shape'
  BY <1>14 DEF Crash, Holders, Shaped, CallState, NoCall, PC, Holding, Saving, Lifecycle, Firing
<1>15. ASSUME UNCHANGED vars PROVE Shape'
  BY <1>15 DEF Shaped, CallState, NoCall, PC, Holding, Saving, Lifecycle, Firing, Holders
<1> QED BY <1>1, <1>2, <1>3, <1>4, <1>5, <1>6, <1>7, <1>8, <1>9, <1>10, <1>11, <1>12, <1>13, <1>14,
     <1>15 DEF Next, LifecycleStep, SchedulerStep, FireStep, Ends, Moves, Stores

--------------------------------------------------------------------------------
(* Leases.                                                                     *)

\* Whatever takes a lease from a call in progress records it in lost.
LEMMA HolderOwnsNext == Shape /\ HolderOwns /\ [Next]_vars => HolderOwns'
<1> SUFFICES ASSUME Shape, HolderOwns, [Next]_vars PROVE HolderOwns' OBVIOUS
<1> USE DEF Shape, TypeOK, CallsShaped, vars, memory, ghosts, HolderOwns
<1>1. ASSUME NEW c \in Calls, NEW r \in Runtimes, NEW op \in Lifecycle, Request(c, op, r)
      PROVE  HolderOwns'
  BY <1>1 DEF Request, Begin, At, Shaped, CallState, NoCall, Holding, Holders
<1>2. ASSUME NEW c \in Calls, ComputeState(c) PROVE HolderOwns'
  BY <1>2 DEF ComputeState, Goto, At, Shaped, CallState, NoCall, Holding, Holders
<1>3. ASSUME NEW c \in Calls, SaveState(c) PROVE HolderOwns'
  BY <1>3 DEF SaveState, HaltStored, Goto, End, At, Shaped, CallState, NoCall, Holding, Holders
<1>4. ASSUME NEW c \in Calls, ClearLeases(c) PROVE HolderOwns'
  BY <1>4 DEF ClearLeases, Holders, At, Shaped, CallState, NoCall, Holding
<1>5. ASSUME NEW c \in Calls, NEW r \in Runtimes, Tick(c, r) PROVE HolderOwns'
  BY <1>5 DEF Tick, Begin, At, Shaped, CallState, NoCall, Holding, Holders
<1>6. ASSUME NEW c \in Calls, NEW r \in Runtimes, DomainEvent(c, r) PROVE HolderOwns'
  BY <1>6 DEF DomainEvent, Begin, At, Shaped, CallState, NoCall, Holding, Holders
<1>7. ASSUME NEW c \in Calls, NEW r \in Runtimes, FireOnDemand(c, r) PROVE HolderOwns'
  BY <1>7 DEF FireOnDemand, Begin, At, Shaped, CallState, NoCall, Holding, Holders
<1>8. ASSUME NEW c \in Calls, ClaimLease(c) PROVE HolderOwns'
  BY <1>8 DEF ClaimLease, MayClaim, Goto, Holders, At, Shaped, CallState, NoCall, Holding
<1>9. ASSUME NEW c \in Calls, Release(c) PROVE HolderOwns'
  BY <1>9 DEF Release, Listed, Holders, At, Shaped, CallState, NoCall, Holding
<1>10. ASSUME NEW c \in Calls, Ends(c) PROVE HolderOwns'
  BY <1>10, EndsEnd DEF End, NoCall, Holding, Holders
<1>11. ASSUME NEW c \in Calls, Moves(c) PROVE HolderOwns'
  BY <1>11, MovesAdvance DEF Advances, Holders
<1>12. ASSUME NEW c \in Calls, Stores(c) PROVE HolderOwns'
  BY <1>12, StoresAdvance DEF Advances, Holders
<1>13. ASSUME NEW t \in Triggers, LeaseExpires(t) PROVE HolderOwns'
  BY <1>13 DEF LeaseExpires, Holders, Shaped, CallState, NoCall, Holding
<1>14. ASSUME NEW r \in Runtimes, Crash(r) PROVE HolderOwns'
  BY <1>14 DEF Crash, Holders, Shaped, CallState, NoCall, Holding
<1>15. ASSUME UNCHANGED vars PROVE HolderOwns'
  BY <1>15 DEF Shaped, CallState, NoCall, Holding, Holders
<1> QED BY <1>1, <1>2, <1>3, <1>4, <1>5, <1>6, <1>7, <1>8, <1>9, <1>10, <1>11, <1>12, <1>13, <1>14,
     <1>15 DEF Next, LifecycleStep, SchedulerStep, FireStep, Ends, Moves, Stores

--------------------------------------------------------------------------------
(* Ticks.                                                                      *)

\* Steps after which every call has the operation and the instance it had.
LEMMA KeepTick ==
  ASSUME TickInv, UNCHANGED ticking,
         \A d \in Calls : call'[d].op = call[d].op /\ call'[d].rt = call[d].rt
  PROVE  TickInv'
  BY DEF TickInv, TickFlagTracksTick, TickUnique

\* Steps that end a call, and reset the flag if it was a tick.
LEMMA EndTick ==
  ASSUME Shape, TickInv, NEW c \in Calls, call' = [call EXCEPT ![c] = NoCall],
         ticking' = IF call[c].op = "tick" THEN [ticking EXCEPT ![call[c].rt] = FALSE] ELSE ticking
  PROVE  TickInv'
<1>1. call'[c].op # "tick" BY DEF Shape, TypeOK, NoCall
<1>2. \A d \in Calls \ {c} : call'[d] = call[d] BY DEF Shape, TypeOK
<1>3. \A r \in Runtimes :
        ticking'[r] <=> ticking[r] /\ ~(call[c].op = "tick" /\ call[c].rt = r)
  BY DEF Shape, TypeOK
<1> QED BY <1>1, <1>2, <1>3 DEF TickInv, TickFlagTracksTick, TickUnique

\* A tick sets the flag when it begins and resets it however it ends.
LEMMA TickNext == Shape /\ TickInv /\ [Next]_vars => TickInv'
<1> SUFFICES ASSUME Shape, TickInv, [Next]_vars PROVE TickInv' OBVIOUS
<1> USE DEF Shape, TypeOK, CallsShaped, vars, memory, ghosts, TickInv, TickFlagTracksTick, TickUnique
<1>1. ASSUME NEW c \in Calls, NEW r \in Runtimes, NEW op \in Lifecycle, Request(c, op, r)
      PROVE  TickInv'
  BY <1>1 DEF Request, Begin, At, Shaped, CallState, NoCall, Lifecycle
<1>2. ASSUME NEW c \in Calls, ComputeState(c) PROVE TickInv'
  <2>1. call[c].st \in States \union {NoRow} BY DEF CallState
  <2>2. CASE call[c].op = "stop" /\ NothingToStop(call[c].st)
    <3>1. Goto(c, "clear", call[c].st) /\ UNCHANGED ticking BY <1>2, <2>2 DEF ComputeState
    <3> QED BY <2>1, <3>1, GotoShape, KeepTick DEF PC
  <2>3. CASE ~(call[c].op = "stop" /\ NothingToStop(call[c].st))
    <3>1. Goto(c, "save", LifecycleState(call[c].op, call[c].st)) /\ UNCHANGED ticking
      BY <1>2, <2>3 DEF ComputeState
    <3>2. LifecycleState(call[c].op, call[c].st) \in States
      BY <1>2, <2>1, <2>3, LifecycleShape DEF ComputeState
    <3> QED BY <3>1, <3>2, GotoShape, KeepTick DEF PC
  <2> QED BY <2>2, <2>3
<1>3. ASSUME NEW c \in Calls, SaveState(c) PROVE TickInv'
  <2>1. call[c].st \in States BY <1>3 DEF SaveState, At, Shaped, Saving
  <2>2. CASE call[c].op = "stop"
    BY <1>3, <2>1, <2>2, GotoShape, KeepTick DEF SaveState, PC
  <2>3. CASE call[c].op # "stop"
    BY <1>3, <2>3, EndTick DEF SaveState, End
  <2> QED BY <2>2, <2>3
<1>4. ASSUME NEW c \in Calls, ClearLeases(c) PROVE TickInv'
  BY <1>4 DEF ClearLeases, Holders, At, Shaped, CallState, NoCall, Lifecycle
<1>5. ASSUME NEW c \in Calls, NEW r \in Runtimes, Tick(c, r) PROVE TickInv'
  BY <1>5 DEF Tick, Begin, At, Shaped, CallState, NoCall, Lifecycle
<1>6. ASSUME NEW c \in Calls, NEW r \in Runtimes, DomainEvent(c, r) PROVE TickInv'
  BY <1>6 DEF DomainEvent, Begin, At, Shaped, CallState, NoCall, Lifecycle
<1>7. ASSUME NEW c \in Calls, NEW r \in Runtimes, FireOnDemand(c, r) PROVE TickInv'
  BY <1>7 DEF FireOnDemand, Begin, At, Shaped, CallState, NoCall, Lifecycle
<1>8. ASSUME NEW c \in Calls, ClaimLease(c) PROVE TickInv'
  BY <1>8 DEF ClaimLease, MayClaim, Goto, Holders, At, Shaped, CallState, NoCall, Lifecycle
<1>9. ASSUME NEW c \in Calls, Release(c) PROVE TickInv'
  <2>1. CASE At(c, "release")
    BY <1>9, <2>1, KeepTick DEF Release, Listed
  <2>2. CASE ~At(c, "release")
    BY <1>9, <2>2, EndTick DEF Release
  <2> QED BY <2>1, <2>2
<1>10. ASSUME NEW c \in Calls, Ends(c) PROVE TickInv'
  BY <1>10, EndsEnd, EndTick DEF End
<1>11. ASSUME NEW c \in Calls, Moves(c) PROVE TickInv'
  BY <1>11, MovesAdvance, KeepTick DEF Advances
<1>12. ASSUME NEW c \in Calls, Stores(c) PROVE TickInv'
  BY <1>12, StoresAdvance, KeepTick DEF Advances
<1>13. ASSUME NEW t \in Triggers, LeaseExpires(t) PROVE TickInv'
  BY <1>13 DEF LeaseExpires, Holders, Shaped, CallState, NoCall, Lifecycle
<1>14. ASSUME NEW r \in Runtimes, Crash(r) PROVE TickInv'
  BY <1>14, NoneAssumption DEF Crash, Holders, Shaped, CallState, NoCall, Lifecycle
<1>15. ASSUME UNCHANGED vars PROVE TickInv'
  BY <1>15 DEF Shaped, CallState, NoCall, Lifecycle, Holders
<1> QED BY <1>1, <1>2, <1>3, <1>4, <1>5, <1>6, <1>7, <1>8, <1>9, <1>10, <1>11, <1>12, <1>13, <1>14,
     <1>15 DEF Next, LifecycleStep, SchedulerStep, FireStep, Ends, Moves, Stores

--------------------------------------------------------------------------------
(* Halts.                                                                      *)

\* In a quiet halt every call stays on its way out.
LEMMA QuietNext == Shape /\ QuietInv /\ [Next]_vars => QuietInv'
<1> SUFFICES ASSUME Shape, QuietInv, [Next]_vars PROVE QuietInv' OBVIOUS
<1> USE DEF Shape, TypeOK, CallsShaped, vars, memory, ghosts, QuietInv
<1>1. ASSUME NEW c \in Calls, NEW r \in Runtimes, NEW op \in Lifecycle, Request(c, op, r)
      PROVE  QuietInv'
  <2> SUFFICES ASSUME quiet' PROVE QuietInv' OBVIOUS
  <2>1. quiet /\ op \notin {"start", "resume"} /\ UNCHANGED row BY <1>1 DEF Request
  <2>2. call'[c].op = op /\ call'[c].pc = "row" /\ call'[c].st = row
    BY <1>1 DEF Request, Begin
  <2>3. \A d \in Calls \ {c} : call'[d] = call[d] BY <1>1 DEF Request, Begin
  <2> QED BY <2>1, <2>2, <2>3 DEF Leaving
<1>2. ASSUME NEW c \in Calls, ComputeState(c) PROVE QuietInv'
  <2> SUFFICES ASSUME quiet' PROVE QuietInv' OBVIOUS
  <2>1. quiet /\ UNCHANGED row /\ Leaving(call[c]) /\ call[c].st.status \in Halted
    BY <1>2 DEF ComputeState, At, Leaving
  <2>2. call[c].op = "stop" /\ call[c].st \in States \union {NoRow}
    BY <1>2, <2>1 DEF ComputeState, ReturnsEarly, Leaving, Lifecycle, Halted, CallState
  <2>3. CASE NothingToStop(call[c].st)
    <3>1. Goto(c, "clear", call[c].st) BY <1>2, <2>2, <2>3 DEF ComputeState
    <3>2. /\ call' = [call EXCEPT ![c] = call'[c]]
          /\ call'[c].pc = "clear" /\ call'[c].op = "stop"
      BY <2>2, <3>1, GotoShape DEF PC
    <3>3. Leaving(call'[c]) BY <3>2 DEF Leaving
    <3> QED BY <2>1, <3>2, <3>3
  <2>4. CASE ~NothingToStop(call[c].st)
    <3>1. Goto(c, "save", LifecycleState(call[c].op, call[c].st))
      BY <1>2, <2>4 DEF ComputeState
    <3>2. /\ LifecycleState(call[c].op, call[c].st) \in States
          /\ LifecycleState(call[c].op, call[c].st).status = "STOPPED"
      BY <1>2, <2>2, <2>4, LifecycleShape DEF ComputeState
    <3> QED BY <2>1, <2>2, <3>1, <3>2, GotoShape DEF PC, Leaving
  <2> QED BY <2>3, <2>4
<1>3. ASSUME NEW c \in Calls, SaveState(c) PROVE QuietInv'
  BY <1>3 DEF SaveState, HaltStored, Goto, End, At, Leaving, Shaped, CallState, NoCall, Halted,
     Holding, NoRow
<1>4. ASSUME NEW c \in Calls, ClearLeases(c) PROVE QuietInv'
  BY <1>4 DEF ClearLeases, Holders, At, Leaving, Shaped, CallState, NoCall, Halted, Holding, NoRow
<1>5. ASSUME NEW c \in Calls, NEW r \in Runtimes, Tick(c, r) PROVE QuietInv'
  BY <1>5 DEF Tick, Begin, At, Leaving, Shaped, CallState, NoCall, Halted, Holding, NoRow
<1>6. ASSUME NEW c \in Calls, NEW r \in Runtimes, DomainEvent(c, r) PROVE QuietInv'
  BY <1>6 DEF DomainEvent, Begin, At, Leaving, Shaped, CallState, NoCall, Halted, Holding, NoRow
<1>7. ASSUME NEW c \in Calls, NEW r \in Runtimes, FireOnDemand(c, r) PROVE QuietInv'
  BY <1>7 DEF FireOnDemand, Begin, At, Leaving, Shaped, CallState, NoCall, Halted, Holding, NoRow
<1>8. ASSUME NEW c \in Calls, ClaimLease(c) PROVE QuietInv'
  BY <1>8 DEF ClaimLease, MayClaim, Goto, Holders, At, Leaving, Shaped, CallState, NoCall, Halted,
     Holding, NoRow
<1>9. ASSUME NEW c \in Calls, Release(c) PROVE QuietInv'
  BY <1>9 DEF Release, Listed, Holders, At, Leaving, Shaped, CallState, NoCall, Halted, Holding,
     NoRow
<1>10. ASSUME NEW c \in Calls, Ends(c) PROVE QuietInv'
  <2>1. /\ call' = [call EXCEPT ![c] = NoCall] /\ UNCHANGED <<row, quiet>>
    BY <1>10, EndsEnd DEF End
  <2>2. Leaving(NoCall) BY DEF NoCall, Leaving
  <2> QED BY <2>1, <2>2
<1>11. ASSUME NEW c \in Calls, Moves(c) PROVE QuietInv'
  <2>1. Advances(c) /\ UNCHANGED <<row, quiet>> BY <1>11, MovesAdvance
  <2> SUFFICES ASSUME quiet PROVE row.status \in Halted /\ \A d \in Calls : Leaving(call'[d])
    BY <2>1
  <2> QED BY <2>1 DEF Advances
<1>12. ASSUME NEW c \in Calls, Stores(c) PROVE QuietInv'
  <2> SUFFICES ASSUME quiet' PROVE QuietInv' OBVIOUS
  <2>1. ~quiet /\ FailureSaved(c) BY <1>12, StoresAdvance
  <2>2. row' = call[c].st /\ call[c].st.status \in Halted /\ \A d \in Calls \ {c} : At(d, "idle")
    BY <2>1 DEF FailureSaved, HaltStored
  <2>3. call[c].st \in States BY <2>1 DEF FailureSaved, At, Shaped, Saving
  <2>4. call' = [call EXCEPT ![c] = call'[c]] /\ call'[c].pc = "unwind" /\ call'[c].op = call[c].op
    BY <2>1, <2>3, GotoShape DEF FailureSaved, PC, Holding
  <2>5. call[c].op \notin {"start", "resume"}
    BY <2>1 DEF FailureSaved, At, Shaped, Holding, Firing
  <2>6. Leaving(call'[c]) BY <2>4, <2>5 DEF Leaving
  <2>7. \A d \in Calls \ {c} : Leaving(call'[d])
    BY <2>2, <2>4 DEF At, Shaped, NoCall, Leaving
  <2> QED BY <2>2, <2>6, <2>7
<1>13. ASSUME NEW t \in Triggers, LeaseExpires(t) PROVE QuietInv'
  BY <1>13 DEF LeaseExpires, Holders, Leaving, Shaped, CallState, NoCall, Halted, Holding, NoRow
<1>14. ASSUME NEW r \in Runtimes, Crash(r) PROVE QuietInv'
  BY <1>14 DEF Crash, Holders, Leaving, Shaped, CallState, NoCall, Halted, Holding, NoRow
<1>15. ASSUME UNCHANGED vars PROVE QuietInv'
  BY <1>15 DEF Leaving, Shaped, CallState, NoCall, Halted, Holding, NoRow, Holders
<1> QED BY <1>1, <1>2, <1>3, <1>4, <1>5, <1>6, <1>7, <1>8, <1>9, <1>10, <1>11, <1>12, <1>13, <1>14,
     <1>15 DEF Next, LifecycleStep, SchedulerStep, FireStep, Ends, Moves, Stores

--------------------------------------------------------------------------------
(* The circuit breaker.                                                        *)

\* No copy of the state reaches the threshold and runs on.
LEMMA ThresholdNext == Shape /\ ThresholdInv /\ [Next]_vars => ThresholdInv'
<1> SUFFICES ASSUME Shape, ThresholdInv, [Next]_vars PROVE ThresholdInv' OBVIOUS
<1> USE DEF Shape, TypeOK, CallsShaped, vars, memory, ghosts, ThresholdInv
<1>1. ASSUME NEW c \in Calls, NEW r \in Runtimes, NEW op \in Lifecycle, Request(c, op, r)
      PROVE  ThresholdInv'
  BY <1>1 DEF Request, Begin, At, Shaped, CallState, NoCall, NoRow, Below
<1>2. ASSUME NEW c \in Calls, ComputeState(c) PROVE ThresholdInv'
  <2> SUFFICES ASSUME ~pardoned' PROVE ThresholdInv' OBVIOUS
  <2>1. call[c].st \in States \union {NoRow} BY DEF CallState
  <2>2. ~pardoned /\ UNCHANGED row BY <1>2 DEF ComputeState
  <2>3. CASE call[c].op = "stop" /\ NothingToStop(call[c].st)
    <3>1. Goto(c, "clear", call[c].st) BY <1>2, <2>3 DEF ComputeState
    <3> QED BY <2>1, <2>2, <3>1, GotoShape DEF PC
  <2>4. CASE ~(call[c].op = "stop" /\ NothingToStop(call[c].st))
    <3>1. /\ Goto(c, "save", LifecycleState(call[c].op, call[c].st))
          /\ ~(call[c].op \in {"start", "resume"} /\ call[c].st.fails >= MaxFailures)
      BY <1>2, <2>4 DEF ComputeState
    <3>2. /\ LifecycleState(call[c].op, call[c].st) \in States
          /\ Below(LifecycleState(call[c].op, call[c].st))
      BY <1>2, <2>1, <2>4, <3>1, LifecycleShape DEF ComputeState
    <3> QED BY <2>1, <2>2, <3>1, <3>2, GotoShape DEF PC
  <2> QED BY <2>3, <2>4
<1>3. ASSUME NEW c \in Calls, SaveState(c) PROVE ThresholdInv'
  BY <1>3 DEF SaveState, HaltStored, Goto, End, At, Shaped, CallState, NoCall, NoRow, Below
<1>4. ASSUME NEW c \in Calls, ClearLeases(c) PROVE ThresholdInv'
  BY <1>4 DEF ClearLeases, Holders, At, Shaped, CallState, NoCall, NoRow, Below
<1>5. ASSUME NEW c \in Calls, NEW r \in Runtimes, Tick(c, r) PROVE ThresholdInv'
  BY <1>5 DEF Tick, Begin, At, Shaped, CallState, NoCall, NoRow, Below
<1>6. ASSUME NEW c \in Calls, NEW r \in Runtimes, DomainEvent(c, r) PROVE ThresholdInv'
  BY <1>6 DEF DomainEvent, Begin, At, Shaped, CallState, NoCall, NoRow, Below
<1>7. ASSUME NEW c \in Calls, NEW r \in Runtimes, FireOnDemand(c, r) PROVE ThresholdInv'
  BY <1>7 DEF FireOnDemand, Begin, At, Shaped, CallState, NoCall, NoRow, Below
<1>8. ASSUME NEW c \in Calls, ClaimLease(c) PROVE ThresholdInv'
  BY <1>8 DEF ClaimLease, MayClaim, Goto, Holders, At, Shaped, CallState, NoCall, NoRow, Below
<1>9. ASSUME NEW c \in Calls, Release(c) PROVE ThresholdInv'
  BY <1>9 DEF Release, Listed, Holders, At, Shaped, CallState, NoCall, NoRow, Below
<1>10. ASSUME NEW c \in Calls, Ends(c) PROVE ThresholdInv'
  BY <1>10 DEF Ends, End, At, EarlyReturn, SaveConflict, NoneLeft, FireRefused, ClaimRefused,
     EnterStopped, EnterConflict, Shaped, CallState, NoCall, NoRow, Below
<1>11. ASSUME NEW c \in Calls, Moves(c) PROVE ThresholdInv'
  <2>1. Advances(c) /\ UNCHANGED <<row, pardoned>> BY <1>11, MovesAdvance
  <2> QED BY <2>1 DEF Advances
<1>12. ASSUME NEW c \in Calls, Stores(c) PROVE ThresholdInv'
  <2>1. Advances(c) /\ row' = call[c].st /\ UNCHANGED pardoned BY <1>12, StoresAdvance
  <2> QED BY <2>1 DEF Advances
<1>13. ASSUME NEW t \in Triggers, LeaseExpires(t) PROVE ThresholdInv'
  BY <1>13 DEF LeaseExpires, Holders, Shaped, CallState, NoCall, NoRow, Below
<1>14. ASSUME NEW r \in Runtimes, Crash(r) PROVE ThresholdInv'
  BY <1>14 DEF Crash, Holders, Shaped, CallState, NoCall, NoRow, Below
<1>15. ASSUME UNCHANGED vars PROVE ThresholdInv'
  BY <1>15 DEF Shaped, CallState, NoCall, NoRow, Below, Holders
<1> QED BY <1>1, <1>2, <1>3, <1>4, <1>5, <1>6, <1>7, <1>8, <1>9, <1>10, <1>11, <1>12, <1>13, <1>14,
     <1>15 DEF Next, LifecycleStep, SchedulerStep, FireStep, Ends, Moves, Stores

--------------------------------------------------------------------------------
(* Theorems.                                                                   *)

IInv == Shape /\ HolderOwns /\ TickInv /\ QuietInv /\ ThresholdInv

\* The inductive invariant holds in every reachable state.
THEOREM Invariant == Spec => []IInv
<1>1. Init => HolderOwns /\ TickInv /\ QuietInv /\ ThresholdInv
  BY BoundsAssumption DEF Init, HolderOwns, Holders, TickInv, TickFlagTracksTick, TickUnique,
     QuietInv, ThresholdInv, Below, NoCall, NoRow, Holding
<1>2. IInv /\ [Next]_vars => IInv'
  BY ShapeNext, HolderOwnsNext, TickNext, QuietNext, ThresholdNext DEF IInv
<1> QED BY <1>1, <1>2, ShapeInit, PTL DEF Spec, IInv

\* Every variable keeps its shape, for any number of instances and calls.
THEOREM TypeCorrect == Spec => []TypeOK
<1>1. IInv => TypeOK BY DEF IInv, Shape
<1> QED BY <1>1, Invariant, PTL

\* Two instances are in a cycle of one trigger only if a lease was taken away.
THEOREM ExclusionUnlessLostCorrect == Spec => []ExclusionUnlessLost
<1>1. IInv => ExclusionUnlessLost BY DEF IInv, HolderOwns, ExclusionUnlessLost
<1> QED BY <1>1, Invariant, PTL

\* isProcessingTick tells exactly whether a tick is in progress.
THEOREM TickFlagTracksTickCorrect == Spec => []TickFlagTracksTick
<1>1. IInv => TickFlagTracksTick BY DEF IInv, TickInv
<1> QED BY <1>1, Invariant, PTL

\* The only steps that dispatch a cycle.
LEMMA DispatchCases ==
  ASSUME Shape, Next, NEW c \in Calls, Dispatches(c)
  PROVE  \/ EnterUntracked(c) \/ EnterSaved(c)
<1> DEFINE Goal == EnterUntracked(c) \/ EnterSaved(c)
<1> USE DEF Shape, TypeOK, CallsShaped, vars, memory, ghosts, Dispatches
<1>1. ASSUME NEW d \in Calls, NEW r \in Runtimes, NEW op \in Lifecycle, Request(d, op, r)
      PROVE  Goal
  BY <1>1 DEF Request, Begin, At, NoCall, CallState, Shaped
<1>2. ASSUME NEW d \in Calls, ComputeState(d) PROVE Goal
  BY <1>2 DEF ComputeState, Goto, At, NoCall, CallState, Shaped
<1>3. ASSUME NEW d \in Calls, SaveState(d) PROVE Goal
  BY <1>3 DEF SaveState, HaltStored, Goto, End, At, NoCall, CallState, Shaped
<1>4. ASSUME NEW d \in Calls, ClearLeases(d) PROVE Goal
  BY <1>4 DEF ClearLeases, Holders, At, NoCall, CallState, Shaped
<1>5. ASSUME NEW d \in Calls, NEW r \in Runtimes, Tick(d, r) PROVE Goal
  BY <1>5 DEF Tick, Begin, At, NoCall, CallState, Shaped
<1>6. ASSUME NEW d \in Calls, NEW r \in Runtimes, DomainEvent(d, r) PROVE Goal
  BY <1>6 DEF DomainEvent, Begin, At, NoCall, CallState, Shaped
<1>7. ASSUME NEW d \in Calls, NEW r \in Runtimes, FireOnDemand(d, r) PROVE Goal
  BY <1>7 DEF FireOnDemand, Begin, At, NoCall, CallState, Shaped
<1>8. ASSUME NEW d \in Calls, ClaimLease(d) PROVE Goal
  BY <1>8 DEF ClaimLease, MayClaim, Goto, Holders, At, NoCall, CallState, Shaped
<1>9. ASSUME NEW d \in Calls, Release(d) PROVE Goal
  BY <1>9 DEF Release, Listed, Holders, At, NoCall, CallState, Shaped
<1>10. ASSUME NEW d \in Calls, Ends(d) PROVE Goal
  BY <1>10, EndsEnd DEF End, NoCall
<1>11. ASSUME NEW d \in Calls, Moves(d) PROVE Goal
  BY <1>11 DEF Moves, Goto, Listed, At, Heartbeat, EventMatches, Fire, LookUpLease, EnterUntracked,
     Enter, CycleResolves, CycleThrows, SuccessConflict, FailureConflict, NoCall, CallState, Shaped
<1>12. ASSUME NEW d \in Calls, Stores(d) PROVE Goal
  BY <1>12 DEF Stores, Goto, Listed, At, HaltStored, SaveHeartbeat, EnterSaved, SuccessSaved,
     FailureSaved, NoCall, CallState, Shaped
<1>13. ASSUME NEW t \in Triggers, LeaseExpires(t) PROVE Goal
  BY <1>13 DEF LeaseExpires, Holders, NoCall, CallState, Shaped
<1>14. ASSUME NEW r \in Runtimes, Crash(r) PROVE Goal
  BY <1>14 DEF Crash, Holders, NoCall, CallState, Shaped
<1> QED BY <1>1, <1>2, <1>3, <1>4, <1>5, <1>6, <1>7, <1>8, <1>9, <1>10, <1>11, <1>12, <1>13, <1>14
     DEF Next, LifecycleStep, SchedulerStep, FireStep, Ends, Moves, Stores

\* A halt stored with nothing in progress dispatches no cycle until a restart.
THEOREM QuietHaltHoldsCorrect == Spec => QuietHaltHolds
<1>1. IInv /\ [Next]_vars => [quiet => \A c \in Calls : ~Dispatches(c)]_vars
  <2> SUFFICES ASSUME IInv, Next, quiet, NEW c \in Calls, Dispatches(c) PROVE FALSE
    OBVIOUS
  <2>1. Leaving(call[c]) BY DEF IInv, QuietInv
  <2>2. EnterUntracked(c) \/ EnterSaved(c) BY DispatchCases DEF IInv
  <2> QED BY <2>1, <2>2 DEF Leaving, EnterUntracked, EnterSaved, At, NoRow
<1> QED BY <1>1, Invariant, PTL DEF Spec, QuietHaltHolds

\* No state that has reached the threshold dispatches before it is started again.
THEOREM DispatchesBelowThresholdCorrect == Spec => DispatchesBelowThreshold
<1>1. IInv /\ [Next]_vars =>
        [~pardoned => \A c \in Calls : Dispatches(c) => call'[c].st.fails < MaxFailures]_vars
  <2> SUFFICES ASSUME IInv, Next, ~pardoned, NEW c \in Calls, Dispatches(c)
               PROVE  call'[c].st.fails < MaxFailures
    OBVIOUS
  <2>1. EnterUntracked(c) \/ EnterSaved(c) BY DispatchCases DEF IInv
  <2>2. CASE EnterUntracked(c)
    BY <2>2, BoundsAssumption DEF IInv, Shape, TypeOK, EnterUntracked, Goto, NoRow
  <2>3. CASE EnterSaved(c)
    <3>1. call[c].st.fails < MaxFailures
      BY <2>3 DEF IInv, ThresholdInv, Below, Shape, CallsShaped, Shaped, EnterSaved, At
    <3> QED BY <2>3, <3>1 DEF IInv, Shape, TypeOK, EnterSaved, Goto
  <2> QED BY <2>1, <2>2, <2>3
<1> QED BY <1>1, Invariant, PTL DEF Spec, DispatchesBelowThreshold
================================================================================
