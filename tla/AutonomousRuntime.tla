--------------------------- MODULE AutonomousRuntime ---------------------------
(***************************************************************************)
(* The autonomous daemon of one tenant: the instances of                   *)
(* AutonomousOperationsRuntime that share a SQLite file, the runtime state *)
(* row and the trigger leases they coordinate through.                     *)
(*                                                                         *)
(* A call (a lifecycle request, a scheduler tick, a domain event, a manual *)
(* fire) is an element of Calls; an action is its code between two awaits. *)
(* Repositories look before they write: save() and acquire() read in one   *)
(* segment and upsert in the next, and anything may happen in between.     *)
(* Abstracted: which triggers are due or match an event (any set), the     *)
(* trigger rows (saving one succeeds or conflicts), the ids of the active  *)
(* cycles and the window keys, on which no property here depends.          *)
(***************************************************************************)
EXTENDS Naturals

CONSTANTS Runtimes,     \* instance ids; each is a fresh random id of one process
          Triggers,
          Calls,        \* calls in progress at once
          None,
          MaxFailures,  \* maxConsecutiveFailures of the state row
          MaxCalls      \* bound: calls ever begun

ASSUME NoneAssumption == None \notin Runtimes /\ None \notin Triggers
ASSUME BoundsAssumption == MaxFailures \in Nat \ {0} /\ MaxCalls \in Nat

VARIABLES
  row,       \* durable: the state row, NoRow before the first start
  lease,     \* durable: lease[t]: owner of the live lease on t, or None
  call,      \* call[c]: program counter and local variables of c, or NoCall
  alive,     \* instances whose process has not died
  timer,     \* timer[r]: timerHandle is set
  ticking,   \* ticking[r]: isProcessingTick
  stopping,  \* stopping[r]: isShuttingDown
  lost,      \* calls whose lease was taken from them while they hold it
  quiet,     \* a halt was stored with no other call in progress, and no start or
             \* resume has begun since
  pardoned,  \* a start or resume has let a state with MaxFailures failures run
  begun

memory == <<timer, ticking, stopping>>
ghosts == <<lost, quiet, pardoned, begun>>
vars == <<row, lease, call, alive, memory, ghosts>>

Halted == {"PAUSED", "STOPPED", "SAFETY_HALTED"}
States == [status : {"RUNNING"} \union Halted, fails : Nat, version : Nat]
NoRow == [status |-> "ABSENT", fails |-> 0, version |-> 0]
Lifecycle == {"start", "pause", "resume", "stop"}
Firing == {"tick", "event", "manual"}
\* A call between acquire() and release() of the lease on its trigger.
Holding == {"enter", "enterSave", "cycle", "okSave", "failSave", "release", "unwind"}
Saving == {"save", "enterSave", "okSave", "failSave"}
PC == {"idle", "row", "save", "clear", "next", "guard", "claim"} \union Holding

CallState == [op : Lifecycle \union Firing \union {"none"}, rt : Runtimes \union {None}, pc : PC,
              st : States \union {NoRow}, seen : Nat, trig : Triggers \union {None},
              todo : SUBSET Triggers, saw : Runtimes \union {None}]
NoCall == [op |-> "none", rt |-> None, pc |-> "idle", st |-> NoRow, seen |-> 0,
           trig |-> None, todo |-> {}, saw |-> None]

Init ==
  /\ row \in {NoRow} \union {[status |-> "RUNNING", fails |-> f, version |-> 1] : f \in 0..(MaxFailures - 1)}
  /\ lease = [t \in Triggers |-> None]
  /\ call = [c \in Calls |-> NoCall]
  /\ alive = Runtimes
  /\ timer = [r \in Runtimes |-> FALSE]
  /\ ticking = [r \in Runtimes |-> FALSE]
  /\ stopping = [r \in Runtimes |-> FALSE]
  /\ lost = {} /\ quiet = FALSE /\ pardoned = FALSE /\ begun = 0

--------------------------------------------------------------------------------
(* AutonomousRuntimeState: every transition makes a copy with the next version. *)

Copy(s, status, fails) == [status |-> status, fails |-> fails, version |-> s.version + 1]

Started(s) == Copy(s, "RUNNING", s.fails)       \* start(), resume(): the count stays
CycleStarted(s) == Copy(s, s.status, s.fails)   \* also heartbeat()
CycleSuccess(s) == Copy(s, s.status, 0)
\* Wrong variant: the threshold has to be exceeded.
CycleFailureLate(s) ==
  Copy(s, IF s.fails + 1 > MaxFailures THEN "SAFETY_HALTED" ELSE s.status, s.fails + 1)
CycleFailure(s) ==
  Copy(s, IF s.fails + 1 >= MaxFailures THEN "SAFETY_HALTED" ELSE s.status, s.fails + 1)

\* The state a lifecycle call computes from the row it has read.
LifecycleState(op, s) ==
  CASE op \in {"start", "resume"} ->
         Started(IF s = NoRow THEN [status |-> "STOPPED", fails |-> 0, version |-> 1] ELSE s)
    [] op = "pause" -> Copy(s, "PAUSED", s.fails)
    [] op = "stop" -> Copy(s, "STOPPED", s.fails)

\* A call returns, or throws, before it has anything to save.
ReturnsEarly(op, s) ==
  \/ op = "start" /\ s.status = "RUNNING"
  \/ op = "resume" /\ s.status \in {"ABSENT", "RUNNING"}
  \/ op = "pause" /\ s.status # "RUNNING"
  \/ op \in {"tick", "event"} /\ s.status # "RUNNING"
NothingToStop(s) == s.status \in {"ABSENT", "STOPPED"}

--------------------------------------------------------------------------------
(* How a call moves.                                                           *)

\* The call goes on to pc with local state st; a save() reads the stored version.
Goto(c, pc, st) ==
  call' = [call EXCEPT ![c] =
    [op |-> @.op, rt |-> @.rt, pc |-> pc, st |-> st,
     seen |-> IF pc \in Saving THEN row.version ELSE 0,
     trig |-> @.trig, todo |-> @.todo, saw |-> None]]

\* The call returns or throws; a tick resets isProcessingTick.
End(c) ==
  /\ call' = [call EXCEPT ![c] = NoCall]
  /\ ticking' = IF call[c].op = "tick" THEN [ticking EXCEPT ![call[c].rt] = FALSE] ELSE ticking
  /\ lost' = lost \ {c}

At(c, pc) == call[c].pc = pc

Begin(c, op, r, pc, st, todo) ==
  /\ At(c, "idle") /\ r \in alive /\ begun < MaxCalls
  /\ call' = [call EXCEPT ![c] = [op |-> op, rt |-> r, pc |-> pc, st |-> st, seen |-> 0,
                                  trig |-> None, todo |-> todo, saw |-> None]]
  /\ begun' = begun + 1

\* The comparison save() makes with the version it read before its await.
Conflict(c) == call[c].seen >= call[c].st.version

--------------------------------------------------------------------------------
(* start, pause, resume, stop.                                                 *)

Request(c, op, r) ==
  /\ Begin(c, op, r, "row", row, {})
  /\ quiet' = (quiet /\ op \notin {"start", "resume"})
  /\ stopping' = IF op = "stop" THEN [stopping EXCEPT ![r] = TRUE] ELSE stopping
  /\ timer' = IF op = "stop" THEN [timer EXCEPT ![r] = FALSE] ELSE timer
  /\ UNCHANGED <<row, lease, alive, ticking, lost, pardoned>>

\* Wrong variant: a tick that finds the runtime halted leaves its flag set.
EarlyReturnKeepsFlag(c) ==
  /\ At(c, "row") /\ ReturnsEarly(call[c].op, call[c].st)
  /\ call' = [call EXCEPT ![c] = NoCall]
  /\ lost' = lost \ {c}
  /\ UNCHANGED <<row, lease, alive, timer, ticking, stopping, quiet, pardoned, begun>>

EarlyReturn(c) ==
  /\ At(c, "row") /\ ReturnsEarly(call[c].op, call[c].st)
  /\ End(c)
  /\ UNCHANGED <<row, lease, alive, timer, stopping, quiet, pardoned, begun>>

ComputeState(c) ==
  /\ At(c, "row") /\ call[c].op \in Lifecycle /\ ~ReturnsEarly(call[c].op, call[c].st)
  /\ IF call[c].op = "stop" /\ NothingToStop(call[c].st)
     THEN Goto(c, "clear", call[c].st) /\ UNCHANGED pardoned
     ELSE /\ Goto(c, "save", LifecycleState(call[c].op, call[c].st))
          /\ pardoned' = (pardoned \/ /\ call[c].op \in {"start", "resume"}
                                      /\ call[c].st.fails >= MaxFailures)
  /\ UNCHANGED <<row, lease, alive, memory, lost, quiet, begun>>

\* A halt stored while every other call is idle.
HaltStored(c) == /\ call[c].st.status \in Halted
                 /\ \A d \in Calls \ {c} : At(d, "idle")

\* start() sets a timer unless there is one or a stop() is in progress.
SaveState(c) ==
  /\ At(c, "save") /\ call[c].op \in Lifecycle /\ ~Conflict(c)
  /\ row' = call[c].st
  /\ quiet' = (quiet \/ HaltStored(c))
  /\ IF call[c].op = "stop"
     THEN Goto(c, "clear", call[c].st) /\ UNCHANGED <<ticking, lost, timer>>
     ELSE /\ End(c)
          /\ timer' = IF call[c].op = "start" /\ ~stopping[call[c].rt]
                      THEN [timer EXCEPT ![call[c].rt] = TRUE] ELSE timer
  /\ UNCHANGED <<lease, alive, stopping, pardoned, begun>>

\* A conflict is thrown to the caller; stop() then leaves isShuttingDown set.
SaveConflict(c) ==
  /\ At(c, "save") /\ Conflict(c)
  /\ End(c)
  /\ UNCHANGED <<row, lease, alive, timer, stopping, quiet, pardoned, begun>>

Holders == {c \in Calls : call[c].pc \in Holding}

\* clearExpired(now + 24 h): every lease of the tenant, whoever holds it.
ClearLeases(c) ==
  /\ At(c, "clear")
  /\ lease' = [t \in Triggers |-> None]
  /\ call' = [call EXCEPT ![c] = NoCall]
  /\ lost' = Holders
  /\ stopping' = [stopping EXCEPT ![call[c].rt] = FALSE]
  /\ UNCHANGED <<row, alive, timer, ticking, quiet, pardoned, begun>>

--------------------------------------------------------------------------------
(* onSchedulerTick, handleDomainEvent, and a fire requested over HTTP.         *)

Tick(c, r) ==
  /\ timer[r] /\ ~ticking[r] /\ ~stopping[r]
  /\ Begin(c, "tick", r, "row", row, {})
  /\ ticking' = [ticking EXCEPT ![r] = TRUE]
  /\ UNCHANGED <<row, lease, alive, timer, stopping, lost, quiet, pardoned>>

DomainEvent(c, r) ==
  /\ Begin(c, "event", r, "row", row, {})
  /\ UNCHANGED <<row, lease, alive, memory, lost, quiet, pardoned>>

FireOnDemand(c, r) == \E t \in Triggers :
  /\ Begin(c, "manual", r, "next", NoRow, {t})
  /\ UNCHANGED <<row, lease, alive, memory, lost, quiet, pardoned>>

Heartbeat(c) ==
  /\ At(c, "row") /\ call[c].op = "tick" /\ call[c].st.status = "RUNNING"
  /\ Goto(c, "save", CycleStarted(call[c].st))
  /\ UNCHANGED <<row, lease, alive, memory, ghosts>>

\* The triggers that are due, or match the event.
Listed(c, todo) ==
  call' = [call EXCEPT ![c] = [op |-> @.op, rt |-> @.rt, pc |-> "next", st |-> NoRow, seen |-> 0,
                               trig |-> None, todo |-> todo, saw |-> None]]

SaveHeartbeat(c) ==
  /\ At(c, "save") /\ call[c].op = "tick" /\ ~Conflict(c)
  /\ row' = call[c].st
  /\ \E todo \in SUBSET Triggers : Listed(c, todo)
  /\ UNCHANGED <<lease, alive, memory, ghosts>>

EventMatches(c) ==
  /\ At(c, "row") /\ call[c].op = "event" /\ call[c].st.status = "RUNNING"
  /\ \E todo \in SUBSET Triggers : Listed(c, todo)
  /\ UNCHANGED <<row, lease, alive, memory, ghosts>>

NoneLeft(c) ==
  /\ At(c, "next") /\ call[c].todo = {}
  /\ End(c)
  /\ UNCHANGED <<row, lease, alive, timer, stopping, quiet, pardoned, begun>>

--------------------------------------------------------------------------------
(* fireTrigger.                                                                *)

Fire(c) == \E t \in call[c].todo :
  /\ At(c, "next")
  /\ call' = [call EXCEPT ![c] = [op |-> @.op, rt |-> @.rt, pc |-> "guard", st |-> row, seen |-> 0,
                                  trig |-> t, todo |-> @.todo \ {t}, saw |-> None]]
  /\ UNCHANGED <<row, lease, alive, memory, ghosts>>

FireRefused(c) ==
  /\ At(c, "guard") /\ call[c].st.status \in {"PAUSED", "SAFETY_HALTED"}
  /\ End(c)
  /\ UNCHANGED <<row, lease, alive, timer, stopping, quiet, pardoned, begun>>

\* acquire() looks for a live lease.  A STOPPED runtime is not refused here.
LookUpLease(c) ==
  /\ At(c, "guard") /\ call[c].st.status \in {"ABSENT", "RUNNING", "STOPPED"}
  /\ call' = [call EXCEPT ![c] = [op |-> @.op, rt |-> @.rt, pc |-> "claim", st |-> @.st, seen |-> 0,
                                  trig |-> @.trig, todo |-> @.todo, saw |-> lease[@.trig]]]
  /\ UNCHANGED <<row, lease, alive, memory, ghosts>>

\* Wrong variant: whoever is found holding the lease is ignored.
MayClaimAlways(c) == TRUE
\* The instance that owns the lease may acquire it again.  (A lease that expires
\* between the look and the claim is found expired: as if looked up later.)
MayClaim(c) == call[c].saw \in {None, call[c].rt}

ClaimLease(c) ==
  /\ At(c, "claim") /\ MayClaim(c)
  /\ lease' = [lease EXCEPT ![call[c].trig] = call[c].rt]
  /\ lost' = IF call[c].saw \in {None, call[c].rt}
             THEN lost \union {d \in Holders : call[d].trig = call[c].trig /\ call[d].rt # call[c].rt}
             ELSE lost
  /\ Goto(c, "enter", call[c].st)
  /\ UNCHANGED <<row, alive, memory, quiet, pardoned, begun>>

ClaimRefused(c) ==
  /\ At(c, "claim") /\ ~MayClaim(c)
  /\ End(c)
  /\ UNCHANGED <<row, lease, alive, timer, stopping, quiet, pardoned, begun>>

\* Wrong variant of EnterStopped: the status is not checked again.
EnterAnyway(c) ==
  /\ At(c, "enter") /\ call[c].st.status = "STOPPED"
  /\ Goto(c, "enterSave", CycleStarted(call[c].st))
  /\ UNCHANGED <<row, lease, alive, memory, ghosts>>

\* registerCycleStarted() and its save() come before the try: a STOPPED runtime
\* or a conflict leaves the lease behind.
EnterStopped(c) ==
  /\ At(c, "enter") /\ call[c].st.status = "STOPPED"
  /\ End(c)
  /\ UNCHANGED <<row, lease, alive, timer, stopping, quiet, pardoned, begun>>

\* Without a state row the cycle is dispatched at once.
EnterUntracked(c) ==
  /\ At(c, "enter") /\ call[c].st = NoRow
  /\ Goto(c, "cycle", NoRow)
  /\ UNCHANGED <<row, lease, alive, memory, ghosts>>

Enter(c) ==
  /\ At(c, "enter") /\ call[c].st.status = "RUNNING"
  /\ Goto(c, "enterSave", CycleStarted(call[c].st))
  /\ UNCHANGED <<row, lease, alive, memory, ghosts>>

EnterSaved(c) ==
  /\ At(c, "enterSave") /\ ~Conflict(c)
  /\ row' = call[c].st
  /\ Goto(c, "cycle", call[c].st)
  /\ UNCHANGED <<lease, alive, memory, ghosts>>

EnterConflict(c) ==
  /\ At(c, "enterSave") /\ Conflict(c)
  /\ End(c)
  /\ UNCHANGED <<row, lease, alive, timer, stopping, quiet, pardoned, begun>>

\* The executive cycle resolves and the trigger is saved; or one of them throws.
CycleResolves(c) ==
  /\ At(c, "cycle")
  /\ IF call[c].st = NoRow THEN Goto(c, "release", NoRow)
                           ELSE Goto(c, "okSave", CycleSuccess(call[c].st))
  /\ UNCHANGED <<row, lease, alive, memory, ghosts>>
CycleThrows(c) ==
  /\ At(c, "cycle")
  /\ IF call[c].st = NoRow THEN Goto(c, "unwind", NoRow)
                           ELSE Goto(c, "failSave", CycleFailure(call[c].st))
  /\ UNCHANGED <<row, lease, alive, memory, ghosts>>

SuccessSaved(c) ==
  /\ At(c, "okSave") /\ ~Conflict(c)
  /\ row' = call[c].st
  /\ Goto(c, "release", call[c].st)
  /\ UNCHANGED <<lease, alive, memory, ghosts>>

\* The conflict is caught, and the cycle that succeeded is counted as a failure,
\* on top of a copy whose version is already two ahead of the one it started from.
SuccessConflict(c) ==
  /\ At(c, "okSave") /\ Conflict(c)
  /\ Goto(c, "failSave", CycleFailure(call[c].st))
  /\ UNCHANGED <<row, lease, alive, memory, ghosts>>

FailureSaved(c) ==
  /\ At(c, "failSave") /\ ~Conflict(c)
  /\ row' = call[c].st
  /\ quiet' = (quiet \/ HaltStored(c))
  /\ Goto(c, "unwind", call[c].st)
  /\ UNCHANGED <<lease, alive, memory, lost, pardoned, begun>>

FailureConflict(c) ==
  /\ At(c, "failSave") /\ Conflict(c)
  /\ Goto(c, "unwind", call[c].st)
  /\ UNCHANGED <<row, lease, alive, memory, ghosts>>

\* release() deletes the lease if this instance owns it, whichever call took it.
Release(c) ==
  LET mine == {d \in Holders : call[d].trig = call[c].trig}
      owns == lease[call[c].trig] = call[c].rt
  IN
  /\ call[c].pc \in {"release", "unwind"}
  /\ lease' = IF owns THEN [lease EXCEPT ![call[c].trig] = None] ELSE lease
  /\ IF At(c, "release")
     THEN Listed(c, call[c].todo) /\ UNCHANGED ticking
     ELSE /\ call' = [call EXCEPT ![c] = NoCall]
          /\ ticking' = IF call[c].op = "tick" THEN [ticking EXCEPT ![call[c].rt] = FALSE] ELSE ticking
  /\ lost' = (IF owns THEN lost \union mine ELSE lost) \ {c}
  /\ UNCHANGED <<row, alive, timer, stopping, quiet, pardoned, begun>>

--------------------------------------------------------------------------------
(* Time and crashes.                                                           *)

\* 30 seconds pass and nobody renews the lease.
LeaseExpires(t) ==
  /\ lease[t] # None
  /\ lease' = [lease EXCEPT ![t] = None]
  /\ lost' = lost \union {c \in Holders : call[c].trig = t}
  /\ UNCHANGED <<row, call, alive, memory, quiet, pardoned, begun>>

\* The process dies.  Its successor has a new id.
Crash(r) ==
  /\ r \in alive
  /\ alive' = alive \ {r}
  /\ call' = [c \in Calls |-> IF call[c].rt = r THEN NoCall ELSE call[c]]
  /\ lost' = {c \in lost : call[c].rt # r}
  /\ timer' = [timer EXCEPT ![r] = FALSE]
  /\ ticking' = [ticking EXCEPT ![r] = FALSE]
  /\ stopping' = [stopping EXCEPT ![r] = FALSE]
  /\ UNCHANGED <<row, lease, quiet, pardoned, begun>>

--------------------------------------------------------------------------------
LifecycleStep(c) ==
  \/ \E r \in Runtimes, op \in Lifecycle : Request(c, op, r)
  \/ EarlyReturn(c) \/ ComputeState(c) \/ SaveState(c) \/ SaveConflict(c) \/ ClearLeases(c)
SchedulerStep(c) ==
  \/ \E r \in Runtimes : Tick(c, r) \/ DomainEvent(c, r) \/ FireOnDemand(c, r)
  \/ Heartbeat(c) \/ SaveHeartbeat(c) \/ EventMatches(c) \/ NoneLeft(c)
FireStep(c) ==
  \/ Fire(c) \/ FireRefused(c) \/ LookUpLease(c) \/ ClaimLease(c) \/ ClaimRefused(c)
  \/ EnterStopped(c) \/ EnterUntracked(c) \/ Enter(c) \/ EnterSaved(c) \/ EnterConflict(c)
  \/ CycleResolves(c) \/ CycleThrows(c) \/ SuccessSaved(c) \/ SuccessConflict(c)
  \/ FailureSaved(c) \/ FailureConflict(c) \/ Release(c)

Next ==
  \/ \E c \in Calls : LifecycleStep(c) \/ SchedulerStep(c) \/ FireStep(c)
  \/ \E t \in Triggers : LeaseExpires(t)
  \/ \E r \in Runtimes : Crash(r)

Spec == Init /\ [][Next]_vars

--------------------------------------------------------------------------------
(* Properties.                                                                 *)

\* Every variable keeps its shape.
TypeOK ==
  /\ row \in States \union {NoRow}
  /\ lease \in [Triggers -> Runtimes \union {None}]
  /\ call \in [Calls -> CallState]
  /\ alive \subseteq Runtimes
  /\ timer \in [Runtimes -> BOOLEAN] /\ ticking \in [Runtimes -> BOOLEAN]
  /\ stopping \in [Runtimes -> BOOLEAN]
  /\ lost \subseteq Calls /\ quiet \in BOOLEAN /\ pardoned \in BOOLEAN /\ begun \in Nat

\* Two instances are in a cycle of the same trigger only if the lease of one was
\* taken from it: it expired, a stop() cleared it, another call of the same
\* instance released it, or the second instance had looked before it was there.
ExclusionUnlessLost ==
  \A c, d \in Holders :
    call[c].trig = call[d].trig /\ call[c].rt # call[d].rt => c \in lost \/ d \in lost

\* isProcessingTick is set exactly while a tick of the instance is in progress,
\* so a tick that ends in any way lets the next one in.
TickFlagTracksTick ==
  \A r \in Runtimes :
    ticking[r] <=> \E c \in Calls : call[c].op = "tick" /\ call[c].rt = r

Dispatches(c) == call[c].pc # "cycle" /\ call'[c].pc = "cycle"

\* A pause, stop or safety halt stored while no other call was in progress holds:
\* no cycle is dispatched, whatever is ticked, delivered or fired on demand,
\* until a start or resume is requested.
QuietHaltHolds == [][quiet => \A c \in Calls : ~Dispatches(c)]_vars

\* Stale copies may undo a safety halt, but no state that has reached the failure
\* threshold dispatches a cycle before an operator has started it again.
DispatchesBelowThreshold ==
  [][~pardoned => \A c \in Calls : Dispatches(c) => call'[c].st.fails < MaxFailures]_vars

\* At most one cycle of a trigger is in progress.
MutualExclusion ==
  \A c, d \in Calls :
    At(c, "cycle") /\ At(d, "cycle") /\ call[c].trig = call[d].trig => c = d
================================================================================
