----------------------------- MODULE TriggerSchedule -----------------------------
(***************************************************************************)
(* When the daemon fires its SCHEDULED triggers: the trigger rows, the     *)
(* windows each instance remembers to have executed, the scheduler ticks,  *)
(* and operators who enable, disable and fire triggers meanwhile.          *)
(* AutonomousRuntime leaves out what is here; what it models, the lease    *)
(* and the state row, is here a claim that is granted or refused and a     *)
(* save that succeeds or conflicts.                                        *)
(*                                                                         *)
(* An action is the code between two awaits; save() reads the stored       *)
(* version in one and upserts in the next.  Time is counted in seconds, as *)
(* window keys are, and does not move between these two.  An instance that *)
(* dies is started again under the same name, with an empty memory.        *)
(***************************************************************************)
EXTENDS Naturals

CONSTANTS
  Runtimes,     \* instances, each with its scheduler
  Operators,    \* requests over HTTP in progress
  Triggers,
  Interval,     \* intervalMs in seconds
  MaxTime,      \* bound: the clock
  MaxRequests,  \* bound: requests ever made
  MaxRefusals,  \* bound: refused claims and conflicts on the state row
  MaxCrashes    \* bound: instances that died

ASSUME ScheduleAssumption ==
  /\ Interval \in Nat \ {0} /\ Triggers # {}
  /\ Runtimes \intersect Operators = {}
  /\ MaxTime \in Nat /\ MaxRequests \in Nat /\ MaxRefusals \in Nat /\ MaxCrashes \in Nat

VARIABLES
  now,
  row,       \* durable: the rows of autonomous_triggers
  executed,  \* executed[r]: executedWindows
  call,      \* call[c]: the tick of an instance, or a request
  fired,     \* fired[r]: windows the instance has dispatched a cycle for
  dropped,   \* dropped[r]: windows whose firing ended before it was recorded
  recorded,  \* windows whose firing was recorded in a row
  requests, refusals, crashes

bounds == <<requests, refusals, crashes>>
vars == <<now, row, executed, call, fired, dropped, recorded, bounds>>

Callers == Runtimes \union Operators
Row == [on : BOOLEAN, next : Nat, version : Nat]
Window == Triggers \X Nat

\* copy: the rows as they were listed; todo: listed triggers the loop has not reached;
\* new: the row to save; seen: the version save() found.
Call == [pc : {"idle", "listing", "list", "start", "cycle", "change", "write", "settle"},
         op : {"none", "tick", "fire", "enable", "disable"}, at : Nat,
         copy : [Triggers -> Row], todo : SUBSET Triggers, trig : Triggers, new : Row, seen : Nat]

NoRow == [on |-> FALSE, next |-> 0, version |-> 0]
Idle == [pc |-> "idle", op |-> "none", at |-> 0, copy |-> [t \in Triggers |-> NoRow], todo |-> {},
         trig |-> CHOOSE t \in Triggers : TRUE, new |-> NoRow, seen |-> 0]

\* createTrigger() at time 0
Created == [on |-> TRUE, next |-> Interval, version |-> 1]

Init ==
  /\ now = 0
  /\ row = [t \in Triggers |-> Created]
  /\ executed = [r \in Runtimes |-> {}]
  /\ call = [c \in Callers |-> Idle]
  /\ fired = [r \in Runtimes |-> {}] /\ dropped = [r \in Runtimes |-> {}] /\ recorded = {}
  /\ requests = 0 /\ refusals = 0 /\ crashes = 0

--------------------------------------------------------------------------------
(* AutonomousTrigger: every change is a copy with the next version.            *)

\* Wrong variant: the window stays.
RecordedInPlace(i) == [i EXCEPT !.version = @ + 1]
recordFiring(i) == [i EXCEPT !.next = now + Interval, !.version = @ + 1]

\* Wrong variant: the window is kept while the trigger is disabled.
EnabledInPlace(i) == [i EXCEPT !.on = TRUE, !.version = @ + 1]
enable(i) == [i EXCEPT !.on = TRUE, !.next = now + Interval, !.version = @ + 1]

disable(i) == [i EXCEPT !.on = FALSE, !.version = @ + 1]

--------------------------------------------------------------------------------
(* How a call moves.                                                           *)

Goes(c, r) == call' = [call EXCEPT ![c] = r]
At(c, pc) == call[c].pc = pc
Ends(c) == Goes(c, Idle)

\* The window a tick is firing; a fire on demand has none.
WindowOf(c) == IF c \in Runtimes THEN {<<call[c].trig, call[c].copy[call[c].trig].next>>} ELSE {}
Noted(f, c) == IF c \in Runtimes THEN [f EXCEPT ![c] = @ \union WindowOf(c)] ELSE f

MayRefuse == refusals < MaxRefusals /\ refusals' = refusals + 1 /\ UNCHANGED <<requests, crashes>>

--------------------------------------------------------------------------------
(* onSchedulerTick                                                             *)

\* isProcessingTick: an instance has one tick at a time.
Tick(r) ==
  /\ At(r, "idle")
  /\ Goes(r, [Idle EXCEPT !.pc = "listing", !.op = "tick", !.at = now])
  /\ UNCHANGED <<now, row, executed, fired, dropped, recorded, bounds>>

\* The state is not RUNNING, or its row has moved: nothing is listed.
HeartbeatConflict(r) ==
  /\ At(r, "listing")
  /\ Ends(r) /\ MayRefuse
  /\ UNCHANGED <<now, row, executed, fired, dropped, recorded>>

\* listActive(): the enabled triggers, of which those that are due count.
List(r) ==
  LET due == {t \in Triggers : row[t].on /\ row[t].next <= call[r].at} IN
  /\ At(r, "listing")
  /\ Goes(r, [call[r] EXCEPT !.pc = "list", !.todo = due,
                !.copy = [t \in Triggers |-> IF t \in due THEN row[t] ELSE NoRow]])
  /\ UNCHANGED <<now, row, executed, fired, dropped, recorded, bounds>>

Marked(r, t) == <<t, call[r].copy[t].next>> \in executed[r]

Skip(r, t) ==
  /\ At(r, "list") /\ t \in call[r].todo /\ Marked(r, t)
  /\ Goes(r, [call[r] EXCEPT !.todo = @ \ {t}])
  /\ UNCHANGED <<now, row, executed, fired, dropped, recorded, bounds>>

\* Wrong variant: the window is not marked.
ClaimUnmarked(r, t) ==
  /\ At(r, "list") /\ t \in call[r].todo /\ ~Marked(r, t)
  /\ Goes(r, [call[r] EXCEPT !.pc = "start", !.trig = t, !.todo = @ \ {t}])
  /\ UNCHANGED <<now, row, executed, fired, dropped, recorded, bounds>>

\* The state allows it and the lease is acquired: the window is marked, before
\* anything is known of the cycle.
Claim(r, t) ==
  /\ At(r, "list") /\ t \in call[r].todo /\ ~Marked(r, t)
  /\ executed' = [executed EXCEPT ![r] = @ \union {<<t, call[r].copy[t].next>>}]
  /\ Goes(r, [call[r] EXCEPT !.pc = "start", !.trig = t, !.todo = @ \ {t}])
  /\ UNCHANGED <<now, row, fired, dropped, recorded, bounds>>

\* The error ends the tick, the rest of the list included.
ClaimRefused(r, t) ==
  /\ At(r, "list") /\ t \in call[r].todo /\ ~Marked(r, t)
  /\ Ends(r) /\ MayRefuse
  /\ UNCHANGED <<now, row, executed, fired, dropped, recorded>>

ListDone(r) ==
  /\ At(r, "list") /\ call[r].todo = {}
  /\ Ends(r)
  /\ UNCHANGED <<now, row, executed, fired, dropped, recorded, bounds>>

--------------------------------------------------------------------------------
(* fireTrigger, after the claim.                                               *)

\* registerCycleStarted() finds the runtime stopped, or loses the state row.
StartConflict(c) ==
  /\ At(c, "start")
  /\ dropped' = Noted(dropped, c)
  /\ Ends(c)
  /\ UNCHANGED <<now, row, executed, fired, recorded, bounds>>

Dispatch(c) ==
  /\ At(c, "start")
  /\ fired' = Noted(fired, c)
  /\ Goes(c, [call[c] EXCEPT !.pc = "cycle"])
  /\ UNCHANGED <<now, row, executed, dropped, recorded, bounds>>

CycleThrows(c) ==
  /\ At(c, "cycle")
  /\ dropped' = Noted(dropped, c)
  /\ Ends(c)
  /\ UNCHANGED <<now, row, executed, fired, recorded, bounds>>

\* The call is about to save i: save() looks up the stored version.
Saves(c, i) ==
  /\ Goes(c, [call[c] EXCEPT !.pc = "write", !.new = i, !.seen = row[call[c].trig].version])
  /\ UNCHANGED <<now, row, executed, fired, dropped, recorded, bounds>>

CycleResolves(c) ==
  /\ At(c, "cycle")
  /\ Saves(c, recordFiring(call[c].copy[call[c].trig]))

Conflict(c) == call[c].seen >= call[c].new.version

WriteRow(c) ==
  /\ At(c, "write") /\ ~Conflict(c)
  /\ row' = [row EXCEPT ![call[c].trig] = call[c].new]
  /\ recorded' = recorded \union WindowOf(c)
  /\ IF call[c].op \in {"tick", "fire"} THEN Goes(c, [call[c] EXCEPT !.pc = "settle"]) ELSE Ends(c)
  /\ UNCHANGED <<now, executed, fired, dropped, bounds>>

\* A cycle that ran is counted as a failure.
WriteConflict(c) ==
  /\ At(c, "write") /\ Conflict(c)
  /\ dropped' = Noted(dropped, c)
  /\ Ends(c)
  /\ UNCHANGED <<now, row, executed, fired, recorded, bounds>>

\* registerCycleSuccess() is saved and the lease released.
Settle(c) ==
  /\ At(c, "settle")
  /\ IF c \in Runtimes THEN Goes(c, [call[c] EXCEPT !.pc = "list"]) ELSE Ends(c)
  /\ UNCHANGED <<now, row, executed, fired, dropped, recorded, bounds>>

SettleConflict(c) ==
  /\ At(c, "settle")
  /\ Ends(c)
  /\ UNCHANGED <<now, row, executed, fired, dropped, recorded, bounds>>

--------------------------------------------------------------------------------
(* Operators.                                                                  *)

\* The row is read; a fire on demand asks for neither its status nor its window.
Request(o, op, t) ==
  /\ At(o, "idle") /\ requests < MaxRequests
  /\ Goes(o, [Idle EXCEPT !.pc = IF op = "fire" THEN "start" ELSE "change", !.op = op, !.trig = t,
                          !.copy = [u \in Triggers |-> IF u = t THEN row[t] ELSE NoRow]])
  /\ requests' = requests + 1
  /\ UNCHANGED <<now, row, executed, fired, dropped, recorded, refusals, crashes>>

Change(o) ==
  LET i == call[o].copy[call[o].trig] IN
  /\ At(o, "change")
  /\ Saves(o, IF call[o].op = "enable" THEN enable(i) ELSE disable(i))

--------------------------------------------------------------------------------
Clock ==
  /\ now < MaxTime /\ \A c \in Callers : ~At(c, "write")
  /\ now' = now + 1
  /\ UNCHANGED <<row, executed, call, fired, dropped, recorded, bounds>>

\* An instance dies, and the requests it was serving with it; it is started again.
Restart(r) ==
  /\ crashes < MaxCrashes /\ crashes' = crashes + 1
  /\ executed' = [executed EXCEPT ![r] = {}]
  /\ fired' = [fired EXCEPT ![r] = {}] /\ dropped' = [dropped EXCEPT ![r] = {}]
  /\ \E dead \in SUBSET Operators :
       call' = [c \in Callers |-> IF c \in {r} \union dead THEN Idle ELSE call[c]]
  /\ UNCHANGED <<now, row, recorded, requests, refusals>>

FireStep(c) ==
  \/ StartConflict(c) \/ Dispatch(c) \/ CycleThrows(c) \/ CycleResolves(c)
  \/ WriteRow(c) \/ WriteConflict(c) \/ Settle(c) \/ SettleConflict(c)

TickStep(r) ==
  \/ Tick(r) \/ HeartbeatConflict(r) \/ List(r) \/ ListDone(r) \/ FireStep(r)
  \/ \E t \in Triggers : Skip(r, t) \/ Claim(r, t) \/ ClaimRefused(r, t)

RequestStep(o) ==
  \/ \E t \in Triggers, op \in {"fire", "enable", "disable"} : Request(o, op, t)
  \/ Change(o) \/ FireStep(o)

Next ==
  \/ \E r \in Runtimes : TickStep(r) \/ Restart(r)
  \/ \E o \in Operators : RequestStep(o)
  \/ Clock

Spec == Init /\ [][Next]_vars

\* The timer of an instance keeps ticking, and what a tick awaits settles.
FairSpec == Spec /\ \A r \in Runtimes : WF_vars(TickStep(r))

--------------------------------------------------------------------------------
(* Properties                                                                  *)

\* Every variable keeps its shape.
TypeOK ==
  /\ now \in Nat
  /\ row \in [Triggers -> Row]
  /\ executed \in [Runtimes -> SUBSET Window]
  /\ call \in [Callers -> Call]
  /\ fired \in [Runtimes -> SUBSET Window] /\ dropped \in [Runtimes -> SUBSET Window]
  /\ recorded \subseteq Window
  /\ requests \in Nat /\ refusals \in Nat /\ crashes \in Nat

\* An instance dispatches at most one cycle for a window, whatever fails, conflicts or
\* is fired on demand in between.
OncePerWindow ==
  [][\A r \in Runtimes :
       At(r, "start") /\ call'[r].pc = "cycle" => WindowOf(r) \intersect fired[r] = {}]_vars

\* An instance will never fire the present window of an enabled trigger only if it is
\* firing it now or its firing has failed: a cycle that threw, or a row that moved.
\* Such a window waits for an operator or for another instance.
SkippedOnlyByFailure ==
  \A r \in Runtimes, t \in Triggers :
    LET w == <<t, row[t].next>> IN
    row[t].on /\ w \in executed[r] =>
      \/ w \in dropped[r]
      \/ call[r].pc \in {"start", "cycle", "write"} /\ w \in WindowOf(r)

\* A window whose firing is recorded is never listed again by any instance: not by a
\* row that a stale save has put back, and not when that row is enabled again.
RecordedStaysClosed ==
  \A t \in Triggers : row[t].on => <<t, row[t].next>> \notin recorded

\* A trigger that fails each time does not keep the scheduler from the others: the
\* window of an enabled trigger that is due is taken up or replaced.
NoWindowStarves ==
  \A t \in Triggers, w \in 1..MaxTime :
    row[t].on /\ row[t].next = w /\ w <= now ~>
      \/ \E r \in Runtimes : <<t, w>> \in executed[r]
      \/ row[t].next # w \/ ~row[t].on
================================================================================
