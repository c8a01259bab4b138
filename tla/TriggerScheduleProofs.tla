-------------------------- MODULE TriggerScheduleProofs --------------------------
(***************************************************************************)
(* What is proved of TriggerSchedule, for any number of instances,         *)
(* requests, triggers, refusals and crashes.  The inductive invariant says *)
(* of every instance what its tick carries from one await to the next:     *)
(* the window it is firing has come and is marked, and was not dispatched  *)
(* before; and of every call that is about to save a row, that the row it  *)
(* saves is disabled or has its next window in the future.  No marked and  *)
(* no recorded window is in the future, so no save can bring one back.     *)
(***************************************************************************)
EXTENDS TriggerSchedule, FiniteSetTheorems, TLAPS

Firing == {"start", "cycle", "write"}

Win(k) == <<k.trig, k.copy[k.trig].next>>

\* What a tick k carries, with e and f marked and dispatched by its instance at time n.
TickOK(k, e, f, n) ==
  /\ k.pc # "change" /\ k.at <= n
  /\ \A t \in k.todo : k.copy[t].next <= n
  /\ k.pc \in Firing => k.copy[k.trig].next <= n /\ Win(k) \in e
  /\ k.pc = "start" => Win(k) \notin f

\* What call k is about to save at time n.
WriteOK(k, n) == k.pc = "write" => k.new.next = n + Interval \/ ~k.new.on

\* SkippedOnlyByFailure for one instance.
SkipOK(k, e, d, rows) ==
  \A t \in Triggers :
    rows[t].on /\ <<t, rows[t].next>> \in e =>
      <<t, rows[t].next>> \in d \/ (k.pc \in Firing /\ <<t, rows[t].next>> = Win(k))

Past(W, n) == \A w \in W : w[2] <= n

Inv ==
  /\ TypeOK
  /\ \A r \in Runtimes :
       /\ Past(executed[r], now) /\ fired[r] \subseteq executed[r]
       /\ TickOK(call[r], executed[r], fired[r], now)
       /\ SkipOK(call[r], executed[r], dropped[r], row)
  /\ \A c \in Callers : WriteOK(call[c], now)
  /\ Past(recorded, now)
  /\ RecordedStaysClosed

--------------------------------------------------------------------------------
(* Calls.                                                                      *)

\* Between two calls there is a call.
LEMMA IdleIsCall == Idle \in Call
<1>1. (CHOOSE t \in Triggers : TRUE) \in Triggers
  BY ScheduleAssumption
<1>2. NoRow \in Row
  BY DEF NoRow, Row
<1> QED BY <1>1, <1>2 DEF Idle, Call

\* The window of a tick is its Win; a request has none.
LEMMA WindowIsWin ==
  /\ \A r \in Runtimes : WindowOf(r) = {Win(call[r])}
  /\ \A o \in Operators : WindowOf(o) = {}
BY ScheduleAssumption DEF WindowOf, Win

\* The invariant holds of calls that are idle, whatever is marked.
LEMMA IdleOK ==
  ASSUME NEW n \in Nat, NEW e, NEW f
  PROVE  TickOK(Idle, e, f, n) /\ WriteOK(Idle, n)
BY DEF TickOK, WriteOK, Idle, Firing

\* One call moves; the others stay where they are.
LEMMA CallMoves ==
  ASSUME TypeOK, NEW c \in Callers, NEW k \in Call, Goes(c, k)
  PROVE  /\ call' \in [Callers -> Call]
         /\ call'[c] = k
         /\ \A b \in Callers \ {c} : call'[b] = call[b]
BY DEF TypeOK, Goes

\* A call moves to k and touches no row and no mark, though it may drop its window.
LEMMA MoveInv ==
  ASSUME Inv, NEW c \in Callers, NEW k \in Call, Goes(c, k),
         UNCHANGED <<now, row, executed, fired, recorded>>,
         requests' \in Nat, refusals' \in Nat, crashes' \in Nat,
         dropped' \in [Runtimes -> SUBSET Window],
         \A r \in Runtimes \ {c} : dropped'[r] = dropped[r],
         c \in Runtimes => /\ TickOK(k, executed[c], fired[c], now)
                           /\ SkipOK(k, executed[c], dropped'[c], row),
         WriteOK(k, now)
  PROVE  Inv'
<1>1. TypeOK'
  BY CallMoves DEF Inv, TypeOK
<1>2. ASSUME NEW r \in Runtimes
      PROVE  /\ TickOK(call'[r], executed[r], fired[r], now)
             /\ SkipOK(call'[r], executed[r], dropped'[r], row)
  <2>1. CASE r = c BY <2>1, CallMoves DEF Inv
  <2>2. CASE r # c
    <3>1. call'[r] = call[r] /\ dropped'[r] = dropped[r]
      BY <2>2, CallMoves DEF Inv, Callers
    <3> QED BY <3>1 DEF Inv
  <2> QED BY <2>1, <2>2
<1>3. ASSUME NEW b \in Callers PROVE WriteOK(call'[b], now)
  <2>1. CASE b = c BY <2>1, CallMoves DEF Inv
  <2>2. CASE b # c BY <2>2, CallMoves DEF Inv
  <2> QED BY <2>1, <2>2
<1> QED BY <1>1, <1>2, <1>3 DEF Inv, RecordedStaysClosed

\* A call ends without having touched anything; an instance had no window in hand, or
\* has dropped it.
LEMMA EndInv ==
  ASSUME Inv, NEW c \in Callers, Ends(c),
         UNCHANGED <<now, row, executed, fired, recorded>>,
         requests' \in Nat, refusals' \in Nat, crashes' \in Nat,
         \/ dropped' = Noted(dropped, c)
         \/ dropped' = dropped /\ call[c].pc \notin Firing
  PROVE  Inv'
<1>1. Goes(c, Idle) BY DEF Ends
<1>2. dropped' \in [Runtimes -> SUBSET Window]
      /\ \A r \in Runtimes \ {c} : dropped'[r] = dropped[r]
  <2>1. c \in Runtimes => WindowOf(c) \subseteq Window
    BY WindowIsWin DEF Inv, TypeOK, Win, Window, Call, Callers, Row
  <2> QED BY <2>1 DEF Noted, Inv, TypeOK
<1>3. ASSUME c \in Runtimes PROVE SkipOK(Idle, executed[c], dropped'[c], row)
  <2>1. CASE dropped' = Noted(dropped, c)
    <3>1. dropped'[c] = dropped[c] \union {Win(call[c])}
      BY <1>3, <2>1, WindowIsWin DEF Noted, Inv, TypeOK
    <3>2. SkipOK(call[c], executed[c], dropped[c], row) BY <1>3 DEF Inv
    <3> QED BY <3>1, <3>2 DEF SkipOK
  <2>2. CASE dropped' = dropped /\ call[c].pc \notin Firing
    BY <1>3, <2>2 DEF Inv, SkipOK
  <2> QED BY <2>1, <2>2
<1>4. now \in Nat BY DEF Inv, TypeOK
<1> QED BY <1>1, <1>2, <1>3, <1>4, IdleIsCall, IdleOK, MoveInv

--------------------------------------------------------------------------------
(* The invariant is inductive.                                                 *)

\* Nothing is marked, and no row has reached its window.
LEMMA InvInit == Init => Inv
<1> SUFFICES ASSUME Init PROVE Inv
  OBVIOUS
<1>1. TypeOK
  <2>1. Created \in Row BY ScheduleAssumption DEF Created, Row
  <2> QED BY <2>1, IdleIsCall DEF Init, TypeOK
<1>2. \A c \in Callers : call[c] = Idle BY DEF Init
<1>3. now = 0 /\ 0 \in Nat BY DEF Init
<1>4. \A r \in Runtimes : r \in Callers /\ executed[r] = {} /\ fired[r] = {} BY DEF Init, Callers
<1> QED BY <1>1, <1>2, <1>3, <1>4, IdleOK DEF Inv, Init, Past, SkipOK, RecordedStaysClosed

\* An instance begins a tick, lists the rows, passes over marked windows, and ends.
LEMMA ListingInv ==
  ASSUME Inv, NEW r \in Runtimes,
         \/ Tick(r) \/ HeartbeatConflict(r) \/ List(r) \/ ListDone(r)
         \/ \E t \in Triggers : Skip(r, t) \/ ClaimRefused(r, t)
  PROVE  Inv'
<1>0. /\ r \in Callers /\ call[r] \in Call /\ now \in Nat /\ row \in [Triggers -> Row]
      /\ dropped \in [Runtimes -> SUBSET Window]
      /\ requests \in Nat /\ refusals \in Nat /\ crashes \in Nat
      /\ TickOK(call[r], executed[r], fired[r], now)
      /\ SkipOK(call[r], executed[r], dropped[r], row)
  BY DEF Inv, TypeOK, Callers
<1>1. CASE Tick(r)
  <2> DEFINE k == [Idle EXCEPT !.pc = "listing", !.op = "tick", !.at = now]
  <2>1. k \in Call /\ k.pc = "listing" /\ k.at = now /\ k.todo = {}
    BY <1>0, IdleIsCall DEF Call, Idle
  <2>2. TickOK(k, executed[r], fired[r], now) /\ WriteOK(k, now)
    BY <1>0, <2>1 DEF TickOK, WriteOK, Firing
  <2>3. SkipOK(k, executed[r], dropped[r], row)
    BY <1>0, <1>1 DEF SkipOK, Tick, At, Firing
  <2>4. Goes(r, k) BY <1>1 DEF Tick
  <2> HIDE DEF k
  <2> QED BY <1>0, <1>1, <2>1, <2>2, <2>3, <2>4, MoveInv DEF Tick, bounds
<1>2. CASE HeartbeatConflict(r)
  BY <1>0, <1>2, EndInv DEF HeartbeatConflict, At, Firing, MayRefuse
<1>3. CASE List(r)
  <2> DEFINE due == {t \in Triggers : row[t].on /\ row[t].next <= call[r].at}
             cp == [t \in Triggers |-> IF t \in due THEN row[t] ELSE NoRow]
             k == [call[r] EXCEPT !.pc = "list", !.todo = due, !.copy = cp]
  <2>0. cp \in [Triggers -> Row] /\ \A t \in due : cp[t] = row[t]
    BY <1>0 DEF NoRow, Row
  <2>1. due \subseteq Triggers /\ \A t \in due : row[t].next <= call[r].at
    OBVIOUS
  <2> HIDE DEF cp, due
  <2>2. k \in Call /\ k.pc = "list" /\ k.at = call[r].at /\ k.todo = due /\ k.copy = cp
    BY <1>0, <2>0, <2>1 DEF Call
  <2>3. Goes(r, k) BY <1>3 DEF List, due, cp
  <2> HIDE DEF k
  <2>4. \A t \in due : row[t].next \in Nat
    BY <1>0, <2>1 DEF Row
  <2>5. \A t \in k.todo : k.copy[t].next <= now
    BY <1>0, <2>0, <2>1, <2>2, <2>4 DEF TickOK, Call
  <2>6. TickOK(k, executed[r], fired[r], now) /\ WriteOK(k, now)
    BY <1>0, <2>2, <2>5 DEF TickOK, WriteOK, Firing
  <2>7. SkipOK(k, executed[r], dropped[r], row)
    BY <1>0, <1>3 DEF SkipOK, List, At, Firing
  <2> QED BY <1>0, <1>3, <2>2, <2>3, <2>6, <2>7, MoveInv DEF List, bounds
<1>4. CASE ListDone(r)
  BY <1>0, <1>4, EndInv DEF ListDone, At, Firing, bounds
<1>5. ASSUME NEW t \in Triggers, Skip(r, t) PROVE Inv'
  <2> DEFINE k == [call[r] EXCEPT !.todo = @ \ {t}]
  <2>1. k \in Call /\ k.pc = "list" /\ k.at = call[r].at /\ k.todo \subseteq call[r].todo
        /\ k.copy = call[r].copy
    BY <1>0, <1>5 DEF Call, Skip, At
  <2>2. Goes(r, k) BY <1>5 DEF Skip
  <2> HIDE DEF k
  <2>3. TickOK(k, executed[r], fired[r], now) /\ WriteOK(k, now)
    BY <1>0, <2>1 DEF TickOK, WriteOK, Firing
  <2>4. SkipOK(k, executed[r], dropped[r], row)
    BY <1>0, <1>5 DEF SkipOK, Skip, At, Firing
  <2> QED BY <1>0, <1>5, <2>1, <2>2, <2>3, <2>4, MoveInv DEF Skip, bounds
<1>6. ASSUME NEW t \in Triggers, ClaimRefused(r, t) PROVE Inv'
  BY <1>0, <1>6, EndInv DEF ClaimRefused, At, Firing, MayRefuse
<1> QED BY <1>1, <1>2, <1>3, <1>4, <1>5, <1>6

\* The window is marked for the first time, so it was never dispatched.
LEMMA ClaimInv ==
  ASSUME Inv, NEW r \in Runtimes, NEW t \in Triggers, Claim(r, t)
  PROVE  Inv'
<1> DEFINE k == [call[r] EXCEPT !.pc = "start", !.trig = t, !.todo = @ \ {t}]
           w == <<t, call[r].copy[t].next>>
<1>0. /\ r \in Callers /\ call[r] \in Call /\ now \in Nat
      /\ TickOK(call[r], executed[r], fired[r], now)
      /\ SkipOK(call[r], executed[r], dropped[r], row)
      /\ executed \in [Runtimes -> SUBSET Window] /\ Past(executed[r], now)
      /\ fired[r] \subseteq executed[r]
  BY DEF Inv, TypeOK, Callers
<1>1. /\ k \in Call /\ k.pc = "start" /\ k.at = call[r].at /\ k.todo \subseteq call[r].todo
      /\ k.copy = call[r].copy /\ k.trig = t
  BY <1>0 DEF Call
<1>2. Goes(r, k) /\ call[r].pc = "list" /\ t \in call[r].todo /\ w \notin executed[r]
      /\ UNCHANGED <<now, row, fired, dropped, recorded, bounds>>
      /\ executed' = [executed EXCEPT ![r] = @ \union {w}]
  BY DEF Claim, At, Marked
<1> HIDE DEF k
<1>3. w \in Window /\ w[2] <= now /\ w = Win(k)
  BY <1>0, <1>1, <1>2 DEF Window, Call, Row, TickOK, Win
<1> HIDE DEF w
<1>4. executed'[r] = executed[r] \union {w} /\ executed' \in [Runtimes -> SUBSET Window]
      /\ \A q \in Runtimes \ {r} : executed'[q] = executed[q]
  BY <1>0, <1>2, <1>3
<1>5. TypeOK'
  BY <1>0, <1>1, <1>2, <1>4, CallMoves DEF Inv, TypeOK, bounds
<1>6. Past(executed'[r], now) /\ fired[r] \subseteq executed'[r]
  BY <1>0, <1>3, <1>4 DEF Past
<1>7. TickOK(k, executed'[r], fired[r], now)
  <2>1. k.copy[k.trig].next <= now BY <1>1, <1>2, <1>0 DEF TickOK
  <2> QED BY <1>0, <1>1, <1>2, <1>3, <1>4, <2>1 DEF TickOK
<1>8. SkipOK(k, executed'[r], dropped[r], row)
  BY <1>0, <1>1, <1>2, <1>3, <1>4 DEF SkipOK, Firing
<1>9. call'[r] = k /\ \A b \in Callers \ {r} : call'[b] = call[b]
  BY <1>0, <1>1, <1>2, CallMoves DEF Inv
<1>10. \A q \in Runtimes :
         /\ Past(executed'[q], now) /\ fired[q] \subseteq executed'[q]
         /\ TickOK(call'[q], executed'[q], fired[q], now)
         /\ SkipOK(call'[q], executed'[q], dropped[q], row)
  BY <1>4, <1>6, <1>7, <1>8, <1>9 DEF Inv, Callers
<1>11. \A b \in Callers : WriteOK(call'[b], now)
  BY <1>1, <1>9 DEF Inv, WriteOK
<1> QED BY <1>2, <1>5, <1>10, <1>11 DEF Inv, RecordedStaysClosed

\* What a call that fires a trigger or changes a row has in hand.
LEMMA InHand ==
  ASSUME Inv, NEW c \in Callers
  PROVE  /\ call[c] \in Call /\ now \in Nat /\ row \in [Triggers -> Row]
         /\ requests \in Nat /\ refusals \in Nat /\ crashes \in Nat
         /\ dropped \in [Runtimes -> SUBSET Window]
         /\ c \in Runtimes => /\ TickOK(call[c], executed[c], fired[c], now)
                              /\ SkipOK(call[c], executed[c], dropped[c], row)
BY DEF Inv, TypeOK

\* The row a firing or an operator is about to save: disabled, or next in the future.
LEMMA NewRows ==
  ASSUME Inv, NEW i \in Row
  PROVE  /\ recordFiring(i) \in Row /\ recordFiring(i).next = now + Interval
         /\ enable(i) \in Row /\ enable(i).next = now + Interval
         /\ disable(i) \in Row /\ ~disable(i).on
<1>1. now \in Nat /\ Interval \in Nat BY ScheduleAssumption DEF Inv, TypeOK
<1>2. now + Interval \in Nat /\ i.version + 1 \in Nat BY <1>1 DEF Row
<1>3. recordFiring(i) \in Row /\ recordFiring(i).next = now + Interval
  BY <1>2 DEF recordFiring, Row
<1>4. enable(i) \in Row /\ enable(i).next = now + Interval
  BY <1>2 DEF enable, Row
<1>5. disable(i) \in Row /\ ~disable(i).on
  BY <1>2 DEF disable, Row
<1> QED BY <1>3, <1>4, <1>5

\* save() has found the stored version, and will write i.
LEMMA SavesInv ==
  ASSUME Inv, NEW c \in Callers, NEW i \in Row, Saves(c, i),
         i.next = now + Interval \/ ~i.on,
         c \in Runtimes => call[c].pc \in Firing
  PROVE  Inv'
<1> DEFINE k == [call[c] EXCEPT !.pc = "write", !.new = i, !.seen = row[call[c].trig].version]
<1>0. row[call[c].trig].version \in Nat
  BY InHand DEF Call, Row
<1>1. /\ k \in Call /\ k.pc = "write" /\ k.new = i /\ k.at = call[c].at /\ k.todo = call[c].todo
      /\ k.copy = call[c].copy /\ k.trig = call[c].trig
  BY <1>0, InHand DEF Call
<1>2. Goes(c, k) BY DEF Saves
<1> HIDE DEF k
<1>3. WriteOK(k, now) BY <1>1 DEF WriteOK
<1>4. Win(k) = Win(call[c]) BY <1>1 DEF Win
<1>5. c \in Runtimes => TickOK(k, executed[c], fired[c], now)
  BY <1>1, <1>4, InHand DEF TickOK, Firing
<1>6. c \in Runtimes => SkipOK(k, executed[c], dropped[c], row)
  BY <1>1, <1>4, InHand DEF SkipOK, Firing
<1> QED BY <1>1, <1>2, <1>3, <1>5, <1>6, InHand, MoveInv DEF Saves, bounds

\* A cycle begins: its window is marked, and is now dispatched.
LEMMA DispatchInv ==
  ASSUME Inv, NEW c \in Callers, Dispatch(c)
  PROVE  Inv'
<1> DEFINE k == [call[c] EXCEPT !.pc = "cycle"]
<1>1. /\ k \in Call /\ k.pc = "cycle" /\ k.at = call[c].at /\ k.todo = call[c].todo
      /\ k.copy = call[c].copy /\ k.trig = call[c].trig
  BY InHand DEF Call
<1>2. Goes(c, k) /\ call[c].pc = "start" /\ fired' = Noted(fired, c)
      /\ UNCHANGED <<now, row, executed, dropped, recorded, bounds>>
  BY DEF Dispatch, At
<1> HIDE DEF k
<1>3. Win(k) = Win(call[c]) BY <1>1 DEF Win
<1>4. c \in Runtimes => Win(call[c]) \in executed[c]
  BY <1>2, InHand DEF TickOK, Firing
<1>5. /\ fired' \in [Runtimes -> SUBSET Window]
      /\ \A r \in Runtimes : fired'[r] \subseteq executed[r]
      /\ \A r \in Runtimes \ {c} : fired'[r] = fired[r]
  <2>1. c \in Runtimes => fired' = [fired EXCEPT ![c] = @ \union {Win(call[c])}]
    BY <1>2, WindowIsWin DEF Noted
  <2>2. c \notin Runtimes => fired' = fired
    BY <1>2 DEF Noted
  <2>3. /\ executed \in [Runtimes -> SUBSET Window] /\ fired \in [Runtimes -> SUBSET Window]
        /\ \A r \in Runtimes : fired[r] \subseteq executed[r]
    BY DEF Inv, TypeOK
  <2> QED BY <1>4, <2>1, <2>2, <2>3
<1>6. call'[c] = k /\ \A b \in Callers \ {c} : call'[b] = call[b]
  BY <1>1, <1>2, CallMoves DEF Inv
<1>7. TypeOK'
  BY <1>1, <1>2, <1>5, CallMoves DEF Inv, TypeOK, bounds
<1>8. c \in Runtimes => TickOK(k, executed[c], fired'[c], now) /\ SkipOK(k, executed[c], dropped[c], row)
  <2>1. c \in Runtimes => TickOK(k, executed[c], fired'[c], now)
    BY <1>1, <1>2, <1>3, InHand DEF TickOK, Firing
  <2>2. c \in Runtimes => SkipOK(k, executed[c], dropped[c], row)
    BY <1>1, <1>2, <1>3, InHand DEF SkipOK, Firing
  <2> QED BY <2>1, <2>2
<1>9. \A r \in Runtimes :
        /\ Past(executed[r], now) /\ fired'[r] \subseteq executed[r]
        /\ TickOK(call'[r], executed[r], fired'[r], now)
        /\ SkipOK(call'[r], executed[r], dropped[r], row)
  BY <1>5, <1>6, <1>8 DEF Inv, Callers
<1>10. \A b \in Callers : WriteOK(call'[b], now)
  BY <1>1, <1>6 DEF Inv, WriteOK
<1> QED BY <1>2, <1>7, <1>9, <1>10 DEF Inv, RecordedStaysClosed

\* A row is written: its next window is in the future, or it is disabled, so no marked
\* and no recorded window, the one now recorded included, is a window of it.
LEMMA WriteRowInv ==
  ASSUME Inv, NEW c \in Callers, WriteRow(c)
  PROVE  Inv'
<1> DEFINE t0 == call[c].trig
           new == call[c].new
           k == IF call[c].op \in {"tick", "fire"} THEN [call[c] EXCEPT !.pc = "settle"] ELSE Idle
<1>0. new \in Row /\ t0 \in Triggers /\ now \in Nat /\ new.next \in Nat /\ Interval \in Nat \ {0}
  BY InHand, ScheduleAssumption DEF Call, Row
<1>1. /\ k \in Call /\ k.pc \in {"settle", "idle"} /\ k.at \in {call[c].at, 0}
      /\ k.todo \subseteq call[c].todo /\ (k.copy = call[c].copy \/ k.todo = {})
  <2>1. CASE call[c].op \in {"tick", "fire"} BY <2>1, InHand DEF Call
  <2>2. CASE call[c].op \notin {"tick", "fire"} BY <2>2, IdleIsCall DEF Idle
  <2> QED BY <2>1, <2>2
<1>2. /\ Goes(c, k) /\ call[c].pc = "write"
      /\ row' = [row EXCEPT ![t0] = new] /\ recorded' = recorded \union WindowOf(c)
      /\ UNCHANGED <<now, executed, fired, dropped, bounds>>
  BY DEF WriteRow, At, Ends
<1> HIDE DEF k
<1>3. ~new.on \/ new.next = now + Interval
  BY <1>2 DEF Inv, WriteOK
<1> HIDE DEF new
<1>4. /\ row' \in [Triggers -> Row] /\ row'[t0] = new
      /\ \A t \in Triggers \ {t0} : row'[t] = row[t]
  BY <1>0, <1>2, InHand
<1>5. \A w \in WindowOf(c) : w \in Window /\ w[1] = t0 /\ w[2] <= now
  <2>1. CASE c \in Runtimes
    <3>1. call[c].copy[t0].next <= now /\ call[c].copy[t0].next \in Nat
      BY <1>0, <1>2, <2>1, InHand DEF TickOK, Firing, Call, Row
    <3> QED BY <1>0, <2>1, <3>1, WindowIsWin DEF Win, Window
  <2>2. CASE c \notin Runtimes BY <2>2 DEF WindowOf
  <2> QED BY <2>1, <2>2
<1> HIDE DEF t0
<1>6. Past(recorded', now) /\ recorded' \subseteq Window
  BY <1>2, <1>5 DEF Inv, TypeOK, Past
<1>7. ASSUME NEW t \in Triggers, row'[t].on PROVE <<t, row'[t].next>> \notin recorded'
  <2>1. CASE t = t0
    <3>1. row'[t].next > now BY <1>0, <1>3, <1>4, <1>7, <2>1
    <3>2. row'[t].next \in Nat BY <1>0, <1>4, <2>1
    <3> QED BY <1>0, <1>6, <3>1, <3>2 DEF Past
  <2>2. CASE t # t0
    BY <1>2, <1>4, <1>5, <1>7, <2>2 DEF Inv, RecordedStaysClosed
  <2> QED BY <2>1, <2>2
<1>8. call'[c] = k /\ \A b \in Callers \ {c} : call'[b] = call[b]
  BY <1>1, <1>2, CallMoves DEF Inv
<1>9. ASSUME NEW r \in Runtimes, NEW t \in Triggers, row'[t].on, <<t, row'[t].next>> \in executed[r]
      PROVE  /\ row'[t] = row[t] /\ t # t0
  <2>1. row'[t].next <= now BY <1>9 DEF Inv, Past
  <2>2. t # t0 BY <1>0, <1>3, <1>4, <1>9, <2>1
  <2> QED BY <1>4, <2>2
<1>10. ASSUME NEW r \in Runtimes PROVE SkipOK(call'[r], executed[r], dropped[r], row')
  <2>1. CASE r # c
    <3>1. call'[r] = call[r] BY <1>8, <2>1 DEF Callers
    <3> QED BY <1>9, <3>1 DEF Inv, SkipOK
  <2>2. CASE r = c
    <3>1. \A t \in Triggers : t # t0 => <<t, row[t].next>> # Win(call[c])
      BY DEF Win, t0
    <3>2. SkipOK(call[c], executed[c], dropped[c], row) BY <2>2, InHand
    <3> QED BY <1>9, <2>2, <3>1, <3>2 DEF SkipOK
  <2> QED BY <2>1, <2>2
<1>11. ASSUME NEW r \in Runtimes PROVE TickOK(call'[r], executed[r], fired[r], now)
  <2>1. CASE r # c
    BY <1>8, <2>1 DEF Inv, Callers
  <2>2. CASE r = c
    <3>1. TickOK(call[c], executed[c], fired[c], now) BY <2>2, InHand
    <3> QED BY <1>0, <1>1, <1>8, <2>2, <3>1 DEF TickOK, Firing
  <2> QED BY <2>1, <2>2
<1>12. TypeOK'
  BY <1>1, <1>2, <1>4, <1>6, CallMoves DEF Inv, TypeOK, bounds
<1>13. \A b \in Callers : WriteOK(call'[b], now)
  BY <1>1, <1>8 DEF Inv, WriteOK
<1>14. RecordedStaysClosed' BY <1>7 DEF RecordedStaysClosed
<1> QED BY <1>2, <1>6, <1>10, <1>11, <1>12, <1>13, <1>14 DEF Inv

\* A firing ends or goes on: nothing it does without its row being written is lost,
\* since a window that is given up is dropped.
LEMMA FireInv == ASSUME Inv, NEW c \in Callers, FireStep(c) PROVE Inv'
<1>1. CASE StartConflict(c) \/ CycleThrows(c) \/ WriteConflict(c)
  BY <1>1, InHand, EndInv DEF StartConflict, CycleThrows, WriteConflict, bounds
<1>2. CASE CycleResolves(c)
  <2> DEFINE i == call[c].copy[call[c].trig]
  <2>1. i \in Row BY InHand DEF Call
  <2>2. call[c].pc \in Firing /\ Saves(c, recordFiring(i))
    BY <1>2 DEF CycleResolves, At, Firing
  <2> HIDE DEF i
  <2> QED BY <2>1, <2>2, NewRows, SavesInv
<1>3. CASE Settle(c)
  <2>1. CASE c \in Runtimes
    <3> DEFINE k == [call[c] EXCEPT !.pc = "list"]
    <3>1. /\ k \in Call /\ k.pc = "list" /\ k.at = call[c].at /\ k.todo = call[c].todo
          /\ k.copy = call[c].copy
      BY InHand DEF Call
    <3>2. Goes(c, k) /\ call[c].pc = "settle" BY <1>3, <2>1 DEF Settle, At
    <3> HIDE DEF k
    <3>3. TickOK(k, executed[c], fired[c], now) /\ WriteOK(k, now)
      BY <2>1, <3>1, InHand DEF TickOK, WriteOK, Firing
    <3>4. SkipOK(k, executed[c], dropped[c], row)
      BY <2>1, <3>2, InHand DEF SkipOK, Firing
    <3> QED BY <1>3, <3>1, <3>2, <3>3, <3>4, InHand, MoveInv DEF Settle, bounds
  <2>2. CASE c \notin Runtimes
    BY <1>3, <2>2, InHand, EndInv DEF Settle, At, Firing, bounds
  <2> QED BY <2>1, <2>2
<1>4. CASE SettleConflict(c)
  BY <1>4, InHand, EndInv DEF SettleConflict, At, Firing, bounds
<1> QED BY <1>1, <1>2, <1>3, <1>4, DispatchInv, WriteRowInv DEF FireStep

\* A request reads the row; enable and disable go on to save it.
LEMMA OperatorInv ==
  ASSUME Inv, NEW o \in Operators,
         \/ \E t \in Triggers, op \in {"fire", "enable", "disable"} : Request(o, op, t)
         \/ Change(o)
  PROVE  Inv'
<1>0. o \in Callers /\ o \notin Runtimes BY ScheduleAssumption DEF Callers
<1>1. ASSUME NEW t \in Triggers, NEW op \in {"fire", "enable", "disable"}, Request(o, op, t)
      PROVE  Inv'
  <2> DEFINE cp == [u \in Triggers |-> IF u = t THEN row[t] ELSE NoRow]
             k == [Idle EXCEPT !.pc = IF op = "fire" THEN "start" ELSE "change", !.op = op,
                               !.trig = t, !.copy = cp]
  <2>1. cp \in [Triggers -> Row] BY <1>0, InHand DEF NoRow, Row
  <2> HIDE DEF cp
  <2>2. k \in Call /\ k.pc # "write"
    BY <2>1, IdleIsCall DEF Call, Idle
  <2>3. Goes(o, k) BY <1>1 DEF Request, cp
  <2> HIDE DEF k
  <2>4. WriteOK(k, now) BY <2>2 DEF WriteOK
  <2>5. /\ UNCHANGED <<now, row, executed, fired, recorded>> /\ dropped' = dropped
        /\ requests' \in Nat /\ refusals' \in Nat /\ crashes' \in Nat
    <3>1. /\ requests' = requests + 1
          /\ UNCHANGED <<now, row, executed, fired, dropped, recorded, refusals, crashes>>
      BY <1>1 DEF Request
    <3> QED BY <1>0, <3>1, InHand
  <2> QED BY <1>0, <2>2, <2>3, <2>4, <2>5, InHand, MoveInv
<1>2. CASE Change(o)
  <2> DEFINE i == call[o].copy[call[o].trig]
  <2>1. i \in Row BY <1>0, InHand DEF Call
  <2>2. Saves(o, enable(i)) \/ Saves(o, disable(i)) BY <1>2 DEF Change
  <2> HIDE DEF i
  <2> QED BY <1>0, <2>1, <2>2, NewRows, SavesInv
<1> QED BY <1>1, <1>2

\* Time moves, but not while a row is about to be written.
LEMMA ClockInv == ASSUME Inv, Clock PROVE Inv'
<1>1. now \in Nat /\ now' = now + 1 /\ now' \in Nat
      /\ UNCHANGED <<row, executed, call, fired, dropped, recorded, bounds>>
  BY DEF Clock, Inv, TypeOK
<1>2. TypeOK' BY <1>1 DEF Inv, TypeOK, bounds
<1>3. \A c \in Callers : WriteOK(call[c], now') BY DEF Clock, At, WriteOK
<1>4. ASSUME NEW W \in SUBSET Window, Past(W, now) PROVE Past(W, now')
  BY <1>1, <1>4 DEF Past, Window
<1>5. Past(recorded, now') /\ \A r \in Runtimes : Past(executed[r], now')
  BY <1>4 DEF Inv, TypeOK
<1>6. ASSUME NEW r \in Runtimes PROVE TickOK(call[r], executed[r], fired[r], now')
  <2>1. call[r] \in Call /\ TickOK(call[r], executed[r], fired[r], now)
    BY <1>6, InHand DEF Callers
  <2>2. ASSUME NEW t \in Triggers PROVE call[r].copy[t].next \in Nat
    BY <2>1 DEF Call, Row
  <2>3. call[r].todo \subseteq Triggers /\ call[r].trig \in Triggers /\ call[r].at \in Nat
    BY <2>1 DEF Call
  <2> QED BY <1>1, <2>1, <2>2, <2>3 DEF TickOK
<1> QED BY <1>1, <1>2, <1>3, <1>5, <1>6 DEF Inv, RecordedStaysClosed

\* An instance that starts again has forgotten its windows, and has no tick.
LEMMA RestartInv == ASSUME Inv, NEW r \in Runtimes, Restart(r) PROVE Inv'
<1> PICK dead \in SUBSET Operators :
      call' = [c \in Callers |-> IF c \in {r} \union dead THEN Idle ELSE call[c]]
  BY DEF Restart
<1>1. /\ executed' = [executed EXCEPT ![r] = {}]
      /\ fired' = [fired EXCEPT ![r] = {}] /\ dropped' = [dropped EXCEPT ![r] = {}]
      /\ UNCHANGED <<now, row, recorded, requests, refusals>> /\ crashes' = crashes + 1
  BY DEF Restart
<1>2. now \in Nat BY DEF Inv, TypeOK
<1>3. TypeOK' BY <1>1, IdleIsCall DEF Inv, TypeOK
<1>4. \A q \in Runtimes \ {r} : call'[q] = call[q]
  BY ScheduleAssumption DEF Callers
<1>5. call'[r] = Idle BY DEF Callers
<1>6. /\ executed'[r] = {} /\ fired'[r] = {}
      /\ \A q \in Runtimes \ {r} :
           executed'[q] = executed[q] /\ fired'[q] = fired[q] /\ dropped'[q] = dropped[q]
  BY <1>1 DEF Inv, TypeOK
<1>7. ASSUME NEW q \in Runtimes
      PROVE  /\ Past(executed'[q], now) /\ fired'[q] \subseteq executed'[q]
             /\ TickOK(call'[q], executed'[q], fired'[q], now)
             /\ SkipOK(call'[q], executed'[q], dropped'[q], row)
  <2>1. CASE q = r BY <1>2, <1>5, <1>6, <2>1, IdleOK DEF Past, SkipOK
  <2>2. CASE q # r BY <1>4, <1>6, <2>2 DEF Inv
  <2> QED BY <2>1, <2>2
<1>8. \A c \in Callers : WriteOK(call'[c], now)
  BY <1>2, IdleOK DEF Inv
<1> QED BY <1>1, <1>3, <1>7, <1>8 DEF Inv, RecordedStaysClosed

\* Every step of every actor keeps the invariant.
LEMMA InvNext == Inv /\ [Next]_vars => Inv'
<1> SUFFICES ASSUME Inv, [Next]_vars PROVE Inv'
  OBVIOUS
<1>1. CASE UNCHANGED vars
  BY <1>1 DEF Inv, vars, bounds, TypeOK, RecordedStaysClosed
<1>2. ASSUME NEW r \in Runtimes, TickStep(r) PROVE Inv'
  BY <1>2, ListingInv, ClaimInv, FireInv DEF TickStep, Callers
<1>3. ASSUME NEW o \in Operators, RequestStep(o) PROVE Inv'
  BY <1>3, OperatorInv, FireInv DEF RequestStep, Callers
<1> QED BY <1>1, <1>2, <1>3, RestartInv, ClockInv DEF Next

--------------------------------------------------------------------------------
(* Theorems.                                                                   *)

\* The invariant holds in every reachable state.
THEOREM InvCorrect == Spec => []Inv
BY InvInit, InvNext, PTL DEF Spec

\* Every variable keeps its shape.
THEOREM TypeCorrect == Spec => []TypeOK
<1>1. Inv => TypeOK BY DEF Inv
<1> QED BY <1>1, InvCorrect, PTL

\* An enabled trigger's present window is passed over by an instance only while it is
\* firing it, or after its firing failed.
THEOREM SkippedOnlyByFailureCorrect == Spec => []SkippedOnlyByFailure
<1>1. Inv => SkippedOnlyByFailure
  BY WindowIsWin DEF Inv, SkippedOnlyByFailure, SkipOK, Firing, Win
<1> QED BY <1>1, InvCorrect, PTL

\* A recorded window never comes back, for any number of instances and requests that
\* save copies of a row over each other.
THEOREM RecordedStaysClosedCorrect == Spec => []RecordedStaysClosed
<1>1. Inv => RecordedStaysClosed BY DEF Inv
<1> QED BY <1>1, InvCorrect, PTL

\* An instance dispatches a window once, as long as it lives.
THEOREM OncePerWindowCorrect == Spec => OncePerWindow
<1> DEFINE A == \A r \in Runtimes :
                  At(r, "start") /\ call'[r].pc = "cycle" => WindowOf(r) \intersect fired[r] = {}
<1>1. Inv => A
  BY WindowIsWin DEF Inv, TickOK, At
<1> QED BY <1>1, InvCorrect, PTL DEF OncePerWindow

--------------------------------------------------------------------------------
(* How long a tick can get.                                                    *)

\* The steps a tick may still take: five for every listed trigger it has not reached,
\* and those of the trigger it is firing.
TickLeft(k) ==
  CASE k.pc = "idle" -> 0
    [] k.pc = "listing" -> 5 * Cardinality(Triggers) + 2
    [] k.pc = "list" -> 5 * Cardinality(k.todo) + 1
    [] k.pc = "settle" -> 5 * Cardinality(k.todo) + 2
    [] k.pc = "write" -> 5 * Cardinality(k.todo) + 3
    [] k.pc = "cycle" -> 5 * Cardinality(k.todo) + 4
    [] OTHER -> 5 * Cardinality(k.todo) + 5

\* isProcessingTick holds the other ticks back, so a tick must not go on for ever: a
\* tick in progress takes each listed trigger once, and whatever it awaits, whoever
\* changes the rows meanwhile, each of its steps brings it nearer its end.
TickComesToAnEnd ==
  [][\A r \in Runtimes :
       ~At(r, "idle") => call'[r] = call[r] \/ TickLeft(call'[r]) < TickLeft(call[r])]_vars

\* Of finitely many triggers a tick has finitely many left, and one fewer once it has
\* taken one.
LEMMA TodoCounts ==
  ASSUME IsFiniteSet(Triggers), Inv, NEW r \in Runtimes
  PROVE  /\ Cardinality(Triggers) \in Nat /\ Cardinality(call[r].todo) \in Nat
         /\ \A S \in SUBSET Triggers : Cardinality(S) \in Nat /\ Cardinality(S) <= Cardinality(Triggers)
         /\ \A t \in call[r].todo : Cardinality(call[r].todo \ {t}) = Cardinality(call[r].todo) - 1
<1>1. call[r].todo \subseteq Triggers
  BY DEF Inv, TypeOK, Callers, Call
<1>2. \A S \in SUBSET Triggers : IsFiniteSet(S) /\ Cardinality(S) <= Cardinality(Triggers)
  BY FS_Subset
<1> QED BY <1>1, <1>2, FS_CardinalityType, FS_RemoveElement

\* The steps of the loop over the listed triggers.
LEMMA ListingAdvances ==
  ASSUME IsFiniteSet(Triggers), Inv, NEW r \in Runtimes, ~At(r, "idle"),
         \/ HeartbeatConflict(r) \/ List(r) \/ ListDone(r)
         \/ \E t \in Triggers : Skip(r, t) \/ Claim(r, t) \/ ClaimRefused(r, t)
  PROVE  TickLeft(call'[r]) < TickLeft(call[r])
<1>0. r \in Callers /\ call[r] \in Call /\ call \in [Callers -> Call]
  BY DEF Inv, TypeOK, Callers
<1>1. CASE HeartbeatConflict(r) \/ ListDone(r) \/ \E t \in Triggers : ClaimRefused(r, t)
  <2>1. call'[r].pc = "idle" /\ call[r].pc \in {"listing", "list"}
    BY <1>0, <1>1 DEF HeartbeatConflict, ListDone, ClaimRefused, Ends, Goes, At, Idle
  <2> QED BY <2>1, TodoCounts DEF TickLeft
<1>2. CASE List(r)
  <2>1. call[r].pc = "listing" /\ call'[r].pc = "list" /\ call'[r].todo \in SUBSET Triggers
    BY <1>0, <1>2 DEF List, Goes, At, Call
  <2>2. Cardinality(call'[r].todo) \in Nat /\ Cardinality(call'[r].todo) <= Cardinality(Triggers)
    BY <2>1, TodoCounts
  <2> QED BY <2>1, <2>2, TodoCounts DEF TickLeft
<1>3. ASSUME NEW t \in Triggers, Skip(r, t) \/ Claim(r, t)
      PROVE  TickLeft(call'[r]) < TickLeft(call[r])
  <2>1. /\ call[r].pc = "list" /\ call'[r].pc \in {"list", "start"}
        /\ t \in call[r].todo /\ call'[r].todo = call[r].todo \ {t}
    BY <1>0, <1>3 DEF Skip, Claim, Goes, At, Call
  <2>2. /\ Cardinality(call[r].todo) \in Nat
        /\ Cardinality(call'[r].todo) = Cardinality(call[r].todo) - 1
    BY <2>1, TodoCounts
  <2> QED BY <2>1, <2>2 DEF TickLeft
<1> QED BY <1>1, <1>2, <1>3

\* The steps of the firing of one trigger.
LEMMA FiringAdvances ==
  ASSUME IsFiniteSet(Triggers), Inv, NEW r \in Runtimes, FireStep(r)
  PROVE  TickLeft(call'[r]) < TickLeft(call[r])
<1>0. r \in Callers /\ call[r] \in Call /\ call \in [Callers -> Call]
      /\ call[r].pc \in {"start", "cycle", "write", "settle"}
  BY DEF Inv, TypeOK, Callers, FireStep, StartConflict, Dispatch, CycleThrows, CycleResolves,
     WriteRow, WriteConflict, Settle, SettleConflict, At
<1>1. CASE call'[r] = Idle
  <2>1. call'[r].pc = "idle"
    BY <1>1 DEF Idle
  <2> QED BY <1>0, <2>1, TodoCounts DEF TickLeft
<1>2. CASE call'[r] # Idle
  <2> DEFINE Moves == /\ call'[r].todo = call[r].todo
                      /\ <<call[r].pc, call'[r].pc>> \in
                           {<<"start", "cycle">>, <<"cycle", "write">>, <<"write", "settle">>,
                            <<"settle", "list">>}
  <2>1. \A k : Goes(r, k) => call'[r] = k
    BY <1>0 DEF Goes
  <2>2. ASSUME CycleResolves(r) PROVE Moves
    <3> DEFINE i == recordFiring(call[r].copy[call[r].trig])
               v == row[call[r].trig].version
    <3>1. call[r].pc = "cycle" /\ call'[r] = [call[r] EXCEPT !.pc = "write", !.new = i, !.seen = v]
      BY <2>1, <2>2 DEF CycleResolves, Saves, At
    <3> HIDE DEF i, v
    <3>2. call'[r].pc = "write" /\ call'[r].todo = call[r].todo
      BY <1>0, <3>1 DEF Call
    <3> QED BY <3>1, <3>2
  <2>3. ASSUME Dispatch(r) PROVE Moves
    <3>1. call[r].pc = "start" /\ call'[r] = [call[r] EXCEPT !.pc = "cycle"]
      BY <2>1, <2>3 DEF Dispatch, At
    <3>2. call'[r].pc = "cycle" /\ call'[r].todo = call[r].todo
      BY <1>0, <3>1 DEF Call
    <3> QED BY <3>1, <3>2
  <2>4. ASSUME WriteRow(r) PROVE Moves
    <3>1. call[r].pc = "write" /\ call'[r] = [call[r] EXCEPT !.pc = "settle"]
      BY <1>2, <2>1, <2>4 DEF WriteRow, Ends, At
    <3>2. call'[r].pc = "settle" /\ call'[r].todo = call[r].todo
      BY <1>0, <3>1 DEF Call
    <3> QED BY <3>1, <3>2
  <2>5. ASSUME Settle(r) PROVE Moves
    <3>1. call[r].pc = "settle" /\ call'[r] = [call[r] EXCEPT !.pc = "list"]
      BY <1>2, <2>1, <2>5 DEF Settle, Ends, At
    <3>2. call'[r].pc = "list" /\ call'[r].todo = call[r].todo
      BY <1>0, <3>1 DEF Call
    <3> QED BY <3>1, <3>2
  <2>6. ASSUME StartConflict(r) \/ CycleThrows(r) \/ WriteConflict(r) \/ SettleConflict(r) PROVE Moves
    <3>1. Ends(r)
      BY <2>6 DEF StartConflict, CycleThrows, WriteConflict, SettleConflict
    <3> QED BY <1>2, <2>1, <3>1 DEF Ends
  <2>7. Moves
    BY <2>2, <2>3, <2>4, <2>5, <2>6 DEF FireStep
  <2> QED BY <2>7, TodoCounts DEF TickLeft
<1> QED BY <1>1, <1>2

\* Of finitely many triggers, a tick is over after at most five steps for each and two
\* more, so it never holds the next tick back for good.
THEOREM TickComesToAnEndCorrect ==
  ASSUME IsFiniteSet(Triggers) PROVE Spec => TickComesToAnEnd
<1> DEFINE Nearer(r) == ~At(r, "idle") =>
                          call'[r] = call[r] \/ TickLeft(call'[r]) < TickLeft(call[r])
<1>1. ASSUME Inv, [Next]_vars, NEW r \in Runtimes PROVE Nearer(r)
  <2>0. r \in Callers /\ call \in [Callers -> Call]
    BY <1>1 DEF Inv, TypeOK, Callers
  <2>1. CASE TickStep(r)
    <3>1. CASE Tick(r) BY <3>1 DEF Tick
    <3> QED BY <1>1, <2>1, <3>1, ListingAdvances, FiringAdvances DEF TickStep
  <2>2. ASSUME NEW c \in Callers, c # r, TickStep(c) \/ RequestStep(c)
        PROVE  call'[r] = call[r]
    BY <2>0, <2>2 DEF TickStep, RequestStep, Tick, HeartbeatConflict, List, ListDone, Skip, Claim,
       ClaimRefused, FireStep, StartConflict, Dispatch, CycleThrows, CycleResolves, Saves, WriteRow,
       WriteConflict, Settle, SettleConflict, Request, Change, Goes, Ends
  <2>3. ASSUME NEW q \in Runtimes, Restart(q) PROVE Nearer(r)
    <3>1. CASE call'[r] = Idle
      <4>1. call'[r].pc = "idle"
        BY <3>1 DEF Idle
      <4>2. call[r].pc # "idle" => TickLeft(call[r]) > 0
        BY <1>1, TodoCounts DEF TickLeft
      <4> QED BY <4>1, <4>2 DEF TickLeft, At
    <3>2. CASE call'[r] # Idle
      BY <2>0, <2>3, <3>2 DEF Restart
    <3> QED BY <3>1, <3>2
  <2>4. CASE Clock \/ UNCHANGED vars
    BY <2>4 DEF Clock, vars
  <2>5. \A o \in Operators : o \in Callers /\ o # r
    BY ScheduleAssumption DEF Callers
  <2>6. Runtimes \subseteq Callers
    BY DEF Callers
  <2> QED BY <1>1, <2>1, <2>2, <2>3, <2>4, <2>5, <2>6 DEF Next
<1>2. Inv /\ [Next]_vars => [\A r \in Runtimes : Nearer(r)]_vars
  BY <1>1
<1> QED BY <1>2, InvCorrect, PTL DEF Spec, TickComesToAnEnd

================================================================================
