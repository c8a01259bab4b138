--------------------------- MODULE TeamBudgetProofs ---------------------------
(***************************************************************************)
(* Proofs about TeamBudget, for any number of administrative calls, any    *)
(* limits and any requests.                                                *)
(*                                                                         *)
(* What holds of the row is not inductive alone, because save() writes a   *)
(* copy computed earlier: the same must hold of every copy a call is about *)
(* to write (CopiesAgree, CopiesAccounted).  Such a copy may miss units    *)
(* granted since it was read, and those are exactly the exposed ones.      *)
(***************************************************************************)
EXTENDS TeamBudget, TLAPS

Agrees(b) ==
  /\ b.status = "ACTIVE" =>
       \A d \in Tracked(b) : b.limits[d] > 0 => b.consumed[d] < b.limits[d]
  /\ b.status = "EXHAUSTED" =>
       \E d \in Tracked(b) : b.consumed[d] >= b.limits[d]
CopiesAgree == \A c \in Calls : Agrees(call[c].next)

Accounted(b) ==
  \A d \in Dims : /\ granted[d] <= b.consumed[d] + deleted[d] + exposed[d]
                  /\ b.consumed[d] <= granted[d]
WillSave(c) == call[c].op \notin {"none", "delete"}
CopiesAccounted == \A c \in Calls : WillSave(c) => Accounted(call[c].next)

\* A call that suspends will save SUSPENDED, and nothing is in progress while
\* the suspension is sealed.
SuspendsSuspend == \A c \in Calls : call[c].op = "suspend" => call[c].next.status = "SUSPENDED"
SealedState ==
  pause = "sealed" => row.status = "SUSPENDED" /\ \A c \in Calls : call[c] = NoCall

StrictIsGranted == \A d \in Dims : strict[d] <= granted[d]

IInv == /\ TypeOK
        /\ StatusAgreesWithCounters /\ CopiesAgree
        /\ ConsumptionIsAccounted /\ CopiesAccounted
        /\ StrictIsGranted /\ EnvelopeHolds
        /\ SuspendsSuspend /\ SealedState

--------------------------------------------------------------------------------
(* The operations of TeamResourceBudget.                                       *)

\* Limits cover the required dimensions, or all of them, and respect MaxLimit.
LEMMA LimitsShape ==
  ASSUME NEW l \in LimitSets
  PROVE  /\ DOMAIN l \in {Required, Dims}
         /\ DOMAIN l \subseteq Dims
         /\ \A d \in DOMAIN l : l[d] \in Nat /\ l[d] <= MaxLimit
  BY LimitAssumption DEF LimitSets, Required, Dims

\* A new budget is well-formed, agrees with its counters and records nothing.
LEMMA CreateShape ==
  ASSUME NEW l \in LimitSets
  PROVE  Create(l) \in Budgets /\ Agrees(Create(l)) /\ Create(l).consumed = Zero
<1>1. Create(l) \in Budgets BY DEF Create, Budgets, Statuses, Zero
<1>2. \A d \in DOMAIN l : d \in Dims /\ Zero[d] = 0 BY LimitsShape DEF Zero
<1>3. Agrees(Create(l)) BY <1>2 DEF Create, Agrees, Tracked
<1> QED BY <1>1, <1>3 DEF Create

\* StatusAfter() tells the truth about any counters.
LEMMA StatusAfterAgrees ==
  ASSUME NEW l \in LimitSets, NEW consumed \in [Dims -> Nat]
  PROVE  /\ StatusAfter(consumed, l) \in {"ACTIVE", "EXHAUSTED"}
         /\ Agrees([limits |-> l, consumed |-> consumed, status |-> StatusAfter(consumed, l)])
<1>1. \A d \in DOMAIN l : consumed[d] \in Nat /\ l[d] \in Nat BY LimitsShape
<1> QED BY <1>1 DEF StatusAfter, Agrees, Tracked

\* Changing the limits leaves the counters alone.
LEMMA UpdateLimitsShape ==
  ASSUME NEW b \in Budgets, NEW l \in LimitSets
  PROVE  /\ UpdateLimits(b, l) \in Budgets /\ Agrees(UpdateLimits(b, l))
         /\ UpdateLimits(b, l).consumed = b.consumed
<1>1. b.consumed \in [Dims -> Nat] BY DEF Budgets
<1>2. UpdateLimits(b, l) =
        [limits |-> l, consumed |-> b.consumed, status |-> StatusAfter(b.consumed, l)]
  BY DEF UpdateLimits, Budgets
<1> QED BY <1>1, <1>2, StatusAfterAgrees DEF Budgets, Statuses

\* Suspending and reactivating leave the counters alone.
LEMMA SuspendShape ==
  ASSUME NEW b \in Budgets
  PROVE  /\ Suspend(b) \in Budgets /\ Agrees(Suspend(b)) /\ Suspend(b).consumed = b.consumed
         /\ Reactivate(b) \in Budgets /\ Agrees(Reactivate(b))
         /\ Reactivate(b).consumed = b.consumed
<1>1. /\ Suspend(b) \in Budgets /\ Suspend(b).consumed = b.consumed
      /\ Suspend(b).status = "SUSPENDED"
  BY DEF Suspend, Budgets, Statuses
<1>2. Agrees(Suspend(b)) BY <1>1 DEF Agrees
<1>3. /\ Reactivate(b) \in Budgets /\ Reactivate(b).consumed = b.consumed
      /\ Reactivate(b).limits = b.limits
      /\ Reactivate(b).status = IF IsExhausted(b) THEN "EXHAUSTED" ELSE "ACTIVE"
  BY DEF Reactivate, Budgets, Statuses
<1>4. \A d \in Tracked(b) : b.consumed[d] \in Nat /\ b.limits[d] \in Nat
  BY LimitsShape DEF Budgets, Tracked
<1>5. Agrees(Reactivate(b)) BY <1>3, <1>4 DEF Agrees, Tracked, IsExhausted
<1> QED BY <1>1, <1>2, <1>3, <1>5

\* A consumption adds exactly the charged units.
LEMMA ConsumeShape ==
  ASSUME NEW b \in Budgets, NEW request \in [Dims -> Nat]
  PROVE  /\ Charged(b, request) \in [Dims -> Nat]
         /\ Consume(b, request) \in Budgets /\ Agrees(Consume(b, request))
         /\ Consume(b, request).consumed =
              [d \in Dims |-> b.consumed[d] + Charged(b, request)[d]]
<1> DEFINE consumed == [d \in Dims |-> b.consumed[d] + Charged(b, request)[d]]
<1>1. Charged(b, request) \in [Dims -> Nat] BY DEF Charged
<1>2. consumed \in [Dims -> Nat] BY <1>1 DEF Budgets
<1>3. b.limits \in LimitSets BY DEF Budgets
<1>4. Consume(b, request) =
        [limits |-> b.limits, consumed |-> consumed, status |-> StatusAfter(consumed, b.limits)]
  BY DEF Consume, Budgets
<1> QED BY <1>1, <1>2, <1>3, <1>4, StatusAfterAgrees DEF Budgets, Statuses

\* The absent budget is none of the stored ones and satisfies Agrees.
LEMMA Absent ==
  /\ NoBudget \notin Budgets /\ NoBudget.status = "ABSENT" /\ Agrees(NoBudget)
  /\ NoBudget.consumed = Zero /\ Zero \in [Dims -> Nat]
  BY DEF NoBudget, Budgets, Statuses, Agrees, Zero

\* A row that is not ABSENT is a stored budget.
LEMMA RowCases ==
  ASSUME TypeOK PROVE /\ row.status # "ABSENT" => row \in Budgets
                      /\ row.status = "ABSENT" => row = NoBudget
                      /\ row.consumed \in [Dims -> Nat]
  BY Absent DEF TypeOK, Budgets, Statuses

--------------------------------------------------------------------------------
(* The steps.                                                                  *)

\* The invariant holds initially.
LEMMA InitIInv == Init => IInv
<1> SUFFICES ASSUME Init PROVE IInv OBVIOUS
<1>1. TypeOK BY DEF Init, TypeOK, NoCall, Zero
<1>2. StatusAgreesWithCounters /\ CopiesAgree
  BY Absent DEF Init, StatusAgreesWithCounters, CopiesAgree, NoCall, Agrees
<1>3. ConsumptionIsAccounted /\ CopiesAccounted
  BY Absent DEF Init, ConsumptionIsAccounted, CopiesAccounted, WillSave, NoCall, Zero
<1>4. StrictIsGranted /\ EnvelopeHolds
  BY LimitAssumption DEF Init, StrictIsGranted, EnvelopeHolds, Zero
<1>5. SuspendsSuspend /\ SealedState BY DEF Init, SuspendsSuspend, SealedState, NoCall
<1> QED BY <1>1, <1>2, <1>3, <1>4, <1>5 DEF IInv

\* A call that reads keeps the invariant, when what it will save is well-formed,
\* agrees with its counters and records what the row records.
LEMMA ReadsIInv ==
  ASSUME IInv, NEW c \in Calls, NEW next \in Budgets \union {NoBudget},
         NEW op \in {"create", "update", "suspend", "reactivate", "delete"},
         Reads(c, op, next), Agrees(next),
         op # "delete" => next.consumed = row.consumed,
         op = "suspend" => next.status = "SUSPENDED",
         row.status = "SUSPENDED" => op \in {"reactivate", "delete"}
  PROVE  IInv'
<1> USE DEF IInv
<1>1. TypeOK' BY DEF Reads, TypeOK, ledger
<1>2. StatusAgreesWithCounters' BY DEF Reads, StatusAgreesWithCounters, Tracked
<1>3. CopiesAgree' BY DEF Reads, CopiesAgree, TypeOK, Agrees, Tracked
<1>4. ConsumptionIsAccounted' /\ StrictIsGranted' /\ EnvelopeHolds'
  BY DEF Reads, ConsumptionIsAccounted, StrictIsGranted, EnvelopeHolds, ledger
<1>5. ASSUME NEW o \in Calls, WillSave(o)' PROVE Accounted(call[o].next)'
  <2>1. CASE o = c
    BY <1>5, <2>1 DEF Reads, TypeOK, WillSave, Accounted, ConsumptionIsAccounted, ledger
  <2>2. CASE o # c
    BY <1>5, <2>2 DEF Reads, TypeOK, WillSave, Accounted, CopiesAccounted, ledger
  <2> QED BY <2>1, <2>2
<1>6. SuspendsSuspend' BY DEF Reads, SuspendsSuspend, TypeOK
<1>7. SealedState' BY DEF Reads, SealedState
<1> QED BY <1>1, <1>2, <1>3, <1>4, <1>5, <1>6, <1>7 DEF CopiesAccounted

\* save() keeps the invariant.
LEMMA SaveIInv == ASSUME IInv, NEW c \in Calls, Save(c) PROVE IInv'
<1> USE DEF IInv
<1>1. TypeOK' BY DEF Save, TypeOK, ledger, NoCall
<1>2. StatusAgreesWithCounters'
  BY DEF Save, StatusAgreesWithCounters, CopiesAgree, Agrees, Tracked
<1>3. CopiesAgree' BY Absent DEF Save, CopiesAgree, TypeOK, Agrees, Tracked, NoCall
<1>4. ConsumptionIsAccounted'
  BY DEF Save, ConsumptionIsAccounted, CopiesAccounted, Accounted, WillSave, ledger
<1>5. CopiesAccounted'
  BY DEF Save, CopiesAccounted, Accounted, WillSave, TypeOK, ledger, NoCall
<1>6. StrictIsGranted' /\ EnvelopeHolds' BY DEF Save, StrictIsGranted, EnvelopeHolds, ledger
<1>7. SuspendsSuspend' BY DEF Save, SuspendsSuspend, TypeOK, NoCall
<1>8. ASSUME pause' = "sealed"
      PROVE  call[c].op = "suspend" /\ \A o \in Calls \ {c} : call[o] = NoCall
  BY <1>8 DEF Save, SealedState, NoCall
<1>9. SealedState' BY <1>8 DEF Save, SealedState, SuspendsSuspend, TypeOK
<1> QED BY <1>1, <1>2, <1>3, <1>4, <1>5, <1>6, <1>7, <1>9

\* The deletion keeps the invariant: what the row recorded moves to deleted.
LEMMA DeleteIInv == ASSUME IInv, NEW c \in Calls, Delete(c) PROVE IInv'
<1> USE DEF IInv
<1>1. row.consumed \in [Dims -> Nat] BY RowCases
<1>2. TypeOK' BY <1>1 DEF Delete, TypeOK, ledger, NoCall
<1>3. StatusAgreesWithCounters' BY Absent DEF Delete, StatusAgreesWithCounters
<1>4. CopiesAgree' BY Absent DEF Delete, CopiesAgree, TypeOK, Agrees, Tracked, NoCall
<1>5. /\ exposed' = exposed /\ granted' = granted /\ strict' = strict
      /\ \A d \in Dims : /\ deleted'[d] = deleted[d] + row.consumed[d]
                         /\ granted[d] \in Nat /\ deleted[d] \in Nat
                         /\ exposed[d] \in Nat /\ strict[d] \in Nat
  BY DEF Delete, ledger, TypeOK
<1>6. ConsumptionIsAccounted'
  BY <1>1, <1>5, Absent DEF Delete, ConsumptionIsAccounted, Zero
<1>7. ASSUME NEW o \in Calls, WillSave(o)' PROVE Accounted(call[o].next)'
  <2>1. call'[o] = call[o] /\ WillSave(o)
    BY <1>7 DEF Delete, WillSave, TypeOK, NoCall
  <2>2. call[o].next.consumed \in [Dims -> Nat] BY Absent DEF TypeOK, Budgets
  <2> QED BY <2>1, <2>2, <1>1, <1>5 DEF CopiesAccounted, Accounted
<1>8. StrictIsGranted' /\ EnvelopeHolds'
  BY <1>1, <1>5, LimitAssumption DEF StrictIsGranted, EnvelopeHolds
<1>9. SuspendsSuspend' BY DEF Delete, SuspendsSuspend, TypeOK, NoCall
<1>10. SealedState' BY DEF Delete, SealedState
<1> QED BY <1>2, <1>3, <1>4, <1>6, <1>7, <1>8, <1>9, <1>10 DEF CopiesAccounted

\* A consumption keeps the invariant: the units it grants are recorded in the
\* row, and exposed whenever some call holds an older copy.
LEMMA ConsumeIInv == ASSUME IInv, EvaluateAndConsume PROVE IInv' /\ pause # "sealed"
<1> USE DEF IInv
<1> PICK request \in Requests, overshoot \in BOOLEAN :
      /\ row.status # "ABSENT" /\ CanConsume(row, request, overshoot)
      /\ row' = Consume(row, request)
      /\ granted' = [d \in Dims |-> granted[d] + Charged(row, request)[d]]
      /\ strict' = IF overshoot THEN strict
                   ELSE [d \in Dims |-> strict[d] + Charged(row, request)[d]]
      /\ exposed' = IF \E c \in Calls : call[c] # NoCall
                      THEN [d \in Dims |-> exposed[d] + Charged(row, request)[d]] ELSE exposed
      /\ grants' = grants + 1
      /\ UNCHANGED <<call, deleted, pause, reads>>
  BY DEF EvaluateAndConsume
<1> DEFINE units == Charged(row, request)
<1>1. row \in Budgets /\ request \in [Dims -> Nat] BY RowCases, RequestsAssumption
<1>2. /\ units \in [Dims -> Nat] /\ row' \in Budgets /\ Agrees(row')
      /\ row'.consumed = [d \in Dims |-> row.consumed[d] + units[d]]
  BY <1>1, ConsumeShape
<1>3. \A d \in Dims : /\ units[d] \in Nat /\ row.consumed[d] \in Nat /\ granted[d] \in Nat
                      /\ strict[d] \in Nat /\ exposed[d] \in Nat /\ deleted[d] \in Nat
  BY <1>1, <1>2, RowCases DEF TypeOK
<1> HIDE DEF units
<1>4. \A d \in Dims : /\ granted'[d] = granted[d] + units[d] /\ deleted'[d] = deleted[d]
                      /\ strict'[d] = strict[d] + (IF overshoot THEN 0 ELSE units[d])
                      /\ exposed[d] <= exposed'[d] /\ exposed'[d] \in Nat
                      /\ (\E c \in Calls : call[c] # NoCall) => exposed'[d] = exposed[d] + units[d]
  BY <1>3 DEF units
<1>5. TypeOK'
  <2>1. /\ granted' \in [Dims -> Nat] /\ strict' \in [Dims -> Nat] /\ exposed' \in [Dims -> Nat]
    BY <1>3 DEF TypeOK, units
  <2> QED BY <1>2, <2>1 DEF TypeOK
<1>6. StatusAgreesWithCounters' BY <1>2 DEF Agrees, StatusAgreesWithCounters, Tracked
<1>7. CopiesAgree' BY DEF CopiesAgree, Agrees, Tracked
<1>8. ConsumptionIsAccounted' BY <1>2, <1>3, <1>4 DEF ConsumptionIsAccounted
<1>9. ASSUME NEW o \in Calls, WillSave(o)' PROVE Accounted(call[o].next)'
  <2>1. call'[o] = call[o] /\ WillSave(o) /\ call[o] # NoCall BY <1>9 DEF WillSave, NoCall
  <2>2. call[o].next.consumed \in [Dims -> Nat] BY Absent DEF TypeOK, Budgets
  <2> QED BY <2>1, <2>2, <1>3, <1>4 DEF CopiesAccounted, Accounted
<1>10. StrictIsGranted' BY <1>3, <1>4 DEF StrictIsGranted
<1>11. EnvelopeHolds'
  <2> SUFFICES ASSUME NEW d \in Dims
              PROVE  strict'[d] <= MaxLimit + deleted'[d] + exposed'[d]
    BY DEF EnvelopeHolds
  <2>1. /\ strict[d] <= MaxLimit + deleted[d] + exposed[d] /\ strict[d] <= granted[d]
        /\ granted[d] <= row.consumed[d] + deleted[d] + exposed[d]
    BY DEF EnvelopeHolds, StrictIsGranted, ConsumptionIsAccounted
  <2>2. CASE overshoot \/ units[d] = 0 BY <2>1, <2>2, <1>3, <1>4, LimitAssumption
  <2>3. CASE ~overshoot /\ units[d] # 0
    <3>1. d \in Tracked(row) /\ units[d] = request[d] BY <2>3 DEF units, Charged
    <3>2. row.consumed[d] + units[d] <= row.limits[d]
      BY <2>3, <3>1 DEF CanConsume, Fits
    <3>3. row.limits[d] \in Nat /\ row.limits[d] <= MaxLimit
      BY <1>1, <3>1, LimitsShape DEF Budgets, Tracked
    <3> QED BY <2>1, <3>2, <3>3, <1>3, <1>4, LimitAssumption
  <2> QED BY <2>2, <2>3
<1>12. SuspendsSuspend' BY DEF SuspendsSuspend
<1>13. pause # "sealed" BY DEF SealedState, CanConsume
<1>14. SealedState' BY <1>13 DEF SealedState
<1> QED BY <1>5, <1>6, <1>7, <1>8, <1>9, <1>10, <1>11, <1>12, <1>13, <1>14 DEF CopiesAccounted

\* Every step keeps the invariant, and grants nothing under a sealed suspension.
LEMMA NextIInv ==
  ASSUME IInv, [Next]_vars PROVE IInv' /\ (pause = "sealed" => granted' = granted)
<1> USE DEF IInv
<1>1. ASSUME NEW c \in Calls, CreateBudget(c) PROVE IInv' /\ granted' = granted
  <2> PICK limits \in LimitSets : row.status = "ABSENT" /\ Reads(c, "create", Create(limits))
    BY <1>1 DEF CreateBudget
  <2>1. row.consumed = Zero BY RowCases, Absent
  <2>2. IInv' BY <2>1, CreateShape, ReadsIInv
  <2> QED BY <2>2 DEF Reads, ledger
<1>2. ASSUME NEW c \in Calls, UpdateBudget(c) PROVE IInv' /\ granted' = granted
  <2> PICK limits \in LimitSets :
        row.status \in {"ACTIVE", "EXHAUSTED"} /\ Reads(c, "update", UpdateLimits(row, limits))
    BY <1>2 DEF UpdateBudget
  <2>1. row \in Budgets BY RowCases
  <2>2. IInv' BY <2>1, UpdateLimitsShape, ReadsIInv
  <2> QED BY <2>2 DEF Reads, ledger
<1>3. ASSUME NEW c \in Calls, SuspendBudget(c) PROVE IInv' /\ granted' = granted
  <2>1. row \in Budgets /\ Suspend(row).status = "SUSPENDED"
    BY <1>3, RowCases DEF SuspendBudget, Suspend, Budgets
  <2>2. IInv' BY <1>3, <2>1, SuspendShape, ReadsIInv DEF SuspendBudget
  <2> QED BY <1>3, <2>2 DEF SuspendBudget, Reads, ledger
<1>4. ASSUME NEW c \in Calls, ReactivateBudget(c) PROVE IInv' /\ granted' = granted
  <2>1. row \in Budgets BY <1>4, RowCases DEF ReactivateBudget
  <2>2. IInv' BY <1>4, <2>1, SuspendShape, ReadsIInv DEF ReactivateBudget
  <2> QED BY <1>4, <2>2 DEF ReactivateBudget, Reads, ledger
<1>5. ASSUME NEW c \in Calls, DeleteBudget(c) PROVE IInv' /\ granted' = granted
  <2>1. IInv' BY <1>5, Absent, ReadsIInv DEF DeleteBudget
  <2> QED BY <1>5, <2>1 DEF DeleteBudget, Reads, ledger
<1>6. ASSUME NEW c \in Calls, Save(c) \/ Delete(c) PROVE IInv' /\ granted' = granted
  BY <1>6, SaveIInv, DeleteIInv DEF Save, Delete, ledger
<1>7. CASE EvaluateAndConsume BY <1>7, ConsumeIInv
<1>8. CASE UNCHANGED vars
  BY <1>8 DEF vars, TypeOK, StatusAgreesWithCounters, CopiesAgree, Agrees, ConsumptionIsAccounted,
              CopiesAccounted, Accounted, WillSave, StrictIsGranted, EnvelopeHolds,
              SuspendsSuspend, SealedState, Tracked
<1> QED BY <1>1, <1>2, <1>3, <1>4, <1>5, <1>6, <1>7, <1>8 DEF Next

--------------------------------------------------------------------------------
(* The theorems.                                                               *)

\* The inductive invariant holds in every reachable state.
THEOREM Invariant == Spec => []IInv
<1>1. IInv /\ [Next]_vars => IInv' BY NextIInv
<1> QED BY InitIInv, <1>1, PTL DEF Spec

\* Every variable keeps its shape.
THEOREM TypeCorrect == Spec => []TypeOK
<1>1. IInv => TypeOK BY DEF IInv
<1> QED BY Invariant, <1>1, PTL

\* The status agrees with the counters (consume, updateLimits and reactivate
\* compute it apart) although stale copies are saved.
THEOREM StatusAgreesCorrect == Spec => []StatusAgreesWithCounters
<1>1. IInv => StatusAgreesWithCounters BY DEF IInv
<1> QED BY Invariant, <1>1, PTL

\* evaluateAndConsume() grants a unit that goes unrecorded only while an
\* administrative call holds an older copy of the budget.
THEOREM ConsumptionIsAccountedCorrect == Spec => []ConsumptionIsAccounted
<1>1. IInv => ConsumptionIsAccounted BY DEF IInv
<1> QED BY Invariant, <1>1, PTL

\* Without overshoot, and but for such units and deleted budgets, a team is
\* never granted more than the largest limit.
THEOREM EnvelopeHoldsCorrect == Spec => []EnvelopeHolds
<1>1. IInv => EnvelopeHolds BY DEF IInv
<1> QED BY Invariant, <1>1, PTL

\* suspendBudget() holds when no other administrative call overlaps it.
THEOREM SealedSuspensionHoldsCorrect == Spec => SealedSuspensionHolds
<1>1. IInv /\ [Next]_vars => [pause = "sealed" => granted' = granted]_vars BY NextIInv
<1> QED BY Invariant, <1>1, PTL DEF Spec, SealedSuspensionHolds
================================================================================
