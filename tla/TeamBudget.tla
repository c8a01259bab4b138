------------------------------ MODULE TeamBudget ------------------------------
(***************************************************************************)
(* The resource budget of one team: TeamResourceBudget, the calls of       *)
(* TeamResourceBudgetService and the repository they share.                *)
(*                                                                         *)
(* Consumption is one transaction (consumeAtomic).  The administrative     *)
(* calls read the budget, await, and then save() what they computed from   *)
(* it without an expected version: between the two, anything may happen.   *)
(* An administrative call is an element of Calls.                          *)
(***************************************************************************)
EXTENDS Naturals, FiniteSets

CONSTANTS Calls,      \* administrative calls that may be in progress at once
          MaxLimit,   \* the largest limit an administrator sets
          Requests,   \* the amounts the callers of evaluateAndConsume() ask for
          MaxGrants,  \* bound: consumptions granted
          MaxReads    \* bound: administrative calls that get past their read

\* toolCalls stands for the four dimensions the code treats alike (model calls,
\* tool calls, autonomous steps, duration); only tokens may have no limit.
Dims == {"executions", "toolCalls", "tokens"}
Required == {"executions", "toolCalls"}

ASSUME LimitAssumption == MaxLimit \in Nat
ASSUME RequestsAssumption == Requests \subseteq [Dims -> Nat]
ASSUME BoundsAssumption == MaxGrants \in Nat /\ MaxReads \in Nat

VARIABLES
  row,      \* the stored budget, NoBudget when there is none
  call,     \* call[c]: what c is about to write, or NoCall
  granted,  \* granted[d]: units of limited dimension d ever granted
  strict,   \* strict[d]: those granted without allowOvershoot
  exposed,  \* exposed[d]: those granted between the read and the write of a call
  deleted,  \* deleted[d]: units recorded in budgets that were deleted
  pause,    \* "none"; "sealed" since a suspendBudget() returned with no other call in
            \* progress; "contested" if one was, or a reactivation or deletion has begun
  reads, grants

vars == <<row, call, granted, strict, exposed, deleted, pause, reads, grants>>
ledger == <<granted, strict, exposed>>

Zero == [d \in Dims |-> 0]
LimitSets == UNION {[T -> 0..MaxLimit] : T \in {Required, Dims}}
Statuses == {"ACTIVE", "EXHAUSTED", "SUSPENDED"}
Budgets == [limits : LimitSets, consumed : [Dims -> Nat], status : Statuses]
NoBudget == [limits |-> [d \in Required |-> 0], consumed |-> Zero, status |-> "ABSENT"]
NoCall == [op |-> "none", next |-> NoBudget]

Init ==
  /\ row = NoBudget
  /\ call = [c \in Calls |-> NoCall]
  /\ granted = Zero /\ strict = Zero /\ exposed = Zero /\ deleted = Zero
  /\ pause = "none"
  /\ reads = 0 /\ grants = 0

--------------------------------------------------------------------------------
(* TeamResourceBudget.                                                         *)

Tracked(b) == DOMAIN b.limits
\* Wrong variant: the request is compared with the limit, not with what remains.
FitsLimit(b, request) == \A d \in Tracked(b) : request[d] <= b.limits[d]
Fits(b, request) ==
  \A d \in Tracked(b) : request[d] = 0 \/ b.consumed[d] + request[d] <= b.limits[d]

\* canConsume(): an EXHAUSTED budget still serves the dimensions with room.
CanConsume(b, request, overshoot) ==
  b.status # "SUSPENDED" /\ (overshoot \/ Fits(b, request))

\* The status consume() and updateLimits() give.
StatusAfter(consumed, limits) ==
  IF \E d \in DOMAIN limits : consumed[d] >= limits[d] THEN "EXHAUSTED" ELSE "ACTIVE"

Charged(b, request) == [d \in Dims |-> IF d \in Tracked(b) THEN request[d] ELSE 0]
\* Wrong variant: what the request asks for replaces what was consumed.
ConsumeReplaces(b, request) ==
  [limits |-> b.limits, consumed |-> Charged(b, request),
   status |-> StatusAfter(Charged(b, request), b.limits)]
Consume(b, request) ==
  LET consumed == [d \in Dims |-> b.consumed[d] + Charged(b, request)[d]] IN
  [limits |-> b.limits, consumed |-> consumed, status |-> StatusAfter(consumed, b.limits)]

\* isExhausted() of reactivate(): a limit of zero counts for executions and tokens.
IsExhausted(b) ==
  \E d \in Tracked(b) : /\ b.consumed[d] >= b.limits[d]
                        /\ d = "toolCalls" => b.limits[d] > 0

Create(limits) == [limits |-> limits, consumed |-> Zero, status |-> "ACTIVE"]
\* updateLimits() never withdraws the limit on tokens.
UpdateLimits(b, limits) ==
  [limits |-> limits, consumed |-> b.consumed, status |-> StatusAfter(b.consumed, limits)]
Suspend(b) == [b EXCEPT !.status = "SUSPENDED"]
\* Wrong variant: a reactivated budget starts ACTIVE.
ReactivateBlindly(b) == [b EXCEPT !.status = "ACTIVE"]
Reactivate(b) == [b EXCEPT !.status = IF IsExhausted(b) THEN "EXHAUSTED" ELSE "ACTIVE"]

--------------------------------------------------------------------------------
(* TeamResourceBudgetService.                                                  *)

\* Call c has read the budget and will write next.
Reads(c, op, next) ==
  /\ call[c] = NoCall /\ reads < MaxReads
  /\ call' = [call EXCEPT ![c] = [op |-> op, next |-> next]]
  /\ reads' = reads + 1
  /\ pause' = IF pause # "none" /\ op \in {"reactivate", "delete"} THEN "contested" ELSE pause
  /\ UNCHANGED <<row, ledger, deleted, grants>>

CreateBudget(c) == \E limits \in LimitSets :
  row.status = "ABSENT" /\ Reads(c, "create", Create(limits))

\* Wrong variant: the limits of a suspended budget may be changed.
UpdateBudgetAnyStatus(c) == \E limits \in LimitSets :
  /\ row.status # "ABSENT" /\ Tracked(row) \subseteq DOMAIN limits
  /\ Reads(c, "update", UpdateLimits(row, limits))
UpdateBudget(c) == \E limits \in LimitSets :
  /\ row.status \in {"ACTIVE", "EXHAUSTED"} /\ Tracked(row) \subseteq DOMAIN limits
  /\ Reads(c, "update", UpdateLimits(row, limits))

\* Suspending a suspended budget, or reactivating another, returns at once.
SuspendBudget(c) ==
  row.status \in {"ACTIVE", "EXHAUSTED"} /\ Reads(c, "suspend", Suspend(row))
ReactivateBudget(c) ==
  row.status = "SUSPENDED" /\ Reads(c, "reactivate", Reactivate(row))
DeleteBudget(c) == row.status # "ABSENT" /\ Reads(c, "delete", NoBudget)

\* save(): an upsert of the whole row, whatever it holds by now; and the DELETE.
Save(c) ==
  /\ call[c].op \notin {"none", "delete"}
  /\ row' = call[c].next
  /\ call' = [call EXCEPT ![c] = NoCall]
  /\ pause' = CASE call[c].op = "reactivate" -> "none"
               [] call[c].op = "suspend" ->
                    IF \A o \in Calls \ {c} : call[o] = NoCall THEN "sealed" ELSE "contested"
               [] OTHER -> pause
  /\ UNCHANGED <<ledger, deleted, reads, grants>>
Delete(c) ==
  /\ call[c].op = "delete"
  /\ row' = NoBudget
  /\ call' = [call EXCEPT ![c] = NoCall]
  /\ deleted' = [d \in Dims |-> deleted[d] + row.consumed[d]]
  /\ pause' = "none"
  /\ UNCHANGED <<ledger, reads, grants>>

\* evaluateAndConsume(): the check and the update are one transaction.
EvaluateAndConsume == \E request \in Requests, overshoot \in BOOLEAN :
  LET units == Charged(row, request)
      overlap == \E c \in Calls : call[c] # NoCall
  IN
  /\ row.status # "ABSENT" /\ grants < MaxGrants
  /\ CanConsume(row, request, overshoot)
  /\ row' = Consume(row, request)
  /\ granted' = [d \in Dims |-> granted[d] + units[d]]
  /\ strict' = IF overshoot THEN strict ELSE [d \in Dims |-> strict[d] + units[d]]
  /\ exposed' = IF overlap THEN [d \in Dims |-> exposed[d] + units[d]] ELSE exposed
  /\ grants' = grants + 1
  /\ UNCHANGED <<call, deleted, pause, reads>>

Next ==
  \/ \E c \in Calls : \/ CreateBudget(c) \/ UpdateBudget(c) \/ SuspendBudget(c)
                      \/ ReactivateBudget(c) \/ DeleteBudget(c) \/ Save(c) \/ Delete(c)
  \/ EvaluateAndConsume

Spec == Init /\ [][Next]_vars

--------------------------------------------------------------------------------
(* Properties.                                                                 *)

TypeOK ==
  /\ row \in Budgets \union {NoBudget}
  /\ call \in [Calls -> [op : {"none", "create", "update", "suspend", "reactivate", "delete"},
                         next : Budgets \union {NoBudget}]]
  /\ granted \in [Dims -> Nat] /\ strict \in [Dims -> Nat]
  /\ exposed \in [Dims -> Nat] /\ deleted \in [Dims -> Nat]
  /\ pause \in {"none", "sealed", "contested"} /\ reads \in Nat /\ grants \in Nat

\* The status tells the truth about the counters, whichever stale copy was saved
\* last: an ACTIVE budget has room in every dimension with a positive limit, an
\* EXHAUSTED one has none left in some dimension.
StatusAgreesWithCounters ==
  /\ row.status = "ACTIVE" =>
       \A d \in Tracked(row) : row.limits[d] > 0 => row.consumed[d] < row.limits[d]
  /\ row.status = "EXHAUSTED" =>
       \E d \in Tracked(row) : row.consumed[d] >= row.limits[d]

\* A granted unit is recorded, unless a budget that recorded it was deleted or
\* it was granted while an administrative call held an older copy; and nothing
\* is recorded that was not granted.
ConsumptionIsAccounted ==
  \A d \in Dims : /\ granted[d] <= row.consumed[d] + deleted[d] + exposed[d]
                  /\ row.consumed[d] <= granted[d]

\* Apart from overshoot, deleted budgets and the units granted during an
\* administrative call, a team is never granted more than the largest limit.
EnvelopeHolds == \A d \in Dims : strict[d] <= MaxLimit + deleted[d] + exposed[d]

\* A suspension that no other administrative call overlaps holds: nothing is
\* granted, not even overshoot, until a reactivation or a deletion is begun.
SealedSuspensionHolds == [][pause = "sealed" => granted' = granted]_vars
================================================================================
