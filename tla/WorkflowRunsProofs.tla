--------------------------- MODULE WorkflowRunsProofs ---------------------------
(***************************************************************************)
(* Proofs about WorkflowRuns, for any number of steps and of concurrent    *)
(* calls, any dependencies and retries.                                    *)
(*                                                                         *)
(* Good says what the local variables of a call are worth against the row: *)
(* as long as the call is not behind, and its catch block has not bumped   *)
(* its copy, the copy is what a read of the row returns (the row without   *)
(* its verdicts); and a list that nobody has overtaken                     *)
(* names steps that are runnable in the row.  A write by somebody else     *)
(* makes the call behind and its list overtaken, so nothing is left to     *)
(* preserve but what the call keeps to itself (OvertakenGood).             *)
(***************************************************************************)
EXTENDS WorkflowRuns, TLAPS, WellFoundedInduction, FiniteSetTheorems

Verdict == {"PASS", "FAIL"}
OnList == {"preflight", "policy", "dispatched", "running", "catch", "completed", "reload"}
Undecided == {"preflight", "policy", "dispatched", "running", "completed", "complete"}
Working == {"policy", "dispatched", "running", "completed"}

FirstOf(todo) == CHOOSE s \in todo : \A t \in todo : s <= t

Good(c, row) ==
  /\ c.pc = "returned" => c = Returned
  /\ c.behind = 0 /\ c.pc \notin {"returned", "catch"} => c.copy = mapRowToInstance(row)
  /\ c.behind = 0 /\ c.pc = "catch" /\ ~c.moved => c.copy = mapRowToInstance(row)
  /\ c.copy.verdict = Unjudged
  /\ c.behind # 0 /\ c.pc \in Undecided => c.moved
  /\ c.pc \in Undecided => c.copy.status = "RUNNING"
  /\ c.pc = "catch" => c.copy.status # "COMPLETED"
  /\ c.pc \in OnList => c.todo # {}
  /\ \A s, t \in c.todo : t \notin Deps[s]
  /\ ~c.moved /\ c.pc \in OnList =>
       \A s \in c.todo : (s = FirstOf(c.todo) /\ c.pc # "preflight") \/ Runnable(row, s)
  /\ c.pc \in {"policy", "dispatched", "running"} => c.copy.step[FirstOf(c.todo)] # "COMPLETED"
  /\ c.pc = "complete" => isCompleted(c.copy)

Copies == \A a \in Calls : Good(call[a], stored)
Inv == TypeOK /\ Copies /\ OneWriter

--------------------------------------------------------------------------------
(* Steps and lists.                                                            *)

\* < is well founded on the naturals, as a set of pairs.
LEMMA NatWF == IsWellFoundedOn({ss \in Nat \X Nat : ss[1] < ss[2]}, Nat)
  BY NatLessThanWellFounded DEF OpToRel

\* A non-empty list has a first step.
LEMMA FirstStep ==
  ASSUME NEW todo \in SUBSET Steps, todo # {}
  PROVE  FirstOf(todo) \in todo /\ FirstOf(todo) \in Steps
<1> DEFINE R == {ss \in Nat \X Nat : ss[1] < ss[2]}
<1>1. todo \subseteq Nat BY WorkflowAssumption DEF Steps
<1>2. \E x \in todo : \A y \in todo : ~ (<<y, x>> \in R)
  <2> HIDE DEF R
  <2> QED BY WFMin, NatWF, <1>1 DEF R
<1>3. PICK x \in todo : \A y \in todo : ~ (<<y, x>> \in R) BY <1>2
<1>4. \A y \in todo : x <= y
  <2> TAKE y \in todo
  <2>1. ~(y < x) BY <1>1, <1>3
  <2> QED BY <2>1, <1>1
<1> QED BY <1>4 DEF FirstOf

--------------------------------------------------------------------------------
(* What the transitions of an instance do.                                     *)

\* Setting the status of a step touches nothing else.
LEMMA MarkIs ==
  ASSUME NEW i \in Instance, NEW s \in Steps, NEW status \in StepStatus
  PROVE  /\ mark(i, s, status) \in Instance
         /\ mark(i, s, status).step = [i.step EXCEPT ![s] = status]
         /\ mark(i, s, status).status = i.status
         /\ mark(i, s, status).attempts = i.attempts
         /\ mark(i, s, status).verdict = i.verdict
<1> DEFINE steps == [i.step EXCEPT ![s] = status]
<1>1. steps \in [Steps -> StepStatus] BY DEF Instance
<1>2. mark(i, s, status) = [i EXCEPT !.step = steps] BY DEF mark, Instance
<1> HIDE DEF steps
<1>3. /\ [i EXCEPT !.step = steps] \in Instance
      /\ [i EXCEPT !.step = steps].step = steps
      /\ [i EXCEPT !.step = steps].status = i.status
      /\ [i EXCEPT !.step = steps].attempts = i.attempts
      /\ [i EXCEPT !.step = steps].verdict = i.verdict
  BY <1>1 DEF Instance
<1> QED BY <1>2, <1>3 DEF steps

\* A dispatch also counts an attempt.
LEMMA DispatchedIs ==
  ASSUME NEW i \in Instance, NEW s \in Steps
  PROVE  /\ markStepDispatched(i, s) \in Instance
         /\ markStepDispatched(i, s).step = [i.step EXCEPT ![s] = "DISPATCHED"]
         /\ markStepDispatched(i, s).status = i.status
         /\ markStepDispatched(i, s).attempts = [i.attempts EXCEPT ![s] = @ + 1]
         /\ markStepDispatched(i, s).verdict = i.verdict
<1> DEFINE steps == [i.step EXCEPT ![s] = "DISPATCHED"]
           counts == [i.attempts EXCEPT ![s] = @ + 1]
<1>1. steps \in [Steps -> StepStatus] BY DEF Instance, StepStatus
<1>2. counts \in [Steps -> Nat] BY DEF Instance
<1>3. markStepDispatched(i, s) = [i EXCEPT !.step = steps, !.attempts = counts]
  BY DEF markStepDispatched, Instance
<1> HIDE DEF steps, counts
<1>4. LET j == [i EXCEPT !.step = steps, !.attempts = counts]
      IN  /\ j \in Instance /\ j.step = steps /\ j.attempts = counts
          /\ j.status = i.status /\ j.verdict = i.verdict
  BY <1>1, <1>2 DEF Instance
<1> QED BY <1>3, <1>4 DEF steps, counts

\* A change of status, or of one verdict, touches nothing else.
LEMMA ExceptIs ==
  ASSUME NEW i \in Instance
  PROVE  /\ \A status \in Status :
              LET j == [i EXCEPT !.status = status]
              IN  /\ j \in Instance /\ j.status = status
                  /\ j.step = i.step /\ j.attempts = i.attempts /\ j.verdict = i.verdict
         /\ \A s \in Steps, v \in Verdict :
              LET j == [i EXCEPT !.verdict[s] = v]
              IN  /\ j \in Instance /\ j.verdict = [i.verdict EXCEPT ![s] = v]
                  /\ j.step = i.step /\ j.attempts = i.attempts /\ j.status = i.status
<1>1. ASSUME NEW status \in Status
      PROVE  LET j == [i EXCEPT !.status = status]
             IN  /\ j \in Instance /\ j.status = status
                 /\ j.step = i.step /\ j.attempts = i.attempts /\ j.verdict = i.verdict
  BY DEF Instance
<1>2. ASSUME NEW s \in Steps, NEW v \in Verdict
      PROVE  LET j == [i EXCEPT !.verdict[s] = v]
             IN  /\ j \in Instance /\ j.verdict = [i.verdict EXCEPT ![s] = v]
                 /\ j.step = i.step /\ j.attempts = i.attempts /\ j.status = i.status
  <2> DEFINE verdicts == [i.verdict EXCEPT ![s] = v]
  <2>1. verdicts \in [Steps -> {"NONE", "PASS", "FAIL"}] BY DEF Instance, Verdict
  <2>2. [i EXCEPT !.verdict[s] = v] = [i EXCEPT !.verdict = verdicts] BY DEF Instance
  <2> HIDE DEF verdicts
  <2>3. LET j == [i EXCEPT !.verdict = verdicts]
        IN  /\ j \in Instance /\ j.verdict = verdicts
            /\ j.step = i.step /\ j.attempts = i.attempts /\ j.status = i.status
    BY <2>1 DEF Instance
  <2> QED BY <2>2, <2>3 DEF verdicts
<1> QED BY <1>1, <1>2

\* A read loses the verdicts and nothing else, and has none to lose twice.
LEMMA ReadKeeps ==
  ASSUME NEW i \in Instance
  PROVE  LET j == mapRowToInstance(i)
         IN  /\ j \in Instance /\ j.verdict = Unjudged
             /\ j.status = i.status /\ j.step = i.step /\ j.attempts = i.attempts
             /\ i.verdict = Unjudged => j = i
<1>1. Unjudged \in [Steps -> {"NONE", "PASS", "FAIL"}] BY DEF Unjudged
<1> QED BY <1>1 DEF mapRowToInstance, Instance

\* What a transition of step s leaves of an instance.
KeepsOthers(i, j, s) ==
  /\ i \in Instance /\ j \in Instance
  /\ \A t \in Steps : t # s =>
       j.step[t] = i.step[t] /\ j.attempts[t] = i.attempts[t]
  /\ j.attempts[s] >= i.attempts[s]

\* No transition of a step touches another step, and attempts never decrease.
LEMMA TransitionsAreLocal ==
  ASSUME NEW i \in Instance, NEW s \in Steps
  PROVE  /\ \A status \in StepStatus :
              LET j == mark(i, s, status)
              IN  KeepsOthers(i, j, s) /\ j.status = i.status /\ j.verdict = i.verdict /\ j.step[s] = status
         /\ LET j == markStepDispatched(i, s)
            IN  KeepsOthers(i, j, s) /\ j.status = i.status /\ j.verdict = i.verdict /\ j.step[s] = "DISPATCHED"
         /\ LET j == markStepFailed(i, s)
            IN  /\ KeepsOthers(i, j, s) /\ j.verdict = i.verdict
                /\ j.status \in {i.status, "FAILED"} /\ j.step[s] \in {"PENDING", "FAILED"}
         /\ \A v \in Verdict :
              LET j == judged(i, s, v)
              IN  /\ KeepsOthers(i, j, s) /\ j.status \in {i.status, "FAILED"}
                  /\ v = "PASS" => j.status = i.status /\ j.step = i.step
                  /\ v = "FAIL" => j.step[s] \in {"PENDING", "FAILED"}
<1>0. i.attempts[s] \in Nat BY DEF Instance
<1>1. ASSUME NEW status \in StepStatus
      PROVE  LET j == mark(i, s, status)
             IN  KeepsOthers(i, j, s) /\ j.status = i.status /\ j.verdict = i.verdict /\ j.step[s] = status
  <2> DEFINE j == mark(i, s, status)
  <2>1. /\ j \in Instance /\ j.step = [i.step EXCEPT ![s] = status]
        /\ j.status = i.status /\ j.attempts = i.attempts /\ j.verdict = i.verdict
    BY MarkIs
  <2> HIDE DEF j
  <2>2. KeepsOthers(i, j, s) /\ j.status = i.status /\ j.verdict = i.verdict /\ j.step[s] = status
    BY <1>0, <2>1 DEF Instance, KeepsOthers
  <2> QED BY <2>2 DEF j
<1>2. LET j == markStepDispatched(i, s)
      IN  KeepsOthers(i, j, s) /\ j.status = i.status /\ j.verdict = i.verdict /\ j.step[s] = "DISPATCHED"
  <2> DEFINE j == markStepDispatched(i, s)
  <2>1. /\ j \in Instance /\ j.step = [i.step EXCEPT ![s] = "DISPATCHED"]
        /\ j.status = i.status /\ j.attempts = [i.attempts EXCEPT ![s] = @ + 1] /\ j.verdict = i.verdict
    BY DispatchedIs
  <2> HIDE DEF j
  <2>2. KeepsOthers(i, j, s) /\ j.status = i.status /\ j.verdict = i.verdict /\ j.step[s] = "DISPATCHED"
    BY <1>0, <2>1 DEF Instance, KeepsOthers
  <2> QED BY <2>2 DEF j
<1>3. LET j == markStepFailed(i, s)
      IN  /\ KeepsOthers(i, j, s) /\ j.verdict = i.verdict
          /\ j.status \in {i.status, "FAILED"} /\ j.step[s] \in {"PENDING", "FAILED"}
  <2>1. CASE willRetry(i, s) BY <1>1, <2>1 DEF markStepFailed, StepStatus
  <2>2. CASE ~willRetry(i, s)
    <3> DEFINE k == mark(i, s, "FAILED")
               j == [k EXCEPT !.status = "FAILED"]
    <3>1. KeepsOthers(i, k, s) /\ k.verdict = i.verdict /\ k.step[s] = "FAILED"
      BY <1>1 DEF StepStatus
    <3>2. markStepFailed(i, s) = j BY <2>2 DEF markStepFailed
    <3> HIDE DEF k
    <3>3. /\ j \in Instance /\ j.status = "FAILED"
          /\ j.step = k.step /\ j.attempts = k.attempts /\ j.verdict = k.verdict
      BY <3>1, ExceptIs DEF KeepsOthers, Status
    <3> HIDE DEF j
    <3>4. KeepsOthers(i, j, s) /\ j.verdict = i.verdict /\ j.status = "FAILED" /\ j.step[s] = "FAILED"
      BY <3>1, <3>3 DEF KeepsOthers
    <3> QED BY <3>2, <3>4
  <2> QED BY <2>1, <2>2
<1>4. ASSUME NEW v \in Verdict
      PROVE  LET j == judged(i, s, v)
             IN  /\ KeepsOthers(i, j, s) /\ j.status \in {i.status, "FAILED"}
                 /\ v = "PASS" => j.status = i.status /\ j.step = i.step
                 /\ v = "FAIL" => j.step[s] \in {"PENDING", "FAILED"}
  <2>1. CASE v = "PASS"
    <3> DEFINE j == [i EXCEPT !.verdict[s] = "PASS"]
    <3>1. judged(i, s, v) = j BY <2>1 DEF judged
    <3>2. /\ j \in Instance /\ j.verdict = [i.verdict EXCEPT ![s] = "PASS"]
          /\ j.step = i.step /\ j.attempts = i.attempts /\ j.status = i.status
      BY ExceptIs DEF Verdict
    <3> HIDE DEF j
    <3>3. KeepsOthers(i, j, s) BY <1>0, <3>2 DEF KeepsOthers, Instance
    <3> QED BY <2>1, <3>1, <3>2, <3>3
  <2>2. CASE v = "FAIL"
    <3> DEFINE k == markStepFailed(i, s)
               j == [k EXCEPT !.verdict[s] = "FAIL"]
    <3>1. judged(i, s, v) = j BY <2>2 DEF judged
    <3>2. KeepsOthers(i, k, s) /\ k.status \in {i.status, "FAILED"} /\ k.step[s] \in {"PENDING", "FAILED"}
      BY <1>3
    <3> HIDE DEF k
    <3>3. /\ j \in Instance /\ j.verdict = [k.verdict EXCEPT ![s] = "FAIL"]
          /\ j.step = k.step /\ j.attempts = k.attempts /\ j.status = k.status
      BY <3>2, ExceptIs DEF KeepsOthers, Verdict
    <3> HIDE DEF j
    <3>4. KeepsOthers(i, j, s) BY <3>2, <3>3 DEF KeepsOthers, Instance
    <3> QED BY <2>2, <3>1, <3>2, <3>3, <3>4
  <2> QED BY <2>1, <2>2 DEF Verdict
<1> QED BY <1>1, <1>2, <1>3, <1>4

--------------------------------------------------------------------------------
(* What a write, or a step of one call, leaves of the invariant.               *)

\* Whatever somebody else writes, a call that was good stays good: it is behind, and
\* its list is overtaken.
LEMMA OvertakenGood ==
  ASSUME NEW c \in Call, NEW row, NEW row2, Good(c, row)
  PROVE  /\ Overtaken(c) \in Call /\ Good(Overtaken(c), row2)
         /\ Overtaken(c).pc = c.pc
         /\ c.pc # "returned" => Overtaken(c).behind # 0
<1>1. CASE c = Returned
  BY <1>1 DEF Overtaken, Good, Returned, OnList, Undecided
<1>2. CASE c # Returned
  <2> DEFINE n == IF c.behind = 2 THEN 2 ELSE c.behind + 1
             d == [c EXCEPT !.behind = n, !.moved = TRUE]
  <2>0. n \in 0..2 /\ n # 0 BY DEF Call
  <2>1. Overtaken(c) = d BY <1>2 DEF Overtaken
  <2>2. c.pc # "returned" BY <1>2 DEF Good
  <2>3. /\ d \in Call /\ d.pc = c.pc /\ d.copy = c.copy /\ d.todo = c.todo
        /\ d.moved = TRUE /\ d.behind # 0
    <3> HIDE DEF n
    <3> QED BY <2>0 DEF Call
  <2> HIDE DEF d
  <2>4. Good(d, row2) BY <2>2, <2>3 DEF Good
  <2> QED BY <2>1, <2>2, <2>3, <2>4
<1> QED BY <1>1, <1>2

\* A call writes: the others are overtaken, so it is the one that can still save.
LEMMA WriteInv ==
  ASSUME Inv, NEW a \in Calls, NEW i \in Instance, NEW c \in Call, Good(c, i), Write(a, i, c)
  PROVE  Inv'
<1>1. /\ stored' = i /\ call'[a] = c
      /\ \A b \in Calls : b # a => call'[b] = Overtaken(call[b])
      /\ DOMAIN call' = Calls /\ call' = [b \in Calls |-> call'[b]]
  BY DEF Write
<1>2. \A b \in Calls : call[b] \in Call /\ Good(call[b], stored)
  BY DEF Inv, TypeOK, Copies
<1>3. \A b \in Calls : b # a =>
        /\ call'[b] \in Call /\ Good(call'[b], i) /\ call'[b].pc = call[b].pc
        /\ call[b].pc # "returned" => call'[b].behind # 0
  BY <1>1, <1>2, OvertakenGood
<1>4. TypeOK' BY <1>1, <1>3 DEF TypeOK
<1>5. Copies' BY <1>1, <1>3 DEF Copies
<1>6. OneWriter' BY <1>1, <1>3 DEF OneWriter, Current
<1> QED BY <1>4, <1>5, <1>6 DEF Inv

\* A write from outside leaves no call that could still save.
LEMMA OutsideInv ==
  ASSUME Inv, NEW i \in Instance, WriteFromOutside(i)
  PROVE  Inv'
<1>1. /\ stored' = i
      /\ \A b \in Calls : call'[b] = Overtaken(call[b])
      /\ call' = [b \in Calls |-> call'[b]]
  BY DEF WriteFromOutside
<1>2. \A b \in Calls : call[b] \in Call /\ Good(call[b], stored)
  BY DEF Inv, TypeOK, Copies
<1>3. \A b \in Calls :
        /\ call'[b] \in Call /\ Good(call'[b], i) /\ call'[b].pc = call[b].pc
        /\ call[b].pc # "returned" => call'[b].behind # 0
  BY <1>1, <1>2, OvertakenGood
<1>4. TypeOK' BY <1>1, <1>3 DEF TypeOK
<1>5. Copies' BY <1>1, <1>3 DEF Copies
<1>6. OneWriter' BY <1>1, <1>3 DEF OneWriter, Current
<1> QED BY <1>4, <1>5, <1>6 DEF Inv

\* A call goes on without a write, and not into the places where it will save.
LEMMA ContinueInv ==
  ASSUME Inv, NEW a \in Calls, NEW c \in Call, Good(c, stored), c.pc \notin Working,
         Continue(a, c)
  PROVE  Inv'
<1>1. stored' = stored /\ call' = [call EXCEPT ![a] = c] BY DEF Continue
<1>2. /\ call'[a] = c /\ \A b \in Calls : b # a => call'[b] = call[b]
      /\ call' \in [Calls -> Call]
  BY <1>1 DEF Inv, TypeOK
<1>3. TypeOK' BY <1>1, <1>2 DEF Inv, TypeOK
<1>4. Copies' BY <1>1, <1>2 DEF Inv, Copies
<1>5. OneWriter' BY <1>1, <1>2 DEF Inv, OneWriter, Current, Working
<1> QED BY <1>3, <1>4, <1>5 DEF Inv

\* No call is good against any row.
LEMMA ReturnedGood == \A row : Returned \in Call /\ Good(Returned, row)
<1>1. Started \in Instance
  BY DEF Started, Unjudged, Instance, Status, StepStatus
<1>2. Returned \in Call BY <1>1 DEF Returned, Call
<1>3. \A row : Good(Returned, row) BY DEF Good, Returned, Started, OnList, Undecided
<1> QED BY <1>2, <1>3

\* A conflict that leaves advanceWorkflow keeps the invariant.
LEMMA RejectInv ==
  ASSUME Inv, NEW a \in Calls, ConflictRejects(a)
  PROVE  Inv'
BY ContinueInv, ReturnedGood DEF ConflictRejects, Returned, Working

\* What a list promises of the steps after the first is kept by a transition of the
\* first, since no step of a list depends on another.
LEMMA RunnableKept ==
  ASSUME NEW i, NEW j, NEW s \in Steps, KeepsOthers(i, j, s),
         NEW t \in Steps, t # s, s \notin Deps[t], Runnable(i, t)
  PROVE  Runnable(j, t)
<1>1. Deps[t] \subseteq Steps BY WorkflowAssumption
<1> QED BY <1>1 DEF Runnable, DependencyDone, KeepsOthers

SavePlaces == {"policy", "dispatched", "running", "completed", "reload"}

\* A save by a call that is not behind: Good holds again of its copy and the row.
LEMMA SavesInv ==
  ASSUME Inv, NEW a \in Calls, NEW j \in Instance, NEW p \in SavePlaces, Saves(a, j, p),
         call[a].pc \in OnList,
         KeepsOthers(call[a].copy, j, Step(a)), j.verdict = call[a].copy.verdict,
         p # "reload" => j.status = "RUNNING",
         p \in {"policy", "dispatched", "running"} => j.step[Step(a)] # "COMPLETED"
  PROVE  Inv'
<1> DEFINE c == call[a]
           d == [c EXCEPT !.copy = j, !.pc = p]
<1>1. c \in Call /\ Good(c, stored) /\ c.behind = 0 /\ Write(a, j, d)
  BY DEF Inv, TypeOK, Copies, Saves, Current
<1>2. /\ d \in Call /\ d.copy = j /\ d.pc = p /\ d.behind = 0
      /\ d.todo = c.todo /\ d.moved = c.moved
  BY <1>1 DEF Call, SavePlaces
<1>3. Step(a) = FirstOf(c.todo) BY DEF Step, FirstOf
<1>4. c.todo \in SUBSET Steps /\ c.todo # {} /\ FirstOf(c.todo) \in Steps /\ FirstOf(c.todo) \in c.todo
  BY <1>1, FirstStep DEF Good, Call
<1> HIDE DEF c, d
<1>5. ASSUME ~c.moved, NEW t \in c.todo, t # FirstOf(c.todo)
      PROVE  Runnable(j, t)
  <2>0. stored \in Instance BY DEF Inv, TypeOK
  <2>1. c.copy.step = stored.step BY <1>1, <1>5, <2>0, ReadKeeps DEF Good, OnList, c
  <2>2. Runnable(c.copy, t) /\ FirstOf(c.todo) \notin Deps[t]
    BY <1>1, <1>4, <1>5, <2>1 DEF Good, Runnable, DependencyDone, c
  <2> QED BY <1>3, <1>4, <1>5, <2>2, RunnableKept DEF c
<1>6. Good(d, j)
  <2>1. \A s, t \in d.todo : t \notin Deps[s] BY <1>1, <1>2 DEF Good
  <2>2. ~d.moved => \A s \in d.todo : (s = FirstOf(d.todo) /\ d.pc # "preflight") \/ Runnable(j, s)
    BY <1>2, <1>5 DEF SavePlaces
  <2>3. j.verdict = Unjudged /\ j = mapRowToInstance(j) BY <1>1, ReadKeeps DEF Good, c
  <2> QED BY <1>2, <1>3, <1>4, <2>1, <2>2, <2>3 DEF Good, SavePlaces, Undecided, OnList
<1> QED BY <1>1, <1>2, <1>6, WriteInv
--------------------------------------------------------------------------------
(* The invariant is inductive: one step per action.                            *)

\* startWorkflow() leaves an instance and no calls: the invariant holds.
LEMMA InvInit == Init => Inv
<1> SUFFICES ASSUME Init PROVE Inv OBVIOUS
<1>1. Started \in Instance BY DEF Started, Unjudged, Instance, Status, StepStatus
<1>2. \A a \in Calls : call[a] = Returned BY DEF Init
<1>3. TypeOK BY <1>1, ReturnedGood DEF Init, TypeOK
<1>4. Copies BY <1>2, ReturnedGood DEF Copies
<1>5. OneWriter BY <1>2 DEF OneWriter, Returned
<1> QED BY <1>3, <1>4, <1>5 DEF Inv

\* What Inv says of a call that may save: where it stands, and that its copy is the row.
LEMMA Acting ==
  ASSUME Inv, NEW a \in Calls, call[a].pc \in OnList
  PROVE  /\ Step(a) \in Steps /\ Step(a) = FirstOf(call[a].todo) /\ Step(a) \in call[a].todo
         /\ call[a].copy \in Instance /\ stored \in Instance
         /\ Current(a) /\ call[a].pc # "catch" => call[a].copy = findById
         /\ call[a].pc \in Undecided => call[a].copy.status = "RUNNING"
         /\ call[a].pc \in {"policy", "dispatched", "running"} => call[a].copy.step[Step(a)] # "COMPLETED"
<1>1. call[a] \in Call /\ Good(call[a], stored) /\ stored \in Instance
  BY DEF Inv, TypeOK, Copies
<1>2. Step(a) = FirstOf(call[a].todo) BY DEF Step, FirstOf
<1>3. call[a].todo \in SUBSET Steps /\ call[a].todo # {} BY <1>1 DEF Good, Call
<1>4. FirstOf(call[a].todo) \in Steps /\ FirstOf(call[a].todo) \in call[a].todo
  BY <1>3, FirstStep
<1> QED BY <1>1, <1>2, <1>4 DEF Good, Call, Current, OnList, findById

\* The list of a call that has just read the row.
LEMMA NextRoundGood == ASSUME stored \in Instance, stored.status = "RUNNING"
                       PROVE  NextRound \in Call /\ Good(NextRound, stored) /\ NextRound.pc \notin Working
<1> DEFINE runnable == getNextRunnableStepIds(findById)
<1>0. findById \in Instance /\ findById.status = "RUNNING" /\ findById.step = stored.step
      /\ findById.verdict = Unjudged
  BY ReadKeeps DEF findById
<1>1. runnable \subseteq Steps /\ \A s \in runnable : Runnable(stored, s)
  BY <1>0 DEF getNextRunnableStepIds, Runnable, DependencyDone
<1>2. \A s, t \in runnable : t \notin Deps[s]
  BY <1>1, WorkflowAssumption DEF Runnable, DependencyDone
<1> HIDE DEF runnable
<1>3. CASE runnable # {}
  <2> DEFINE d == Loaded("preflight", runnable, FALSE)
  <2>1. NextRound = d BY <1>3 DEF NextRound, runnable
  <2>2. /\ d \in Call /\ d.pc = "preflight" /\ d.copy = findById /\ d.behind = 0
        /\ d.todo = runnable /\ d.moved = FALSE
    BY <1>0, <1>1 DEF Loaded, Call
  <2> HIDE DEF d
  <2>3. Good(d, stored) BY <1>0, <1>1, <1>2, <1>3, <2>2 DEF Good, Undecided, OnList, findById
  <2> QED BY <2>1, <2>2, <2>3 DEF Working
<1>4. CASE runnable = {} /\ isCompleted(findById)
  <2> DEFINE d == Loaded("complete", {}, FALSE)
  <2>1. NextRound = d BY <1>4 DEF NextRound, runnable
  <2>2. /\ d \in Call /\ d.pc = "complete" /\ d.copy = findById /\ d.behind = 0
        /\ d.todo = {} /\ d.moved = FALSE
    BY <1>0 DEF Loaded, Call
  <2> HIDE DEF d
  <2>3. Good(d, stored) BY <1>0, <1>4, <2>2 DEF Good, Undecided, OnList, findById
  <2> QED BY <2>1, <2>2, <2>3 DEF Working
<1>5. CASE runnable = {} /\ ~isCompleted(findById)
  <2>1. NextRound = Returned BY <1>5 DEF NextRound, runnable
  <2> QED BY <2>1, ReturnedGood DEF Working, Returned
<1> QED BY <1>3, <1>4, <1>5

\* A call of advanceWorkflow reads the row and computes its list.
LEMMA AdvanceInv == ASSUME Inv, NEW a \in Calls, Advance(a) PROVE Inv'
BY ContinueInv, NextRoundGood DEF Advance, Inv, TypeOK

\* A call reads the row again between two steps of its list.
LEMMA ReloadInv == ASSUME Inv, NEW a \in Calls, Reload(a) PROVE Inv'
<1> DEFINE c == call[a]
           remaining == c.todo \ {Step(a)}
<1>1. c \in Call /\ Good(c, stored) /\ c.pc = "reload" /\ stored \in Instance
  BY DEF Reload, Inv, TypeOK, Copies
<1>2. Step(a) = FirstOf(c.todo) BY Acting, <1>1 DEF OnList
<1>3. AfterReload(a) \in Call /\ Good(AfterReload(a), stored) /\ AfterReload(a).pc \notin Working
  <2>1. CASE stored.status # "RUNNING"
    BY <2>1, ReturnedGood DEF AfterReload, Returned, Working
  <2>2. CASE stored.status = "RUNNING" /\ remaining # {}
    <3> DEFINE d == Loaded("preflight", remaining, c.moved)
    <3>1. AfterReload(a) = d BY <2>2 DEF AfterReload
    <3>0. findById \in Instance /\ findById.status = "RUNNING" /\ findById.verdict = Unjudged
      BY <1>1, <2>2, ReadKeeps DEF findById
    <3>2. /\ d \in Call /\ d.pc = "preflight" /\ d.copy = findById /\ d.behind = 0
          /\ d.todo = remaining /\ d.moved = c.moved
      BY <1>1, <3>0 DEF Loaded, Call
    <3> HIDE DEF d
    <3>3. \A s, t \in remaining : t \notin Deps[s] BY <1>1 DEF Good
    <3>4. ~c.moved => \A s \in remaining : Runnable(stored, s)
      BY <1>1, <1>2 DEF Good, OnList
    <3> HIDE DEF remaining
    <3>5. Good(d, stored) BY <2>2, <3>0, <3>2, <3>3, <3>4 DEF Good, Undecided, OnList, findById
    <3> QED BY <3>1, <3>2, <3>5 DEF Working
  <2>3. CASE stored.status = "RUNNING" /\ remaining = {}
    BY <2>3, <1>1, NextRoundGood DEF AfterReload
  <2> QED BY <2>1, <2>2, <2>3
<1> QED BY <1>3, ContinueInv DEF Reload

\* A call completes the instance, or finds its row moved.
LEMMA CompleteInv == ASSUME Inv, NEW a \in Calls, Complete(a) PROVE Inv'
<1> DEFINE i == [call[a].copy EXCEPT !.status = "COMPLETED"]
<1>1. call[a].copy \in Instance BY DEF Inv, TypeOK, Call
<1>2. i \in Instance BY <1>1, ExceptIs DEF Status
<1>3. ASSUME Write(a, i, Returned) PROVE Inv'
  <2> HIDE DEF i
  <2> QED BY <1>2, <1>3, ReturnedGood, WriteInv
<1> QED BY <1>3, RejectInv DEF Complete
\* Failed(a), saved: the call reloads the row and looks for the next step.
LEMMA FailedInv ==
  ASSUME Inv, NEW a \in Calls, call[a].pc \in OnList, Saves(a, Failed(a), "reload")
  PROVE  Inv'
<1>1. KeepsOthers(call[a].copy, Failed(a), Step(a)) /\ Failed(a).verdict = call[a].copy.verdict
  BY Acting, TransitionsAreLocal DEF Failed
<1> QED BY <1>1, SavesInv DEF KeepsOthers, SavePlaces, Undecided

\* Marked(a, status), saved.
LEMMA MarkedInv ==
  ASSUME Inv, NEW a \in Calls, call[a].pc \in Undecided \cap OnList,
         NEW status \in StepStatus, NEW p \in SavePlaces, Saves(a, Marked(a, status), p),
         p \in {"policy", "dispatched", "running"} => status # "COMPLETED"
  PROVE  Inv'
<1> DEFINE j == Marked(a, status)
<1>1. /\ KeepsOthers(call[a].copy, j, Step(a)) /\ j.verdict = call[a].copy.verdict
      /\ j.status = "RUNNING" /\ j.step[Step(a)] = status
  BY Acting, TransitionsAreLocal DEF Marked
<1> HIDE DEF j
<1>2. j \in Instance BY <1>1 DEF KeepsOthers
<1>3. Saves(a, j, p) BY DEF j
<1> QED BY <1>1, <1>2, <1>3, SavesInv

\* The saves of executeStep before its try: refusal, assignment, denial, dispatch.
LEMMA OutsideTryInv ==
  ASSUME Inv, NEW a \in Calls, Refuse(a) \/ Assign(a) \/ Deny(a) \/ Dispatch(a) \/ Execute(a)
  PROVE  Inv'
<1>1. CASE Refuse(a) BY <1>1, FailedInv, RejectInv DEF Refuse, OnList
<1>2. CASE Assign(a)
  BY <1>2, MarkedInv, RejectInv DEF Assign, OnList, Undecided, StepStatus, SavePlaces
<1>3. CASE Deny(a) BY <1>3, FailedInv, RejectInv DEF Deny, OnList
<1>4. CASE Dispatch(a)
  <2> DEFINE j == markStepDispatched(call[a].copy, Step(a))
  <2>1. call[a].pc \in OnList /\ call[a].pc \in Undecided BY <1>4 DEF Dispatch, OnList, Undecided
  <2>2. /\ KeepsOthers(call[a].copy, j, Step(a)) /\ j.verdict = call[a].copy.verdict
        /\ j.status = "RUNNING" /\ j.step[Step(a)] = "DISPATCHED"
    BY <2>1, Acting, TransitionsAreLocal
  <2>3. Saves(a, j, "dispatched") \/ ConflictRejects(a) BY <1>4 DEF Dispatch
  <2> HIDE DEF j
  <2>4. j \in Instance BY <2>2 DEF KeepsOthers
  <2>5. CASE Saves(a, j, "dispatched") BY <2>1, <2>2, <2>4, <2>5, SavesInv DEF SavePlaces
  <2> QED BY <2>3, <2>5, RejectInv
<1>5. CASE Execute(a)
  BY <1>5, MarkedInv, RejectInv DEF Execute, OnList, Undecided, StepStatus, SavePlaces
<1> QED BY <1>1, <1>2, <1>3, <1>4, <1>5

\* A conflict in the try: the list was overtaken, so nothing is said of the copy.
LEMMA CaughtInv ==
  ASSUME Inv, NEW a \in Calls, call[a].pc = "running", NEW i \in Instance, i.status # "COMPLETED",
         i.verdict = call[a].copy.verdict, ConflictIsCaught(a, i)
  PROVE  Inv'
<1> DEFINE c == call[a]
           n == c.behind - 1
           d == [c EXCEPT !.copy = i, !.behind = n, !.pc = "catch"]
<1>1. c \in Call /\ Good(c, stored) /\ c.behind # 0 /\ Continue(a, d)
  BY DEF Inv, TypeOK, Copies, ConflictIsCaught, Current
<1>2. n \in 0..2 BY <1>1 DEF Call
<1>3. /\ d \in Call /\ d.pc = "catch" /\ d.todo = c.todo /\ d.moved = c.moved /\ d.copy = i
  <2> HIDE DEF n
  <2> QED BY <1>1, <1>2 DEF Call
<1>4. c.moved = TRUE BY <1>1 DEF Good, Undecided, Call
<1> HIDE DEF d
<1>5. Good(d, stored) BY <1>1, <1>3, <1>4 DEF Good, Undecided, OnList
<1> QED BY <1>1, <1>3, <1>5, ContinueInv DEF Working

\* A call moves to a place from which it will not decide anything new.
LEMMA MovesInv ==
  ASSUME Inv, NEW a \in Calls, call[a].pc \in {"running", "completed"},
         NEW p \in {"catch", "reload"}, Continue(a, [call[a] EXCEPT !.pc = p])
  PROVE  Inv'
<1> DEFINE c == call[a]
           d == [c EXCEPT !.pc = p]
<1>1. c \in Call /\ Good(c, stored) /\ Continue(a, d) BY DEF Inv, TypeOK, Copies
<1>2. /\ d \in Call /\ d.pc = p /\ d.todo = c.todo /\ d.moved = c.moved
      /\ d.copy = c.copy /\ d.behind = c.behind
  BY <1>1 DEF Call
<1> HIDE DEF d
<1>3. Good(d, stored) BY <1>1, <1>2 DEF Good, Undecided, OnList
<1> QED BY <1>1, <1>2, <1>3, ContinueInv DEF Working

\* What happens in the try of executeStep: success, failure, the catch block.
LEMMA InsideTryInv ==
  ASSUME Inv, NEW a \in Calls,
         Succeed(a) \/ Fail(a) \/ Throw(a) \/ Catch(a) \/ FinishStep(a)
  PROVE  Inv'
<1>1. CASE Succeed(a)
  <2>1. call[a].pc = "running" /\ call[a].pc \in OnList /\ call[a].pc \in Undecided
    BY <1>1 DEF Succeed, OnList, Undecided
  <2>2. /\ Marked(a, "COMPLETED") \in Instance /\ Marked(a, "COMPLETED").status # "COMPLETED"
        /\ Marked(a, "COMPLETED").verdict = call[a].copy.verdict
    <3>1. /\ Step(a) \in Steps /\ call[a].copy \in Instance
          /\ call[a].copy.status = "RUNNING" /\ "COMPLETED" \in StepStatus
      BY <2>1, Acting DEF StepStatus
    <3> QED BY <3>1, MarkIs DEF Marked
  <2>3. CASE ConflictIsCaught(a, Marked(a, "COMPLETED")) BY <2>1, <2>2, <2>3, CaughtInv
  <2>4. CASE Saves(a, Marked(a, "COMPLETED"), "completed")
    BY <2>1, <2>4, MarkedInv DEF StepStatus, SavePlaces
  <2> QED BY <1>1, <2>3, <2>4 DEF Succeed
<1>2. CASE Fail(a)
  <2>1. call[a].pc = "running" /\ call[a].pc \in OnList /\ call[a].pc \in Undecided
    BY <1>2 DEF Fail, OnList, Undecided
  <2>2. /\ Failed(a) \in Instance /\ Failed(a).status # "COMPLETED"
        /\ Failed(a).verdict = call[a].copy.verdict
    BY <2>1, Acting, TransitionsAreLocal DEF Failed, KeepsOthers
  <2>3. CASE ConflictIsCaught(a, Failed(a)) BY <2>1, <2>2, <2>3, CaughtInv
  <2>4. CASE Saves(a, Failed(a), "reload") BY <2>1, <2>4, FailedInv
  <2> QED BY <1>2, <2>3, <2>4 DEF Fail
<1>3. CASE Throw(a) BY <1>3, MovesInv DEF Throw
<1>4. CASE Catch(a) BY <1>4, FailedInv, RejectInv DEF Catch, OnList
<1>5. CASE FinishStep(a) BY <1>5, MovesInv DEF FinishStep
<1> QED BY <1>1, <1>2, <1>3, <1>4, <1>5

\* Operators, verdicts from outside, and a crash.
LEMMA OthersInv ==
  ASSUME Inv, \/ Pause \/ Resume \/ Cancel \/ Crash
              \/ \E s \in Steps, v \in Verdict : Judge(s, v)
  PROVE  Inv'
<1>0. stored \in Instance /\ findById \in Instance BY ReadKeeps DEF Inv, TypeOK, findById
<1>1. CASE Pause BY <1>0, <1>1, ExceptIs, OutsideInv DEF Pause, Status
<1>2. CASE Resume BY <1>0, <1>2, ExceptIs, OutsideInv DEF Resume, Status
<1>3. CASE Cancel BY <1>0, <1>3, ExceptIs, OutsideInv DEF Cancel, Status
<1>4. CASE Crash
  <2>1. stored' = stored /\ call' = [a \in Calls |-> Returned] BY <1>4 DEF Crash
  <2>2. TypeOK' BY <1>0, <2>1, ReturnedGood DEF TypeOK
  <2>3. Copies' BY <2>1, ReturnedGood DEF Copies
  <2>4. OneWriter' BY <2>1 DEF OneWriter, Returned
  <2> QED BY <2>2, <2>3, <2>4 DEF Inv
<1>5. CASE \E s \in Steps, v \in Verdict : Judge(s, v)
  <2>1. PICK s \in Steps, v \in Verdict : Judge(s, v) BY <1>5
  <2>2. judged(findById, s, v) \in Instance BY <1>0, TransitionsAreLocal DEF KeepsOthers
  <2> QED BY <2>1, <2>2, OutsideInv DEF Judge
<1> QED BY <1>1, <1>2, <1>3, <1>4, <1>5

\* Every step of every actor keeps the invariant.
LEMMA InvNext == Inv /\ [Next]_vars => Inv'
<1> SUFFICES ASSUME Inv, [Next]_vars PROVE Inv' OBVIOUS
<1>1. CASE UNCHANGED vars
  BY <1>1 DEF vars, Inv, TypeOK, Copies, OneWriter, Current
<1>2. ASSUME NEW a \in Calls, Advance(a) \/ CallStep(a) PROVE Inv'
  BY <1>2, AdvanceInv, ReloadInv, CompleteInv, OutsideTryInv, InsideTryInv
     DEF CallStep
<1> QED BY <1>1, <1>2, OthersInv DEF Next, Verdict

\* The invariant holds in every reachable state: a call that may save has the row in
\* hand, and what its list says of the row is still true unless others have written.
THEOREM InvCorrect == Spec => []Inv
BY InvInit, InvNext, PTL DEF Spec
--------------------------------------------------------------------------------
(* The properties.                                                             *)

\* Every variable keeps its shape.
THEOREM TypeCorrect == Spec => []TypeOK
<1>1. Inv => TypeOK BY DEF Inv
<1> QED BY <1>1, InvCorrect, PTL

\* Of the calls that are executing a step, at most one can still save: any number of
\* calls, of any instance.
THEOREM OneWriterCorrect == Spec => []OneWriter
<1>1. Inv => OneWriter BY DEF Inv
<1> QED BY <1>1, InvCorrect, PTL

\* What changes the row: a call that saves what it made of the row, a completion,
\* an operator, a verdict; each starts from what a read of the row returns.  The catch
\* block saves what it made of its own copy.
LEMMA RowChanges ==
  ASSUME Inv, [Next]_vars, stored' # stored
  PROVE  \/ CatchSaves /\ \E a \in Calls : call[a].pc = "catch" /\ stored' = Failed(a)
         \/ \E a \in Calls : /\ call[a].pc = "preflight"
                              /\ stored' \in {Failed(a), Marked(a, "ASSIGNING")}
                              /\ call[a].copy = findById
         \/ \E a \in Calls : /\ call[a].pc \in {"policy", "dispatched", "running"}
                              /\ stored' \in {Failed(a), markStepDispatched(findById, Step(a)),
                                              Marked(a, "RUNNING"), Marked(a, "COMPLETED")}
                              /\ call[a].copy = findById
         \/ \E a \in Calls : /\ call[a].pc = "complete" /\ call[a].copy = findById
                              /\ stored' = [findById EXCEPT !.status = "COMPLETED"]
         \/ Pause \/ Resume \/ Cancel
         \/ \E s \in Steps, v \in Verdict : stored' = judged(findById, s, v)
<1>1. ASSUME NEW a \in Calls, Current(a), call[a].pc # "catch", call[a].pc # "returned"
      PROVE  call[a].copy = findById
  BY <1>1 DEF Inv, Copies, Good, Current, findById
<1>2. ASSUME NEW a \in Calls, NEW i, NEW p, Saves(a, i, p), call[a].pc = "catch"
      PROVE  call'[a].pc = p
  <2>1. call'[a] = [call[a] EXCEPT !.copy = i, !.pc = p] /\ call[a] \in Call
    BY <1>2 DEF Saves, Write, Inv, TypeOK
  <2> QED BY <2>1 DEF Call
<1>3. ASSUME NEW a \in Calls, Refuse(a) \/ Assign(a)
      PROVE  /\ call[a].pc = "preflight" /\ stored' \in {Failed(a), Marked(a, "ASSIGNING")}
             /\ call[a].copy = findById
  BY <1>1, <1>3 DEF Refuse, Assign, Saves, Write, ConflictRejects, Continue
<1>4. ASSUME NEW a \in Calls, Deny(a) \/ Dispatch(a) \/ Execute(a) \/ Succeed(a) \/ Fail(a)
      PROVE  /\ call[a].pc \in {"policy", "dispatched", "running"}
             /\ stored' \in {Failed(a), markStepDispatched(findById, Step(a)),
                             Marked(a, "RUNNING"), Marked(a, "COMPLETED")}
             /\ call[a].copy = findById
  BY <1>1, <1>4 DEF Deny, Dispatch, Execute, Succeed, Fail, Saves, Write, ConflictRejects,
                    ConflictIsCaught, Continue
<1>5. ASSUME NEW a \in Calls, Complete(a)
      PROVE  /\ call[a].pc = "complete" /\ call[a].copy = findById
             /\ stored' = [findById EXCEPT !.status = "COMPLETED"]
  BY <1>1, <1>5 DEF Complete, Write, ConflictRejects, Continue
<1>6. ASSUME NEW a \in Calls, Catch(a)
      PROVE  CatchSaves /\ call[a].pc = "catch" /\ stored' = Failed(a)
  <2>1. call[a].pc = "catch" /\ Saves(a, Failed(a), "reload")
    BY <1>6 DEF Catch, ConflictRejects, Continue
  <2>2. call'[a].pc = "reload" BY <1>2, <2>1
  <2>3. stored' = Failed(a) BY <2>1 DEF Saves, Write
  <2> QED BY <2>1, <2>2, <2>3 DEF CatchSaves
<1>7. ASSUME NEW a \in Calls, Advance(a) \/ Reload(a) \/ Throw(a) \/ FinishStep(a) PROVE FALSE
  BY <1>7 DEF Advance, Reload, Throw, FinishStep, Continue
<1>8. ASSUME NEW s \in Steps, NEW v \in Verdict, Judge(s, v) PROVE stored' = judged(findById, s, v)
  BY <1>8 DEF Judge, WriteFromOutside
<1>9. ASSUME NEW a \in Calls, CallStep(a)
       PROVE  \/ Refuse(a) \/ Assign(a)
              \/ Deny(a) \/ Dispatch(a) \/ Execute(a) \/ Succeed(a) \/ Fail(a)
              \/ Complete(a) \/ Catch(a)
  BY <1>7, <1>9 DEF CallStep
<1>10. ~Crash /\ ~UNCHANGED vars BY DEF Crash, vars
<1>11. \/ \E a \in Calls : CallStep(a)
       \/ Pause \/ Resume \/ Cancel
       \/ \E s \in Steps, v \in Verdict : Judge(s, v)
  BY <1>7, <1>10 DEF Next, Verdict
<1>12. CASE \E a \in Calls : CallStep(a)
  <2>1. PICK a \in Calls : CallStep(a) BY <1>12
  <2>2. CASE Refuse(a) \/ Assign(a) BY <1>3, <2>2
  <2>3. CASE Deny(a) \/ Dispatch(a) \/ Execute(a) \/ Succeed(a) \/ Fail(a) BY <1>4, <2>3
  <2>4. CASE Complete(a) BY <1>5, <2>4
  <2>5. CASE Catch(a) BY <1>6, <2>5
  <2> QED BY <2>1, <2>2, <2>3, <2>4, <2>5, <1>9
<1> QED BY <1>8, <1>11, <1>12

\* A pause, a cancellation and an outcome stand, whatever the calls in progress do,
\* except against a failing verdict and the catch block of executeStep.
THEOREM DecisionsStandCorrect == Spec => DecisionsStand
<1> DEFINE Allowed == \/ Resume \/ Cancel
                      \/ \E s \in Steps : stored' = judged(findById, s, "FAIL")
                      \/ CatchSaves
           A == stored.status # "RUNNING" /\ stored'.status # stored.status => Allowed
<1>1. Inv /\ [Next]_vars => [A]_vars
  <2> SUFFICES ASSUME Inv, [Next]_vars, stored.status # "RUNNING", stored'.status # stored.status
               PROVE  Allowed
    OBVIOUS
  <2>0. /\ stored' # stored /\ stored \in Instance
        /\ findById \in Instance /\ findById.status = stored.status
        /\ findById.step = stored.step /\ findById.attempts = stored.attempts
    BY ReadKeeps DEF Inv, TypeOK, findById
  <2>1. ASSUME NEW a \in Calls, call[a].copy = findById PROVE call[a].pc \notin Undecided
    BY <2>0, <2>1 DEF Inv, Copies, Good
  <2>2. ASSUME NEW s \in Steps, NEW v \in Verdict, stored' = judged(findById, s, v) PROVE Allowed
    <3>1. v # "PASS" BY <2>0, <2>2, TransitionsAreLocal
    <3> QED BY <2>2, <3>1 DEF Verdict
  <2>3. ~Pause BY DEF Pause
  <2> HIDE DEF Allowed
  <2>4. CatchSaves \/ Resume \/ Cancel => Allowed BY DEF Allowed
  <2> QED BY <2>0, <2>1, <2>2, <2>3, <2>4, RowChanges DEF Undecided
<1> QED BY <1>1, InvCorrect, PTL DEF Spec, DecisionsStand

\* The attempts of a step only grow, and a completed step is taken back only by a
\* failing verdict, the catch block, or a call whose list is out of date.
THEOREM RecordsStandCorrect == Spec => RecordsStand
<1> DEFINE Stands(s) ==
             /\ stored'.attempts[s] >= stored.attempts[s]
             /\ stored.step[s] = "COMPLETED" /\ stored'.step[s] # "COMPLETED" =>
                  \/ stored' = judged(findById, s, "FAIL")
                  \/ \E a \in Calls : call[a].pc = "preflight" /\ call[a].moved /\ Step(a) = s
<1>1. Inv /\ [Next]_vars => [CatchSaves \/ \A s \in Steps : Stands(s)]_vars
  <2> SUFFICES ASSUME Inv, [Next]_vars, stored' # stored, ~CatchSaves, NEW s \in Steps
               PROVE  Stands(s)
    BY DEF vars, Inv, TypeOK, Instance
  <2>0. /\ stored \in Instance /\ stored.attempts[s] \in Nat
        /\ findById \in Instance /\ findById.status = stored.status
        /\ findById.step = stored.step /\ findById.attempts = stored.attempts
    BY ReadKeeps DEF Inv, TypeOK, Instance, findById
  <2>1. ASSUME NEW t \in Steps, KeepsOthers(findById, stored', t),
               stored.step[t] = "COMPLETED" =>
                 \E a \in Calls : call[a].pc = "preflight" /\ call[a].moved /\ Step(a) = t
        PROVE  Stands(s)
    BY <2>0, <2>1 DEF KeepsOthers
  <2>2. ASSUME NEW a \in Calls, call[a].pc = "preflight", call[a].copy = findById,
               stored' \in {Failed(a), Marked(a, "ASSIGNING")}
        PROVE  Stands(s)
    <3>1. Step(a) \in Steps /\ Step(a) \in call[a].todo BY <2>2, Acting DEF OnList
    <3>2. KeepsOthers(findById, stored', Step(a))
      BY <2>0, <2>2, <3>1, TransitionsAreLocal DEF Failed, Marked, StepStatus
    <3>3. ~call[a].moved => Runnable(stored, Step(a))
      BY <2>2, <3>1 DEF Inv, Copies, Good, OnList
    <3>4. stored.step[Step(a)] = "COMPLETED" => call[a].moved BY <3>3 DEF Runnable
    <3> QED BY <2>1, <2>2, <3>1, <3>2, <3>4
  <2>3. ASSUME NEW a \in Calls, call[a].pc \in {"policy", "dispatched", "running"}, call[a].copy = findById,
               stored' \in {Failed(a), markStepDispatched(findById, Step(a)),
                           Marked(a, "RUNNING"), Marked(a, "COMPLETED")}
        PROVE  Stands(s)
    <3>1. Step(a) \in Steps /\ stored.step[Step(a)] # "COMPLETED" BY <2>0, <2>3, Acting DEF OnList
    <3>2. KeepsOthers(findById, stored', Step(a))
      BY <2>0, <2>3, <3>1, TransitionsAreLocal DEF Failed, Marked, StepStatus
    <3> QED BY <2>1, <3>1, <3>2
  <2>4. ASSUME NEW status \in Status, stored' = [findById EXCEPT !.status = status] PROVE Stands(s)
    <3>1. stored'.step = stored.step /\ stored'.attempts = stored.attempts
      BY <2>0, <2>4, ExceptIs
    <3> QED BY <2>0, <3>1
  <2>5. ASSUME NEW t \in Steps, NEW v \in Verdict, stored' = judged(findById, t, v) PROVE Stands(s)
    <3>1. KeepsOthers(findById, stored', t) /\ (v = "PASS" => stored'.step = stored.step)
      BY <2>0, <2>5, TransitionsAreLocal
    <3>2. CASE t = s BY <2>0, <2>5, <3>1, <3>2 DEF KeepsOthers, Verdict
    <3>3. CASE t # s BY <2>0, <3>1, <3>3 DEF KeepsOthers
    <3> QED BY <3>2, <3>3
  <2>6. Pause \/ Resume \/ Cancel => \E status \in Status : stored' = [findById EXCEPT !.status = status]
    BY DEF Pause, Resume, Cancel, WriteFromOutside, Status
  <2> HIDE DEF Stands
  <2> QED BY <2>2, <2>3, <2>4, <2>5, <2>6, RowChanges DEF Status
<1> QED BY <1>1, InvCorrect, PTL DEF Spec, RecordsStand

\* A step is taken up only when it is pending and its dependencies are completed,
\* except by a call whose list others have overtaken.
THEOREM DependenciesGateCorrect == Spec => DependenciesGate
<1> DEFINE A(s) == stored.step[s] # "ASSIGNING" /\ stored'.step[s] = "ASSIGNING" =>
                     \/ Runnable(stored, s)
                     \/ CatchSaves
                     \/ \E a \in Calls : call[a].pc = "preflight" /\ call[a].moved /\ Step(a) = s
<1>1. Inv /\ [Next]_vars => [\A s \in Steps : A(s)]_vars
  <2> SUFFICES ASSUME Inv, [Next]_vars, NEW s \in Steps, ~CatchSaves,
                      stored.step[s] # "ASSIGNING", stored'.step[s] = "ASSIGNING"
               PROVE  \/ Runnable(stored, s)
                      \/ \E a \in Calls : call[a].pc = "preflight" /\ call[a].moved /\ Step(a) = s
    OBVIOUS
  <2>0. /\ stored' # stored /\ stored \in Instance
        /\ findById \in Instance /\ findById.status = stored.status
        /\ findById.step = stored.step /\ findById.attempts = stored.attempts
    BY ReadKeeps DEF Inv, TypeOK, findById
  <2>1. ASSUME NEW t \in Steps, KeepsOthers(findById, stored', t), stored'.step[t] # "ASSIGNING" PROVE FALSE
    BY <2>0, <2>1 DEF KeepsOthers
  <2>2. ASSUME NEW a \in Calls, call[a].pc = "preflight", call[a].copy = findById,
               stored' \in {Failed(a), Marked(a, "ASSIGNING")}
        PROVE  Runnable(stored, s) \/ (call[a].moved /\ Step(a) = s)
    <3>1. Step(a) \in Steps /\ Step(a) \in call[a].todo BY <2>2, Acting DEF OnList
    <3>2. KeepsOthers(findById, stored', Step(a))
      BY <2>0, <2>2, <3>1, TransitionsAreLocal DEF Failed, Marked, StepStatus
    <3>3. Step(a) = s BY <2>0, <3>1, <3>2 DEF KeepsOthers
    <3> QED BY <2>2, <3>1, <3>3 DEF Inv, Copies, Good, OnList
  <2>3. ASSUME NEW a \in Calls, call[a].pc \in {"policy", "dispatched", "running"}, call[a].copy = findById,
               stored' \in {Failed(a), markStepDispatched(findById, Step(a)),
                           Marked(a, "RUNNING"), Marked(a, "COMPLETED")}
        PROVE  FALSE
    <3>1. Step(a) \in Steps BY <2>3, Acting DEF OnList
    <3>2. KeepsOthers(findById, stored', Step(a)) /\ stored'.step[Step(a)] # "ASSIGNING"
      BY <2>0, <2>3, <3>1, TransitionsAreLocal DEF Failed, Marked, StepStatus
    <3> QED BY <2>1, <3>1, <3>2
  <2>4. ASSUME NEW status \in Status, stored' = [findById EXCEPT !.status = status] PROVE FALSE
    BY <2>0, <2>4, ExceptIs
  <2>5. ASSUME NEW t \in Steps, NEW v \in Verdict, stored' = judged(findById, t, v) PROVE FALSE
    <3>1. CASE v = "PASS" BY <2>0, <2>5, <3>1, TransitionsAreLocal
    <3>2. CASE v = "FAIL" BY <2>0, <2>1, <2>5, <3>2, TransitionsAreLocal
    <3> QED BY <3>1, <3>2 DEF Verdict
  <2>6. Pause \/ Resume \/ Cancel => \E status \in Status : stored' = [findById EXCEPT !.status = status]
    BY DEF Pause, Resume, Cancel, WriteFromOutside, Status
  <2> QED BY <2>0, <2>2, <2>3, <2>4, <2>5, <2>6, RowChanges DEF Status
<1> QED BY <1>1, InvCorrect, PTL DEF Spec, DependenciesGate

\* An instance is completed from RUNNING only, when every step is completed in the row.
THEOREM CompletedWholeCorrect == Spec => CompletedWhole
<1> DEFINE A == stored.status # "COMPLETED" /\ stored'.status = "COMPLETED" =>
                  stored.status = "RUNNING" /\ \A s \in Steps : stored.step[s] = "COMPLETED"
<1>1. Inv /\ [Next]_vars => [A]_vars
  <2> SUFFICES ASSUME Inv, [Next]_vars, stored.status # "COMPLETED", stored'.status = "COMPLETED"
               PROVE  stored.status = "RUNNING" /\ \A s \in Steps : stored.step[s] = "COMPLETED"
    OBVIOUS
  <2>0. /\ stored' # stored /\ stored \in Instance
        /\ findById \in Instance /\ findById.status = stored.status
        /\ findById.step = stored.step /\ findById.attempts = stored.attempts
    BY ReadKeeps DEF Inv, TypeOK, findById
  <2>1. ASSUME NEW a \in Calls, call[a].pc = "catch", stored' = Failed(a) PROVE FALSE
    <3>1. call[a].copy.status # "COMPLETED" BY <2>1 DEF Inv, Copies, Good
    <3> QED BY <2>1, <3>1, Acting, TransitionsAreLocal DEF Failed, OnList
  <2>2. ASSUME NEW a \in Calls, call[a].pc \in {"preflight", "policy", "dispatched", "running"},
               call[a].copy = findById,
               stored' \in {Failed(a), markStepDispatched(findById, Step(a)), Marked(a, "ASSIGNING"),
                           Marked(a, "RUNNING"), Marked(a, "COMPLETED")}
        PROVE  FALSE
    <3>1. Step(a) \in Steps BY <2>2, Acting DEF OnList
    <3> QED BY <2>0, <2>2, <3>1, TransitionsAreLocal DEF Failed, Marked, StepStatus
  <2>3. ASSUME NEW a \in Calls, call[a].pc = "complete", call[a].copy = findById
        PROVE  stored.status = "RUNNING" /\ \A s \in Steps : stored.step[s] = "COMPLETED"
    BY <2>0, <2>3 DEF Inv, Copies, Good, Undecided, isCompleted
  <2>4. ~Pause /\ ~Resume /\ ~Cancel
    BY <2>0, ExceptIs DEF Pause, Resume, Cancel, WriteFromOutside, Status
  <2>5. ASSUME NEW s \in Steps, NEW v \in Verdict, stored' = judged(findById, s, v) PROVE FALSE
    BY <2>0, <2>5, TransitionsAreLocal
  <2> QED BY <2>1, <2>2, <2>3, <2>4, <2>5, RowChanges
<1> QED BY <1>1, InvCorrect, PTL DEF Spec, CompletedWhole

--------------------------------------------------------------------------------
(* How often a step is dispatched.                                             *)
(*                                                                             *)
(* The attempts already made, and the calls that may still dispatch the step   *)
(* from their lists, are counted together: a dispatch moves one from the       *)
(* second to the first, and a list names a step anew only when the row says it *)
(* is pending, that is with attempts left.  The one write that could lower the *)
(* attempts, that of the catch block, has nobody else to overtake (OneTry).    *)

Limit(s) == AtLeastOne(MaxRetries[s])

\* A pending step has an attempt left.
Armed(i) == \A s \in Steps : i.step[s] = "PENDING" => i.attempts[s] < Limit(s)

\* A call whose catch block could come to save.
InTry(c) ==
  \/ c.behind = 0 /\ c.pc \in {"running", "completed", "catch"}
  \/ c.behind = 1 /\ c.pc = "running"

NotAhead(c, row) == InTry(c) => \A s \in Steps : c.copy.attempts[s] <= row.attempts[s]

\* A call that may still dispatch step s without looking at the row again.
Holds(c, s) ==
  \/ c.pc \in {"preflight", "policy"} /\ s \in c.todo
  \/ c.pc \in OnList /\ s \in c.todo /\ s # FirstOf(c.todo)

Holders(s) == {a \in Calls : Holds(call[a], s)}

AllArmed == Armed(stored) /\ \A a \in Calls : Armed(call[a].copy)
OneTry == \A a, b \in Calls : a # b => ~(InTry(call[a]) /\ InTry(call[b]))
NoneAhead == \A a \in Calls : NotAhead(call[a], stored)
Budgeted == \A s \in Steps :
  stored.attempts[s] + Cardinality(Holders(s)) < Limit(s) + Cardinality(Calls)

AttemptsInv == AllArmed /\ OneTry /\ NoneAhead /\ Budgeted

\* A limit is positive, and no smaller than maxRetries.
LEMMA LimitIs == \A s \in Steps : Limit(s) \in Nat /\ Limit(s) > 0 /\ MaxRetries[s] <= Limit(s)
BY WorkflowAssumption DEF Limit, AtLeastOne

\* There are no more holders of a step than calls, and they can be counted.
LEMMA HoldersCount ==
  \A s \in Steps : /\ IsFiniteSet(Holders(s)) /\ Cardinality(Holders(s)) \in Nat
                   /\ Cardinality(Calls) \in Nat /\ Cardinality(Holders(s)) <= Cardinality(Calls)
<1> TAKE s \in Steps
<1>1. Holders(s) \subseteq Calls BY DEF Holders
<1>2. IsFiniteSet(Holders(s)) /\ Cardinality(Holders(s)) <= Cardinality(Calls)
  BY <1>1, CallsAreFinite, FS_Subset
<1> QED BY <1>2, CallsAreFinite, FS_CardinalityType

\* No transition of a step makes it pending without an attempt left.
LEMMA TransitionsKeepArmed ==
  ASSUME NEW i \in Instance, NEW s \in Steps, Armed(i)
  PROVE  /\ \A status \in StepStatus \ {"PENDING"} : Armed(mark(i, s, status))
         /\ Armed(markStepDispatched(i, s))
         /\ Armed(markStepFailed(i, s)) /\ markStepFailed(i, s).attempts = i.attempts
         /\ \A v \in Verdict : Armed(judged(i, s, v)) /\ judged(i, s, v).attempts = i.attempts
<1>0. i.attempts \in [Steps -> Nat] /\ i.step \in [Steps -> StepStatus] BY DEF Instance
<1>1. ASSUME NEW status \in StepStatus, status # "PENDING" PROVE Armed(mark(i, s, status))
  <2> DEFINE j == mark(i, s, status)
  <2>1. j.step = [i.step EXCEPT ![s] = status] /\ j.attempts = i.attempts BY MarkIs
  <2> HIDE DEF j
  <2>2. Armed(j) BY <1>0, <1>1, <2>1 DEF Armed
  <2> QED BY <2>2 DEF j
<1>2. Armed(markStepDispatched(i, s))
  <2> DEFINE j == markStepDispatched(i, s)
  <2>1. j.step = [i.step EXCEPT ![s] = "DISPATCHED"] /\ j.attempts = [i.attempts EXCEPT ![s] = @ + 1]
    BY DispatchedIs
  <2> HIDE DEF j
  <2>2. Armed(j) BY <1>0, <2>1 DEF Armed
  <2> QED BY <2>2 DEF j
<1>3. Armed(markStepFailed(i, s)) /\ markStepFailed(i, s).attempts = i.attempts
  <2>1. CASE willRetry(i, s)
    <3> DEFINE j == mark(i, s, "PENDING")
    <3>1. j.step = [i.step EXCEPT ![s] = "PENDING"] /\ j.attempts = i.attempts BY MarkIs DEF StepStatus
    <3>2. markStepFailed(i, s) = j BY <2>1 DEF markStepFailed
    <3> HIDE DEF j
    <3>3. i.attempts[s] < Limit(s)
      BY <1>0, <2>1, LimitIs, WorkflowAssumption DEF willRetry
    <3>4. Armed(j) BY <1>0, <3>1, <3>3 DEF Armed
    <3> QED BY <3>1, <3>2, <3>4
  <2>2. CASE ~willRetry(i, s)
    <3> DEFINE k == mark(i, s, "FAILED")
               j == [k EXCEPT !.status = "FAILED"]
    <3>1. k \in Instance /\ Armed(k) /\ k.attempts = i.attempts BY <1>1, MarkIs DEF StepStatus
    <3>2. markStepFailed(i, s) = j BY <2>2 DEF markStepFailed
    <3> HIDE DEF k
    <3>3. j.step = k.step /\ j.attempts = k.attempts BY <3>1, ExceptIs DEF Status
    <3> HIDE DEF j
    <3>4. Armed(j) BY <3>1, <3>3 DEF Armed
    <3> QED BY <3>1, <3>2, <3>3, <3>4
  <2> QED BY <2>1, <2>2
<1>4. ASSUME NEW v \in Verdict
      PROVE  Armed(judged(i, s, v)) /\ judged(i, s, v).attempts = i.attempts
  <2> DEFINE k == IF v = "PASS" THEN i ELSE markStepFailed(i, s)
             j == [k EXCEPT !.verdict[s] = v]
  <2>1. judged(i, s, v) = j BY DEF judged, Verdict
  <2>2. k \in Instance /\ Armed(k) /\ k.attempts = i.attempts
    BY <1>3, TransitionsAreLocal DEF KeepsOthers
  <2> HIDE DEF k
  <2>3. j.step = k.step /\ j.attempts = k.attempts BY <2>2, ExceptIs
  <2> HIDE DEF j
  <2>4. Armed(j) BY <2>2, <2>3 DEF Armed
  <2> QED BY <2>1, <2>2, <2>3, <2>4
<1> QED BY <1>1, <1>2, <1>3, <1>4

\* Being overtaken, a call keeps its place, its copy and what it holds, and its try
\* stays open only where it awaits the execution with the row in hand.
LEMMA OvertakenKeeps ==
  ASSUME NEW c \in Call, NEW row, Good(c, row)
  PROVE  LET d == Overtaken(c)
         IN  /\ d.pc = c.pc /\ d.copy = c.copy /\ d.todo = c.todo
             /\ \A s : Holds(d, s) <=> Holds(c, s)
             /\ InTry(d) => /\ c.pc = "running" /\ c.behind = 0 /\ InTry(c)
                            /\ c.copy = mapRowToInstance(row)
<1>1. CASE c = Returned
  BY <1>1 DEF Overtaken, Returned, InTry
<1>2. CASE c # Returned
  <2> DEFINE n == IF c.behind = 2 THEN 2 ELSE c.behind + 1
             d == [c EXCEPT !.behind = n, !.moved = TRUE]
  <2>0. n \in 0..2 /\ n # 0 /\ (n = 1 <=> c.behind = 0) BY DEF Call
  <2>1. Overtaken(c) = d BY <1>2 DEF Overtaken
  <2>2. d.pc = c.pc /\ d.copy = c.copy /\ d.todo = c.todo /\ d.behind = n
    <3> HIDE DEF n
    <3> QED BY <2>0 DEF Call
  <2> HIDE DEF d, n
  <2>3. \A s : Holds(d, s) <=> Holds(c, s) BY <2>2 DEF Holds
  <2>4. InTry(d) => c.pc = "running" /\ c.behind = 0 BY <2>0, <2>2 DEF InTry
  <2>5. c.pc = "running" /\ c.behind = 0 => c.copy = mapRowToInstance(row) /\ InTry(c)
    BY DEF Good, InTry
  <2> QED BY <2>1, <2>2, <2>3, <2>4, <2>5
<1> QED BY <1>1, <1>2

\* Attempts and holders stay within the limit when neither grows, or when a holder
\* makes an attempt.
LEMMA CountKept ==
  ASSUME NEW s \in Steps, NEW n \in Nat, NEW m \in Nat, NEW S,
         n + Cardinality(Holders(s)) < Limit(s) + Cardinality(Calls),
         S \subseteq Holders(s),
         m <= n \/ (m = n + 1 /\ S # Holders(s))
  PROVE  m + Cardinality(S) < Limit(s) + Cardinality(Calls)
<1>0. /\ IsFiniteSet(Holders(s)) /\ Cardinality(Holders(s)) \in Nat
      /\ Cardinality(Calls) \in Nat /\ Limit(s) \in Nat
  BY HoldersCount, LimitIs
<1>1. IsFiniteSet(S) /\ Cardinality(S) \in Nat /\ Cardinality(S) <= Cardinality(Holders(s))
  BY <1>0, FS_Subset, FS_CardinalityType
<1>2. CASE m <= n BY <1>0, <1>1, <1>2
<1>3. CASE m = n + 1 /\ S # Holders(s)
  <2>0. PICK a \in Holders(s) : a \notin S BY <1>3
  <2>1. S \subseteq Holders(s) \ {a} BY <2>0
  <2>2. IsFiniteSet(Holders(s) \ {a}) /\ Cardinality(Holders(s) \ {a}) = Cardinality(Holders(s)) - 1
    BY <1>0, FS_RemoveElement
  <2>3. Cardinality(S) <= Cardinality(Holders(s)) - 1 BY <2>1, <2>2, FS_Subset
  <2> QED BY <1>0, <1>1, <1>3, <2>3
<1> QED BY <1>2, <1>3

\* A call writes: what the others hold, and whose try is open, changes only by its write.
LEMMA WriteAttempts ==
  ASSUME Inv, AttemptsInv, NEW a \in Calls, NEW i \in Instance, NEW c \in Call, Write(a, i, c),
         Armed(i), Armed(c.copy), NotAhead(c, i),
         InTry(c) => Current(a) /\ call[a].pc \in {"dispatched", "running"},
         (\A s \in Steps : stored.attempts[s] <= i.attempts[s]) \/ InTry(call[a]),
         \A s \in Steps : /\ Holds(c, s) => Holds(call[a], s)
                          /\ \/ i.attempts[s] <= stored.attempts[s]
                             \/ /\ i.attempts[s] = stored.attempts[s] + 1
                                /\ Holds(call[a], s) /\ ~Holds(c, s)
  PROVE  AttemptsInv'
<1>1. /\ stored' = i /\ call'[a] = c
      /\ \A b \in Calls : b # a => call'[b] = Overtaken(call[b])
  BY DEF Write
<1>2. \A b \in Calls : call[b] \in Call /\ Good(call[b], stored)
  BY DEF Inv, TypeOK, Copies
<1>3. \A b \in Calls : b # a =>
        /\ call'[b].copy = call[b].copy
        /\ \A s : Holds(call'[b], s) <=> Holds(call[b], s)
        /\ InTry(call'[b]) => /\ call[b].pc = "running" /\ call[b].behind = 0
                              /\ call[b].copy = findById /\ InTry(call[b])
  BY <1>1, <1>2, OvertakenKeeps DEF findById
<1>4. AllArmed' BY <1>1, <1>3 DEF AttemptsInv, AllArmed
<1>5. \A b \in Calls : b # a /\ InTry(call'[b]) => ~InTry(c)
  BY <1>3 DEF Inv, OneWriter, Current
<1>6. OneTry' BY <1>1, <1>3, <1>5 DEF AttemptsInv, OneTry
<1>7. NoneAhead'
  <2>1. ASSUME NEW b \in Calls, b # a, InTry(call'[b]), NEW s \in Steps
        PROVE  call'[b].copy.attempts[s] <= i.attempts[s]
    <3>1. findById.attempts = stored.attempts BY ReadKeeps DEF findById, Inv, TypeOK
    <3> QED BY <1>3, <2>1, <3>1 DEF AttemptsInv, OneTry
  <2> QED BY <1>1, <2>1 DEF NoneAhead, NotAhead
<1>8. Budgeted'
  <2> SUFFICES ASSUME NEW s \in Steps
               PROVE  i.attempts[s] + Cardinality(Holders(s)') < Limit(s) + Cardinality(Calls)
    BY <1>1 DEF Budgeted
  <2>1. Holders(s)' \subseteq Holders(s) BY <1>1, <1>3 DEF Holders
  <2>2. Holds(call[a], s) /\ ~Holds(c, s) => Holders(s)' # Holders(s) BY <1>1 DEF Holders
  <2>3. i.attempts[s] \in Nat /\ stored.attempts[s] \in Nat BY DEF Instance, Inv, TypeOK
  <2>4. stored.attempts[s] + Cardinality(Holders(s)) < Limit(s) + Cardinality(Calls)
    BY DEF AttemptsInv, Budgeted
  <2> QED BY <2>1, <2>2, <2>3, <2>4, CountKept
<1> QED BY <1>4, <1>6, <1>7, <1>8 DEF AttemptsInv

\* A write from outside changes no attempts.
LEMMA OutsideAttempts ==
  ASSUME Inv, AttemptsInv, NEW i \in Instance, WriteFromOutside(i),
         Armed(i), i.attempts = stored.attempts
  PROVE  AttemptsInv'
<1>1. stored' = i /\ \A b \in Calls : call'[b] = Overtaken(call[b]) BY DEF WriteFromOutside
<1>2. \A b \in Calls : call[b] \in Call /\ Good(call[b], stored)
  BY DEF Inv, TypeOK, Copies
<1>3. \A b \in Calls :
        /\ call'[b].copy = call[b].copy
        /\ \A s : Holds(call'[b], s) <=> Holds(call[b], s)
        /\ InTry(call'[b]) => InTry(call[b])
  BY <1>1, <1>2, OvertakenKeeps
<1>4. AllArmed' BY <1>1, <1>3 DEF AttemptsInv, AllArmed
<1>5. OneTry' BY <1>3 DEF AttemptsInv, OneTry
<1>6. NoneAhead' BY <1>1, <1>3 DEF AttemptsInv, NoneAhead, NotAhead
<1>7. \A s \in Steps : Holders(s)' = Holders(s) BY <1>3 DEF Holders
<1>8. Budgeted' BY <1>1, <1>7 DEF AttemptsInv, Budgeted
<1> QED BY <1>4, <1>5, <1>6, <1>8 DEF AttemptsInv

\* A call goes on without a write: a step it newly holds is pending in the row.
LEMMA ContinueAttempts ==
  ASSUME Inv, AttemptsInv, NEW a \in Calls, NEW c \in Call, Continue(a, c),
         Armed(c.copy), InTry(c) => InTry(call[a]), NotAhead(c, stored),
         \A s \in Steps : Holds(c, s) => Holds(call[a], s) \/ stored.step[s] = "PENDING"
  PROVE  AttemptsInv'
<1>1. /\ stored' = stored /\ call'[a] = c
      /\ \A b \in Calls : b # a => call'[b] = call[b]
  BY DEF Continue, Inv, TypeOK
<1>2. AllArmed' BY <1>1 DEF AttemptsInv, AllArmed
<1>3. OneTry' BY <1>1 DEF AttemptsInv, OneTry
<1>4. NoneAhead' BY <1>1 DEF AttemptsInv, NoneAhead
<1>5. Budgeted'
  <2> SUFFICES ASSUME NEW s \in Steps
               PROVE  stored.attempts[s] + Cardinality(Holders(s)') < Limit(s) + Cardinality(Calls)
    BY <1>1 DEF Budgeted
  <2>0. stored.attempts[s] \in Nat BY DEF Instance, Inv, TypeOK
  <2>1. CASE stored.step[s] = "PENDING"
    <3>1. stored.attempts[s] < Limit(s) BY <2>1 DEF AttemptsInv, AllArmed, Armed
    <3>2. Holders(s)' \subseteq Calls BY DEF Holders
    <3>3. /\ Cardinality(Holders(s)') \in Nat /\ Cardinality(Calls) \in Nat
          /\ Cardinality(Holders(s)') <= Cardinality(Calls)
      BY <3>2, CallsAreFinite, FS_Subset, FS_CardinalityType
    <3> QED BY <2>0, <3>1, <3>3, LimitIs
  <2>2. CASE stored.step[s] # "PENDING"
    <3>1. Holders(s)' \subseteq Holders(s) BY <1>1, <2>2 DEF Holders
    <3>2. stored.attempts[s] + Cardinality(Holders(s)) < Limit(s) + Cardinality(Calls)
      BY DEF AttemptsInv, Budgeted
    <3> QED BY <2>0, <3>1, <3>2, CountKept
  <2> QED BY <2>1, <2>2
<1> QED BY <1>2, <1>3, <1>4, <1>5 DEF AttemptsInv

\* No call holds nothing.
LEMMA ReturnedHoldsNothing ==
  Returned \in Call /\ Armed(Returned.copy) /\ ~InTry(Returned) /\ \A s : ~Holds(Returned, s)
<1>1. Returned.pc = "returned" /\ Returned.copy = Started BY DEF Returned
<1>2. Armed(Started) BY LimitIs DEF Armed, Started
<1> QED BY <1>1, <1>2, ReturnedGood DEF InTry, Holds, OnList

\* A conflict that leaves advanceWorkflow.
LEMMA RejectAttempts ==
  ASSUME Inv, AttemptsInv, NEW a \in Calls, ConflictRejects(a)
  PROVE  AttemptsInv'
BY ReturnedHoldsNothing, ContinueAttempts DEF ConflictRejects, NotAhead

\* A save from the list of a call.
LEMMA SavesAttempts ==
  ASSUME Inv, AttemptsInv, NEW a \in Calls, NEW j \in Instance, NEW p \in SavePlaces, Saves(a, j, p),
         call[a].pc \in OnList, Armed(j),
         p = "policy" => call[a].pc = "preflight",
         p \in {"running", "completed"} => call[a].pc \in {"dispatched", "running"},
         \/ j.attempts = call[a].copy.attempts
         \/ /\ call[a].pc = "policy" /\ p = "dispatched"
            /\ j.attempts = [call[a].copy.attempts EXCEPT ![Step(a)] = @ + 1]
  PROVE  AttemptsInv'
<1> DEFINE c == call[a]
           d == [c EXCEPT !.copy = j, !.pc = p]
<1>1. c \in Call /\ Good(c, stored) /\ c.behind = 0 /\ Write(a, j, d) /\ Current(a)
  BY DEF Inv, TypeOK, Copies, Saves, Current
<1>2. /\ d \in Call /\ d.copy = j /\ d.pc = p /\ d.behind = 0
      /\ d.todo = c.todo
  BY <1>1 DEF Call, SavePlaces
<1>3. /\ Step(a) = FirstOf(c.todo) /\ Step(a) \in c.todo /\ Step(a) \in Steps
      /\ stored \in Instance /\ c.copy \in Instance
      /\ c.pc # "catch" => c.copy.attempts = stored.attempts
  BY <1>1, Acting, ReadKeeps DEF findById
<1>4. c.pc = "catch" => InTry(c) /\ \A s \in Steps : c.copy.attempts[s] <= stored.attempts[s]
  BY <1>1 DEF InTry, AttemptsInv, NoneAhead, NotAhead
<1> HIDE DEF d
<1>5. NotAhead(d, j)
  BY <1>2 DEF NotAhead, Instance
<1>6. InTry(d) => c.pc \in {"dispatched", "running"} BY <1>2 DEF InTry, SavePlaces
<1>7. \A s \in Steps : Holds(d, s) => Holds(c, s) BY <1>2 DEF Holds, OnList, SavePlaces
<1>8. CASE j.attempts = c.copy.attempts
  BY <1>1, <1>2, <1>3, <1>4, <1>5, <1>6, <1>7, <1>8, WriteAttempts DEF Instance
<1>9. CASE /\ c.pc = "policy" /\ p = "dispatched"
           /\ j.attempts = [c.copy.attempts EXCEPT ![Step(a)] = @ + 1]
  <2>1. Holds(c, Step(a)) /\ ~Holds(d, Step(a)) BY <1>2, <1>3, <1>9 DEF Holds
  <2>2. \A s \in Steps : s # Step(a) => j.attempts[s] = stored.attempts[s]
    BY <1>3, <1>9 DEF Instance
  <2>3. j.attempts[Step(a)] = stored.attempts[Step(a)] + 1 BY <1>3, <1>9 DEF Instance
  <2>4. stored.attempts \in [Steps -> Nat] BY <1>3 DEF Instance
  <2>5. \A s \in Steps : stored.attempts[s] <= j.attempts[s] BY <2>2, <2>3, <2>4
  <2>6. \A s \in Steps : \/ j.attempts[s] <= stored.attempts[s]
                         \/ /\ j.attempts[s] = stored.attempts[s] + 1
                            /\ Holds(c, s) /\ ~Holds(d, s)
    BY <2>1, <2>2, <2>3, <2>4
  <2> QED BY <1>1, <1>2, <1>5, <1>6, <1>7, <2>5, <2>6, WriteAttempts
<1> QED BY <1>8, <1>9

\* What a call makes of its copy has an attempt left where it is pending.
LEMMA CopyArmed ==
  ASSUME Inv, AttemptsInv, NEW a \in Calls, call[a].pc \in OnList
  PROVE  /\ Step(a) \in Steps /\ call[a].copy \in Instance
         /\ Armed(Failed(a)) /\ Failed(a).attempts = call[a].copy.attempts /\ Failed(a) \in Instance
         /\ \A status \in StepStatus \ {"PENDING"} :
              /\ Armed(Marked(a, status)) /\ Marked(a, status).attempts = call[a].copy.attempts
              /\ Marked(a, status) \in Instance
<1>1. Step(a) \in Steps /\ call[a].copy \in Instance /\ Armed(call[a].copy)
  BY Acting DEF AttemptsInv, AllArmed
<1>2. Failed(a) \in Instance BY <1>1, TransitionsAreLocal DEF Failed, KeepsOthers
<1>3. \A status \in StepStatus :
        Marked(a, status) \in Instance /\ Marked(a, status).attempts = call[a].copy.attempts
  BY <1>1, MarkIs DEF Marked
<1> QED BY <1>1, <1>2, <1>3, TransitionsKeepArmed DEF Failed, Marked

\* A list computed from the row names pending steps only.
LEMMA NextRoundAttempts ==
  ASSUME stored \in Instance, stored.status = "RUNNING", Armed(stored)
  PROVE  /\ NextRound \in Call /\ Armed(NextRound.copy) /\ ~InTry(NextRound)
         /\ \A s \in Steps : Holds(NextRound, s) => stored.step[s] = "PENDING"
<1> DEFINE runnable == getNextRunnableStepIds(findById)
<1>0. findById.step = stored.step /\ Armed(findById) BY ReadKeeps DEF findById, Armed
<1>1. NextRound \in Call BY NextRoundGood
<1>2. runnable \in SUBSET Steps /\ \A s \in runnable : stored.step[s] = "PENDING"
  BY <1>0 DEF getNextRunnableStepIds, Runnable
<1> HIDE DEF runnable
<1>3. CASE NextRound = Returned BY <1>3, ReturnedHoldsNothing
<1>4. CASE NextRound = Loaded("preflight", runnable, FALSE)
  BY <1>0, <1>1, <1>2, <1>4 DEF Loaded, InTry, Holds
<1>5. CASE NextRound = Loaded("complete", {}, FALSE)
  BY <1>0, <1>1, <1>5 DEF Loaded, InTry, Holds
<1> QED BY <1>3, <1>4, <1>5 DEF NextRound, runnable

\* A call begins, or takes the next step of its list, or a new list.
LEMMA ListAttempts ==
  ASSUME Inv, AttemptsInv, NEW a \in Calls, Advance(a) \/ Reload(a)
  PROVE  AttemptsInv'
<1>0. stored \in Instance /\ Armed(stored) BY DEF Inv, TypeOK, AttemptsInv, AllArmed
<1>1. findById \in Instance /\ Armed(findById) BY <1>0, ReadKeeps DEF findById, Armed
<1>2. ASSUME stored.status = "RUNNING", Continue(a, NextRound) PROVE AttemptsInv'
  BY <1>0, <1>2, NextRoundAttempts, ContinueAttempts DEF NotAhead
<1>3. ASSUME Continue(a, Returned) PROVE AttemptsInv'
  BY <1>3, ReturnedHoldsNothing, ContinueAttempts DEF NotAhead
<1>4. CASE Advance(a) BY <1>2, <1>4 DEF Advance
<1>5. CASE Reload(a)
  <2> DEFINE c == call[a]
             remaining == c.todo \ {Step(a)}
             d == Loaded("preflight", remaining, c.moved)
  <2>1. c \in Call /\ c.pc = "reload" /\ Continue(a, AfterReload(a))
    BY <1>5 DEF Reload, Inv, TypeOK
  <2>2. Step(a) = FirstOf(c.todo) BY DEF Step, FirstOf
  <2>3. ASSUME Continue(a, d) PROVE AttemptsInv'
    <3>1. d \in Call /\ d.pc = "preflight" /\ d.copy = findById /\ d.todo = remaining
      BY <1>1, <2>1 DEF Loaded, Call
    <3> HIDE DEF d
    <3>2. \A s \in Steps : Holds(d, s) => Holds(c, s)
      BY <2>1, <2>2, <3>1 DEF Holds, OnList
    <3>3. ~InTry(d) BY <3>1 DEF InTry
    <3> QED BY <1>1, <2>3, <3>1, <3>2, <3>3, ContinueAttempts DEF NotAhead
  <2> QED BY <1>2, <1>3, <2>1, <2>3 DEF AfterReload
<1> QED BY <1>4, <1>5

\* The saves of executeStep before its try: only a dispatch makes an attempt.
LEMMA OutsideTryAttempts ==
  ASSUME Inv, AttemptsInv, NEW a \in Calls,
         Refuse(a) \/ Assign(a) \/ Deny(a) \/ Dispatch(a) \/ Execute(a)
  PROVE  AttemptsInv'
<1>1. CASE Refuse(a)
  BY <1>1, CopyArmed, SavesAttempts, RejectAttempts DEF Refuse, OnList, SavePlaces
<1>2. CASE Assign(a)
  BY <1>2, CopyArmed, SavesAttempts, RejectAttempts DEF Assign, OnList, SavePlaces, StepStatus
<1>3. CASE Deny(a)
  BY <1>3, CopyArmed, SavesAttempts, RejectAttempts DEF Deny, OnList, SavePlaces
<1>4. CASE Dispatch(a)
  <2> DEFINE j == markStepDispatched(call[a].copy, Step(a))
  <2>1. call[a].pc = "policy" /\ call[a].pc \in OnList BY <1>4 DEF Dispatch, OnList
  <2>2. Saves(a, j, "dispatched") \/ ConflictRejects(a) BY <1>4 DEF Dispatch
  <2>3. Step(a) \in Steps /\ call[a].copy \in Instance /\ Armed(call[a].copy)
    BY <2>1, CopyArmed DEF AttemptsInv, AllArmed
  <2>4. /\ j \in Instance /\ Armed(j)
        /\ j.attempts = [call[a].copy.attempts EXCEPT ![Step(a)] = @ + 1]
    BY <2>3, DispatchedIs, TransitionsKeepArmed
  <2> HIDE DEF j
  <2>5. CASE Saves(a, j, "dispatched") BY <2>1, <2>4, <2>5, SavesAttempts DEF SavePlaces
  <2> QED BY <2>2, <2>5, RejectAttempts
<1>5. CASE Execute(a)
  BY <1>5, CopyArmed, SavesAttempts, RejectAttempts DEF Execute, OnList, SavePlaces, StepStatus
<1> QED BY <1>1, <1>2, <1>3, <1>4, <1>5

\* A conflict in the try: the copy is at most one write old when it comes to be saved.
LEMMA CaughtAttempts ==
  ASSUME Inv, AttemptsInv, NEW a \in Calls, call[a].pc = "running", NEW i \in Instance,
         ConflictIsCaught(a, i), Armed(i), i.attempts = call[a].copy.attempts
  PROVE  AttemptsInv'
<1> DEFINE c == call[a]
           n == c.behind - 1
           d == [c EXCEPT !.copy = i, !.behind = n, !.pc = "catch"]
<1>1. c \in Call /\ c.behind # 0 /\ Continue(a, d)
  BY DEF Inv, TypeOK, ConflictIsCaught, Current
<1>2. n \in 0..2 /\ (n = 0 => c.behind = 1) BY <1>1 DEF Call
<1>3. d \in Call /\ d.pc = "catch" /\ d.todo = c.todo /\ d.copy = i /\ d.behind = n
  <2> HIDE DEF n
  <2> QED BY <1>1, <1>2 DEF Call
<1> HIDE DEF d, n
<1>4. InTry(d) => InTry(c) BY <1>2, <1>3 DEF InTry
<1>5. NotAhead(d, stored) BY <1>3, <1>4 DEF NotAhead, AttemptsInv, NoneAhead
<1>6. \A s \in Steps : Holds(d, s) => Holds(c, s) BY <1>3 DEF Holds, OnList
<1> QED BY <1>1, <1>3, <1>4, <1>5, <1>6, ContinueAttempts

\* A call moves on inside or out of its try.
LEMMA MovesAttempts ==
  ASSUME Inv, AttemptsInv, NEW a \in Calls, call[a].pc \in {"running", "completed"},
         NEW p \in {"catch", "reload"}, Continue(a, [call[a] EXCEPT !.pc = p])
  PROVE  AttemptsInv'
<1> DEFINE c == call[a]
           d == [c EXCEPT !.pc = p]
<1>1. c \in Call /\ Continue(a, d) /\ Armed(c.copy) /\ NotAhead(c, stored)
  BY DEF Inv, TypeOK, AttemptsInv, AllArmed, NoneAhead
<1>2. d \in Call /\ d.pc = p /\ d.todo = c.todo /\ d.copy = c.copy /\ d.behind = c.behind
  BY <1>1 DEF Call
<1> HIDE DEF d
<1>3. InTry(d) => InTry(c) BY <1>2 DEF InTry
<1>4. \A s \in Steps : Holds(d, s) => Holds(c, s) BY <1>2 DEF Holds, OnList
<1>5. NotAhead(d, stored) BY <1>1, <1>2, <1>3 DEF NotAhead
<1> QED BY <1>1, <1>2, <1>3, <1>4, <1>5, ContinueAttempts

\* What happens in the try: the catch block writes no more attempts than the row has.
LEMMA InsideTryAttempts ==
  ASSUME Inv, AttemptsInv, NEW a \in Calls,
         Succeed(a) \/ Fail(a) \/ Throw(a) \/ Catch(a) \/ FinishStep(a)
  PROVE  AttemptsInv'
<1>1. CASE Succeed(a)
  <2>1. call[a].pc = "running" /\ call[a].pc \in OnList BY <1>1 DEF Succeed, OnList
  <2>2. CASE ConflictIsCaught(a, Marked(a, "COMPLETED"))
    BY <2>1, <2>2, CopyArmed, CaughtAttempts DEF StepStatus
  <2>3. CASE Saves(a, Marked(a, "COMPLETED"), "completed")
    BY <2>1, <2>3, CopyArmed, SavesAttempts DEF StepStatus, SavePlaces
  <2> QED BY <1>1, <2>2, <2>3 DEF Succeed
<1>2. CASE Fail(a)
  <2>1. call[a].pc = "running" /\ call[a].pc \in OnList BY <1>2 DEF Fail, OnList
  <2>2. CASE ConflictIsCaught(a, Failed(a)) BY <2>1, <2>2, CopyArmed, CaughtAttempts
  <2>3. CASE Saves(a, Failed(a), "reload")
    BY <2>1, <2>3, CopyArmed, SavesAttempts DEF SavePlaces
  <2> QED BY <1>2, <2>2, <2>3 DEF Fail
<1>3. CASE Throw(a) BY <1>3, MovesAttempts DEF Throw
<1>4. CASE Catch(a)
  BY <1>4, CopyArmed, SavesAttempts, RejectAttempts DEF Catch, OnList, SavePlaces
<1>5. CASE FinishStep(a) BY <1>5, MovesAttempts DEF FinishStep
<1> QED BY <1>1, <1>2, <1>3, <1>4, <1>5

\* A completion, operators, verdicts from outside, and a crash make no attempt.
LEMMA OthersAttempts ==
  ASSUME Inv, AttemptsInv,
         \/ \E a \in Calls : Complete(a)
         \/ Pause \/ Resume \/ Cancel \/ Crash
         \/ \E s \in Steps, v \in Verdict : Judge(s, v)
  PROVE  AttemptsInv'
<1>0. /\ findById \in Instance /\ Armed(findById)
      /\ findById.attempts = stored.attempts /\ stored.attempts \in [Steps -> Nat]
  BY ReadKeeps DEF Inv, TypeOK, AttemptsInv, AllArmed, Armed, Instance, findById
<1>1. ASSUME NEW status \in Status
      PROVE  LET i == [findById EXCEPT !.status = status]
             IN  i \in Instance /\ Armed(i) /\ i.attempts = stored.attempts
  <2> DEFINE i == [findById EXCEPT !.status = status]
  <2>1. i \in Instance /\ i.step = findById.step /\ i.attempts = stored.attempts BY <1>0, ExceptIs
  <2> HIDE DEF i
  <2>2. Armed(i) BY <1>0, <2>1 DEF Armed
  <2> QED BY <2>1, <2>2 DEF i
<1>2. ASSUME NEW a \in Calls, Complete(a) PROVE AttemptsInv'
  <2> DEFINE i == [findById EXCEPT !.status = "COMPLETED"]
  <2>1. CASE ConflictRejects(a) BY <2>1, RejectAttempts
  <2>2. CASE Current(a) /\ Write(a, [call[a].copy EXCEPT !.status = "COMPLETED"], Returned)
    <3>1. Write(a, i, Returned)
      BY <1>2, <2>2 DEF Complete, Inv, Copies, Good, Current, findById
    <3>2. i \in Instance /\ Armed(i) /\ i.attempts = stored.attempts BY <1>1 DEF Status
    <3> HIDE DEF i
    <3> QED BY <1>0, <3>1, <3>2, ReturnedHoldsNothing, WriteAttempts DEF NotAhead
  <2> QED BY <1>2, <2>1, <2>2 DEF Complete
<1>3. CASE Pause BY <1>1, <1>3, OutsideAttempts DEF Pause, Status
<1>4. CASE Resume BY <1>1, <1>4, OutsideAttempts DEF Resume, Status
<1>5. CASE Cancel BY <1>1, <1>5, OutsideAttempts DEF Cancel, Status
<1>6. ASSUME NEW s \in Steps, NEW v \in Verdict, Judge(s, v) PROVE AttemptsInv'
  <2>1. LET i == judged(findById, s, v)
        IN  i \in Instance /\ Armed(i) /\ i.attempts = stored.attempts
    BY <1>0, TransitionsAreLocal, TransitionsKeepArmed DEF KeepsOthers
  <2> QED BY <1>6, <2>1, OutsideAttempts DEF Judge
<1>7. CASE Crash
  <2>1. stored' = stored /\ \A a \in Calls : call'[a] = Returned BY <1>7 DEF Crash
  <2>2. AllArmed' BY <2>1, ReturnedHoldsNothing DEF AttemptsInv, AllArmed
  <2>3. OneTry' /\ NoneAhead' BY <2>1, ReturnedHoldsNothing DEF OneTry, NoneAhead, NotAhead
  <2>4. Budgeted'
    <3> SUFFICES ASSUME NEW s \in Steps
                 PROVE  stored.attempts[s] + Cardinality(Holders(s)') < Limit(s) + Cardinality(Calls)
      BY <2>1 DEF Budgeted
    <3>1. Holders(s)' \subseteq Holders(s) BY <2>1, ReturnedHoldsNothing DEF Holders
    <3>2. stored.attempts[s] + Cardinality(Holders(s)) < Limit(s) + Cardinality(Calls)
      BY DEF AttemptsInv, Budgeted
    <3> QED BY <1>0, <3>1, <3>2, CountKept
  <2> QED BY <2>2, <2>3, <2>4 DEF AttemptsInv
<1> QED BY <1>2, <1>3, <1>4, <1>5, <1>6, <1>7

\* An instance that has just started has made no attempt.
LEMMA AttemptsInit == Init => AttemptsInv
<1> SUFFICES ASSUME Init PROVE AttemptsInv OBVIOUS
<1>1. stored = Started /\ \A a \in Calls : call[a] = Returned BY DEF Init
<1>2. AllArmed BY <1>1, ReturnedHoldsNothing DEF AllArmed, Returned
<1>3. OneTry /\ NoneAhead BY <1>1, ReturnedHoldsNothing DEF OneTry, NoneAhead, NotAhead
<1>4. Budgeted
  <2> SUFFICES ASSUME NEW s \in Steps
               PROVE  stored.attempts[s] + Cardinality(Holders(s)) < Limit(s) + Cardinality(Calls)
    BY DEF Budgeted
  <2>1. Holders(s) = {} BY <1>1, ReturnedHoldsNothing DEF Holders
  <2>2. stored.attempts[s] = 0 BY <1>1 DEF Started
  <2>3. Cardinality(Holders(s)) = 0 BY <2>1, FS_EmptySet
  <2> QED BY <2>2, <2>3, HoldersCount, LimitIs
<1> QED BY <1>2, <1>3, <1>4 DEF AttemptsInv

\* Every step of every actor keeps the count.
LEMMA AttemptsNext == Inv /\ AttemptsInv /\ [Next]_vars => AttemptsInv'
<1> SUFFICES ASSUME Inv, AttemptsInv, [Next]_vars PROVE AttemptsInv' OBVIOUS
<1>1. CASE UNCHANGED vars
  <2>1. stored' = stored /\ call' = call BY <1>1 DEF vars
  <2>2. \A s : Holders(s)' = Holders(s) BY <2>1 DEF Holders
  <2> QED BY <2>1, <2>2 DEF AttemptsInv, AllArmed, OneTry, NoneAhead, Budgeted
<1>2. ASSUME NEW a \in Calls, Advance(a) \/ CallStep(a) PROVE AttemptsInv'
  BY <1>2, ListAttempts, OutsideTryAttempts, InsideTryAttempts, OthersAttempts
     DEF CallStep
<1> QED BY <1>1, <1>2, OthersAttempts DEF Next, Verdict

\* Outdated lists let a step be dispatched more often than maxRetries allows, but only
\* once more for each other call: for any number of calls, steps and retries.
THEOREM AttemptsBoundedCorrect == Spec => []AttemptsBounded
<1>1. Inv /\ AttemptsInv => AttemptsBounded
  <2> SUFFICES ASSUME Inv, AttemptsInv, NEW s \in Steps
               PROVE  stored.attempts[s] < AtLeastOne(MaxRetries[s]) + Cardinality(Calls)
    BY DEF AttemptsBounded
  <2>1. stored.attempts[s] + Cardinality(Holders(s)) < Limit(s) + Cardinality(Calls)
    BY DEF AttemptsInv, Budgeted
  <2>2. stored.attempts[s] \in Nat BY DEF Inv, TypeOK, Instance
  <2> QED BY <2>1, <2>2, HoldersCount, LimitIs DEF Limit
<1>2. Spec => []AttemptsInv BY InvCorrect, AttemptsInit, AttemptsNext, PTL DEF Spec
<1> QED BY <1>1, <1>2, InvCorrect, PTL

\* The catch block of executeStep makes the one save that the version check does not
\* protect; at most one call at a time can still come to it, so it overtakes nobody else.
THEOREM OneTryCorrect == Spec => []OneTry
<1>1. AttemptsInv => OneTry BY DEF AttemptsInv
<1>2. Spec => []AttemptsInv BY InvCorrect, AttemptsInit, AttemptsNext, PTL DEF Spec
<1> QED BY <1>1, <1>2, PTL
================================================================================
