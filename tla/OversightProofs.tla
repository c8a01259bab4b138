----------------------------- MODULE OversightProofs -----------------------------
(* Proofs about Oversight, for any workflow, and any number of requests,           *)
(* reviewers and calls.                                                            *)
EXTENDS Oversight, WorkflowRunsProofs

OversightType ==
  /\ request \in [Requests -> Request]
  /\ overdue \subseteq Requests /\ asked \subseteq Calls
  /\ review \in [Reviewers -> Review]
  /\ sweep \in [Requests -> {"ABSENT"} \union Pending]

\* A reviewer that has opened a request works on a request.
Engaged ==
  \A d \in Reviewers :
    /\ review[d].pc # "idle" => review[d].id \in Requests /\ review[d].op \in Operation
    /\ review[d].pc = "marking" => review[d].op \in {"approve", "reject"}

\* Only a request that was filed with a deadline can miss it.
OverdueWasTimed == \A q \in overdue : request[q].timed

OversightInv == OversightType /\ Engaged /\ OverdueWasTimed /\ MarkerWon

oversightVars == <<vars, oversight>>

--------------------------------------------------------------------------------
(* What the parts of the next-state relation leave alone.                          *)

\* What filing a request writes.
LEMMA FileWrites ==
  ASSUME OversightType, NEW q \in Requests, NEW s \in Steps, NEW t \in BOOLEAN, File(q, s, t)
  PROVE  /\ request' \in [Requests -> Request]
         /\ request[q].status = "ABSENT" /\ request[q].timed = FALSE
         /\ \A p \in Requests \ {q} : request'[p] = request[p]
  BY DEF File, OversightType, Request, RequestStatus, Pending, Absent

\* Saving a status of a request keeps the rest of the table.
LEMMA StatusWrites ==
  ASSUME OversightType, NEW q \in Requests, NEW st \in RequestStatus,
         request' = [request EXCEPT ![q].status = st]
  PROVE  /\ request' \in [Requests -> Request]
         /\ request'[q].status = st
         /\ \A p \in Requests : request'[p].timed = request[p].timed
         /\ \A p \in Requests \ {q} : request'[p] = request[p]
<1> DEFINE r == [request[q] EXCEPT !.status = st]
<1>1. request[q] \in Request
  BY DEF OversightType
<1>2. r \in Request /\ r.status = st /\ r.timed = request[q].timed
  BY <1>1 DEF Request
<1>3. request' = [request EXCEPT ![q] = r]
  OBVIOUS
<1> HIDE DEF r
<1> QED
  BY <1>2, <1>3 DEF OversightType

\* One reviewer goes on; the others stay where they are.
LEMMA ReviewWrites ==
  ASSUME OversightType, NEW d \in Reviewers, NEW r \in Review, Goes(d, r)
  PROVE  /\ review' \in [Reviewers -> Review]
         /\ review'[d] = r
         /\ \A e \in Reviewers \ {d} : review'[e] = review[e]
  BY DEF Goes, OversightType

\* A reviewer with nothing to do is a reviewer.
LEMMA IdleIsReview == Idle \in Review
  BY DEF Idle, Review, RequestStatus

--------------------------------------------------------------------------------
(* The invariant.                                                                  *)

\* No request is filed and nobody works on one: the invariant holds.
LEMMA OversightInvInit == OversightInit => OversightInv
<1> SUFFICES ASSUME OversightInit PROVE OversightInv
  OBVIOUS
<1>1. 1 \in Steps
  BY WorkflowAssumption DEF Steps
<1>2. OversightType
  BY <1>1, IdleIsReview
  DEF OversightInit, OversightType, Absent, Request, RequestStatus, Pending, NoSweep
<1>3. Engaged /\ OverdueWasTimed /\ MarkerWon
  BY DEF OversightInit, Engaged, OverdueWasTimed, MarkerWon, Idle
<1> QED
  BY <1>2, <1>3 DEF OversightInv

\* Steps that leave requests, deadlines and reviewers alone keep the invariant.
LEMMA AsideInv ==
  ASSUME OversightInv, request' = request, overdue' = overdue, review' = review,
         asked' \subseteq Calls, sweep' \in [Requests -> {"ABSENT"} \union Pending]
  PROVE  OversightInv'
  BY DEF OversightInv, OversightType, Engaged, OverdueWasTimed, MarkerWon

\* Filing a request keeps the invariant: nobody works on a request that is absent.
LEMMA FileInv ==
  ASSUME OversightInv, NEW q \in Requests, NEW s \in Steps, NEW t \in BOOLEAN, File(q, s, t),
         asked' \subseteq Calls, UNCHANGED <<overdue, review, sweep>>
  PROVE  OversightInv'
<1> USE DEF OversightInv
<1>1. /\ request' \in [Requests -> Request]
      /\ request[q].status = "ABSENT" /\ request[q].timed = FALSE
      /\ \A p \in Requests \ {q} : request'[p] = request[p]
  BY FileWrites
<1>2. OversightType'
  BY <1>1 DEF OversightType
<1>3. Engaged'
  BY DEF Engaged
<1>4. q \notin overdue
  BY <1>1 DEF OverdueWasTimed
<1>5. OverdueWasTimed'
  BY <1>1, <1>4 DEF OverdueWasTimed, OversightType
<1>6. \A d \in Reviewers : review[d].pc = "marking" =>
        review[d].id \in Requests \ {q}
  BY <1>1 DEF MarkerWon, Engaged, Outcome
<1>7. MarkerWon'
  BY <1>1, <1>6 DEF MarkerWon
<1> QED
  BY <1>2, <1>3, <1>5, <1>7

\* A pending request has no marker.
LEMMA PendingUnmarked ==
  ASSUME OversightInv, NEW q \in Requests, request[q].status \in Pending
  PROVE  \A e \in Reviewers : review[e].pc = "marking" => review[e].id # q
  BY DEF OversightInv, MarkerWon, Engaged, Outcome, Pending

\* The sweep expires a request that still has the status it was listed with.
LEMMA ExpireInv ==
  ASSUME OversightInv, NEW q \in Requests, Expire(q)
  PROVE  OversightInv'
<1> USE DEF OversightInv
<1>1. request[q].status \in Pending
  BY DEF Expire, Unmoved, OversightType
<1>2. "EXPIRED" \in RequestStatus
  BY DEF RequestStatus, Decided
<1>3. /\ request' \in [Requests -> Request]
      /\ \A p \in Requests : request'[p].timed = request[p].timed
      /\ \A p \in Requests \ {q} : request'[p] = request[p]
  BY <1>2, StatusWrites DEF Expire
<1>4. UNCHANGED <<review, overdue, asked>> /\ sweep' \in [Requests -> {"ABSENT"} \union Pending]
  BY DEF Expire, OversightType
<1>5. OversightType' /\ Engaged' /\ OverdueWasTimed'
  BY <1>3, <1>4 DEF OversightType, Engaged, OverdueWasTimed
<1>6. MarkerWon'
  BY <1>1, <1>3, <1>4, PendingUnmarked DEF MarkerWon, Engaged
<1> QED
  BY <1>5, <1>6

\* A reviewer that moves without writing keeps the invariant, unless it moves to the
\* marking of a step.
LEMMA GoesInv ==
  ASSUME OversightInv, NEW d \in Reviewers, NEW r \in Review, Goes(d, r),
         r.pc # "marking",
         r.pc # "idle" => r.id \in Requests /\ r.op \in Operation,
         UNCHANGED <<request, overdue, asked, sweep>>
  PROVE  OversightInv'
<1> USE DEF OversightInv
<1>1. /\ review' \in [Reviewers -> Review]
      /\ review'[d] = r
      /\ \A e \in Reviewers \ {d} : review'[e] = review[e]
  BY ReviewWrites
<1>2. OversightType' /\ Engaged' /\ OverdueWasTimed'
  BY <1>1 DEF OversightType, Engaged, OverdueWasTimed
<1>3. MarkerWon'
  BY <1>1 DEF MarkerWon
<1> QED
  BY <1>2, <1>3

\* A reviewer saves its decision: it had the request in hand, so nobody else marks for it.
LEMMA DecideInv ==
  ASSUME OversightInv, NEW d \in Reviewers, Decide(d)
  PROVE  OversightInv'
<1> USE DEF OversightInv
<1> DEFINE r == review[d]
           q == review[d].id
           st == Outcome(review[d].op)
           r2 == IF Marks(review[d].op) THEN [review[d] EXCEPT !.pc = "marking"] ELSE Idle
<1>1. q \in Requests /\ review[d].op \in Operation /\ review[d] \in Review
  BY DEF Decide, Engaged, OversightType
<1>2. request[q].status \in Pending
  BY <1>1 DEF Decide, Unmoved, Allowed, Pending
<1>3. st \in RequestStatus
  BY <1>1 DEF Outcome, Operation, RequestStatus, Pending, Decided
<1>4. request' = [request EXCEPT ![q].status = st] /\ Goes(d, r2)
  BY DEF Decide
<1>5. r2 \in Review
  BY <1>1, IdleIsReview DEF Review
<1>6. /\ r2.pc # "idle" => r2.id = q /\ r2.op = review[d].op
      /\ r2.pc = "marking" => r2.op \in {"approve", "reject"}
      /\ r2.pc \in {"idle", "marking"}
  BY <1>1 DEF Review, Idle, Marks
<1> HIDE DEF r, r2, st, q
<1>7. /\ request' \in [Requests -> Request]
      /\ request'[q].status = st
      /\ \A p \in Requests : request'[p].timed = request[p].timed
      /\ \A p \in Requests \ {q} : request'[p] = request[p]
  BY <1>1, <1>3, <1>4, StatusWrites
<1>8. /\ review' \in [Reviewers -> Review]
      /\ review'[d] = r2
      /\ \A e \in Reviewers \ {d} : review'[e] = review[e]
  BY <1>4, <1>5, ReviewWrites
<1>9. UNCHANGED <<overdue, asked, sweep>>
  BY DEF Decide
<1>10. OversightType' /\ OverdueWasTimed'
  BY <1>7, <1>8, <1>9 DEF OversightType, OverdueWasTimed
<1>11. Engaged'
  BY <1>1, <1>6, <1>8 DEF Engaged
<1>12. \A e \in Reviewers \ {d} : review'[e].pc = "marking" =>
          review'[e].id \in Requests \ {q}
  BY <1>1, <1>2, <1>8, PendingUnmarked DEF Engaged
<1>13. MarkerWon'
  <2>1. ASSUME review'[d].pc = "marking"
        PROVE  review'[d].id = q /\ request'[q].status = Outcome(review'[d].op)
    BY <2>1, <1>6, <1>7, <1>8 DEF st
  <2>2. \A e \in Reviewers \ {d} : review'[e].pc = "marking" =>
          request'[review'[e].id].status = Outcome(review'[e].op)
    BY <1>7, <1>8, <1>12 DEF MarkerWon
  <2>3. ASSUME NEW e \in Reviewers, NEW f \in Reviewers \ {e},
               review'[e].pc = "marking", review'[f].pc = "marking"
        PROVE  review'[f].id # review'[e].id
    <3>1. CASE e = d
      BY <3>1, <2>1, <2>3, <1>12
    <3>2. CASE f = d
      BY <3>2, <2>1, <2>3, <1>12
    <3>3. CASE e # d /\ f # d
      BY <3>3, <2>3, <1>8 DEF MarkerWon
    <3> QED
      BY <3>1, <3>2, <3>3
  <2> QED
    BY <2>1, <2>2, <2>3 DEF MarkerWon
<1> QED
  BY <1>10, <1>11, <1>13

\* Every step of a reviewer keeps the invariant.
LEMMA ReviewInv ==
  ASSUME OversightInv, NEW d \in Reviewers, ReviewStep(d)
  PROVE  OversightInv'
<1>1. CASE \E op \in Operation, q \in Requests : Open(d, op, q)
  <2> PICK op \in Operation, q \in Requests : Open(d, op, q)
    BY <1>1
  <2> DEFINE r == [pc |-> "deciding", op |-> op, id |-> q, seen |-> request[q].status]
  <2>1. r \in Review
    BY DEF OversightInv, OversightType, Request, Review
  <2> QED
    BY <2>1, GoesInv DEF Open
<1>2. CASE TurnedDown(d) \/ DecideConflict(d) \/ Mark(d) \/ MarkLost(d)
  <2>1. Idle.pc = "idle"
    BY DEF Idle
  <2>2. Goes(d, Idle) /\ UNCHANGED <<request, overdue, asked, sweep>>
    BY <1>2 DEF TurnedDown, DecideConflict, Mark, MarkLost
  <2> QED
    BY <2>1, <2>2, IdleIsReview, GoesInv
<1>3. CASE Decide(d)
  BY <1>3, DecideInv
<1> QED
  BY <1>1, <1>2, <1>3 DEF ReviewStep

\* Every step keeps the invariant.
LEMMA OversightInvNext == OversightInv /\ [OversightNext]_oversightVars => OversightInv'
<1> SUFFICES ASSUME OversightInv, [OversightNext]_oversightVars
             PROVE  OversightInv'
  OBVIOUS
<1>1. CASE WorkflowMoves
  BY <1>1, AsideInv DEF WorkflowMoves, OversightInv, OversightType
<1>2. CASE \E a \in Calls : Ask(a)
  <2> PICK a \in Calls : Ask(a)
    BY <1>2
  <2> PICK q \in Requests : File(q, Step(a), FALSE)
    BY DEF Ask
  <2>1. CASE Step(a) \in Steps
    BY <2>1, FileInv DEF Ask, OversightInv, OversightType
  <2> QED
    BY <2>1, OversightAssumption DEF Ask
<1>3. CASE FileByHand
  <2> PICK q \in Requests, s \in Steps, t \in BOOLEAN : File(q, s, t)
    BY <1>3 DEF FileByHand
  <2> QED
    BY <1>3, FileInv DEF FileByHand, OversightInv, OversightType
<1>4. CASE \E q \in Requests : DeadlinePasses(q)
  BY <1>4
  DEF DeadlinePasses, OversightInv, OversightType, Engaged, OverdueWasTimed, MarkerWon
<1>5. CASE \E q \in Requests : Expire(q)
  BY <1>5, ExpireInv
<1>6. CASE (\E q \in Requests : ExpireConflict(q)) \/ ListExpired
  BY <1>6, AsideInv
  DEF ExpireConflict, ListExpired, NoSweep, OversightInv, OversightType
<1>7. CASE \E d \in Reviewers : ReviewStep(d)
  BY <1>7, ReviewInv
<1>8. CASE ProcessCrash
  BY <1>8, IdleIsReview
  DEF ProcessCrash, OversightInv, OversightType, Engaged, OverdueWasTimed, MarkerWon,
      Idle, NoSweep
<1>9. CASE UNCHANGED oversightVars
  BY <1>9, AsideInv DEF oversightVars, oversight, OversightInv, OversightType
<1> QED
  BY <1>1, <1>2, <1>3, <1>4, <1>5, <1>6, <1>7, <1>8, <1>9 DEF OversightNext

\* The invariant holds in every reachable state.
THEOREM OversightInvCorrect == OversightSpec => []OversightInv
  BY OversightInvInit, OversightInvNext, PTL DEF OversightSpec, oversightVars

\* Of the reviewers of a request at most one marks the step, with the decision that
\* stands: a second reviewer's approve() or reject() ends at the version check.
THEOREM MarkerWonCorrect == OversightSpec => []MarkerWon
  BY OversightInvCorrect, PTL DEF OversightInv

--------------------------------------------------------------------------------
(* Decisions.                                                                      *)

\* Only a pending request changes its status, and what becomes of it.
LEMMA StatusChanges ==
  ASSUME OversightInv, OversightNext, NEW q \in Requests, request'[q] # request[q]
  PROVE  /\ request[q].status \notin Decided
         /\ q \in overdue => request'[q].status \in {"ESCALATED", "CANCELLED", "EXPIRED"}
<1> USE DEF OversightInv
<1>1. ASSUME NEW p \in Requests, NEW s \in Steps, NEW t \in BOOLEAN, File(p, s, t)
      PROVE  q = p /\ request[q].status = "ABSENT" /\ q \notin overdue
  BY <1>1, FileWrites DEF OverdueWasTimed
<1>2. CASE FileByHand
  BY <1>2, <1>1 DEF FileByHand, Decided
<1>3. CASE \E a \in Calls : Ask(a)
  BY <1>3, <1>1, OversightAssumption DEF Ask, Decided
<1>4. CASE \E p \in Requests : Expire(p)
  <2> PICK p \in Requests : Expire(p)
    BY <1>4
  <2>1. "EXPIRED" \in RequestStatus
    BY DEF RequestStatus, Decided
  <2>2. p = q /\ request'[q].status = "EXPIRED"
    BY <2>1, StatusWrites DEF Expire
  <2> QED
    BY <2>2 DEF Expire, Unmoved, OversightType, Pending, Decided
<1>5. CASE \E d \in Reviewers : Decide(d)
  <2> PICK d \in Reviewers : Decide(d)
    BY <1>5
  <2>1. review[d].id \in Requests /\ review[d].op \in Operation
    BY DEF Decide, Engaged
  <2>2. Outcome(review[d].op) \in RequestStatus
    BY <2>1 DEF Outcome, Operation, RequestStatus, Pending, Decided
  <2>3. review[d].id = q /\ request'[q].status = Outcome(review[d].op)
    BY <2>1, <2>2, StatusWrites DEF Decide
  <2>4. request[q].status \in Pending
    BY <2>3 DEF Decide, Unmoved, Allowed, Pending
  <2>5. q \in overdue => review[d].op \in {"escalate", "cancel"}
    BY <2>1, <2>3 DEF Decide, Allowed, Operation
  <2> QED
    BY <2>3, <2>4, <2>5 DEF Pending, Decided, Outcome
<1>6. CASE request' = request
  BY <1>6
<1> QED
  BY <1>2, <1>3, <1>4, <1>5, <1>6
  DEF OversightNext, WorkflowMoves, DeadlinePasses, ExpireConflict, ListExpired,
      ProcessCrash, ReviewStep, Open, TurnedDown, DecideConflict, Mark, MarkLost

\* The first decision on a request stands, for any number of reviewers and sweeps.
THEOREM DecisionsAreFinalCorrect == OversightSpec => DecisionsAreFinal
<1>1. ASSUME OversightInv, [OversightNext]_oversightVars
      PROVE  [\A q \in Requests :
                request[q].status \in Decided => request'[q] = request[q]]_oversightVars
  BY <1>1, StatusChanges DEF oversightVars
<1> QED
  BY <1>1, OversightInvCorrect, PTL DEF OversightSpec, DecisionsAreFinal, oversightVars

\* No request is taken up, approved or rejected after its deadline.
THEOREM NoLateDecisionCorrect == OversightSpec => NoLateDecision
<1>1. ASSUME OversightInv, [OversightNext]_oversightVars
      PROVE  [\A q \in overdue :
                request'[q].status # request[q].status =>
                  request'[q].status \in {"ESCALATED", "CANCELLED", "EXPIRED"}]_oversightVars
  BY <1>1, StatusChanges DEF oversightVars, OversightInv, OversightType
<1> QED
  BY <1>1, OversightInvCorrect, PTL DEF OversightSpec, NoLateDecision, oversightVars

--------------------------------------------------------------------------------
(* The workflow under oversight.                                                   *)

\* Every step is a step of the workflow, or leaves it alone.
LEMMA StepImplements ==
  ASSUME OversightInv, [OversightNext]_oversightVars
  PROVE  [Next]_vars
<1>1. CASE WorkflowMoves
  BY <1>1 DEF WorkflowMoves, Next
<1>2. CASE ProcessCrash
  BY <1>2 DEF ProcessCrash, Next
<1>3. CASE \E d \in Reviewers : Mark(d)
  <2> PICK d \in Reviewers : Mark(d)
    BY <1>3
  <2> DEFINE s == request[review[d].id].step
             v == VerdictOf(review[d].op)
  <2>1. s \in Steps
    BY DEF Mark, OversightInv, Engaged, OversightType, Request
  <2>2. v \in {"PASS", "FAIL"}
    BY DEF VerdictOf
  <2>3. Judge(s, v)
    BY DEF Mark
  <2> QED
    BY <2>1, <2>2, <2>3 DEF Next
<1>4. CASE UNCHANGED vars
  BY <1>4
<1> QED
  BY <1>1, <1>2, <1>3, <1>4
  DEF OversightNext, oversightVars, Ask, FileByHand, DeadlinePasses, Expire, ExpireConflict,
      ListExpired, ReviewStep, Open, TurnedDown, Decide, DecideConflict, MarkLost

\* The workflow under oversight implements the workflow: what is proved of
\* WorkflowRuns holds with requests, reviewers and sweeps around it.
THEOREM OversightImplements == OversightSpec => ImplementsWorkflowRuns
<1>1. OversightInit => Init
  BY DEF OversightInit
<1> QED
  BY <1>1, StepImplements, OversightInvCorrect, PTL
  DEF OversightSpec, Spec, ImplementsWorkflowRuns, oversightVars

\* Every variable keeps its shape, those of the workflow included.
THEOREM OversightTypeCorrect == OversightSpec => []OversightTypeOK
<1>1. OversightSpec => []TypeOK
  BY OversightImplements, TypeCorrect, PTL DEF ImplementsWorkflowRuns
<1>2. TypeOK /\ OversightInv => OversightTypeOK
  BY DEF OversightInv, OversightType, OversightTypeOK
<1> QED
  BY <1>1, <1>2, OversightInvCorrect, PTL

\* What oversight cannot take away from the workflow: with any number of requests,
\* reviewers and sweeps around it, at most one call can still save, retries stay
\* bounded, and decisions, records, dependencies and completions stand as without it.
THEOREM WorkflowUnderOversight ==
  OversightSpec => /\ []OneWriter /\ []OneTry /\ []AttemptsBounded
                   /\ DecisionsStand /\ RecordsStand /\ DependenciesGate /\ CompletedWhole
BY OversightImplements, OneWriterCorrect, OneTryCorrect, AttemptsBoundedCorrect, DecisionsStandCorrect,
   RecordsStandCorrect, DependenciesGateCorrect, CompletedWholeCorrect, PTL DEF ImplementsWorkflowRuns

================================================================================
