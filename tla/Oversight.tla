-------------------------------- MODULE Oversight --------------------------------
(***************************************************************************)
(* HumanOversightService together with the workflow it oversees: approval  *)
(* requests, filed by executeStep for a step that requires one or by hand  *)
(* over HTTP, concurrent decisions on them, and what a decision does to    *)
(* the step.  The workflow is the one of WorkflowRuns, and every behaviour *)
(* of this module is a behaviour of that one.                              *)
(*                                                                         *)
(* A request never has the same status in two of its versions, so the      *)
(* comparison of versions in approvalRepo.save() is a comparison of        *)
(* statuses.  Computing the next state of a request and saving it happen   *)
(* with no await in between.  Abstracted: who the reviewers are, and why a *)
(* reviewer is turned down.                                                *)
(***************************************************************************)
EXTENDS WorkflowRuns

CONSTANTS
  Requests,       \* ids of approval requests; bound: requests ever filed
  Reviewers,      \* concurrent calls of the service
  NeedsApproval   \* steps with requiresApproval

ASSUME OversightAssumption == NeedsApproval \subseteq Steps

VARIABLES
  request,  \* durable: the rows of approval_requests
  overdue,  \* requests whose expiresAt has passed
  asked,    \* calls of advanceWorkflow that have filed the request for their step
  review,   \* local variables of the reviewers
  sweep     \* the rest of the list expirePendingApprovals works through

oversight == <<request, overdue, asked, review, sweep>>

Pending == {"REQUESTED", "REVIEWING"}
Decided == {"APPROVED", "REJECTED", "ESCALATED", "CANCELLED", "EXPIRED"}
RequestStatus == {"ABSENT"} \union Pending \union Decided
Request == [status : RequestStatus, step : Steps, timed : BOOLEAN]
Absent == [status |-> "ABSENT", step |-> 1, timed |-> FALSE]

Operation == {"startReview", "approve", "reject", "escalate", "cancel"}
Review == [pc : {"idle", "deciding", "marking"}, op : Operation \union {"none"},
           id : Requests \union {"none"}, seen : RequestStatus]
Idle == [pc |-> "idle", op |-> "none", id |-> "none", seen |-> "ABSENT"]
NoSweep == [q \in Requests |-> "ABSENT"]

OversightInit ==
  /\ Init
  /\ request = [q \in Requests |-> Absent]
  /\ overdue = {} /\ asked = {}
  /\ review = [d \in Reviewers |-> Idle]
  /\ sweep = NoSweep

--------------------------------------------------------------------------------
(* Filing and expiring requests.                                               *)

File(q, s, timed) ==
  /\ request[q] = Absent
  /\ request' = [request EXCEPT ![q] = [status |-> "REQUESTED", step |-> s, timed |-> timed]]

\* executeStep, once the step is completed.  The request has no
\* expiresAt, and the workflow goes on without waiting for it.
Ask(a) ==
  /\ call[a].pc = "completed" /\ Step(a) \in NeedsApproval /\ a \notin asked
  /\ \E q \in Requests : File(q, Step(a), FALSE)
  /\ asked' = asked \union {a}
  /\ UNCHANGED <<vars, overdue, review, sweep>>

\* POST /approvals
FileByHand ==
  /\ \E q \in Requests, s \in Steps, timed \in BOOLEAN : File(q, s, timed)
  /\ UNCHANGED <<vars, overdue, asked, review, sweep>>

DeadlinePasses(q) ==
  /\ request[q].timed /\ q \notin overdue
  /\ overdue' = overdue \union {q}
  /\ UNCHANGED <<vars, request, asked, review, sweep>>

--------------------------------------------------------------------------------
(* Decisions.                                                                  *)

Outcome(op) ==
  CASE op = "startReview" -> "REVIEWING" [] op = "approve" -> "APPROVED"
    [] op = "reject" -> "REJECTED" [] op = "escalate" -> "ESCALATED"
    [] op = "cancel" -> "CANCELLED" [] op = "none" -> "ABSENT"

\* Wrong variant: a decision does not ask for the deadline.
AllowedLate(op, seen, q) ==
  /\ seen \in IF op = "startReview" THEN {"REQUESTED"} ELSE Pending
  /\ op = "startReview" => q \notin overdue

\* What the copy of the request and the clock allow.
Allowed(op, seen, q) ==
  /\ seen \in IF op = "startReview" THEN {"REQUESTED"} ELSE Pending
  /\ op \in {"startReview", "approve", "reject"} => q \notin overdue

Marks(op) == op \in {"approve", "reject"}

Goes(d, r) == review' = [review EXCEPT ![d] = r]

Open(d, op, q) ==
  /\ review[d] = Idle /\ request[q] # Absent
  /\ Goes(d, [pc |-> "deciding", op |-> op, id |-> q, seen |-> request[q].status])
  /\ UNCHANGED <<vars, request, overdue, asked, sweep>>

\* A policy, the segregation of duties, a missing role, or a request that is no
\* longer pending.
TurnedDown(d) ==
  /\ review[d].pc = "deciding"
  /\ review[d].op # "cancel" \/ ~Allowed("cancel", review[d].seen, review[d].id)
  /\ Goes(d, Idle)
  /\ UNCHANGED <<vars, request, overdue, asked, sweep>>

\* Wrong variant: UPDATE ... WHERE id = ? only.
UnmovedOrNot(q, seen) == TRUE

\* UPDATE ... WHERE version = the one that was read
Unmoved(q, seen) == request[q].status = seen

Decide(d) ==
  LET r == review[d] IN
  /\ r.pc = "deciding" /\ Allowed(r.op, r.seen, r.id) /\ Unmoved(r.id, r.seen)
  /\ request' = [request EXCEPT ![r.id].status = Outcome(r.op)]
  /\ Goes(d, IF Marks(r.op) THEN [r EXCEPT !.pc = "marking"] ELSE Idle)
  /\ UNCHANGED <<vars, overdue, asked, sweep>>

\* Wrong variant: the conflict is swallowed, and the step is marked all the same.
ConflictSwallowed(d) ==
  LET r == review[d] IN
  /\ r.pc = "deciding" /\ ~Unmoved(r.id, r.seen)
  /\ Goes(d, IF Marks(r.op) THEN [r EXCEPT !.pc = "marking"] ELSE Idle)
  /\ UNCHANGED <<vars, request, overdue, asked, sweep>>

\* ApprovalConcurrencyConflictError
DecideConflict(d) ==
  LET r == review[d] IN
  /\ r.pc = "deciding" /\ ~Unmoved(r.id, r.seen)
  /\ Goes(d, Idle)
  /\ UNCHANGED <<vars, request, overdue, asked, sweep>>

\* verifyStepResult() judges the payload of the approval; without a rule, and no read
\* returns one, every payload passes.  reject() marks the step failed.
VerdictOf(op) == IF op = "approve" THEN "PASS" ELSE "FAIL"

\* Wrong variant: the instance is written without a new version.
MarkSilently(d) ==
  LET s == request[review[d].id].step IN
  /\ review[d].pc = "marking"
  /\ stored' = judged(findById, s, VerdictOf(review[d].op))
  /\ Goes(d, Idle)
  /\ UNCHANGED <<call, request, overdue, asked, sweep>>

Mark(d) ==
  LET s == request[review[d].id].step IN
  /\ review[d].pc = "marking"
  /\ Judge(s, VerdictOf(review[d].op))
  /\ Goes(d, Idle)
  /\ UNCHANGED <<request, overdue, asked, sweep>>

\* The instance was moved, or the verification was denied: the error is swallowed,
\* and the decision never reaches the step.
MarkLost(d) ==
  /\ review[d].pc = "marking"
  /\ Goes(d, Idle)
  /\ UNCHANGED <<vars, request, overdue, asked, sweep>>

--------------------------------------------------------------------------------
(* expirePendingApprovals                                                      *)

ListExpired ==
  /\ sweep = NoSweep
  /\ sweep' = [q \in Requests |->
       IF q \in overdue /\ request[q].status \in Pending THEN request[q].status ELSE "ABSENT"]
  /\ UNCHANGED <<vars, request, overdue, asked, review>>

Expire(q) ==
  /\ sweep[q] # "ABSENT" /\ Unmoved(q, sweep[q])
  /\ request' = [request EXCEPT ![q].status = "EXPIRED"]
  /\ sweep' = [sweep EXCEPT ![q] = "ABSENT"]
  /\ UNCHANGED <<vars, overdue, asked, review>>

\* A conflict leaves the rest of the list alone.
ExpireConflict(q) ==
  /\ sweep[q] # "ABSENT" /\ ~Unmoved(q, sweep[q])
  /\ sweep' = NoSweep
  /\ UNCHANGED <<vars, request, overdue, asked, review>>

--------------------------------------------------------------------------------
(* The workflow moves; a step that requires approval is left once it asked.    *)

LeavesStep(a) == call[a].pc = "completed" /\ call'[a].pc = "reload"

WorkflowMoves ==
  /\ \/ \E a \in Calls : Advance(a) \/ CallStep(a)
     \/ Pause \/ Resume \/ Cancel
     \/ \E s \in Steps, v \in {"PASS", "FAIL"} : Judge(s, v)
  /\ \A a \in Calls : LeavesStep(a) => Step(a) \notin NeedsApproval \/ a \in asked
  /\ asked' = {a \in asked : call'[a].pc = "completed"}
  /\ UNCHANGED <<request, overdue, review, sweep>>

ProcessCrash ==
  /\ Crash
  /\ asked' = {} /\ review' = [d \in Reviewers |-> Idle] /\ sweep' = NoSweep
  /\ UNCHANGED <<request, overdue>>

ReviewStep(d) ==
  \/ \E op \in Operation, q \in Requests : Open(d, op, q)
  \/ TurnedDown(d) \/ Decide(d) \/ DecideConflict(d) \/ Mark(d) \/ MarkLost(d)

OversightNext ==
  \/ WorkflowMoves
  \/ \E a \in Calls : Ask(a)
  \/ FileByHand
  \/ \E q \in Requests : DeadlinePasses(q) \/ Expire(q) \/ ExpireConflict(q)
  \/ \E d \in Reviewers : ReviewStep(d)
  \/ ListExpired
  \/ ProcessCrash

OversightSpec == OversightInit /\ [][OversightNext]_<<vars, oversight>>

--------------------------------------------------------------------------------
(* Properties                                                                  *)

\* Every variable keeps its shape.
OversightTypeOK ==
  /\ TypeOK
  /\ request \in [Requests -> Request]
  /\ overdue \subseteq Requests /\ asked \subseteq Calls
  /\ review \in [Reviewers -> Review]
  /\ sweep \in [Requests -> {"ABSENT"} \union Pending]

\* "Terminal states are monotonic": whatever reviewers decide at the same time, and
\* whatever the sweep had listed, the first decision on a request stands.
DecisionsAreFinal ==
  [][\A q \in Requests :
       request[q].status \in Decided => request'[q] = request[q]]_<<vars, oversight>>

\* Of several reviewers of a request at most one goes on to mark the step, and the
\* decision it marks is the one that stands.
MarkerWon ==
  \A d \in Reviewers : review[d].pc = "marking" =>
    /\ request[review[d].id].status = Outcome(review[d].op)
    /\ \A e \in Reviewers \ {d} :
         review[e].pc = "marking" => review[e].id # review[d].id

\* A request past its deadline is not taken up, approved or rejected any more, even
\* by a reviewer that began in time and awaited a policy meanwhile.
NoLateDecision ==
  [][\A q \in overdue :
       request'[q].status # request[q].status =>
         request'[q].status \in {"ESCALATED", "CANCELLED", "EXPIRED"}]_<<vars, oversight>>

\* The workflow under oversight is a workflow: a decision acts on the instance only
\* as a verdict from outside does, and filing requests moves nothing in it.
ImplementsWorkflowRuns == Spec
================================================================================
