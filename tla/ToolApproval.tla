---------------------------- MODULE ToolApproval ----------------------------
(***************************************************************************)
(* ToolApprovalService.decide for one invocation, statement by statement,  *)
(* while other approvers, the requester's cancellation, the sweeper and    *)
(* the dispatcher's final gate act on the same rows (services/tools/       *)
(* approval.py, models/tool.py ToolApproval).                              *)
(*                                                                         *)
(* Each decision request runs in its own READ COMMITTED transaction: it    *)
(* reads the invocation, checks, inserts its tool_approval row, counts the *)
(* distinct approvers IT CAN SEE, writes approvals_received and moves the  *)
(* invocation when its own count meets the threshold.                      *)
(***************************************************************************)
EXTENDS Naturals, FiniteSets, ToolVocabulary

CONSTANTS
  Requests,       \* decision requests ever submitted
  Subjects,       \* principals
  SubjectOf,      \* SubjectOf[r]: who submits request r
  Requester,      \* principal_subject of the invocation
  Authorised,     \* subjects holding an approver role of the snapshot
  SelfPermitted,  \* deployment and tool policy both permit self-approval
  MinApprovals,   \* min_approvals of the snapshot
  None

ASSUME ApprovalAssumption ==
  /\ SubjectOf \in [Requests -> Subjects] /\ IsFiniteSet(Subjects)
  /\ Requester \in Subjects /\ Authorised \subseteq Subjects
  /\ SelfPermitted \in BOOLEAN
  /\ MinApprovals \in Nat \ {0}
  /\ None \notin Requests

VARIABLES
  state,       \* committed tool_invocation.state
  received,    \* committed approvals_received
  approvals,   \* committed tool_approval rows
  expired,     \* requests whose approval row's expires_at has passed
  lock,        \* request whose transaction holds the invocation's row lock
  draft,       \* uncommitted state written by the lock holder
  draftCount,  \* uncommitted approvals_received written by the lock holder
  inserted,    \* uncommitted tool_approval rows
  pc,          \* where each request is
  decision,    \* APPROVED or DENIED, as submitted
  loaded,      \* approvals_received when the request read the invocation
  counted,     \* the request's COUNT(DISTINCT approver_subject)
  gate         \* the final gate's verdict, "NULL" until evaluated

vars == <<state, received, approvals, expired, lock, draft, draftCount,
          inserted, pc, decision, loaded, counted, gate>>

Decisions == {"APPROVED", "DENIED"}
Row(r) == [req |-> r, subject |-> SubjectOf[r], decision |-> decision[r]]
Rows == [req : Requests, subject : Subjects, decision : Decisions]

ApprovedBy(S) == {a.subject : a \in {b \in S : b.decision = "APPROVED"}}

Least(m, n) == IF m < n THEN m ELSE n

(* Requests that ended, one way or another.                                *)
Ended == {"refused", "duplicate", "stale", "crashed", "done"}

TypeOK ==
  /\ state \in InvocationState
  /\ received \in 0..MinApprovals
  /\ approvals \subseteq Rows /\ inserted \subseteq Rows
  /\ expired \subseteq Requests
  /\ lock \in Requests \cup {None}
  /\ lock # None => pc[lock] \in {"advance", "commit"}
  /\ draft \in InvocationState /\ draftCount \in 0..MinApprovals
  /\ pc \in [Requests -> {"new", "insert", "count", "flush", "advance", "deny",
                          "commit"} \cup Ended]
  /\ decision \in [Requests -> Decisions]
  /\ loaded \in [Requests -> 0..MinApprovals]
  /\ counted \in [Requests -> 0..Cardinality(Subjects)]
  /\ gate \in GateDecision \cup {"NULL"}

Init ==
  /\ state = "AWAITING_APPROVAL" /\ received = 0
  /\ approvals = {} /\ inserted = {} /\ expired = {}
  /\ lock = None /\ draft = "AWAITING_APPROVAL" /\ draftCount = 0
  /\ pc = [r \in Requests |-> "new"]
  /\ decision = [r \in Requests |-> "APPROVED"]
  /\ loaded = [r \in Requests |-> 0]
  /\ counted = [r \in Requests |-> 0]
  /\ gate = "NULL"

Goto(r, l) == pc' = [pc EXCEPT ![r] = l]

(* The transaction of r ends without a trace (exception or crash).         *)
Abort(r, l) ==
  /\ Goto(r, l)
  /\ inserted' = {a \in inserted : a.req # r}
  /\ lock' = IF lock = r THEN None ELSE lock
  /\ draft' = IF lock = r THEN state ELSE draft
  /\ draftCount' = IF lock = r THEN received ELSE draftCount
  /\ UNCHANGED <<state, received, approvals, expired, decision, loaded, counted,
                 gate>>

-----------------------------------------------------------------------------
(* decide()                                                                *)

(* Mutant of MayDecide: separation of duties is left to the caller.        *)
MayDecideOwn(r, statedDigestMatches) ==
  /\ state = "AWAITING_APPROVAL"
  /\ statedDigestMatches
  /\ SubjectOf[r] \in Authorised

(* _check_state, _check_envelope, _check_authority, _derive_self_approval  *)
(* on the row as read now.                                                 *)
MayDecide(r, statedDigestMatches) ==
  /\ state = "AWAITING_APPROVAL"
  /\ statedDigestMatches
  /\ SubjectOf[r] \in Authorised
  /\ SubjectOf[r] = Requester => SelfPermitted

Begin(r) ==
  /\ pc[r] = "new"
  /\ \E d \in Decisions, statedDigestMatches \in BOOLEAN :
       /\ decision' = [decision EXCEPT ![r] = d]
       /\ Goto(r, IF MayDecide(r, statedDigestMatches) THEN "insert"
                  ELSE "refused")
  /\ loaded' = [loaded EXCEPT ![r] = received]
  /\ UNCHANGED <<state, received, approvals, expired, lock, draft, draftCount,
                 inserted, counted, gate>>

(* uq_tool_approval_distinct: (invocation, approver) WHERE APPROVED.       *)
Clash(r, S) == decision[r] = "APPROVED" /\ SubjectOf[r] \in ApprovedBy(S)

(* The INSERT.  A clash with an uncommitted row waits for that transaction. *)
Insert(r) ==
  /\ pc[r] = "insert" /\ ~Clash(r, approvals \cup inserted)
  /\ inserted' = inserted \cup {Row(r)}
  /\ Goto(r, IF decision[r] = "DENIED" THEN "deny" ELSE "count")
  /\ UNCHANGED <<state, received, approvals, expired, lock, draft, draftCount,
                 decision, loaded, counted, gate>>

InsertDuplicate(r) ==
  /\ pc[r] = "insert" /\ Clash(r, approvals)
  /\ Abort(r, "duplicate")

(* Mutant of Count: counts rows that other transactions may yet roll back. *)
CountUncommitted(r) ==
  /\ pc[r] = "count"
  /\ counted' = [counted EXCEPT ![r] =
                   Cardinality(ApprovedBy(approvals \cup inserted))]
  /\ Goto(r, "flush")
  /\ UNCHANGED <<state, received, approvals, expired, lock, draft, draftCount,
                 inserted, decision, loaded, gate>>

(* COUNT(DISTINCT approver_subject) under READ COMMITTED: the committed    *)
(* rows and one's own.                                                     *)
Count(r) ==
  /\ pc[r] = "count"
  /\ counted' = [counted EXCEPT ![r] =
                   Cardinality(ApprovedBy(approvals \cup {Row(r)}))]
  /\ Goto(r, "flush")
  /\ UNCHANGED <<state, received, approvals, expired, lock, draft, draftCount,
                 inserted, decision, loaded, gate>>

(* session.flush(): UPDATE ... SET approvals_received WHERE id = :id, with *)
(* no state predicate, and only if the value differs from the loaded one.  *)
Flush(r) ==
  LET mine == Least(counted[r], MinApprovals) IN
  /\ pc[r] = "flush"
  /\ IF mine # loaded[r]
       THEN /\ lock = None
            /\ lock' = r /\ draft' = state /\ draftCount' = mine
       ELSE UNCHANGED <<lock, draft, draftCount>>
  /\ Goto(r, IF counted[r] < MinApprovals THEN "commit" ELSE "advance")
  /\ UNCHANGED <<state, received, approvals, expired, inserted, decision,
                 loaded, counted, gate>>

(* transition(APPROVED) then transition(READY): compare-and-set on the     *)
(* state; the lock holder sees its own version.                            *)
Advance(r) ==
  /\ pc[r] = "advance" /\ lock \in {r, None}
  /\ state = "AWAITING_APPROVAL"
  /\ lock' = r /\ draft' = "READY"
  /\ draftCount' = IF lock = r THEN draftCount ELSE received
  /\ Goto(r, "commit")
  /\ UNCHANGED <<state, received, approvals, expired, inserted, decision,
                 loaded, counted, gate>>

(* Mutant of Refuse: the state is set without asserting the one left.      *)
RefuseUnconditionally(r) ==
  /\ pc[r] = "deny" /\ lock = None
  /\ lock' = r /\ draft' = "DENIED" /\ draftCount' = received
  /\ Goto(r, "commit")
  /\ UNCHANGED <<state, received, approvals, expired, inserted, decision,
                 loaded, counted, gate>>

(* transition(DENIED): one denial is enough.                               *)
Refuse(r) ==
  /\ pc[r] = "deny" /\ lock = None
  /\ state = "AWAITING_APPROVAL"
  /\ lock' = r /\ draft' = "DENIED" /\ draftCount' = received
  /\ Goto(r, "commit")
  /\ UNCHANGED <<state, received, approvals, expired, inserted, decision,
                 loaded, counted, gate>>

(* StaleTransitionError: the whole decision, its row included, is lost.    *)
StaleDecision(r) ==
  /\ pc[r] \in {"advance", "deny"} /\ state # "AWAITING_APPROVAL"
  /\ Abort(r, "stale")

Commit(r) ==
  /\ pc[r] = "commit"
  /\ approvals' = approvals \cup {a \in inserted : a.req = r}
  /\ inserted' = {a \in inserted : a.req # r}
  /\ IF lock = r
       THEN state' = draft /\ received' = draftCount /\ lock' = None
       ELSE UNCHANGED <<state, received, lock>>
  /\ Goto(r, "done")
  /\ UNCHANGED <<expired, draft, draftCount, decision, loaded, counted, gate>>

Crash(r) ==
  /\ pc[r] \notin Ended \cup {"new"}
  /\ Abort(r, "crashed")

-----------------------------------------------------------------------------
(* Everyone else                                                           *)

(* cancel(), expire_stale() and claim_for_execution(): short transactions  *)
(* that assert the state they read.                                        *)
MoveRow(from, to) ==
  /\ state \in from /\ lock = None
  /\ state' = to /\ draft' = to
  /\ UNCHANGED <<received, approvals, expired, lock, draftCount, inserted, pc,
                 decision, loaded, counted, gate>>

CancelRow == MoveRow({"AWAITING_APPROVAL", "READY"}, "CANCELLED")
ExpireRow == MoveRow({"AWAITING_APPROVAL", "READY"}, "EXPIRED")
ClaimRow == MoveRow({"READY"}, "EXECUTING")

ApprovalExpires(r) ==
  /\ \E a \in approvals : a.req = r
  /\ r \notin expired
  /\ expired' = expired \cup {r}
  /\ UNCHANGED <<state, received, approvals, lock, draft, draftCount, inserted,
                 pc, decision, loaded, counted, gate>>

(* Mutant of approval_failure: asks for one approver too many.             *)
approval_failure_strict ==
  LET given == {a \in approvals : a.decision = "APPROVED"} IN
  \/ \E a \in given : a.req \in expired
  \/ Cardinality(ApprovedBy(given)) <= MinApprovals

(* approval_failure() over approved_rows(), at the final gate.  Every row  *)
(* carries the digest its approver named and _check_envelope matched it,   *)
(* so only expiry and the number of distinct approvers remain.             *)
approval_failure ==
  LET given == {a \in approvals : a.decision = "APPROVED"} IN
  \/ given = {}
  \/ \E a \in given : a.req \in expired
  \/ Cardinality(ApprovedBy(given)) < MinApprovals

FinalGate ==
  /\ state = "EXECUTING" /\ gate = "NULL"
  /\ gate' = IF approval_failure THEN "DENY" ELSE "ALLOW"
  /\ UNCHANGED <<state, received, approvals, expired, lock, draft, draftCount,
                 inserted, pc, decision, loaded, counted>>

Next ==
  \/ \E r \in Requests :
       \/ Begin(r) \/ Insert(r) \/ InsertDuplicate(r) \/ Count(r) \/ Flush(r)
       \/ Advance(r) \/ Refuse(r) \/ StaleDecision(r) \/ Commit(r) \/ Crash(r)
       \/ ApprovalExpires(r)
  \/ CancelRow \/ ExpireRow \/ ClaimRow \/ FinalGate

Spec == Init /\ [][Next]_vars

-----------------------------------------------------------------------------
(* Properties                                                              *)

(* Nothing becomes executable without the approvals its snapshot asked for: *)
(* a READY or EXECUTING row has min_approvals committed APPROVED rows by   *)
(* that many distinct, authorised people, none of them the requester unless *)
(* self-approval is permitted (decide, _count_and_advance).                *)
ReadyIsApproved ==
  state \in {"READY", "EXECUTING"} =>
    Cardinality(ApprovedBy(approvals) \cap
                (Authorised \ (IF SelfPermitted THEN {} ELSE {Requester})))
      >= MinApprovals

(* Two approvals from one person are one approval: concurrent double       *)
(* submissions never leave two APPROVED rows of one subject (the partial   *)
(* unique index decides, DuplicateApprovalError).                          *)
OneApprovalPerSubject ==
  \A a, b \in approvals :
    /\ a.decision = "APPROVED" /\ b.decision = "APPROVED"
    /\ a.subject = b.subject
    => a = b

(* A committed denial ends the invocation: it is DENIED, by exactly one    *)
(* denial, however many approvals raced with it.                           *)
DenialIsFinal ==
  \A a \in approvals : a.decision = "DENIED" =>
    /\ state = "DENIED"
    /\ \A b \in approvals : b.decision = "DENIED" => b = a

(* The stored counter may lag the rows but never runs ahead of them, so no *)
(* reader of approvals_received sees an approval nobody gave.              *)
CounterNeverAhead == received <= Cardinality(ApprovedBy(approvals))

(* What decide() counted as enough is enough for the dispatcher's own      *)
(* re-check, however many decisions raced, unless an approval's own TTL ran *)
(* out in between (approval_failure against _count_and_advance).           *)
GateAgreesWithQuorum == gate = "DENY" => expired # {}

(* _count_and_advance: "Count distinct approvers and move on once the      *)
(* threshold is met ... a counter can drift and this cannot".  When every  *)
(* decision has ended, enough distinct approvers mean the row has moved on. *)
ThresholdMovesOn ==
  (\A r \in Requests : pc[r] \in Ended \cup {"new"})
  /\ Cardinality(ApprovedBy(approvals)) >= MinApprovals
    => state # "AWAITING_APPROVAL"

=============================================================================
