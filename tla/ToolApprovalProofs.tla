------------------------- MODULE ToolApprovalProofs -------------------------
(***************************************************************************)
(* What ToolApproval keeps for any number of decision requests, principals *)
(* and any threshold.                                                      *)
(*                                                                         *)
(* The committed rows alone are not inductive: a request that has counted  *)
(* enough approvals moves the row later, after others have committed or    *)
(* failed. The invariant therefore says what a request in the middle of    *)
(* its transaction has inserted (RowsInv), was entitled to (AuthorityInv), *)
(* has counted (CountInv), and what the holder of the row lock is about to *)
(* write (LockInv).                                                        *)
(***************************************************************************)
EXTENDS ToolApproval, FiniteSetTheorems, TLAPS

Active == {"count", "flush", "advance", "deny", "commit"}

Qualified == Authorised \ (IF SelfPermitted THEN {} ELSE {Requester})

\* What the transaction of r sees of the approvals.
SeenBy(r) == approvals \cup {Row(r)}

Approved(a) == a.decision = "APPROVED"

RowsInv ==
  /\ \A a \in approvals : pc[a.req] = "done" /\ a = Row(a.req)
  /\ \A a \in inserted : pc[a.req] \in Active /\ a = Row(a.req)
  /\ \A r \in Requests : pc[r] \in Active => Row(r) \in inserted

AuthorityInv ==
  /\ \A a \in approvals : a.subject \in Qualified
  /\ \A r \in Requests : pc[r] \in Active \cup {"insert"} => SubjectOf[r] \in Qualified

UniqueInv ==
  \A a, b \in approvals \cup inserted :
    Approved(a) /\ Approved(b) /\ a.subject = b.subject => a = b

DecisionInv ==
  \A r \in Requests :
    /\ pc[r] \in {"count", "flush", "advance"} => decision[r] = "APPROVED"
    /\ pc[r] = "deny" => decision[r] = "DENIED"
    /\ pc[r] = "commit" /\ decision[r] = "DENIED" => lock = r

CountInv ==
  \A r \in Requests :
    /\ pc[r] \in {"flush", "advance", "commit"} /\ decision[r] = "APPROVED"
         => counted[r] <= Cardinality(ApprovedBy(SeenBy(r)))
    /\ pc[r] = "advance" => counted[r] >= MinApprovals

\* The draft is what was read, the release that enough approvals were counted
\* for, or a denial.
LockInv ==
  lock # None =>
    /\ \/ draft = state /\ decision[lock] = "APPROVED"
       \/ /\ state = "AWAITING_APPROVAL" /\ draft = "READY" /\ pc[lock] = "commit"
          /\ decision[lock] = "APPROVED" /\ counted[lock] >= MinApprovals
       \/ /\ state = "AWAITING_APPROVAL" /\ draft = "DENIED" /\ pc[lock] = "commit"
          /\ decision[lock] = "DENIED"
    /\ draftCount <= Cardinality(ApprovedBy(SeenBy(lock)))

Enough == state \in {"READY", "EXECUTING"} => Cardinality(ApprovedBy(approvals)) >= MinApprovals

IInv ==
  /\ TypeOK
  /\ RowsInv
  /\ AuthorityInv
  /\ UniqueInv
  /\ DecisionInv
  /\ CountInv
  /\ LockInv
  /\ Enough
  /\ CounterNeverAhead
  /\ DenialIsFinal
  /\ GateAgreesWithQuorum

-----------------------------------------------------------------------------
(* Facts about the approvers of a set of rows                              *)

\* The approvers of any set of rows are finitely many.
LEMMA ApproversFinite ==
  ASSUME NEW S \in SUBSET Rows
  PROVE  /\ IsFiniteSet(ApprovedBy(S))
         /\ Cardinality(ApprovedBy(S)) \in 0..Cardinality(Subjects)
<1>1. ApprovedBy(S) \subseteq Subjects
  BY DEF ApprovedBy, Rows
<1>2. IsFiniteSet(Subjects)
  BY ApprovalAssumption
<1>3. /\ IsFiniteSet(ApprovedBy(S))
      /\ Cardinality(ApprovedBy(S)) <= Cardinality(Subjects)
  BY <1>1, <1>2, FS_Subset
<1>4. Cardinality(ApprovedBy(S)) \in Nat /\ Cardinality(Subjects) \in Nat
  BY <1>2, <1>3, FS_CardinalityType
<1> QED
  BY <1>3, <1>4

\* More rows, no fewer approvers.
LEMMA ApproversGrow ==
  ASSUME NEW T \in SUBSET Rows, NEW S \in SUBSET T
  PROVE  Cardinality(ApprovedBy(S)) <= Cardinality(ApprovedBy(T))
<1>1. ApprovedBy(S) \subseteq ApprovedBy(T)
  BY DEF ApprovedBy
<1> QED
  BY <1>1, ApproversFinite, FS_Subset

\* A row of a request has the shape of a row.
LEMMA RowIsRow ==
  ASSUME TypeOK, NEW r \in Requests
  PROVE  Row(r) \in Rows /\ SeenBy(r) \in SUBSET Rows
BY ApprovalAssumption DEF TypeOK, Row, Rows, SeenBy

-----------------------------------------------------------------------------
(* The invariant *)

\* The start satisfies the invariant.
LEMMA InitInv == Init => IInv
<1> SUFFICES ASSUME Init PROVE IInv
  OBVIOUS
<1>1. TypeOK
  <2>1. 0 \in 0..Cardinality(Subjects)
    BY ApprovalAssumption, FS_CardinalityType
  <2> QED
    BY <2>1, ApprovalAssumption
       DEF Init, TypeOK, Decisions, InvocationState, GateDecision
<1>2. RowsInv /\ AuthorityInv /\ UniqueInv /\ DecisionInv /\ CountInv /\ LockInv
  BY DEF Init, RowsInv, AuthorityInv, UniqueInv, DecisionInv, CountInv, LockInv, Active
<1>3. Enough /\ DenialIsFinal /\ GateAgreesWithQuorum
  BY DEF Init, Enough, DenialIsFinal, GateAgreesWithQuorum
<1>4. CounterNeverAhead
  BY ApproversFinite DEF Init, CounterNeverAhead
<1> QED
  BY <1>1, <1>2, <1>3, <1>4 DEF IInv

\* decide() reads the invocation and checks: nothing is written yet.
LEMMA BeginStep ==
  ASSUME IInv, NEW r \in Requests, Begin(r)
  PROVE  IInv'
<1> USE DEF IInv
<1>1. \A q \in Requests \ {r} : Row(q)' = Row(q)
  BY DEF Begin, TypeOK, Row
<1>2. pc[r] = "new" /\ pc'[r] \in {"insert", "refused"}
  BY DEF Begin, TypeOK, Goto
<1>3. \A q \in Requests \ {r} : pc'[q] = pc[q] /\ decision'[q] = decision[q]
  BY DEF Begin, TypeOK, Goto
<1>4. lock # r
  BY <1>2, ApprovalAssumption DEF TypeOK
<1>5. TypeOK'
  BY <1>4 DEF Begin, TypeOK, Goto, Ended, Decisions
<1>6. RowsInv'
  BY <1>1, <1>2, <1>3 DEF Begin, TypeOK, RowsInv, Rows, Active
<1>7. AuthorityInv'
  BY <1>2, <1>3 DEF Begin, Goto, MayDecide, TypeOK, AuthorityInv, Active, Qualified
<1>8. UniqueInv' /\ CounterNeverAhead' /\ DenialIsFinal' /\ GateAgreesWithQuorum' /\ Enough'
  BY DEF Begin, UniqueInv, CounterNeverAhead, DenialIsFinal, GateAgreesWithQuorum, Enough,
         Approved, ApprovedBy
<1>9. DecisionInv'
  BY <1>2, <1>3 DEF Begin, DecisionInv
<1>10. \A q \in Requests \ {r} : SeenBy(q)' = SeenBy(q)
  BY <1>1 DEF Begin, SeenBy
<1>11. CountInv'
  BY <1>2, <1>3, <1>10 DEF Begin, CountInv, ApprovedBy
<1>12. LockInv'
  BY <1>3, <1>4, <1>10 DEF Begin, LockInv, TypeOK, ApprovedBy
<1> QED
  BY <1>5, <1>6, <1>7, <1>8, <1>9, <1>11, <1>12

\* The INSERT: the unique index has let it pass, so the approver is new.
LEMMA InsertStep ==
  ASSUME IInv, NEW r \in Requests, Insert(r)
  PROVE  IInv'
<1> USE DEF IInv
<1>1. Row(r) \in Rows /\ \A q \in Requests : Row(q)' = Row(q) /\ SeenBy(q)' = SeenBy(q)
  BY RowIsRow DEF Insert, Row, SeenBy
<1>2. /\ pc[r] = "insert"
      /\ pc'[r] = IF decision[r] = "DENIED" THEN "deny" ELSE "count"
      /\ \A q \in Requests \ {r} : pc'[q] = pc[q]
  BY DEF Insert, TypeOK, Goto
<1>3. lock # r
  BY <1>2, ApprovalAssumption DEF TypeOK
<1>4. TypeOK'
  BY <1>1, <1>3 DEF Insert, TypeOK, Goto
<1>5. RowsInv'
  BY <1>1, <1>2 DEF Insert, RowsInv, TypeOK, Rows, Row, Active
<1>6. AuthorityInv'
  BY <1>2 DEF Insert, AuthorityInv, Active
<1>7. UniqueInv'
  BY <1>1 DEF Insert, UniqueInv, Clash, Approved, ApprovedBy, Row
<1>8. CounterNeverAhead' /\ DenialIsFinal' /\ GateAgreesWithQuorum' /\ Enough'
  BY DEF Insert, CounterNeverAhead, DenialIsFinal, GateAgreesWithQuorum, Enough, ApprovedBy
<1>9. DecisionInv'
  BY <1>2 DEF Insert, DecisionInv, TypeOK, Decisions
<1>10. CountInv'
  BY <1>1, <1>2 DEF Insert, CountInv, ApprovedBy
<1>11. LockInv'
  BY <1>1, <1>2, <1>3 DEF Insert, LockInv, TypeOK, ApprovedBy
<1> QED
  BY <1>4, <1>5, <1>6, <1>7, <1>8, <1>9, <1>10, <1>11

\* An exception, a stale transition or a crash: the transaction leaves nothing.
LEMMA AbortStep ==
  ASSUME IInv, NEW r \in Requests, NEW l \in Ended \ {"done"}, Abort(r, l),
         pc[r] \notin Ended
  PROVE  IInv'
<1> USE DEF IInv
<1>1. \A q \in Requests : Row(q)' = Row(q) /\ SeenBy(q)' = SeenBy(q)
  BY DEF Abort, Row, SeenBy
<1>2. pc'[r] = l /\ \A q \in Requests \ {r} : pc'[q] = pc[q]
  BY DEF Abort, TypeOK, Goto
<1>3. lock' # None => lock' = lock /\ lock # r /\ draft' = draft /\ draftCount' = draftCount
  BY DEF Abort
<1>4. TypeOK'
  <2>1. pc' \in [Requests -> {"new", "insert", "count", "flush", "advance", "deny",
                              "commit"} \cup Ended]
    BY DEF Abort, TypeOK, Goto
  <2>2. lock' # None => pc'[lock'] \in {"advance", "commit"}
    BY <1>2, <1>3 DEF TypeOK
  <2> QED
    BY <2>1, <2>2 DEF Abort, TypeOK
<1>5. RowsInv'
  BY <1>1, <1>2 DEF Abort, RowsInv, TypeOK, Rows, Row, Active, Ended
<1>6. AuthorityInv'
  BY <1>2 DEF Abort, AuthorityInv, Active, Ended
<1>7. UniqueInv'
  BY DEF Abort, UniqueInv, Approved
<1>8. CounterNeverAhead' /\ DenialIsFinal' /\ GateAgreesWithQuorum' /\ Enough'
  BY DEF Abort, CounterNeverAhead, DenialIsFinal, GateAgreesWithQuorum, Enough, ApprovedBy
<1>9. DecisionInv'
  BY <1>2 DEF Abort, DecisionInv, Ended
<1>10. CountInv'
  BY <1>1, <1>2 DEF Abort, CountInv, ApprovedBy, Ended
<1>11. LockInv'
  BY <1>1, <1>2, <1>3 DEF Abort, LockInv, TypeOK, ApprovedBy
<1> QED
  BY <1>4, <1>5, <1>6, <1>7, <1>8, <1>9, <1>10, <1>11

\* The count: the committed rows and one's own.
LEMMA CountStep ==
  ASSUME IInv, NEW r \in Requests, Count(r)
  PROVE  IInv'
<1> USE DEF IInv
<1>1. \A q \in Requests : Row(q)' = Row(q) /\ SeenBy(q)' = SeenBy(q)
  BY DEF Count, Row, SeenBy
<1>2. /\ pc[r] = "count" /\ pc'[r] = "flush"
      /\ \A q \in Requests \ {r} : pc'[q] = pc[q] /\ counted'[q] = counted[q]
      /\ counted'[r] = Cardinality(ApprovedBy(SeenBy(r)))
  BY DEF Count, TypeOK, Goto, SeenBy
<1>3. lock # r
  BY <1>2, ApprovalAssumption DEF TypeOK
<1>4. SeenBy(r) \in SUBSET Rows
  BY RowIsRow
<1>5. Cardinality(ApprovedBy(SeenBy(r))) \in 0..Cardinality(Subjects)
  BY <1>4, ApproversFinite
<1>6. TypeOK'
  BY <1>2, <1>3, <1>5 DEF Count, TypeOK, Goto, SeenBy
<1>7. RowsInv'
  BY <1>1, <1>2 DEF Count, RowsInv, TypeOK, Rows, Active
<1>8. AuthorityInv' /\ UniqueInv' /\ DecisionInv'
  BY <1>2 DEF Count, AuthorityInv, UniqueInv, DecisionInv, Approved, Active
<1>9. CounterNeverAhead' /\ DenialIsFinal' /\ GateAgreesWithQuorum' /\ Enough'
  BY DEF Count, CounterNeverAhead, DenialIsFinal, GateAgreesWithQuorum, Enough, ApprovedBy
<1>10. CountInv'
  <2>1. \A q \in Requests : ApprovedBy(SeenBy(q))' = ApprovedBy(SeenBy(q))
    BY <1>1 DEF ApprovedBy
  <2> QED
    BY <2>1, <1>2, <1>5 DEF Count, CountInv
<1>11. LockInv'
  BY <1>1, <1>2, <1>3 DEF Count, LockInv, TypeOK, ApprovedBy
<1> QED
  BY <1>6, <1>7, <1>8, <1>9, <1>10, <1>11

\* The flush of approvals_received, where it differs from what was loaded.
LEMMA FlushStep ==
  ASSUME IInv, NEW r \in Requests, Flush(r)
  PROVE  IInv'
<1> USE DEF IInv
<1> DEFINE mine == Least(counted[r], MinApprovals)
<1>1. \A q \in Requests : Row(q)' = Row(q) /\ SeenBy(q)' = SeenBy(q)
  BY DEF Flush, Row, SeenBy
<1>2. /\ pc[r] = "flush" /\ pc'[r] \in {"commit", "advance"}
      /\ pc'[r] = "advance" => counted[r] >= MinApprovals
      /\ \A q \in Requests \ {r} : pc'[q] = pc[q]
  BY ApprovalAssumption, FS_CardinalityType DEF Flush, TypeOK, Goto
<1>3. lock # r /\ decision[r] = "APPROVED"
  BY <1>2, ApprovalAssumption DEF TypeOK, DecisionInv
<1>4. \/ lock' = lock /\ draft' = draft /\ draftCount' = draftCount
      \/ lock' = r /\ draft' = state /\ draftCount' = mine
  BY DEF Flush
<1>5. mine \in 0..MinApprovals /\ mine <= counted[r] /\ counted[r] \in Nat
  BY ApprovalAssumption, FS_CardinalityType DEF TypeOK, Least
<1>6. counted[r] <= Cardinality(ApprovedBy(SeenBy(r)))
  BY <1>2, <1>3 DEF CountInv
<1>7. Cardinality(ApprovedBy(SeenBy(r))) \in Nat
  BY RowIsRow, ApproversFinite
<1>8. TypeOK'
  <2>1. pc' \in [Requests -> {"new", "insert", "count", "flush", "advance", "deny",
                              "commit"} \cup Ended]
    BY DEF Flush, TypeOK, Goto
  <2>2. lock' # None => pc'[lock'] \in {"advance", "commit"}
    BY <1>2, <1>3, <1>4 DEF TypeOK
  <2> QED
    BY <2>1, <2>2, <1>4, <1>5 DEF Flush, TypeOK
<1>9. RowsInv'
  BY <1>1, <1>2 DEF Flush, RowsInv, TypeOK, Rows, Active
<1>10. AuthorityInv' /\ UniqueInv'
  BY <1>2 DEF Flush, AuthorityInv, UniqueInv, Approved, Active
<1>11. DecisionInv'
  <2>1. \A q \in Requests \ {r} : pc[q] = "commit" /\ decision[q] = "DENIED" => lock' = lock
    BY ApprovalAssumption DEF Flush, DecisionInv
  <2> QED
    BY <2>1, <1>2, <1>3 DEF Flush, DecisionInv
<1>12. CounterNeverAhead' /\ DenialIsFinal' /\ GateAgreesWithQuorum' /\ Enough'
  BY DEF Flush, CounterNeverAhead, DenialIsFinal, GateAgreesWithQuorum, Enough, ApprovedBy
<1>13. CountInv'
  BY <1>1, <1>2, <1>3 DEF Flush, CountInv, ApprovedBy
<1>14. LockInv'
  <2>1. CASE lock' = r /\ draft' = state /\ draftCount' = mine
    <3>1. ApprovedBy(SeenBy(r))' = ApprovedBy(SeenBy(r))
      BY <1>1 DEF ApprovedBy
    <3> QED
      BY <2>1, <3>1, <1>3, <1>5, <1>6, <1>7 DEF Flush, LockInv
  <2>2. CASE lock' = lock /\ draft' = draft /\ draftCount' = draftCount
    BY <2>2, <1>1, <1>2, <1>3 DEF Flush, LockInv, TypeOK, ApprovedBy
  <2> QED
    BY <1>4, <2>1, <2>2
<1> QED
  BY <1>8, <1>9, <1>10, <1>11, <1>12, <1>13, <1>14

\* The compare-and-set of a decision that ends the wait: released, or denied.
\* Either keeps, or takes over, a count no larger than the rows it sees.
LEMMA DecideStep ==
  ASSUME IInv, NEW r \in Requests, Advance(r) \/ Refuse(r)
  PROVE  IInv'
<1> USE DEF IInv
<1>1. \A q \in Requests : Row(q)' = Row(q) /\ SeenBy(q)' = SeenBy(q)
  BY DEF Advance, Refuse, Row, SeenBy
<1>2. /\ pc'[r] = "commit" /\ \A q \in Requests \ {r} : pc'[q] = pc[q]
      /\ lock \in {r, None} /\ lock' = r /\ state' = state
      /\ state = "AWAITING_APPROVAL"
      /\ UNCHANGED <<received, approvals, inserted, decision, counted, expired, gate, loaded>>
  BY DEF Advance, Refuse, TypeOK, Goto
<1>3. \/ draft' = "READY" /\ decision[r] = "APPROVED" /\ counted[r] >= MinApprovals
      \/ draft' = "DENIED" /\ decision[r] = "DENIED"
  BY DEF Advance, Refuse, DecisionInv, CountInv
<1>4. draftCount' = received \/ (lock = r /\ draftCount' = draftCount)
  BY DEF Advance, Refuse
<1>5. pc[r] \in {"advance", "deny"}
  BY DEF Advance, Refuse
<1>6. TypeOK'
  <2>1. pc' \in [Requests -> {"new", "insert", "count", "flush", "advance", "deny",
                              "commit"} \cup Ended]
    BY DEF Advance, Refuse, TypeOK, Goto
  <2> QED
    BY <2>1, <1>2, <1>3, <1>4 DEF TypeOK, InvocationState
<1>7. RowsInv'
  BY <1>1, <1>2, <1>5 DEF RowsInv, TypeOK, Rows, Active
<1>8. AuthorityInv' /\ UniqueInv'
  BY <1>2, <1>5 DEF AuthorityInv, UniqueInv, Approved, Active
<1>9. DecisionInv'
  <2>1. \A q \in Requests \ {r} : ~(pc[q] = "commit" /\ decision[q] = "DENIED")
    BY <1>2, ApprovalAssumption DEF DecisionInv
  <2> QED
    BY <2>1, <1>2 DEF DecisionInv
<1>10. CounterNeverAhead' /\ DenialIsFinal' /\ GateAgreesWithQuorum' /\ Enough'
  BY <1>2 DEF CounterNeverAhead, DenialIsFinal, GateAgreesWithQuorum, Enough, ApprovedBy
<1>11. CountInv'
  <2>1. pc[r] = "deny" => decision[r] = "DENIED"
    BY DEF DecisionInv
  <2> QED
    BY <2>1, <1>1, <1>2, <1>5 DEF CountInv, ApprovedBy
<1>12. LockInv'
  <2>1. received <= Cardinality(ApprovedBy(SeenBy(r)))
    <3>1. Cardinality(ApprovedBy(approvals)) <= Cardinality(ApprovedBy(SeenBy(r)))
      BY RowIsRow, ApproversGrow DEF SeenBy
    <3>2. /\ Cardinality(ApprovedBy(approvals)) \in Nat
          /\ Cardinality(ApprovedBy(SeenBy(r))) \in Nat
      BY RowIsRow, ApproversFinite DEF TypeOK
    <3> QED
      BY <3>1, <3>2 DEF CounterNeverAhead, TypeOK
  <2>2. draftCount' <= Cardinality(ApprovedBy(SeenBy(r)))
    BY <1>4, <2>1, ApprovalAssumption DEF LockInv
  <2>3. ApprovedBy(SeenBy(r))' = ApprovedBy(SeenBy(r))
    BY <1>1 DEF ApprovedBy
  <2> QED
    BY <1>2, <1>3, <2>2, <2>3 DEF LockInv
<1> QED
  BY <1>6, <1>7, <1>8, <1>9, <1>10, <1>11, <1>12

\* The commit publishes the request's row, and what it holds the lock for.
LEMMA CommitStep ==
  ASSUME IInv, NEW r \in Requests, Commit(r)
  PROVE  IInv'
<1> USE DEF IInv
<1> DEFINE own == {a \in inserted : a.req = r}
<1>1. \A q \in Requests : Row(q)' = Row(q)
  BY DEF Commit, Row
<1>2. /\ pc[r] = "commit" /\ pc'[r] = "done"
      /\ \A q \in Requests \ {r} : pc'[q] = pc[q]
      /\ approvals' = approvals \cup own /\ inserted' = inserted \ own
      /\ UNCHANGED <<expired, draft, draftCount, decision, loaded, counted, gate>>
  BY DEF Commit, TypeOK, Goto
<1>3. own = {Row(r)} /\ SeenBy(r) = approvals' /\ Row(r) \in Rows
  BY <1>2, RowIsRow DEF RowsInv, Active, SeenBy, Row
<1>4. /\ approvals \in SUBSET Rows /\ approvals' \in SUBSET Rows
      /\ Cardinality(ApprovedBy(approvals)) \in Nat
      /\ Cardinality(ApprovedBy(approvals')) \in Nat
      /\ Cardinality(ApprovedBy(approvals)) <= Cardinality(ApprovedBy(approvals'))
  BY <1>2, <1>3, ApproversFinite, ApproversGrow DEF TypeOK
<1>5. ApprovedBy(approvals)' = ApprovedBy(approvals')
  BY DEF ApprovedBy
<1>6. \/ lock = r /\ state' = draft /\ received' = draftCount /\ lock' = None
      \/ lock # r /\ state' = state /\ received' = received /\ lock' = lock
  BY DEF Commit
<1>7. TypeOK'
  <2>1. pc' \in [Requests -> {"new", "insert", "count", "flush", "advance", "deny",
                              "commit"} \cup Ended]
    BY DEF Commit, TypeOK, Goto, Ended
  <2>2. lock' # None => pc'[lock'] \in {"advance", "commit"}
    BY <1>2, <1>6 DEF TypeOK
  <2> QED
    BY <2>1, <2>2, <1>2, <1>4, <1>6 DEF TypeOK
<1>8. RowsInv'
  <2>1. \A a \in approvals' : pc'[a.req] = "done" /\ a = Row(a.req)
    BY <1>2, <1>3 DEF RowsInv, TypeOK, Rows, Row
  <2>2. \A a \in inserted' : pc'[a.req] \in Active /\ a = Row(a.req)
    BY <1>2 DEF RowsInv, TypeOK, Rows
  <2>3. \A q \in Requests : pc'[q] \in Active => Row(q) \in inserted'
    BY <1>2, <1>3 DEF RowsInv, Active, Row
  <2> QED
    BY <2>1, <2>2, <2>3, <1>1, <1>4, <1>2 DEF RowsInv, Rows, TypeOK
<1>9. AuthorityInv'
  BY <1>2, <1>3 DEF AuthorityInv, Row, Active
<1>10. UniqueInv'
  BY <1>2, <1>3 DEF UniqueInv, Approved
<1>11. DecisionInv'
  BY <1>2, <1>6 DEF DecisionInv, Commit
<1>12. CountInv'
  <2>1. ASSUME NEW q \in Requests \ {r}
        PROVE  Cardinality(ApprovedBy(SeenBy(q))) <= Cardinality(ApprovedBy(SeenBy(q)))'
    <3>1. SeenBy(q)' = SeenBy(q) \cup {Row(r)} /\ SeenBy(q)' \in SUBSET Rows
      BY <1>1, <1>2, <1>3, <1>4, RowIsRow DEF SeenBy
    <3>2. ApprovedBy(SeenBy(q))' = ApprovedBy(SeenBy(q)')
      BY DEF ApprovedBy
    <3> QED
      BY <3>1, <3>2, ApproversGrow
  <2>2. ASSUME NEW q \in Requests \ {r}
        PROVE  /\ Cardinality(ApprovedBy(SeenBy(q))) \in Nat
               /\ Cardinality(ApprovedBy(SeenBy(q)))' \in Nat
    <3>1. SeenBy(q)' \in SUBSET Rows
      BY <1>1, <1>2, <1>3, <1>4, RowIsRow DEF SeenBy
    <3>2. ApprovedBy(SeenBy(q))' = ApprovedBy(SeenBy(q)')
      BY DEF ApprovedBy
    <3> QED
      BY <3>1, <3>2, RowIsRow, ApproversFinite
  <2>3. \A q \in Requests : counted[q] \in Nat
    BY ApprovalAssumption, FS_CardinalityType DEF TypeOK
  <2> QED
    BY <2>1, <2>2, <2>3, <1>2 DEF CountInv
<1>13. LockInv'
  <2> SUFFICES ASSUME lock' # None PROVE LockInv'
    BY DEF LockInv
  <2>1. lock \in Requests \ {r} /\ lock' = lock /\ state' = state /\ draft' = draft
        /\ draftCount' = draftCount /\ pc'[lock] = pc[lock]
    BY <1>2, <1>6 DEF TypeOK
  <2>2. SeenBy(lock)' = SeenBy(lock) \cup {Row(r)} /\ SeenBy(lock)' \in SUBSET Rows
    BY <2>1, <1>1, <1>2, <1>3, <1>4, RowIsRow DEF SeenBy
  <2>3. ApprovedBy(SeenBy(lock))' = ApprovedBy(SeenBy(lock)')
    BY <2>1 DEF ApprovedBy, SeenBy, Row
  <2>4. /\ Cardinality(ApprovedBy(SeenBy(lock))) <= Cardinality(ApprovedBy(SeenBy(lock))')
        /\ Cardinality(ApprovedBy(SeenBy(lock))) \in Nat
        /\ Cardinality(ApprovedBy(SeenBy(lock))') \in Nat
    BY <2>1, <2>2, <2>3, RowIsRow, ApproversFinite, ApproversGrow
  <2> QED
    BY <2>1, <2>4, <1>2 DEF LockInv, TypeOK
<1>14. Enough'
  <2>1. CASE lock = r
    <3>1. r # None /\ MinApprovals \in Nat /\ counted[r] \in Nat
      BY ApprovalAssumption, FS_CardinalityType DEF TypeOK
    <3>2. CASE draft = state
      BY <2>1, <3>1, <3>2, <1>4, <1>5, <1>6 DEF Enough
    <3>3. CASE draft = "READY" /\ decision[r] = "APPROVED" /\ counted[r] >= MinApprovals
      <4>1. counted[r] <= Cardinality(ApprovedBy(approvals'))
        BY <3>3, <1>2, <1>3 DEF CountInv
      <4> QED
        BY <3>1, <3>3, <4>1, <1>4, <1>5 DEF Enough
    <3>4. CASE draft = "DENIED"
      BY <2>1, <3>4, <1>6 DEF Enough
    <3> QED
      BY <2>1, <3>1, <3>2, <3>3, <3>4 DEF LockInv
  <2>2. CASE lock # r
    BY <2>2, <1>4, <1>5, <1>6, ApprovalAssumption DEF Enough
  <2> QED
    BY <2>1, <2>2
<1>15. CounterNeverAhead'
  BY <1>3, <1>4, <1>5, <1>6, ApprovalAssumption DEF CounterNeverAhead, LockInv, TypeOK
<1>16. DenialIsFinal'
  <2>1. CASE decision[r] = "DENIED"
    <3>1. lock = r /\ state = "AWAITING_APPROVAL" /\ draft = "DENIED"
      BY <2>1, <1>2, ApprovalAssumption DEF DecisionInv, LockInv, TypeOK
    <3>2. \A a \in approvals : a.decision # "DENIED"
      BY <3>1 DEF DenialIsFinal
    <3> QED
      BY <3>1, <3>2, <1>2, <1>3, <1>6 DEF DenialIsFinal
  <2>2. CASE decision[r] = "APPROVED"
    <3>1. state = "DENIED" => state' = "DENIED"
      BY <2>2, <1>2, <1>6, ApprovalAssumption DEF LockInv
    <3> QED
      BY <3>1, <2>2, <1>2, <1>3 DEF DenialIsFinal, Row
  <2> QED
    BY <2>1, <2>2 DEF TypeOK, Decisions
<1>17. GateAgreesWithQuorum'
  BY <1>2 DEF GateAgreesWithQuorum
<1> QED
  BY <1>7, <1>8, <1>9, <1>10, <1>11, <1>12, <1>13, <1>14, <1>15, <1>16, <1>17

\* Cancelling, expiring and claiming: short transactions while nobody holds the
\* row.
LEMMA MoveStep ==
  ASSUME IInv, CancelRow \/ ExpireRow \/ ClaimRow
  PROVE  IInv'
<1> USE DEF IInv
<1>1. /\ lock = None /\ lock' = None
      /\ state \in {"AWAITING_APPROVAL", "READY"}
      /\ state' \in {"CANCELLED", "EXPIRED", "EXECUTING"} /\ draft' = state'
      /\ state' = "EXECUTING" => state = "READY"
      /\ UNCHANGED <<received, approvals, expired, draftCount, inserted, pc, decision,
                     loaded, counted, gate>>
  BY DEF CancelRow, ExpireRow, ClaimRow, MoveRow
<1>2. \A q \in Requests : Row(q)' = Row(q) /\ SeenBy(q)' = SeenBy(q)
  BY <1>1 DEF Row, SeenBy
<1>3. TypeOK'
  BY <1>1 DEF TypeOK, InvocationState
<1>4. RowsInv' /\ AuthorityInv' /\ UniqueInv'
  BY <1>1, <1>2 DEF RowsInv, AuthorityInv, UniqueInv, Approved, TypeOK, Rows
<1>5. DecisionInv' /\ LockInv'
  BY <1>1, ApprovalAssumption DEF DecisionInv, LockInv
<1>6. CountInv' /\ CounterNeverAhead' /\ GateAgreesWithQuorum' /\ Enough'
  BY <1>1, <1>2 DEF CountInv, CounterNeverAhead, GateAgreesWithQuorum, Enough, ApprovedBy
<1>7. DenialIsFinal'
  BY <1>1 DEF DenialIsFinal
<1> QED
  BY <1>3, <1>4, <1>5, <1>6, <1>7

\* An approval's own time runs out.
LEMMA ExpiryStep ==
  ASSUME IInv, NEW r \in Requests, ApprovalExpires(r)
  PROVE  IInv'
<1> USE DEF IInv
<1>1. /\ expired' = expired \cup {r}
      /\ UNCHANGED <<state, received, approvals, lock, draft, draftCount, inserted, pc,
                     decision, loaded, counted, gate>>
  BY DEF ApprovalExpires
<1>2. \A q \in Requests : Row(q)' = Row(q) /\ SeenBy(q)' = SeenBy(q)
  BY <1>1 DEF Row, SeenBy
<1>3. TypeOK' /\ RowsInv' /\ AuthorityInv' /\ UniqueInv'
  BY <1>1, <1>2 DEF TypeOK, RowsInv, AuthorityInv, UniqueInv, Approved, Rows
<1>4. DecisionInv' /\ CounterNeverAhead' /\ Enough' /\ DenialIsFinal'
  BY <1>1 DEF DecisionInv, CounterNeverAhead, Enough, DenialIsFinal, ApprovedBy
<1>5. GateAgreesWithQuorum'
  BY <1>1 DEF GateAgreesWithQuorum
<1>6. CountInv' /\ LockInv'
  BY <1>1, <1>2 DEF CountInv, LockInv, ApprovedBy, TypeOK
<1> QED
  BY <1>3, <1>4, <1>5, <1>6

\* The final gate counts what the release counted.
LEMMA GateStep ==
  ASSUME IInv, FinalGate
  PROVE  IInv'
<1> USE DEF IInv
<1>1. /\ state = "EXECUTING"
      /\ gate' = IF approval_failure THEN "DENY" ELSE "ALLOW"
      /\ UNCHANGED <<state, received, approvals, expired, lock, draft, draftCount, inserted,
                     pc, decision, loaded, counted>>
  BY DEF FinalGate
<1>2. \A q \in Requests : Row(q)' = Row(q) /\ SeenBy(q)' = SeenBy(q)
  BY <1>1 DEF Row, SeenBy
<1>3. TypeOK' /\ RowsInv' /\ AuthorityInv' /\ UniqueInv'
  BY <1>1, <1>2 DEF TypeOK, RowsInv, AuthorityInv, UniqueInv, Approved, Rows, GateDecision
<1>4. DecisionInv' /\ CounterNeverAhead' /\ Enough' /\ DenialIsFinal'
  BY <1>1 DEF DecisionInv, CounterNeverAhead, Enough, DenialIsFinal, ApprovedBy
<1>5. GateAgreesWithQuorum'
  <2> DEFINE given == {a \in approvals : a.decision = "APPROVED"}
  <2>1. ApprovedBy(given) = ApprovedBy(approvals)
    BY DEF ApprovedBy
  <2>2. /\ Cardinality(ApprovedBy(given)) >= MinApprovals
        /\ Cardinality(ApprovedBy(given)) \in Nat /\ MinApprovals \in Nat \ {0}
    BY <2>1, <1>1, ApproversFinite, ApprovalAssumption DEF Enough, TypeOK
  <2>3. given # {}
    <3> SUFFICES ASSUME given = {} PROVE FALSE
      OBVIOUS
    <3>1. ApprovedBy(given) = {}
      BY DEF ApprovedBy
    <3> QED
      BY <3>1, <2>2, FS_EmptySet
  <2>4. approval_failure => \E a \in given : a.req \in expired
    BY <2>2, <2>3 DEF approval_failure
  <2> QED
    BY <2>4, <1>1 DEF GateAgreesWithQuorum
<1>6. CountInv' /\ LockInv'
  BY <1>1, <1>2 DEF CountInv, LockInv, ApprovedBy, TypeOK
<1> QED
  BY <1>3, <1>4, <1>5, <1>6

\* Steps that change nothing.
LEMMA StutterStep ==
  ASSUME IInv, UNCHANGED vars
  PROVE  IInv'
<1> USE DEF IInv, vars
<1>1. \A q \in Requests : Row(q)' = Row(q) /\ SeenBy(q)' = SeenBy(q)
  BY DEF Row, SeenBy
<1>2. TypeOK' /\ RowsInv' /\ AuthorityInv' /\ UniqueInv'
  BY <1>1 DEF TypeOK, RowsInv, AuthorityInv, UniqueInv, Approved, Rows
<1>3. DecisionInv' /\ CounterNeverAhead' /\ Enough' /\ DenialIsFinal' /\ GateAgreesWithQuorum'
  BY DEF DecisionInv, CounterNeverAhead, Enough, DenialIsFinal, ApprovedBy,
         GateAgreesWithQuorum
<1>4. CountInv' /\ LockInv'
  BY <1>1 DEF CountInv, LockInv, ApprovedBy, TypeOK
<1> QED
  BY <1>2, <1>3, <1>4

\* Every step keeps it: one case per kind of step.
LEMMA NextInv == IInv /\ [Next]_vars => IInv'
<1> SUFFICES ASSUME IInv, [Next]_vars PROVE IInv'
  OBVIOUS
<1>1. CASE \E r \in Requests : Begin(r)
  BY <1>1, BeginStep
<1>2. CASE \E r \in Requests : Insert(r)
  BY <1>2, InsertStep
<1>3. CASE \E r \in Requests : InsertDuplicate(r) \/ StaleDecision(r) \/ Crash(r)
  <2>1. PICK r \in Requests : InsertDuplicate(r) \/ StaleDecision(r) \/ Crash(r)
    BY <1>3
  <2>2. PICK l \in {"duplicate", "stale", "crashed"} : Abort(r, l)
    BY <2>1 DEF InsertDuplicate, StaleDecision, Crash
  <2>3. pc[r] \notin Ended
    BY <2>1 DEF InsertDuplicate, StaleDecision, Crash, Ended
  <2> QED
    BY <2>2, <2>3, AbortStep DEF Ended
<1>4. CASE \E r \in Requests : Count(r)
  BY <1>4, CountStep
<1>5. CASE \E r \in Requests : Flush(r)
  BY <1>5, FlushStep
<1>6. CASE \E r \in Requests : Advance(r) \/ Refuse(r)
  BY <1>6, DecideStep
<1>7. CASE \E r \in Requests : Commit(r)
  BY <1>7, CommitStep
<1>8. CASE \E r \in Requests : ApprovalExpires(r)
  BY <1>8, ExpiryStep
<1>9. CASE CancelRow \/ ExpireRow \/ ClaimRow
  BY <1>9, MoveStep
<1>10. CASE FinalGate
  BY <1>10, GateStep
<1>11. CASE UNCHANGED vars
  BY <1>11, StutterStep
<1> QED
  BY <1>1, <1>2, <1>3, <1>4, <1>5, <1>6, <1>7, <1>8, <1>9, <1>10, <1>11 DEF Next

-----------------------------------------------------------------------------
(* Theorems *)

\* The strengthened invariant holds of every reachable state, for any number of
\* requests and principals and any threshold. (approval.py, decide)
THEOREM Invariance == Spec => []IInv
BY InitInv, NextInv, PTL DEF Spec

\* Every column and variable keeps its type; in particular the stored counter
\* stays within the threshold and only a decision at its compare-and-set or its
\* commit holds the row.
THEOREM TypeCorrect == Spec => []TypeOK
<1>1. IInv => TypeOK
  BY DEF IInv
<1> QED
  BY <1>1, Invariance, PTL

\* A row that is READY or EXECUTING has as many committed approvals by distinct,
\* authorised people as its snapshot asked for. (decide, _count_and_advance)
THEOREM QuorumTheorem == Spec => []ReadyIsApproved
<1>1. IInv => ReadyIsApproved
  <2> SUFFICES ASSUME IInv PROVE ReadyIsApproved
    OBVIOUS
  <2>1. ApprovedBy(approvals) \cap Qualified = ApprovedBy(approvals)
    BY DEF IInv, AuthorityInv, ApprovedBy
  <2> QED
    BY <2>1 DEF IInv, Enough, ReadyIsApproved, Qualified
<1> QED
  BY <1>1, Invariance, PTL

\* Two approvals of one person are never both on record: the partial unique
\* index decides between concurrent double submissions.
THEOREM DistinctApprovers == Spec => []OneApprovalPerSubject
<1>1. IInv => OneApprovalPerSubject
  BY DEF IInv, UniqueInv, OneApprovalPerSubject, Approved
<1> QED
  BY <1>1, Invariance, PTL

\* A committed denial ends the invocation, and there is one.
THEOREM DenialTheorem == Spec => []DenialIsFinal
<1>1. IInv => DenialIsFinal
  BY DEF IInv
<1> QED
  BY <1>1, Invariance, PTL

\* approvals_received never runs ahead of the approvals on record.
THEOREM CounterTheorem == Spec => []CounterNeverAhead
<1>1. IInv => CounterNeverAhead
  BY DEF IInv
<1> QED
  BY <1>1, Invariance, PTL

\* The final gate refuses an approved row only when an approval's own time has
\* run out. (approval_failure)
THEOREM GateTheorem == Spec => []GateAgreesWithQuorum
<1>1. IInv => GateAgreesWithQuorum
  BY DEF IInv
<1> QED
  BY <1>1, Invariance, PTL
=============================================================================
