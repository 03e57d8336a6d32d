---------------------- MODULE InvocationRequestProofs ----------------------
(***************************************************************************)
(* For any number of requests, bodies, tools and assets: an idempotency    *)
(* key means one request (KeyMeansOneRequest), a refusal does not burn a   *)
(* key (ConflictMeansAccepted), and what a prohibited tool answers depends *)
(* on nobody's roles or input (ProhibitionIsUniform).                      *)
(***************************************************************************)
EXTENDS InvocationRequest, TLAPS

(* A refusal is never mistaken for an invocation (_REFUSAL_ERRORS).        *)
LEMMA RefusalIsNoInvocation ==
  \A why : RefusalError(why) # "Invocation"
BY DEF RefusalError

(* What a request inserts is a row (_persist, _reject).                    *)
LEMMA NewRowIsRow ==
  ASSUME IInv, NEW r \in Requests, pc[r] = "insert"
  PROVE  /\ NewRow(r) \in Row /\ NewRow(r) # None
         /\ reason[r] = "ALLOWED" => NewRow(r).digest = Envelope(body[r])
<1>1. body[r] \in Bodies /\ reason[r] \in RefusalReasons \cup {"ALLOWED"}
  BY DEF IInv, Columns, Progress
<1>2. body[r].tool \in Tools /\ body[r].ref \in BOOLEAN
  BY <1>1, RequestAssumption
<1>3. /\ policy(body[r].tool).approval \in BOOLEAN
      /\ policy(body[r].tool).class \in {policy(t).class : t \in Tools}
  BY <1>2, RequestAssumption DEF policy
<1>4. /\ kind(body[r]) \in {"NONE", "ASSET", "EXTERNAL_REF"}
      /\ "ALLOWED" \notin RefusalReasons
      /\ {"ALLOW", "DENY"} \subseteq GateDecision
  BY DEF kind, RefusalReasons, GateDecision
<1>5. Accepted(body[r]) \in Row
  BY <1>1, <1>2, <1>3, <1>4 DEF Accepted, Row, RowStates
<1>6. ASSUME reason[r] # "ALLOWED" PROVE Rejected(body[r], reason[r]) \in Row
  BY <1>1, <1>2, <1>3, <1>4, <1>6 DEF Rejected, Row, RowStates
<1>7. NewRow(r) \in Row
  BY <1>5, <1>6 DEF NewRow
<1> QED BY <1>7, NoneAssumption DEF NewRow, Accepted

(* Requests that leave the table alone: reading, deciding and answering.   *)
LEMMA QuietStep ==
  ASSUME IInv, NEW r \in Requests,
         Receive(r) \/ ResolveTarget(r) \/ LookUpKey(r) \/ InsertFails(r) \/ Respond(r)
  PROVE  IInv'
<1> USE DEF Goto, Reply
<1>1. Domains' /\ UNCHANGED <<draft, rows>>
  BY DEF IInv, Domains, Receive, ResolveTarget, LookUpKey, InsertFails, Respond
<1>2. KeysDiffer'
  BY <1>1 DEF IInv, KeysDiffer
<1>3. CASE Receive(r)
  <2>1. PICK b \in Bodies :
          /\ body' = [body EXCEPT ![r] = b]
          /\ IF lifecycle[b.tool] = "ABSENT"
               THEN Reply(r, "ToolNotFoundError", None) /\ UNCHANGED reason
               ELSE LET why == Prerequisites(b, lifecycle[b.tool]) IN
                    /\ reason' = [reason EXCEPT ![r] = why]
                    /\ Goto(r, IF why = None THEN "resolve" ELSE "insert")
                    /\ UNCHANGED answer
    BY <1>3 DEF Receive
  <2>2. pc[r] = "new" /\ draft[r] = None /\ rows[r] = None /\ answer[r] = None
    BY <1>3 DEF Receive, IInv, Progress
  <2>3. Prerequisites(b, lifecycle[b.tool]) \in RefusalReasons \cup {None}
    BY DEF Prerequisites, RefusalReasons
  <2>4. Columns'
    BY <1>1, <2>1, <2>2 DEF IInv, Domains, Columns
  <2>5. Progress'
    BY <1>1, <2>1, <2>2, <2>3 DEF IInv, Domains, Progress, NewRow
  <2>6. ReturnsWhatWasAsked' /\ AnswersWhatWasAsked'
    BY <1>1, <1>3, <2>1, <2>2
       DEF Receive, IInv, Domains, ReturnsWhatWasAsked, AnswersWhatWasAsked, Answered
  <2> QED BY <1>1, <1>2, <2>4, <2>5, <2>6 DEF IInv
<1>4. CASE ResolveTarget(r)
  <2>1. Evaluate(body[r]) \in RefusalReasons \cup {"ALLOWED"}
    BY DEF Evaluate, check_target, RefusalReasons
  <2>2. pc[r] = "resolve" /\ draft[r] = None /\ rows[r] = None /\ answer[r] = None
    BY <1>4 DEF ResolveTarget, IInv, Progress
  <2>3. Columns' /\ Progress'
    BY <1>1, <1>4, <2>1, <2>2 DEF ResolveTarget, IInv, Domains, Columns, Progress, NewRow
  <2>4. ReturnsWhatWasAsked' /\ AnswersWhatWasAsked'
    BY <1>1, <1>4, <2>2
       DEF ResolveTarget, IInv, Domains, ReturnsWhatWasAsked, AnswersWhatWasAsked, Answered
  <2> QED BY <1>1, <1>2, <2>3, <2>4 DEF IInv
<1>5. CASE LookUpKey(r)
  <2>1. pc[r] = "key" /\ draft[r] = None /\ rows[r] = None /\ answer[r] = None
    BY <1>5 DEF LookUpKey, IInv, Progress
  <2>2. Columns' /\ Progress'
    BY <1>1, <1>5, <2>1 DEF LookUpKey, IInv, Domains, Columns, Progress, NewRow
  <2>3. ReturnsWhatWasAsked' /\ AnswersWhatWasAsked'
    BY <1>1, <1>5, <2>1
       DEF LookUpKey, Holders, SameRequest, IInv, Domains, ReturnsWhatWasAsked,
           AnswersWhatWasAsked, Answered
  <2> QED BY <1>1, <1>2, <2>2, <2>3 DEF IInv
<1>6. CASE InsertFails(r)
  <2>1. Columns' /\ Progress'
    BY <1>1, <1>6 DEF InsertFails, IInv, Domains, Columns, Progress, NewRow
  <2>2. ReturnsWhatWasAsked' /\ AnswersWhatWasAsked'
    BY <1>1, <1>6
       DEF InsertFails, IInv, Domains, ReturnsWhatWasAsked, AnswersWhatWasAsked, Answered
  <2> QED BY <1>1, <1>2, <2>1, <2>2 DEF IInv
<1>7. CASE Respond(r)
  <2>1. Columns' /\ Progress'
    BY <1>1, <1>7 DEF Respond, IInv, Domains, Columns, Progress, NewRow
  <2>2. ReturnsWhatWasAsked'
    BY <1>1, <1>7 DEF Respond, IInv, Domains, ReturnsWhatWasAsked
  <2>3. AnswersWhatWasAsked'
    BY <1>1, <1>7, RefusalIsNoInvocation
       DEF Respond, IInv, Domains, ReturnsWhatWasAsked, AnswersWhatWasAsked, Answered
  <2> QED BY <1>1, <1>2, <2>1, <2>2, <2>3 DEF IInv
<1> QED BY <1>3, <1>4, <1>5, <1>6, <1>7

(* The INSERT: nobody holds the key, committed or not.                     *)
LEMMA InsertStep ==
  ASSUME IInv, NEW r \in Requests, Insert(r)
  PROVE  IInv'
<1> USE DEF Goto
<1>1. /\ pc[r] = "insert" /\ draft[r] = None /\ rows[r] = None /\ answer[r] = None
      /\ draft' = [draft EXCEPT ![r] = NewRow(r)]
      /\ pc' = [pc EXCEPT ![r] = "commit"]
      /\ UNCHANGED <<rows, body, reason, answer>>
  BY DEF Insert, IInv, Progress
<1>2. Domains'
  BY <1>1 DEF Insert, IInv, Domains
<1>3. Columns' /\ Progress'
  BY <1>1, NewRowIsRow DEF IInv, Domains, Columns, Progress, NewRow
<1>4. \A q \in Requests \ {r} : \A y \in {rows[q], draft[q]} :
        y # None /\ NewRow(r).key # None => y.key # NewRow(r).key
  BY DEF Insert, Holders, Claimants, IInv, Columns, Row, RowStates
<1>5. KeysDiffer'
  BY <1>1, <1>4 DEF IInv, Domains, KeysDiffer
<1>6. ReturnsWhatWasAsked' /\ AnswersWhatWasAsked'
  BY <1>1, NewRowIsRow
     DEF Insert, IInv, Domains, ReturnsWhatWasAsked, AnswersWhatWasAsked, Answered
<1> QED BY <1>2, <1>3, <1>5, <1>6 DEF IInv

(* The commit and the loss of an open transaction.                         *)
LEMMA EndStep ==
  ASSUME IInv, NEW r \in Requests, Commit(r) \/ Lose(r)
  PROVE  IInv'
<1> USE DEF Goto, Reply
<1>1. CASE Commit(r)
  <2>1. /\ pc[r] = "commit" /\ pc' = [pc EXCEPT ![r] = "respond"]
        /\ draft' = [draft EXCEPT ![r] = None]
        /\ UNCHANGED <<body, reason, returned, answer>>
    BY <1>1 DEF Commit
  <2>2. CASE draft[r] = None
    <3>1. rows' = rows /\ Domains' /\ \A q \in Requests : draft'[q] = draft[q]
      BY <1>1, <2>1, <2>2 DEF Commit, IInv, Domains
    <3>2. Columns' /\ Progress' /\ KeysDiffer'
      BY <2>1, <2>2, <3>1 DEF IInv, Domains, Columns, Progress, KeysDiffer, NewRow
    <3>3. ReturnsWhatWasAsked' /\ AnswersWhatWasAsked'
      BY <2>1, <2>2, <3>1
         DEF IInv, Domains, ReturnsWhatWasAsked, AnswersWhatWasAsked, Answered
    <3> QED BY <3>1, <3>2, <3>3 DEF IInv
  <2>3. CASE draft[r] # None
    <3>1. /\ rows' = [rows EXCEPT ![r] = draft[r]] /\ rows[r] = None
          /\ Domains' /\ draft[r] = NewRow(r)
      BY <1>1, <2>1, <2>3 DEF Commit, IInv, Domains, Progress
    <3>2. reason[r] = "ALLOWED" => NewRow(r).digest = Envelope(body[r])
      BY DEF NewRow, Accepted
    <3>3. Columns' /\ Progress' /\ KeysDiffer'
      BY <2>1, <2>3, <3>1, <3>2 DEF IInv, Domains, Columns, Progress, KeysDiffer, NewRow
    <3>4. ReturnsWhatWasAsked'
      BY <2>1, <2>3, <3>1, <3>2 DEF IInv, Domains, ReturnsWhatWasAsked
    <3>5. AnswersWhatWasAsked'
      BY <2>1, <2>3, <3>1, <3>2 DEF IInv, Domains, AnswersWhatWasAsked, Answered
    <3> QED BY <3>1, <3>3, <3>4, <3>5 DEF IInv
  <2> QED BY <2>2, <2>3
<1>2. CASE Lose(r)
  <2>1. /\ pc[r] \notin {"new", "answered"} /\ pc' = [pc EXCEPT ![r] = "answered"]
        /\ draft' = [draft EXCEPT ![r] = None]
        /\ answer' = [answer EXCEPT ![r] = [class |-> "lost", row |-> None]]
        /\ UNCHANGED <<body, reason, rows, returned>>
    BY <1>2 DEF Lose
  <2>2. Domains' /\ Columns' /\ Progress' /\ KeysDiffer'
    BY <2>1 DEF IInv, Domains, Columns, Progress, KeysDiffer, NewRow
  <2>3. ReturnsWhatWasAsked' /\ AnswersWhatWasAsked'
    BY <2>1 DEF IInv, Domains, ReturnsWhatWasAsked, AnswersWhatWasAsked, Answered
  <2> QED BY <2>2, <2>3 DEF IInv
<1> QED BY <1>1, <1>2

(* A committed row moves on: approval, cancellation, claim.                *)
LEMMA RowMoves ==
  ASSUME IInv, NEW q \in Requests, NEW to \in RowStates, rows[q] # None,
         rows' = [rows EXCEPT ![q].state = to],
         UNCHANGED <<pc, body, reason, draft, returned, answer>>
  PROVE  IInv'
<1>1. DOMAIN rows' = Requests /\ \A p \in Requests \ {q} : rows'[p] = rows[p]
  BY DEF IInv, Domains
<1>2. rows'[q] = [rows[q] EXCEPT !.state = to] /\ rows[q] \in Row
  BY DEF IInv, Domains, Columns
<1>3. /\ rows'[q] \in Row /\ rows'[q].key = rows[q].key
      /\ rows'[q].digest = rows[q].digest
  BY <1>2 DEF Row
<1>4. \A p \in Requests :
        /\ rows'[p] = None <=> rows[p] = None
        /\ rows'[p] \in Row \cup {None}
        /\ rows[p] # None => /\ rows'[p].key = rows[p].key
                             /\ rows'[p].digest = rows[p].digest
  BY <1>1, <1>3, NoneAssumption DEF IInv, Columns
<1>5. Domains' /\ Columns' /\ Progress'
  BY <1>1, <1>4 DEF IInv, Domains, Columns, Progress, NewRow
<1>6. KeysDiffer'
  <2> SUFFICES ASSUME NEW p \in Requests, NEW o \in Requests,
                      NEW x \in {rows'[p], draft'[p]}, NEW y \in {rows'[o], draft'[o]},
                      x # None, y # None, x.key = y.key, x.key # None
               PROVE  p = o
    BY DEF KeysDiffer
  <2>1. PICK u \in {rows[p], draft[p]} : u # None /\ u.key = x.key
    BY <1>4
  <2>2. PICK v \in {rows[o], draft[o]} : v # None /\ v.key = y.key
    BY <1>4
  <2> QED BY <2>1, <2>2 DEF IInv, KeysDiffer
<1>7. ReturnsWhatWasAsked' /\ AnswersWhatWasAsked'
  BY <1>4 DEF IInv, ReturnsWhatWasAsked, AnswersWhatWasAsked, Answered
<1> QED BY <1>5, <1>6, <1>7 DEF IInv

(* run_inline claims the row it answers for, if that is still READY.       *)
LEMMA InlineStep ==
  ASSUME IInv, NEW r \in Requests, RunInline(r)
  PROVE  IInv'
<1> USE DEF Goto, Reply
<1> DEFINE q == returned[r].row
<1>1. /\ pc[r] = "inline" /\ q \in Requests /\ rows[q] # None
      /\ rows[q].digest = Envelope(body[r]) /\ draft[r] = None
      /\ rows[q] \in Row
  BY DEF RunInline, IInv, ReturnsWhatWasAsked, Progress, Columns
<1>2. /\ pc' = [pc EXCEPT ![r] = "answered"]
      /\ answer' = [answer EXCEPT ![r] = [class |-> "Invocation", row |-> q]]
      /\ UNCHANGED <<body, reason, draft, returned>>
  BY DEF RunInline
<1>3. DOMAIN rows' = Requests /\ \A p \in Requests \ {q} : rows'[p] = rows[p]
  BY <1>1 DEF RunInline, IInv, Domains
<1>4. rows'[q] = rows[q] \/ rows'[q] = [rows[q] EXCEPT !.state = "EXECUTING"]
  BY <1>1 DEF RunInline, IInv, Domains
<1>5. /\ rows'[q] \in Row /\ rows'[q].key = rows[q].key
      /\ rows'[q].digest = rows[q].digest
  BY <1>1, <1>4 DEF Row, RowStates
<1>6. \A p \in Requests :
        /\ rows'[p] = None <=> rows[p] = None
        /\ rows'[p] \in Row \cup {None}
        /\ rows[p] # None => /\ rows'[p].key = rows[p].key
                             /\ rows'[p].digest = rows[p].digest
  BY <1>1, <1>3, <1>5, NoneAssumption DEF IInv, Columns
<1>7. Domains' /\ Columns' /\ Progress'
  BY <1>1, <1>2, <1>3, <1>6 DEF IInv, Domains, Columns, Progress, NewRow
<1>8. KeysDiffer'
  BY <1>2, <1>6 DEF IInv, KeysDiffer
<1>9. ReturnsWhatWasAsked'
  BY <1>1, <1>2, <1>6 DEF IInv, Domains, ReturnsWhatWasAsked
<1>10. AnswersWhatWasAsked'
  BY <1>1, <1>2, <1>6 DEF IInv, Domains, AnswersWhatWasAsked, Answered
<1> QED BY <1>7, <1>8, <1>9, <1>10 DEF IInv

(* The invariant is inductive.                                             *)
LEMMA InvariantStep == IInv /\ [Next]_vars => IInv'
<1> SUFFICES ASSUME IInv, [Next]_vars PROVE IInv'
  OBVIOUS
<1>1. ASSUME NEW r \in Requests, Receive(r) \/ Step(r) \/ Lose(r) PROVE IInv'
  BY <1>1, QuietStep, InsertStep, EndStep, InlineStep DEF Step
<1>2. ASSUME NEW r \in Requests, Approve(r) \/ Cancel(r) \/ Claim(r) PROVE IInv'
  <2>1. {"READY", "CANCELLED", "EXECUTING"} \subseteq RowStates
    BY DEF RowStates
  <2> QED BY <1>2, <2>1, RowMoves DEF Approve, Cancel, Claim, MoveRow
<1>3. ASSUME UNCHANGED <<pc, body, reason, draft, rows, returned, answer>>
      PROVE  IInv'
  BY <1>3 DEF IInv, Domains, Columns, Progress, NewRow, KeysDiffer,
              ReturnsWhatWasAsked, AnswersWhatWasAsked, Answered
<1>4. ASSUME NEW t \in Administered, SwitchTool(t) PROVE IInv'
  BY <1>3, <1>4 DEF SwitchTool
<1>5. ASSUME NEW a \in Inventory, RetireAsset(a) PROVE IInv'
  BY <1>3, <1>5 DEF RetireAsset
<1>6. CASE UNCHANGED vars
  BY <1>3, <1>6 DEF vars
<1> QED BY <1>1, <1>2, <1>4, <1>5, <1>6 DEF Next

(* Every reachable state satisfies the invariant: keys differ across       *)
(* committed and uncommitted rows, and what create() returns records what  *)
(* was asked for.                                                          *)
THEOREM Invariance == Spec => []IInv
<1>1. Init => IInv
  BY DEF Init, IInv, Domains, Columns, Progress, KeysDiffer, ReturnsWhatWasAsked,
         AnswersWhatWasAsked, Answered
<1> QED BY <1>1, InvariantStep, PTL DEF Spec

(* An idempotency key means one request, however many retries race and     *)
(* whatever is lost (_existing_for_key, uq_tool_invocation_idem).          *)
THEOREM KeyTheorem == Spec => []KeyMeansOneRequest
<1>1. IInv => KeyMeansOneRequest
  BY DEF IInv, KeysDiffer, AnswersWhatWasAsked, KeyMeansOneRequest
<1> QED BY <1>1, Invariance, PTL

-----------------------------------------------------------------------------
(* What is on record is what was decided                                   *)

(* A committed row is what its request decided, but for its state; and a   *)
(* request that named a prohibited tool got no further than gate 3.        *)
OutOfReach == {"PROHIBITED_CAPABILITY", "TOOL_DISABLED", "TOOL_RETIRED"}

Recorded(r) ==
  /\ rows[r] # None => rows[r] = [NewRow(r) EXCEPT !.state = rows[r].state]
  /\ Forbidden(body[r]) /\ pc[r] # "new" =>
       /\ pc[r] # "resolve"
       /\ reason[r] \in OutOfReach \/ (pc[r] = "answered" /\ rows[r] = None)

(* A holder of the key, on record for good.                                *)
Holds(q, r) ==
  /\ rows[q] # None /\ body[r].key # None
  /\ rows[q].key = body[r].key /\ rows[q].decision = "ALLOW"

Refused(r) ==
  /\ Answered(r, "IdempotencyConflictError") =>
       \E q \in Requests : Holds(q, r) /\ ~SameRequest(r, q)
  /\ Answered(r, "IntegrityError") /\ Storable(NewRow(r)) =>
       \E q \in Requests : Holds(q, r)

DecisionInv == \A r \in Requests : Recorded(r) /\ Refused(r)

(* Once a request is past the gates, what it decided stands.               *)
LEMMA DecisionsStand ==
  ASSUME IInv, [Next]_vars, NEW r \in Requests
  PROVE  /\ pc[r] \notin {"new", "resolve"} =>
              /\ body'[r] = body[r] /\ reason'[r] = reason[r]
              /\ pc'[r] \notin {"new", "resolve"}
         /\ pc[r] # "new" => body'[r] = body[r] /\ pc'[r] # "new"
<1>a. DOMAIN pc = Requests /\ DOMAIN body = Requests /\ DOMAIN reason = Requests
  BY DEF IInv, Domains
<1>1. ASSUME NEW q \in Requests,
             Receive(q) \/ ResolveTarget(q) \/ LookUpKey(q) \/ Insert(q) \/ InsertFails(q)
      PROVE  /\ pc[r] \notin {"new", "resolve"} =>
                  /\ body'[r] = body[r] /\ reason'[r] = reason[r]
                  /\ pc'[r] \notin {"new", "resolve"}
             /\ pc[r] # "new" => body'[r] = body[r] /\ pc'[r] # "new"
  BY <1>a, <1>1 DEF Receive, ResolveTarget, LookUpKey, Insert, InsertFails, Goto, Reply
<1>2. ASSUME NEW q \in Requests, Commit(q) \/ Respond(q) \/ RunInline(q) \/ Lose(q)
      PROVE  /\ UNCHANGED <<body, reason>>
             /\ pc'[r] = pc[r] \/ pc'[r] \in {"respond", "inline", "answered"}
  BY <1>a, <1>2 DEF Commit, Respond, RunInline, Lose, Goto, Reply
<1>3. ASSUME \/ \E q \in Requests : Approve(q) \/ Cancel(q) \/ Claim(q)
             \/ \E t \in Administered : SwitchTool(t)
             \/ \E a \in Inventory : RetireAsset(a)
             \/ UNCHANGED vars
      PROVE  UNCHANGED <<pc, body, reason>>
  BY <1>3 DEF Approve, Cancel, Claim, MoveRow, SwitchTool, RetireAsset, vars
<1>4. QED
  BY <1>1, <1>2, <1>3 DEF Next, Step

(* A committed row keeps everything but its state.                         *)
LEMMA RowsLast ==
  ASSUME IInv, [Next]_vars, NEW q \in Requests
  PROVE  /\ rows[q] # None =>
              rows'[q] # None /\ rows'[q] = [rows[q] EXCEPT !.state = rows'[q].state]
         /\ rows[q] = None /\ rows'[q] # None =>
              draft[q] # None /\ rows'[q] = draft[q] /\ pc[q] = "commit"
<1>a. DOMAIN rows = Requests /\ rows[q] \in Row \cup {None} /\ DOMAIN returned = Requests
  BY DEF IInv, Domains, Columns
<1>b. ASSUME NEW to \in RowStates, rows[q] # None, rows'[q] = [rows[q] EXCEPT !.state = to]
      PROVE  rows'[q] # None /\ rows'[q] = [rows[q] EXCEPT !.state = rows'[q].state]
  <2>1. rows[q] \in Row
    BY <1>a, <1>b
  <2>2. rows'[q] \in Row
    BY <1>b, <2>1 DEF Row
  <2>3. rows'[q].state = to
    BY <1>b, <2>1 DEF Row
  <2>4. QED
    BY <1>b, <2>2, <2>3, NoneAssumption
<1>c. ASSUME rows'[q] = rows[q], rows[q] # None
      PROVE  rows'[q] # None /\ rows'[q] = [rows[q] EXCEPT !.state = rows'[q].state]
  BY <1>a, <1>c DEF Row
<1>1. ASSUME NEW r \in Requests, Commit(r), draft[r] # None
      PROVE  rows' = [rows EXCEPT ![r] = draft[r]] /\ rows[r] = None /\ pc[r] = "commit"
  BY <1>1 DEF Commit, IInv, Progress
<1>2. ASSUME NEW r \in Requests, RunInline(r)
      PROVE  \/ rows' = rows
             \/ \E p \in Requests :
                  rows[p] # None /\ rows' = [rows EXCEPT ![p].state = "EXECUTING"]
  <2>1. pc[r] = "inline"
    BY <1>2 DEF RunInline
  <2>2. returned[r].row \in Requests /\ rows[returned[r].row] # None
    BY <2>1 DEF IInv, ReturnsWhatWasAsked
  <2>3. QED
    BY <1>2, <2>2 DEF RunInline
<1>3. ASSUME NEW r \in Requests, Approve(r) \/ Cancel(r) \/ Claim(r)
      PROVE  \E to \in RowStates : rows[r] # None /\ rows' = [rows EXCEPT ![r].state = to]
  BY <1>3 DEF Approve, Cancel, Claim, MoveRow, RowStates
<1>4. ASSUME NEW p \in Requests, NEW to \in RowStates, rows[p] # None,
             rows' = [rows EXCEPT ![p].state = to]
      PROVE  /\ rows[q] # None => rows'[q] = rows[q] \/ rows'[q] = [rows[q] EXCEPT !.state = to]
             /\ rows[q] = None => rows'[q] = None
  BY <1>a, <1>4
<1>5. ASSUME \/ \E r \in Requests : \/ Receive(r) \/ ResolveTarget(r) \/ LookUpKey(r) \/ Insert(r)
                                    \/ InsertFails(r) \/ Respond(r) \/ Lose(r)
                                    \/ (Commit(r) /\ draft[r] = None)
             \/ \E t \in Administered : SwitchTool(t)
             \/ \E a \in Inventory : RetireAsset(a)
             \/ UNCHANGED vars
      PROVE  rows' = rows
  BY <1>5 DEF Receive, ResolveTarget, LookUpKey, Insert, InsertFails, Respond, Lose, Commit,
              SwitchTool, RetireAsset, vars
<1>6. "EXECUTING" \in RowStates
  BY DEF RowStates
<1>7. CASE rows' = rows
  BY <1>c, <1>7
<1>8. CASE \E p \in Requests, to \in RowStates :
             rows[p] # None /\ rows' = [rows EXCEPT ![p].state = to]
  BY <1>b, <1>c, <1>4, <1>8
<1>9. CASE \E r \in Requests : Commit(r) /\ draft[r] # None
  <2>1. PICK r \in Requests : Commit(r) /\ draft[r] # None
    BY <1>9
  <2>2. rows' = [rows EXCEPT ![r] = draft[r]] /\ rows[r] = None /\ pc[r] = "commit"
    BY <1>1, <2>1
  <2>3. CASE q = r
    BY <1>a, <2>1, <2>2, <2>3
  <2>4. CASE q # r
    BY <1>a, <1>c, <2>2, <2>4
  <2>5. QED
    BY <2>3, <2>4
<1>10. QED
  BY <1>2, <1>3, <1>5, <1>6, <1>7, <1>8, <1>9 DEF Next, Step

(* An answer is final, and only two steps answer with a conflict of keys.  *)
LEMMA AnswersStand ==
  ASSUME IInv, [Next]_vars, NEW r \in Requests
  PROVE  /\ pc[r] = "answered" => pc'[r] = "answered" /\ answer'[r] = answer[r]
         /\ answer'[r] # answer[r] =>
              \/ LookUpKey(r) \/ InsertFails(r)
              \/ ~Answered(r, "IdempotencyConflictError")' /\ ~Answered(r, "IntegrityError")'
<1>a. DOMAIN pc = Requests /\ DOMAIN answer = Requests
  BY DEF IInv, Domains
<1>b. \A why : RefusalError(why) \notin {"IdempotencyConflictError", "IntegrityError"}
  BY DEF RefusalError
<1> DEFINE Fine == ~Answered(r, "IdempotencyConflictError")' /\ ~Answered(r, "IntegrityError")'
<1>1. ASSUME NEW q \in Requests, NEW class, NEW row, Reply(q, class, row), pc[q] # "answered",
             class \notin {"IdempotencyConflictError", "IntegrityError"}
      PROVE  /\ pc[r] = "answered" => pc'[r] = "answered" /\ answer'[r] = answer[r]
             /\ answer'[r] # answer[r] => Fine
  BY <1>a, <1>1 DEF Reply, Goto, Answered
<1>2. ASSUME NEW q \in Requests, LookUpKey(q) \/ InsertFails(q)
      PROVE  /\ pc[r] = "answered" => pc'[r] = "answered" /\ answer'[r] = answer[r]
             /\ answer'[r] # answer[r] => q = r
  BY <1>a, <1>2 DEF LookUpKey, InsertFails, Reply, Goto
<1>3. ASSUME NEW q \in Requests, NEW l, Goto(q, l), UNCHANGED answer, pc[q] # "answered"
      PROVE  /\ pc[r] = "answered" => pc'[r] = "answered"
             /\ answer'[r] = answer[r]
  BY <1>a, <1>3 DEF Goto
<1>4. ASSUME NEW q \in Requests,
             \/ Receive(q) \/ ResolveTarget(q) \/ Insert(q) \/ Commit(q)
             \/ Respond(q) \/ RunInline(q) \/ Lose(q)
      PROVE  /\ pc[q] # "answered"
             /\ \/ \E l : Goto(q, l) /\ UNCHANGED answer
                \/ \E class, row : /\ Reply(q, class, row)
                                   /\ class \notin {"IdempotencyConflictError", "IntegrityError"}
  <2>1. CASE Receive(q)
    BY <2>1 DEF Receive
  <2>2. CASE ResolveTarget(q) \/ Insert(q) \/ Commit(q)
    BY <2>2 DEF ResolveTarget, Insert, Commit
  <2>3. CASE Respond(q)
    BY <1>b, <2>3 DEF Respond
  <2>4. CASE RunInline(q) \/ Lose(q)
    BY <2>4 DEF RunInline, Lose
  <2>5. QED
    BY <1>4, <2>1, <2>2, <2>3, <2>4
<1>5. ASSUME \/ \E q \in Requests : Approve(q) \/ Cancel(q) \/ Claim(q)
             \/ \E t \in Administered : SwitchTool(t)
             \/ \E a \in Inventory : RetireAsset(a)
             \/ UNCHANGED vars
      PROVE  UNCHANGED <<pc, answer>>
  BY <1>5 DEF Approve, Cancel, Claim, MoveRow, SwitchTool, RetireAsset, vars
<1> HIDE DEF Fine
<1>6. /\ pc[r] = "answered" => pc'[r] = "answered" /\ answer'[r] = answer[r]
      /\ answer'[r] # answer[r] => LookUpKey(r) \/ InsertFails(r) \/ Fine
  <2>1. CASE \E q \in Requests : LookUpKey(q) \/ InsertFails(q)
    BY <1>2, <2>1
  <2>2. CASE \E q \in Requests : \/ Receive(q) \/ ResolveTarget(q) \/ Insert(q) \/ Commit(q)
                                 \/ Respond(q) \/ RunInline(q) \/ Lose(q)
    <3>1. PICK q \in Requests : /\ pc[q] # "answered"
             /\ \/ \E l : Goto(q, l) /\ UNCHANGED answer
                \/ \E class, row : /\ Reply(q, class, row)
                                   /\ class \notin {"IdempotencyConflictError", "IntegrityError"}
      BY <1>4, <2>2
    <3>2. QED
      BY <1>1, <1>3, <3>1
  <2>3. QED
    BY <1>5, <2>1, <2>2 DEF Next, Step
<1>7. QED
  BY <1>6 DEF Fine

(* What is on record stays what was decided, for all that administrators,  *)
(* other requests and lost connections do.                                 *)
LEMMA RecordedStep ==
  ASSUME IInv, DecisionInv, [Next]_vars, NEW r \in Requests
  PROVE  Recorded(r)'
<1>a. Recorded(r)
  BY DEF DecisionInv
<1>b. DOMAIN pc = Requests /\ DOMAIN body = Requests /\ DOMAIN reason = Requests
  BY DEF IInv, Domains
<1>1. rows'[r] # None => rows'[r] = [NewRow(r)' EXCEPT !.state = rows'[r].state]
  <2>1. ASSUME rows'[r] # None PROVE pc[r] \notin {"new", "resolve"}
    BY <2>1, RowsLast DEF IInv, Progress
  <2>2. ASSUME rows'[r] # None PROVE NewRow(r)' = NewRow(r)
    BY <2>1, <2>2, DecisionsStand DEF NewRow
  <2>3. CASE rows[r] # None
    <3>1. rows[r] = [NewRow(r) EXCEPT !.state = rows[r].state]
      BY <1>a, <2>3 DEF Recorded
    <3>2. rows'[r] # None /\ rows'[r] = [rows[r] EXCEPT !.state = rows'[r].state]
      BY <2>3, RowsLast
    <3>3. QED
      BY <2>2, <3>1, <3>2 DEF NewRow, Accepted, Rejected
  <2>4. CASE rows[r] = None /\ rows'[r] # None
    <3>1. draft[r] # None /\ rows'[r] = draft[r]
      BY <2>4, RowsLast
    <3>2. draft[r] = NewRow(r)
      BY <3>1 DEF IInv, Progress
    <3>3. QED
      BY <2>2, <2>4, <3>1, <3>2 DEF NewRow, Accepted, Rejected
  <2>5. QED
    BY <2>3, <2>4
<1>2. ASSUME Forbidden(body'[r]), pc'[r] # "new"
      PROVE  /\ pc'[r] # "resolve"
             /\ reason'[r] \in OutOfReach \/ (pc'[r] = "answered" /\ rows'[r] = None)
  <2>1. CASE pc[r] = "new"
    <3>1. Receive(r) \/ (pc'[r] = pc[r])
      <4>1. ASSUME NEW q \in Requests, q # r,
                   \/ Receive(q) \/ ResolveTarget(q) \/ LookUpKey(q) \/ Insert(q)
                   \/ InsertFails(q) \/ Commit(q) \/ Respond(q) \/ RunInline(q) \/ Lose(q)
            PROVE  pc'[r] = pc[r]
        BY <1>b, <4>1 DEF Receive, ResolveTarget, LookUpKey, Insert, InsertFails, Commit, Respond,
                   RunInline, Lose, Goto, Reply
      <4>2. ASSUME Step(r) \/ Lose(r) PROVE FALSE
        BY <2>1, <4>2 DEF Step, ResolveTarget, LookUpKey, Insert, InsertFails, Commit, Respond,
                   RunInline, Lose
      <4>3. ASSUME \/ \E q \in Requests : Approve(q) \/ Cancel(q) \/ Claim(q)
                   \/ \E t \in Administered : SwitchTool(t)
                   \/ \E a \in Inventory : RetireAsset(a)
                   \/ UNCHANGED vars
            PROVE  pc' = pc
        BY <4>3 DEF Approve, Cancel, Claim, MoveRow, SwitchTool, RetireAsset, vars
      <4>4. QED
        BY <4>1, <4>2, <4>3 DEF Next, Step
    <3>2. Receive(r) /\ rows[r] = None
      BY <1>2, <2>1, <3>1 DEF IInv, Progress
    <3>3. PICK b \in Bodies :
            /\ body' = [body EXCEPT ![r] = b]
            /\ IF lifecycle[b.tool] = "ABSENT"
                 THEN Reply(r, "ToolNotFoundError", None) /\ UNCHANGED reason
                 ELSE LET why == Prerequisites(b, lifecycle[b.tool]) IN
                      /\ reason' = [reason EXCEPT ![r] = why]
                      /\ Goto(r, IF why = None THEN "resolve" ELSE "insert")
                      /\ UNCHANGED answer
      BY <3>2 DEF Receive
    <3>4. body'[r] = b /\ rows' = rows
      BY <1>b, <3>2, <3>3 DEF Receive
    <3>5. /\ Prerequisites(b, lifecycle[b.tool]) \in OutOfReach
          /\ Prerequisites(b, lifecycle[b.tool]) # None
      BY <1>2, <3>3, <3>4, NoneAssumption
         DEF Forbidden, Prerequisites, OutOfReach, RefusalReasons
    <3>6. QED
      BY <1>b, <3>2, <3>3, <3>4, <3>5 DEF Reply, Goto
  <2>2. CASE pc[r] # "new"
    <3>1. body'[r] = body[r]
      BY <2>2, DecisionsStand
    <3>2. /\ pc[r] # "resolve"
          /\ reason[r] \in OutOfReach \/ (pc[r] = "answered" /\ rows[r] = None)
      BY <1>a, <1>2, <2>2, <3>1 DEF Recorded
    <3>3. reason'[r] = reason[r] /\ pc'[r] # "resolve"
      BY <2>2, <3>2, DecisionsStand
    <3>4. pc[r] = "answered" /\ rows[r] = None => pc'[r] = "answered" /\ rows'[r] = None
      BY AnswersStand, RowsLast
    <3>5. QED
      BY <3>2, <3>3, <3>4
  <2>3. QED
    BY <2>1, <2>2
<1>3. QED
  BY <1>1, <1>2 DEF Recorded

(* Only an accepted row keeps the key its request came with (_reject).     *)
LEMMA Decided ==
  ASSUME DecisionInv, NEW q \in Requests, rows[q] # None, rows[q].key # None
  PROVE  rows[q].decision = "ALLOW"
<1>1. rows[q] = [NewRow(q) EXCEPT !.state = rows[q].state]
  BY DEF DecisionInv, Recorded
<1>2. QED
  BY <1>1 DEF NewRow, Accepted, Rejected

(* A conflict of keys, once answered, stays justified by a row on record.  *)
LEMMA RefusedStep ==
  ASSUME IInv, DecisionInv, [Next]_vars, NEW r \in Requests
  PROVE  Refused(r)'
<1>a. DOMAIN pc = Requests /\ DOMAIN answer = Requests
  BY DEF IInv, Domains
<1>b. ASSUME NEW q \in Requests, rows[q] # None
      PROVE  /\ rows'[q] # None /\ rows'[q].key = rows[q].key
             /\ rows'[q].decision = rows[q].decision /\ rows'[q].digest = rows[q].digest
  <2>1. rows'[q] # None /\ rows'[q] = [rows[q] EXCEPT !.state = rows'[q].state]
    BY <1>b, RowsLast
  <2>2. rows[q] \in Row
    BY <1>b DEF IInv, Columns
  <2>3. QED
    BY <2>1, <2>2 DEF Row
<1>1. CASE answer'[r] = answer[r]
  <2>1. SUFFICES ASSUME answer[r] # None PROVE Refused(r)'
    BY <1>1 DEF Refused, Answered
  <2>2. pc[r] = "answered"
    BY <2>1 DEF IInv, Progress
  <2>3. body'[r] = body[r] /\ NewRow(r)' = NewRow(r)
    BY <2>2, DecisionsStand DEF NewRow
  <2>4. \A q \in Requests : /\ Holds(q, r) => Holds(q, r)'
                            /\ Holds(q, r) /\ ~SameRequest(r, q) => ~SameRequest(r, q)'
    BY <1>b, <2>3 DEF Holds, SameRequest
  <2>5. Storable(NewRow(r))' => Storable(NewRow(r))
    BY <2>3 DEF Storable
  <2>6. Answered(r, "IdempotencyConflictError")' =>
          \E q \in Requests : Holds(q, r)' /\ ~SameRequest(r, q)'
    BY <1>1, <2>4 DEF DecisionInv, Refused, Answered
  <2>7. Answered(r, "IntegrityError")' /\ Storable(NewRow(r))' =>
          \E q \in Requests : Holds(q, r)'
    BY <1>1, <2>4, <2>5 DEF DecisionInv, Refused, Answered
  <2>8. QED
    BY <2>6, <2>7 DEF Refused
<1>2. CASE answer'[r] # answer[r] /\ LookUpKey(r)
  <2>1. \E q \in Holders(body[r].key) : ~SameRequest(r, q)
    BY <1>2 DEF LookUpKey
  <2>2. PICK q \in Requests : /\ body[r].key # None /\ rows[q] # None
                              /\ rows[q].key = body[r].key /\ ~SameRequest(r, q)
    BY <2>1 DEF Holders
  <2>3. UNCHANGED <<body, rows>>
    BY <1>2 DEF LookUpKey
  <2>4. rows[q].decision = "ALLOW"
    BY <2>2, Decided
  <2>5. Holds(q, r)' /\ ~SameRequest(r, q)'
    BY <2>2, <2>3, <2>4 DEF Holds, SameRequest
  <2>6. ~Answered(r, "IntegrityError")'
    BY <1>a, <1>2 DEF LookUpKey, Reply, Answered
  <2>7. QED
    BY <2>5, <2>6 DEF Refused
<1>3. CASE answer'[r] # answer[r] /\ InsertFails(r)
  <2>1. /\ answer'[r].class = "IntegrityError" /\ UNCHANGED <<body, reason, rows>>
        /\ ~Storable(NewRow(r)) \/ Holders(NewRow(r).key) # {}
        /\ pc[r] = "insert"
    BY <1>a, <1>3 DEF InsertFails, Reply
  <2>2. NewRow(r)' = NewRow(r)
    BY <2>1 DEF NewRow
  <2>3. ASSUME Storable(NewRow(r))' PROVE \E q \in Requests : Holds(q, r)'
    <3>1. Storable(NewRow(r))
      BY <2>2, <2>3 DEF Storable
    <3>2. PICK q \in Requests : /\ NewRow(r).key # None /\ rows[q] # None
                                /\ rows[q].key = NewRow(r).key
      BY <2>1, <3>1 DEF Holders
    <3>3. NewRow(r).key = body[r].key
      BY <3>2 DEF NewRow, Accepted, Rejected
    <3>4. rows[q].decision = "ALLOW"
      BY <3>2, Decided
    <3>5. Holds(q, r)'
      BY <2>1, <3>2, <3>3, <3>4 DEF Holds
    <3>6. QED
      BY <3>5
  <2>4. QED
    BY <2>1, <2>3 DEF Refused, Answered
<1>4. CASE ~Answered(r, "IdempotencyConflictError")' /\ ~Answered(r, "IntegrityError")'
  BY <1>4 DEF Refused
<1>5. QED
  BY <1>1, <1>2, <1>3, <1>4, AnswersStand

(* What is on record and what is answered is what the gates decided.       *)
THEOREM DecisionInvariance == Spec => []DecisionInv
<1>1. Init => DecisionInv
  BY DEF Init, DecisionInv, Recorded, Refused, Answered
<1>2. ASSUME IInv, DecisionInv, [Next]_vars PROVE DecisionInv'
  <2>1. \A r \in Requests : Recorded(r)' /\ Refused(r)'
    BY <1>2, RecordedStep, RefusedStep
  <2>2. QED
    BY <2>1 DEF DecisionInv
<1>3. QED
  BY <1>1, <1>2, Invariance, PTL DEF Spec

(* A refusal, a failure or a lost attempt does not burn a key: a conflict  *)
(* is answered only when an accepted request holds the key for something   *)
(* else (_reject, _existing_for_key).                                      *)
THEOREM ConflictTheorem == Spec => []ConflictMeansAccepted
<1>1. ASSUME IInv, DecisionInv PROVE ConflictMeansAccepted
  <2>1. ASSUME NEW r \in Requests, NEW q \in Requests, Holds(q, r)
        PROVE  q \in Holders(body[r].key) /\ rows[q].decision = "ALLOW"
    <3>1. rows[q] \in Row
      BY <1>1, <2>1 DEF Holds, IInv, Columns
    <3>2. rows[q].state # "SUPERSEDED"
      BY <3>1 DEF Row, RowStates
    <3>3. QED
      BY <2>1, <3>2 DEF Holds, Holders
  <2>2. ASSUME NEW r \in Requests, Answered(r, "IdempotencyConflictError")
        PROVE  \E q \in Holders(body[r].key) : rows[q].decision = "ALLOW" /\ ~SameRequest(r, q)
    BY <1>1, <2>1, <2>2 DEF DecisionInv, Refused
  <2>3. ASSUME NEW r \in Requests, Answered(r, "IntegrityError"), Storable(NewRow(r))
        PROVE  \E q \in Holders(body[r].key) : rows[q].decision = "ALLOW"
    BY <1>1, <2>1, <2>3 DEF DecisionInv, Refused
  <2>4. \A r \in Requests : Answered(r, "IntegrityError") => ~Answered(r, "IdempotencyConflictError")
    BY DEF Answered
  <2>5. QED
    BY <2>2, <2>3, <2>4 DEF ConflictMeansAccepted
<1>2. QED
  BY <1>1, Invariance, DecisionInvariance, PTL

-----------------------------------------------------------------------------
(* What a prohibited tool answers                                          *)

(* Registrations come and go with deploys only: the names that have a row  *)
(* here are those that had one.                                            *)
Known == DOMAIN lifecycle = Tools
         /\ \A t \in Tools : lifecycle[t] = "ABSENT" <=> t \notin Registered

(* A request for a prohibited tool goes from gate 3 to the INSERT of its   *)
(* refusal, and past it only if a row can record the target.               *)
Barred(r) ==
  /\ pc[r] \in {"insert", "commit", "respond", "answered"}
  /\ pc[r] # "answered" =>
       body[r].tool \in Registered /\ reason[r] \in OutOfReach /\ answer[r] = None
  /\ pc[r] \in {"commit", "respond"} => Recordable(body[r])
  /\ answer[r] # None => answer[r].class \in ProhibitionAnswers(body[r])

ProhibitionInv ==
  Known /\ \A r \in Requests : pc[r] # "new" /\ Forbidden(body[r]) => Barred(r)

(* The row of a refusal is refused exactly for its target: a declaration   *)
(* of a change class asks for approval, and a refusal has no key.          *)
LEMMA RefusalStorable ==
  ASSUME NEW b \in Bodies, NEW why
  PROVE  Storable(Rejected(b, why)) <=> Recordable(b)
<1>1. b.tool \in Tools /\ b.ref \in BOOLEAN
  BY RequestAssumption
<1>2. policy(b.tool).class \in ChangeClasses => policy(b.tool).approval
  BY <1>1, RequestAssumption DEF policy, ChangeClasses
<1>3. QED
  BY <1>1, <1>2 DEF Storable, Rejected, Recordable, kind

(* A step of a request that named a prohibited tool.                       *)
LEMMA BarredStep ==
  ASSUME IInv, ProhibitionInv, NEW r \in Requests, Receive(r) \/ Step(r) \/ Lose(r),
         Forbidden(body'[r])
  PROVE  Barred(r)'
<1> USE DEF Goto, Reply
<1>a. DOMAIN pc = Requests /\ DOMAIN body = Requests /\ DOMAIN reason = Requests
      /\ DOMAIN answer = Requests
  BY DEF IInv, Domains
<1>1. CASE Receive(r)
  <2>1. PICK b \in Bodies :
          /\ body' = [body EXCEPT ![r] = b]
          /\ IF lifecycle[b.tool] = "ABSENT"
               THEN Reply(r, "ToolNotFoundError", None) /\ UNCHANGED reason
               ELSE LET why == Prerequisites(b, lifecycle[b.tool]) IN
                    /\ reason' = [reason EXCEPT ![r] = why]
                    /\ Goto(r, IF why = None THEN "resolve" ELSE "insert")
                    /\ UNCHANGED answer
    BY <1>1 DEF Receive
  <2>2. body'[r] = b /\ b.tool \in Tools /\ Forbidden(b)
    BY <1>a, <2>1, RequestAssumption
  <2>3. /\ Prerequisites(b, lifecycle[b.tool]) \in OutOfReach
        /\ Prerequisites(b, lifecycle[b.tool]) # None
    BY <2>2, NoneAssumption DEF Forbidden, Prerequisites, OutOfReach, RefusalReasons
  <2>4. pc[r] = "new" /\ answer[r] = None
    BY <1>1 DEF Receive, IInv, Progress
  <2>5. CASE lifecycle[b.tool] = "ABSENT"
    <3>1. b.tool \notin Registered
      BY <2>2, <2>5 DEF ProhibitionInv, Known
    <3>2. pc'[r] = "answered" /\ answer'[r] = [class |-> "ToolNotFoundError", row |-> None]
      BY <1>a, <2>1, <2>5
    <3>3. QED
      BY <2>2, <3>1, <3>2 DEF Barred, ProhibitionAnswers
  <2>6. CASE lifecycle[b.tool] # "ABSENT"
    <3>1. b.tool \in Registered
      BY <2>2, <2>6 DEF ProhibitionInv, Known
    <3>2. pc'[r] = "insert" /\ reason'[r] \in OutOfReach /\ answer'[r] = None
      BY <1>a, <2>1, <2>3, <2>4, <2>6
    <3>3. QED
      BY <2>2, <3>1, <3>2 DEF Barred
  <2>7. QED
    BY <2>5, <2>6
<1>2. CASE Step(r) \/ Lose(r)
  <2>1. /\ pc[r] \notin {"new", "answered"} /\ UNCHANGED body
    BY <1>2 DEF Step, Lose, ResolveTarget, LookUpKey, Insert, InsertFails, Commit, Respond, RunInline
  <2>2. /\ Barred(r) /\ body[r] \in Bodies /\ Forbidden(body[r])
        /\ pc[r] \in {"insert", "commit", "respond"}
    BY <2>1 DEF ProhibitionInv, Barred, IInv, Columns
  <2>3. /\ body[r].tool \in Registered /\ reason[r] \in OutOfReach /\ answer[r] = None
        /\ reason[r] # "ALLOWED" /\ NewRow(r) = Rejected(body[r], reason[r])
    BY <2>2 DEF Barred, OutOfReach, NewRow
  <2>4. Storable(NewRow(r)) <=> Recordable(body[r])
    BY <2>2, <2>3, RefusalStorable
  <2>5. CASE Insert(r)
    BY <1>a, <2>1, <2>2, <2>3, <2>4, <2>5 DEF Insert, Barred, Recordable
  <2>6. CASE InsertFails(r)
    <3>1. ~Storable(NewRow(r))
      BY <2>3, <2>6 DEF InsertFails, Rejected, Holders
    <3>2. /\ pc'[r] = "answered" /\ answer'[r] = [class |-> "IntegrityError", row |-> None]
          /\ "IntegrityError" \in ProhibitionAnswers(body[r])
      BY <1>a, <2>3, <2>4, <2>6, <3>1 DEF InsertFails, ProhibitionAnswers
    <3>3. QED
      BY <2>1, <3>2 DEF Barred, ProhibitionAnswers, Recordable
  <2>7. CASE Commit(r)
    BY <1>a, <2>1, <2>2, <2>3, <2>7 DEF Commit, Barred, Recordable
  <2>8. CASE Respond(r)
    <3>1. /\ pc'[r] = "answered" /\ Recordable(body[r])
          /\ answer'[r] = [class |-> RefusalError(reason[r]), row |-> None]
      BY <1>a, <2>2, <2>3, <2>8 DEF Respond, Barred
    <3>2. RefusalError(reason[r]) \in {"ProhibitedCapabilityError", "ToolDisabledError"}
      BY <2>3 DEF OutOfReach, RefusalError
    <3>3. answer'[r].class \in ProhibitionAnswers(body[r])
      BY <2>3, <3>1, <3>2 DEF ProhibitionAnswers
    <3>4. QED
      BY <2>1, <3>1, <3>3 DEF Barred, ProhibitionAnswers, Recordable
  <2>9. CASE Lose(r)
    BY <1>a, <2>1, <2>9 DEF Lose, Barred, ProhibitionAnswers, Recordable
  <2>10. QED
    BY <1>2, <2>2, <2>5, <2>6, <2>7, <2>8, <2>9
       DEF Step, ResolveTarget, LookUpKey, RunInline
<1>3. QED
  BY <1>1, <1>2

(* Nobody else touches what a request decided or was answered.             *)
LEMMA OthersStandBy ==
  ASSUME IInv, [Next]_vars, NEW r \in Requests
  PROVE  \/ Receive(r) \/ Step(r) \/ Lose(r)
         \/ /\ pc'[r] = pc[r] /\ body'[r] = body[r]
            /\ reason'[r] = reason[r] /\ answer'[r] = answer[r]
<1>a. DOMAIN pc = Requests /\ DOMAIN body = Requests /\ DOMAIN reason = Requests
      /\ DOMAIN answer = Requests
  BY DEF IInv, Domains
<1>1. ASSUME NEW q \in Requests, q # r,
             \/ Receive(q) \/ ResolveTarget(q) \/ LookUpKey(q) \/ Insert(q) \/ InsertFails(q)
             \/ Commit(q) \/ Respond(q) \/ RunInline(q) \/ Lose(q)
      PROVE  /\ pc'[r] = pc[r] /\ body'[r] = body[r]
             /\ reason'[r] = reason[r] /\ answer'[r] = answer[r]
  <2>1. CASE Receive(q) \/ ResolveTarget(q) \/ LookUpKey(q) \/ Insert(q) \/ InsertFails(q)
    BY <1>a, <1>1, <2>1 DEF Receive, ResolveTarget, LookUpKey, Insert, InsertFails, Goto, Reply
  <2>2. CASE Commit(q) \/ Respond(q) \/ RunInline(q) \/ Lose(q)
    BY <1>a, <1>1, <2>2 DEF Commit, Respond, RunInline, Lose, Goto, Reply
  <2>3. QED
    BY <1>1, <2>1, <2>2
<1>2. ASSUME \/ \E q \in Requests : Approve(q) \/ Cancel(q) \/ Claim(q)
             \/ \E t \in Administered : SwitchTool(t)
             \/ \E a \in Inventory : RetireAsset(a)
             \/ UNCHANGED vars
      PROVE  UNCHANGED <<pc, body, reason, answer>>
  BY <1>2 DEF Approve, Cancel, Claim, MoveRow, SwitchTool, RetireAsset, vars
<1>3. QED
  BY <1>1, <1>2 DEF Next, Step

(* An administrator switches a registration, and never makes or drops one. *)
LEMMA KnownStep ==
  ASSUME Known, [Next]_vars
  PROVE  Known'
<1>1. ASSUME NEW t \in Administered, SwitchTool(t) PROVE Known'
  <2>1. PICK to \in ToolLifecycle :
          /\ lifecycle[t] # "ABSENT" /\ to # "ABSENT"
          /\ lifecycle' = [lifecycle EXCEPT ![t] = to]
    BY <1>1 DEF SwitchTool, ToolLifecycle
  <2>2. QED
    BY <2>1 DEF Known
<1>2. CASE UNCHANGED lifecycle
  BY <1>2 DEF Known
<1>3. ASSUME \/ \E r \in Requests : \/ Receive(r) \/ Step(r) \/ Lose(r)
                                    \/ Approve(r) \/ Cancel(r) \/ Claim(r)
             \/ \E a \in Inventory : RetireAsset(a)
             \/ UNCHANGED vars
      PROVE  UNCHANGED lifecycle
  BY <1>3 DEF Receive, Step, ResolveTarget, LookUpKey, Insert, InsertFails, Commit, Respond,
              RunInline, Lose, Approve, Cancel, Claim, MoveRow, RetireAsset, vars
<1>4. QED
  BY <1>1, <1>2, <1>3 DEF Next

(* A request for a prohibited tool never gets past gate 3, and what stops  *)
(* it is one of few things.                                                *)
LEMMA ProhibitionInvariance == Spec => []ProhibitionInv
<1>1. Init => ProhibitionInv
  <2>1. ASSUME Init PROVE Known
    BY <2>1 DEF Init, Known
  <2>2. ASSUME Init, NEW r \in Requests PROVE pc[r] = "new"
    BY <2>2 DEF Init
  <2>3. QED
    BY <2>1, <2>2 DEF ProhibitionInv
<1>2. ASSUME IInv, ProhibitionInv, [Next]_vars PROVE ProhibitionInv'
  <2>1. Known'
    BY <1>2, KnownStep DEF ProhibitionInv
  <2>2. ASSUME NEW r \in Requests, pc'[r] # "new", Forbidden(body'[r]) PROVE Barred(r)'
    <3>1. CASE Receive(r) \/ Step(r) \/ Lose(r)
      BY <1>2, <2>2, <3>1, BarredStep
    <3>2. CASE /\ pc'[r] = pc[r] /\ body'[r] = body[r]
               /\ reason'[r] = reason[r] /\ answer'[r] = answer[r]
      <4>1. Barred(r)
        BY <1>2, <2>2, <3>2 DEF ProhibitionInv
      <4>2. QED
        BY <3>2, <4>1 DEF Barred, ProhibitionAnswers, Recordable
    <3>3. QED
      BY <1>2, <3>1, <3>2, OthersStandBy
  <2>3. QED
    BY <2>1, <2>2 DEF ProhibitionInv, Forbidden
<1>3. QED
  BY <1>1, <1>2, Invariance, PTL DEF Spec

(* What a prohibited tool answers depends on nobody's roles or input: it   *)
(* is the prohibition or the tool's being out of service, or the failed    *)
(* INSERT of the refusal for a target that no row can record; and what is  *)
(* recorded is the prohibition or the being out of service (gate 3 before  *)
(* gates 4 to 6, _reject).                                                 *)
THEOREM ProhibitionTheorem == Spec => []ProhibitionIsUniform
<1>1. ASSUME IInv, DecisionInv, ProhibitionInv PROVE ProhibitionIsUniform
  <2>1. SUFFICES ASSUME NEW r \in Requests, pc[r] # "new", Forbidden(body[r])
                 PROVE  /\ answer[r] # None => answer[r].class \in ProhibitionAnswers(body[r])
                        /\ rows[r] # None => rows[r].reason \in OutOfReach
    BY DEF ProhibitionIsUniform, OutOfReach
  <2>2. answer[r] # None => answer[r].class \in ProhibitionAnswers(body[r])
    BY <1>1, <2>1 DEF ProhibitionInv, Barred
  <2>3. ASSUME rows[r] # None PROVE rows[r].reason \in OutOfReach
    <3>1. reason[r] \in OutOfReach /\ rows[r] = [NewRow(r) EXCEPT !.state = rows[r].state]
      BY <1>1, <2>1, <2>3 DEF DecisionInv, Recorded
    <3>2. reason[r] # "ALLOWED"
      BY <3>1 DEF OutOfReach
    <3>3. QED
      BY <3>1, <3>2 DEF NewRow, Rejected
  <2>4. QED
    BY <2>2, <2>3
<1>2. QED
  BY <1>1, Invariance, DecisionInvariance, ProhibitionInvariance, PTL

=============================================================================
