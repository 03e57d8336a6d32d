---------------------------- MODULE ToolExecution ----------------------------
(***************************************************************************)
(* The execution half of the tool framework: how an invocation travels     *)
(* from READY to a terminal state while background worker loops, inline    *)
(* request tasks, the lease reaper, the approval sweeper, approvers and    *)
(* cancelling callers all act on the same PostgreSQL row.                  *)
(*                                                                         *)
(* Rows are indexed by 1..N in requested_at order.  `state', `lease' and   *)
(* `final_gate' are COMMITTED columns.  A transaction that has won its     *)
(* compare-and-set holds the row lock (`lock') and keeps its uncommitted   *)
(* version in `draft'; everyone else still reads `state'.  A short         *)
(* transaction with no await on anything but its own statements (claim,    *)
(* approve, cancel, create) is one atomic step that needs the lock free.   *)
(*                                                                         *)
(* READ COMMITTED compare-and-set: an UPDATE whose WHERE does not match    *)
(* the committed row returns zero rows at once; one that matches waits for *)
(* the row lock and is re-evaluated when the holder commits (EvalPlanQual).*)
(* So a winning step is guarded by "predicate /\ lock free" and a losing   *)
(* step by "~predicate" alone.                                             *)
(*                                                                         *)
(* Append-only history (tool_invocation_event, audit) is not state here.   *)
(***************************************************************************)
EXTENDS Naturals, FiniteSets, ToolVocabulary

CONSTANTS
  N,                  \* number of invocations that are ever requested
  Workers,            \* background worker loops, one per process
  Callers,            \* request tasks that run a Class 0/1 tool inline
  ApprovalRequired,   \* invocations whose snapshot says approval_required
  ValidationRequired, \* invocations whose snapshot says validation_required
  Retryable,          \* tool is adapter_idempotent and declares retry_on
  MaxAttempts,        \* retry_policy.max_attempts of those tools
  ReapEvery,          \* loop iterations between two reaps
  DispatchLimit, ReapLimit, SweepLimit,  \* LIMIT of the three queries
  MaxFaults,          \* bound: crashes, stops and failed transactions
  MaxAdmin,           \* bound: lifecycle changes and tampered rows
  None                \* no task

Invocations == 1..N
Tasks == Workers \cup Callers

ASSUME ConstantsAssumption ==
  /\ N \in Nat \ {0}
  /\ Workers \cap Callers = {}
  /\ None \notin Workers \cup Callers
  /\ ApprovalRequired \subseteq 1..N
  /\ ValidationRequired \subseteq 1..N
  /\ Retryable \subseteq 1..N
  /\ MaxAttempts \in Nat \ {0}
  /\ ReapEvery \in Nat \ {0}
  /\ DispatchLimit \in Nat /\ ReapLimit \in Nat /\ SweepLimit \in Nat
  /\ MaxFaults \in Nat /\ MaxAdmin \in Nat

VARIABLES
  state,         \* committed tool_invocation.state, "NONE" before the INSERT
  lease,         \* committed executor_lease_id, 0 for NULL
  attempt_count, \* committed attempt_count
  final_gate,    \* committed final_gate_decision, "NULL" until recorded
  lock,          \* task whose open transaction holds the row lock
  draft,         \* state in the newest row version, committed or not
  dbExpired,     \* lease_expires_at is past on PostgreSQL's clock
  appExpired,    \* lease_expires_at is past on the reaping process's clock
  lapsed,        \* approval_ttl_seconds have passed since the row's anchor
  tampered,      \* the stored envelope no longer recomputes to its digest
  lifecycle,     \* tool_registration.lifecycle_state
  pc,            \* where each task is
  batch,         \* invocation ids a task has still to execute_once
  job,           \* invocation a task is executing, 0 for none
  myLease,       \* lease id the task minted for it
  live,          \* lease_expires_at > now(), now() fixed at transaction start
  verdict,       \* the final gate's decision, in the task's memory
  tries,         \* adapter attempts made in _execute's loop
  cand,          \* rows the reaper or the sweeper read and has yet to close
  tick,          \* worker loop iteration, modulo ReapEvery
  stopping,      \* ToolWorker.stop() was called
  calls,         \* adapter.execute calls made for an invocation
  landings,      \* how many of them took effect on the target
  minted,        \* lease ids issued so far
  faults, admin, \* spent budget
  reported,      \* history: the adapter reported success
  held           \* history: out of service without a break since it was queued

rowVars    == <<state, lease, attempt_count, final_gate, lock, draft>>
clockVars  == <<dbExpired, appExpired, lapsed>>
toolVars   == <<tampered, lifecycle, held>>
taskVars   == <<pc, batch, job, myLease, live, verdict, tries, cand, tick,
                stopping>>
targetVars == <<calls, landings, reported>>
budgetVars == <<minted, faults, admin>>
vars == <<rowVars, clockVars, toolVars, taskVars, targetVars, budgetVars>>

Outcomes == {"SUCCEEDED", "FAILED", "TIMED_OUT", "VALIDATION_FAILED"}
Queued == {"AWAITING_APPROVAL", "READY"}

(* Program counters.  "call".."commit" lie inside _run_claimed's           *)
(* transaction after the gate compare-and-set was won.                     *)
Dispatching == {"call", "calling", "validating", "commit"}
PCs == {"poll", "dispatch", "claimed", "gated", "reap", "reaping", "sweep",
        "sweeping", "down", "idle"} \cup Dispatching

Candidates == [inv : Invocations, state : InvocationState, lease : Nat]

RowTypes ==
  /\ state \in [Invocations -> InvocationState \cup {"NONE"}]
  /\ lease \in [Invocations -> Nat]
  /\ attempt_count \in [Invocations -> Nat]
  /\ final_gate \in [Invocations -> GateDecision \cup {"NULL"}]
  /\ lock \in [Invocations -> Tasks \cup {None}]
  /\ draft \in [Invocations -> InvocationState \cup {"NONE"}]

TaskTypes ==
  /\ pc \in [Tasks -> PCs]
  /\ batch \in [Tasks -> SUBSET Invocations]
  /\ job \in [Tasks -> Invocations \cup {0}]
  /\ myLease \in [Tasks -> Nat]
  /\ live \in [Tasks -> BOOLEAN]
  /\ verdict \in [Tasks -> GateDecision]
  /\ tries \in [Tasks -> Nat]
  /\ tick \in [Tasks -> Nat]
  /\ stopping \in [Tasks -> BOOLEAN]
  /\ cand \in [Tasks -> SUBSET Candidates]

WorldTypes ==
  /\ dbExpired \in [Invocations -> BOOLEAN]
  /\ appExpired \in [Invocations -> BOOLEAN]
  /\ lapsed \in [Invocations -> BOOLEAN]
  /\ tampered \in [Invocations -> BOOLEAN]
  /\ lifecycle \in ToolLifecycle
  /\ held \in [Invocations -> BOOLEAN]
  /\ calls \in [Invocations -> Nat]
  /\ landings \in [Invocations -> Nat]
  /\ reported \in [Invocations -> BOOLEAN]
  /\ minted \in Nat /\ faults \in Nat /\ admin \in Nat

TypeOK == RowTypes /\ TaskTypes /\ WorldTypes

Init ==
  /\ state = [i \in Invocations |-> "NONE"]
  /\ lease = [i \in Invocations |-> 0]
  /\ attempt_count = [i \in Invocations |-> 0]
  /\ final_gate = [i \in Invocations |-> "NULL"]
  /\ lock = [i \in Invocations |-> None]
  /\ draft = [i \in Invocations |-> "NONE"]
  /\ dbExpired = [i \in Invocations |-> FALSE]
  /\ appExpired = [i \in Invocations |-> FALSE]
  /\ lapsed = [i \in Invocations |-> FALSE]
  /\ tampered = [i \in Invocations |-> FALSE]
  /\ lifecycle = "ACTIVE"
  /\ pc = [p \in Tasks |-> IF p \in Workers THEN "poll" ELSE "idle"]
  /\ batch = [p \in Tasks |-> {}]
  /\ job = [p \in Tasks |-> 0]
  /\ myLease = [p \in Tasks |-> 0]
  /\ live = [p \in Tasks |-> FALSE]
  /\ verdict = [p \in Tasks |-> "DENY"]
  /\ tries = [p \in Tasks |-> 0]
  /\ cand = [p \in Tasks |-> {}]
  /\ tick = [p \in Tasks |-> 0]
  /\ stopping = [p \in Tasks |-> FALSE]
  /\ calls = [i \in Invocations |-> 0]
  /\ landings = [i \in Invocations |-> 0]
  /\ minted = 0 /\ faults = 0 /\ admin = 0
  /\ reported = [i \in Invocations |-> FALSE]
  /\ held = [i \in Invocations |-> FALSE]

-----------------------------------------------------------------------------
(* Transactions                                                            *)

(* ORDER BY requested_at LIMIT k, on ids.                                  *)
FirstById(S, k) == {i \in S : Cardinality({j \in S : j < i}) < k}

(* ORDER BY lease_expires_at LIMIT k: leases last equally long, so they    *)
(* expire in the order they were minted.                                   *)
FirstByLease(S, k) ==
  {i \in S : Cardinality({j \in S : lease[j] < lease[i]}) < k}

(* session.commit(): publish every row version p wrote.  A row that leaves *)
(* the in-flight states drops its lease in the same statement, expiry and  *)
(* all (no transaction commits a row version that is in flight).           *)
Publish(p) ==
  /\ state' = [i \in Invocations |-> IF lock[i] = p THEN draft[i] ELSE state[i]]
  /\ lease' = [i \in Invocations |->
                 IF lock[i] = p /\ draft[i] \notin IN_FLIGHT_STATES
                   THEN 0 ELSE lease[i]]
  /\ dbExpired' = [i \in Invocations |-> dbExpired[i] /\ lock[i] # p]
  /\ appExpired' = [i \in Invocations |-> appExpired[i] /\ lock[i] # p]
  /\ lock' = [i \in Invocations |-> IF lock[i] = p THEN None ELSE lock[i]]
  /\ UNCHANGED <<attempt_count, draft, lapsed>>

(* Rollback: the uncommitted versions vanish and the locks are released.   *)
Rollback(p) ==
  /\ draft' = [i \in Invocations |-> IF lock[i] = p THEN state[i] ELSE draft[i]]
  /\ lock' = [i \in Invocations |-> IF lock[i] = p THEN None ELSE lock[i]]
  /\ UNCHANGED <<state, lease, attempt_count, final_gate>>

(* A committed single-statement move of row i to state s.                  *)
Move(i, s) ==
  /\ state' = [state EXCEPT ![i] = s]
  /\ draft' = [draft EXCEPT ![i] = s]
  /\ UNCHANGED <<attempt_count, final_gate, lock>>

(* An UPDATE inside p's open transaction: lock row i, version it as s.     *)
Write(p, i, s) ==
  /\ lock' = [lock EXCEPT ![i] = p]
  /\ draft' = [draft EXCEPT ![i] = s]
  /\ UNCHANGED <<state, lease, attempt_count, final_gate>>

Goto(p, l) == pc' = [pc EXCEPT ![p] = l]

(* The locals of execute_once go out of scope.                             *)
ClearJob(p) ==
  /\ job' = [job EXCEPT ![p] = 0]
  /\ myLease' = [myLease EXCEPT ![p] = 0]
  /\ live' = [live EXCEPT ![p] = FALSE]
  /\ verdict' = [verdict EXCEPT ![p] = "DENY"]
  /\ tries' = [tries EXCEPT ![p] = 0]

KeepJob == UNCHANGED <<job, myLease, live, verdict, tries>>

(* Mutant of Interrupt: the abandoned session is never rolled back.        *)
InterruptLeaksSession(p, l) ==
  /\ Goto(p, l)
  /\ ClearJob(p)
  /\ batch' = [batch EXCEPT ![p] = {}]
  /\ cand' = [cand EXCEPT ![p] = {}]
  /\ UNCHANGED <<rowVars, clockVars, toolVars, targetVars, tick, minted, admin>>

(* Task p is thrown out of whatever it was doing: its open transaction is  *)
(* rolled back and it goes on at l with nothing in memory.                 *)
Interrupt(p, l) ==
  /\ Rollback(p)
  /\ Goto(p, l)
  /\ ClearJob(p)
  /\ batch' = [batch EXCEPT ![p] = {}]
  /\ cand' = [cand EXCEPT ![p] = {}]
  /\ UNCHANGED <<clockVars, toolVars, targetVars, tick, minted, admin>>

-----------------------------------------------------------------------------
(* Requesters, approvers, administrators                                   *)

(* Where InvocationService.create leaves the row when it commits; a tool   *)
(* out of service is refused at gate 2.                                    *)
Admitted(i) ==
  IF lifecycle # "ACTIVE" THEN "REJECTED"
  ELSE IF i \in ApprovalRequired THEN "AWAITING_APPROVAL" ELSE "READY"

NextRequest(i) == state[i] = "NONE" /\ \A j \in 1..(i - 1) : state[j] # "NONE"

(* A change-class request: recorded, then left to approvers and workers.   *)
Create(i) ==
  /\ NextRequest(i) /\ i \in ApprovalRequired
  /\ Move(i, Admitted(i)) /\ UNCHANGED lease
  /\ UNCHANGED <<clockVars, toolVars, taskVars, targetVars, budgetVars>>

(* A Class 0/1 request: once the row is committed the request task itself  *)
(* awaits run_inline, in a race with every background worker.              *)
CreateInline(p, i) ==
  /\ NextRequest(i) /\ i \notin ApprovalRequired
  /\ pc[p] = "idle"
  /\ Move(i, Admitted(i)) /\ UNCHANGED lease
  /\ Goto(p, IF Admitted(i) = "READY" THEN "dispatch" ELSE "idle")
  /\ batch' = [batch EXCEPT ![p] = IF Admitted(i) = "READY" THEN {i} ELSE {}]
  /\ KeepJob
  /\ UNCHANGED <<clockVars, toolVars, cand, tick, stopping, targetVars,
                 budgetVars>>

(* The decisive approval: AWAITING_APPROVAL -> APPROVED -> READY in one    *)
(* transaction.  approved_at replaces requested_at as the sweeper's anchor.*)
Approve(i) ==
  /\ state[i] = "AWAITING_APPROVAL" /\ lock[i] = None
  /\ Move(i, "READY") /\ UNCHANGED lease
  /\ lapsed' = [lapsed EXCEPT ![i] = FALSE]
  /\ UNCHANGED <<dbExpired, appExpired, toolVars, taskVars, targetVars,
                 budgetVars>>

Deny(i) ==
  /\ state[i] = "AWAITING_APPROVAL" /\ lock[i] = None
  /\ Move(i, "DENIED") /\ UNCHANGED lease
  /\ UNCHANGED <<clockVars, toolVars, taskVars, targetVars, budgetVars>>

(* POST /{id}/cancel.  A lost compare-and-set is a 409 that writes nothing.*)
Cancel(i) ==
  /\ state[i] \in Queued /\ lock[i] = None
  /\ Move(i, "CANCELLED") /\ UNCHANGED lease
  /\ UNCHANGED <<clockVars, toolVars, taskVars, targetVars, budgetVars>>

(* disable_tool, enable_tool, and the retirement of a declaration that     *)
(* left the code (registry reconciliation at the next start).              *)
SetLifecycle(from, to) ==
  /\ lifecycle = from /\ admin < MaxAdmin
  /\ lifecycle' = to
  /\ held' = [i \in Invocations |->
                to # "ACTIVE" /\ (held[i] \/ state[i] \in Queued)]
  /\ admin' = admin + 1
  /\ UNCHANGED <<rowVars, clockVars, tampered, taskVars, targetVars, minted,
                 faults>>

DisableTool == SetLifecycle("ACTIVE", "DISABLED")
EnableTool == SetLifecycle("DISABLED", "ACTIVE")
RetireTool == SetLifecycle("ACTIVE", "RETIRED")

(* The stored request or the tool's contract changes under a queued row.   *)
Tamper(i) ==
  /\ state[i] \in Queued /\ ~tampered[i] /\ admin < MaxAdmin
  /\ tampered' = [tampered EXCEPT ![i] = TRUE]
  /\ admin' = admin + 1
  /\ UNCHANGED <<rowVars, clockVars, lifecycle, held, taskVars, targetVars,
                 minted, faults>>

-----------------------------------------------------------------------------
(* ToolWorker._loop                                                        *)

(* Top of the loop: read the READY ids.                                    *)
Poll(p) ==
  /\ pc[p] = "poll" /\ ~stopping[p]
  /\ batch' = [batch EXCEPT ![p] =
                 FirstById({i \in Invocations : state[i] = "READY"},
                           DispatchLimit)]
  /\ tick' = [tick EXCEPT ![p] = (tick[p] + 1) % ReapEvery]
  /\ Goto(p, "dispatch")
  /\ KeepJob
  /\ UNCHANGED <<rowVars, clockVars, toolVars, cand, stopping, targetVars,
                 budgetVars>>

(* Mutant of EndBatch: compares the wrapped counter with ReapEvery itself. *)
EndBatchOffByOne(p) ==
  /\ pc[p] = "dispatch" /\ batch[p] = {}
  /\ Goto(p, IF p \in Callers THEN "idle"
             ELSE IF tick[p] = ReapEvery THEN "reap" ELSE "poll")
  /\ KeepJob
  /\ UNCHANGED <<rowVars, clockVars, toolVars, batch, cand, tick, stopping,
                 targetVars, budgetVars>>

(* The batch is done: the worker reaps every ReapEvery iterations, the     *)
(* inline request returns.                                                 *)
EndBatch(p) ==
  /\ pc[p] = "dispatch" /\ batch[p] = {}
  /\ Goto(p, IF p \in Callers THEN "idle"
             ELSE IF tick[p] = 0 THEN "reap" ELSE "poll")
  /\ KeepJob
  /\ UNCHANGED <<rowVars, clockVars, toolVars, batch, cand, tick, stopping,
                 targetVars, budgetVars>>

(* The id execute_once is called with next.                                *)
NextInBatch(p, i) == i \in batch[p] /\ \A j \in batch[p] : i <= j

(* execute_once: the row is not READY (any more); nothing is touched.      *)
SkipNotReady(p) ==
  /\ pc[p] = "dispatch"
  /\ \E i \in Invocations :
       /\ NextInBatch(p, i) /\ state[i] # "READY"
       /\ batch' = [batch EXCEPT ![p] = @ \ {i}]
  /\ KeepJob
  /\ UNCHANGED <<rowVars, clockVars, toolVars, pc, cand, tick, stopping,
                 targetVars, budgetVars>>

(* claim_for_execution: READY -> EXECUTING, a fresh lease, committed.      *)
Claim(p) ==
  /\ pc[p] = "dispatch"
  /\ \E i \in Invocations :
       /\ NextInBatch(p, i) /\ state[i] = "READY" /\ lock[i] = None
       /\ state' = [state EXCEPT ![i] = "EXECUTING"]
       /\ draft' = [draft EXCEPT ![i] = "EXECUTING"]
       /\ lease' = [lease EXCEPT ![i] = minted + 1]
       /\ attempt_count' = [attempt_count EXCEPT ![i] = @ + 1]
       /\ dbExpired' = [dbExpired EXCEPT ![i] = FALSE]
       /\ appExpired' = [appExpired EXCEPT ![i] = FALSE]
       /\ batch' = [batch EXCEPT ![p] = @ \ {i}]
       /\ job' = [job EXCEPT ![p] = i]
       /\ myLease' = [myLease EXCEPT ![p] = minted + 1]
  /\ minted' = minted + 1
  /\ Goto(p, "claimed")
  /\ UNCHANGED <<final_gate, lock, lapsed, toolVars, live, verdict, tries, cand,
                 tick, stopping, targetVars, faults, admin>>

(* Mutant of FinalGate: the tool's lifecycle is not looked at again.       *)
FinalGateWithoutLifecycle(i) ==
  IF tampered[i] \/ (i \in ApprovalRequired /\ lapsed[i])
  THEN "DENY" ELSE "ALLOW"

(* _final_gate: binding and lifecycle, prohibition, envelope, approval.    *)
FinalGate(i) ==
  IF \/ lifecycle # "ACTIVE"
     \/ tampered[i]
     \/ i \in ApprovalRequired /\ lapsed[i]
  THEN "DENY" ELSE "ALLOW"

(* The second transaction begins: now() is fixed, the row is read and the  *)
(* gate evaluated.  Nothing is asserted about ownership yet.               *)
EvaluateGate(p) ==
  /\ pc[p] = "claimed"
  /\ verdict' = [verdict EXCEPT ![p] = FinalGate(job[p])]
  /\ live' = [live EXCEPT ![p] = ~dbExpired[job[p]]]
  /\ Goto(p, "gated")
  /\ UNCHANGED <<rowVars, clockVars, toolVars, batch, job, myLease, tries, cand,
                 tick, stopping, targetVars, budgetVars>>

(* Mutant of Owned: the lease read when the transaction began is trusted.  *)
OwnedAsRead(p) == live[p]

(* The predicate of record_final_gate_if_owned.                            *)
Owned(p) ==
  /\ state[job[p]] = "EXECUTING"
  /\ lease[job[p]] = myLease[p]
  /\ live[p]

(* Owned and allowed: the row lock is held from here to the commit.        *)
GateAllows(p) ==
  /\ pc[p] = "gated" /\ Owned(p) /\ lock[job[p]] = None
  /\ verdict[p] = "ALLOW"
  /\ Write(p, job[p], "EXECUTING")
  /\ Goto(p, "call")
  /\ KeepJob
  /\ UNCHANGED <<clockVars, toolVars, batch, cand, tick, stopping, targetVars,
                 budgetVars>>

(* Owned and refused: EXPIRED, because nothing was attempted.              *)
GateDenies(p) ==
  /\ pc[p] = "gated" /\ Owned(p) /\ lock[job[p]] = None
  /\ verdict[p] = "DENY"
  /\ Write(p, job[p], "EXPIRED")
  /\ Goto(p, "commit")
  /\ KeepJob
  /\ UNCHANGED <<clockVars, toolVars, batch, cand, tick, stopping, targetVars,
                 budgetVars>>

(* Mutant of AbandonLostLease: the decision is written to the row anyway.  *)
AbandonRecordsVerdict(p) ==
  /\ pc[p] = "gated" /\ ~Owned(p) /\ lock[job[p]] = None
  /\ final_gate' = [final_gate EXCEPT ![job[p]] = verdict[p]]
  /\ Goto(p, "dispatch")
  /\ ClearJob(p)
  /\ UNCHANGED <<state, lease, attempt_count, lock, draft, clockVars, toolVars,
                 batch, cand, tick, stopping, targetVars, budgetVars>>

(* _abandon_lost_lease: the row is someone else's and is not written.      *)
AbandonLostLease(p) ==
  /\ pc[p] = "gated" /\ ~Owned(p)
  /\ Goto(p, "dispatch")
  /\ ClearJob(p)
  /\ UNCHANGED <<rowVars, clockVars, toolVars, batch, cand, tick, stopping,
                 targetVars, budgetVars>>

-----------------------------------------------------------------------------
(* _execute and _after_execution, inside the gate's transaction            *)

CallAdapter(p) ==
  /\ pc[p] = "call"
  /\ calls' = [calls EXCEPT ![job[p]] = @ + 1]
  /\ tries' = [tries EXCEPT ![p] = @ + 1]
  /\ Goto(p, "calling")
  /\ UNCHANGED <<rowVars, clockVars, toolVars, batch, job, myLease, live,
                 verdict, cand, tick, stopping, landings, reported, budgetVars>>

(* release_lease / transition within the transaction.                      *)
Record(p, s, l) ==
  /\ Write(p, job[p], s)
  /\ Goto(p, l)
  /\ KeepJob
  /\ UNCHANGED <<clockVars, toolVars, batch, cand, tick, stopping, calls,
                 landings, budgetVars>>

(* Mutant of AdapterTimesOut: a timeout is recorded as "nothing happened". *)
TimeoutExpires(p) ==
  /\ pc[p] = "calling"
  /\ Record(p, "EXPIRED", "commit")
  /\ UNCHANGED reported

(* asyncio.wait_for expired: never retried, the far side may still act.    *)
AdapterTimesOut(p) ==
  /\ pc[p] = "calling"
  /\ Record(p, "TIMED_OUT", "commit")
  /\ UNCHANGED reported

(* Mutant of CanRetry: one attempt too many.                               *)
CanRetryOnceMore(p) == job[p] \in Retryable /\ tries[p] <= MaxAttempts

(* A ToolError in retry_on with attempts left: back off and call again.    *)
CanRetry(p) == job[p] \in Retryable /\ tries[p] < MaxAttempts

AdapterRetries(p) ==
  /\ pc[p] = "calling" /\ CanRetry(p)
  /\ Goto(p, "call")
  /\ KeepJob
  /\ UNCHANGED <<rowVars, clockVars, toolVars, batch, cand, tick, stopping,
                 targetVars, budgetVars>>

(* Any other ToolError, an unclassified exception, a non-SUCCESS outcome or *)
(* a payload that breaks the declared output model.                        *)
AdapterFails(p) ==
  /\ pc[p] = "calling"
  /\ Record(p, "FAILED", "commit")
  /\ UNCHANGED reported

(* SUCCESS: EXECUTED, and at once SUCCEEDED when nothing independent can be *)
(* observed ...                                                            *)
AdapterSucceeds(p) ==
  /\ pc[p] = "calling" /\ job[p] \notin ValidationRequired
  /\ reported' = [reported EXCEPT ![job[p]] = TRUE]
  /\ Record(p, "SUCCEEDED", "commit")

(* ... or VALIDATING, under a new lease that no other transaction sees.    *)
BeginValidation(p) ==
  /\ pc[p] = "calling" /\ job[p] \in ValidationRequired
  /\ reported' = [reported EXCEPT ![job[p]] = TRUE]
  /\ Record(p, "VALIDATING", "validating")

(* adapter.validate observed the change on the target: CONFIRMED.          *)
ValidationConfirms(p) ==
  /\ pc[p] = "validating" /\ landings[job[p]] > 0
  /\ Record(p, "SUCCEEDED", "commit")
  /\ UNCHANGED reported

(* NOT_CONFIRMED, or no answer (INDETERMINATE).                            *)
ValidationFails(p) ==
  /\ pc[p] = "validating"
  /\ Record(p, "VALIDATION_FAILED", "commit")
  /\ UNCHANGED reported

(* The end of `async with self._database.session()` in _run_claimed: state, *)
(* lease and final_gate_decision become visible together.                  *)
CommitExecution(p) ==
  /\ pc[p] = "commit"
  /\ Publish(p)
  /\ final_gate' = [final_gate EXCEPT ![job[p]] = verdict[p]]
  /\ Goto(p, "dispatch")
  /\ ClearJob(p)
  /\ UNCHANGED <<toolVars, batch, cand, tick, stopping, targetVars,
                 budgetVars>>

-----------------------------------------------------------------------------
(* The reaper and the sweeper, run by the worker loop                      *)

(* What the candidate query returned for row i.                            *)
Seen(i) == [inv |-> i, state |-> state[i], lease |-> lease[i]]

StartReap(p) ==
  /\ pc[p] = "reap"
  /\ cand' = [cand EXCEPT ![p] =
       {Seen(i) : i \in FirstByLease(
          {j \in Invocations : state[j] \in IN_FLIGHT_STATES /\ appExpired[j]},
          ReapLimit)}]
  /\ Goto(p, "reaping")
  /\ KeepJob
  /\ UNCHANGED <<rowVars, clockVars, toolVars, batch, tick, stopping,
                 targetVars, budgetVars>>

(* The compare-and-set of _reap_one: the state and the very lease judged   *)
(* expired.                                                                *)
StillSeen(c) == state[c.inv] = c.state /\ lease[c.inv] = c.lease

NextToReap(p, c) == c \in cand[p] /\ \A d \in cand[p] : c.lease <= d.lease

(* _reap_one: EXECUTING is lost for good, VALIDATING had its answer.       *)
ReapOne(p) ==
  /\ pc[p] = "reaping"
  /\ \E c \in cand[p] :
       /\ NextToReap(p, c) /\ StillSeen(c) /\ lock[c.inv] = None
       /\ Write(p, c.inv, IF c.state = "EXECUTING"
                            THEN "EXECUTION_INDETERMINATE"
                            ELSE "VALIDATION_FAILED")
       /\ cand' = [cand EXCEPT ![p] = @ \ {c}]
  /\ KeepJob
  /\ UNCHANGED <<clockVars, toolVars, pc, batch, tick, stopping, targetVars,
                 budgetVars>>

(* _stood_down: the row moved on under the reaper's feet.                  *)
ReapStoodDown(p) ==
  /\ pc[p] = "reaping"
  /\ \E c \in cand[p] :
       /\ NextToReap(p, c) /\ ~StillSeen(c)
       /\ cand' = [cand EXCEPT ![p] = @ \ {c}]
  /\ KeepJob
  /\ UNCHANGED <<rowVars, clockVars, toolVars, pc, batch, tick, stopping,
                 targetVars, budgetVars>>

CommitReap(p) ==
  /\ pc[p] = "reaping" /\ cand[p] = {}
  /\ Publish(p) /\ UNCHANGED final_gate
  /\ Goto(p, "sweep")
  /\ KeepJob
  /\ UNCHANGED <<toolVars, batch, cand, tick, stopping, targetVars,
                 budgetVars>>

(* ApprovalSweeper.expire_stale: LIMIT applies before the TTL filter.      *)
StartSweep(p) ==
  /\ pc[p] = "sweep"
  /\ cand' = [cand EXCEPT ![p] =
       {Seen(i) : i \in {j \in FirstById(
          {k \in ApprovalRequired : state[k] \in Queued}, SweepLimit)
            : lapsed[j]}}]
  /\ Goto(p, "sweeping")
  /\ KeepJob
  /\ UNCHANGED <<rowVars, clockVars, toolVars, batch, tick, stopping,
                 targetVars, budgetVars>>

NextToSweep(p, c) == c \in cand[p] /\ \A d \in cand[p] : c.inv <= d.inv

(* Mutant of SweepOne: expires whatever is still queued.                   *)
SweepAnyQueued(p) ==
  /\ pc[p] = "sweeping"
  /\ \E c \in cand[p] :
       /\ NextToSweep(p, c) /\ state[c.inv] \in Queued /\ lock[c.inv] = None
       /\ Write(p, c.inv, "EXPIRED")
       /\ cand' = [cand EXCEPT ![p] = @ \ {c}]
  /\ KeepJob
  /\ UNCHANGED <<clockVars, toolVars, pc, batch, tick, stopping, targetVars,
                 budgetVars>>

(* transition(..., EXPIRED) asserts the state the sweeper read.            *)
SweepOne(p) ==
  /\ pc[p] = "sweeping"
  /\ \E c \in cand[p] :
       /\ NextToSweep(p, c) /\ state[c.inv] = c.state /\ lock[c.inv] = None
       /\ Write(p, c.inv, "EXPIRED")
       /\ cand' = [cand EXCEPT ![p] = @ \ {c}]
  /\ KeepJob
  /\ UNCHANGED <<clockVars, toolVars, pc, batch, tick, stopping, targetVars,
                 budgetVars>>

SweepStoodDown(p) ==
  /\ pc[p] = "sweeping"
  /\ \E c \in cand[p] :
       /\ NextToSweep(p, c) /\ state[c.inv] # c.state
       /\ cand' = [cand EXCEPT ![p] = @ \ {c}]
  /\ KeepJob
  /\ UNCHANGED <<rowVars, clockVars, toolVars, pc, batch, tick, stopping,
                 targetVars, budgetVars>>

CommitSweep(p) ==
  /\ pc[p] = "sweeping" /\ cand[p] = {}
  /\ Publish(p) /\ UNCHANGED final_gate
  /\ Goto(p, "poll")
  /\ KeepJob
  /\ UNCHANGED <<toolVars, batch, cand, tick, stopping, targetVars,
                 budgetVars>>

-----------------------------------------------------------------------------
(* Failures, shutdown, time and the target                                 *)

Busy(p) == pc[p] \notin {"poll", "idle", "down"}

(* A statement or a commit raises: the transaction is rolled back, the     *)
(* worker's iteration is abandoned, an inline request answers with an error.*)
TransactionFails(p) ==
  /\ Busy(p) /\ faults < MaxFaults
  /\ faults' = faults + 1
  /\ Interrupt(p, IF p \in Workers THEN "poll" ELSE "idle")
  /\ UNCHANGED stopping

(* The process is killed.                                                  *)
Crash(p) ==
  /\ pc[p] \notin {"idle", "down"} /\ faults < MaxFaults
  /\ faults' = faults + 1
  /\ Interrupt(p, IF p \in Workers THEN "down" ELSE "idle")
  /\ UNCHANGED stopping

(* run_inline: asyncio.wait_for cancels execute_once when the budget ends. *)
InlineWaitElapses(p) ==
  /\ p \in Callers /\ Busy(p)
  /\ Interrupt(p, "idle")
  /\ UNCHANGED <<stopping, faults>>

(* ToolWorker.stop(): the flag first; the loop sees it at its next turn,   *)
(* and wait_for cancels the task when it has not ended within five seconds.*)
Stop(p) ==
  /\ p \in Workers /\ pc[p] # "down" /\ ~stopping[p] /\ faults < MaxFaults
  /\ stopping' = [stopping EXCEPT ![p] = TRUE]
  /\ faults' = faults + 1
  /\ UNCHANGED <<rowVars, clockVars, toolVars, pc, batch, job, myLease, live,
                 verdict, tries, cand, tick, targetVars, minted, admin>>

LoopEnds(p) ==
  /\ pc[p] = "poll" /\ stopping[p]
  /\ Goto(p, "down")
  /\ KeepJob
  /\ UNCHANGED <<rowVars, clockVars, toolVars, batch, cand, tick, stopping,
                 targetVars, budgetVars>>

StopTimesOut(p) ==
  /\ stopping[p] /\ Busy(p)
  /\ Interrupt(p, "down")
  /\ UNCHANGED <<stopping, faults>>

(* ToolWorker.start() in a new process.                                    *)
Start(p) ==
  /\ pc[p] = "down"
  /\ Goto(p, "poll")
  /\ stopping' = [stopping EXCEPT ![p] = FALSE]
  /\ tick' = [tick EXCEPT ![p] = 0]
  /\ KeepJob
  /\ UNCHANGED <<rowVars, clockVars, toolVars, batch, cand, targetVars,
                 budgetVars>>

(* lease_expires_at passes on one clock or the other: they may disagree.   *)
LeaseExpiresOnServer(i) ==
  /\ lease[i] # 0 /\ ~dbExpired[i]
  /\ dbExpired' = [dbExpired EXCEPT ![i] = TRUE]
  /\ UNCHANGED <<rowVars, appExpired, lapsed, toolVars, taskVars, targetVars,
                 budgetVars>>

LeaseExpiresForReaper(i) ==
  /\ lease[i] # 0 /\ ~appExpired[i]
  /\ appExpired' = [appExpired EXCEPT ![i] = TRUE]
  /\ UNCHANGED <<rowVars, dbExpired, lapsed, toolVars, taskVars, targetVars,
                 budgetVars>>

(* approval_ttl_seconds pass since requested_at, or since approved_at.     *)
WindowLapses(i) ==
  /\ i \in ApprovalRequired /\ state[i] \in Queued \cup {"EXECUTING"}
  /\ ~lapsed[i]
  /\ lapsed' = [lapsed EXCEPT ![i] = TRUE]
  /\ UNCHANGED <<rowVars, dbExpired, appExpired, toolVars, taskVars, targetVars,
                 budgetVars>>

(* A call already made takes effect, perhaps long after ACOP gave up on it. *)
TargetActs(i) ==
  /\ landings[i] < calls[i]
  /\ landings' = [landings EXCEPT ![i] = @ + 1]
  /\ UNCHANGED <<rowVars, clockVars, toolVars, taskVars, calls, reported,
                 budgetVars>>

-----------------------------------------------------------------------------
(* What a task does when nothing goes wrong.                               *)
Step(p) ==
  \/ Poll(p) \/ EndBatch(p) \/ SkipNotReady(p) \/ Claim(p)
  \/ EvaluateGate(p) \/ GateAllows(p) \/ GateDenies(p) \/ AbandonLostLease(p)
  \/ CallAdapter(p) \/ AdapterTimesOut(p) \/ AdapterRetries(p)
  \/ AdapterFails(p) \/ AdapterSucceeds(p) \/ BeginValidation(p)
  \/ ValidationConfirms(p) \/ ValidationFails(p) \/ CommitExecution(p)
  \/ StartReap(p) \/ ReapOne(p) \/ ReapStoodDown(p) \/ CommitReap(p)
  \/ StartSweep(p) \/ SweepOne(p) \/ SweepStoodDown(p) \/ CommitSweep(p)
  \/ LoopEnds(p) \/ Start(p)

Disturb(p) ==
  \/ TransactionFails(p) \/ Crash(p) \/ InlineWaitElapses(p)
  \/ Stop(p) \/ StopTimesOut(p)

People(i) ==
  \/ Create(i) \/ (\E p \in Callers : CreateInline(p, i))
  \/ Approve(i) \/ Deny(i) \/ Cancel(i) \/ Tamper(i)

Time(i) ==
  \/ LeaseExpiresOnServer(i) \/ LeaseExpiresForReaper(i) \/ WindowLapses(i)
  \/ TargetActs(i)

Next ==
  \/ \E p \in Tasks : Step(p) \/ Disturb(p)
  \/ \E i \in Invocations : People(i) \/ Time(i)
  \/ DisableTool \/ EnableTool \/ RetireTool

Spec == Init /\ [][Next]_vars

(* Tasks keep running (an adapter call is bounded by wait_for, a stopped   *)
(* process is started again) and clocks advance.  People, faults and the   *)
(* target owe nothing.                                                     *)
Fairness ==
  /\ \A p \in Tasks : WF_vars(Step(p))
  /\ \A i \in Invocations :
       WF_vars(LeaseExpiresForReaper(i)) /\ WF_vars(WindowLapses(i))

FairSpec == Spec /\ Fairness

-----------------------------------------------------------------------------
(* Properties                                                              *)

(* A task that is about to call the adapter, is calling it or is validating *)
(* owns the row at that moment: the committed state is EXECUTING under the *)
(* task's own lease and the task holds the row lock.  This is what         *)
(* record_final_gate_if_owned is for (state.py, dispatcher._run_claimed):  *)
(* no reaper, canceller or second worker can have taken the row away.      *)
DispatchOwnsRow ==
  \A p \in Tasks : pc[p] \in Dispatching =>
    /\ job[p] \in Invocations
    /\ state[job[p]] = "EXECUTING"
    /\ lease[job[p]] = myLease[p]
    /\ lock[job[p]] = p

(* The CHECKs lease_state and lease_expiry of models/tool.py, on committed *)
(* rows: a lease exists exactly while a row is in flight, so every EXECUTING*)
(* row can be found by the reaper; and nothing but EXECUTING is ever       *)
(* committed in flight, because validation runs inside one transaction.    *)
LeaseExactlyInFlight ==
  \A i \in Invocations : (state[i] = "EXECUTING") <=> (lease[i] # 0)

(* REJECTED, DENIED, CANCELLED and EXPIRED all say "nothing was attempted" *)
(* (tool_vocabulary.py's comment on EXECUTING -> EXPIRED): no adapter call  *)
(* was made for such a row, ever, by anyone.                               *)
UntouchedOutcomes ==
  \A i \in Invocations :
    state[i] \in {"NONE", "REJECTED", "DENIED", "CANCELLED", "EXPIRED"}
                  \cup Queued
      => calls[i] = 0

(* At-most-once per claim and at most one claim per row                    *)
(* (claim_for_execution): the target of a tool that does not declare       *)
(* retries is changed at most once, whatever crashes, timeouts, reaps and  *)
(* competing workers do; a retrying tool at most max_attempts times.       *)
ActsAtMostOnce ==
  \A i \in Invocations :
    /\ attempt_count[i] <= 1
    /\ landings[i] <= IF i \in Retryable THEN MaxAttempts ELSE 1

(* The final gate stops queued work: a row that was queued when its tool   *)
(* left service (and has been out of service since), or whose envelope no  *)
(* longer recomputes, is never dispatched (_final_gate, checks 1-4).       *)
BarredNeverCalled ==
  \A i \in Invocations : held[i] \/ tampered[i] => calls[i] = 0

(* A recorded gate decision and a recorded outcome stand or fall together: *)
(* a known outcome carries ALLOW, a refusal after the claim carries DENY,  *)
(* and a row whose worker was lost carries no decision at all.             *)
GateExplainsOutcome ==
  \A i \in Invocations :
    /\ state[i] \in Outcomes => final_gate[i] = "ALLOW"
    /\ state[i] = "EXPIRED" /\ attempt_count[i] > 0 => final_gate[i] = "DENY"
    /\ state[i] \in {"EXECUTING", "EXECUTION_INDETERMINATE"}
         => final_gate[i] = "NULL"

(* A terminal row is never moved again and its target never called again:  *)
(* the reaper's and the sweeper's compare-and-sets lose to whatever        *)
(* finished first (reaper.py: "is allowed to be wrong ... must lose").     *)
TerminalIsFinal ==
  [][\A i \in Invocations : state[i] \in TERMINAL_STATES =>
       state'[i] = state[i] /\ calls'[i] = calls[i]]_vars

(* The sweeper never expires a row whose current window is open, even when *)
(* an approval lands between its read and its write and restarts the window *)
(* (expire_stale: "would revoke a decision a person actually made").       *)
SweepSparesFresh ==
  [][\A i \in Invocations :
       state[i] \in Queued /\ state'[i] = "EXPIRED" => lapsed[i]]_vars

(* The framework implements its abstract lifecycle.                        *)
Lifecycle == INSTANCE InvocationLifecycle
               WITH touched <- [i \in Invocations |-> calls[i] > 0]
ImplementsLifecycle == Lifecycle!LSpec

(* Every request that is recorded is eventually closed: approvals time out, *)
(* lost leases are reaped, batches are dispatched, whatever was crashed,   *)
(* stopped or cancelled on the way (bounded faults).                       *)
EveryRequestCloses ==
  \A i \in Invocations :
    state[i] # "NONE" ~> state[i] \in TERMINAL_STATES

(* dispatcher.run_inline: "the work continues under the same lease".  While *)
(* nothing has failed, a lease that has run out on no clock is being worked.*)
LiveLeaseIsWorked ==
  faults = 0 =>
    \A i \in Invocations :
      lease[i] # 0 /\ ~dbExpired[i] /\ ~appExpired[i] =>
        \E p \in Tasks : job[p] = i /\ myLease[p] = lease[i]

(* ToolWorker.stop: "does not cancel an in-flight execution: an adapter that*)
(* is mid-change should be allowed to finish and record its outcome".      *)
StopLetsExecutionFinish ==
  [][\A p \in Workers : stopping[p] /\ pc[p] = "calling" =>
       pc'[p] # "down"]_vars

(* reaper.py: a worker lost after "the adapter already reported success" is *)
(* VALIDATION_FAILED, and EXECUTION_INDETERMINATE means ACOP does not know. *)
IndeterminateMeansUnreported ==
  \A i \in Invocations : state[i] = "EXECUTION_INDETERMINATE" => ~reported[i]

-----------------------------------------------------------------------------
(* The inductive invariant                                                 *)

(* States some transaction commits.  EXECUTED, VALIDATING, APPROVED,       *)
(* AUTHORIZED and REQUESTED only ever exist inside one.                    *)
Committed ==
  {"NONE", "REJECTED", "DENIED", "CANCELLED", "EXPIRED", "EXECUTING",
   "EXECUTION_INDETERMINATE"} \cup Queued \cup Outcomes

Active(p) == pc[p] \in {"claimed", "gated"} \cup Dispatching

CallBound(i) == IF i \in Retryable THEN MaxAttempts ELSE 1

(* Each committed row on its own.                                          *)
RowInv(i) ==
  /\ state[i] \in Committed
  /\ lock[i] = None => draft[i] = state[i]
  /\ (state[i] = "EXECUTING") <=> (lease[i] # 0)
  /\ lease[i] <= minted
  /\ state[i] \in Queued \cup {"NONE"} => attempt_count[i] = 0
  /\ attempt_count[i] <= 1
  /\ state[i] \in {"NONE", "REJECTED", "DENIED", "CANCELLED", "EXPIRED"}
                   \cup Queued => calls[i] = 0
  /\ state[i] \in Outcomes => calls[i] > 0
  /\ landings[i] <= calls[i]
  /\ calls[i] <= CallBound(i)

(* Who may hold the row lock, and what the uncommitted version then says.  *)
LockInv(i) ==
  \A p \in Tasks : lock[i] = p =>
    \/ pc[p] \in Dispatching /\ job[p] = i
    \/ /\ pc[p] = "reaping" /\ state[i] = "EXECUTING"
       /\ draft[i] = "EXECUTION_INDETERMINATE"
    \/ /\ pc[p] = "sweeping" /\ state[i] \in Queued /\ draft[i] = "EXPIRED"

(* What a task that minted a lease may rely on: before the gate ...        *)
JobInv(p) ==
  /\ Active(p) => /\ job[p] \in Invocations
                  /\ myLease[p] # 0
                  /\ state[job[p]] \notin Queued \cup {"NONE"}
  /\ ~Active(p) => myLease[p] = 0 /\ tries[p] = 0
  /\ myLease[p] <= minted
  /\ pc[p] \in {"claimed", "gated"} =>
       /\ tries[p] = 0
       /\ lease[job[p]] = myLease[p] => calls[job[p]] = 0

(* ... and once its compare-and-set has won.                               *)
DispatchInv(p) ==
  /\ pc[p] \in Dispatching =>
       /\ state[job[p]] = "EXECUTING"
       /\ lease[job[p]] = myLease[p]
       /\ lock[job[p]] = p
       /\ calls[job[p]] = tries[p]
  /\ pc[p] = "call" => /\ draft[job[p]] = "EXECUTING"
                       /\ tries[p] < CallBound(job[p])
  /\ pc[p] = "calling" => draft[job[p]] = "EXECUTING" /\ tries[p] > 0
  /\ pc[p] = "validating" => draft[job[p]] = "VALIDATING" /\ tries[p] > 0
  /\ pc[p] = "commit" => \/ draft[job[p]] = "EXPIRED" /\ tries[p] = 0
                         \/ draft[job[p]] \in Outcomes /\ tries[p] > 0

(* Lease ids are never reused.                                             *)
LeaseInv ==
  \A p, q \in Tasks : p # q /\ myLease[p] = myLease[q] => myLease[p] = 0

(* What the reaper and the sweeper carry from their candidate queries.     *)
CandInv(p) ==
  \A c \in cand[p] :
    \/ pc[p] = "reaping" /\ c.state = "EXECUTING"
    \/ pc[p] = "sweeping" /\ c.state \in Queued

CoreInv ==
  /\ \A i \in Invocations : RowInv(i) /\ LockInv(i)
  /\ \A p \in Tasks : JobInv(p) /\ DispatchInv(p)
  /\ LeaseInv

IInv == TypeOK /\ CoreInv /\ \A p \in Tasks : CandInv(p)
=============================================================================
