------------------------- MODULE ToolExecutionProofs -------------------------
(***************************************************************************)
(* Proofs about ToolExecution for every value of its constants.            *)
(*                                                                         *)
(* The inductive invariant IInv (end of ToolExecution) says who may hold a *)
(* row lock and what the uncommitted row version then is, what a task that *)
(* minted a lease may rely on before and after the ownership check, and    *)
(* that lease ids are never shared.  The proof groups the actions by what  *)
(* they do to the rows - nothing, roll back, a committed move, a claim, a  *)
(* draft, a publication, a call - with one lemma per group; CoreStep then  *)
(* takes the actions one by one.  The refinement of InvocationLifecycle    *)
(* follows from it, and GateInv, which adds what the final gate decided    *)
(* and what the sweeper judged overdue.                                    *)
(***************************************************************************)
EXTENDS ToolExecution, TLAPS

(* Every step of every actor preserves the types.                          *)
LEMMA TypeStep == TypeOK /\ [Next]_vars => TypeOK'
<1>1. SUFFICES ASSUME TypeOK, [Next]_vars PROVE TypeOK'
  OBVIOUS
<1> USE ConstantsAssumption DEF TypeOK, Invocations, Tasks, PCs, Dispatching,
      InvocationState, ToolLifecycle, rowVars, clockVars, toolVars, taskVars,
      targetVars, budgetVars
<1>2. ASSUME NEW p \in Tasks, Poll(p) PROVE TypeOK'
  <2>1. RowTypes' /\ WorldTypes'
    BY <1>1, <1>2 DEF RowTypes, TaskTypes, WorldTypes, Poll, KeepJob
  <2>2. batch' \in [Tasks -> SUBSET Invocations]
    BY <1>1, <1>2 DEF RowTypes, TaskTypes, WorldTypes, Poll, FirstById
  <2>3. (tick[p] + 1) % ReapEvery \in Nat
    BY <1>1 DEF RowTypes, TaskTypes, WorldTypes
  <2>4. tick' \in [Tasks -> Nat]
    BY <1>1, <1>2, <2>3 DEF RowTypes, TaskTypes, WorldTypes, Poll
  <2>5. TaskTypes'
    BY <1>1, <1>2, <2>2, <2>4 DEF RowTypes, TaskTypes, WorldTypes, Poll, Goto,
       KeepJob
  <2>6. QED
    BY <2>1, <2>5 DEF TypeOK
<1>3. ASSUME NEW p \in Tasks, EndBatch(p) PROVE TypeOK'
  BY <1>1, <1>3 DEF RowTypes, TaskTypes, WorldTypes, EndBatch, Goto, KeepJob
<1>4. ASSUME NEW p \in Tasks, SkipNotReady(p) PROVE TypeOK'
  <2>1. PICK i \in Invocations : batch' = [batch EXCEPT ![p] = @ \ {i}]
    BY <1>4 DEF SkipNotReady
  <2>2. batch' \in [Tasks -> SUBSET Invocations]
    BY <1>1, <2>1 DEF RowTypes, TaskTypes, WorldTypes
  <2>3. QED
    BY <1>1, <1>4, <2>2 DEF RowTypes, TaskTypes, WorldTypes, SkipNotReady,
       KeepJob
<1>5. ASSUME NEW p \in Tasks, Claim(p) PROVE TypeOK'
  <2>1. PICK i \in Invocations :
          /\ state' = [state EXCEPT ![i] = "EXECUTING"]
          /\ draft' = [draft EXCEPT ![i] = "EXECUTING"]
          /\ lease' = [lease EXCEPT ![i] = minted + 1]
          /\ attempt_count' = [attempt_count EXCEPT ![i] = @ + 1]
          /\ dbExpired' = [dbExpired EXCEPT ![i] = FALSE]
          /\ appExpired' = [appExpired EXCEPT ![i] = FALSE]
          /\ batch' = [batch EXCEPT ![p] = @ \ {i}]
          /\ job' = [job EXCEPT ![p] = i]
          /\ myLease' = [myLease EXCEPT ![p] = minted + 1]
    BY <1>5 DEF Claim
  <2>2. minted + 1 \in Nat /\ attempt_count[i] + 1 \in Nat
    BY <1>1 DEF RowTypes, TaskTypes, WorldTypes
  <2>3. RowTypes'
    BY <1>1, <1>5, <2>1, <2>2 DEF RowTypes, TaskTypes, WorldTypes, Claim
  <2>4. batch' \in [Tasks -> SUBSET Invocations]
    BY <1>1, <2>1 DEF RowTypes, TaskTypes, WorldTypes
  <2>5. TaskTypes'
    BY <1>1, <1>5, <2>1, <2>2, <2>4 DEF RowTypes, TaskTypes, WorldTypes,
       Claim, Goto
  <2>6. WorldTypes'
    BY <1>1, <1>5, <2>1, <2>2 DEF RowTypes, TaskTypes, WorldTypes, Claim
  <2>7. QED
    BY <2>3, <2>5, <2>6 DEF TypeOK
<1>6. ASSUME NEW p \in Tasks, EvaluateGate(p) PROVE TypeOK'
  BY <1>1, <1>6 DEF RowTypes, TaskTypes, WorldTypes, EvaluateGate, Goto,
     FinalGate, GateDecision
<1>7. ASSUME NEW p \in Tasks, GateAllows(p) PROVE TypeOK'
  BY <1>1, <1>7 DEF RowTypes, TaskTypes, WorldTypes, GateAllows, Write, Goto,
     KeepJob, Owned
<1>8. ASSUME NEW p \in Tasks, GateDenies(p) PROVE TypeOK'
  BY <1>1, <1>8 DEF RowTypes, TaskTypes, WorldTypes, GateDenies, Write, Goto,
     KeepJob, Owned
<1>9. ASSUME NEW p \in Tasks, AbandonLostLease(p) PROVE TypeOK'
  BY <1>1, <1>9 DEF RowTypes, TaskTypes, WorldTypes, AbandonLostLease, Goto,
     ClearJob, GateDecision, Owned
<1>10. ASSUME NEW p \in Tasks, CallAdapter(p) PROVE TypeOK'
  <2> \A i \in Invocations : calls[i] + 1 \in Nat
    BY <1>1 DEF RowTypes, TaskTypes, WorldTypes
  <2>1. calls' \in [Invocations -> Nat]
    <3>1. CASE job[p] \in Invocations
      BY <1>1, <1>10, <3>1 DEF RowTypes, TaskTypes, WorldTypes, CallAdapter
    <3>2. CASE job[p] = 0
      BY <1>1, <1>10, <3>2 DEF RowTypes, TaskTypes, WorldTypes, CallAdapter
    <3>3. QED
      BY <1>1, <3>1, <3>2 DEF RowTypes, TaskTypes, WorldTypes
  <2>2. tries[p] + 1 \in Nat
    BY <1>1 DEF RowTypes, TaskTypes, WorldTypes
  <2>3. tries' \in [Tasks -> Nat]
    BY <1>1, <1>10, <2>2 DEF RowTypes, TaskTypes, WorldTypes, CallAdapter
  <2>4. RowTypes' /\ WorldTypes'
    BY <1>1, <1>10, <2>1 DEF RowTypes, TaskTypes, WorldTypes, CallAdapter
  <2>5. TaskTypes'
    BY <1>1, <1>10, <2>3 DEF RowTypes, TaskTypes, WorldTypes, CallAdapter, Goto
  <2>6. QED
    BY <2>4, <2>5 DEF TypeOK
<1>11. ASSUME NEW p \in Tasks, AdapterTimesOut(p) PROVE TypeOK'
  BY <1>1, <1>11 DEF RowTypes, TaskTypes, WorldTypes, AdapterTimesOut, Record,
     Write, Goto, KeepJob
<1>12. ASSUME NEW p \in Tasks, AdapterRetries(p) PROVE TypeOK'
  BY <1>1, <1>12 DEF RowTypes, TaskTypes, WorldTypes, AdapterRetries,
     CanRetry, Goto, KeepJob
<1>13. ASSUME NEW p \in Tasks, AdapterFails(p) PROVE TypeOK'
  BY <1>1, <1>13 DEF RowTypes, TaskTypes, WorldTypes, AdapterFails, Record,
     Write, Goto, KeepJob
<1>14. ASSUME NEW p \in Tasks, AdapterSucceeds(p) PROVE TypeOK'
  <2>1. RowTypes'
    BY <1>1, <1>14 DEF RowTypes, TaskTypes, WorldTypes, AdapterSucceeds,
       Record, Write, Goto, KeepJob
  <2>2. TaskTypes'
    BY <1>1, <1>14 DEF RowTypes, TaskTypes, WorldTypes, AdapterSucceeds,
       Record, Write, Goto, KeepJob
  <2>3. WorldTypes'
    BY <1>1, <1>14 DEF RowTypes, TaskTypes, WorldTypes, AdapterSucceeds,
       Record, Write, Goto, KeepJob
  <2>4. QED
    BY <2>1, <2>2, <2>3 DEF TypeOK
<1>15. ASSUME NEW p \in Tasks, BeginValidation(p) PROVE TypeOK'
  BY <1>1, <1>15 DEF RowTypes, TaskTypes, WorldTypes, BeginValidation, Record,
     Write, Goto, KeepJob
<1>16. ASSUME NEW p \in Tasks, ValidationConfirms(p) PROVE TypeOK'
  BY <1>1, <1>16 DEF RowTypes, TaskTypes, WorldTypes, ValidationConfirms,
     Record, Write, Goto, KeepJob
<1>17. ASSUME NEW p \in Tasks, ValidationFails(p) PROVE TypeOK'
  BY <1>1, <1>17 DEF RowTypes, TaskTypes, WorldTypes, ValidationFails, Record,
     Write, Goto, KeepJob
<1>18. ASSUME NEW p \in Tasks, CommitExecution(p) PROVE TypeOK'
  BY <1>1, <1>18 DEF RowTypes, TaskTypes, WorldTypes, CommitExecution,
     Publish, Goto, ClearJob, GateDecision
<1>19. ASSUME NEW p \in Tasks, StartReap(p) PROVE TypeOK'
  <2>1. PICK R \in SUBSET Invocations :
          /\ cand' = [cand EXCEPT ![p] = {Seen(i) : i \in R}]
          /\ \A i \in R : state[i] \in IN_FLIGHT_STATES
    BY <1>19 DEF StartReap, FirstByLease
  <2>2. \A i \in R : Seen(i) \in Candidates
    BY <1>1, <2>1 DEF RowTypes, TaskTypes, WorldTypes, Seen, Candidates,
       IN_FLIGHT_STATES
  <2>3. cand' \in [Tasks -> SUBSET Candidates]
    BY <1>1, <2>1, <2>2 DEF RowTypes, TaskTypes, WorldTypes
  <2>4. QED
    BY <1>1, <1>19, <2>3 DEF RowTypes, TaskTypes, WorldTypes, StartReap, Goto,
       KeepJob
<1>20. ASSUME NEW p \in Tasks, ReapOne(p) PROVE TypeOK'
  <2>1. PICK c \in cand[p] :
          /\ Write(p, c.inv, IF c.state = "EXECUTING" THEN "EXECUTION_INDETERMINATE"
                               ELSE "VALIDATION_FAILED")
          /\ cand' = [cand EXCEPT ![p] = @ \ {c}]
    BY <1>20 DEF ReapOne
  <2>2. cand' \in [Tasks -> SUBSET Candidates]
    BY <1>1, <2>1 DEF RowTypes, TaskTypes, WorldTypes
  <2>3. RowTypes'
    BY <1>1, <2>1 DEF RowTypes, TaskTypes, WorldTypes, Write
  <2>4. TaskTypes' /\ WorldTypes'
    BY <1>1, <1>20, <2>2 DEF RowTypes, TaskTypes, WorldTypes, ReapOne, KeepJob
  <2>5. QED
    BY <2>3, <2>4 DEF TypeOK
<1>21. ASSUME NEW p \in Tasks, ReapStoodDown(p) PROVE TypeOK'
  <2>1. PICK c \in cand[p] : cand' = [cand EXCEPT ![p] = @ \ {c}]
    BY <1>21 DEF ReapStoodDown
  <2>2. cand' \in [Tasks -> SUBSET Candidates]
    BY <1>1, <2>1 DEF RowTypes, TaskTypes, WorldTypes
  <2>3. QED
    BY <1>1, <1>21, <2>2 DEF RowTypes, TaskTypes, WorldTypes, ReapStoodDown,
       KeepJob
<1>22. ASSUME NEW p \in Tasks, CommitReap(p) PROVE TypeOK'
  BY <1>1, <1>22 DEF RowTypes, TaskTypes, WorldTypes, CommitReap, Publish,
     Goto, KeepJob
<1>23. ASSUME NEW p \in Tasks, StartSweep(p) PROVE TypeOK'
  <2>1. PICK R \in SUBSET Invocations :
          /\ cand' = [cand EXCEPT ![p] = {Seen(i) : i \in R}]
          /\ \A i \in R : state[i] \in Queued
    BY <1>23 DEF StartSweep, FirstById
  <2>2. \A i \in R : Seen(i) \in Candidates
    BY <1>1, <2>1 DEF RowTypes, TaskTypes, WorldTypes, Seen, Candidates, Queued
  <2>3. cand' \in [Tasks -> SUBSET Candidates]
    BY <1>1, <2>1, <2>2 DEF RowTypes, TaskTypes, WorldTypes
  <2>4. QED
    BY <1>1, <1>23, <2>3 DEF RowTypes, TaskTypes, WorldTypes, StartSweep,
       Goto, KeepJob
<1>24. ASSUME NEW p \in Tasks, SweepOne(p) PROVE TypeOK'
  <2>1. PICK c \in cand[p] :
          /\ Write(p, c.inv, "EXPIRED")
          /\ cand' = [cand EXCEPT ![p] = @ \ {c}]
    BY <1>24 DEF SweepOne
  <2>2. cand' \in [Tasks -> SUBSET Candidates]
    BY <1>1, <2>1 DEF RowTypes, TaskTypes, WorldTypes
  <2>3. RowTypes'
    BY <1>1, <2>1 DEF RowTypes, TaskTypes, WorldTypes, Write
  <2>4. TaskTypes' /\ WorldTypes'
    BY <1>1, <1>24, <2>2 DEF RowTypes, TaskTypes, WorldTypes, SweepOne, KeepJob
  <2>5. QED
    BY <2>3, <2>4 DEF TypeOK
<1>25. ASSUME NEW p \in Tasks, SweepStoodDown(p) PROVE TypeOK'
  <2>1. PICK c \in cand[p] : cand' = [cand EXCEPT ![p] = @ \ {c}]
    BY <1>25 DEF SweepStoodDown
  <2>2. cand' \in [Tasks -> SUBSET Candidates]
    BY <1>1, <2>1 DEF RowTypes, TaskTypes, WorldTypes
  <2>3. QED
    BY <1>1, <1>25, <2>2 DEF RowTypes, TaskTypes, WorldTypes, SweepStoodDown,
       KeepJob
<1>26. ASSUME NEW p \in Tasks, CommitSweep(p) PROVE TypeOK'
  BY <1>1, <1>26 DEF RowTypes, TaskTypes, WorldTypes, CommitSweep, Publish,
     Goto, KeepJob
<1>27. ASSUME NEW p \in Tasks, LoopEnds(p) PROVE TypeOK'
  BY <1>1, <1>27 DEF RowTypes, TaskTypes, WorldTypes, LoopEnds, Goto, KeepJob
<1>28. ASSUME NEW p \in Tasks, Start(p) PROVE TypeOK'
  BY <1>1, <1>28 DEF RowTypes, TaskTypes, WorldTypes, Start, Goto, KeepJob
<1>29. ASSUME NEW p \in Tasks, TransactionFails(p) PROVE TypeOK'
  <2>1. RowTypes'
    BY <1>1, <1>29 DEF RowTypes, TaskTypes, WorldTypes, TransactionFails,
       Interrupt, Rollback, Goto, ClearJob, GateDecision, Busy
  <2>2. TaskTypes'
    BY <1>1, <1>29 DEF RowTypes, TaskTypes, WorldTypes, TransactionFails,
       Interrupt, Rollback, Goto, ClearJob, GateDecision, Busy
  <2>3. WorldTypes'
    BY <1>1, <1>29 DEF RowTypes, TaskTypes, WorldTypes, TransactionFails,
       Interrupt, Rollback, Goto, ClearJob, GateDecision, Busy
  <2>4. QED
    BY <2>1, <2>2, <2>3 DEF TypeOK
<1>30. ASSUME NEW p \in Tasks, Crash(p) PROVE TypeOK'
  <2>1. RowTypes'
    BY <1>1, <1>30 DEF RowTypes, TaskTypes, WorldTypes, Crash, Interrupt,
       Rollback, Goto, ClearJob, GateDecision
  <2>2. TaskTypes'
    BY <1>1, <1>30 DEF RowTypes, TaskTypes, WorldTypes, Crash, Interrupt,
       Rollback, Goto, ClearJob, GateDecision
  <2>3. WorldTypes'
    BY <1>1, <1>30 DEF RowTypes, TaskTypes, WorldTypes, Crash, Interrupt,
       Rollback, Goto, ClearJob, GateDecision
  <2>4. QED
    BY <2>1, <2>2, <2>3 DEF TypeOK
<1>31. ASSUME NEW p \in Tasks, InlineWaitElapses(p) PROVE TypeOK'
  BY <1>1, <1>31 DEF RowTypes, TaskTypes, WorldTypes, InlineWaitElapses,
     Interrupt, Rollback, Goto, ClearJob, GateDecision, Busy
<1>32. ASSUME NEW p \in Tasks, Stop(p) PROVE TypeOK'
  <2>1. RowTypes'
    BY <1>1, <1>32 DEF RowTypes, TaskTypes, WorldTypes, Stop
  <2>2. TaskTypes'
    BY <1>1, <1>32 DEF RowTypes, TaskTypes, WorldTypes, Stop
  <2>3. WorldTypes'
    BY <1>1, <1>32 DEF RowTypes, TaskTypes, WorldTypes, Stop
  <2>4. QED
    BY <2>1, <2>2, <2>3 DEF TypeOK
<1>33. ASSUME NEW p \in Tasks, StopTimesOut(p) PROVE TypeOK'
  BY <1>1, <1>33 DEF RowTypes, TaskTypes, WorldTypes, StopTimesOut, Interrupt,
     Rollback, Goto, ClearJob, GateDecision, Busy
<1>34. ASSUME NEW i \in Invocations, Create(i) PROVE TypeOK'
  BY <1>1, <1>34 DEF RowTypes, TaskTypes, WorldTypes, Create, NextRequest,
     Move, Admitted
<1>35. ASSUME NEW i \in Invocations, NEW p \in Callers, CreateInline(p, i) PROVE TypeOK'
  <2>1. RowTypes' /\ WorldTypes'
    BY <1>1, <1>35 DEF RowTypes, TaskTypes, WorldTypes, CreateInline, Move,
       Admitted
  <2>2. batch' \in [Tasks -> SUBSET Invocations]
    BY <1>1, <1>35, {i} \in SUBSET Invocations DEF RowTypes, TaskTypes,
       WorldTypes, CreateInline
  <2>3. pc' \in [Tasks -> PCs]
    BY <1>1, <1>35 DEF RowTypes, TaskTypes, WorldTypes, CreateInline, Goto
  <2>4. TaskTypes'
    BY <1>1, <1>35, <2>2, <2>3 DEF RowTypes, TaskTypes, WorldTypes,
       CreateInline, KeepJob
  <2>5. QED
    BY <2>1, <2>4 DEF TypeOK
<1>36. ASSUME NEW i \in Invocations, Approve(i) PROVE TypeOK'
  BY <1>1, <1>36 DEF RowTypes, TaskTypes, WorldTypes, Approve, Move
<1>37. ASSUME NEW i \in Invocations, Deny(i) PROVE TypeOK'
  BY <1>1, <1>37 DEF RowTypes, TaskTypes, WorldTypes, Deny, Move
<1>38. ASSUME NEW i \in Invocations, Cancel(i) PROVE TypeOK'
  BY <1>1, <1>38 DEF RowTypes, TaskTypes, WorldTypes, Cancel, Move
<1>39. ASSUME NEW i \in Invocations, Tamper(i) PROVE TypeOK'
  <2>1. RowTypes'
    BY <1>1, <1>39 DEF RowTypes, TaskTypes, WorldTypes, Tamper
  <2>2. TaskTypes'
    BY <1>1, <1>39 DEF RowTypes, TaskTypes, WorldTypes, Tamper
  <2>3. WorldTypes'
    BY <1>1, <1>39 DEF RowTypes, TaskTypes, WorldTypes, Tamper
  <2>4. QED
    BY <2>1, <2>2, <2>3 DEF TypeOK
<1>40. ASSUME NEW i \in Invocations, LeaseExpiresOnServer(i) PROVE TypeOK'
  BY <1>1, <1>40 DEF RowTypes, TaskTypes, WorldTypes, LeaseExpiresOnServer
<1>41. ASSUME NEW i \in Invocations, LeaseExpiresForReaper(i) PROVE TypeOK'
  BY <1>1, <1>41 DEF RowTypes, TaskTypes, WorldTypes, LeaseExpiresForReaper
<1>42. ASSUME NEW i \in Invocations, WindowLapses(i) PROVE TypeOK'
  BY <1>1, <1>42 DEF RowTypes, TaskTypes, WorldTypes, WindowLapses
<1>43. ASSUME NEW i \in Invocations, TargetActs(i) PROVE TypeOK'
  <2>1. RowTypes'
    BY <1>1, <1>43 DEF RowTypes, TaskTypes, WorldTypes, TargetActs
  <2>2. TaskTypes'
    BY <1>1, <1>43 DEF RowTypes, TaskTypes, WorldTypes, TargetActs
  <2>3. WorldTypes'
    BY <1>1, <1>43 DEF RowTypes, TaskTypes, WorldTypes, TargetActs
  <2>4. QED
    BY <2>1, <2>2, <2>3 DEF TypeOK
<1>44. ASSUME NEW from \in ToolLifecycle, NEW to \in ToolLifecycle, SetLifecycle(from, to)
      PROVE TypeOK'
  <2>1. admin' \in Nat /\ lifecycle' \in ToolLifecycle
    BY <1>1, <1>44 DEF WorldTypes, SetLifecycle
  <2>2. held' \in [Invocations -> BOOLEAN]
    BY <1>44, Zenon DEF SetLifecycle
  <2>3. WorldTypes'
    BY <1>1, <1>44, <2>1, <2>2 DEF WorldTypes, SetLifecycle
  <2>4. QED
    BY <1>1, <1>44, <2>3 DEF RowTypes, TaskTypes, SetLifecycle
<1>45. ASSUME UNCHANGED vars PROVE TypeOK'
  BY <1>1, <1>45 DEF RowTypes, TaskTypes, WorldTypes, vars
<1>46. QED
  BY <1>1, <1>2, <1>3, <1>4, <1>5, <1>6, <1>7, <1>8, <1>9, <1>10, <1>11,
     <1>12, <1>13, <1>14, <1>15, <1>16, <1>17, <1>18, <1>19, <1>20, <1>21,
     <1>22, <1>23, <1>24, <1>25, <1>26, <1>27, <1>28, <1>29, <1>30, <1>31,
     <1>32, <1>33, <1>34, <1>35, <1>36, <1>37, <1>38, <1>39, <1>40, <1>41,
     <1>42, <1>43, <1>44, <1>45 DEF Next, Step, Disturb, People, Time,
     DisableTool, EnableTool, RetireTool

(***************************************************************************)
(* Steps that leave the rows, the leases and the target alone: an inactive *)
(* task moves between program points that own nothing.                     *)
(***************************************************************************)
LEMMA QuietStep ==
  ASSUME TypeOK, CoreInv, NEW p \in Tasks,
         UNCHANGED <<state, lease, attempt_count, lock, draft, calls, landings,
                     job, myLease, tries, minted>>,
         \A q \in Tasks \ {p} : pc'[q] = pc[q],
         ~Active(p), ~Active(p)',
         pc'[p] = pc[p] \/ pc[p] \notin {"reaping", "sweeping"}
  PROVE  CoreInv'
<1>1. ASSUME NEW i \in Invocations PROVE RowInv(i)'
  BY <1>1 DEF CoreInv, RowInv, CallBound
<1>2. ASSUME NEW i \in Invocations PROVE LockInv(i)'
  <2>1. LockInv(i)
    BY <1>2 DEF CoreInv
  <2>2. ASSUME NEW q \in Tasks, lock[i] = q PROVE pc'[q] = pc[q]
    BY <2>1, <2>2 DEF LockInv, Active
  <2>3. QED
    BY <2>1, <2>2 DEF LockInv
<1>3. ASSUME NEW q \in Tasks PROVE JobInv(q)' /\ DispatchInv(q)'
  <2>1. JobInv(q) /\ DispatchInv(q) /\ JobInv(p)
    BY <1>3 DEF CoreInv
  <2>2. CASE q = p
    BY <2>1, <2>2 DEF JobInv, DispatchInv, Active, Dispatching
  <2>3. CASE q # p
    <3>1. pc'[q] = pc[q]
      BY <1>3, <2>3
    <3>2. QED
      BY <2>1, <3>1 DEF JobInv, DispatchInv, Active, CallBound
  <2>4. QED
    BY <2>2, <2>3
<1>4. LeaseInv'
  BY DEF CoreInv, LeaseInv
<1>5. QED
  BY <1>1, <1>2, <1>3, <1>4 DEF CoreInv

(***************************************************************************)
(* Rollback, for whatever reason: the task forgets its job, the row keeps  *)
(* its committed version and its lease.                                    *)
(***************************************************************************)
LEMMA RollbackStep ==
  ASSUME TypeOK, CoreInv, NEW p \in Tasks, NEW l \in {"poll", "idle", "down"},
         Rollback(p), Goto(p, l), ClearJob(p),
         UNCHANGED <<calls, landings, minted>>
  PROVE  CoreInv'
<1> USE DEF TypeOK, RowTypes, TaskTypes
<1>1. /\ pc'[p] = l /\ myLease'[p] = 0 /\ tries'[p] = 0
      /\ \A q \in Tasks \ {p} : /\ pc'[q] = pc[q] /\ job'[q] = job[q]
                                /\ myLease'[q] = myLease[q]
                                /\ tries'[q] = tries[q]
  BY DEF Goto, ClearJob
<1>2. ASSUME NEW i \in Invocations
      PROVE  /\ state'[i] = state[i] /\ lease'[i] = lease[i]
             /\ lock'[i] # p
             /\ lock[i] = p => lock'[i] = None /\ draft'[i] = state[i]
             /\ lock[i] # p => lock'[i] = lock[i] /\ draft'[i] = draft[i]
  BY <1>2, ConstantsAssumption DEF Rollback, Tasks
<1>3. ASSUME NEW i \in Invocations PROVE RowInv(i)'
  BY <1>2, <1>3 DEF CoreInv, RowInv, CallBound, Rollback
<1>4. ASSUME NEW i \in Invocations PROVE LockInv(i)'
  <2>1. LockInv(i)
    BY <1>4 DEF CoreInv
  <2>2. ASSUME NEW q \in Tasks, lock'[i] = q
        PROVE  /\ q # p /\ lock[i] = q /\ draft'[i] = draft[i]
               /\ pc'[q] = pc[q] /\ job'[q] = job[q] /\ state'[i] = state[i]
    BY <1>1, <1>2, <1>4, <2>2, ConstantsAssumption DEF Tasks
  <2>3. QED
    BY <2>1, <2>2 DEF LockInv
<1>5. ASSUME NEW q \in Tasks PROVE JobInv(q)' /\ DispatchInv(q)'
  <2>1. JobInv(q) /\ DispatchInv(q)
    BY <1>5 DEF CoreInv
  <2>2. CASE q = p
    BY <1>1, <2>2, l \in {"poll", "idle", "down"}
       DEF JobInv, DispatchInv, Active, Dispatching, WorldTypes
  <2>3. CASE q # p
    <3>1. /\ pc'[q] = pc[q] /\ job'[q] = job[q] /\ myLease'[q] = myLease[q]
          /\ tries'[q] = tries[q]
      BY <1>1, <1>5, <2>3
    <3>2. JobInv(q)'
      BY <2>1, <3>1, <1>2 DEF JobInv, Active, Rollback
    <3>3. ASSUME pc[q] \in Dispatching
          PROVE  /\ job[q] \in Invocations /\ lock[job[q]] = q
                 /\ lock'[job[q]] = q /\ draft'[job[q]] = draft[job[q]]
      BY <2>1, <2>3, <3>3, <1>2 DEF JobInv, DispatchInv, Active
    <3>4. DispatchInv(q)'
      BY <2>1, <3>1, <3>3 DEF DispatchInv, CallBound, Rollback, Dispatching
    <3>5. QED
      BY <3>2, <3>4
  <2>4. QED
    BY <2>2, <2>3
<1>6. LeaseInv'
  BY <1>1 DEF CoreInv, LeaseInv
<1>7. QED
  BY <1>3, <1>4, <1>5, <1>6 DEF CoreInv

(***************************************************************************)
(* A committed move of a row no transaction holds, before it is claimed.   *)
(***************************************************************************)
LEMMA MoveStep ==
  ASSUME TypeOK, CoreInv, NEW i \in Invocations,
         NEW s \in Queued \cup {"REJECTED", "DENIED", "CANCELLED"},
         state[i] \in Queued \cup {"NONE"}, lock[i] = None,
         Move(i, s),
         UNCHANGED <<lease, calls, landings, job, myLease, tries, minted>>,
         \A q \in Tasks :
           pc'[q] = pc[q] \/ (pc[q] = "idle" /\ pc'[q] = "dispatch")
  PROVE  CoreInv'
<1> USE DEF TypeOK, RowTypes, TaskTypes
<1>1. /\ state'[i] = s /\ draft'[i] = s
      /\ \A j \in Invocations \ {i} : state'[j] = state[j] /\ draft'[j] = draft[j]
  BY DEF Move
<1>2. ASSUME NEW j \in Invocations PROVE RowInv(j)'
  <2>1. RowInv(j)
    BY <1>2 DEF CoreInv
  <2>2. CASE j = i
    BY <1>1, <2>1, <2>2 DEF RowInv, CallBound, Move, Queued, Committed,
       Outcomes
  <2>3. CASE j # i
    BY <1>1, <1>2, <2>1, <2>3 DEF RowInv, CallBound, Move
  <2>4. QED
    BY <2>2, <2>3
<1>3. ASSUME NEW j \in Invocations PROVE LockInv(j)'
  <2>1. LockInv(j)
    BY <1>3 DEF CoreInv
  <2>2. CASE j = i
    BY <2>2, ConstantsAssumption DEF LockInv, Move, Tasks
  <2>3. CASE j # i
    BY <1>1, <1>3, <2>1, <2>3 DEF LockInv, Move, Dispatching
  <2>4. QED
    BY <2>2, <2>3
<1>4. ASSUME NEW q \in Tasks PROVE JobInv(q)' /\ DispatchInv(q)'
  <2>1. JobInv(q) /\ DispatchInv(q)
    BY <1>4 DEF CoreInv
  <2>2. CASE ~Active(q)
    BY <1>4, <2>1, <2>2 DEF JobInv, DispatchInv, Active, Dispatching
  <2>3. CASE Active(q)
    <3>1. pc'[q] = pc[q] /\ job[q] \in Invocations \ {i}
      BY <1>4, <2>1, <2>3 DEF JobInv, Active, Dispatching
    <3>2. QED
      BY <1>1, <2>1, <2>3, <3>1 DEF JobInv, DispatchInv, Active, CallBound,
         Move
  <2>4. QED
    BY <2>2, <2>3
<1>5. LeaseInv'
  BY DEF CoreInv, LeaseInv
<1>6. QED
  BY <1>2, <1>3, <1>4, <1>5 DEF CoreInv

(* A row that does not exist yet is locked by nobody.                      *)
LEMMA UnbornUnlocked ==
  ASSUME TypeOK, CoreInv, NEW i \in Invocations, state[i] = "NONE"
  PROVE  lock[i] = None
<1>1. LockInv(i)
  BY DEF CoreInv
<1>2. ASSUME NEW q \in Tasks, lock[i] = q PROVE FALSE
  <2>1. DispatchInv(q)
    BY <1>2 DEF CoreInv
  <2>2. QED
    BY <1>1, <1>2, <2>1 DEF LockInv, DispatchInv, Queued
<1>3. QED
  BY <1>2 DEF TypeOK, RowTypes

(***************************************************************************)
(* claim_for_execution: the new lease id is fresh, and nobody was working  *)
(* on the row.                                                             *)
(***************************************************************************)
LEMMA ClaimStep ==
  ASSUME TypeOK, CoreInv, NEW p \in Tasks, Claim(p)
  PROVE  CoreInv'
<1> USE DEF TypeOK, RowTypes, TaskTypes, WorldTypes
<1>1. PICK i \in Invocations :
        /\ state[i] = "READY" /\ lock[i] = None
        /\ state' = [state EXCEPT ![i] = "EXECUTING"]
        /\ draft' = [draft EXCEPT ![i] = "EXECUTING"]
        /\ lease' = [lease EXCEPT ![i] = minted + 1]
        /\ attempt_count' = [attempt_count EXCEPT ![i] = @ + 1]
        /\ job' = [job EXCEPT ![p] = i]
        /\ myLease' = [myLease EXCEPT ![p] = minted + 1]
  BY DEF Claim
<1>2. /\ pc[p] = "dispatch" /\ pc' = [pc EXCEPT ![p] = "claimed"]
      /\ minted' = minted + 1
      /\ UNCHANGED <<lock, tries, calls, landings>>
  BY DEF Claim, Goto, targetVars
<1>3. /\ state'[i] = "EXECUTING" /\ draft'[i] = "EXECUTING"
      /\ lease'[i] = minted + 1 /\ attempt_count'[i] = attempt_count[i] + 1
      /\ \A j \in Invocations \ {i} :
           /\ state'[j] = state[j] /\ draft'[j] = draft[j]
           /\ lease'[j] = lease[j] /\ attempt_count'[j] = attempt_count[j]
  BY <1>1
<1>4. /\ pc'[p] = "claimed" /\ job'[p] = i /\ myLease'[p] = minted + 1
      /\ \A q \in Tasks \ {p} : /\ pc'[q] = pc[q] /\ job'[q] = job[q]
                                /\ myLease'[q] = myLease[q]
  BY <1>1, <1>2
<1>5. ASSUME NEW q \in Tasks PROVE myLease[q] <= minted
  BY <1>5 DEF CoreInv, JobInv
<1>6. RowInv(i)
  BY DEF CoreInv
<1>7. ASSUME NEW j \in Invocations PROVE RowInv(j)'
  <2>1. RowInv(j)
    BY <1>7 DEF CoreInv
  <2>2. CASE j = i
    BY <1>1, <1>2, <1>3, <2>1, <2>2
       DEF RowInv, CallBound, Committed, Queued, Outcomes
  <2>3. CASE j # i
    BY <1>2, <1>3, <1>7, <2>1, <2>3 DEF RowInv, CallBound
  <2>4. QED
    BY <2>2, <2>3
<1>8. ASSUME NEW j \in Invocations PROVE LockInv(j)'
  <2>1. LockInv(j)
    BY <1>8 DEF CoreInv
  <2>2. ASSUME NEW q \in Tasks, lock'[j] = q
        PROVE  /\ q # p /\ j # i /\ lock[j] = q
               /\ pc'[q] = pc[q] /\ job'[q] = job[q]
               /\ state'[j] = state[j] /\ draft'[j] = draft[j]
    <3>1. lock[j] = q /\ j # i
      BY <1>1, <1>2, <2>2, ConstantsAssumption DEF Tasks
    <3>2. q # p
      BY <1>2, <2>1, <3>1 DEF LockInv, Dispatching
    <3>3. QED
      BY <1>3, <1>4, <1>8, <3>1, <3>2
  <2>3. QED
    BY <2>1, <2>2 DEF LockInv
<1>9. ASSUME NEW q \in Tasks PROVE JobInv(q)' /\ DispatchInv(q)'
  <2>1. JobInv(q) /\ DispatchInv(q)
    BY <1>9 DEF CoreInv
  <2>2. CASE q = p
    <3>1. tries'[p] = 0 /\ calls'[i] = 0
      BY <1>1, <1>2, <1>6, <2>1, <2>2
         DEF RowInv, JobInv, Active, Dispatching, Queued
    <3>2. QED
      BY <1>2, <1>3, <1>4, <2>1, <2>2, <3>1
         DEF JobInv, DispatchInv, Active, Dispatching, Queued
  <2>3. CASE q # p /\ ~Active(q)
    BY <1>2, <1>4, <1>9, <2>1, <2>3 DEF JobInv, DispatchInv, Active,
       Dispatching
  <2>4. CASE q # p /\ Active(q)
    <3>1. job[q] \in Invocations \ {i}
      BY <1>1, <2>1, <2>4 DEF JobInv, Queued
    <3>2. QED
      BY <1>2, <1>3, <1>4, <1>9, <2>1, <2>4, <3>1
         DEF JobInv, DispatchInv, Active, CallBound
  <2>5. QED
    BY <2>2, <2>3, <2>4
<1>10. LeaseInv'
  BY <1>4, <1>5 DEF CoreInv, LeaseInv
<1>11. QED
  BY <1>7, <1>8, <1>9, <1>10 DEF CoreInv

(***************************************************************************)
(* A task inside its own job moves between program points, or changes the  *)
(* uncommitted version of the row it holds: nothing committed moves.  s is *)
(* the draft afterwards.                                                   *)
(***************************************************************************)
LEMMA DispatchStep ==
  ASSUME TypeOK, CoreInv, NEW p \in Tasks, NEW s \in InvocationState,
         pc[p] \in Dispatching \ {"commit"},
         Write(p, job[p], s),
         UNCHANGED <<calls, landings, job, myLease, tries, minted>>,
         \A q \in Tasks \ {p} : pc'[q] = pc[q],
         \/ pc'[p] = "commit" /\ s \in Outcomes /\ pc[p] # "call"
         \/ pc'[p] = "validating" /\ s = "VALIDATING" /\ pc[p] = "calling"
         \/ /\ pc'[p] = "call" /\ s = "EXECUTING" /\ pc[p] = "calling"
            /\ tries[p] < CallBound(job[p])
  PROVE  CoreInv'
<1> USE DEF TypeOK, RowTypes, TaskTypes
<1> DEFINE i == job[p]
<1>1. /\ JobInv(p) /\ DispatchInv(p) /\ i \in Invocations
      /\ lock[i] = p /\ state[i] = "EXECUTING"
  BY DEF CoreInv, JobInv, DispatchInv, Active
<1>2. /\ draft'[i] = s /\ lock' = lock
      /\ \A j \in Invocations \ {i} : draft'[j] = draft[j]
      /\ UNCHANGED <<state, lease, attempt_count>>
  BY <1>1 DEF Write
<1>3. ASSUME NEW j \in Invocations PROVE RowInv(j)'
  BY <1>1, <1>2, <1>3, ConstantsAssumption DEF CoreInv, RowInv, CallBound,
     Tasks
<1>4. ASSUME NEW j \in Invocations PROVE LockInv(j)'
  <2>1. LockInv(j)
    BY <1>4 DEF CoreInv
  <2>2. CASE j = i
    <3>1. pc'[p] \in Dispatching
      BY DEF Dispatching
    <3>2. \A q \in Tasks : lock'[j] = q => q = p
      BY <1>1, <1>2, <2>2
    <3>3. QED
      BY <2>2, <3>1, <3>2 DEF LockInv
  <2>3. CASE j # i
    <3>1. lock[j] # p
      BY <2>1, <2>3 DEF LockInv, Dispatching
    <3>2. QED
      BY <1>2, <1>4, <2>1, <2>3, <3>1 DEF LockInv
  <2>4. QED
    BY <2>2, <2>3
<1>5. ASSUME NEW q \in Tasks PROVE JobInv(q)' /\ DispatchInv(q)'
  <2>1. JobInv(q) /\ DispatchInv(q)
    BY <1>5 DEF CoreInv
  <2>2. CASE q = p
    <3>1. JobInv(p)'
      BY <1>1, <1>2 DEF JobInv, Active, Dispatching
    <3>2. DispatchInv(p)'
      BY <1>1, <1>2 DEF DispatchInv, Dispatching, CallBound
    <3>3. QED
      BY <2>2, <3>1, <3>2
  <2>3. CASE q # p
    <3>1. pc'[q] = pc[q]
      BY <1>5, <2>3
    <3>2. pc[q] \in Dispatching => job[q] \in Invocations \ {i}
      BY <1>1, <2>1, <2>3 DEF JobInv, DispatchInv, Active
    <3>3. QED
      BY <1>2, <2>1, <3>1, <3>2
         DEF JobInv, DispatchInv, Active, CallBound, Dispatching
  <2>4. QED
    BY <2>2, <2>3
<1>6. LeaseInv'
  BY DEF CoreInv, LeaseInv
<1>7. QED
  BY <1>3, <1>4, <1>5, <1>6 DEF CoreInv

(***************************************************************************)
(* record_final_gate_if_owned: only the lease holder passes, and nobody    *)
(* has called the adapter under this lease.                                *)
(***************************************************************************)
LEMMA GateStep ==
  ASSUME TypeOK, CoreInv, NEW p \in Tasks, NEW s \in InvocationState,
         pc[p] = "gated", Owned(p), lock[job[p]] = None,
         Write(p, job[p], s),
         UNCHANGED <<calls, landings, job, myLease, tries, minted>>,
         \A q \in Tasks \ {p} : pc'[q] = pc[q],
         \/ pc'[p] = "call" /\ s = "EXECUTING"
         \/ pc'[p] = "commit" /\ s = "EXPIRED"
  PROVE  CoreInv'
<1> USE DEF TypeOK, RowTypes, TaskTypes
<1> DEFINE i == job[p]
<1>1. /\ JobInv(p) /\ i \in Invocations /\ tries[p] = 0 /\ calls[i] = 0
      /\ state[i] = "EXECUTING" /\ lease[i] = myLease[p]
  BY DEF CoreInv, JobInv, Active, Owned
<1>2. /\ draft'[i] = s /\ lock'[i] = p
      /\ \A j \in Invocations \ {i} : draft'[j] = draft[j] /\ lock'[j] = lock[j]
      /\ UNCHANGED <<state, lease, attempt_count>>
  BY <1>1 DEF Write
<1>3. ASSUME NEW j \in Invocations PROVE RowInv(j)'
  BY <1>1, <1>2, <1>3, ConstantsAssumption DEF CoreInv, RowInv, CallBound,
     Tasks
<1>4. ASSUME NEW j \in Invocations PROVE LockInv(j)'
  <2>1. LockInv(j)
    BY <1>4 DEF CoreInv
  <2>2. CASE j = i
    BY <1>2, <2>2 DEF LockInv, Dispatching
  <2>3. CASE j # i
    <3>1. lock[j] # p
      BY <2>1, <2>3 DEF LockInv, Dispatching
    <3>2. QED
      BY <1>2, <1>4, <2>1, <2>3, <3>1 DEF LockInv
  <2>4. QED
    BY <2>2, <2>3
<1>5. ASSUME NEW q \in Tasks PROVE JobInv(q)' /\ DispatchInv(q)'
  <2>1. JobInv(q) /\ DispatchInv(q)
    BY <1>5 DEF CoreInv
  <2>2. CASE q = p
    <3>1. JobInv(p)'
      BY <1>1, <1>2 DEF JobInv, Active, Dispatching
    <3>2. 0 < CallBound(i)
      BY ConstantsAssumption DEF CallBound
    <3>3. DispatchInv(p)'
      BY <1>1, <1>2, <3>2 DEF DispatchInv, Dispatching, CallBound
    <3>4. QED
      BY <2>2, <3>1, <3>3
  <2>3. CASE q # p
    <3>1. pc'[q] = pc[q]
      BY <1>5, <2>3
    <3>2. pc[q] \in Dispatching => job[q] \in Invocations \ {i}
      BY <1>5, <2>1, ConstantsAssumption
         DEF JobInv, DispatchInv, Active, Tasks
    <3>3. QED
      BY <1>2, <2>1, <3>1, <3>2
         DEF JobInv, DispatchInv, Active, CallBound, Dispatching
  <2>4. QED
    BY <2>2, <2>3
<1>6. LeaseInv'
  BY DEF CoreInv, LeaseInv
<1>7. QED
  BY <1>3, <1>4, <1>5, <1>6 DEF CoreInv

(***************************************************************************)
(* session.commit() of a dispatch, a reap or a sweep: every row the task   *)
(* wrote becomes terminal and loses its lease; nobody else held it.        *)
(***************************************************************************)
LEMMA PublishStep ==
  ASSUME TypeOK, CoreInv, NEW p \in Tasks, Publish(p),
         pc[p] \in {"commit", "reaping", "sweeping"},
         UNCHANGED <<calls, landings, minted>>,
         pc'[p] \in {"dispatch", "sweep", "poll"},
         myLease'[p] = 0, tries'[p] = 0,
         \A q \in Tasks \ {p} : /\ pc'[q] = pc[q] /\ job'[q] = job[q]
                                /\ myLease'[q] = myLease[q]
                                /\ tries'[q] = tries[q]
  PROVE  CoreInv'
<1> USE DEF TypeOK, RowTypes, TaskTypes, WorldTypes
<1>1. ASSUME NEW i \in Invocations, lock[i] = p
      PROVE  /\ draft[i] \in Outcomes \cup {"EXPIRED", "EXECUTION_INDETERMINATE"}
             /\ draft[i] \in Outcomes => calls[i] > 0
             /\ draft[i] = "EXPIRED" => calls[i] = 0
  <2>1. LockInv(i) /\ RowInv(i) /\ DispatchInv(p)
    BY <1>1 DEF CoreInv
  <2>2. CASE pc[p] = "commit"
    <3>1. job[p] = i
      BY <1>1, <2>1, <2>2 DEF LockInv
    <3>2. QED
      BY <2>1, <2>2, <3>1 DEF DispatchInv, Dispatching, Outcomes
  <2>3. CASE pc[p] = "reaping"
    BY <1>1, <2>1, <2>3 DEF LockInv, Dispatching, Outcomes
  <2>4. CASE pc[p] = "sweeping"
    BY <1>1, <2>1, <2>4 DEF LockInv, RowInv, Dispatching, Outcomes
  <2>5. QED
    BY <2>2, <2>3, <2>4
<1>2. ASSUME NEW i \in Invocations
      PROVE  /\ lock'[i] # p
             /\ lock[i] # p => /\ state'[i] = state[i] /\ lease'[i] = lease[i]
                               /\ lock'[i] = lock[i]
             /\ lock[i] = p => /\ state'[i] = draft[i] /\ lease'[i] = 0
                               /\ lock'[i] = None
             /\ draft'[i] = draft[i] /\ attempt_count'[i] = attempt_count[i]
  <2>1. lock[i] = p => draft[i] \notin IN_FLIGHT_STATES
    BY <1>1, <1>2 DEF Outcomes, IN_FLIGHT_STATES
  <2>2. QED
    BY <1>2, <2>1, ConstantsAssumption DEF Publish, Tasks
<1>3. ASSUME NEW i \in Invocations PROVE RowInv(i)'
  <2>1. RowInv(i)
    BY <1>3 DEF CoreInv
  <2>2. CASE lock[i] = p
    <3>1. /\ state'[i] = draft[i] /\ lease'[i] = 0 /\ draft'[i] = draft[i]
          /\ attempt_count'[i] = attempt_count[i]
      BY <1>2, <1>3, <2>2
    <3>2. /\ state'[i] \in Outcomes \cup {"EXPIRED", "EXECUTION_INDETERMINATE"}
          /\ state'[i] \in Outcomes => calls[i] > 0
          /\ state'[i] = "EXPIRED" => calls[i] = 0
      BY <1>1, <1>3, <2>2, <3>1
    <3>3. QED
      BY <1>3, <2>1, <3>1, <3>2
         DEF RowInv, CallBound, Committed, Queued, Outcomes
  <2>3. CASE lock[i] # p
    BY <1>2, <1>3, <2>1, <2>3 DEF RowInv, CallBound
  <2>4. QED
    BY <2>2, <2>3
<1>4. ASSUME NEW i \in Invocations PROVE LockInv(i)'
  <2>1. LockInv(i)
    BY <1>4 DEF CoreInv
  <2>2. ASSUME NEW q \in Tasks, lock'[i] = q
        PROVE  /\ q # p /\ lock[i] = q /\ draft'[i] = draft[i]
               /\ pc'[q] = pc[q] /\ job'[q] = job[q] /\ state'[i] = state[i]
    <3>1. lock[i] = q /\ q # p
      BY <1>2, <1>4, <2>2, ConstantsAssumption DEF Tasks
    <3>2. QED
      BY <1>2, <1>4, <3>1
  <2>3. QED
    BY <2>1, <2>2 DEF LockInv
<1>5. ASSUME NEW q \in Tasks PROVE JobInv(q)' /\ DispatchInv(q)'
  <2>1. JobInv(q) /\ DispatchInv(q)
    BY <1>5 DEF CoreInv
  <2>2. CASE q = p
    BY <2>2 DEF JobInv, DispatchInv, Active, Dispatching
  <2>3. CASE q # p
    <3>1. /\ pc'[q] = pc[q] /\ job'[q] = job[q] /\ myLease'[q] = myLease[q]
          /\ tries'[q] = tries[q]
      BY <1>5, <2>3
    <3>2. ASSUME Active(q) PROVE state'[job[q]] \notin Queued \cup {"NONE"}
      BY <1>1, <1>2, <2>1, <3>2 DEF JobInv, Queued, Outcomes
    <3>3. ASSUME Active(q), lease'[job[q]] = myLease[q]
          PROVE  lease[job[q]] = myLease[q]
      BY <1>2, <2>1, <3>3 DEF JobInv
    <3>4. JobInv(q)'
      BY <2>1, <3>1, <3>2, <3>3 DEF JobInv, Active
    <3>5. ASSUME pc[q] \in Dispatching
          PROVE  /\ job[q] \in Invocations /\ lock[job[q]] = q
                 /\ lock'[job[q]] = q /\ draft'[job[q]] = draft[job[q]]
                 /\ state'[job[q]] = state[job[q]]
                 /\ lease'[job[q]] = lease[job[q]]
      <4>1. job[q] \in Invocations /\ lock[job[q]] = q
        BY <2>1, <3>5 DEF JobInv, DispatchInv, Active
      <4>2. QED
        BY <1>2, <2>3, <4>1
    <3>6. DispatchInv(q)'
      BY <2>1, <3>1, <3>5 DEF DispatchInv, CallBound, Dispatching
    <3>7. QED
      BY <3>4, <3>6
  <2>4. QED
    BY <2>2, <2>3
<1>6. LeaseInv'
  BY DEF CoreInv, LeaseInv
<1>7. QED
  BY <1>3, <1>4, <1>5, <1>6 DEF CoreInv

(***************************************************************************)
(* The reaper or the sweeper writes a row whose compare-and-set it won.    *)
(***************************************************************************)
LEMMA HousekeepingStep ==
  ASSUME TypeOK, CoreInv, NEW p \in Tasks, NEW i \in Invocations,
         NEW s \in InvocationState,
         lock[i] = None, Write(p, i, s),
         UNCHANGED <<calls, landings, pc, job, myLease, tries, minted>>,
         \/ /\ pc[p] = "reaping" /\ state[i] = "EXECUTING"
            /\ s = "EXECUTION_INDETERMINATE"
         \/ pc[p] = "sweeping" /\ state[i] \in Queued /\ s = "EXPIRED"
  PROVE  CoreInv'
<1> USE DEF TypeOK, RowTypes, TaskTypes
<1>1. /\ draft'[i] = s /\ lock'[i] = p
      /\ \A j \in Invocations \ {i} : draft'[j] = draft[j] /\ lock'[j] = lock[j]
      /\ UNCHANGED <<state, lease, attempt_count>>
  BY DEF Write
<1>2. ASSUME NEW j \in Invocations PROVE RowInv(j)'
  BY <1>1, <1>2, ConstantsAssumption DEF CoreInv, RowInv, CallBound, Tasks
<1>3. ASSUME NEW j \in Invocations PROVE LockInv(j)'
  <2>1. LockInv(j)
    BY <1>3 DEF CoreInv
  <2>2. CASE j = i
    BY <1>1, <2>2 DEF LockInv
  <2>3. CASE j # i
    BY <1>1, <1>3, <2>1, <2>3 DEF LockInv
  <2>4. QED
    BY <2>2, <2>3
<1>4. ASSUME NEW q \in Tasks PROVE JobInv(q)' /\ DispatchInv(q)'
  <2>1. JobInv(q) /\ DispatchInv(q)
    BY <1>4 DEF CoreInv
  <2>2. JobInv(q)'
    BY <1>1, <2>1 DEF JobInv, Active
  <2>3. pc[q] \in Dispatching => job[q] \in Invocations \ {i}
    BY <1>4, <2>1, ConstantsAssumption DEF JobInv, DispatchInv, Active, Tasks
  <2>4. DispatchInv(q)'
    BY <1>1, <2>1, <2>3 DEF DispatchInv, CallBound, Dispatching
  <2>5. QED
    BY <2>2, <2>4
<1>5. LeaseInv'
  BY DEF CoreInv, LeaseInv
<1>6. QED
  BY <1>2, <1>3, <1>4, <1>5 DEF CoreInv

(***************************************************************************)
(* The adapter call: counted once in the task and once on the row, below   *)
(* the attempt limit.  No other task waiting at the gate holds this lease. *)
(***************************************************************************)
LEMMA CallStep ==
  ASSUME TypeOK, CoreInv, NEW p \in Tasks, CallAdapter(p)
  PROVE  CoreInv'
<1> USE DEF TypeOK, RowTypes, TaskTypes, WorldTypes
<1> DEFINE i == job[p]
<1>1. /\ JobInv(p) /\ DispatchInv(p) /\ pc[p] = "call" /\ i \in Invocations
      /\ state[i] = "EXECUTING" /\ lease[i] = myLease[p] /\ lock[i] = p
      /\ calls[i] = tries[p] /\ tries[p] < CallBound(i) /\ myLease[p] # 0
      /\ draft[i] = "EXECUTING"
  BY DEF CallAdapter, CoreInv, JobInv, DispatchInv, Active, Dispatching
<1>2. UNCHANGED <<state, lease, attempt_count, lock, draft, job, myLease,
                  landings, minted>>
  BY DEF CallAdapter, rowVars, budgetVars
<1>3. /\ calls'[i] = calls[i] + 1 /\ tries'[p] = tries[p] + 1
      /\ pc'[p] = "calling"
      /\ \A j \in Invocations \ {i} : calls'[j] = calls[j]
      /\ \A q \in Tasks \ {p} : tries'[q] = tries[q] /\ pc'[q] = pc[q]
  BY <1>1 DEF CallAdapter, Goto
<1>4. ASSUME NEW j \in Invocations PROVE RowInv(j)'
  <2>1. RowInv(j)
    BY <1>4 DEF CoreInv
  <2>2. CASE j = i
    <3>1. calls[i] + 1 <= CallBound(i)
      BY <1>1, ConstantsAssumption DEF CallBound
    <3>2. QED
      BY <1>1, <1>2, <1>3, <2>1, <2>2, <3>1
         DEF RowInv, CallBound, Outcomes, Queued
  <2>3. CASE j # i
    BY <1>2, <1>3, <1>4, <2>1, <2>3 DEF RowInv, CallBound
  <2>4. QED
    BY <2>2, <2>3
<1>5. ASSUME NEW j \in Invocations PROVE LockInv(j)'
  <2>1. LockInv(j)
    BY <1>5 DEF CoreInv
  <2>2. \A q \in Tasks : pc'[q] = pc[q] \/ (q = p /\ pc'[p] = "calling")
    BY <1>3
  <2>3. QED
    BY <1>1, <1>2, <2>1, <2>2 DEF LockInv, Dispatching
<1>6. ASSUME NEW q \in Tasks PROVE JobInv(q)' /\ DispatchInv(q)'
  <2>1. JobInv(q) /\ DispatchInv(q)
    BY <1>6 DEF CoreInv
  <2>2. CASE q = p
    <3>1. JobInv(p)'
      BY <1>1, <1>2, <1>3 DEF JobInv, Active, Dispatching
    <3>2. DispatchInv(p)'
      BY <1>1, <1>2, <1>3 DEF DispatchInv, Dispatching
    <3>3. QED
      BY <2>2, <3>1, <3>2
  <2>3. CASE q # p
    <3>1. pc'[q] = pc[q] /\ tries'[q] = tries[q]
      BY <1>3, <1>6, <2>3
    <3>2. Active(q) /\ lease[job[q]] = myLease[q] => job[q] # i
      BY <1>1, <1>6, <2>3 DEF CoreInv, LeaseInv
    <3>3. JobInv(q)'
      BY <1>2, <1>3, <2>1, <3>1, <3>2 DEF JobInv, Active
    <3>4. pc[q] \in Dispatching => job[q] \in Invocations \ {i}
      BY <1>1, <2>1, <2>3 DEF JobInv, DispatchInv, Active
    <3>5. DispatchInv(q)'
      BY <1>2, <1>3, <2>1, <3>1, <3>4 DEF DispatchInv, CallBound, Dispatching
    <3>6. QED
      BY <3>3, <3>5
  <2>4. QED
    BY <2>2, <2>3
<1>7. LeaseInv'
  BY <1>2 DEF CoreInv, LeaseInv
<1>8. QED
  BY <1>4, <1>5, <1>6, <1>7 DEF CoreInv

(***************************************************************************)
(* The gate is evaluated before ownership is asserted; a task that turns   *)
(* out not to own the row walks away without writing it.                   *)
(***************************************************************************)
LEMMA BeforeTheGate ==
  ASSUME TypeOK, CoreInv, NEW p \in Tasks,
         pc[p] \in {"claimed", "gated"},
         UNCHANGED <<state, lease, attempt_count, lock, draft, calls, landings,
                     minted>>,
         \A q \in Tasks \ {p} : /\ pc'[q] = pc[q] /\ job'[q] = job[q]
                                /\ myLease'[q] = myLease[q]
                                /\ tries'[q] = tries[q],
         \/ /\ pc'[p] = "gated" /\ job'[p] = job[p]
            /\ myLease'[p] = myLease[p] /\ tries'[p] = tries[p]
         \/ pc'[p] = "dispatch" /\ myLease'[p] = 0 /\ tries'[p] = 0
  PROVE  CoreInv'
<1> USE DEF TypeOK, RowTypes, TaskTypes, WorldTypes
<1>1. ASSUME NEW i \in Invocations PROVE RowInv(i)'
  BY <1>1 DEF CoreInv, RowInv, CallBound
<1>2. ASSUME NEW i \in Invocations PROVE LockInv(i)'
  <2>1. LockInv(i)
    BY <1>2 DEF CoreInv
  <2>2. lock[i] # p
    BY <2>1 DEF LockInv, Dispatching
  <2>3. QED
    BY <2>1, <2>2 DEF LockInv
<1>3. ASSUME NEW q \in Tasks PROVE JobInv(q)' /\ DispatchInv(q)'
  <2>1. JobInv(q) /\ DispatchInv(q)
    BY <1>3 DEF CoreInv
  <2>2. CASE q = p
    BY <2>1, <2>2 DEF JobInv, DispatchInv, Active, Dispatching
  <2>3. CASE q # p
    <3>1. /\ pc'[q] = pc[q] /\ job'[q] = job[q] /\ myLease'[q] = myLease[q]
          /\ tries'[q] = tries[q]
      BY <1>3, <2>3
    <3>2. QED
      BY <2>1, <3>1 DEF JobInv, DispatchInv, Active, CallBound
  <2>4. QED
    BY <2>2, <2>3
<1>4. LeaseInv'
  BY DEF CoreInv, LeaseInv
<1>5. QED
  BY <1>1, <1>2, <1>3, <1>4 DEF CoreInv

(* The target acts: at most once per call.                                 *)
LEMMA TargetStep ==
  ASSUME TypeOK, CoreInv, NEW i \in Invocations, TargetActs(i)
  PROVE  CoreInv'
<1> USE DEF TypeOK, RowTypes, TaskTypes, WorldTypes
<1>1. /\ UNCHANGED <<state, lease, attempt_count, lock, draft, pc, job, myLease,
                     tries, calls, minted>>
      /\ landings'[i] <= calls[i]
      /\ \A j \in Invocations \ {i} : landings'[j] = landings[j]
  BY DEF TargetActs, rowVars, taskVars, budgetVars
<1>2. ASSUME NEW j \in Invocations PROVE RowInv(j)' /\ LockInv(j)'
  BY <1>1, <1>2 DEF CoreInv, RowInv, LockInv, CallBound
<1>3. ASSUME NEW q \in Tasks PROVE JobInv(q)' /\ DispatchInv(q)'
  BY <1>1, <1>3 DEF CoreInv, JobInv, DispatchInv, Active, CallBound
<1>4. LeaseInv'
  BY <1>1 DEF CoreInv, LeaseInv
<1>5. QED
  BY <1>2, <1>3, <1>4 DEF CoreInv

(* Nothing the invariant speaks of changes.                                *)
LEMMA IdleStep ==
  ASSUME CoreInv,
         UNCHANGED <<state, lease, attempt_count, lock, draft, calls, landings,
                     pc, job, myLease, tries, minted>>
  PROVE  CoreInv'
<1>1. ASSUME NEW i \in Invocations PROVE RowInv(i)' /\ LockInv(i)'
  BY <1>1 DEF CoreInv, RowInv, LockInv, CallBound
<1>2. ASSUME NEW q \in Tasks PROVE JobInv(q)' /\ DispatchInv(q)'
  BY <1>2 DEF CoreInv, JobInv, DispatchInv, Active, CallBound
<1>3. LeaseInv'
  BY DEF CoreInv, LeaseInv
<1>4. QED
  BY <1>1, <1>2, <1>3 DEF CoreInv

(***************************************************************************)
(* Every step of every actor preserves the core of the invariant.          *)
(***************************************************************************)
LEMMA CoreStep == IInv /\ [Next]_vars => CoreInv'
<1>1. SUFFICES ASSUME IInv, [Next]_vars PROVE CoreInv'
  OBVIOUS
<1>a. TypeOK /\ CoreInv
  BY <1>1 DEF IInv
<1>b. RowTypes /\ TaskTypes
  BY <1>a DEF TypeOK
<1> USE DEF rowVars, clockVars, toolVars, taskVars, targetVars, budgetVars
<1>2. ASSUME NEW p \in Tasks, Poll(p) PROVE CoreInv'
  <2>1. UNCHANGED <<state, lease, attempt_count, lock, draft, calls, landings,
                    job, myLease, tries, minted>>
    BY <1>2 DEF Poll, KeepJob
  <2>2. /\ \A q \in Tasks \ {p} : pc'[q] = pc[q]
        /\ ~Active(p) /\ ~Active(p)'
        /\ pc'[p] = pc[p] \/ pc[p] \notin {"reaping", "sweeping"}
    BY <1>2, <1>b DEF Poll, Goto, Active, Dispatching, TaskTypes
  <2>3. QED
    BY <1>a, <2>1, <2>2, QuietStep
<1>3. ASSUME NEW p \in Tasks, EndBatch(p) PROVE CoreInv'
  <2>1. UNCHANGED <<state, lease, attempt_count, lock, draft, calls, landings,
                    job, myLease, tries, minted>>
    BY <1>3 DEF EndBatch, KeepJob
  <2>2. /\ \A q \in Tasks \ {p} : pc'[q] = pc[q]
        /\ ~Active(p) /\ ~Active(p)'
        /\ pc'[p] = pc[p] \/ pc[p] \notin {"reaping", "sweeping"}
    BY <1>3, <1>b DEF EndBatch, Goto, Active, Dispatching, TaskTypes
  <2>3. QED
    BY <1>a, <2>1, <2>2, QuietStep
<1>4. ASSUME NEW p \in Tasks, SkipNotReady(p) PROVE CoreInv'
  <2>1. UNCHANGED <<state, lease, attempt_count, lock, draft, calls, landings,
                    job, myLease, tries, minted>>
    BY <1>4 DEF SkipNotReady, KeepJob
  <2>2. /\ \A q \in Tasks \ {p} : pc'[q] = pc[q]
        /\ ~Active(p) /\ ~Active(p)'
        /\ pc'[p] = pc[p] \/ pc[p] \notin {"reaping", "sweeping"}
    BY <1>4, <1>b DEF SkipNotReady, Goto, Active, Dispatching, TaskTypes
  <2>3. QED
    BY <1>a, <2>1, <2>2, QuietStep
<1>5. ASSUME NEW p \in Tasks, StartReap(p) PROVE CoreInv'
  <2>1. UNCHANGED <<state, lease, attempt_count, lock, draft, calls, landings,
                    job, myLease, tries, minted>>
    BY <1>5 DEF StartReap, KeepJob
  <2>2. /\ \A q \in Tasks \ {p} : pc'[q] = pc[q]
        /\ ~Active(p) /\ ~Active(p)'
        /\ pc'[p] = pc[p] \/ pc[p] \notin {"reaping", "sweeping"}
    BY <1>5, <1>b DEF StartReap, Goto, Active, Dispatching, TaskTypes
  <2>3. QED
    BY <1>a, <2>1, <2>2, QuietStep
<1>6. ASSUME NEW p \in Tasks, ReapStoodDown(p) PROVE CoreInv'
  <2>1. UNCHANGED <<state, lease, attempt_count, lock, draft, calls, landings,
                    job, myLease, tries, minted>>
    BY <1>6 DEF ReapStoodDown, KeepJob
  <2>2. /\ \A q \in Tasks \ {p} : pc'[q] = pc[q]
        /\ ~Active(p) /\ ~Active(p)'
        /\ pc'[p] = pc[p] \/ pc[p] \notin {"reaping", "sweeping"}
    BY <1>6, <1>b DEF ReapStoodDown, Goto, Active, Dispatching, TaskTypes
  <2>3. QED
    BY <1>a, <2>1, <2>2, QuietStep
<1>7. ASSUME NEW p \in Tasks, StartSweep(p) PROVE CoreInv'
  <2>1. UNCHANGED <<state, lease, attempt_count, lock, draft, calls, landings,
                    job, myLease, tries, minted>>
    BY <1>7 DEF StartSweep, KeepJob
  <2>2. /\ \A q \in Tasks \ {p} : pc'[q] = pc[q]
        /\ ~Active(p) /\ ~Active(p)'
        /\ pc'[p] = pc[p] \/ pc[p] \notin {"reaping", "sweeping"}
    BY <1>7, <1>b DEF StartSweep, Goto, Active, Dispatching, TaskTypes
  <2>3. QED
    BY <1>a, <2>1, <2>2, QuietStep
<1>8. ASSUME NEW p \in Tasks, SweepStoodDown(p) PROVE CoreInv'
  <2>1. UNCHANGED <<state, lease, attempt_count, lock, draft, calls, landings,
                    job, myLease, tries, minted>>
    BY <1>8 DEF SweepStoodDown, KeepJob
  <2>2. /\ \A q \in Tasks \ {p} : pc'[q] = pc[q]
        /\ ~Active(p) /\ ~Active(p)'
        /\ pc'[p] = pc[p] \/ pc[p] \notin {"reaping", "sweeping"}
    BY <1>8, <1>b DEF SweepStoodDown, Goto, Active, Dispatching, TaskTypes
  <2>3. QED
    BY <1>a, <2>1, <2>2, QuietStep
<1>9. ASSUME NEW p \in Tasks, LoopEnds(p) PROVE CoreInv'
  <2>1. UNCHANGED <<state, lease, attempt_count, lock, draft, calls, landings,
                    job, myLease, tries, minted>>
    BY <1>9 DEF LoopEnds, KeepJob
  <2>2. /\ \A q \in Tasks \ {p} : pc'[q] = pc[q]
        /\ ~Active(p) /\ ~Active(p)'
        /\ pc'[p] = pc[p] \/ pc[p] \notin {"reaping", "sweeping"}
    BY <1>9, <1>b DEF LoopEnds, Goto, Active, Dispatching, TaskTypes
  <2>3. QED
    BY <1>a, <2>1, <2>2, QuietStep
<1>10. ASSUME NEW p \in Tasks, Start(p) PROVE CoreInv'
  <2>1. UNCHANGED <<state, lease, attempt_count, lock, draft, calls, landings,
                    job, myLease, tries, minted>>
    BY <1>10 DEF Start, KeepJob
  <2>2. /\ \A q \in Tasks \ {p} : pc'[q] = pc[q]
        /\ ~Active(p) /\ ~Active(p)'
        /\ pc'[p] = pc[p] \/ pc[p] \notin {"reaping", "sweeping"}
    BY <1>10, <1>b DEF Start, Goto, Active, Dispatching, TaskTypes
  <2>3. QED
    BY <1>a, <2>1, <2>2, QuietStep
<1>11. ASSUME NEW p \in Tasks, Claim(p) PROVE CoreInv'
  BY <1>a, <1>11, ClaimStep
<1>12. ASSUME NEW p \in Tasks, EvaluateGate(p) PROVE CoreInv'
  <2>1. UNCHANGED <<state, lease, attempt_count, lock, draft, calls, landings,
                    minted>>
    BY <1>12 DEF EvaluateGate
  <2>2. /\ pc[p] \in {"claimed", "gated"}
        /\ \A q \in Tasks \ {p} : /\ pc'[q] = pc[q] /\ job'[q] = job[q]
                                  /\ myLease'[q] = myLease[q]
                                  /\ tries'[q] = tries[q]
        /\ \/ /\ pc'[p] = "gated" /\ job'[p] = job[p]
              /\ myLease'[p] = myLease[p] /\ tries'[p] = tries[p]
           \/ pc'[p] = "dispatch" /\ myLease'[p] = 0 /\ tries'[p] = 0
    BY <1>12, <1>b DEF EvaluateGate, Goto, TaskTypes
  <2>3. QED
    BY <1>a, <2>1, <2>2, BeforeTheGate
<1>13. ASSUME NEW p \in Tasks, AbandonLostLease(p) PROVE CoreInv'
  <2>1. UNCHANGED <<state, lease, attempt_count, lock, draft, calls, landings,
                    minted>>
    BY <1>13 DEF AbandonLostLease
  <2>2. /\ pc[p] \in {"claimed", "gated"}
        /\ \A q \in Tasks \ {p} : /\ pc'[q] = pc[q] /\ job'[q] = job[q]
                                  /\ myLease'[q] = myLease[q]
                                  /\ tries'[q] = tries[q]
        /\ \/ /\ pc'[p] = "gated" /\ job'[p] = job[p]
              /\ myLease'[p] = myLease[p] /\ tries'[p] = tries[p]
           \/ pc'[p] = "dispatch" /\ myLease'[p] = 0 /\ tries'[p] = 0
    BY <1>13, <1>b DEF AbandonLostLease, Goto, ClearJob, TaskTypes
  <2>3. QED
    BY <1>a, <2>1, <2>2, BeforeTheGate
<1>14. ASSUME NEW p \in Tasks, GateAllows(p) PROVE CoreInv'
  <2>1. /\ pc[p] = "gated" /\ Owned(p) /\ lock[job[p]] = None
        /\ Write(p, job[p], "EXECUTING")
        /\ UNCHANGED <<calls, landings, job, myLease, tries, minted>>
    BY <1>14 DEF GateAllows, KeepJob
  <2>2. pc'[p] = "call" /\ \A q \in Tasks \ {p} : pc'[q] = pc[q]
    BY <1>14, <1>b DEF GateAllows, Goto, TaskTypes
  <2>3. "EXECUTING" \in InvocationState
    BY DEF InvocationState
  <2>4. QED
    BY <1>a, <2>1, <2>2, <2>3, GateStep
<1>15. ASSUME NEW p \in Tasks, GateDenies(p) PROVE CoreInv'
  <2>1. /\ pc[p] = "gated" /\ Owned(p) /\ lock[job[p]] = None
        /\ Write(p, job[p], "EXPIRED")
        /\ UNCHANGED <<calls, landings, job, myLease, tries, minted>>
    BY <1>15 DEF GateDenies, KeepJob
  <2>2. pc'[p] = "commit" /\ \A q \in Tasks \ {p} : pc'[q] = pc[q]
    BY <1>15, <1>b DEF GateDenies, Goto, TaskTypes
  <2>3. "EXPIRED" \in InvocationState
    BY DEF InvocationState
  <2>4. QED
    BY <1>a, <2>1, <2>2, <2>3, GateStep
<1>16. ASSUME NEW p \in Tasks, CallAdapter(p) PROVE CoreInv'
  BY <1>a, <1>16, CallStep
<1>17. ASSUME NEW p \in Tasks, AdapterRetries(p) PROVE CoreInv'
  <2>1. /\ pc[p] = "calling" /\ CanRetry(p)
        /\ UNCHANGED <<state, lease, attempt_count, final_gate, lock, draft>>
        /\ UNCHANGED <<calls, landings, job, myLease, tries, minted>>
    BY <1>17 DEF AdapterRetries, KeepJob
  <2>2. pc'[p] = "call" /\ \A q \in Tasks \ {p} : pc'[q] = pc[q]
    BY <1>17, <1>b DEF AdapterRetries, Goto, TaskTypes
  <2>3. lock[job[p]] = p /\ draft[job[p]] = "EXECUTING"
    BY <1>a, <2>1 DEF CoreInv, DispatchInv, Dispatching
  <2>4. Write(p, job[p], "EXECUTING")
    BY <1>b, <2>1, <2>3 DEF Write, RowTypes
  <2>5. tries[p] < CallBound(job[p])
    BY <2>1 DEF CanRetry, CallBound
  <2>6. pc[p] \in Dispatching \ {"commit"} /\ "EXECUTING" \in InvocationState
    BY <2>1 DEF Dispatching, InvocationState
  <2>7. QED
    BY <1>a, <2>1, <2>2, <2>4, <2>5, <2>6, DispatchStep
<1>18. ASSUME NEW p \in Tasks, AdapterTimesOut(p) PROVE CoreInv'
  <2>1. /\ pc[p] = "calling"
        /\ Write(p, job[p], "TIMED_OUT")
        /\ UNCHANGED <<calls, landings, job, myLease, tries, minted>>
    BY <1>18 DEF AdapterTimesOut, Record, KeepJob
  <2>2. pc'[p] = "commit" /\ \A q \in Tasks \ {p} : pc'[q] = pc[q]
    BY <1>18, <1>b DEF AdapterTimesOut, Record, Goto, TaskTypes
  <2>3. /\ pc[p] \in Dispatching \ {"commit"} /\ pc[p] # "call"
        /\ "TIMED_OUT" \in InvocationState
        /\ "TIMED_OUT" \in Outcomes
    BY <2>1 DEF Dispatching, InvocationState, Outcomes
  <2>4. QED
    BY <1>a, <2>1, <2>2, <2>3, DispatchStep
<1>19. ASSUME NEW p \in Tasks, AdapterFails(p) PROVE CoreInv'
  <2>1. /\ pc[p] = "calling"
        /\ Write(p, job[p], "FAILED")
        /\ UNCHANGED <<calls, landings, job, myLease, tries, minted>>
    BY <1>19 DEF AdapterFails, Record, KeepJob
  <2>2. pc'[p] = "commit" /\ \A q \in Tasks \ {p} : pc'[q] = pc[q]
    BY <1>19, <1>b DEF AdapterFails, Record, Goto, TaskTypes
  <2>3. /\ pc[p] \in Dispatching \ {"commit"} /\ pc[p] # "call"
        /\ "FAILED" \in InvocationState
        /\ "FAILED" \in Outcomes
    BY <2>1 DEF Dispatching, InvocationState, Outcomes
  <2>4. QED
    BY <1>a, <2>1, <2>2, <2>3, DispatchStep
<1>20. ASSUME NEW p \in Tasks, AdapterSucceeds(p) PROVE CoreInv'
  <2>1. /\ pc[p] = "calling"
        /\ Write(p, job[p], "SUCCEEDED")
        /\ UNCHANGED <<calls, landings, job, myLease, tries, minted>>
    BY <1>20 DEF AdapterSucceeds, Record, KeepJob
  <2>2. pc'[p] = "commit" /\ \A q \in Tasks \ {p} : pc'[q] = pc[q]
    BY <1>20, <1>b DEF AdapterSucceeds, Record, Goto, TaskTypes
  <2>3. /\ pc[p] \in Dispatching \ {"commit"} /\ pc[p] # "call"
        /\ "SUCCEEDED" \in InvocationState
        /\ "SUCCEEDED" \in Outcomes
    BY <2>1 DEF Dispatching, InvocationState, Outcomes
  <2>4. QED
    BY <1>a, <2>1, <2>2, <2>3, DispatchStep
<1>21. ASSUME NEW p \in Tasks, BeginValidation(p) PROVE CoreInv'
  <2>1. /\ pc[p] = "calling"
        /\ Write(p, job[p], "VALIDATING")
        /\ UNCHANGED <<calls, landings, job, myLease, tries, minted>>
    BY <1>21 DEF BeginValidation, Record, KeepJob
  <2>2. pc'[p] = "validating" /\ \A q \in Tasks \ {p} : pc'[q] = pc[q]
    BY <1>21, <1>b DEF BeginValidation, Record, Goto, TaskTypes
  <2>3. /\ pc[p] \in Dispatching \ {"commit"} /\ pc[p] # "call"
        /\ "VALIDATING" \in InvocationState
    BY <2>1 DEF Dispatching, InvocationState, Outcomes
  <2>4. QED
    BY <1>a, <2>1, <2>2, <2>3, DispatchStep
<1>22. ASSUME NEW p \in Tasks, ValidationConfirms(p) PROVE CoreInv'
  <2>1. /\ pc[p] = "validating"
        /\ Write(p, job[p], "SUCCEEDED")
        /\ UNCHANGED <<calls, landings, job, myLease, tries, minted>>
    BY <1>22 DEF ValidationConfirms, Record, KeepJob
  <2>2. pc'[p] = "commit" /\ \A q \in Tasks \ {p} : pc'[q] = pc[q]
    BY <1>22, <1>b DEF ValidationConfirms, Record, Goto, TaskTypes
  <2>3. /\ pc[p] \in Dispatching \ {"commit"} /\ pc[p] # "call"
        /\ "SUCCEEDED" \in InvocationState
        /\ "SUCCEEDED" \in Outcomes
    BY <2>1 DEF Dispatching, InvocationState, Outcomes
  <2>4. QED
    BY <1>a, <2>1, <2>2, <2>3, DispatchStep
<1>23. ASSUME NEW p \in Tasks, ValidationFails(p) PROVE CoreInv'
  <2>1. /\ pc[p] = "validating"
        /\ Write(p, job[p], "VALIDATION_FAILED")
        /\ UNCHANGED <<calls, landings, job, myLease, tries, minted>>
    BY <1>23 DEF ValidationFails, Record, KeepJob
  <2>2. pc'[p] = "commit" /\ \A q \in Tasks \ {p} : pc'[q] = pc[q]
    BY <1>23, <1>b DEF ValidationFails, Record, Goto, TaskTypes
  <2>3. /\ pc[p] \in Dispatching \ {"commit"} /\ pc[p] # "call"
        /\ "VALIDATION_FAILED" \in InvocationState
        /\ "VALIDATION_FAILED" \in Outcomes
    BY <2>1 DEF Dispatching, InvocationState, Outcomes
  <2>4. QED
    BY <1>a, <2>1, <2>2, <2>3, DispatchStep
<1>24. ASSUME NEW p \in Tasks, CommitExecution(p) PROVE CoreInv'
  <2>1. /\ pc[p] = "commit" /\ Publish(p)
        /\ UNCHANGED <<calls, landings, minted>>
    BY <1>24 DEF CommitExecution
  <2>2. /\ pc'[p] = "dispatch" /\ myLease'[p] = 0 /\ tries'[p] = 0
        /\ \A q \in Tasks \ {p} : /\ pc'[q] = pc[q] /\ job'[q] = job[q]
                                  /\ myLease'[q] = myLease[q]
                                  /\ tries'[q] = tries[q]
    BY <1>24, <1>b DEF CommitExecution, Goto, ClearJob, TaskTypes
  <2>3. QED
    BY <1>a, <2>1, <2>2, PublishStep
<1>25. ASSUME NEW p \in Tasks, CommitReap(p) PROVE CoreInv'
  <2>1. /\ pc[p] = "reaping" /\ Publish(p)
        /\ UNCHANGED <<calls, landings, minted>>
    BY <1>25 DEF CommitReap
  <2>2. myLease[p] = 0 /\ tries[p] = 0
    BY <1>a, <2>1 DEF CoreInv, JobInv, Active, Dispatching
  <2>3. /\ pc'[p] = "sweep" /\ myLease'[p] = 0 /\ tries'[p] = 0
        /\ \A q \in Tasks \ {p} : /\ pc'[q] = pc[q] /\ job'[q] = job[q]
                                  /\ myLease'[q] = myLease[q]
                                  /\ tries'[q] = tries[q]
    BY <1>25, <1>b, <2>2 DEF CommitReap, Goto, KeepJob, TaskTypes
  <2>4. QED
    BY <1>a, <2>1, <2>3, PublishStep
<1>26. ASSUME NEW p \in Tasks, CommitSweep(p) PROVE CoreInv'
  <2>1. /\ pc[p] = "sweeping" /\ Publish(p)
        /\ UNCHANGED <<calls, landings, minted>>
    BY <1>26 DEF CommitSweep
  <2>2. myLease[p] = 0 /\ tries[p] = 0
    BY <1>a, <2>1 DEF CoreInv, JobInv, Active, Dispatching
  <2>3. /\ pc'[p] = "poll" /\ myLease'[p] = 0 /\ tries'[p] = 0
        /\ \A q \in Tasks \ {p} : /\ pc'[q] = pc[q] /\ job'[q] = job[q]
                                  /\ myLease'[q] = myLease[q]
                                  /\ tries'[q] = tries[q]
    BY <1>26, <1>b, <2>2 DEF CommitSweep, Goto, KeepJob, TaskTypes
  <2>4. QED
    BY <1>a, <2>1, <2>3, PublishStep
<1>27. ASSUME NEW p \in Tasks, ReapOne(p) PROVE CoreInv'
  <2>1. /\ pc[p] = "reaping" /\ CandInv(p)
        /\ UNCHANGED <<calls, landings, pc, job, myLease, tries, minted>>
    BY <1>1, <1>27 DEF ReapOne, KeepJob, IInv
  <2>2. PICK c \in cand[p] :
          /\ lock[c.inv] = None /\ state[c.inv] = "EXECUTING"
          /\ Write(p, c.inv, "EXECUTION_INDETERMINATE")
    BY <1>27, <2>1 DEF ReapOne, StillSeen, CandInv
  <2>3. c.inv \in Invocations /\ "EXECUTION_INDETERMINATE" \in InvocationState
    BY <1>b DEF TaskTypes, Candidates, InvocationState
  <2>4. QED
    BY <1>a, <2>1, <2>2, <2>3, HousekeepingStep
<1>28. ASSUME NEW p \in Tasks, SweepOne(p) PROVE CoreInv'
  <2>1. /\ pc[p] = "sweeping" /\ CandInv(p)
        /\ UNCHANGED <<calls, landings, pc, job, myLease, tries, minted>>
    BY <1>1, <1>28 DEF SweepOne, KeepJob, IInv
  <2>2. PICK c \in cand[p] :
          /\ lock[c.inv] = None /\ state[c.inv] \in Queued
          /\ Write(p, c.inv, "EXPIRED")
    BY <1>28, <2>1 DEF SweepOne, CandInv
  <2>3. c.inv \in Invocations /\ "EXPIRED" \in InvocationState
    BY <1>b DEF TaskTypes, Candidates, InvocationState
  <2>4. QED
    BY <1>a, <2>1, <2>2, <2>3, HousekeepingStep
<1>29. ASSUME NEW p \in Tasks, TransactionFails(p) PROVE CoreInv'
  <2> DEFINE l == IF p \in Workers THEN "poll" ELSE "idle"
  <2>1. /\ Rollback(p) /\ Goto(p, l) /\ ClearJob(p)
        /\ UNCHANGED <<calls, landings, minted>>
    BY <1>29 DEF TransactionFails, Interrupt
  <2>2. l \in {"poll", "idle", "down"}
    OBVIOUS
  <2>3. QED
    BY <1>a, <2>1, <2>2, RollbackStep
<1>30. ASSUME NEW p \in Tasks, Crash(p) PROVE CoreInv'
  <2> DEFINE l == IF p \in Workers THEN "down" ELSE "idle"
  <2>1. /\ Rollback(p) /\ Goto(p, l) /\ ClearJob(p)
        /\ UNCHANGED <<calls, landings, minted>>
    BY <1>30 DEF Crash, Interrupt
  <2>2. l \in {"poll", "idle", "down"}
    OBVIOUS
  <2>3. QED
    BY <1>a, <2>1, <2>2, RollbackStep
<1>31. ASSUME NEW p \in Tasks, InlineWaitElapses(p) PROVE CoreInv'
  <2> DEFINE l == "idle"
  <2>1. /\ Rollback(p) /\ Goto(p, l) /\ ClearJob(p)
        /\ UNCHANGED <<calls, landings, minted>>
    BY <1>31 DEF InlineWaitElapses, Interrupt
  <2>2. l \in {"poll", "idle", "down"}
    OBVIOUS
  <2>3. QED
    BY <1>a, <2>1, <2>2, RollbackStep
<1>32. ASSUME NEW p \in Tasks, StopTimesOut(p) PROVE CoreInv'
  <2> DEFINE l == "down"
  <2>1. /\ Rollback(p) /\ Goto(p, l) /\ ClearJob(p)
        /\ UNCHANGED <<calls, landings, minted>>
    BY <1>32 DEF StopTimesOut, Interrupt
  <2>2. l \in {"poll", "idle", "down"}
    OBVIOUS
  <2>3. QED
    BY <1>a, <2>1, <2>2, RollbackStep
<1>33. ASSUME NEW p \in Tasks, Stop(p) PROVE CoreInv'
  BY <1>a, <1>33, IdleStep DEF Stop
<1>34. ASSUME NEW i \in Invocations, Create(i) PROVE CoreInv'
  <2>1. /\ state[i] = "NONE" /\ Move(i, Admitted(i))
        /\ UNCHANGED <<lease, calls, landings, pc, job, myLease, tries, minted>>
    BY <1>34 DEF Create, NextRequest
  <2>2. Admitted(i) \in Queued \cup {"REJECTED", "DENIED", "CANCELLED"}
    BY DEF Admitted, Queued
  <2>3. lock[i] = None
    BY <1>a, <2>1, UnbornUnlocked
  <2>4. QED
    BY <1>a, <2>1, <2>2, <2>3, MoveStep
<1>35. ASSUME NEW i \in Invocations, NEW p \in Callers, CreateInline(p, i)
      PROVE  CoreInv'
  <2>1. /\ state[i] = "NONE" /\ Move(i, Admitted(i))
        /\ UNCHANGED <<lease, calls, landings, job, myLease, tries, minted>>
    BY <1>35 DEF CreateInline, NextRequest, KeepJob
  <2>2. Admitted(i) \in Queued \cup {"REJECTED", "DENIED", "CANCELLED"}
    BY DEF Admitted, Queued
  <2>3. lock[i] = None
    BY <1>a, <2>1, UnbornUnlocked
  <2>4. \A q \in Tasks :
          pc'[q] = pc[q] \/ (pc[q] = "idle" /\ pc'[q] = "dispatch")
    BY <1>35, <1>b DEF CreateInline, Goto, TaskTypes
  <2>5. QED
    BY <1>a, <2>1, <2>2, <2>3, <2>4, MoveStep
<1>36. ASSUME NEW i \in Invocations, Approve(i) PROVE CoreInv'
  <2>1. /\ state[i] \in Queued \cup {"NONE"} /\ lock[i] = None
        /\ Move(i, "READY")
        /\ UNCHANGED <<lease, calls, landings, pc, job, myLease, tries, minted>>
    BY <1>36 DEF Approve, Queued
  <2>2. "READY" \in Queued \cup {"REJECTED", "DENIED", "CANCELLED"}
    BY DEF Queued
  <2>3. QED
    BY <1>a, <2>1, <2>2, MoveStep
<1>37. ASSUME NEW i \in Invocations, Deny(i) PROVE CoreInv'
  <2>1. /\ state[i] \in Queued \cup {"NONE"} /\ lock[i] = None
        /\ Move(i, "DENIED")
        /\ UNCHANGED <<lease, calls, landings, pc, job, myLease, tries, minted>>
    BY <1>37 DEF Deny, Queued
  <2>2. "DENIED" \in Queued \cup {"REJECTED", "DENIED", "CANCELLED"}
    BY DEF Queued
  <2>3. QED
    BY <1>a, <2>1, <2>2, MoveStep
<1>38. ASSUME NEW i \in Invocations, Cancel(i) PROVE CoreInv'
  <2>1. /\ state[i] \in Queued \cup {"NONE"} /\ lock[i] = None
        /\ Move(i, "CANCELLED")
        /\ UNCHANGED <<lease, calls, landings, pc, job, myLease, tries, minted>>
    BY <1>38 DEF Cancel, Queued
  <2>2. "CANCELLED" \in Queued \cup {"REJECTED", "DENIED", "CANCELLED"}
    BY DEF Queued
  <2>3. QED
    BY <1>a, <2>1, <2>2, MoveStep
<1>39. ASSUME NEW i \in Invocations, Tamper(i) PROVE CoreInv'
  BY <1>a, <1>39, IdleStep DEF Tamper
<1>40. ASSUME NEW i \in Invocations, LeaseExpiresOnServer(i) PROVE CoreInv'
  BY <1>a, <1>40, IdleStep DEF LeaseExpiresOnServer
<1>41. ASSUME NEW i \in Invocations, LeaseExpiresForReaper(i) PROVE CoreInv'
  BY <1>a, <1>41, IdleStep DEF LeaseExpiresForReaper
<1>42. ASSUME NEW i \in Invocations, WindowLapses(i) PROVE CoreInv'
  BY <1>a, <1>42, IdleStep DEF WindowLapses
<1>43. ASSUME NEW i \in Invocations, TargetActs(i) PROVE CoreInv'
  BY <1>a, <1>43, TargetStep
<1>44. ASSUME NEW from, NEW to, SetLifecycle(from, to) PROVE CoreInv'
  BY <1>a, <1>44, IdleStep DEF SetLifecycle
<1>45. ASSUME UNCHANGED vars PROVE CoreInv'
  BY <1>a, <1>45, IdleStep DEF vars
<1>46. QED
  BY <1>1, <1>2, <1>3, <1>4, <1>5, <1>6, <1>7, <1>8, <1>9, <1>10, <1>11,
     <1>12, <1>13, <1>14, <1>15, <1>16, <1>17, <1>18, <1>19, <1>20, <1>21,
     <1>22, <1>23, <1>24, <1>25, <1>26, <1>27, <1>28, <1>29, <1>30, <1>31,
     <1>32, <1>33, <1>34, <1>35, <1>36, <1>37, <1>38, <1>39, <1>40, <1>41,
     <1>42, <1>43, <1>44, <1>45
     DEF Next, Step, Disturb, People, Time, DisableTool, EnableTool, RetireTool

(***************************************************************************)
(* What the candidate lists may hold: a task only shortens its list, or    *)
(* drops it, or leaves a program point at which it is empty.               *)
(***************************************************************************)
LEMMA CandKeep ==
  ASSUME TypeOK, \A q \in Tasks : CandInv(q), NEW p \in Tasks,
         \A q \in Tasks \ {p} : pc'[q] = pc[q] /\ cand'[q] = cand[q],
         cand'[p] \subseteq cand[p],
         \/ pc'[p] = pc[p] \/ cand'[p] = {}
         \/ pc[p] \notin {"reaping", "sweeping"}
  PROVE  \A q \in Tasks : CandInv(q)'
<1>1. SUFFICES ASSUME NEW q \in Tasks PROVE CandInv(q)'
  OBVIOUS
<1>2. CASE q # p
  BY <1>1, <1>2 DEF CandInv
<1>3. CASE q = p
  BY <1>1, <1>3 DEF CandInv
<1>4. QED
  BY <1>2, <1>3

(* Every step keeps the candidate lists truthful: a reap list holds rows   *)
(* read as EXECUTING, a sweep list rows read as queued.                    *)
LEMMA CandStep == IInv /\ [Next]_vars => \A q \in Tasks : CandInv(q)'
<1>1. SUFFICES ASSUME IInv, [Next]_vars PROVE \A q \in Tasks : CandInv(q)'
  OBVIOUS
<1>a. TypeOK /\ CoreInv /\ \A q \in Tasks : CandInv(q)
  BY <1>1 DEF IInv
<1>b. TaskTypes
  BY <1>a DEF TypeOK
<1> DEFINE Keeps(p) ==
      /\ \A q \in Tasks \ {p} : pc'[q] = pc[q] /\ cand'[q] = cand[q]
      /\ cand'[p] \subseteq cand[p]
      /\ \/ pc'[p] = pc[p] \/ cand'[p] = {}
         \/ pc[p] \notin {"reaping", "sweeping"}
<1>c. ASSUME NEW p \in Tasks, Keeps(p) PROVE \A q \in Tasks : CandInv(q)'
  BY <1>a, <1>c, CandKeep
<1> USE DEF taskVars
<1>2. ASSUME NEW p \in Tasks, Poll(p) PROVE Keeps(p)
  BY <1>b, <1>2 DEF Poll, Goto, TaskTypes
<1>3. ASSUME NEW p \in Tasks, EndBatch(p) PROVE Keeps(p)
  BY <1>b, <1>3 DEF EndBatch, Goto, TaskTypes
<1>4. ASSUME NEW p \in Tasks, SkipNotReady(p) PROVE Keeps(p)
  BY <1>b, <1>4 DEF SkipNotReady, Goto, TaskTypes
<1>5. ASSUME NEW p \in Tasks, Claim(p) PROVE Keeps(p)
  BY <1>b, <1>5 DEF Claim, Goto, TaskTypes
<1>6. ASSUME NEW p \in Tasks, EvaluateGate(p) PROVE Keeps(p)
  BY <1>b, <1>6 DEF EvaluateGate, Goto, TaskTypes
<1>7. ASSUME NEW p \in Tasks, GateAllows(p) PROVE Keeps(p)
  BY <1>b, <1>7 DEF GateAllows, Goto, TaskTypes
<1>8. ASSUME NEW p \in Tasks, GateDenies(p) PROVE Keeps(p)
  BY <1>b, <1>8 DEF GateDenies, Goto, TaskTypes
<1>9. ASSUME NEW p \in Tasks, AbandonLostLease(p) PROVE Keeps(p)
  BY <1>b, <1>9 DEF AbandonLostLease, Goto, TaskTypes
<1>10. ASSUME NEW p \in Tasks, CallAdapter(p) PROVE Keeps(p)
  BY <1>b, <1>10 DEF CallAdapter, Goto, TaskTypes
<1>11. ASSUME NEW p \in Tasks, AdapterRetries(p) PROVE Keeps(p)
  BY <1>b, <1>11 DEF AdapterRetries, Goto, TaskTypes
<1>12. ASSUME NEW p \in Tasks, LoopEnds(p) PROVE Keeps(p)
  BY <1>b, <1>12 DEF LoopEnds, Goto, TaskTypes
<1>13. ASSUME NEW p \in Tasks, Start(p) PROVE Keeps(p)
  BY <1>b, <1>13 DEF Start, Goto, TaskTypes
<1>14. ASSUME NEW p \in Tasks, Stop(p) PROVE Keeps(p)
  BY <1>b, <1>14 DEF Stop, Goto, TaskTypes
<1>15. ASSUME NEW p \in Tasks, AdapterTimesOut(p) PROVE Keeps(p)
  BY <1>b, <1>15 DEF AdapterTimesOut, Goto, Record, TaskTypes
<1>16. ASSUME NEW p \in Tasks, AdapterFails(p) PROVE Keeps(p)
  BY <1>b, <1>16 DEF AdapterFails, Goto, Record, TaskTypes
<1>17. ASSUME NEW p \in Tasks, AdapterSucceeds(p) PROVE Keeps(p)
  BY <1>b, <1>17 DEF AdapterSucceeds, Goto, Record, TaskTypes
<1>18. ASSUME NEW p \in Tasks, BeginValidation(p) PROVE Keeps(p)
  BY <1>b, <1>18 DEF BeginValidation, Goto, Record, TaskTypes
<1>19. ASSUME NEW p \in Tasks, ValidationConfirms(p) PROVE Keeps(p)
  BY <1>b, <1>19 DEF ValidationConfirms, Goto, Record, TaskTypes
<1>20. ASSUME NEW p \in Tasks, ValidationFails(p) PROVE Keeps(p)
  BY <1>b, <1>20 DEF ValidationFails, Goto, Record, TaskTypes
<1>21. ASSUME NEW p \in Tasks, CommitExecution(p) PROVE Keeps(p)
  BY <1>b, <1>21 DEF CommitExecution, Goto, TaskTypes
<1>22. ASSUME NEW p \in Tasks, CommitReap(p) PROVE Keeps(p)
  BY <1>b, <1>22 DEF CommitReap, Goto, TaskTypes
<1>23. ASSUME NEW p \in Tasks, CommitSweep(p) PROVE Keeps(p)
  BY <1>b, <1>23 DEF CommitSweep, Goto, TaskTypes
<1>24. ASSUME NEW p \in Tasks, ReapOne(p) PROVE Keeps(p)
  BY <1>b, <1>24 DEF ReapOne, TaskTypes
<1>25. ASSUME NEW p \in Tasks, SweepOne(p) PROVE Keeps(p)
  BY <1>b, <1>25 DEF SweepOne, TaskTypes
<1>26. ASSUME NEW p \in Tasks, ReapStoodDown(p) PROVE Keeps(p)
  BY <1>b, <1>26 DEF ReapStoodDown, TaskTypes
<1>27. ASSUME NEW p \in Tasks, SweepStoodDown(p) PROVE Keeps(p)
  BY <1>b, <1>27 DEF SweepStoodDown, TaskTypes
<1>28. ASSUME NEW p \in Tasks, TransactionFails(p) PROVE Keeps(p)
  BY <1>b, <1>28 DEF TransactionFails, Goto, Interrupt, TaskTypes
<1>29. ASSUME NEW p \in Tasks, Crash(p) PROVE Keeps(p)
  BY <1>b, <1>29 DEF Crash, Goto, Interrupt, TaskTypes
<1>30. ASSUME NEW p \in Tasks, InlineWaitElapses(p) PROVE Keeps(p)
  BY <1>b, <1>30 DEF InlineWaitElapses, Goto, Interrupt, TaskTypes
<1>31. ASSUME NEW p \in Tasks, StopTimesOut(p) PROVE Keeps(p)
  BY <1>b, <1>31 DEF StopTimesOut, Goto, Interrupt, TaskTypes
<1>32. ASSUME NEW i \in Invocations, NEW p \in Callers, CreateInline(p, i)
      PROVE  Keeps(p)
  BY <1>b, <1>32 DEF CreateInline, Goto, TaskTypes, Tasks
<1>33. ASSUME NEW p \in Tasks, StartReap(p) PROVE \A q \in Tasks : CandInv(q)'
  <2> DEFINE R == FirstByLease({j \in Invocations :
                    state[j] \in IN_FLIGHT_STATES /\ appExpired[j]}, ReapLimit)
  <2>1. R \subseteq Invocations /\ \A i \in R : state[i] \in IN_FLIGHT_STATES
    BY DEF FirstByLease
  <2>2. \A i \in R : state[i] = "EXECUTING"
    BY <1>a, <2>1 DEF CoreInv, RowInv, Committed, Queued, Outcomes,
                      IN_FLIGHT_STATES
  <2>3. /\ pc'[p] = "reaping" /\ cand'[p] = {Seen(i) : i \in R}
        /\ \A q \in Tasks \ {p} : pc'[q] = pc[q] /\ cand'[q] = cand[q]
    BY <1>b, <1>33 DEF StartReap, Goto, TaskTypes
  <2> HIDE DEF R
  <2>4. \A c \in cand'[p] : c.state = "EXECUTING"
    BY <2>2, <2>3 DEF Seen
  <2>5. QED
    BY <1>a, <2>3, <2>4 DEF CandInv
<1>34. ASSUME NEW p \in Tasks, StartSweep(p) PROVE \A q \in Tasks : CandInv(q)'
  <2> DEFINE R == {j \in FirstById(
                     {k \in ApprovalRequired : state[k] \in Queued}, SweepLimit)
                       : lapsed[j]}
  <2>1. \A i \in R : state[i] \in Queued
    BY DEF FirstById
  <2>2. /\ pc'[p] = "sweeping" /\ cand'[p] = {Seen(i) : i \in R}
        /\ \A q \in Tasks \ {p} : pc'[q] = pc[q] /\ cand'[q] = cand[q]
    BY <1>b, <1>34 DEF StartSweep, Goto, TaskTypes
  <2> HIDE DEF R
  <2>3. \A c \in cand'[p] : c.state \in Queued
    BY <2>1, <2>2 DEF Seen
  <2>4. QED
    BY <1>a, <2>2, <2>3 DEF CandInv
<1>35. ASSUME NEW i \in Invocations, Create(i) PROVE UNCHANGED <<pc, cand>>
  BY <1>35 DEF Create
<1>36. ASSUME NEW i \in Invocations, Approve(i) PROVE UNCHANGED <<pc, cand>>
  BY <1>36 DEF Approve
<1>37. ASSUME NEW i \in Invocations, Deny(i) PROVE UNCHANGED <<pc, cand>>
  BY <1>37 DEF Deny
<1>38. ASSUME NEW i \in Invocations, Cancel(i) PROVE UNCHANGED <<pc, cand>>
  BY <1>38 DEF Cancel
<1>39. ASSUME NEW i \in Invocations, Tamper(i) PROVE UNCHANGED <<pc, cand>>
  BY <1>39 DEF Tamper
<1>40. ASSUME NEW i \in Invocations, LeaseExpiresOnServer(i) PROVE UNCHANGED <<pc, cand>>
  BY <1>40 DEF LeaseExpiresOnServer
<1>41. ASSUME NEW i \in Invocations, LeaseExpiresForReaper(i) PROVE UNCHANGED <<pc, cand>>
  BY <1>41 DEF LeaseExpiresForReaper
<1>42. ASSUME NEW i \in Invocations, WindowLapses(i) PROVE UNCHANGED <<pc, cand>>
  BY <1>42 DEF WindowLapses
<1>43. ASSUME NEW i \in Invocations, TargetActs(i) PROVE UNCHANGED <<pc, cand>>
  BY <1>43 DEF TargetActs
<1>44. ASSUME NEW from, NEW to, SetLifecycle(from, to) PROVE UNCHANGED <<pc, cand>>
  BY <1>44 DEF SetLifecycle
<1>45. ASSUME UNCHANGED vars PROVE UNCHANGED <<pc, cand>>
  BY <1>45 DEF vars
<1>d. ASSUME UNCHANGED <<pc, cand>> PROVE \A q \in Tasks : CandInv(q)'
  BY <1>a, <1>d DEF CandInv
<1> HIDE DEF Keeps
<1>46. QED
  BY <1>1, <1>c, <1>d, <1>2, <1>3, <1>4, <1>5, <1>6, <1>7, <1>8, <1>9,
     <1>10, <1>11, <1>12, <1>13, <1>14, <1>15, <1>16, <1>17, <1>18, <1>19,
     <1>20, <1>21, <1>22, <1>23, <1>24, <1>25, <1>26, <1>27, <1>28, <1>29,
     <1>30, <1>31, <1>32, <1>33, <1>34, <1>35, <1>36, <1>37, <1>38, <1>39,
     <1>40, <1>41, <1>42, <1>43, <1>44, <1>45
     DEF Next, Step, Disturb, People, Time, DisableTool, EnableTool, RetireTool,
         Tasks

(* The initial state satisfies the inductive invariant.                    *)
LEMMA InitInv == Init => IInv
<1>1. SUFFICES ASSUME Init PROVE IInv
  OBVIOUS
<1>2. TypeOK
  BY <1>1, ConstantsAssumption
     DEF Init, TypeOK, RowTypes, TaskTypes, WorldTypes, Invocations, Tasks,
         InvocationState, GateDecision, ToolLifecycle, PCs
<1>3. ASSUME NEW i \in Invocations PROVE RowInv(i) /\ LockInv(i)
  <2>1. CallBound(i) \in Nat
    BY ConstantsAssumption DEF CallBound
  <2>2. RowInv(i)
    BY <1>1, <1>3, <2>1 DEF Init, RowInv, Committed, Queued, Outcomes
  <2>3. LockInv(i)
    BY <1>1, <1>3, ConstantsAssumption DEF Init, LockInv, Tasks
  <2>4. QED
    BY <2>2, <2>3
<1>4. ASSUME NEW p \in Tasks PROVE JobInv(p) /\ DispatchInv(p) /\ CandInv(p)
  <2>1. pc[p] \in {"poll", "idle"}
    BY <1>1, <1>4 DEF Init
  <2>2. QED
    BY <1>1, <1>4, <2>1
       DEF Init, JobInv, DispatchInv, CandInv, Active, Dispatching
<1>5. LeaseInv
  BY <1>1 DEF Init, LeaseInv
<1>6. QED
  BY <1>2, <1>3, <1>4, <1>5 DEF IInv, CoreInv

(***************************************************************************)
(* The inductive invariant holds in every reachable state, for any number  *)
(* of rows, workers and inline callers, any attempt limit, any batch       *)
(* limits and any number of crashes, stops and lifecycle changes.          *)
(***************************************************************************)
THEOREM Invariance == Spec => []IInv
<1>1. Init => IInv
  BY InitInv
<1>2. IInv /\ [Next]_vars => IInv'
  BY TypeStep, CoreStep, CandStep DEF IInv
<1>3. QED
  BY <1>1, <1>2, PTL DEF Spec

(* Every column, clock, task variable and counter keeps its type.          *)
THEOREM TypeCorrect == Spec => []TypeOK
<1>1. IInv => TypeOK
  BY DEF IInv
<1>2. QED
  BY <1>1, Invariance, PTL

(***************************************************************************)
(* A task calling the adapter, or validating, owns the row: the committed  *)
(* state is EXECUTING under the task's own lease and it holds the row lock *)
(* (record_final_gate_if_owned).                                           *)
(***************************************************************************)
THEOREM DispatchOwnsRowTheorem == Spec => []DispatchOwnsRow
<1>1. IInv => DispatchOwnsRow
  BY DEF IInv, CoreInv, JobInv, DispatchInv, Active, DispatchOwnsRow
<1>2. QED
  BY <1>1, Invariance, PTL

(* A committed row carries a lease exactly while it is EXECUTING.          *)
THEOREM LeaseTheorem == Spec => []LeaseExactlyInFlight
<1>1. IInv => LeaseExactlyInFlight
  BY DEF IInv, CoreInv, RowInv, LeaseExactlyInFlight
<1>2. QED
  BY <1>1, Invariance, PTL

(* REJECTED, DENIED, CANCELLED and EXPIRED mean nothing was attempted.     *)
THEOREM UntouchedTheorem == Spec => []UntouchedOutcomes
<1>1. IInv => UntouchedOutcomes
  BY DEF IInv, CoreInv, RowInv, UntouchedOutcomes
<1>2. QED
  BY <1>1, Invariance, PTL

(***************************************************************************)
(* One claim per row, and the target of a tool without retries is changed  *)
(* at most once, a retrying tool's at most max_attempts times: landings    *)
(* never exceed calls, and calls never exceed the attempts of the single   *)
(* claim.                                                                  *)
(***************************************************************************)
THEOREM AtMostOnceTheorem == Spec => []ActsAtMostOnce
<1>1. ASSUME IInv PROVE ActsAtMostOnce
  <2>1. ASSUME NEW i \in Invocations
        PROVE  /\ attempt_count[i] <= 1
               /\ landings[i] <= IF i \in Retryable THEN MaxAttempts ELSE 1
    <3>1. RowInv(i) /\ calls[i] \in Nat /\ landings[i] \in Nat
      BY <1>1, <2>1 DEF IInv, CoreInv, TypeOK, WorldTypes
    <3>2. QED
      BY <3>1, ConstantsAssumption DEF RowInv, CallBound
  <2>2. QED
    BY <2>1 DEF ActsAtMostOnce
<1>2. QED
  BY <1>1, Invariance, PTL

-----------------------------------------------------------------------------
(***************************************************************************)
(* ToolExecution implements InvocationLifecycle, and terminal rows stay    *)
(* closed.  Both follow from the inductive invariant: only a claim, a      *)
(* human decision, a call and the three publishing commits are visible in  *)
(* the abstract state; everything else stutters.                           *)
(***************************************************************************)

(* The abstract variable `touched', as the refinement mapping defines it.  *)
Touched == [i \in Invocations |-> calls[i] > 0]

(* A step that leaves the committed states and the calls alone stutters.   *)
LEMMA Stutters ==
  ASSUME UNCHANGED <<state, calls>>
  PROVE  UNCHANGED Lifecycle!lifecycleVars
  BY DEF Lifecycle!lifecycleVars

(* A committed move of one row closes the singleton.                       *)
LEMMA MoveCloses ==
  ASSUME TypeOK, NEW i \in Invocations, NEW s,
         state' = [state EXCEPT ![i] = s], UNCHANGED calls
  PROVE  Lifecycle!Close({i}, s)
<1>1. state' = [j \in Invocations |-> IF j \in {i} THEN s ELSE state[j]]
  BY DEF TypeOK, RowTypes
<1>2. QED
  BY <1>1 DEF Lifecycle!Close

(* What a committing task publishes: the rows it locked, all with one      *)
(* outcome s.                                                              *)
LEMMA PublishCloses ==
  ASSUME TypeOK, NEW p \in Tasks, NEW s, Publish(p), UNCHANGED calls,
         \A i \in Invocations : lock[i] = p => draft[i] = s
  PROVE  Lifecycle!Close({i \in Invocations : lock[i] = p}, s)
<1>1. state' = [j \in Invocations |->
                  IF j \in {i \in Invocations : lock[i] = p}
                    THEN s ELSE state[j]]
  BY DEF Publish
<1>2. QED
  BY <1>1 DEF Lifecycle!Close

(***************************************************************************)
(* Every step of the detailed specification is a step of the abstract one  *)
(* or a stutter.                                                           *)
(***************************************************************************)
LEMMA LifecycleStep ==
  IInv /\ [Next]_vars => [Lifecycle!LNext]_(Lifecycle!lifecycleVars)
<1>1. SUFFICES ASSUME IInv, [Next]_vars
               PROVE  [Lifecycle!LNext]_(Lifecycle!lifecycleVars)
  OBVIOUS
<1>a. TypeOK /\ CoreInv
  BY <1>1 DEF IInv
<1> DEFINE Maps == [Lifecycle!LNext]_(Lifecycle!lifecycleVars)
<1>b. ASSUME UNCHANGED <<state, calls>> PROVE Maps
  BY <1>b, Stutters
<1> USE DEF rowVars, targetVars
<1>2. ASSUME NEW p \in Tasks, Poll(p) PROVE UNCHANGED <<state, calls>>
  BY <1>2 DEF Poll
<1>3. ASSUME NEW p \in Tasks, EndBatch(p) PROVE UNCHANGED <<state, calls>>
  BY <1>3 DEF EndBatch
<1>4. ASSUME NEW p \in Tasks, SkipNotReady(p) PROVE UNCHANGED <<state, calls>>
  BY <1>4 DEF SkipNotReady
<1>5. ASSUME NEW p \in Tasks, EvaluateGate(p) PROVE UNCHANGED <<state, calls>>
  BY <1>5 DEF EvaluateGate
<1>6. ASSUME NEW p \in Tasks, AbandonLostLease(p) PROVE UNCHANGED <<state, calls>>
  BY <1>6 DEF AbandonLostLease
<1>7. ASSUME NEW p \in Tasks, AdapterRetries(p) PROVE UNCHANGED <<state, calls>>
  BY <1>7 DEF AdapterRetries
<1>8. ASSUME NEW p \in Tasks, StartReap(p) PROVE UNCHANGED <<state, calls>>
  BY <1>8 DEF StartReap
<1>9. ASSUME NEW p \in Tasks, ReapStoodDown(p) PROVE UNCHANGED <<state, calls>>
  BY <1>9 DEF ReapStoodDown
<1>10. ASSUME NEW p \in Tasks, StartSweep(p) PROVE UNCHANGED <<state, calls>>
  BY <1>10 DEF StartSweep
<1>11. ASSUME NEW p \in Tasks, SweepStoodDown(p) PROVE UNCHANGED <<state, calls>>
  BY <1>11 DEF SweepStoodDown
<1>12. ASSUME NEW p \in Tasks, LoopEnds(p) PROVE UNCHANGED <<state, calls>>
  BY <1>12 DEF LoopEnds
<1>13. ASSUME NEW p \in Tasks, Start(p) PROVE UNCHANGED <<state, calls>>
  BY <1>13 DEF Start
<1>14. ASSUME NEW p \in Tasks, Stop(p) PROVE UNCHANGED <<state, calls>>
  BY <1>14 DEF Stop
<1>15. ASSUME NEW p \in Tasks, GateAllows(p) PROVE UNCHANGED <<state, calls>>
  BY <1>15 DEF GateAllows, Write
<1>16. ASSUME NEW p \in Tasks, GateDenies(p) PROVE UNCHANGED <<state, calls>>
  BY <1>16 DEF GateDenies, Write
<1>17. ASSUME NEW p \in Tasks, AdapterTimesOut(p) PROVE UNCHANGED <<state, calls>>
  BY <1>17 DEF AdapterTimesOut, Record, Write
<1>18. ASSUME NEW p \in Tasks, AdapterFails(p) PROVE UNCHANGED <<state, calls>>
  BY <1>18 DEF AdapterFails, Record, Write
<1>19. ASSUME NEW p \in Tasks, AdapterSucceeds(p) PROVE UNCHANGED <<state, calls>>
  BY <1>19 DEF AdapterSucceeds, Record, Write
<1>20. ASSUME NEW p \in Tasks, BeginValidation(p) PROVE UNCHANGED <<state, calls>>
  BY <1>20 DEF BeginValidation, Record, Write
<1>21. ASSUME NEW p \in Tasks, ValidationConfirms(p) PROVE UNCHANGED <<state, calls>>
  BY <1>21 DEF ValidationConfirms, Record, Write
<1>22. ASSUME NEW p \in Tasks, ValidationFails(p) PROVE UNCHANGED <<state, calls>>
  BY <1>22 DEF ValidationFails, Record, Write
<1>23. ASSUME NEW p \in Tasks, ReapOne(p) PROVE UNCHANGED <<state, calls>>
  BY <1>23 DEF ReapOne, Write
<1>24. ASSUME NEW p \in Tasks, SweepOne(p) PROVE UNCHANGED <<state, calls>>
  BY <1>24 DEF SweepOne, Write
<1>25. ASSUME NEW p \in Tasks, TransactionFails(p) PROVE UNCHANGED <<state, calls>>
  BY <1>25 DEF TransactionFails, Interrupt, Rollback
<1>26. ASSUME NEW p \in Tasks, Crash(p) PROVE UNCHANGED <<state, calls>>
  BY <1>26 DEF Crash, Interrupt, Rollback
<1>27. ASSUME NEW p \in Tasks, InlineWaitElapses(p) PROVE UNCHANGED <<state, calls>>
  BY <1>27 DEF InlineWaitElapses, Interrupt, Rollback
<1>28. ASSUME NEW p \in Tasks, StopTimesOut(p) PROVE UNCHANGED <<state, calls>>
  BY <1>28 DEF StopTimesOut, Interrupt, Rollback
<1>29. ASSUME NEW p \in Tasks, Claim(p) PROVE Maps
  <2>1. PICK i \in Invocations :
          state[i] = "READY" /\ state' = [state EXCEPT ![i] = "EXECUTING"]
    BY <1>29 DEF Claim
  <2>2. UNCHANGED calls
    BY <1>29 DEF Claim
  <2>3. Lifecycle!Close({i}, "EXECUTING")
    BY <1>a, <2>1, <2>2, MoveCloses
  <2>4. Lifecycle!Take(i)
    BY <2>1, <2>3 DEF Lifecycle!Take
  <2>5. QED
    BY <2>4 DEF Lifecycle!LNext
<1>30. ASSUME NEW p \in Tasks, CallAdapter(p) PROVE Maps
  <2>1. PICK i \in Invocations : i = job[p]
    BY <1>a, <1>30 DEF CallAdapter, CoreInv, JobInv, Active, Dispatching
  <2>2. state[i] = "EXECUTING"
    BY <1>a, <1>30, <2>1 DEF CallAdapter, CoreInv, DispatchInv, Dispatching
  <2>3. calls' = [calls EXCEPT ![i] = @ + 1] /\ UNCHANGED state
    BY <1>30, <2>1 DEF CallAdapter
  <2>4. /\ calls'[i] > 0
        /\ \A j \in Invocations \ {i} : calls'[j] = calls[j]
    BY <1>a, <2>3 DEF TypeOK, WorldTypes
  <2>5. Touched' = [Touched EXCEPT ![i] = TRUE]
    BY <2>4, Zenon DEF Touched
  <2>6. Lifecycle!Touch(i)
    BY <2>2, <2>3, <2>5 DEF Lifecycle!Touch, Touched
  <2>7. QED
    BY <2>6 DEF Lifecycle!LNext
<1>31. ASSUME NEW p \in Tasks, CommitExecution(p) PROVE Maps
  <2>0. PICK i \in Invocations, s \in InvocationState : i = job[p] /\ s = draft[i]
    BY <1>a, <1>31 DEF CommitExecution, CoreInv, JobInv, DispatchInv, Active,
                     Dispatching, Outcomes, InvocationState
  <2>1. /\ i \in Invocations /\ state[i] = "EXECUTING" /\ lock[i] = p
        /\ calls[i] = tries[p]
        /\ \/ s = "EXPIRED" /\ calls[i] = 0
           \/ s \in Outcomes /\ calls[i] > 0
    BY <1>a, <1>31, <2>0 DEF CommitExecution, CoreInv, JobInv, DispatchInv,
                     Active, Dispatching
  <2>2. \A j \in Invocations : lock[j] = p => j = i
    BY <1>a, <1>31, <2>0 DEF CommitExecution, CoreInv, LockInv
  <2>3. Publish(p) /\ UNCHANGED calls
    BY <1>31 DEF CommitExecution
  <2>4. {j \in Invocations : lock[j] = p} = {i}
    BY <2>1, <2>2
  <2>5. Lifecycle!Close({i}, s)
    BY <1>a, <2>0, <2>2, <2>3, <2>4, PublishCloses
  <2>6. CASE s = "EXPIRED" /\ calls[i] = 0
    <3>1. ~(calls[i] > 0)
      BY <2>6
    <3>2. Lifecycle!Refuse(i)
      BY <2>1, <2>5, <3>1, Zenon DEF Lifecycle!Refuse
    <3>3. QED
      BY <2>1, <3>2 DEF Lifecycle!LNext
  <2>7. CASE s \in Outcomes /\ calls[i] > 0
    <3>1. Lifecycle!Finish(i)
      BY <2>1, <2>5, <2>7 DEF Lifecycle!Finish, Outcomes
    <3>2. QED
      BY <2>1, <3>1 DEF Lifecycle!LNext
  <2>8. QED
    BY <2>1, <2>6, <2>7
<1>32. ASSUME NEW p \in Tasks, CommitReap(p) PROVE Maps
  <2> DEFINE S == {i \in Invocations : lock[i] = p}
  <2>1. \A i \in S : state[i] = "EXECUTING" /\ draft[i] = "EXECUTION_INDETERMINATE"
    BY <1>a, <1>32 DEF CommitReap, CoreInv, LockInv, Dispatching
  <2>2. Publish(p) /\ UNCHANGED calls
    BY <1>32 DEF CommitReap
  <2>3. Lifecycle!Close(S, "EXECUTION_INDETERMINATE")
    BY <1>a, <2>1, <2>2, PublishCloses
  <2>4. Lifecycle!Lose(S)
    BY <2>1, <2>3 DEF Lifecycle!Lose, Queued
  <2>5. QED
    BY <2>4 DEF Lifecycle!LNext
<1>33. ASSUME NEW p \in Tasks, CommitSweep(p) PROVE Maps
  <2> DEFINE S == {i \in Invocations : lock[i] = p}
  <2>1. \A i \in S : state[i] \in Queued /\ draft[i] = "EXPIRED"
    BY <1>a, <1>33 DEF CommitSweep, CoreInv, LockInv, Dispatching
  <2>2. Publish(p) /\ UNCHANGED calls
    BY <1>33 DEF CommitSweep
  <2>3. Lifecycle!Close(S, "EXPIRED")
    BY <1>a, <2>1, <2>2, PublishCloses
  <2>4. Lifecycle!Lapse(S)
    BY <2>1, <2>3 DEF Lifecycle!Lapse, Queued
  <2>5. QED
    BY <2>4 DEF Lifecycle!LNext
<1>34. ASSUME NEW i \in Invocations, Create(i) PROVE Maps
  <2>1. /\ state[i] = "NONE" /\ state' = [state EXCEPT ![i] = Admitted(i)]
        /\ UNCHANGED calls
    BY <1>34 DEF Create, NextRequest, Move
  <2>2. Lifecycle!Close({i}, Admitted(i))
    BY <1>a, <2>1, MoveCloses
  <2>3. Lifecycle!Open(i)
    BY <2>1, <2>2 DEF Lifecycle!Open, Admitted
  <2>4. QED
    BY <2>3 DEF Lifecycle!LNext
<1>35. ASSUME NEW i \in Invocations, NEW p \in Callers, CreateInline(p, i) PROVE Maps
  <2>1. /\ state[i] = "NONE" /\ state' = [state EXCEPT ![i] = Admitted(i)]
        /\ UNCHANGED calls
    BY <1>35 DEF CreateInline, NextRequest, Move
  <2>2. Lifecycle!Close({i}, Admitted(i))
    BY <1>a, <2>1, MoveCloses
  <2>3. Lifecycle!Open(i)
    BY <2>1, <2>2 DEF Lifecycle!Open, Admitted
  <2>4. QED
    BY <2>3 DEF Lifecycle!LNext
<1>36. ASSUME NEW i \in Invocations, Approve(i) PROVE Maps
  <2>1. state' = [state EXCEPT ![i] = "READY"] /\ UNCHANGED calls
    BY <1>36 DEF Approve, Move
  <2>2. Lifecycle!Close({i}, "READY")
    BY <1>a, <2>1, MoveCloses
  <2>3. Lifecycle!Decide(i)
    BY <1>36, <2>2 DEF Approve, Queued, Lifecycle!Decide
  <2>4. QED
    BY <2>3 DEF Lifecycle!LNext
<1>37. ASSUME NEW i \in Invocations, Deny(i) PROVE Maps
  <2>1. state' = [state EXCEPT ![i] = "DENIED"] /\ UNCHANGED calls
    BY <1>37 DEF Deny, Move
  <2>2. Lifecycle!Close({i}, "DENIED")
    BY <1>a, <2>1, MoveCloses
  <2>3. Lifecycle!Decide(i)
    BY <1>37, <2>2 DEF Deny, Queued, Lifecycle!Decide
  <2>4. QED
    BY <2>3 DEF Lifecycle!LNext
<1>38. ASSUME NEW i \in Invocations, Cancel(i) PROVE Maps
  <2>1. state' = [state EXCEPT ![i] = "CANCELLED"] /\ UNCHANGED calls
    BY <1>38 DEF Cancel, Move
  <2>2. Lifecycle!Close({i}, "CANCELLED")
    BY <1>a, <2>1, MoveCloses
  <2>3. Lifecycle!Withdraw(i)
    BY <1>38, <2>2 DEF Cancel, Queued, Lifecycle!Withdraw
  <2>4. QED
    BY <2>3 DEF Lifecycle!LNext
<1>39. ASSUME NEW i \in Invocations, Tamper(i) PROVE UNCHANGED <<state, calls>>
  BY <1>39 DEF Tamper
<1>40. ASSUME NEW i \in Invocations, LeaseExpiresOnServer(i) PROVE UNCHANGED <<state, calls>>
  BY <1>40 DEF LeaseExpiresOnServer
<1>41. ASSUME NEW i \in Invocations, LeaseExpiresForReaper(i) PROVE UNCHANGED <<state, calls>>
  BY <1>41 DEF LeaseExpiresForReaper
<1>42. ASSUME NEW i \in Invocations, WindowLapses(i) PROVE UNCHANGED <<state, calls>>
  BY <1>42 DEF WindowLapses
<1>43. ASSUME NEW i \in Invocations, TargetActs(i) PROVE UNCHANGED <<state, calls>>
  BY <1>43 DEF TargetActs
<1>44. ASSUME NEW from, NEW to, SetLifecycle(from, to)
      PROVE  UNCHANGED <<state, calls>>
  BY <1>44 DEF SetLifecycle
<1>45. ASSUME UNCHANGED vars PROVE UNCHANGED <<state, calls>>
  BY <1>45 DEF vars
<1> HIDE DEF Maps
<1>c. Maps
  BY <1>1, <1>b, <1>2, <1>3, <1>4, <1>5, <1>6, <1>7, <1>8, <1>9, <1>10,
     <1>11, <1>12, <1>13, <1>14, <1>15, <1>16, <1>17, <1>18, <1>19, <1>20,
     <1>21, <1>22, <1>23, <1>24, <1>25, <1>26, <1>27, <1>28, <1>29, <1>30,
     <1>31, <1>32, <1>33, <1>34, <1>35, <1>36, <1>37, <1>38, <1>39, <1>40,
     <1>41, <1>42, <1>43, <1>44, <1>45
     DEF Next, Step, Disturb, People, Time, DisableTool, EnableTool, RetireTool
<1>d. QED
  BY <1>c DEF Maps

(***************************************************************************)
(* The framework implements its abstract lifecycle: whatever workers,      *)
(* reapers, crashes and clocks do, a committed row only moves along the    *)
(* abstract actions, the target is touched only while the row says         *)
(* EXECUTING, EXPIRED after a claim means untouched and a known outcome    *)
(* means touched.                                                          *)
(***************************************************************************)
THEOREM Refinement == Spec => ImplementsLifecycle
<1>1. Init => Lifecycle!LInit
  <2>1. ASSUME Init PROVE Touched = [i \in Invocations |-> FALSE]
    <3>1. \A i \in Invocations : (calls[i] > 0) = FALSE
      BY <2>1 DEF Init
    <3>2. QED
      BY <3>1, Zenon DEF Touched
  <2>2. QED
    BY <2>1 DEF Init, Lifecycle!LInit, Touched
<1>2. IInv /\ [Next]_vars => [Lifecycle!LNext]_(Lifecycle!lifecycleVars)
  BY LifecycleStep
<1>3. QED
  BY <1>1, <1>2, Invariance, PTL DEF Spec, ImplementsLifecycle, Lifecycle!LSpec

(* A call is made only for a row whose committed state is EXECUTING.       *)
LEMMA CallsWhileExecuting ==
  ASSUME IInv, [Next]_vars, NEW i \in Invocations, calls'[i] # calls[i]
  PROVE  state[i] = "EXECUTING"
<1> USE DEF targetVars
<1>1. PICK p \in Tasks : CallAdapter(p)
  <2>1. ASSUME NEW p \in Tasks, Step(p), ~CallAdapter(p) PROVE UNCHANGED calls
    BY <2>1 DEF Step, Poll, EndBatch, SkipNotReady, Claim, EvaluateGate,
         GateAllows, GateDenies, AbandonLostLease, AdapterTimesOut,
         AdapterRetries, AdapterFails, AdapterSucceeds, BeginValidation,
         ValidationConfirms, ValidationFails, Record, CommitExecution,
         StartReap, ReapOne, ReapStoodDown, CommitReap, StartSweep, SweepOne,
         SweepStoodDown, CommitSweep, LoopEnds, Start
  <2>2. ASSUME NEW p \in Tasks, Disturb(p) PROVE UNCHANGED calls
    BY <2>2 DEF Disturb, TransactionFails, Crash, InlineWaitElapses, Stop,
         StopTimesOut, Interrupt
  <2>3. ASSUME NEW j \in Invocations, People(j) \/ Time(j)
        PROVE  UNCHANGED calls
    BY <2>3 DEF People, Time, Create, CreateInline, Approve, Deny, Cancel,
         Tamper, LeaseExpiresOnServer, LeaseExpiresForReaper, WindowLapses,
         TargetActs
  <2>4. ASSUME DisableTool \/ EnableTool \/ RetireTool PROVE UNCHANGED calls
    BY <2>4 DEF DisableTool, EnableTool, RetireTool, SetLifecycle
  <2>5. ASSUME UNCHANGED vars PROVE UNCHANGED calls
    BY <2>5 DEF vars
  <2>6. QED
    BY <2>1, <2>2, <2>3, <2>4, <2>5 DEF Next
<1>2. job[p] \in Invocations /\ state[job[p]] = "EXECUTING"
  BY <1>1 DEF IInv, CallAdapter, CoreInv, JobInv, DispatchInv, Active,
              Dispatching
<1>3. i = job[p]
  BY <1>1 DEF CallAdapter, IInv, TypeOK, WorldTypes
<1>4. QED
  BY <1>2, <1>3

(***************************************************************************)
(* A terminal row is never moved and its target never called again,        *)
(* whoever still holds a stale lease, candidate list or batch.             *)
(***************************************************************************)
THEOREM TerminalIsFinalTheorem == Spec => TerminalIsFinal
<1>1. ASSUME IInv, [Next]_vars, NEW i \in Invocations,
             state[i] \in TERMINAL_STATES
      PROVE  state'[i] = state[i] /\ calls'[i] = calls[i]
  <2>1. state[i] \notin {"NONE", "AWAITING_APPROVAL", "READY", "EXECUTING"}
    BY <1>1 DEF TERMINAL_STATES
  <2>2. calls'[i] = calls[i]
    BY <1>1, <2>1, CallsWhileExecuting
  <2>3. CASE UNCHANGED Lifecycle!lifecycleVars
    BY <2>2, <2>3 DEF Lifecycle!lifecycleVars
  <2>4. CASE Lifecycle!LNext
    <3>1. ASSUME NEW S \in SUBSET Invocations, NEW s, Lifecycle!Close(S, s),
                 i \notin S
          PROVE  state'[i] = state[i]
      BY <1>1, <3>1 DEF Lifecycle!Close
    <3>2. ASSUME NEW j \in Invocations,
                 \/ Lifecycle!Open(j) \/ Lifecycle!Decide(j)
                 \/ Lifecycle!Withdraw(j) \/ Lifecycle!Take(j)
                 \/ Lifecycle!Refuse(j) \/ Lifecycle!Finish(j)
          PROVE  state'[i] = state[i]
      <4>1. /\ i # j
            /\ \E s : Lifecycle!Close({j}, s)
        BY <2>1, <3>2 DEF Lifecycle!Open, Lifecycle!Decide,
             Lifecycle!Withdraw, Lifecycle!Take, Lifecycle!Refuse,
             Lifecycle!Finish
      <4>2. QED
        BY <3>1, <3>2, <4>1
    <3>3. ASSUME NEW j \in Invocations, Lifecycle!Touch(j)
          PROVE  state'[i] = state[i]
      BY <3>3 DEF Lifecycle!Touch
    <3>4. ASSUME NEW S \in SUBSET Invocations,
                 Lifecycle!Lapse(S) \/ Lifecycle!Lose(S)
          PROVE  state'[i] = state[i]
      <4>1. i \notin S /\ \E s : Lifecycle!Close(S, s)
        BY <2>1, <3>4 DEF Lifecycle!Lapse, Lifecycle!Lose
      <4>2. QED
        BY <3>1, <4>1
    <3>5. QED
      BY <2>2, <2>4, <3>2, <3>3, <3>4 DEF Lifecycle!LNext
  <2>5. QED
    BY <1>1, <2>2, <2>3, <2>4, LifecycleStep
<1>2. IInv /\ [Next]_vars =>
        [\A i \in Invocations : state[i] \in TERMINAL_STATES =>
           state'[i] = state[i] /\ calls'[i] = calls[i]]_vars
  BY <1>1
<1>3. QED
  BY <1>2, Invariance, PTL DEF Spec, TerminalIsFinal

(***************************************************************************)
(* The table of legal transitions and the actions agree.                   *)
(***************************************************************************)

(* States a transaction may pass through and leave before it commits.      *)
Passing == {"AUTHORIZED", "APPROVED", "EXECUTED", "VALIDATING"}

(* A transaction takes a row from s to t by moves that are legal one by    *)
(* one; a new row is recorded as REQUESTED.                                *)
LegalPath(s, t) ==
  LET from == IF s = "NONE" THEN "REQUESTED" ELSE s
  IN  \/ is_legal_transition(from, t)
      \/ \E u \in Passing :
           /\ is_legal_transition(from, u)
           /\ \/ is_legal_transition(u, t)
              \/ \E v \in Passing : is_legal_transition(u, v) /\ is_legal_transition(v, t)

(* The moves of the abstract specification have legal paths.               *)
LEMMA LegalPaths ==
  /\ \A t \in {"REJECTED", "AWAITING_APPROVAL", "READY"} : LegalPath("NONE", t)
  /\ \A t \in {"READY", "DENIED"} : LegalPath("AWAITING_APPROVAL", t)
  /\ \A s \in {"AWAITING_APPROVAL", "READY"}, t \in {"CANCELLED", "EXPIRED"} :
       LegalPath(s, t)
  /\ LegalPath("READY", "EXECUTING")
  /\ \A t \in {"EXPIRED", "EXECUTION_INDETERMINATE", "SUCCEEDED", "FAILED",
              "TIMED_OUT", "VALIDATION_FAILED"} : LegalPath("EXECUTING", t)
<1> USE DEF is_legal_transition, LEGAL_TRANSITIONS
<1>1. \A t \in {"REJECTED", "AWAITING_APPROVAL", "READY"} : LegalPath("NONE", t)
  <2>1. is_legal_transition("REQUESTED", "REJECTED")
    OBVIOUS
  <2>2. /\ is_legal_transition("REQUESTED", "AUTHORIZED")
        /\ is_legal_transition("AUTHORIZED", "AWAITING_APPROVAL")
        /\ is_legal_transition("AUTHORIZED", "READY")
    OBVIOUS
  <2> HIDE DEF is_legal_transition
  <2> QED
    BY <2>1, <2>2 DEF LegalPath, Passing
<1>2. \A t \in {"READY", "DENIED"} : LegalPath("AWAITING_APPROVAL", t)
  <2>1. /\ is_legal_transition("AWAITING_APPROVAL", "APPROVED")
        /\ is_legal_transition("APPROVED", "READY")
        /\ is_legal_transition("AWAITING_APPROVAL", "DENIED")
    OBVIOUS
  <2> HIDE DEF is_legal_transition
  <2> QED
    BY <2>1 DEF LegalPath, Passing
<1>3. \A s \in {"AWAITING_APPROVAL", "READY"}, t \in {"CANCELLED", "EXPIRED"} :
         is_legal_transition(s, t)
  OBVIOUS
<1>4. is_legal_transition("READY", "EXECUTING")
  OBVIOUS
<1>5. \A t \in {"EXPIRED", "EXECUTION_INDETERMINATE", "FAILED", "TIMED_OUT"} :
         is_legal_transition("EXECUTING", t)
  OBVIOUS
<1>6. /\ is_legal_transition("EXECUTING", "EXECUTED")
      /\ is_legal_transition("EXECUTED", "SUCCEEDED")
      /\ is_legal_transition("EXECUTED", "VALIDATING")
      /\ is_legal_transition("VALIDATING", "VALIDATION_FAILED")
  OBVIOUS
<1> HIDE DEF is_legal_transition
<1>7. LegalPath("EXECUTING", "SUCCEEDED") /\ LegalPath("EXECUTING", "VALIDATION_FAILED")
  BY <1>6 DEF LegalPath, Passing
<1>8. /\ \A t \in {"EXPIRED", "EXECUTION_INDETERMINATE", "FAILED", "TIMED_OUT"} :
           LegalPath("EXECUTING", t)
      /\ LegalPath("READY", "EXECUTING")
      /\ \A s \in {"AWAITING_APPROVAL", "READY"}, t \in {"CANCELLED", "EXPIRED"} :
           LegalPath(s, t)
  BY <1>3, <1>4, <1>5 DEF LegalPath
<1> QED
  BY <1>1, <1>2, <1>7, <1>8

(***************************************************************************)
(* The table of LEGAL_TRANSITIONS is no narrower than what the services   *)
(* do: whatever a transaction makes of a committed row can be reached by   *)
(* moves of the table, passing only through states that are never          *)
(* committed on the way.                                                   *)
(***************************************************************************)
THEOREM MovesAreLegal ==
  Spec => [][\A i \in Invocations :
               state'[i] # state[i] => LegalPath(state[i], state'[i])]_vars
<1>1. ASSUME IInv, [Next]_vars, NEW i \in Invocations, state'[i] # state[i]
      PROVE  LegalPath(state[i], state'[i])
  <2>1. ASSUME NEW S \in SUBSET Invocations, NEW s, Lifecycle!Close(S, s)
        PROVE  i \in S /\ state'[i] = s
    BY <1>1, <2>1 DEF Lifecycle!Close
  <2>2. PICK j \in Invocations, S \in SUBSET Invocations :
          \/ Lifecycle!Open(j) \/ Lifecycle!Decide(j) \/ Lifecycle!Withdraw(j)
          \/ Lifecycle!Take(j) \/ Lifecycle!Touch(j) \/ Lifecycle!Refuse(j)
          \/ Lifecycle!Finish(j) \/ Lifecycle!Lapse(S) \/ Lifecycle!Lose(S)
    <3>1. [Lifecycle!LNext]_(Lifecycle!lifecycleVars)
      BY <1>1, LifecycleStep
    <3>2. ~UNCHANGED Lifecycle!lifecycleVars
      BY <1>1 DEF Lifecycle!lifecycleVars
    <3> QED
      BY <1>1, <3>1, <3>2 DEF Lifecycle!LNext
  <2>3. {j} \in SUBSET Invocations
    OBVIOUS
  <2>4. CASE Lifecycle!Open(j)
    BY <2>1, <2>3, <2>4, LegalPaths DEF Lifecycle!Open
  <2>5. CASE Lifecycle!Decide(j)
    BY <2>1, <2>3, <2>5, LegalPaths DEF Lifecycle!Decide
  <2>6. CASE Lifecycle!Withdraw(j)
    BY <2>1, <2>3, <2>6, LegalPaths DEF Lifecycle!Withdraw
  <2>7. CASE Lifecycle!Take(j)
    BY <2>1, <2>3, <2>7, LegalPaths DEF Lifecycle!Take
  <2>8. CASE Lifecycle!Touch(j)
    BY <1>1, <2>8 DEF Lifecycle!Touch
  <2>9. CASE Lifecycle!Refuse(j)
    BY <2>1, <2>3, <2>9, LegalPaths DEF Lifecycle!Refuse
  <2>10. CASE Lifecycle!Finish(j)
    BY <2>1, <2>3, <2>10, LegalPaths DEF Lifecycle!Finish
  <2>11. CASE Lifecycle!Lapse(S)
    BY <2>1, <2>11, LegalPaths DEF Lifecycle!Lapse
  <2>12. CASE Lifecycle!Lose(S)
    BY <2>1, <2>12, LegalPaths DEF Lifecycle!Lose
  <2> QED
    BY <2>2, <2>4, <2>5, <2>6, <2>7, <2>8, <2>9, <2>10, <2>11, <2>12
<1>2. ASSUME IInv, [Next]_vars
      PROVE  [\A i \in Invocations :
                state'[i] # state[i] => LegalPath(state[i], state'[i])]_vars
  BY <1>1, <1>2
<1> QED
  BY <1>2, Invariance, PTL DEF Spec

-----------------------------------------------------------------------------
(***************************************************************************)
(* The final gate and the sweeper                                          *)
(***************************************************************************)

(* A row's decision and whether it was barred, as committed.               *)
GateRow(i) ==
  /\ state[i] \in Queued \cup {"NONE", "EXECUTING", "EXECUTION_INDETERMINATE"}
       => final_gate[i] = "NULL"
  /\ state[i] \in Outcomes => final_gate[i] = "ALLOW"
  /\ state[i] = "EXPIRED" /\ attempt_count[i] > 0 => final_gate[i] = "DENY"
  /\ held[i] => lifecycle # "ACTIVE"
  /\ held[i] \/ tampered[i] => calls[i] = 0

(* The verdict in a task's memory is the one it is about to publish, and   *)
(* what it allowed nobody can bar any more: only queued rows are.          *)
GateTask(p) ==
  /\ pc[p] \in {"call", "calling", "validating"} => verdict[p] = "ALLOW"
  /\ pc[p] = "commit" => verdict[p] = IF draft[job[p]] = "EXPIRED" THEN "DENY" ELSE "ALLOW"
  /\ pc[p] \in {"gated"} \cup Dispatching /\ verdict[p] = "ALLOW"
       => ~held[job[p]] /\ ~tampered[job[p]]

(* A candidate still in the state the sweeper read is still overdue: no    *)
(* row goes back to waiting, so only leaving that state restarts a window. *)
SweepTask(p) ==
  pc[p] = "sweeping" =>
    /\ \A i \in Invocations : lock[i] = p => lapsed[i]
    /\ \A c \in cand[p] :
         /\ state[c.inv] # "NONE"
         /\ c.state = "READY" => state[c.inv] # "AWAITING_APPROVAL"
         /\ state[c.inv] = c.state => lapsed[c.inv]

GateInv ==
  /\ \A i \in Invocations : GateRow(i)
  /\ \A p \in Tasks : GateTask(p) /\ SweepTask(p)

(* Steps that leave the committed decision, the calls and the bars alone.  *)
GateUntouched == UNCHANGED <<state, final_gate, attempt_count, calls, tampered, held, lifecycle>>

LEMMA TasksUntouched ==
  ASSUME NEW p \in Tasks, Step(p) \/ Disturb(p),
         ~Claim(p), ~CallAdapter(p), ~CommitExecution(p), ~CommitReap(p), ~CommitSweep(p)
  PROVE  GateUntouched
<1> USE DEF GateUntouched, rowVars, toolVars, targetVars
<1>1. CASE Poll(p) \/ EndBatch(p) \/ SkipNotReady(p) \/ EvaluateGate(p) \/ AbandonLostLease(p)
  BY <1>1 DEF Poll, EndBatch, SkipNotReady, EvaluateGate, AbandonLostLease
<1>2. CASE GateAllows(p) \/ GateDenies(p) \/ AdapterRetries(p)
  BY <1>2 DEF GateAllows, GateDenies, AdapterRetries, Write
<1>3. CASE AdapterTimesOut(p) \/ AdapterFails(p) \/ AdapterSucceeds(p)
  BY <1>3 DEF AdapterTimesOut, AdapterFails, AdapterSucceeds, Record, Write
<1>4. CASE BeginValidation(p) \/ ValidationConfirms(p) \/ ValidationFails(p)
  BY <1>4 DEF BeginValidation, ValidationConfirms, ValidationFails, Record, Write
<1>5. CASE StartReap(p) \/ ReapOne(p) \/ ReapStoodDown(p)
  BY <1>5 DEF StartReap, ReapOne, ReapStoodDown, Write
<1>6. CASE StartSweep(p) \/ SweepOne(p) \/ SweepStoodDown(p)
  BY <1>6 DEF StartSweep, SweepOne, SweepStoodDown, Write
<1>7. CASE LoopEnds(p) \/ Start(p) \/ Stop(p)
  BY <1>7 DEF LoopEnds, Start, Stop
<1>8. CASE TransactionFails(p) \/ Crash(p) \/ InlineWaitElapses(p) \/ StopTimesOut(p)
  BY <1>8 DEF TransactionFails, Crash, InlineWaitElapses, StopTimesOut, Interrupt, Rollback
<1>9. QED
  BY <1>1, <1>2, <1>3, <1>4, <1>5, <1>6, <1>7, <1>8 DEF Step, Disturb

(* What a person does to a row is done before it is claimed.               *)
LEMMA PeopleMove ==
  ASSUME IInv, NEW i \in Invocations,
         \/ Create(i) \/ (\E p \in Callers : CreateInline(p, i))
         \/ Approve(i) \/ Deny(i) \/ Cancel(i)
  PROVE  /\ state[i] \in Queued \cup {"NONE"}
         /\ state'[i] \in Queued \cup {"REJECTED", "DENIED", "CANCELLED"}
         /\ state'[i] = "AWAITING_APPROVAL" => state[i] = "NONE"
         /\ state'[i] = "READY" => state[i] \in {"NONE", "AWAITING_APPROVAL"}
         /\ \A j \in Invocations \ {i} : state'[j] = state[j] /\ (lapsed[j] => lapsed'[j])
         /\ lapsed[i] /\ ~lapsed'[i] =>
              lock[i] = None /\ state[i] = "AWAITING_APPROVAL" /\ state'[i] = "READY"
         /\ UNCHANGED <<final_gate, attempt_count, calls, tampered, held, lifecycle, lock, cand>>
         /\ \A p \in Tasks : pc'[p] = pc[p] \/ (pc[p] = "idle" /\ pc'[p] \in {"idle", "dispatch"})
         /\ \A j \in Invocations \ {i} : draft'[j] = draft[j]
         /\ UNCHANGED <<job, verdict>>
<1> USE DEF Move, toolVars, taskVars, targetVars, clockVars, Queued
<1>a. /\ state \in [Invocations -> InvocationState \cup {"NONE"}]
      /\ draft \in [Invocations -> InvocationState \cup {"NONE"}]
      /\ lapsed \in [Invocations -> BOOLEAN] /\ pc \in [Tasks -> PCs]
  BY DEF IInv, TypeOK, RowTypes, TaskTypes, WorldTypes
<1>b. Admitted(i) \in {"REJECTED", "AWAITING_APPROVAL", "READY"}
  BY DEF Admitted
<1>c. ASSUME NEW t \in {"REJECTED", "AWAITING_APPROVAL", "READY", "DENIED", "CANCELLED"}, Move(i, t)
      PROVE  /\ state'[i] = t /\ UNCHANGED <<final_gate, attempt_count, lock>>
             /\ \A j \in Invocations \ {i} : state'[j] = state[j] /\ draft'[j] = draft[j]
  BY <1>c, <1>a
<1> HIDE DEF Move
<1>1. CASE Create(i)
  <2>1. state[i] = "NONE" /\ Move(i, Admitted(i))
    BY <1>1 DEF Create, NextRequest
  <2>2. UNCHANGED <<calls, tampered, held, lifecycle, lapsed, pc, cand, job, verdict>>
    BY <1>1 DEF Create
  <2>3. QED
    BY <1>b, <1>c, <2>1, <2>2
<1>2. CASE \E p \in Callers : CreateInline(p, i)
  <2>1. PICK p \in Callers : CreateInline(p, i)
    BY <1>2
  <2>2. pc[p] = "idle" /\ pc' = [pc EXCEPT ![p] = IF Admitted(i) = "READY" THEN "dispatch" ELSE "idle"]
    BY <2>1 DEF CreateInline, Goto
  <2>3. \A q \in Tasks : pc'[q] = pc[q] \/ (pc[q] = "idle" /\ pc'[q] \in {"idle", "dispatch"})
    BY <2>2, <1>a
  <2>4. state[i] = "NONE" /\ Move(i, Admitted(i))
    BY <2>1 DEF CreateInline, NextRequest
  <2>5. UNCHANGED <<calls, tampered, held, lifecycle, lapsed, cand, job, verdict>>
    BY <2>1 DEF CreateInline, KeepJob
  <2>6. QED
    BY <1>b, <1>c, <2>3, <2>4, <2>5
<1>3. CASE Approve(i)
  <2>1. /\ lock[i] = None /\ state[i] = "AWAITING_APPROVAL" /\ Move(i, "READY")
        /\ lapsed' = [lapsed EXCEPT ![i] = FALSE]
    BY <1>3 DEF Approve
  <2>2. UNCHANGED <<calls, tampered, held, lifecycle, pc, cand, job, verdict>>
    BY <1>3 DEF Approve
  <2>3. ~lapsed'[i] /\ \A j \in Invocations \ {i} : lapsed[j] => lapsed'[j]
    BY <1>a, <2>1
  <2>4. QED
    BY <1>c, <2>1, <2>2, <2>3
<1>4. CASE Deny(i)
  <2>1. state[i] = "AWAITING_APPROVAL" /\ Move(i, "DENIED")
    BY <1>4 DEF Deny
  <2>2. UNCHANGED <<calls, tampered, held, lifecycle, lapsed, pc, cand, job, verdict>>
    BY <1>4 DEF Deny
  <2>3. QED
    BY <1>c, <2>1, <2>2
<1>5. CASE Cancel(i)
  <2>1. state[i] \in Queued /\ Move(i, "CANCELLED")
    BY <1>5 DEF Cancel
  <2>2. UNCHANGED <<calls, tampered, held, lifecycle, lapsed, pc, cand, job, verdict>>
    BY <1>5 DEF Cancel
  <2>3. QED
    BY <1>c, <2>1, <2>2
<1>6. QED
  BY <1>1, <1>2, <1>3, <1>4, <1>5

(* What a task publishes: its own job's outcome, or closed candidates.     *)
LEMMA Publishes ==
  ASSUME IInv, NEW p \in Tasks, Publish(p), NEW i \in Invocations
  PROVE  /\ lock[i] # p => state'[i] = state[i]
         /\ lock[i] = p => state'[i] = draft[i]
         /\ lock[i] = p /\ pc[p] = "commit" =>
              /\ job[p] = i /\ state[i] = "EXECUTING" /\ calls[i] = tries[p]
              /\ draft[i] \in Outcomes \cup {"EXPIRED"}
              /\ draft[i] = "EXPIRED" => tries[p] = 0
         /\ lock[i] = p /\ pc[p] = "reaping" =>
              state[i] = "EXECUTING" /\ draft[i] = "EXECUTION_INDETERMINATE"
         /\ lock[i] = p /\ pc[p] = "sweeping" => state[i] \in Queued /\ draft[i] = "EXPIRED"
<1>1. /\ lock[i] # p => state'[i] = state[i]
      /\ lock[i] = p => state'[i] = draft[i]
  BY DEF Publish
<1>2. LockInv(i) /\ DispatchInv(p)
  BY DEF IInv, CoreInv
<1>3. QED
  BY <1>1, <1>2 DEF LockInv, DispatchInv, Dispatching, Outcomes

(* Every step keeps decisions and outcomes, bars and calls together.       *)
LEMMA GateRows ==
  ASSUME IInv, GateInv, [Next]_vars, NEW i \in Invocations
  PROVE  GateRow(i)'
<1>a. GateRow(i) /\ RowInv(i)
  BY DEF GateInv, IInv, CoreInv
<1>b. ASSUME GateUntouched PROVE GateRow(i)'
  BY <1>a, <1>b DEF GateRow, GateUntouched
<1>c. calls[i] \in Nat /\ attempt_count[i] \in Nat
  BY DEF IInv, TypeOK, RowTypes, WorldTypes
<1>1. ASSUME NEW p \in Tasks, Claim(p) PROVE GateRow(i)'
  <2>1. PICK j \in Invocations : state[j] = "READY" /\ state' = [state EXCEPT ![j] = "EXECUTING"]
    BY <1>1 DEF Claim
  <2>2. UNCHANGED <<final_gate, calls, tampered, held, lifecycle>>
    BY <1>1 DEF Claim, toolVars, targetVars
  <2>3. CASE i = j
    <3>1. state'[i] = "EXECUTING" /\ state[i] = "READY"
      BY <2>1, <2>3 DEF IInv, TypeOK, RowTypes
    <3>2. QED
      BY <1>a, <2>2, <3>1 DEF GateRow, Queued, Outcomes
  <2>4. CASE i # j
    <3>1. state'[i] = state[i]
      BY <2>1, <2>4 DEF IInv, TypeOK, RowTypes
    <3>2. attempt_count'[i] = attempt_count[i]
      BY <1>1, <2>1, <2>4 DEF Claim, IInv, TypeOK, RowTypes
    <3>3. QED
      BY <1>a, <2>2, <3>1, <3>2 DEF GateRow
  <2>5. QED
    BY <2>3, <2>4
<1>2. ASSUME NEW p \in Tasks, CallAdapter(p) PROVE GateRow(i)'
  <2>1. /\ UNCHANGED <<state, final_gate, attempt_count, tampered, held, lifecycle>>
        /\ calls' = [calls EXCEPT ![job[p]] = @ + 1] /\ pc[p] = "call"
    BY <1>2 DEF CallAdapter, rowVars, toolVars
  <2>2. ~held[job[p]] /\ ~tampered[job[p]]
    BY <2>1 DEF GateInv, GateTask, Dispatching
  <2>3. calls'[i] # calls[i] => i = job[p]
    BY <2>1 DEF IInv, TypeOK, WorldTypes
  <2>4. QED
    BY <1>a, <2>1, <2>2, <2>3 DEF GateRow
<1>3. ASSUME NEW p \in Tasks, CommitExecution(p) PROVE GateRow(i)'
  <2>1. /\ pc[p] = "commit" /\ Publish(p)
        /\ final_gate' = [final_gate EXCEPT ![job[p]] = verdict[p]]
        /\ UNCHANGED <<attempt_count, calls, tampered, held, lifecycle>>
    BY <1>3 DEF CommitExecution, Publish, toolVars, targetVars
  <2>2. /\ job[p] \in Invocations /\ lock[job[p]] = p
        /\ verdict[p] = IF draft[job[p]] = "EXPIRED" THEN "DENY" ELSE "ALLOW"
    BY <2>1 DEF IInv, CoreInv, JobInv, DispatchInv, Active, Dispatching, GateInv, GateTask
  <2>3. CASE i = job[p]
    <3>1. /\ state'[i] = draft[i] /\ final_gate'[i] = verdict[p]
          /\ draft[i] \in Outcomes \cup {"EXPIRED"}
      BY <2>1, <2>2, <2>3, Publishes DEF IInv, TypeOK, RowTypes
    <3>2. QED
      BY <1>a, <2>1, <2>2, <2>3, <3>1 DEF GateRow, Outcomes, Queued
  <2>4. CASE i # job[p]
    <3>1. state'[i] = state[i] /\ final_gate'[i] = final_gate[i]
      BY <2>1, <2>4, Publishes DEF IInv, TypeOK, RowTypes
    <3>2. QED
      BY <1>a, <2>1, <3>1 DEF GateRow
  <2>5. QED
    BY <2>3, <2>4
<1>4. ASSUME NEW p \in Tasks, CommitReap(p) \/ CommitSweep(p) PROVE GateRow(i)'
  <2>1. /\ pc[p] \in {"reaping", "sweeping"} /\ Publish(p)
        /\ UNCHANGED <<final_gate, attempt_count, calls, tampered, held, lifecycle>>
    BY <1>4 DEF CommitReap, CommitSweep, Publish, toolVars, targetVars
  <2>2. CASE lock[i] # p
    BY <1>a, <2>1, <2>2, Publishes DEF GateRow
  <2>3. CASE lock[i] = p /\ pc[p] = "reaping"
    <3>1. state[i] = "EXECUTING" /\ state'[i] = "EXECUTION_INDETERMINATE"
      BY <2>1, <2>3, Publishes
    <3>2. QED
      BY <1>a, <2>1, <3>1 DEF GateRow, Outcomes
  <2>4. CASE lock[i] = p /\ pc[p] = "sweeping"
    <3>1. state[i] \in Queued /\ state'[i] = "EXPIRED"
      BY <2>1, <2>4, Publishes
    <3>2. attempt_count[i] = 0
      BY <1>a, <3>1 DEF RowInv
    <3>3. QED
      BY <1>a, <2>1, <3>1, <3>2 DEF GateRow, Outcomes, Queued
  <2>5. QED
    BY <2>1, <2>2, <2>3, <2>4
<1>5. ASSUME NEW j \in Invocations,
             \/ Create(j) \/ (\E p \in Callers : CreateInline(p, j))
             \/ Approve(j) \/ Deny(j) \/ Cancel(j)
      PROVE  GateRow(i)'
  <2>1. UNCHANGED <<final_gate, attempt_count, calls, tampered, held, lifecycle>>
    BY <1>5, PeopleMove
  <2>2. CASE i = j
    <3>1. /\ state[i] \in Queued \cup {"NONE"}
          /\ state'[i] \in Queued \cup {"REJECTED", "DENIED", "CANCELLED"}
      BY <1>5, <2>2, PeopleMove
    <3>2. QED
      BY <1>a, <2>1, <3>1 DEF GateRow, Queued, Outcomes
  <2>3. CASE i # j
    <3>1. state'[i] = state[i]
      BY <1>5, <2>3, PeopleMove
    <3>2. QED
      BY <1>a, <2>1, <3>1 DEF GateRow
  <2>4. QED
    BY <2>2, <2>3
<1>6. ASSUME NEW j \in Invocations, Tamper(j) PROVE GateRow(i)'
  <2>1. /\ state[j] \in Queued /\ tampered' = [tampered EXCEPT ![j] = TRUE]
        /\ UNCHANGED <<state, final_gate, attempt_count, calls, held, lifecycle>>
    BY <1>6 DEF Tamper, rowVars, targetVars
  <2>2. i # j => tampered'[i] = tampered[i]
    BY <2>1 DEF IInv, TypeOK, WorldTypes
  <2>3. i = j => calls[i] = 0
    BY <1>a, <2>1 DEF RowInv
  <2>4. QED
    BY <1>a, <2>1, <2>2, <2>3 DEF GateRow
<1>7. ASSUME NEW from, NEW to, SetLifecycle(from, to) PROVE GateRow(i)'
  <2>1. /\ lifecycle' = to
        /\ held'[i] <=> to # "ACTIVE" /\ (held[i] \/ state[i] \in Queued)
        /\ UNCHANGED <<state, final_gate, attempt_count, calls, tampered>>
    BY <1>7 DEF SetLifecycle, rowVars, targetVars
  <2>2. state[i] \in Queued => calls[i] = 0
    BY <1>a DEF RowInv
  <2>3. QED
    BY <1>a, <2>1, <2>2 DEF GateRow
<1>8. ASSUME NEW j \in Invocations, Time(j) PROVE GateUntouched
  BY <1>8 DEF Time, LeaseExpiresOnServer, LeaseExpiresForReaper, WindowLapses, TargetActs,
       GateUntouched, rowVars, toolVars, targetVars
<1>9. ASSUME UNCHANGED vars PROVE GateUntouched
  BY <1>9 DEF vars, GateUntouched, rowVars, toolVars, targetVars
<1>10. QED
  BY <1>b, <1>1, <1>2, <1>3, <1>4, <1>5, <1>6, <1>7, <1>8, <1>9, TasksUntouched
     DEF Next, People, DisableTool, EnableTool, RetireTool

(* A task's step leaves the other tasks' memory alone.                     *)
LEMMA OthersKept ==
  ASSUME IInv, NEW p \in Tasks, Step(p) \/ Disturb(p), NEW q \in Tasks \ {p}
  PROVE  /\ pc'[q] = pc[q] /\ cand'[q] = cand[q]
         /\ job'[q] = job[q] /\ verdict'[q] = verdict[q]
<1>a. TaskTypes
  BY DEF IInv, TypeOK
<1> USE DEF Goto, KeepJob, ClearJob, TaskTypes
<1>1. CASE Poll(p) \/ EndBatch(p) \/ SkipNotReady(p) \/ EvaluateGate(p) \/ AbandonLostLease(p)
  BY <1>a, <1>1 DEF Poll, EndBatch, SkipNotReady, EvaluateGate, AbandonLostLease
<1>2. CASE Claim(p)
  BY <1>a, <1>2 DEF Claim
<1>3. CASE GateAllows(p) \/ GateDenies(p) \/ CallAdapter(p) \/ AdapterRetries(p)
  BY <1>a, <1>3 DEF GateAllows, GateDenies, CallAdapter, AdapterRetries
<1>4. CASE AdapterTimesOut(p) \/ AdapterFails(p) \/ AdapterSucceeds(p)
  BY <1>a, <1>4 DEF AdapterTimesOut, AdapterFails, AdapterSucceeds, Record
<1>5. CASE BeginValidation(p) \/ ValidationConfirms(p) \/ ValidationFails(p)
  BY <1>a, <1>5 DEF BeginValidation, ValidationConfirms, ValidationFails, Record
<1>6. CASE CommitExecution(p) \/ CommitReap(p) \/ CommitSweep(p)
  BY <1>a, <1>6 DEF CommitExecution, CommitReap, CommitSweep
<1>7. CASE StartReap(p) \/ StartSweep(p)
  BY <1>a, <1>7 DEF StartReap, StartSweep
<1>8. CASE ReapOne(p) \/ ReapStoodDown(p) \/ SweepOne(p) \/ SweepStoodDown(p)
  BY <1>a, <1>8 DEF ReapOne, ReapStoodDown, SweepOne, SweepStoodDown
<1>9. CASE LoopEnds(p) \/ Start(p) \/ Stop(p)
  BY <1>a, <1>9 DEF LoopEnds, Start, Stop
<1>10. CASE TransactionFails(p) \/ Crash(p) \/ InlineWaitElapses(p) \/ StopTimesOut(p)
  BY <1>a, <1>10 DEF TransactionFails, Crash, InlineWaitElapses, StopTimesOut, Interrupt
<1>11. QED
  BY <1>1, <1>2, <1>3, <1>4, <1>5, <1>6, <1>7, <1>8, <1>9, <1>10 DEF Step, Disturb

(* A task's step leaves the row versions others have locked alone, takes   *)
(* no lock for anyone else, and moves no row into a waiting state.         *)
LEMMA LockedKept ==
  ASSUME IInv, NEW p \in Tasks, Step(p) \/ Disturb(p), NEW i \in Invocations
  PROVE  /\ lock[i] \notin {p, None} => draft'[i] = draft[i]
         /\ lock'[i] \in {lock[i], p, None}
         /\ state'[i] = state[i] \/ state'[i] \notin Queued \cup {"NONE"}
         /\ UNCHANGED <<lapsed, held, tampered, lifecycle>>
<1>a. /\ lock \in [Invocations -> Tasks \cup {None}]
      /\ draft \in [Invocations -> InvocationState \cup {"NONE"}]
      /\ state \in [Invocations -> InvocationState \cup {"NONE"}]
      /\ lapsed \in [Invocations -> BOOLEAN]
  BY DEF IInv, TypeOK, RowTypes, WorldTypes
<1>b. pc[p] \in Dispatching => lock[job[p]] = p
  BY DEF IInv, CoreInv, DispatchInv
<1>c. ASSUME NEW j, NEW s, Write(p, j, s), lock[j] \in {p, None}
      PROVE  /\ lock[i] \notin {p, None} => draft'[i] = draft[i]
             /\ lock'[i] \in {lock[i], p, None} /\ state' = state
  BY <1>a, <1>c DEF Write
<1> USE DEF clockVars, toolVars
<1>1. CASE Poll(p) \/ EndBatch(p) \/ SkipNotReady(p) \/ EvaluateGate(p) \/ AbandonLostLease(p)
           \/ CallAdapter(p) \/ AdapterRetries(p)
  BY <1>1 DEF Poll, EndBatch, SkipNotReady, EvaluateGate, AbandonLostLease, CallAdapter,
              AdapterRetries, rowVars
<1>2. CASE Claim(p)
  <2>1. PICK j \in Invocations : /\ lock[j] = None
                                 /\ state' = [state EXCEPT ![j] = "EXECUTING"]
                                 /\ draft' = [draft EXCEPT ![j] = "EXECUTING"]
    BY <1>2 DEF Claim
  <2>2. lock[i] \notin {p, None} => draft'[i] = draft[i]
    BY <1>a, <2>1
  <2>3. state'[i] = state[i] \/ state'[i] = "EXECUTING"
    BY <1>a, <2>1
  <2>4. UNCHANGED <<lock, lapsed, held, tampered, lifecycle>>
    BY <1>2 DEF Claim
  <2>5. QED
    BY <2>2, <2>3, <2>4 DEF Queued
<1>3. CASE GateAllows(p) \/ GateDenies(p)
  <2>1. \E s : Write(p, job[p], s) /\ lock[job[p]] = None
    BY <1>3 DEF GateAllows, GateDenies
  <2>2. UNCHANGED <<lapsed, held, tampered, lifecycle>>
    BY <1>3 DEF GateAllows, GateDenies
  <2>3. QED
    BY <1>c, <2>1, <2>2
<1>4. CASE \/ AdapterTimesOut(p) \/ AdapterFails(p) \/ AdapterSucceeds(p)
           \/ BeginValidation(p) \/ ValidationConfirms(p) \/ ValidationFails(p)
  <2>1. pc[p] \in Dispatching /\ \E s, l : Record(p, s, l)
    BY <1>4 DEF AdapterTimesOut, AdapterFails, AdapterSucceeds, BeginValidation,
                ValidationConfirms, ValidationFails, Dispatching
  <2>2. (\E s : Write(p, job[p], s)) /\ UNCHANGED <<lapsed, held, tampered, lifecycle>>
    BY <2>1 DEF Record
  <2>3. QED
    BY <1>b, <1>c, <2>1, <2>2
<1>5. CASE StartReap(p) \/ ReapStoodDown(p) \/ StartSweep(p) \/ SweepStoodDown(p)
           \/ LoopEnds(p) \/ Start(p) \/ Stop(p)
  BY <1>5 DEF StartReap, ReapStoodDown, StartSweep, SweepStoodDown, LoopEnds, Start, Stop, rowVars
<1>6. CASE ReapOne(p) \/ SweepOne(p)
  <2>1. \E j, s : Write(p, j, s) /\ lock[j] = None
    BY <1>6 DEF ReapOne, SweepOne
  <2>2. UNCHANGED <<lapsed, held, tampered, lifecycle>>
    BY <1>6 DEF ReapOne, SweepOne
  <2>3. QED
    BY <1>c, <2>1, <2>2
<1>7. CASE CommitExecution(p) \/ CommitReap(p) \/ CommitSweep(p)
  <2>1. /\ Publish(p) /\ pc[p] \in {"commit", "reaping", "sweeping"}
        /\ UNCHANGED <<held, tampered, lifecycle>>
    BY <1>7 DEF CommitExecution, CommitReap, CommitSweep
  <2>2. UNCHANGED <<draft, lapsed>> /\ lock'[i] \in {lock[i], None}
    BY <2>1 DEF Publish
  <2>3. state'[i] = state[i] \/ state'[i] \in Outcomes \cup {"EXPIRED", "EXECUTION_INDETERMINATE"}
    BY <2>1, Publishes
  <2>4. QED
    BY <2>1, <2>2, <2>3 DEF Queued, Outcomes
<1>8. CASE TransactionFails(p) \/ Crash(p) \/ InlineWaitElapses(p) \/ StopTimesOut(p)
  <2>1. Rollback(p) /\ UNCHANGED <<lapsed, held, tampered, lifecycle>>
    BY <1>8 DEF TransactionFails, Crash, InlineWaitElapses, StopTimesOut, Interrupt
  <2>2. QED
    BY <2>1 DEF Rollback
<1>9. QED
  BY <1>1, <1>2, <1>3, <1>4, <1>5, <1>6, <1>7, <1>8 DEF Step, Disturb

(* Every step keeps the verdicts in memory in line with the rows.          *)
LEMMA GateTasks ==
  ASSUME IInv, GateInv, [Next]_vars, NEW q \in Tasks
  PROVE  GateTask(q)'
<1>a. GateTask(q) /\ JobInv(q) /\ DispatchInv(q)
  BY DEF GateInv, IInv, CoreInv
<1>b. ASSUME pc'[q] \notin {"gated"} \cup Dispatching PROVE GateTask(q)'
  BY <1>b DEF GateTask, Dispatching
<1>c. ASSUME pc'[q] = pc[q], job'[q] = job[q], verdict'[q] = verdict[q],
             pc[q] \in Dispatching => draft'[job[q]] = draft[job[q]],
             pc[q] \in {"gated"} \cup Dispatching =>
               (held'[job[q]] => held[job[q]]) /\ (tampered'[job[q]] => tampered[job[q]])
      PROVE  GateTask(q)'
  BY <1>a, <1>c DEF GateTask, Dispatching
<1>d. pc[q] \in {"gated"} \cup Dispatching =>
        /\ job[q] \in Invocations
        /\ state[job[q]] \notin Queued \cup {"NONE"}
  BY <1>a DEF JobInv, Active
<1>e. pc[q] \in Dispatching => lock[job[q]] = q
  BY <1>a DEF DispatchInv
<1>f. None \notin Tasks
  BY ConstantsAssumption DEF Tasks
<1>g. TaskTypes /\ RowTypes
  BY DEF IInv, TypeOK
<1>h. ASSUME NEW p \in Tasks, Step(p) \/ Disturb(p) PROVE UNCHANGED <<held, tampered>>
  <2>1. PICK i : i \in Invocations
    BY ConstantsAssumption DEF Invocations
  <2>2. QED
    BY <1>h, <2>1, LockedKept
<1>1. ASSUME NEW p \in Tasks \ {q}, Step(p) \/ Disturb(p) PROVE GateTask(q)'
  <2>1. pc'[q] = pc[q] /\ job'[q] = job[q] /\ verdict'[q] = verdict[q]
    BY <1>1, OthersKept
  <2>2. UNCHANGED <<held, tampered>>
    BY <1>1, <1>h
  <2>3. ASSUME pc[q] \in Dispatching PROVE draft'[job[q]] = draft[job[q]]
    BY <1>1, <1>d, <1>e, <1>f, <2>3, LockedKept
  <2>4. QED
    BY <1>c, <2>1, <2>2, <2>3
<1>2. ASSUME EvaluateGate(q) PROVE GateTask(q)'
  <2>1. /\ pc[q] = "claimed" /\ pc' = [pc EXCEPT ![q] = "gated"] /\ UNCHANGED <<job, held, tampered>>
        /\ verdict' = [verdict EXCEPT ![q] = FinalGate(job[q])]
    BY <1>2 DEF EvaluateGate, Goto, toolVars
  <2>2. pc'[q] = "gated" /\ verdict'[q] = FinalGate(job[q]) /\ job'[q] = job[q]
    BY <1>g, <2>1 DEF TaskTypes
  <2>3. job[q] \in Invocations
    BY <1>a, <2>1 DEF JobInv, Active
  <2>4. FinalGate(job[q]) = "ALLOW" => lifecycle = "ACTIVE" /\ ~tampered[job[q]]
    BY DEF FinalGate
  <2>5. held[job[q]] => lifecycle # "ACTIVE"
    BY <2>3 DEF GateInv, GateRow
  <2>6. QED
    BY <2>1, <2>2, <2>4, <2>5 DEF GateTask, Dispatching
<1>3. ASSUME GateAllows(q) PROVE GateTask(q)'
  <2>1. /\ pc[q] = "gated" /\ pc' = [pc EXCEPT ![q] = "call"] /\ verdict[q] = "ALLOW"
        /\ UNCHANGED <<job, verdict, held, tampered>>
    BY <1>3 DEF GateAllows, Goto, KeepJob, toolVars
  <2>2. pc'[q] = "call"
    BY <1>g, <2>1 DEF TaskTypes
  <2>3. QED
    BY <1>a, <2>1, <2>2 DEF GateTask, Dispatching
<1>4. ASSUME GateDenies(q) PROVE GateTask(q)'
  <2>1. /\ pc[q] = "gated" /\ pc' = [pc EXCEPT ![q] = "commit"] /\ verdict[q] = "DENY"
        /\ UNCHANGED <<job, verdict>> /\ draft' = [draft EXCEPT ![job[q]] = "EXPIRED"]
    BY <1>4 DEF GateDenies, Goto, KeepJob, Write
  <2>2. pc'[q] = "commit"
    BY <1>g, <2>1 DEF TaskTypes
  <2>3. draft'[job[q]] = "EXPIRED"
    BY <1>d, <1>g, <2>1 DEF RowTypes
  <2>4. QED
    BY <2>1, <2>2, <2>3 DEF GateTask
<1>5. ASSUME CallAdapter(q) \/ AdapterRetries(q) PROVE GateTask(q)'
  <2>1. /\ pc[q] \in {"call", "calling"} /\ UNCHANGED <<job, verdict, held, tampered>>
        /\ \E l \in {"call", "calling"} : pc' = [pc EXCEPT ![q] = l]
    BY <1>5 DEF CallAdapter, AdapterRetries, Goto, KeepJob, toolVars
  <2>2. pc'[q] \in {"call", "calling"}
    BY <1>g, <2>1 DEF TaskTypes
  <2>3. QED
    BY <1>a, <2>1, <2>2 DEF GateTask, Dispatching
<1>6. ASSUME \/ AdapterTimesOut(q) \/ AdapterFails(q) \/ AdapterSucceeds(q)
             \/ BeginValidation(q) \/ ValidationConfirms(q) \/ ValidationFails(q)
      PROVE  GateTask(q)'
  <2>1. PICK s \in Outcomes \cup {"VALIDATING"}, l \in {"commit", "validating"} :
          pc[q] \in {"calling", "validating"} /\ Record(q, s, l)
    BY <1>6 DEF AdapterTimesOut, AdapterFails, AdapterSucceeds, BeginValidation,
                ValidationConfirms, ValidationFails, Outcomes
  <2>2. /\ pc' = [pc EXCEPT ![q] = l] /\ draft' = [draft EXCEPT ![job[q]] = s]
        /\ UNCHANGED <<job, verdict, held, tampered>>
    BY <2>1 DEF Record, Write, Goto, KeepJob, toolVars
  <2>3. pc'[q] = l /\ draft'[job[q]] = s
    BY <1>d, <1>g, <2>1, <2>2 DEF TaskTypes, RowTypes, Dispatching
  <2>4. QED
    BY <1>a, <2>1, <2>2, <2>3 DEF GateTask, Dispatching, Outcomes
<1>7. ASSUME Stop(q) PROVE GateTask(q)'
  BY <1>7, <1>c DEF Stop, rowVars, toolVars
<1>8. ASSUME \/ ReapOne(q) \/ ReapStoodDown(q) \/ SweepOne(q) \/ SweepStoodDown(q)
             \/ SkipNotReady(q)
      PROVE  GateTask(q)'
  <2>1. pc[q] \in {"reaping", "sweeping", "dispatch"} /\ pc' = pc
    BY <1>8 DEF ReapOne, ReapStoodDown, SweepOne, SweepStoodDown, SkipNotReady
  <2>2. QED
    BY <1>b, <2>1 DEF Dispatching
<1>9. ASSUME \/ Poll(q) \/ EndBatch(q) \/ Claim(q) \/ AbandonLostLease(q) \/ CommitExecution(q)
             \/ StartReap(q) \/ CommitReap(q) \/ StartSweep(q) \/ CommitSweep(q)
             \/ LoopEnds(q) \/ Start(q)
             \/ TransactionFails(q) \/ Crash(q) \/ InlineWaitElapses(q) \/ StopTimesOut(q)
      PROVE  GateTask(q)'
  <2>1. \E l \in PCs \ ({"gated"} \cup Dispatching) : pc' = [pc EXCEPT ![q] = l]
    BY <1>9 DEF Poll, EndBatch, Claim, AbandonLostLease, CommitExecution, StartReap, CommitReap,
                StartSweep, CommitSweep, LoopEnds, Start, TransactionFails, Crash,
                InlineWaitElapses, StopTimesOut, Interrupt, Goto, PCs, Dispatching
  <2>2. QED
    BY <1>b, <1>g, <2>1 DEF TaskTypes
<1>10. ASSUME NEW j \in Invocations,
              \/ Create(j) \/ (\E p \in Callers : CreateInline(p, j))
              \/ Approve(j) \/ Deny(j) \/ Cancel(j)
       PROVE  GateTask(q)'
  <2>1. /\ state[j] \in Queued \cup {"NONE"} /\ UNCHANGED <<held, tampered, job, verdict>>
        /\ \A k \in Invocations \ {j} : draft'[k] = draft[k]
        /\ pc'[q] = pc[q] \/ (pc[q] = "idle" /\ pc'[q] \in {"idle", "dispatch"})
    BY <1>10, PeopleMove
  <2>2. CASE pc'[q] = pc[q]
    BY <1>c, <1>d, <2>1, <2>2
  <2>3. CASE pc'[q] \in {"idle", "dispatch"}
    BY <1>b, <2>3 DEF Dispatching
  <2>4. QED
    BY <2>1, <2>2, <2>3
<1>11. ASSUME NEW j \in Invocations, Tamper(j) PROVE GateTask(q)'
  <2>1. /\ state[j] \in Queued /\ tampered' = [tampered EXCEPT ![j] = TRUE]
        /\ UNCHANGED <<draft, held, pc, job, verdict>>
    BY <1>11 DEF Tamper, rowVars, taskVars
  <2>2. ASSUME NEW k \in Invocations \ {j} PROVE tampered'[k] = tampered[k]
    BY <2>1
  <2>3. QED
    BY <1>c, <1>d, <2>1, <2>2
<1>12. ASSUME NEW from, NEW to, SetLifecycle(from, to) PROVE GateTask(q)'
  <2>1. UNCHANGED <<draft, tampered, pc, job, verdict>>
    BY <1>12 DEF SetLifecycle, rowVars, taskVars
  <2>2. ASSUME NEW k \in Invocations, state[k] \notin Queued PROVE held'[k] => held[k]
    BY <1>12, <2>2 DEF SetLifecycle
  <2>3. QED
    BY <1>c, <1>d, <2>1, <2>2
<1>13. ASSUME \/ \E j \in Invocations : Time(j)
              \/ UNCHANGED vars
       PROVE  GateTask(q)'
  <2>1. UNCHANGED <<draft, held, tampered, pc, job, verdict>>
    BY <1>13 DEF Time, LeaseExpiresOnServer, LeaseExpiresForReaper, WindowLapses, TargetActs,
         vars, rowVars, toolVars, taskVars
  <2>2. QED
    BY <1>c, <2>1
<1>14. ASSUME Step(q) \/ Disturb(q) PROVE GateTask(q)'
  BY <1>2, <1>3, <1>4, <1>5, <1>6, <1>7, <1>8, <1>9, <1>14 DEF Step, Disturb
<1>15. QED
  BY <1>1, <1>10, <1>11, <1>12, <1>13, <1>14
     DEF Next, People, DisableTool, EnableTool, RetireTool

(* Every step keeps what the sweeper may still expire overdue.             *)
LEMMA SweepTasks ==
  ASSUME IInv, GateInv, [Next]_vars, NEW q \in Tasks
  PROVE  SweepTask(q)'
<1>a. SweepTask(q) /\ CandInv(q)
  BY DEF GateInv, IInv
<1>b. ASSUME pc'[q] # "sweeping" PROVE SweepTask(q)'
  BY <1>b DEF SweepTask
<1>c. \A c \in cand[q] : c.inv \in Invocations
  BY DEF IInv, TypeOK, TaskTypes, Candidates
<1>d. pc[q] = "sweeping" => \A c \in cand[q] : c.state \in Queued
  BY <1>a DEF CandInv
<1>e. ASSUME pc'[q] = pc[q], cand'[q] = cand[q],
             \A i \in Invocations : lock'[i] = q => lock[i] = q /\ (lapsed[i] => lapsed'[i]),
             \A i \in Invocations : \/ state'[i] = state[i] /\ (lapsed[i] => lapsed'[i])
                                    \/ state'[i] \notin Queued \cup {"NONE"}
      PROVE  SweepTask(q)'
  BY <1>a, <1>c, <1>d, <1>e DEF SweepTask, Queued
<1>g. TaskTypes /\ RowTypes
  BY DEF IInv, TypeOK
<1>f. q # None
  BY ConstantsAssumption DEF Tasks
<1>1. ASSUME NEW p \in Tasks \ {q}, Step(p) \/ Disturb(p) PROVE SweepTask(q)'
  <2>1. pc'[q] = pc[q] /\ cand'[q] = cand[q]
    BY <1>1, OthersKept
  <2>2. ASSUME NEW i \in Invocations
        PROVE  /\ lock'[i] \in {lock[i], p, None} /\ lapsed' = lapsed
               /\ state'[i] = state[i] \/ state'[i] \notin Queued \cup {"NONE"}
    BY <1>1, LockedKept
  <2>3. QED
    BY <1>e, <1>f, <2>1, <2>2
<1>2. ASSUME StartSweep(q) PROVE SweepTask(q)'
  <2>1. /\ pc[q] = "sweep" /\ UNCHANGED <<state, lock, lapsed>>
        /\ cand' = [cand EXCEPT ![q] =
             {Seen(i) : i \in {j \in FirstById(
                {k \in ApprovalRequired : state[k] \in Queued}, SweepLimit)
                  : lapsed[j]}}]
    BY <1>2 DEF StartSweep, rowVars, clockVars
  <2>2. \A i \in Invocations : lock[i] # q
    BY <2>1 DEF IInv, CoreInv, LockInv, Dispatching
  <2>3. ASSUME NEW c \in cand'[q]
        PROVE  state[c.inv] = c.state /\ state[c.inv] \in Queued /\ lapsed[c.inv]
    <3>1. PICK j \in FirstById({k \in ApprovalRequired : state[k] \in Queued}, SweepLimit) :
            lapsed[j] /\ c = Seen(j)
      BY <1>g, <2>1, <2>3 DEF TaskTypes
    <3>2. state[j] \in Queued
      BY <3>1 DEF FirstById
    <3>3. QED
      BY <3>1, <3>2 DEF Seen
  <2>4. QED
    BY <2>1, <2>2, <2>3 DEF SweepTask, Queued
<1>3. ASSUME SweepOne(q) PROVE SweepTask(q)'
  <2>1. PICK c \in cand[q] : /\ state[c.inv] = c.state
                             /\ Write(q, c.inv, "EXPIRED")
                             /\ cand' = [cand EXCEPT ![q] = @ \ {c}]
    BY <1>3 DEF SweepOne
  <2>2. /\ pc[q] = "sweeping" /\ UNCHANGED <<state, lapsed>>
        /\ lock' = [lock EXCEPT ![c.inv] = q]
    BY <1>3, <2>1 DEF SweepOne, Write, clockVars
  <2>3. lapsed[c.inv]
    BY <1>a, <2>1, <2>2 DEF SweepTask
  <2>4. \A i \in Invocations : lock'[i] = q => lock[i] = q \/ i = c.inv
    BY <1>g, <2>2 DEF RowTypes
  <2>5. cand'[q] \subseteq cand[q]
    BY <1>g, <2>1 DEF TaskTypes
  <2>6. QED
    BY <1>a, <2>2, <2>3, <2>4, <2>5 DEF SweepTask
<1>4. ASSUME SweepStoodDown(q) PROVE SweepTask(q)'
  <2>1. PICK c \in cand[q] : cand' = [cand EXCEPT ![q] = @ \ {c}]
    BY <1>4 DEF SweepStoodDown
  <2>2. pc[q] = "sweeping" /\ UNCHANGED <<state, lock, lapsed>>
    BY <1>4 DEF SweepStoodDown, rowVars, clockVars
  <2>3. cand'[q] \subseteq cand[q]
    BY <1>g, <2>1 DEF TaskTypes
  <2>4. QED
    BY <1>a, <2>2, <2>3 DEF SweepTask
<1>5. ASSUME Stop(q) PROVE SweepTask(q)'
  BY <1>5, <1>e DEF Stop, rowVars, clockVars
<1>6. ASSUME ReapOne(q) \/ ReapStoodDown(q) \/ SkipNotReady(q) PROVE SweepTask(q)'
  <2>1. pc[q] \in {"reaping", "dispatch"} /\ pc' = pc
    BY <1>6 DEF ReapOne, ReapStoodDown, SkipNotReady
  <2>2. QED
    BY <1>b, <2>1
<1>7. ASSUME \/ Poll(q) \/ EndBatch(q) \/ Claim(q) \/ EvaluateGate(q) \/ GateAllows(q)
             \/ GateDenies(q) \/ AbandonLostLease(q) \/ CallAdapter(q) \/ AdapterRetries(q)
      PROVE  SweepTask(q)'
  <2>1. \E l \in PCs \ {"sweeping"} : pc' = [pc EXCEPT ![q] = l]
    BY <1>7 DEF Poll, EndBatch, Claim, EvaluateGate, GateAllows, GateDenies, AbandonLostLease,
                CallAdapter, AdapterRetries, Goto, PCs, Dispatching
  <2>2. QED
    BY <1>b, <1>g, <2>1 DEF TaskTypes
<1>8. ASSUME \/ AdapterTimesOut(q) \/ AdapterFails(q) \/ AdapterSucceeds(q)
             \/ BeginValidation(q) \/ ValidationConfirms(q) \/ ValidationFails(q)
      PROVE  SweepTask(q)'
  <2>1. \E l \in PCs \ {"sweeping"} : pc' = [pc EXCEPT ![q] = l]
    BY <1>8 DEF AdapterTimesOut, AdapterFails, AdapterSucceeds, BeginValidation,
                ValidationConfirms, ValidationFails, Record, Goto, PCs, Dispatching
  <2>2. QED
    BY <1>b, <1>g, <2>1 DEF TaskTypes
<1>9. ASSUME \/ CommitExecution(q) \/ StartReap(q) \/ CommitReap(q) \/ CommitSweep(q)
             \/ LoopEnds(q) \/ Start(q)
             \/ TransactionFails(q) \/ Crash(q) \/ InlineWaitElapses(q) \/ StopTimesOut(q)
      PROVE  SweepTask(q)'
  <2>1. \E l \in PCs \ {"sweeping"} : pc' = [pc EXCEPT ![q] = l]
    BY <1>9 DEF CommitExecution, StartReap, CommitReap, CommitSweep, LoopEnds, Start,
                TransactionFails, Crash, InlineWaitElapses, StopTimesOut, Interrupt, Goto, PCs
  <2>2. QED
    BY <1>b, <1>g, <2>1 DEF TaskTypes
<1>10. ASSUME NEW j \in Invocations,
              \/ Create(j) \/ (\E p \in Callers : CreateInline(p, j))
              \/ Approve(j) \/ Deny(j) \/ Cancel(j)
       PROVE  SweepTask(q)'
  <2>1. /\ state'[j] \in Queued \cup {"REJECTED", "DENIED", "CANCELLED"}
        /\ state'[j] = "AWAITING_APPROVAL" => state[j] = "NONE"
        /\ state'[j] = "READY" => state[j] \in {"NONE", "AWAITING_APPROVAL"}
        /\ \A k \in Invocations \ {j} : state'[k] = state[k] /\ (lapsed[k] => lapsed'[k])
        /\ lapsed[j] /\ ~lapsed'[j] => lock[j] = None
        /\ UNCHANGED <<lock, cand>>
        /\ pc'[q] = pc[q] \/ (pc[q] = "idle" /\ pc'[q] \in {"idle", "dispatch"})
    BY <1>10, PeopleMove
  <2>2. SUFFICES ASSUME pc[q] = "sweeping", pc'[q] = "sweeping" PROVE SweepTask(q)'
    BY <1>b, <2>1
  <2>3. \A i \in Invocations : lock'[i] = q => lapsed'[i]
    BY <1>a, <1>f, <2>1, <2>2 DEF SweepTask
  <2>4. ASSUME NEW c \in cand[q]
        PROVE  /\ state'[c.inv] # "NONE"
               /\ c.state = "READY" => state'[c.inv] # "AWAITING_APPROVAL"
               /\ state'[c.inv] = c.state => lapsed'[c.inv]
    <3>1. /\ state[c.inv] # "NONE"
          /\ c.state = "READY" => state[c.inv] # "AWAITING_APPROVAL"
          /\ state[c.inv] = c.state => lapsed[c.inv]
          /\ c.inv \in Invocations /\ c.state \in Queued
      BY <1>a, <1>c, <1>d, <2>2 DEF SweepTask
    <3>2. CASE c.inv = j
      BY <2>1, <3>1, <3>2 DEF Queued
    <3>3. CASE c.inv # j
      BY <2>1, <3>1, <3>3
    <3>4. QED
      BY <3>2, <3>3
  <2>5. QED
    BY <2>1, <2>3, <2>4 DEF SweepTask
<1>11. ASSUME NEW j \in Invocations, Time(j) PROVE SweepTask(q)'
  <2>1. UNCHANGED <<state, lock, pc, cand>>
    BY <1>11 DEF Time, LeaseExpiresOnServer, LeaseExpiresForReaper, WindowLapses, TargetActs,
         rowVars, taskVars
  <2>2. \A i \in Invocations : lapsed[i] => lapsed'[i]
    <3>1. lapsed' = lapsed \/ lapsed' = [lapsed EXCEPT ![j] = TRUE]
      BY <1>11 DEF Time, LeaseExpiresOnServer, LeaseExpiresForReaper, WindowLapses, TargetActs,
           clockVars
    <3>2. lapsed \in [Invocations -> BOOLEAN]
      BY DEF IInv, TypeOK, WorldTypes
    <3>3. QED
      BY <3>1, <3>2
  <2>3. QED
    BY <1>e, <2>1, <2>2
<1>12. ASSUME \/ \E j \in Invocations : Tamper(j)
              \/ \E from, to : SetLifecycle(from, to)
              \/ UNCHANGED vars
       PROVE  SweepTask(q)'
  <2>1. UNCHANGED <<state, lock, lapsed, pc, cand>>
    BY <1>12 DEF Tamper, SetLifecycle, vars, rowVars, clockVars, taskVars
  <2>2. QED
    BY <1>e, <2>1
<1>13. ASSUME Step(q) \/ Disturb(q) PROVE SweepTask(q)'
  BY <1>2, <1>3, <1>4, <1>5, <1>6, <1>7, <1>8, <1>9, <1>13 DEF Step, Disturb
<1>14. QED
  BY <1>1, <1>10, <1>11, <1>12, <1>13
     DEF Next, People, DisableTool, EnableTool, RetireTool

(***************************************************************************)
(* GateInv holds throughout: what the gate decided, the sweeper's          *)
(* candidates and the bars on queued rows stay consistent.                 *)
(***************************************************************************)
THEOREM GateInvariance == Spec => []GateInv
<1>1. Init => GateInv
  BY ConstantsAssumption
     DEF Init, GateInv, GateRow, GateTask, SweepTask, Outcomes, Dispatching, Tasks, Queued
<1>2. ASSUME IInv, GateInv, [Next]_vars PROVE GateInv'
  <2>1. \A i \in Invocations : GateRow(i)'
    BY <1>2, GateRows
  <2>2. \A p \in Tasks : GateTask(p)' /\ SweepTask(p)'
    BY <1>2, GateTasks, SweepTasks
  <2>3. QED
    BY <2>1, <2>2 DEF GateInv
<1>3. QED
  BY <1>1, <1>2, Invariance, PTL DEF Spec

(***************************************************************************)
(* BarredNeverCalled: a row that was queued when its tool left service, or *)
(* whose envelope stopped recomputing, is never dispatched (_final_gate).  *)
(***************************************************************************)
THEOREM BarredNeverCalledTheorem == Spec => []BarredNeverCalled
<1>1. GateInv => BarredNeverCalled
  BY DEF GateInv, GateRow, BarredNeverCalled
<1>2. QED
  BY <1>1, GateInvariance, PTL

(***************************************************************************)
(* GateExplainsOutcome: the recorded decision is ALLOW for an outcome of   *)
(* the adapter, DENY for a claimed row that expired, and absent while a    *)
(* worker runs or was lost (record_final_gate_if_owned).                   *)
(***************************************************************************)
THEOREM GateExplainsOutcomeTheorem == Spec => []GateExplainsOutcome
<1>1. GateInv => GateExplainsOutcome
  BY DEF GateInv, GateRow, GateExplainsOutcome
<1>2. QED
  BY <1>1, GateInvariance, PTL

(***************************************************************************)
(* SweepSparesFresh: whatever happened between the sweeper's query and its *)
(* commit, a queued row expires only when its current window is over       *)
(* (ApprovalSweeper.expire_stale).                                         *)
(***************************************************************************)
THEOREM SweepSparesFreshTheorem == Spec => SweepSparesFresh
<1>1. ASSUME IInv, GateInv, [Next]_vars, NEW i \in Invocations,
             state[i] \in Queued, state'[i] = "EXPIRED"
      PROVE  lapsed[i]
  <2>1. state'[i] # state[i]
    BY <1>1 DEF Queued
  <2>2. ASSUME NEW p \in Tasks, Step(p) \/ Disturb(p) PROVE lapsed[i]
    <3>1. CASE Claim(p)
      BY <1>1, <3>1 DEF Claim, IInv, TypeOK, RowTypes, Queued
    <3>2. CASE CallAdapter(p)
      BY <2>1, <3>2 DEF CallAdapter, rowVars
    <3>3. CASE CommitExecution(p) \/ CommitReap(p)
      <4>1. pc[p] \in {"commit", "reaping"} /\ Publish(p)
        BY <3>3 DEF CommitExecution, CommitReap
      <4>2. QED
        BY <1>1, <2>1, <4>1, Publishes DEF Queued
    <3>4. CASE CommitSweep(p)
      <4>1. pc[p] = "sweeping" /\ Publish(p)
        BY <3>4 DEF CommitSweep
      <4>2. lock[i] = p
        BY <1>1, <2>1, <4>1, Publishes
      <4>3. QED
        BY <1>1, <4>1, <4>2 DEF GateInv, SweepTask
    <3>5. QED
      BY <2>1, <2>2, <3>1, <3>2, <3>3, <3>4, TasksUntouched DEF GateUntouched
  <2>3. ASSUME NEW j \in Invocations,
               \/ Create(j) \/ (\E p \in Callers : CreateInline(p, j))
               \/ Approve(j) \/ Deny(j) \/ Cancel(j)
        PROVE  FALSE
    BY <1>1, <2>1, <2>3, PeopleMove DEF Queued
  <2>4. ASSUME \/ \E j \in Invocations : Tamper(j) \/ Time(j)
               \/ \E from, to : SetLifecycle(from, to)
               \/ UNCHANGED vars
        PROVE  FALSE
    BY <2>1, <2>4 DEF Tamper, Time, LeaseExpiresOnServer, LeaseExpiresForReaper, WindowLapses,
         TargetActs, SetLifecycle, vars, rowVars
  <2>5. QED
    BY <1>1, <2>2, <2>3, <2>4 DEF Next, People, DisableTool, EnableTool, RetireTool
<1>2. IInv /\ GateInv /\ [Next]_vars =>
        [\A i \in Invocations :
           state[i] \in Queued /\ state'[i] = "EXPIRED" => lapsed[i]]_vars
  BY <1>1
<1>3. QED
  BY <1>2, Invariance, GateInvariance, PTL DEF Spec, SweepSparesFresh
=============================================================================
