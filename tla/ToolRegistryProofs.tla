------------------------- MODULE ToolRegistryProofs -------------------------
(***************************************************************************)
(* A tool version keeps one contract, and only an administrator's enable   *)
(* brings it back into service: for any number of processes, builds,       *)
(* outages, administrators and requests.                                   *)
(*                                                                         *)
(* DriftNeverServed is not inductive: between reading the rows and writing *)
(* them a process relies on what it read.  IInv says what that is worth: a *)
(* row once read is still there with the same contract hash, and it was    *)
(* compared with the build.                                                *)
(***************************************************************************)
EXTENDS ToolRegistry, TLAPS

SameContract(old, new) == old # Absent => new # Absent /\ new.hash = old.hash

SnapshotsHold ==
  \A p \in Processes : proc[p] = "writing" =>
    \A t \in Tools : SameContract(snapshot[p][t], registration[t])

SnapshotsCompared ==
  \A p \in Processes : proc[p] = "writing" =>
    \A t \in DOMAIN build[p] :
      snapshot[p][t] # Absent => snapshot[p][t].hash = build[p][t].hash

TargetsExist ==
  \A r \in Requests : request[r].status = "read" =>
    registration[request[r].tool] # Absent

IInv == TypeOK /\ SnapshotsHold /\ SnapshotsCompared /\ TargetsExist
        /\ DriftNeverServed

RowsKept == \A t \in Tools : SameContract(registration[t], registration'[t])

(* A declaration inserts a row, and the row has its contract.              *)
LEMMA InsertedRow ==
  ASSUME NEW d \in Declaration
  PROVE  Inserted(d) \in Row /\ Inserted(d) # Absent /\ Inserted(d).hash = d.hash
<1>1. Inserted(d) \in Row /\ Inserted(d).hash = d.hash
  BY DEF Inserted, Declaration, Row
<1> QED BY <1>1, RegistryAssumption

LEMMA RetiredRow ==
  ASSUME NEW row \in Row
  PROVE  /\ Retired(row) \in Row /\ Retired(row) # Absent
         /\ Retired(row).hash = row.hash
<1>1. Retired(row) \in Row /\ Retired(row).hash = row.hash
  BY DEF Retired, Row, ToolLifecycle
<1> QED BY <1>1, RegistryAssumption

(* A disable or an enable rewrites any columns but the contract hash.      *)
LEMMA LifecycleRow ==
  ASSUME NEW row \in Row, NEW q \in Pending
  PROVE  /\ DisabledRow(row, q) \in Row /\ DisabledRow(row, q).hash = row.hash
         /\ EnabledRow(row, q) \in Row /\ EnabledRow(row, q).hash = row.hash
<1>1. /\ q.by \in Admins /\ q.reason \in Reasons
  BY DEF Pending
<1>2. /\ row.lifecycle_state \in ToolLifecycle
      /\ row.disabled_at \in BOOLEAN
      /\ row.disabled_by \in Admins \cup {Absent}
      /\ row.disabled_reason \in Reasons \cup {Absent}
  BY DEF Row
<1>3. /\ Column(row.lifecycle_state, q.read.lifecycle_state, "DISABLED") \in ToolLifecycle
      /\ Column(row.lifecycle_state, q.read.lifecycle_state, "ACTIVE") \in ToolLifecycle
  BY <1>2 DEF Column, ToolLifecycle
<1>4. Column(row.disabled_at, q.read.disabled_at, FALSE) \in BOOLEAN
  <2>1. CASE FALSE = q.read.disabled_at
    BY <1>2, <2>1 DEF Column
  <2>2. CASE FALSE # q.read.disabled_at
    BY <2>2 DEF Column
  <2> QED BY <2>1, <2>2
<1>5. /\ Column(row.disabled_by, q.read.disabled_by, q.by) \in Admins \cup {Absent}
      /\ Column(row.disabled_by, q.read.disabled_by, Absent) \in Admins \cup {Absent}
      /\ Column(row.disabled_reason, q.read.disabled_reason, q.reason)
           \in Reasons \cup {Absent}
      /\ Column(row.disabled_reason, q.read.disabled_reason, Absent)
           \in Reasons \cup {Absent}
  BY <1>1, <1>2 DEF Column
<1>6. DisabledRow(row, q) \in Row /\ DisabledRow(row, q).hash = row.hash
  BY <1>3, <1>5 DEF DisabledRow, Row
<1>7. EnabledRow(row, q) \in Row /\ EnabledRow(row, q).hash = row.hash
  BY <1>3, <1>4, <1>5 DEF EnabledRow, Row
<1> QED BY <1>6, <1>7

(* What a reconciliation commits: new rows for new declarations, and the   *)
(* contract of every other row as it was.                                  *)
LEMMA ReconciledRows ==
  ASSUME IInv, NEW p \in Processes, proc[p] = "writing", Acceptable(p)
  PROVE  /\ Reconciled(p) \in Rows
         /\ \A t \in Tools : SameContract(registration[t], Reconciled(p)[t])
         /\ \A t \in DOMAIN build[p] : Reconciled(p)[t] # Absent
                                       /\ Reconciled(p)[t].hash = build[p][t].hash
<1>1. build[p] \in Builds /\ DOMAIN build[p] \subseteq Tools
      /\ \A t \in DOMAIN build[p] : build[p][t] \in Declaration
  BY RegistryAssumption DEF IInv, TypeOK
<1>2. \A t \in Tools : registration[t] \in Row \cup {Absent}
                       /\ snapshot[p][t] \in Row \cup {Absent}
  BY DEF IInv, TypeOK, Rows
<1>3. Rehashed(p) = {}
  BY DEF Rehashed, IInv, SnapshotsCompared
<1>4. ASSUME NEW t \in Tools
      PROVE  /\ Reconciled(p)[t] \in Row \cup {Absent}
             /\ SameContract(registration[t], Reconciled(p)[t])
             /\ t \in DOMAIN build[p] => Reconciled(p)[t] # Absent
                                    /\ Reconciled(p)[t].hash = build[p][t].hash
  <2>1. CASE t \in New(p)
    <3>1. t \in DOMAIN build[p] /\ registration[t] = Absent
      BY <2>1 DEF New, Acceptable
    <3>2. Reconciled(p)[t] = Inserted(build[p][t])
      BY <2>1 DEF Reconciled
    <3> QED BY <1>1, <3>1, <3>2, InsertedRow DEF SameContract
  <2>2. CASE t \in Orphans(p) /\ t \notin New(p)
    <3>1. t \notin DOMAIN build[p] /\ snapshot[p][t] # Absent
      BY <2>2 DEF Orphans
    <3>2. registration[t] \in Row
      BY <1>2, <3>1 DEF IInv, SnapshotsHold, SameContract
    <3>3. Reconciled(p)[t] = Retired(registration[t])
      BY <2>2 DEF Reconciled
    <3> QED BY <3>1, <3>2, <3>3, RetiredRow DEF SameContract
  <2>3. CASE t \notin Orphans(p) /\ t \notin New(p)
    <3>1. Reconciled(p)[t] = registration[t]
      BY <1>3, <2>3 DEF Reconciled
    <3>2. t \in DOMAIN build[p] => snapshot[p][t] # Absent
      BY <2>3 DEF New
    <3>3. t \in DOMAIN build[p] =>
            registration[t] # Absent /\ registration[t].hash = build[p][t].hash
      BY <3>2 DEF IInv, SnapshotsHold, SnapshotsCompared, SameContract
    <3> QED BY <1>2, <3>1, <3>3 DEF SameContract
  <2> QED BY <2>1, <2>2, <2>3
<1>5. Reconciled(p) \in Rows
  <2>1. Reconciled(p) = [t \in Tools |-> Reconciled(p)[t]]
    BY DEF Reconciled
  <2> QED BY <1>4, <2>1 DEF Rows
<1> QED BY <1>1, <1>4, <1>5

LEMMA InitInv == Init => IInv
<1> SUFFICES ASSUME Init PROVE IInv
  OBVIOUS
<1>1. NoRows \in Rows
  BY DEF NoRows, Rows
<1>2. TypeOK
  <2>1. build \in [Processes -> Builds]
    BY RegistryAssumption DEF Init
  <2>2. proc \in [Processes -> {"down", "starting", "writing", "serving",
                               "unreconciled", "refused"}]
    BY DEF Init
  <2>3. outages \in 0..MaxOutages /\ starts \in 0..MaxStarts
    BY RegistryAssumption DEF Init
  <2> QED BY <1>1, <2>1, <2>2, <2>3 DEF Init, TypeOK
<1>3. \A p \in Processes : proc[p] = "down"
  BY DEF Init
<1>4. \A r \in Requests : request[r].status = "new"
  BY DEF Init, Idle
<1> QED BY <1>2, <1>3, <1>4
        DEF IInv, SnapshotsHold, SnapshotsCompared, TargetsExist, DriftNeverServed

(* A request that has read its target is well formed, and its target is a  *)
(* row.                                                                    *)
LEMMA ReadRequest ==
  ASSUME IInv, NEW r \in Requests, request[r].status = "read"
  PROVE  /\ request[r] \in Pending
         /\ request[r].tool \in Tools
         /\ registration[request[r].tool] \in Row
<1>1. request[r] \in {Idle} \cup Pending \cup Answered
  BY DEF IInv, TypeOK
<1>2. request[r] \in Pending
  BY <1>1 DEF Idle, Answered
<1>3. request[r].tool \in Tools
  BY <1>2 DEF Pending
<1> QED BY <1>2, <1>3 DEF IInv, TypeOK, TargetsExist, Rows

(* No step deletes a row or rewrites its contract.                         *)
LEMMA RowsStep ==
  ASSUME IInv, [Next]_vars
  PROVE  registration' \in Rows /\ RowsKept
<1>0. CASE UNCHANGED registration
  BY <1>0 DEF IInv, TypeOK, RowsKept, SameContract
<1>1. ASSUME NEW p \in Processes, WriteRows(p)
      PROVE  registration' \in Rows /\ RowsKept
  <2>1. CASE Acceptable(p)
    BY <1>1, <2>1, ReconciledRows DEF WriteRows, RowsKept
  <2>2. CASE ~Acceptable(p)
    BY <1>0, <1>1, <2>2 DEF WriteRows
  <2> QED BY <2>1, <2>2
<1>2. ASSUME NEW p \in Processes, LoseDatabase(p)
      PROVE  registration' \in Rows /\ RowsKept
  <2>1. CASE registration' = registration
    BY <1>0, <2>1
  <2>2. CASE proc[p] = "writing" /\ Acceptable(p) /\ registration' = Reconciled(p)
    BY <2>2, ReconciledRows DEF RowsKept
  <2> QED BY <1>2, <2>1, <2>2 DEF LoseDatabase
<1>3. ASSUME NEW r \in Requests, WriteLifecycle(r)
      PROVE  registration' \in Rows /\ RowsKept
  <2> DEFINE q == request[r]
             row == IF q.op = "disable" THEN DisabledRow(registration[q.tool], q)
                                        ELSE EnabledRow(registration[q.tool], q)
  <2>1. /\ q \in Pending /\ q.tool \in Tools /\ registration[q.tool] \in Row
    BY <1>3, ReadRequest DEF WriteLifecycle
  <2>2. row \in Row /\ row.hash = registration[q.tool].hash
    BY <2>1, LifecycleRow
  <2>3. row # Absent
    BY <2>2, RegistryAssumption
  <2>4. CASE Storable(row)
    <3>1. registration' = [registration EXCEPT ![q.tool] = row]
      BY <1>3, <2>4 DEF WriteLifecycle
    <3>2. registration \in Rows
      BY DEF IInv, TypeOK
    <3> HIDE DEF row, q
    <3> QED BY <2>1, <2>2, <2>3, <3>1, <3>2 DEF Rows, RowsKept, SameContract
  <2>5. CASE ~Storable(row)
    BY <1>0, <1>3, <2>5 DEF WriteLifecycle
  <2> QED BY <2>4, <2>5
<1>4. CASE UNCHANGED vars
  BY <1>0, <1>4 DEF vars
<1> QED
  BY <1>0, <1>1, <1>2, <1>3, <1>4
     DEF Next, StartProcess, StopProcess, ReadRows, ReadTarget, Execute

LEMMA TypeStep ==
  ASSUME IInv, [Next]_vars
  PROVE  TypeOK'
<1> USE DEF IInv, TypeOK
<1>1. registration' \in Rows
  BY RowsStep
<1>2. NoRows \in Rows
  BY DEF NoRows, Rows
<1>3. ASSUME NEW p \in Processes, NEW b \in Builds, StartProcess(p, b)
      PROVE  TypeOK'
  BY <1>1, <1>3, RegistryAssumption DEF StartProcess, Enter
<1>4. ASSUME NEW p \in Processes, StopProcess(p)
      PROVE  TypeOK'
  BY <1>1, <1>4 DEF StopProcess, Enter
<1>5. ASSUME NEW p \in Processes, ReadRows(p)
      PROVE  TypeOK'
  <2>1. proc' \in [Processes -> {"down", "starting", "writing", "serving",
                                "unreconciled", "refused"}]
    BY <1>5 DEF ReadRows, Enter
  <2>2. snapshot' \in [Processes -> Rows]
    BY <1>5 DEF ReadRows
  <2> QED BY <1>1, <1>5, <2>1, <2>2 DEF ReadRows
<1>6. ASSUME NEW p \in Processes, WriteRows(p)
      PROVE  TypeOK'
  <2>1. proc' \in [Processes -> {"down", "starting", "writing", "serving",
                                "unreconciled", "refused"}]
    BY <1>6 DEF WriteRows, Enter
  <2>2. snapshot' \in [Processes -> Rows]
    BY <1>2, <1>6 DEF WriteRows, Forget
  <2> QED BY <1>1, <1>6, <2>1, <2>2 DEF WriteRows
<1>7. ASSUME NEW p \in Processes, LoseDatabase(p)
      PROVE  TypeOK'
  <2>1. proc' \in [Processes -> {"down", "starting", "writing", "serving",
                                "unreconciled", "refused"}]
    BY <1>7 DEF LoseDatabase, Enter
  <2>2. snapshot' \in [Processes -> Rows]
    BY <1>2, <1>7 DEF LoseDatabase, Forget
  <2>3. outages' \in 0..MaxOutages
    BY <1>7, RegistryAssumption DEF LoseDatabase
  <2> QED BY <1>1, <1>7, <2>1, <2>2, <2>3 DEF LoseDatabase
<1>8. ASSUME NEW r \in Requests, NEW code \in {"200", "404", "500"},
             Answer(r, code)
      PROVE  request' \in [Requests -> {Idle} \cup Pending \cup Answered]
  BY <1>8 DEF Answer, Answered
<1>9. ASSUME NEW r \in Requests, NEW p \in Processes,
             NEW op \in {"disable", "enable"}, NEW t \in Tools,
             NEW by \in Admins, NEW reason \in Reasons,
             ReadTarget(r, p, op, t, by, reason)
      PROVE  TypeOK'
  <2> DEFINE Refused == registration[t] = Absent \/ t \notin DOMAIN build[p]
                        \/ (op = "enable" /\ registration[t].lifecycle_state = "RETIRED")
             new == [status |-> "read", op |-> op, tool |-> t, by |-> by,
                     reason |-> reason, read |-> registration[t]]
  <2>1. CASE Refused
    BY <1>1, <1>8, <1>9, <2>1 DEF ReadTarget
  <2>2. CASE ~Refused
    <3>1. registration[t] \in Row
      BY <2>2 DEF Rows
    <3>2. new \in Pending
      BY <3>1 DEF Pending
    <3>3. request' = [request EXCEPT ![r] = new]
      BY <1>9, <2>2 DEF ReadTarget
    <3>4. request' \in [Requests -> {Idle} \cup Pending \cup Answered]
      <4> HIDE DEF new
      <4> QED BY <3>2, <3>3
    <3> QED BY <1>1, <1>9, <3>4 DEF ReadTarget
  <2> QED BY <2>1, <2>2
<1>10. ASSUME NEW r \in Requests, WriteLifecycle(r)
       PROVE  TypeOK'
  <2>1. Answer(r, "200") \/ Answer(r, "500")
    BY <1>10 DEF WriteLifecycle
  <2> QED BY <1>1, <1>8, <1>10, <2>1 DEF WriteLifecycle
<1>11. ASSUME NEW p \in Processes, NEW t \in Tools, Execute(p, t)
       PROVE  TypeOK'
  <2>1. build[p][t] \in Declaration
    BY <1>11, RegistryAssumption DEF Execute
  <2> DEFINE one == [tool |-> t, hash |-> build[p][t].hash,
                     reconciled |-> proc[p] = "serving"]
  <2>2. one \in [tool : Tools, hash : Contracts, reconciled : BOOLEAN]
    <3>1. build[p][t].hash \in Contracts
      BY <2>1 DEF Declaration
    <3>2. CASE proc[p] = "serving"
      <4>1. one = [tool |-> t, hash |-> build[p][t].hash, reconciled |-> TRUE]
        BY <3>2, Zenon
      <4> QED BY <3>1, <4>1
    <3>3. CASE proc[p] # "serving"
      <4>1. one = [tool |-> t, hash |-> build[p][t].hash, reconciled |-> FALSE]
        BY <3>3, Zenon
      <4> QED BY <3>1, <4>1
    <3> QED BY <3>2, <3>3
  <2>3. executed' = executed \cup {one}
    BY <1>11 DEF Execute
  <2> HIDE DEF one
  <2> QED BY <1>1, <1>11, <2>2, <2>3 DEF Execute
<1>12. CASE UNCHANGED vars
  BY <1>12 DEF vars
<1> QED
  BY <1>3, <1>4, <1>5, <1>6, <1>7, <1>9, <1>10, <1>11, <1>12 DEF Next

LEMMA SnapshotStep ==
  ASSUME IInv, [Next]_vars
  PROVE  SnapshotsHold' /\ SnapshotsCompared'
<1>0. TypeOK /\ SnapshotsHold /\ SnapshotsCompared /\ RowsKept
  BY RowsStep DEF IInv
<1>1. SUFFICES ASSUME NEW p \in Processes, proc'[p] = "writing"
               PROVE  /\ \A t \in Tools :
                           SameContract(snapshot'[p][t], registration'[t])
                      /\ \A t \in DOMAIN build'[p] :
                           snapshot'[p][t] # Absent =>
                             snapshot'[p][t].hash = build'[p][t].hash
  BY DEF SnapshotsHold, SnapshotsCompared
<1>2. CASE proc[p] = "writing" /\ UNCHANGED <<snapshot[p], build[p]>>
  BY <1>0, <1>2
     DEF SnapshotsHold, SnapshotsCompared, RowsKept, SameContract
<1>3. CASE ReadRows(p)
  <2>1. /\ snapshot'[p] = registration /\ UNCHANGED <<registration, build>>
        /\ \A t \in Tools : ~Drifted(p, t)
    BY <1>0, <1>1, <1>3 DEF ReadRows, Enter, TypeOK, AllowRehash
  <2>2. DOMAIN build[p] \subseteq Tools
    BY <1>0, RegistryAssumption DEF TypeOK
  <2> QED BY <2>1, <2>2 DEF Drifted, SameContract
<1>4. \/ proc[p] = "writing" /\ UNCHANGED <<snapshot[p], build[p]>>
      \/ ReadRows(p)
  <2> USE <1>0, <1>1 DEF TypeOK
  <2>1. ASSUME NEW q \in Processes, NEW b \in Builds, StartProcess(q, b)
        PROVE  proc[p] = "writing" /\ UNCHANGED <<snapshot[p], build[p]>>
    BY <2>1 DEF StartProcess, Enter
  <2>2. ASSUME NEW q \in Processes, StopProcess(q)
        PROVE  proc[p] = "writing" /\ UNCHANGED <<snapshot[p], build[p]>>
    BY <2>2 DEF StopProcess, Enter
  <2>3. ASSUME NEW q \in Processes, ReadRows(q)
        PROVE  \/ proc[p] = "writing" /\ UNCHANGED <<snapshot[p], build[p]>>
               \/ ReadRows(p)
    BY <2>3 DEF ReadRows, Enter
  <2>4. ASSUME NEW q \in Processes, WriteRows(q)
        PROVE  proc[p] = "writing" /\ UNCHANGED <<snapshot[p], build[p]>>
    BY <2>4 DEF WriteRows, Enter, Forget
  <2>5. ASSUME NEW q \in Processes, LoseDatabase(q)
        PROVE  proc[p] = "writing" /\ UNCHANGED <<snapshot[p], build[p]>>
    BY <2>5 DEF LoseDatabase, Enter, Forget
  <2>6. CASE UNCHANGED <<proc, snapshot, build>>
    BY <2>6
  <2> QED
    BY <2>1, <2>2, <2>3, <2>4, <2>5, <2>6
       DEF Next, ReadTarget, WriteLifecycle, Execute, vars
<1> QED BY <1>2, <1>3, <1>4

LEMMA TargetStep ==
  ASSUME IInv, [Next]_vars
  PROVE  TargetsExist'
<1>0. TypeOK /\ TargetsExist /\ RowsKept
  BY RowsStep DEF IInv
<1>1. SUFFICES ASSUME NEW r \in Requests, request'[r].status = "read"
               PROVE  registration'[request'[r].tool] # Absent
  BY DEF TargetsExist
<1>2. CASE request'[r] = request[r]
  <2>1. request[r].tool \in Tools /\ registration[request[r].tool] # Absent
    BY <1>1, <1>2, ReadRequest, <1>0 DEF TargetsExist
  <2> QED BY <1>0, <1>2, <2>1 DEF RowsKept, SameContract
<1>3. ASSUME NEW q \in Requests, NEW p \in Processes,
             NEW op \in {"disable", "enable"}, NEW t \in Tools,
             NEW by \in Admins, NEW reason \in Reasons,
             ReadTarget(q, p, op, t, by, reason)
      PROVE  registration'[request'[r].tool] # Absent
  <2>1. CASE q # r
    <3>1. request'[r] = request[r]
      BY <1>0, <1>3, <2>1 DEF ReadTarget, Answer, TypeOK
    <3> QED BY <1>2, <3>1
  <2>2. CASE q = r
    <3>1. \A code \in {"200", "404", "500"} : ~Answer(r, code)
      BY <1>0, <1>1 DEF Answer, TypeOK
    <3>2. registration[t] # Absent /\ request'[r].tool = t
      BY <1>0, <1>3, <2>2, <3>1 DEF ReadTarget, TypeOK
    <3> QED BY <1>3, <3>2 DEF ReadTarget
  <2> QED BY <2>1, <2>2
<1>4. ASSUME NEW q \in Requests, WriteLifecycle(q)
      PROVE  registration'[request'[r].tool] # Absent
  <2>1. Answer(q, "200") \/ Answer(q, "500")
    BY <1>4 DEF WriteLifecycle
  <2>2. request'[r] = request[r]
    BY <1>0, <1>1, <2>1 DEF Answer, TypeOK
  <2> QED BY <1>2, <2>2
<1>5. CASE UNCHANGED request
  BY <1>2, <1>5
<1> QED
  BY <1>3, <1>4, <1>5
     DEF Next, StartProcess, StopProcess, ReadRows, WriteRows, LoseDatabase,
         Execute, vars

LEMMA ServedStep ==
  ASSUME IInv, [Next]_vars
  PROVE  DriftNeverServed'
<1>0. TypeOK /\ DriftNeverServed /\ RowsKept
  BY RowsStep DEF IInv
<1>1. SUFFICES ASSUME NEW p \in Processes, proc'[p] = "serving",
                      NEW t \in DOMAIN build'[p]
               PROVE  /\ registration'[t] # Absent
                      /\ registration'[t].hash = build'[p][t].hash
  BY DEF DriftNeverServed
<1>2. CASE proc[p] = "serving" /\ build'[p] = build[p]
  <2>1. t \in Tools
    BY <1>0, <1>1, <1>2, RegistryAssumption DEF TypeOK
  <2> QED BY <1>0, <1>1, <1>2, <2>1 DEF DriftNeverServed, RowsKept, SameContract
<1>3. CASE WriteRows(p)
  <2>1. Acceptable(p) /\ registration' = Reconciled(p) /\ build' = build
    BY <1>0, <1>1, <1>3 DEF WriteRows, Enter, TypeOK
  <2> QED BY <1>1, <1>3, <2>1, ReconciledRows DEF WriteRows
<1>4. (proc[p] = "serving" /\ build'[p] = build[p]) \/ WriteRows(p)
  <2> USE <1>0, <1>1 DEF TypeOK
  <2>1. ASSUME NEW q \in Processes, NEW b \in Builds, StartProcess(q, b)
        PROVE  proc[p] = "serving" /\ build'[p] = build[p]
    BY <2>1 DEF StartProcess, Enter
  <2>2. ASSUME NEW q \in Processes, WriteRows(q)
        PROVE  (proc[p] = "serving" /\ build'[p] = build[p]) \/ WriteRows(p)
    BY <2>2 DEF WriteRows, Enter
  <2>3. ASSUME NEW q \in Processes,
               StopProcess(q) \/ ReadRows(q) \/ LoseDatabase(q)
        PROVE  proc[p] = "serving" /\ build'[p] = build[p]
    BY <2>3 DEF StopProcess, ReadRows, LoseDatabase, Enter
  <2>4. CASE UNCHANGED <<proc, build>>
    BY <2>4
  <2> QED
    BY <2>1, <2>2, <2>3, <2>4 DEF Next, ReadTarget, WriteLifecycle, Execute, vars
<1> QED BY <1>2, <1>3, <1>4

LEMMA InvStep == IInv /\ [Next]_vars => IInv'
  BY TypeStep, SnapshotStep, TargetStep, ServedStep DEF IInv

THEOREM Invariance == Spec => []IInv
  BY InitInv, InvStep, PTL DEF Spec

(* TypeOK: the table, the processes, the requests keep their types.        *)
THEOREM TypeCorrect == Spec => []TypeOK
<1>1. IInv => TypeOK
  BY DEF IInv
<1> QED BY <1>1, Invariance, PTL

(* A process that has reconciled serves no contract but the stored one:    *)
(* reconcile's refusal works under concurrent start-ups, insertions,       *)
(* retirements and lifecycle changes.                                      *)
THEOREM DriftTheorem == Spec => []DriftNeverServed
<1>1. IInv => DriftNeverServed
  BY DEF IInv
<1> QED BY <1>1, Invariance, PTL

(* Hence processes that have reconciled agree about every tool version     *)
(* both declare.                                                           *)
THEOREM AgreementTheorem == Spec => []BuildsAgree
<1>1. IInv => BuildsAgree
  <2> SUFFICES ASSUME IInv, NEW p \in Processes, NEW q \in Processes,
                      proc[p] = "serving", proc[q] = "serving",
                      NEW t \in DOMAIN build[p] \cap DOMAIN build[q]
               PROVE  build[p][t].hash = build[q][t].hash
    BY DEF BuildsAgree
  <2> QED BY DEF IInv, DriftNeverServed
<1> QED BY <1>1, Invariance, PTL

(* No step of any actor deletes a registration or rewrites its contract.   *)
THEOREM ContractTheorem == Spec => ContractFixed
<1>1. IInv /\ [Next]_vars =>
        [\A t \in Tools : registration[t] # Absent =>
           registration'[t] # Absent
           /\ registration'[t].hash = registration[t].hash]_vars
  BY RowsStep DEF RowsKept, SameContract
<1> QED BY <1>1, Invariance, PTL DEF Spec, ContractFixed

-----------------------------------------------------------------------------
(* Disabling and enabling                                                  *)

(* A retired tool is refused before an enable reads it (_lifecycle_target).*)
EnablesReadUnretired ==
  \A r \in Requests : request[r].status = "read" /\ request[r].op = "enable" =>
    request[r].read.lifecycle_state # "RETIRED"

(* A request is written by itself only: it reads its target once, and ends *)
(* by writing it.                                                          *)
LEMMA RequestSteps ==
  ASSUME IInv, [Next]_vars, NEW r \in Requests, request'[r] # request[r]
  PROVE  \/ WriteLifecycle(r)
         \/ \E p \in Processes, op \in {"disable", "enable"}, t \in Tools,
              by \in Admins, reason \in Reasons : ReadTarget(r, p, op, t, by, reason)
<1>a. request \in [Requests -> {Idle} \cup Pending \cup Answered]
  BY DEF IInv, TypeOK
<1>1. ASSUME NEW q \in Requests \ {r}, NEW code, Answer(q, code) PROVE FALSE
  BY <1>a, <1>1 DEF Answer
<1>2. ASSUME NEW q \in Requests \ {r}, WriteLifecycle(q) PROVE FALSE
  BY <1>1, <1>2 DEF WriteLifecycle
<1>3. ASSUME NEW q \in Requests \ {r}, NEW p, NEW op, NEW t, NEW by, NEW reason,
             ReadTarget(q, p, op, t, by, reason)
      PROVE  FALSE
  <2>1. request' = [request EXCEPT ![q] =
          [status |-> "read", op |-> op, tool |-> t, by |-> by,
           reason |-> reason, read |-> registration[t]]]
    BY <1>1, <1>3 DEF ReadTarget
  <2>2. QED
    BY <1>a, <2>1
<1>4. CASE UNCHANGED request
  BY <1>4
<1>5. QED
  BY <1>2, <1>3, <1>4
     DEF Next, StartProcess, StopProcess, ReadRows, WriteRows, LoseDatabase, Execute, vars

LEMMA EnableStep ==
  ASSUME IInv, EnablesReadUnretired, [Next]_vars
  PROVE  EnablesReadUnretired'
<1>1. SUFFICES ASSUME NEW r \in Requests, request'[r] # request[r],
                      request'[r].status = "read", request'[r].op = "enable"
               PROVE  request'[r].read.lifecycle_state # "RETIRED"
  BY DEF EnablesReadUnretired
<1>a. request \in [Requests -> {Idle} \cup Pending \cup Answered]
  BY DEF IInv, TypeOK
<1>2. \A code \in {"200", "404", "500"} : ~Answer(r, code)
  BY <1>1, <1>a DEF Answer
<1>3. ~WriteLifecycle(r)
  BY <1>2 DEF WriteLifecycle
<1>4. PICK p \in Processes, op \in {"disable", "enable"}, t \in Tools,
           by \in Admins, reason \in Reasons : ReadTarget(r, p, op, t, by, reason)
  BY <1>1, <1>3, RequestSteps
<1>5. /\ ~(op = "enable" /\ registration[t].lifecycle_state = "RETIRED")
      /\ request' = [request EXCEPT ![r] =
           [status |-> "read", op |-> op, tool |-> t, by |-> by,
            reason |-> reason, read |-> registration[t]]]
  BY <1>2, <1>4 DEF ReadTarget
<1>6. QED
  BY <1>1, <1>a, <1>5

(* A reconciliation activates only what it inserts.                        *)
LEMMA ReconciliationActivates ==
  ASSUME IInv, NEW p \in Processes, proc[p] = "writing", Acceptable(p), NEW t \in Tools,
         registration[t] # Absent, Reconciled(p)[t].lifecycle_state = "ACTIVE"
  PROVE  registration[t].lifecycle_state = "ACTIVE"
<1>1. Rehashed(p) = {}
  BY DEF Rehashed, IInv, SnapshotsCompared
<1>2. t \notin New(p)
  BY DEF Acceptable
<1>3. registration[t] \in Row
  BY DEF IInv, TypeOK, Rows
<1>4. Retired(registration[t]).lifecycle_state = "RETIRED"
  BY <1>3 DEF Retired, Row
<1>5. QED
  BY <1>1, <1>2, <1>4 DEF Reconciled

(* Only the enable of a tool that was read DISABLED turns a row ACTIVE.    *)
LEMMA WriteActivates ==
  ASSUME IInv, EnablesReadUnretired, NEW r \in Requests, WriteLifecycle(r), NEW t \in Tools,
         registration[t] # Absent, registration[t].lifecycle_state # "ACTIVE",
         registration'[t].lifecycle_state = "ACTIVE"
  PROVE  /\ request[r].status = "read" /\ request'[r].status = "200"
         /\ request[r].op = "enable" /\ request[r].tool = t
         /\ request[r].read.lifecycle_state = "DISABLED"
<1> DEFINE q == request[r]
           row == IF q.op = "disable" THEN DisabledRow(registration[q.tool], q)
                                      ELSE EnabledRow(registration[q.tool], q)
<1>1. /\ q.status = "read" /\ q \in Pending /\ q.tool \in Tools
      /\ registration[q.tool] \in Row
  BY ReadRequest DEF WriteLifecycle
<1>2. registration' = [registration EXCEPT ![q.tool] = row] /\ Answer(r, "200")
  BY DEF WriteLifecycle
<1>3. q.tool = t /\ registration'[t] = row
  <2> HIDE DEF q, row
  <2>1. registration \in Rows
    BY DEF IInv, TypeOK
  <2>2. QED
    BY <1>1, <1>2, <2>1 DEF Rows
<1>4. /\ q.op = "enable"
      /\ q.read.lifecycle_state # "ACTIVE"
  <2>1. DisabledRow(registration[t], q).lifecycle_state # "ACTIVE"
    BY <1>1, <1>3 DEF DisabledRow, Column, Row
  <2>2. q.op = "enable"
    BY <1>1, <1>3, <2>1 DEF Pending
  <2>3. EnabledRow(registration[t], q).lifecycle_state = "ACTIVE"
    BY <1>3, <2>2
  <2>4. q.read.lifecycle_state # "ACTIVE"
    BY <1>1, <1>3, <2>3 DEF EnabledRow, Column, Row
  <2>5. QED
    BY <2>2, <2>4
<1>5. q.read.lifecycle_state = "DISABLED"
  <2>1. q.read \in Row
    BY <1>1 DEF Pending
  <2>2. q.read.lifecycle_state \in ToolLifecycle
    BY <2>1 DEF Row
  <2>3. QED
    BY <1>1, <1>4, <2>2 DEF EnablesReadUnretired, ToolLifecycle
<1>6. request'[r].status = "200"
  BY <1>2 DEF Answer, IInv, TypeOK
<1>7. QED
  BY <1>1, <1>3, <1>4, <1>5, <1>6

(* In every reachable state a pending enable has read an unretired row.    *)
THEOREM EnableInvariance == Spec => []EnablesReadUnretired
<1>1. Init => EnablesReadUnretired
  BY DEF Init, Idle, EnablesReadUnretired
<1>2. QED
  BY <1>1, EnableStep, Invariance, PTL DEF Spec

(* Neither a restart, nor a deploy, nor a stale write brings a disabled or *)
(* retired tool back (enable_tool, reconcile).                             *)
THEOREM RevivalTheorem == Spec => OnlyEnableRevives
<1>1. ASSUME IInv, EnablesReadUnretired, [Next]_vars, NEW t \in Tools,
             registration[t] # Absent, registration[t].lifecycle_state # "ACTIVE",
             registration'[t].lifecycle_state = "ACTIVE"
      PROVE  \E r \in Requests :
               /\ request[r].status = "read" /\ request'[r].status = "200"
               /\ request[r].op = "enable" /\ request[r].tool = t
               /\ request[r].read.lifecycle_state = "DISABLED"
  <2>1. ASSUME NEW p \in Processes, WriteRows(p) \/ LoseDatabase(p) PROVE FALSE
    <3>1. registration' # registration
      BY <1>1
    <3>2. proc[p] = "writing" /\ Acceptable(p) /\ registration' = Reconciled(p)
      BY <2>1, <3>1 DEF WriteRows, LoseDatabase
    <3>3. QED
      BY <1>1, <3>2, ReconciliationActivates
  <2>2. ASSUME NEW r \in Requests, WriteLifecycle(r)
        PROVE  /\ request[r].status = "read" /\ request'[r].status = "200"
               /\ request[r].op = "enable" /\ request[r].tool = t
               /\ request[r].read.lifecycle_state = "DISABLED"
    BY <1>1, <2>2, WriteActivates
  <2>3. registration' # registration
    BY <1>1
  <2>4. QED
    BY <1>1, <2>1, <2>2, <2>3
       DEF Next, StartProcess, StopProcess, ReadRows, ReadTarget, Execute, vars
<1>2. IInv /\ EnablesReadUnretired /\ [Next]_vars =>
        [\A t \in Tools :
           registration[t] # Absent /\ registration[t].lifecycle_state # "ACTIVE"
             /\ registration'[t].lifecycle_state = "ACTIVE" =>
           \E r \in Requests :
             /\ request[r].status = "read" /\ request'[r].status = "200"
             /\ request[r].op = "enable" /\ request[r].tool = t
             /\ request[r].read.lifecycle_state = "DISABLED"]_vars
  BY <1>1
<1>3. QED
  BY <1>2, Invariance, EnableInvariance, PTL DEF Spec, OnlyEnableRevives

(* An administrator who was told the tool is disabled left a disabled row  *)
(* behind: the table refuses the partial UPDATE of a stale read            *)
(* (disable_tool, the CHECK disabled_state).                               *)
THEOREM DisableTheorem == Spec => AcknowledgedDisable
<1>1. ASSUME IInv, [Next]_vars, NEW r \in Requests, request[r].status = "read",
             request'[r].status = "200", request[r].op = "disable"
      PROVE  registration'[request[r].tool].lifecycle_state = "DISABLED"
  <2> DEFINE q == request[r]
             row == DisabledRow(registration[q.tool], q)
  <2>1. /\ q \in Pending /\ q.tool \in Tools /\ registration[q.tool] \in Row
    BY <1>1, ReadRequest
  <2>2. WriteLifecycle(r)
    <3>1. request'[r] # request[r] /\ request[r] # Idle
      BY <1>1 DEF Idle
    <3>2. QED
      BY <1>1, <3>1, RequestSteps DEF ReadTarget
  <2>3. Storable(row) /\ registration' = [registration EXCEPT ![q.tool] = row]
    <3>1. ~Answer(r, "500")
      BY <1>1 DEF Answer, IInv, TypeOK
    <3>2. QED
      BY <1>1, <2>2, <3>1 DEF WriteLifecycle
  <2>4. row.disabled_at = TRUE
    BY <2>1 DEF DisabledRow, Row
  <2>5. row.lifecycle_state = "DISABLED"
    BY <1>1, <2>3, <2>4 DEF Storable
  <2>6. registration'[q.tool] = row
    <3> HIDE DEF q, row
    <3>1. registration \in Rows
      BY <1>1 DEF IInv, TypeOK
    <3>2. QED
      BY <1>1, <2>1, <2>3, <3>1 DEF Rows
  <2>7. QED
    BY <2>5, <2>6
<1>2. IInv /\ [Next]_vars =>
        [\A r \in Requests :
           request[r].status = "read" /\ request'[r].status = "200"
             /\ request[r].op = "disable" =>
           registration'[request[r].tool].lifecycle_state = "DISABLED"]_vars
  BY <1>1
<1>3. QED
  BY <1>2, Invariance, PTL DEF Spec, AcknowledgedDisable
=============================================================================
