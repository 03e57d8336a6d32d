---------------------------- MODULE ToolRegistry ----------------------------
(***************************************************************************)
(* The code registry, its reconciliation into tool_registration at         *)
(* start-up, and the administrators who disable and enable tool versions   *)
(* meanwhile (tools/registry.py, api/routes/tools.py, main.py lifespan,    *)
(* models/tool.py ToolRegistration).                                       *)
(*                                                                         *)
(* Several API processes run at once, each with its own build (a rolling   *)
(* deploy, a rollback).  Reconciliation and the two endpoints read rows    *)
(* without locking them and write later, so each is two steps: what was    *)
(* read, and the flush and commit, which the table's constraints may       *)
(* refuse.  A flush writes only the columns whose value differs from the   *)
(* one read: a column set to what it already was is not in the UPDATE.     *)
(***************************************************************************)
EXTENDS Naturals, FiniteSets, ToolVocabulary

CONSTANTS
  Tools,      \* (tool_name, tool_version) keys
  Contracts,  \* contract hashes
  Builds,     \* what a deployed build declares: [some Tools -> declaration]
  Processes,  \* API processes
  Requests,   \* disable and enable requests ever made
  Admins,     \* subjects of their administrators
  Reasons,    \* reasons they state
  MaxOutages, \* how often the database may be out of reach
  MaxStarts,  \* how often processes may be started
  Absent      \* no row; no value in a nullable column

Declaration == [hash : Contracts, lifecycle_default : ToolLifecycle]

(* disabled_at is only compared with NULL, so it is a flag here; so is     *)
(* retired_at, which is written together with retired_reason.              *)
Row == [hash : Contracts, lifecycle_state : ToolLifecycle,
        disabled_at : BOOLEAN, disabled_by : Admins \cup {Absent},
        disabled_reason : Reasons \cup {Absent}, retired_at : BOOLEAN]

ASSUME RegistryAssumption ==
  /\ Builds # {}
  /\ \A b \in Builds : DOMAIN b \subseteq Tools
                       /\ \A t \in DOMAIN b : b[t] \in Declaration
  /\ MaxOutages \in Nat /\ MaxStarts \in Nat
  /\ Absent \notin Admins \cup Reasons \cup Row

VARIABLES
  registration, \* committed tool_registration rows
  proc,         \* where each process is in its lifespan
  build,        \* what it declares (CODE_REGISTRY)
  snapshot,     \* rows its reconciliation has read
  request,      \* each administrative request: status, and what it read
  executed,     \* tool executions, and whether their process had reconciled
  outages, starts

vars == <<registration, proc, build, snapshot, request, executed, outages,
          starts>>

Rows == [Tools -> Row \cup {Absent}]
NoRows == [t \in Tools |-> Absent]

Idle == [status |-> "new"]
Pending == [status : {"read"}, op : {"disable", "enable"}, tool : Tools,
            by : Admins, reason : Reasons, read : Row]
Answered == [status : {"200", "404", "500"}]

TypeOK ==
  /\ registration \in Rows
  /\ proc \in [Processes -> {"down", "starting", "writing", "serving",
                             "unreconciled", "refused"}]
  /\ build \in [Processes -> Builds]
  /\ snapshot \in [Processes -> Rows]
  /\ request \in [Requests -> {Idle} \cup Pending \cup Answered]
  /\ executed \subseteq [tool : Tools, hash : Contracts, reconciled : BOOLEAN]
  /\ outages \in 0..MaxOutages /\ starts \in 0..MaxStarts

Init ==
  /\ registration = NoRows
  /\ proc = [p \in Processes |-> "down"]
  /\ build = [p \in Processes |-> CHOOSE b \in Builds : TRUE]
  /\ snapshot = [p \in Processes |-> NoRows]
  /\ request = [r \in Requests |-> Idle]
  /\ executed = {} /\ outages = 0 /\ starts = 0

(* Mutant of Storable: disabled_state is not a constraint of the table.    *)
StorableNoDisabledState(row) ==
  /\ (row.lifecycle_state = "RETIRED") = row.retired_at
  /\ row.disabled_at = (row.disabled_by # Absent)
  /\ row.disabled_at = (row.disabled_reason # Absent)

(* The CHECK constraints of the table.                                     *)
Storable(row) ==
  /\ (row.lifecycle_state = "DISABLED") = row.disabled_at
  /\ (row.lifecycle_state = "RETIRED") = row.retired_at
  /\ row.disabled_at = (row.disabled_by # Absent)
  /\ row.disabled_at = (row.disabled_reason # Absent)

Enter(p, where) == proc' = [proc EXCEPT ![p] = where]
Forget(p) == snapshot' = [snapshot EXCEPT ![p] = NoRows]

-----------------------------------------------------------------------------
(* Start-up and reconciliation                                             *)

(* A process is started with some build: a deploy, a rollback, a restart.  *)
StartProcess(p, b) ==
  /\ proc[p] \in {"down", "refused"}
  /\ starts < MaxStarts
  /\ starts' = starts + 1
  /\ build' = [build EXCEPT ![p] = b]
  /\ Enter(p, "starting")
  /\ UNCHANGED <<registration, snapshot, request, executed, outages>>

StopProcess(p) ==
  /\ proc[p] \in {"serving", "unreconciled"}
  /\ Enter(p, "down")
  /\ UNCHANGED <<registration, build, snapshot, request, executed, outages,
                 starts>>

(* Mutant of AllowRehash: start-up accepts a contract edited in place.     *)
RehashAllowed == TRUE

(* reconcile's allow_rehash: no caller passes it.                          *)
AllowRehash == FALSE

(* A stored hash differs from the declared one.                            *)
Drifted(p, t) ==
  /\ t \in DOMAIN build[p]
  /\ registration[t] # Absent
  /\ registration[t].hash # build[p][t].hash

(* reconcile: every row is read, and a drift stops the process before      *)
(* anything is written.                                                    *)
ReadRows(p) ==
  /\ proc[p] = "starting"
  /\ IF ~AllowRehash /\ \E t \in Tools : Drifted(p, t)
     THEN Enter(p, "refused") /\ UNCHANGED snapshot
     ELSE /\ Enter(p, "writing")
          /\ snapshot' = [snapshot EXCEPT ![p] = registration]
  /\ UNCHANGED <<registration, build, request, executed, outages, starts>>

New(p) == {t \in DOMAIN build[p] : snapshot[p][t] = Absent}

(* Rows no declaration is left for, unless retired already.                *)
Orphans(p) ==
  {t \in Tools \ DOMAIN build[p] :
     snapshot[p][t] # Absent /\ snapshot[p][t].lifecycle_state # "RETIRED"}

Rehashed(p) ==
  {t \in DOMAIN build[p] :
     snapshot[p][t] # Absent /\ snapshot[p][t].hash # build[p][t].hash}

Inserted(declaration) ==
  [hash |-> declaration.hash, lifecycle_state |-> declaration.lifecycle_default,
   disabled_at |-> FALSE, disabled_by |-> Absent, disabled_reason |-> Absent,
   retired_at |-> FALSE]
Retired(row) == [row EXCEPT !.lifecycle_state = "RETIRED", !.retired_at = TRUE]

(* Mutant of Reconciled: an unchanged row is put back to the declared      *)
(* default.                                                                *)
ReconciledAfresh(p) ==
  [t \in Tools |-> IF t \in DOMAIN build[p] THEN Inserted(build[p][t])
                   ELSE IF t \in Orphans(p) THEN Retired(registration[t])
                   ELSE registration[t]]

Reconciled(p) ==
  [t \in Tools |->
     IF t \in New(p) THEN Inserted(build[p][t])
     ELSE IF t \in Orphans(p) THEN Retired(registration[t])
     ELSE IF t \in Rehashed(p) THEN [registration[t] EXCEPT !.hash = build[p][t].hash]
     ELSE registration[t]]

(* uq_tool_registration_nv and the CHECK constraints.                      *)
Acceptable(p) ==
  /\ \A t \in New(p) : registration[t] = Absent
  /\ \A t \in New(p) \cup Orphans(p) : Storable(Reconciled(p)[t])

(* The flush and the commit.  When a constraint refuses, all of it is      *)
(* rolled back, the exception is logged and the process serves all the     *)
(* same, without its worker.                                               *)
WriteRows(p) ==
  /\ proc[p] = "writing"
  /\ IF Acceptable(p)
     THEN registration' = Reconciled(p) /\ Enter(p, "serving")
     ELSE UNCHANGED registration /\ Enter(p, "unreconciled")
  /\ Forget(p)
  /\ UNCHANGED <<build, request, executed, outages, starts>>

(* The database cannot be reached, or the connection goes while committing *)
(* (the commit may have happened).                                         *)
LoseDatabase(p) ==
  /\ proc[p] \in {"starting", "writing"}
  /\ outages < MaxOutages
  /\ outages' = outages + 1
  /\ registration' \in
       {registration} \cup
       (IF proc[p] = "writing" /\ Acceptable(p) THEN {Reconciled(p)} ELSE {})
  /\ Enter(p, "unreconciled")
  /\ Forget(p)
  /\ UNCHANGED <<build, request, executed, starts>>

-----------------------------------------------------------------------------
(* POST /tools/{name}/disable and /enable                                  *)

Live(p) == proc[p] \in {"serving", "unreconciled"}
Answer(r, code) == request' = [request EXCEPT ![r] = [status |-> code]]

(* _lifecycle_target and, for an enable, the refusal of a retired tool.    *)
ReadTarget(r, p, op, t, by, reason) ==
  /\ request[r] = Idle /\ Live(p)
  /\ IF registration[t] = Absent \/ t \notin DOMAIN build[p]
        \/ (op = "enable" /\ registration[t].lifecycle_state = "RETIRED")
     THEN Answer(r, "404")
     ELSE request' = [request EXCEPT ![r] =
            [status |-> "read", op |-> op, tool |-> t, by |-> by,
             reason |-> reason, read |-> registration[t]]]
  /\ UNCHANGED <<registration, proc, build, snapshot, executed, outages, starts>>

(* A column is in the UPDATE only if its new value differs from the one    *)
(* read.                                                                   *)
Column(now, read, new) == IF new = read THEN now ELSE new

(* disabled_at is set to the current time: it always differs.              *)
DisabledRow(now, q) ==
  [now EXCEPT
     !.lifecycle_state = Column(@, q.read.lifecycle_state, "DISABLED"),
     !.disabled_at = TRUE,
     !.disabled_by = Column(@, q.read.disabled_by, q.by),
     !.disabled_reason = Column(@, q.read.disabled_reason, q.reason)]

EnabledRow(now, q) ==
  [now EXCEPT
     !.lifecycle_state = Column(@, q.read.lifecycle_state, "ACTIVE"),
     !.disabled_at = Column(@, q.read.disabled_at, FALSE),
     !.disabled_by = Column(@, q.read.disabled_by, Absent),
     !.disabled_reason = Column(@, q.read.disabled_reason, Absent)]

(* The flush, the audit record and the commit.  A request whose process is *)
(* killed never gets here; one that is served to its end does.             *)
WriteLifecycle(r) ==
  /\ request[r].status = "read"
  /\ LET q == request[r]
         row == IF q.op = "disable" THEN DisabledRow(registration[q.tool], q)
                                    ELSE EnabledRow(registration[q.tool], q)
     IN  IF Storable(row)
         THEN /\ registration' = [registration EXCEPT ![q.tool] = row]
              /\ Answer(r, "200")
         ELSE UNCHANGED registration /\ Answer(r, "500")
  /\ UNCHANGED <<proc, build, snapshot, executed, outages, starts>>

-----------------------------------------------------------------------------
(* An inline invocation at p: gates 1 and 2, then the same two at the      *)
(* final gate; the adapter is the one p's own declaration names.           *)
Execute(p, t) ==
  /\ Live(p)
  /\ t \in DOMAIN build[p]
  /\ registration[t] # Absent
  /\ registration[t].lifecycle_state = "ACTIVE"
  /\ executed' = executed \cup {[tool |-> t, hash |-> build[p][t].hash,
                                 reconciled |-> proc[p] = "serving"]}
  /\ UNCHANGED <<registration, proc, build, snapshot, request, outages, starts>>

Next ==
  \/ \E p \in Processes :
       \/ \E b \in Builds : StartProcess(p, b)
       \/ StopProcess(p)
       \/ ReadRows(p)
       \/ WriteRows(p)
       \/ LoseDatabase(p)
       \/ \E t \in Tools : Execute(p, t)
  \/ \E r \in Requests :
       \/ \E p \in Processes, op \in {"disable", "enable"}, t \in Tools,
             by \in Admins, reason \in Reasons :
            ReadTarget(r, p, op, t, by, reason)
       \/ WriteLifecycle(r)

Spec == Init /\ [][Next]_vars

-----------------------------------------------------------------------------
(* A process that has reconciled serves no contract other than the stored  *)
(* one, whatever other builds reconciled in between (reconcile's refusal). *)
DriftNeverServed ==
  \A p \in Processes : proc[p] = "serving" =>
    \A t \in DOMAIN build[p] :
      registration[t] # Absent /\ registration[t].hash = build[p][t].hash

(* No two processes that reconciled disagree on what a tool version is, so *)
(* an approval given through one means the same when the other executes it.*)
BuildsAgree ==
  \A p, q \in Processes :
    proc[p] = "serving" /\ proc[q] = "serving" =>
      \A t \in DOMAIN build[p] \cap DOMAIN build[q] :
        build[p][t].hash = build[q][t].hash

(* A row is never deleted and its contract hash never rewritten: nobody    *)
(* passes allow_rehash (reconcile's docstring).                            *)
ContractFixed ==
  [][\A t \in Tools : registration[t] # Absent =>
       registration'[t] # Absent /\ registration'[t].hash = registration[t].hash]_vars

(* Neither a restart, nor a deploy, nor a stale write brings a disabled or *)
(* retired tool back: only an administrator's enable that read it DISABLED *)
(* does (enable_tool; reconcile leaves a known row's lifecycle alone).     *)
OnlyEnableRevives ==
  [][\A t \in Tools :
       registration[t] # Absent /\ registration[t].lifecycle_state # "ACTIVE"
         /\ registration'[t].lifecycle_state = "ACTIVE" =>
       \E r \in Requests :
         /\ request[r].status = "read" /\ request'[r].status = "200"
         /\ request[r].op = "enable" /\ request[r].tool = t
         /\ request[r].read.lifecycle_state = "DISABLED"]_vars

(* An administrator who was told the tool is disabled left a disabled row  *)
(* behind, also when an enable or a reconciliation got in between: the     *)
(* partial UPDATE of a stale read is refused by the table, not stored.     *)
AcknowledgedDisable ==
  [][\A r \in Requests :
       request[r].status = "read" /\ request'[r].status = "200"
         /\ request[r].op = "disable" =>
       registration'[request[r].tool].lifecycle_state = "DISABLED"]_vars

(* What ADR-0014 and main.py say of a failed start-up: no tool can execute *)
(* until reconciliation succeeds.  Stated for the executions that matter:  *)
(* nothing executes under a contract that reconciliation would refuse.     *)
NothingBeforeReconciliation ==
  \A e \in executed : e.reconciled \/ e.hash = registration[e.tool].hash

(* What enable_tool says of a retired tool: restoring it is a deploy.  A   *)
(* process that declares it and reconciles leaves it usable.               *)
RestoredByDeploy ==
  [][\A p \in Processes :
       proc[p] = "writing" /\ proc'[p] = "serving" =>
         \A t \in DOMAIN build[p] :
           registration'[t].lifecycle_state # "RETIRED"]_vars

(* What adding-a-tool.md says of removing a tool: reconciliation marks the *)
(* row RETIRED.                                                            *)
RemovalRetires ==
  [][\A p \in Processes :
       proc[p] = "writing" /\ proc'[p] # "writing" =>
         \A t \in Orphans(p) : registration'[t].lifecycle_state = "RETIRED"]_vars

=============================================================================
