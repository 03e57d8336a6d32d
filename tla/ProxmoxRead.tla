---------------------------- MODULE ProxmoxRead ----------------------------
(***************************************************************************)
(* One read-only Proxmox tool, run by the dispatcher against a cluster     *)
(* that goes on living.                                                    *)
(*                                                                         *)
(* A read is a conversation of one or more GETs sharing one budget: the    *)
(* instance-wide tools ask once; a node or guest tool first asks the       *)
(* inventory where its object is; the storage tool asks every online node. *)
(* Between two requests a guest may migrate, be destroyed, or its number   *)
(* be given to another guest, and a node may go. Each request may fail in  *)
(* any of the ways the client tells apart, and the dispatcher runs the     *)
(* whole conversation again when the category of the failure is one that   *)
(* it retries.                                                             *)
(*                                                                         *)
(* Proxmox itself is outside the repository: what it answers is modelled   *)
(* from how the client reads it. A record carries one optional field,      *)
(* which stands for all that its projection reads beside what routes.      *)
(***************************************************************************)
EXTENDS Naturals, FiniteSets, Sequences, SequencesExt, FiniteSetsExt

CONSTANTS
  Nodes,           \* node names, spelled as Proxmox spells them
  Fold,            \* node name -> the name folded to lower case
  Machines,        \* the machines that ever exist on the cluster
  Vmids,           \* the numbers they are given
  ThisInstance,    \* the instance the adapter is configured for
  Targets,         \* the identifiers of the assets a read may be about
  RequestTimeout,  \* proxmox_timeout_seconds, in units of the model's clock
  ToolTimeout,     \* the scope of a tool -> its timeout_seconds
  MaxAttempts,     \* retry_policy.max_attempts
  MaxChanges       \* bound on what happens to the cluster during a read

\* A cluster has finitely many nodes. The contract refuses a tool without an
\* attempt, and the settings a timeout that is not positive.
ASSUME ProxmoxAssumption ==
  /\ IsFiniteSet(Nodes)
  /\ ToolTimeout \in [{"INSTANCE", "NODE", "GUEST", "FANOUT"} -> Nat]
  /\ RequestTimeout \in Nat \ {0} /\ MaxAttempts \in Nat \ {0} /\ MaxChanges \in Nat

VARIABLES
  node,     \* node -> is it online?
  machine,  \* machine -> where it is, or NoMachine
  call,     \* the conversation
  sent,     \* history: what was asked last, or Nothing
  failed,   \* history: what each failed attempt failed of, in order
  truth,    \* history: what was so when the last request was answered
  changes   \* how many changes there were

vars == <<node, machine, call, sent, failed, truth, changes>>

InstanceTools == {"cluster.status", "node.list", "guest.list"}
NodeTools     == {"node.status", "node.network"}
GuestTools    == {"vm.status", "vm.config", "container.status", "container.config"}
Tools         == InstanceTools \cup NodeTools \cup GuestTools \cup {"storage.list"}

Scope(tool) ==
  IF tool \in InstanceTools THEN "INSTANCE"
  ELSE IF tool \in NodeTools THEN "NODE"
  ELSE IF tool \in GuestTools THEN "GUEST" ELSE "FANOUT"

\* _guest: the technology is a constant of the tool.
GuestType(tool) == IF tool \in {"vm.status", "vm.config"} THEN "qemu" ELSE "lxc"

NoMachine == [vmid |-> "none", type |-> "none", on |-> "nowhere"]
Living    == {m \in Machines : machine[m] # NoMachine}

----------------------------------------------------------------------------
(* Failures *)

\* Mutant: an unverified certificate is taken for a refused connection.
CategoryTlsRetried(fault) ==
  CASE fault \in {"401"}              -> "AUTHENTICATION"
    [] fault = "403"                  -> "AUTHORIZATION"
    [] fault \in {"timeout", "budget"} -> "TIMEOUT"
    [] fault \in {"connection", "tls"} -> "TARGET_UNAVAILABLE"
    [] fault = "not configured"       -> "ADAPTER_UNAVAILABLE"
    [] fault \in {"identifier", "instance", "not found"} -> "INVALID_TARGET"
    [] fault = "unhandled"            -> "INTERNAL_ERROR"
    [] OTHER                          -> "EXECUTION_FAILED"

\* The category each Proxmox error carries.
Category(fault) ==
  CASE fault \in {"401", "tls"}        -> "AUTHENTICATION"
    [] fault = "403"                   -> "AUTHORIZATION"
    [] fault \in {"timeout", "budget"} -> "TIMEOUT"
    [] fault = "connection"            -> "TARGET_UNAVAILABLE"
    [] fault = "not configured"        -> "ADAPTER_UNAVAILABLE"
    [] fault \in {"identifier", "instance", "not found"} -> "INVALID_TARGET"
    [] fault = "unhandled"             -> "INTERNAL_ERROR"
    [] fault = "contract"              -> "OUTPUT_CONTRACT_VIOLATION"
    [] OTHER                           -> "EXECUTION_FAILED"

RetryOn == {"ADAPTER_UNAVAILABLE", "TARGET_UNAVAILABLE"}

\* What may go wrong with one GET: _send, _check_status and _envelope.
Faults == {"401", "403", "tls", "timeout", "connection", "status", "protocol"}

NoTarget == [kind |-> "none", instance |-> "none", object |-> "missing"]

NoCall == [pc |-> "idle", tool |-> "node.list", target |-> NoTarget, attempt |-> 0,
           spent |-> 0, at |-> "nowhere", vmid |-> "none", todo |-> <<>>, rows |-> {},
           state |-> "EXECUTING", error |-> "NONE"]

\* The conversation without what its attempt had gathered.
Afresh == [call EXCEPT !.spent = 0, !.at = "nowhere", !.vmid = "none", !.todo = <<>>,
                       !.rows = {}]

\* An attempt fails; the dispatcher runs the adapter again, with a client and a
\* budget of its own, only for the categories its policy names.
Fail(fault) ==
  LET category == Category(fault)
  IN  /\ call' = IF call.attempt < MaxAttempts /\ category \in RetryOn
                 THEN [Afresh EXCEPT !.pc = "begin", !.attempt = @ + 1]
                 ELSE [Afresh EXCEPT !.pc = "done", !.state = "FAILED", !.error = category]
      /\ failed' = Append(failed, fault)

----------------------------------------------------------------------------
(* Coercion *)

\* JSON values by what becomes of them: a flag (true, 1 or "0") is a number and a
\* truth value, a decimal only a number, a word ("yes") only a truth value, and
\* other text is as good as absent; json.loads reads NaN and Infinity.
Readings == {"absent", "flag", "decimal", "word", "not finite"}

\* _as_int: a value, nothing, or an exception int() raises.
AsInt(v) ==
  CASE v \in {"decimal", "flag"} -> "value"
    [] v = "not finite" -> "raises"
    [] OTHER -> "unknown"

\* _as_bool has no form that raises.
AsBool(v) == IF v \in {"flag", "word"} THEN "value" ELSE "unknown"

----------------------------------------------------------------------------
(* The target *)

\* Mutant: whose instance it is is not looked at.
AddressedAnywhere(tool, target) ==
  CASE target.object = "missing" -> "identifier"
    [] Scope(tool) = "GUEST" /\ target.object \notin Vmids -> "identifier"
    [] OTHER -> "ok"

\* _identifier, _scoped, require_instance and parse_vmid.
Addressed(tool, target) ==
  CASE target.object = "missing" -> "identifier"
    [] target.instance # ThisInstance -> "instance"
    [] Scope(tool) = "GUEST" /\ target.object \notin Vmids -> "identifier"
    [] OTHER -> "ok"

\* create_tool_invocation admits a tool for assets of its own kind only: an
\* asset's identifiers are in the namespace its kind has.
Fits(tool, target) ==
  CASE Scope(tool) \in {"INSTANCE", "FANOUT"} -> target.kind = "CLUSTER"
    [] Scope(tool) = "NODE" -> target.kind = "HOST"
    [] OTHER -> target.kind = GuestType(tool)

\* The dispatcher calls execute for the first time.
Begin(tool, target) ==
  /\ call.pc = "idle" /\ Fits(tool, target)
  /\ call' = [call EXCEPT !.pc = "begin", !.attempt = 1, !.tool = tool, !.target = target]
  /\ UNCHANGED <<node, machine, sent, failed, truth, changes>>

\* execute: the client is built from the settings, which may be incomplete.
NotConfigured ==
  /\ call.pc = "begin"
  /\ Fail("not configured")
  /\ UNCHANGED <<node, machine, sent, truth, changes>>

\* _observe up to the first request.
Route ==
  /\ call.pc = "begin"
  /\ LET addressed == Addressed(call.tool, call.target)
     IN  IF addressed # "ok" THEN Fail(addressed)
         ELSE /\ call' = [call EXCEPT !.pc = IF Scope(call.tool) = "INSTANCE"
                                             THEN "read" ELSE "inventory"]
              /\ UNCHANGED failed
  /\ UNCHANGED <<node, machine, sent, truth, changes>>

----------------------------------------------------------------------------
(* Outputs *)

\* The declared outputs: what a row must have, and one field for all it may
\* lack. A row whose routing field is missing is in none of them.
Rest        == {"value", "unknown"}
ClusterRows == [name : Nodes, status : {"online", "offline", "unknown"}, rest : Rest]
NodeRows    == [name : Nodes, status : {"online", "offline"}, rest : Rest]
NodeReports == [name : Nodes, rest : Rest]
GuestRows   == [vmid : Vmids, type : {"qemu", "lxc"}, on : Nodes, rest : Rest]
GuestReports == [vmid : Vmids, type : {"qemu", "lxc"}, on : Nodes, rest : Rest]
StorageRows == [on : Nodes, rest : Rest]

Declared(tool) ==
  CASE tool = "cluster.status" -> ClusterRows
    [] tool = "node.list"      -> NodeRows
    [] tool \in NodeTools      -> NodeReports
    [] tool = "guest.list"     -> GuestRows
    [] tool \in GuestTools     -> GuestReports
    [] OTHER                   -> StorageRows

\* _declared_output: the framework holds the adapter to what its tool declares.
Finish(rows) ==
  IF rows \subseteq Declared(call.tool)
  THEN /\ call' = [Afresh EXCEPT !.pc = "done", !.state = "EXECUTED", !.rows = rows]
       /\ UNCHANGED failed
  ELSE Fail("contract")

----------------------------------------------------------------------------
(* Requests *)

Budget    == ToolTimeout[Scope(call.tool)]
Remaining == Budget - call.spent

Nothing == <<>>

\* The read about to be sent: a node, and a number for a guest.
Asked == IF call.pc = "inventory" THEN <<"inventory">>
         ELSE IF Scope(call.tool) = "INSTANCE" THEN <<call.tool>>
         ELSE IF Scope(call.tool) = "FANOUT" THEN <<call.tool, Head(call.todo)>>
         ELSE <<call.tool, call.at, call.vmid>>

Talking == call.pc \in {"inventory", "read"}

\* A request that is answered, within what is left of the budget.
Send(took) ==
  /\ Talking /\ took \in 1 .. Remaining
  /\ sent' = Asked
  /\ UNCHANGED <<node, machine, changes>>

\* get_data: nothing is left for this request.
BudgetExhausted ==
  /\ Talking /\ Remaining = 0
  /\ Fail("budget")
  /\ UNCHANGED <<node, machine, sent, truth, changes>>

\* wait_for cancels the conversation at the end of the tool's time: the budget
\* of the adapter runs out at the same moment, and either may be first. A
\* trickling response outlives its timeout, which is one of silence.
CancelledFromOutside ==
  /\ Talking
  /\ call' = [Afresh EXCEPT !.pc = "done", !.state = "TIMED_OUT", !.error = "TIMEOUT"]
  /\ failed' = Append(failed, "cancelled")
  /\ sent' = IF Remaining = 0 THEN sent ELSE Asked
  /\ UNCHANGED <<node, machine, truth, changes>>

\* One GET goes wrong.
RequestFails(fault) ==
  /\ Send(1)
  /\ Fail(fault)
  /\ UNCHANGED truth

\* The time a successful exchange may take: at most what its timeout gives it.
Durations == {1, Min({RequestTimeout, Remaining})}

\* resolve_node: the identifier selects, the inventory spells.
NodesNamed(name) == {n \in Nodes : Fold[n] = name}

\* resolve_guest: by number and technology.
GuestsNumbered(vmid, type) ==
  {m \in Living : machine[m].vmid = vmid /\ machine[m].type = type}

Take(took, next) ==
  /\ Send(took)
  /\ call' = [next EXCEPT !.spent = @ + took]
  /\ UNCHANGED <<failed, truth>>

ResolveNode(took) ==
  /\ call.pc = "inventory" /\ Scope(call.tool) = "NODE"
  /\ LET found == NodesNamed(call.target.object)
     IN  IF Cardinality(found) = 1
         THEN Take(took, [call EXCEPT !.pc = "read", !.at = CHOOSE n \in found : TRUE])
         ELSE /\ Send(took)
              /\ Fail(IF found = {} THEN "not found" ELSE "ambiguous")
              /\ UNCHANGED truth

ResolveGuest(took) ==
  /\ call.pc = "inventory" /\ Scope(call.tool) = "GUEST"
  /\ LET found == GuestsNumbered(call.target.object, GuestType(call.tool))
     IN  IF Cardinality(found) = 1
         THEN Take(took, [call EXCEPT !.pc = "read", !.vmid = call.target.object,
                                      !.at = machine[CHOOSE m \in found : TRUE].on])
         ELSE /\ Send(took)
              /\ Fail(IF found = {} THEN "not found" ELSE "ambiguous")
              /\ UNCHANGED truth

\* online_nodes
ResolveNodes(took) ==
  /\ call.pc = "inventory" /\ Scope(call.tool) = "FANOUT"
  /\ LET online == {n \in Nodes : node[n] = "online"}
     IN  /\ Send(took)
         /\ IF online = {} THEN Finish({})
            ELSE /\ call' = [call EXCEPT !.pc = "read", !.todo = SetToSeq(online),
                                         !.spent = @ + took]
                 /\ UNCHANGED failed
         /\ truth' = [truth EXCEPT !.nodes = online]

----------------------------------------------------------------------------
(* Answers *)

Answer(rows)  == [fault |-> "none", rows |-> rows]
Unusable      == [fault |-> "protocol", rows |-> {}]

GuestRow(m, reading) ==
  [vmid |-> machine[m].vmid, type |-> machine[m].type, on |-> machine[m].on,
   rest |-> AsInt(reading)]

\* guest_list: a record without its number, technology or node fails the read.
GuestList(unroutable, reading) ==
  IF unroutable # {} THEN Unusable ELSE Answer({GuestRow(m, reading) : m \in Living})

\* node_list: a record without its name fails the read.
NodeList(unroutable, reading) ==
  IF unroutable # {} THEN Unusable
  ELSE Answer({[name |-> n, status |-> node[n], rest |-> AsInt(reading)] : n \in Nodes})

\* cluster_status: nothing routes by it, and a cluster of one has no cluster
\* record. A flag Proxmox does not give is unknown, never off.
ClusterStatus(reading) ==
  Answer({[name |-> n, rest |-> AsInt(reading),
           status |-> IF AsBool(reading) = "value" THEN node[n] ELSE "unknown"] : n \in Nodes})

\* node_status: labelled with the node that was asked.
NodeStatus(reading) == Answer({[name |-> call.at, rest |-> AsInt(reading)]})

\* node_network: no number is read; an interface without its name fails the read.
NodeNetwork(unroutable, reading) ==
  IF unroutable # {} THEN Unusable
  ELSE Answer({[name |-> call.at, rest |-> AsBool(reading)]})

\* vm_status, vm_config, container_status and container_config: labelled with
\* what was asked for, not with what the body says.
GuestReport(reading) ==
  Answer({[vmid |-> call.vmid, type |-> GuestType(call.tool), on |-> call.at,
           rest |-> AsInt(reading)]})

\* storage_entries: each row carries the node it came from.
StorageEntries(unroutable, reading) ==
  IF unroutable # {} THEN Unusable
  ELSE Answer({[on |-> Head(call.todo), rest |-> AsInt(reading)]})

\* Proxmox has something to say about what the path names: otherwise it answers
\* with a status that is not 200.
Answerable ==
  CASE Scope(call.tool) = "INSTANCE" -> TRUE
    [] Scope(call.tool) = "NODE"     -> node[call.at] = "online"
    [] Scope(call.tool) = "FANOUT"   -> node[Head(call.todo)] = "online"
    [] OTHER ->
         /\ node[call.at] = "online"
         /\ \E m \in Living : machine[m] = [vmid |-> call.vmid, on |-> call.at,
                                            type |-> GuestType(call.tool)]

\* The projection of a body with at most one defect: unroutable stands for
\* records without a field that routing depends on, reading for the optional
\* fields of every record.
Projected(unroutable, reading) ==
  IF AsInt(reading) = "raises" /\ call.tool # "node.network"
  THEN [fault |-> "unhandled", rows |-> {}]
  ELSE CASE call.tool = "guest.list"     -> GuestList(unroutable, reading)
         [] call.tool = "node.list"      -> NodeList(unroutable, reading)
         [] call.tool = "cluster.status" -> ClusterStatus(reading)
         [] call.tool = "node.status"    -> NodeStatus(reading)
         [] call.tool = "node.network"   -> NodeNetwork(unroutable, reading)
         [] call.tool \in GuestTools     -> GuestReport(reading)
         [] OTHER                        -> StorageEntries(unroutable, reading)

OneDefect(unroutable, reading) == unroutable = {} \/ AsInt(reading) # "raises"

Body(unroutable, reading) ==
  IF Answerable THEN Projected(unroutable, reading) ELSE [fault |-> "status", rows |-> {}]

\* The last request of every tool but the storage tool.
Read(took, unroutable, reading) ==
  /\ call.pc = "read" /\ Scope(call.tool) # "FANOUT"
  /\ OneDefect(unroutable, reading)
  /\ Send(took)
  /\ LET answer == Body(unroutable, reading)
     IN  IF answer.fault = "none" THEN Finish(answer.rows) ELSE Fail(answer.fault)
  /\ truth' = [truth EXCEPT !.machine = machine]

\* The next node's rows join the union, and the next node is asked.
Collect(took, rows) ==
  IF Len(call.todo) = 1 THEN Finish(call.rows \cup rows)
  ELSE /\ call' = [call EXCEPT !.rows = @ \cup rows, !.todo = Tail(@), !.spent = @ + took]
       /\ UNCHANGED failed

\* Mutant: a node that does not answer is left out of the union.
ReadStorageTolerant(took, unroutable, reading) ==
  /\ call.pc = "read" /\ Scope(call.tool) = "FANOUT"
  /\ OneDefect(unroutable, reading)
  /\ Send(took)
  /\ Collect(took, Body(unroutable, reading).rows)
  /\ UNCHANGED truth

\* _storage: the next node's rows join the union, or the whole read fails.
ReadStorage(took, unroutable, reading) ==
  /\ call.pc = "read" /\ Scope(call.tool) = "FANOUT"
  /\ OneDefect(unroutable, reading)
  /\ Send(took)
  /\ LET answer == Body(unroutable, reading)
     IN  IF answer.fault = "none" THEN Collect(took, answer.rows) ELSE Fail(answer.fault)
  /\ UNCHANGED truth

----------------------------------------------------------------------------
(* The cluster *)

Changes ==
  /\ Talking
  /\ changes < MaxChanges /\ changes' = changes + 1
  /\ UNCHANGED <<call, sent, failed, truth>>

Flip(n) ==
  /\ node' = [node EXCEPT ![n] = IF @ = "online" THEN "offline" ELSE "online"]
  /\ UNCHANGED machine
  /\ Changes

Migrate(m, n) ==
  /\ m \in Living /\ machine[m].on # n
  /\ machine' = [machine EXCEPT ![m].on = n]
  /\ UNCHANGED node
  /\ Changes

Destroy(m) ==
  /\ m \in Living
  /\ machine' = [machine EXCEPT ![m] = NoMachine]
  /\ UNCHANGED node
  /\ Changes

Records == [vmid : Vmids, type : {"qemu", "lxc"}, on : Nodes]

\* One number space for both technologies.
Create(m, record) ==
  /\ m \notin Living
  /\ \A other \in Living : machine[other].vmid # record.vmid
  /\ machine' = [machine EXCEPT ![m] = record]
  /\ UNCHANGED node
  /\ Changes

----------------------------------------------------------------------------
Init ==
  /\ node \in [Nodes -> {"online", "offline"}]
  /\ machine \in [Machines -> Records \cup {NoMachine}]
  /\ \A m, other \in Living : m # other => machine[m].vmid # machine[other].vmid
  /\ call = NoCall
  /\ sent = Nothing /\ failed = <<>> /\ changes = 0
  /\ truth = [machine |-> machine, nodes |-> {}]

Converse ==
  \/ \E tool \in Tools, target \in Targets : Begin(tool, target)
  \/ NotConfigured \/ Route
  \/ BudgetExhausted \/ CancelledFromOutside
  \/ \E fault \in Faults : RequestFails(fault)
  \/ \E took \in Durations :
       \/ ResolveNode(took) \/ ResolveGuest(took) \/ ResolveNodes(took)
       \/ \E unroutable \in {{}} \cup {{m} : m \in Machines}, reading \in Readings :
            Read(took, unroutable, reading) \/ ReadStorage(took, unroutable, reading)

Cluster ==
  \/ \E n \in Nodes : Flip(n)
  \/ \E m \in Machines : Destroy(m)
  \/ \E m \in Machines, n \in Nodes : Migrate(m, n)
  \/ \E m \in Machines, record \in Records : Create(m, record)

Next == Converse \/ Cluster

Spec == Init /\ [][Next]_vars

----------------------------------------------------------------------------
\* Everything an attempt may fail of.
Failures == Faults \cup {"not configured", "identifier", "instance", "not found", "ambiguous",
                         "unhandled", "contract", "budget", "cancelled"}

Calls == [pc : {"idle", "begin", "inventory", "read", "done"},
          tool : Tools, target : Targets \cup {NoTarget}, attempt : 0 .. MaxAttempts,
          spent : Nat, at : Nodes \cup {"nowhere"}, vmid : Vmids \cup {"none"},
          todo : Seq(Nodes), rows : SUBSET UNION {Declared(tool) : tool \in Tools},
          state : {"EXECUTING", "EXECUTED", "FAILED", "TIMED_OUT"},
          error : {Category(fault) : fault \in Failures} \cup {"NONE"}]

TypeOK ==
  /\ node \in [Nodes -> {"online", "offline"}]
  /\ machine \in [Machines -> Records \cup {NoMachine}]
  /\ call \in Calls /\ call.spent <= Budget
  /\ failed \in Seq(Failures)
  /\ truth \in [machine : [Machines -> Records \cup {NoMachine}], nodes : SUBSET Nodes]
  /\ changes \in 0 .. MaxChanges

Executed == call.pc = "done" /\ call.state = "EXECUTED"

\* A read that succeeds is about what its asset's identifier names: on the
\* configured instance, the one guest that had this number and technology on
\* that node when it was read, or the one node of that name; wherever it had
\* migrated since. An identifier of another instance, or no identifier, sends
\* no request at all. (identity.py, _guest)
AnswersAreAboutTheTarget ==
  /\ Executed => call.target.instance = ThisInstance
  /\ Executed /\ Scope(call.tool) = "NODE" =>
       \A row \in call.rows : Fold[row.name] = call.target.object
  /\ Executed /\ Scope(call.tool) = "GUEST" =>
       \A row \in call.rows :
         /\ row.vmid = call.target.object
         /\ \E m \in Machines :
              truth.machine[m] = [vmid |-> row.vmid, type |-> row.type, on |-> row.on]
  /\ call.target.instance # ThisInstance \/ call.target.object = "missing" => sent = Nothing

\* A list that succeeds is whole: every guest there was at that moment, every
\* node, and the storage of every node that was online when the read asked
\* which were. Nothing that failed or could not be read is left out or
\* answered with an empty list. (_envelope, guest_list, node_list, _storage)
InventoriesAreWhole ==
  Executed =>
    /\ call.tool = "guest.list" =>
         {[vmid |-> row.vmid, type |-> row.type, on |-> row.on] : row \in call.rows}
           = {truth.machine[m] : m \in Machines} \ {NoMachine}
    /\ call.tool \in {"node.list", "cluster.status"} =>
         {row.name : row \in call.rows} = Nodes
    /\ call.tool = "storage.list" => {row.on : row \in call.rows} = truth.nodes

\* The conversation is only begun again after a connection that could not be
\* made or broke off, or a client that could not be built. In particular an unverified certificate, a
\* rejected token and a timeout are the last thing that is sent.
\* (the Proxmox errors' categories, RETRYABLE_CATEGORIES and _execute)
OnlyTheUnreachableIsRetried ==
  \A i \in 1 .. Len(failed) - 1 : failed[i] \in {"connection", "not configured"}

----------------------------------------------------------------------------
(* What it does not keep *)

\* projection.py:17-22, 29-33: the coercions answer None for what they do not
\* accept, and only a missing routing field raises.
DegradesToUnknown == \A i \in DOMAIN failed : failed[i] # "unhandled"
=============================================================================
