-------------------------- MODULE ProxmoxReadProofs --------------------------
(***************************************************************************)
(* What a Proxmox read says is about its target, its lists are whole, and  *)
(* only the unreachable is asked again: for any cluster, any identifiers,  *)
(* any timeouts and however much happens to the cluster during the read.   *)
(*                                                                         *)
(* The three properties speak of a conversation that is over. The          *)
(* invariant says what each stage of it has established for the next one:  *)
(* nothing is sent before the identifier is found to be of this instance,  *)
(* the node that is asked is the one the identifier names, and the nodes   *)
(* still to be asked make up, with those answered for, the ones that were  *)
(* online.                                                                 *)
(***************************************************************************)
EXTENDS ProxmoxRead, FiniteSetTheorems, TLAPS

Unreachable == {"connection", "not configured"}

(* A read that has not begun has asked for nothing and used no time.       *)
Fresh ==
  call.pc = "idle" => sent = Nothing /\ failed = <<>> /\ call.spent = 0

(* Whoever talks, has talked or has an answer was told who to ask for.     *)
Ours(target) == target.instance = ThisInstance /\ target.object # "missing"

Directed ==
  /\ sent # Nothing => Ours(call.target)
  /\ Talking \/ Executed => Addressed(call.tool, call.target) = "ok"

(* What the inventory was asked for before the read itself.                *)
Located ==
  call.pc = "read" =>
    /\ Scope(call.tool) = "NODE" => call.at \in Nodes /\ Fold[call.at] = call.target.object
    /\ Scope(call.tool) = "GUEST" => call.vmid = call.target.object /\ call.at \in Nodes

(* The storage tool's union: answered and still to be asked.               *)
Collected ==
  /\ call.pc \in {"idle", "begin", "inventory"} => call.rows = {}
  /\ call.pc = "inventory" => Scope(call.tool) # "INSTANCE"
  /\ call.pc = "read" /\ Scope(call.tool) = "FANOUT" =>
       /\ call.todo # <<>>
       /\ {row.on : row \in call.rows} \cup Range(call.todo) = truth.nodes

(* An attempt that is going on follows only such as may be begun again.    *)
Retried ==
  call.pc # "done" => \A i \in DOMAIN failed : failed[i] \in Unreachable

IInv ==
  /\ TypeOK /\ Fresh /\ Directed /\ Located /\ Collected /\ Retried
  /\ AnswersAreAboutTheTarget /\ InventoriesAreWhole /\ OnlyTheUnreachableIsRetried

-----------------------------------------------------------------------------
(* Operators                                                               *)

(* SetToSeq lists every element of a finite set.                           *)
LEMMA SeqOfSet ==
  ASSUME NEW S, IsFiniteSet(S)
  PROVE  SetToSeq(S) \in Seq(S) /\ Range(SetToSeq(S)) = S
<1> DEFINE n == Cardinality(S)
<1>1. n \in Nat /\ ExistsBijection(1 .. n, S)
  BY FS_CardinalityType
<1>2. \E f \in [1 .. n -> S] : IsInjective(f)
  BY <1>1 DEF ExistsBijection, Bijection, Injection, IsInjective
<1>3. SetToSeq(S) \in [1 .. n -> S] /\ IsInjective(SetToSeq(S))
  BY <1>2, Zenon DEF SetToSeq
<1>4. SetToSeq(S) \in Injection(1 .. n, S)
  BY <1>3 DEF Injection, IsInjective
<1>5. IsFiniteSet(1 .. n) /\ Cardinality(1 .. n) = n
  BY <1>1, FS_Interval
<1>6. SetToSeq(S) \in Surjection(1 .. n, S)
  BY <1>4, <1>5, FS_Injection
<1>7. QED
  BY <1>1, <1>3, <1>6 DEF Surjection, Range

(* Only the two categories of RetryOn are begun again.                     *)
LEMMA RetriedFaults ==
  ASSUME NEW fault \in Failures, Category(fault) \in RetryOn
  PROVE  fault \in Unreachable
<1>1. CASE fault \in {"401", "tls", "403", "timeout", "budget"}
  BY <1>1 DEF Category, RetryOn
<1>2. CASE fault \in {"identifier", "instance", "not found", "unhandled", "contract"}
  BY <1>2 DEF Category, RetryOn
<1>3. CASE fault \in {"status", "protocol", "ambiguous", "cancelled"}
  BY <1>3 DEF Category, RetryOn
<1>4. QED
  BY <1>1, <1>2, <1>3 DEF Failures, Faults, Unreachable

(* The kinds of tools are four.                                            *)
LEMMA Scopes ==
  ASSUME NEW tool \in Tools
  PROVE  /\ Scope(tool) \in {"INSTANCE", "NODE", "GUEST", "FANOUT"}
         /\ Scope(tool) = "FANOUT" <=> tool = "storage.list"
         /\ Scope(tool) = "INSTANCE" <=> tool \in InstanceTools
         /\ Scope(tool) = "NODE" <=> tool \in NodeTools
         /\ Scope(tool) = "GUEST" <=> tool \in GuestTools
BY DEF Tools, Scope, InstanceTools, NodeTools, GuestTools

(* The sets of a conversation's rows and of its errors.                    *)
Lists  == SUBSET UNION {Declared(tool) : tool \in Tools}
Errors == {Category(fault) : fault \in Failures} \cup {"NONE"}

LEMMA CallsAre ==
  Calls = [pc : {"idle", "begin", "inventory", "read", "done"},
           tool : Tools, target : Targets \cup {NoTarget}, attempt : 0 .. MaxAttempts,
           spent : Nat, at : Nodes \cup {"nowhere"}, vmid : Vmids \cup {"none"},
           todo : Seq(Nodes), rows : Lists,
           state : {"EXECUTING", "EXECUTED", "FAILED", "TIMED_OUT"}, error : Errors]
BY DEF Calls, Lists, Errors

(* A conversation begun afresh is one, and so is what an attempt ends in.  *)
LEMMA AfreshTyped ==
  ASSUME call \in Calls
  PROVE  /\ Afresh \in Calls
         /\ Afresh.tool = call.tool /\ Afresh.target = call.target
         /\ Afresh.attempt = call.attempt
         /\ Afresh.spent = 0 /\ Afresh.rows = {}
<1>1. {} \in Lists /\ <<>> \in Seq(Nodes)
  BY DEF Lists
<1>2. QED
  BY <1>1, CallsAre DEF Afresh

LEMMA Ends ==
  ASSUME call \in Calls
  PROVE  /\ call.attempt < MaxAttempts
              => [Afresh EXCEPT !.pc = "begin", !.attempt = @ + 1] \in Calls
         /\ \A error \in Errors :
              [Afresh EXCEPT !.pc = "done", !.state = "FAILED", !.error = error] \in Calls
         /\ \A error \in Errors :
              [Afresh EXCEPT !.pc = "done", !.state = "TIMED_OUT", !.error = error] \in Calls
         /\ \A rows \in Lists :
              [Afresh EXCEPT !.pc = "done", !.state = "EXECUTED", !.rows = rows] \in Calls
<1>1. call.attempt < MaxAttempts => Afresh.attempt + 1 \in 0 .. MaxAttempts
  BY ProxmoxAssumption, AfreshTyped, CallsAre
<1>2. call.attempt < MaxAttempts
        => [Afresh EXCEPT !.pc = "begin", !.attempt = @ + 1] \in Calls
  BY <1>1, AfreshTyped, CallsAre
<1>3. \A error \in Errors :
        [Afresh EXCEPT !.pc = "done", !.state = "FAILED", !.error = error] \in Calls
  BY AfreshTyped, CallsAre
<1>4. \A error \in Errors :
        [Afresh EXCEPT !.pc = "done", !.state = "TIMED_OUT", !.error = error] \in Calls
  BY AfreshTyped, CallsAre
<1>5. \A rows \in Lists :
        [Afresh EXCEPT !.pc = "done", !.state = "EXECUTED", !.rows = rows] \in Calls
  BY AfreshTyped, CallsAre
<1>6. QED
  BY <1>2, <1>3, <1>4, <1>5

(* What is addressed is an object of the configured instance.              *)
LEMMA AddressedIsOurs ==
  ASSUME NEW tool, NEW target, Addressed(tool, target) = "ok"
  PROVE  Ours(target) /\ (Scope(tool) = "GUEST" => target.object \in Vmids)
BY DEF Addressed, Ours

(* The four timeouts are natural numbers.                                  *)
LEMMA Budgets ==
  ASSUME TypeOK
  PROVE  Budget \in Nat /\ call.spent \in Nat /\ Remaining \in Nat
BY Scopes, ProxmoxAssumption DEF TypeOK, Calls, Budget, Remaining

-----------------------------------------------------------------------------
(* What an attempt may end in                                              *)

(* An attempt that fails.                                                  *)
LEMMA FailStep ==
  ASSUME IInv, call.pc \in {"begin", "inventory", "read"},
         NEW fault \in Failures, Fail(fault),
         UNCHANGED <<node, machine, changes>>, sent' = sent \/ Talking,
         truth' \in [machine : [Machines -> Records \cup {NoMachine}], nodes : SUBSET Nodes]
  PROVE  IInv'
<1> DEFINE category == Category(fault)
           again == call.attempt < MaxAttempts /\ category \in RetryOn
<1> USE DEF IInv
<1>a. call \in Calls /\ failed \in Seq(Failures)
  BY DEF TypeOK
<1>b. category \in Errors
  BY DEF Errors
<1> HIDE DEF category
<1>1. /\ failed' = Append(failed, fault)
      /\ call' = IF again THEN [Afresh EXCEPT !.pc = "begin", !.attempt = @ + 1]
                 ELSE [Afresh EXCEPT !.pc = "done", !.state = "FAILED", !.error = category]
  BY DEF Fail, category
<1>2. /\ call' \in Calls
      /\ call'.tool = call.tool /\ call'.target = call.target
      /\ call'.spent = 0 /\ call'.rows = {}
      /\ again => call'.pc = "begin"
      /\ ~again => call'.pc = "done" /\ call'.state = "FAILED"
  <2> HIDE DEF IInv
  <2>1. MaxAttempts \in Nat
    BY ProxmoxAssumption
  <2>2. CASE again
    BY <1>a, <1>1, <2>1, <2>2, AfreshTyped, Ends, CallsAre
  <2>3. CASE ~again
    <3>1. call' = [Afresh EXCEPT !.pc = "done", !.state = "FAILED", !.error = category]
      BY <1>1, <2>3
    <3>2. call' \in Calls
      BY <1>a, <1>b, <3>1, Ends
    <3>3. /\ call'.tool = call.tool /\ call'.target = call.target
          /\ call'.spent = 0 /\ call'.rows = {}
          /\ call'.pc = "done" /\ call'.state = "FAILED"
      BY <1>a, <3>1, AfreshTyped, CallsAre
    <3>4. QED
      BY <2>3, <3>2, <3>3
  <2>4. QED
    BY <2>2, <2>3
<1>3. TypeOK'
  <2>1. Budget' = Budget
    BY <1>2 DEF Budget
  <2>2. failed' \in Seq(Failures)
    BY <1>a, <1>1
  <2>3. QED
    BY <1>2, <2>1, <2>2, Budgets DEF TypeOK
<1>4. Fresh' /\ Located'
  BY <1>2 DEF Fresh, Located
<1>5. Directed'
  <2>1. ~(Talking \/ Executed)'
    BY <1>2 DEF Talking, Executed
  <2>2. sent # Nothing \/ Talking => Ours(call.target)
    BY AddressedIsOurs DEF Directed
  <2>3. Ours(call.target)' <=> Ours(call.target)
    BY <1>2 DEF Ours
  <2>4. Nothing' = Nothing
    BY DEF Nothing
  <2>5. QED
    BY <2>1, <2>2, <2>3, <2>4 DEF Directed
<1>6. Collected'
  BY <1>2 DEF Collected
<1>7. Retried' /\ OnlyTheUnreachableIsRetried'
  <2>1. \A i \in DOMAIN failed : failed[i] \in Unreachable
    BY DEF Retried
  <2>2. \A i \in 1 .. Len(failed) : failed'[i] \in Unreachable
    BY <1>a, <1>1, <2>1
  <2>3. Len(failed') = Len(failed) + 1 /\ failed'[Len(failed) + 1] = fault
        /\ DOMAIN failed' = 1 .. Len(failed) + 1 /\ Len(failed) \in Nat
    BY <1>a, <1>1
  <2>4. again => fault \in Unreachable
    BY RetriedFaults DEF category
  <2>5. Retried'
    BY <1>2, <2>2, <2>3, <2>4 DEF Retried
  <2>6. OnlyTheUnreachableIsRetried'
    <3>1. \A i \in 1 .. Len(failed') - 1 : failed'[i] \in Unreachable
      BY <2>2, <2>3
    <3>2. QED
      BY <3>1 DEF OnlyTheUnreachableIsRetried, Unreachable
  <2>7. QED
    BY <2>5, <2>6
<1>8. AnswersAreAboutTheTarget' /\ InventoriesAreWhole'
  <2>1. ~Executed'
    BY <1>2 DEF Executed
  <2>2. Directed'
    BY <1>5
  <2>3. QED
    BY <2>1, <2>2 DEF AnswersAreAboutTheTarget, InventoriesAreWhole, Directed, Ours
<1>9. QED
  BY <1>3, <1>4, <1>5, <1>6, <1>7, <1>8

(* An answer that the two properties let a read give.                      *)
Right(rows, then) ==
  /\ Scope(call.tool) = "NODE" =>
       \A row \in rows : Fold[row.name] = call.target.object
  /\ Scope(call.tool) = "GUEST" =>
       \A row \in rows :
         /\ row.vmid = call.target.object
         /\ \E m \in Machines :
              then.machine[m] = [vmid |-> row.vmid, type |-> row.type, on |-> row.on]
  /\ call.tool = "guest.list" =>
       {[vmid |-> row.vmid, type |-> row.type, on |-> row.on] : row \in rows}
         = {then.machine[m] : m \in Machines} \ {NoMachine}
  /\ call.tool \in {"node.list", "cluster.status"} =>
       {row.name : row \in rows} = Nodes
  /\ call.tool = "storage.list" => {row.on : row \in rows} = then.nodes

(* An attempt that has its answer.                                         *)
LEMMA FinishStep ==
  ASSUME IInv, call.pc \in {"inventory", "read"}, NEW rows, Finish(rows),
         UNCHANGED <<node, machine, changes>>,
         truth' \in [machine : [Machines -> Records \cup {NoMachine}], nodes : SUBSET Nodes],
         Right(rows, truth')
  PROVE  IInv'
<1> USE DEF IInv
<1>a. call \in Calls /\ failed \in Seq(Failures)
  BY DEF TypeOK
<1>t. Talking /\ Addressed(call.tool, call.target) = "ok" /\ Ours(call.target)
  BY AddressedIsOurs DEF Talking, Directed
<1>1. CASE ~(rows \subseteq Declared(call.tool))
  <2>1. Fail("contract")
    BY <1>1 DEF Finish
  <2>2. "contract" \in Failures
    BY DEF Failures
  <2> HIDE DEF IInv
  <2>3. QED
    BY <1>t, <2>1, <2>2, FailStep
<1>2. CASE rows \subseteq Declared(call.tool)
  <2>1. /\ call' = [Afresh EXCEPT !.pc = "done", !.state = "EXECUTED", !.rows = rows]
        /\ failed' = failed
    BY <1>2 DEF Finish
  <2>2. rows \in Lists
    BY <1>a, <1>2, CallsAre DEF Lists
  <2>3. /\ call' \in Calls
        /\ call'.tool = call.tool /\ call'.target = call.target
        /\ call'.spent = 0 /\ call'.rows = rows
        /\ call'.pc = "done" /\ call'.state = "EXECUTED"
    <3>1. call' \in Calls
      BY <1>a, <2>1, <2>2, Ends
    <3>2. QED
      BY <1>a, <2>1, <3>1, AfreshTyped, CallsAre
  <2>4. TypeOK'
    <3>1. Budget' = Budget
      BY <2>3 DEF Budget
    <3>2. QED
      BY <2>1, <2>3, <3>1, Budgets DEF TypeOK
  <2>5. Fresh' /\ Located' /\ Collected' /\ Retried'
    BY <2>3 DEF Fresh, Located, Collected, Retried
  <2>6. Directed'
    <3>1. Ours(call.target)'
      BY <1>t, <2>3 DEF Ours
    <3>2. Addressed(call'.tool, call'.target) = "ok"
      BY <1>t, <2>3
    <3>3. QED
      BY <3>1, <3>2 DEF Directed, Addressed, Scope
  <2>7. OnlyTheUnreachableIsRetried'
    BY <2>1 DEF OnlyTheUnreachableIsRetried
  <2>8. AnswersAreAboutTheTarget'
    <3>1. Ours(call.target)'
      BY <1>t, <2>3 DEF Ours
    <3>2. QED
      BY <2>3, <3>1 DEF AnswersAreAboutTheTarget, Right, Ours, Scope, Executed
  <2>9. InventoriesAreWhole'
    BY <2>3 DEF InventoriesAreWhole, Right, Executed
  <2>10. QED
    BY <2>4, <2>5, <2>6, <2>7, <2>8, <2>9
<1>3. QED
  BY <1>1, <1>2

(* An attempt that goes on, to its first or to its next request.           *)
LEMMA ProceedStep ==
  ASSUME IInv, call.pc \notin {"idle", "done"}, Addressed(call.tool, call.target) = "ok",
         UNCHANGED <<node, machine, failed, changes>>,
         truth' \in [machine : [Machines -> Records \cup {NoMachine}], nodes : SUBSET Nodes],
         call' \in Calls, call'.pc \in {"inventory", "read"},
         call'.tool = call.tool, call'.target = call.target, call'.spent <= Budget,
         Located', Collected'
  PROVE  IInv'
<1> USE DEF IInv
<1>1. TypeOK'
  <2>1. Budget' = Budget
    BY DEF Budget
  <2>2. QED
    BY <2>1 DEF TypeOK
<1>2. Fresh' /\ Retried'
  BY DEF Fresh, Retried
<1>3. Directed' /\ Ours(call.target)'
  <2>1. Ours(call.target)
    BY AddressedIsOurs
  <2>2. Ours(call.target)'
    BY <2>1 DEF Ours
  <2>3. Addressed(call'.tool, call'.target) = "ok"
    OBVIOUS
  <2>4. QED
    BY <2>2, <2>3 DEF Directed, Addressed, Scope
<1>4. OnlyTheUnreachableIsRetried'
  BY DEF OnlyTheUnreachableIsRetried
<1>5. AnswersAreAboutTheTarget' /\ InventoriesAreWhole'
  BY <1>3 DEF AnswersAreAboutTheTarget, InventoriesAreWhole, Executed, Ours
<1>6. QED
  BY <1>1, <1>2, <1>3, <1>4, <1>5

-----------------------------------------------------------------------------
(* What Proxmox answers                                                    *)

(* A body is either usable or fails the read in one of three ways.         *)
LEMMA BodyFaults ==
  ASSUME NEW unroutable, NEW reading
  PROVE  Body(unroutable, reading).fault \in {"none", "unhandled", "protocol", "status"}
<1>1. Projected(unroutable, reading).fault \in {"none", "unhandled", "protocol"}
  BY DEF Projected, GuestList, NodeList, ClusterStatus, NodeStatus, NodeNetwork,
         GuestReport, StorageEntries, Answer, Unusable
<1>2. QED
  BY <1>1 DEF Body

(* A guest's row says of it what the record said that was read.            *)
LEMMA RowOfGuest ==
  ASSUME TypeOK, NEW reading, NEW m \in Living
  PROVE  [vmid |-> GuestRow(m, reading).vmid, type |-> GuestRow(m, reading).type,
          on |-> GuestRow(m, reading).on] = machine[m]
<1>1. machine[m] \in Records
  BY DEF TypeOK, Living
<1>2. QED
  BY <1>1 DEF Records, GuestRow

(* The list of the guests has one row for each.                            *)
LEMMA EveryGuest ==
  ASSUME TypeOK, NEW reading, NEW rows,
         \A row \in rows : \E m \in Living : row = GuestRow(m, reading),
         \A m \in Living : GuestRow(m, reading) \in rows
  PROVE  {[vmid |-> row.vmid, type |-> row.type, on |-> row.on] : row \in rows}
           = {machine[m] : m \in Machines} \ {NoMachine}
<1> DEFINE Heading(row) == [vmid |-> row.vmid, type |-> row.type, on |-> row.on]
<1>1. \A m \in Living : Heading(GuestRow(m, reading)) = machine[m]
  BY RowOfGuest
<1>2. {machine[m] : m \in Machines} \ {NoMachine} = {machine[m] : m \in Living}
  BY DEF Living
<1> HIDE DEF Heading
<1>3. {Heading(row) : row \in rows} = {machine[m] : m \in Living}
  BY <1>1
<1>4. QED
  BY <1>2, <1>3 DEF Heading

(* What a usable body of any tool but the storage tool says.               *)
LEMMA AnswerRight ==
  ASSUME IInv, call.pc = "read", Scope(call.tool) # "FANOUT",
         NEW unroutable, NEW reading \in Readings,
         Body(unroutable, reading).fault = "none",
         NEW then, then.machine = machine
  PROVE  Right(Body(unroutable, reading).rows, then)
<1> DEFINE rows == Body(unroutable, reading).rows
<1>a. TypeOK /\ Located /\ call.tool \in Tools
  BY DEF IInv, TypeOK, Calls
<1>1. Answerable /\ Body(unroutable, reading) = Projected(unroutable, reading)
  BY DEF Body
<1>2. ~(AsInt(reading) = "raises" /\ call.tool # "node.network")
  BY <1>1 DEF Projected, GuestTools
<1>3. CASE call.tool = "guest.list"
  <2>1. Body(unroutable, reading) = GuestList(unroutable, reading)
    BY <1>1, <1>2, <1>3 DEF Projected, GuestTools
  <2>2. rows = {GuestRow(m, reading) : m \in Living}
    BY <2>1 DEF GuestList, Answer, Unusable
  <2> HIDE DEF rows
  <2>3. {[vmid |-> row.vmid, type |-> row.type, on |-> row.on] : row \in rows}
          = {machine[m] : m \in Machines} \ {NoMachine}
    <3>1. /\ \A row \in rows : \E m \in Living : row = GuestRow(m, reading)
          /\ \A m \in Living : GuestRow(m, reading) \in rows
      BY <2>2
    <3>2. QED
      BY <1>a, <3>1, EveryGuest
  <2>4. Right(rows, then)
    BY <1>a, <1>3, <2>3, Scopes DEF Right, InstanceTools, NodeTools, GuestTools
  <2>5. QED
    BY <2>4 DEF rows
<1>4. CASE call.tool \in {"node.list", "cluster.status"}
  <2>1. ASSUME call.tool = "node.list" PROVE {row.name : row \in rows} = Nodes
    <3>1. Body(unroutable, reading) = NodeList(unroutable, reading)
      BY <1>1, <1>2, <2>1 DEF Projected, GuestTools
    <3>2. rows = {[name |-> n, status |-> node[n], rest |-> AsInt(reading)] : n \in Nodes}
      BY <3>1 DEF NodeList, Answer, Unusable
    <3> HIDE DEF rows
    <3>3. \A row \in rows : row.name \in Nodes
      BY <3>2
    <3>4. ASSUME NEW n \in Nodes PROVE \E row \in rows : row.name = n
      <4>1. [name |-> n, status |-> node[n], rest |-> AsInt(reading)] \in rows
        BY <3>2
      <4>2. QED
        BY <4>1
    <3>5. QED
      BY <3>3, <3>4
  <2>2. ASSUME call.tool = "cluster.status" PROVE {row.name : row \in rows} = Nodes
    <3>1. Body(unroutable, reading) = ClusterStatus(reading)
      BY <1>1, <1>2, <2>2 DEF Projected, GuestTools
    <3> DEFINE Status(n) == IF AsBool(reading) = "value" THEN node[n] ELSE "unknown"
    <3>2. rows = {[name |-> n, rest |-> AsInt(reading), status |-> Status(n)] : n \in Nodes}
      BY <3>1 DEF ClusterStatus, Answer
    <3> HIDE DEF rows, Status
    <3>3. \A row \in rows : row.name \in Nodes
      BY <3>2
    <3>4. ASSUME NEW n \in Nodes PROVE \E row \in rows : row.name = n
      <4>1. [name |-> n, rest |-> AsInt(reading), status |-> Status(n)] \in rows
        BY <3>2
      <4>2. QED
        BY <4>1
    <3>5. QED
      BY <3>3, <3>4
  <2>3. {row.name : row \in rows} = Nodes
    BY <1>4, <2>1, <2>2
  <2> HIDE DEF rows
  <2>4. Right(rows, then)
    BY <1>a, <1>4, <2>3, Scopes DEF Right, InstanceTools, NodeTools, GuestTools
  <2>5. QED
    BY <2>4 DEF rows
<1>5. CASE call.tool \in NodeTools
  <2>1. \A row \in rows : row.name = call.at
    <3>1. CASE call.tool = "node.status"
      <4>1. Body(unroutable, reading) = NodeStatus(reading)
        BY <1>1, <1>2, <3>1 DEF Projected, GuestTools
      <4>2. QED
        BY <4>1 DEF NodeStatus, Answer
    <3>2. CASE call.tool = "node.network"
      <4>1. Body(unroutable, reading) = NodeNetwork(unroutable, reading)
        BY <1>1, <1>2, <3>2 DEF Projected, GuestTools
      <4>2. QED
        BY <4>1 DEF NodeNetwork, Answer, Unusable
    <3>3. QED
      BY <1>5, <3>1, <3>2 DEF NodeTools
  <2> HIDE DEF rows
  <2>2. Fold[call.at] = call.target.object
    BY <1>a, <1>5, Scopes DEF Located
  <2>3. Right(rows, then)
    BY <1>a, <1>5, <2>1, <2>2, Scopes DEF Right, NodeTools, GuestTools
  <2>4. QED
    BY <2>3 DEF rows
<1>6. CASE call.tool \in GuestTools
  <2>1. \A row \in rows : /\ row.vmid = call.vmid /\ row.on = call.at
                          /\ row.type = GuestType(call.tool)
    BY <1>1, <1>2, <1>6 DEF Projected, GuestTools, GuestReport, Answer
  <2> HIDE DEF rows
  <2>2. call.vmid = call.target.object
    BY <1>a, <1>6, Scopes DEF Located
  <2>3. Scope(call.tool) = "GUEST"
    BY <1>a, <1>6, Scopes
  <2>4. \E m \in Machines : machine[m] = [vmid |-> call.vmid, on |-> call.at,
                                        type |-> GuestType(call.tool)]
    BY <1>1, <2>3 DEF Answerable, Living
  <2>5. \A row \in rows : \E m \in Machines :
          then.machine[m] = [vmid |-> row.vmid, type |-> row.type, on |-> row.on]
    BY <2>1, <2>4
  <2>6. Right(rows, then)
    BY <1>a, <1>6, <2>1, <2>2, <2>3, <2>5 DEF Right, GuestTools
  <2>7. QED
    BY <2>6 DEF rows
<1>7. QED
  BY <1>a, <1>3, <1>4, <1>5, <1>6, Scopes DEF Tools, InstanceTools

-----------------------------------------------------------------------------
(* The steps                                                               *)

LEMMA Start ==
  ASSUME Init
  PROVE  IInv
<1>1. machine \in [Machines -> Records \cup {NoMachine}] /\ node \in [Nodes -> {"online", "offline"}]
  BY DEF Init
<1>2. /\ call = NoCall /\ sent = Nothing /\ failed = <<>> /\ changes = 0
      /\ truth = [machine |-> machine, nodes |-> {}]
  BY DEF Init
<1>3. call \in Calls
  <2>1. {} \in Lists /\ "NONE" \in Errors /\ "node.list" \in Tools /\ 0 \in 0 .. MaxAttempts
    BY ProxmoxAssumption DEF Lists, Errors, Tools, InstanceTools
  <2>2. QED
    BY <1>2, <2>1, CallsAre DEF NoCall
<1>4. TypeOK
  <2>1. Budget \in Nat
    BY <1>3, ProxmoxAssumption, Scopes DEF Calls, Budget
  <2>2. QED
    BY <1>1, <1>2, <1>3, <2>1, ProxmoxAssumption DEF TypeOK, NoCall
<1>5. Fresh /\ Directed /\ Located /\ Collected /\ Retried
  BY <1>2 DEF Fresh, Directed, Located, Collected, Retried, Talking, Executed, NoCall
<1>6. AnswersAreAboutTheTarget /\ InventoriesAreWhole /\ OnlyTheUnreachableIsRetried
  BY <1>2 DEF AnswersAreAboutTheTarget, InventoriesAreWhole, OnlyTheUnreachableIsRetried,
              Executed, NoCall
<1>7. QED
  BY <1>4, <1>5, <1>6 DEF IInv

LEMMA BeginStep ==
  ASSUME IInv, NEW tool \in Tools, NEW target \in Targets, Begin(tool, target)
  PROVE  IInv'
<1> USE DEF IInv
<1>1. /\ call.pc = "idle" /\ call \in Calls
      /\ call' = [call EXCEPT !.pc = "begin", !.attempt = 1, !.tool = tool, !.target = target]
      /\ UNCHANGED <<node, machine, sent, failed, truth, changes>>
  BY DEF Begin, TypeOK
<1>2. /\ sent = Nothing /\ failed = <<>> /\ call.spent = 0
  BY <1>1 DEF Fresh
<1>3. /\ call' \in Calls /\ call'.pc = "begin" /\ call'.spent = 0 /\ call'.rows = {}
  <2>1. 1 \in 0 .. MaxAttempts
    BY ProxmoxAssumption
  <2>2. call.rows = {}
    BY <1>1 DEF Collected
  <2>3. QED
    BY <1>1, <1>2, <2>1, <2>2, CallsAre
<1>4. TypeOK'
  <2>1. Budget' \in Nat
    BY <1>3, ProxmoxAssumption, Scopes DEF Calls, Budget, Scope
  <2>2. QED
    BY <1>1, <1>2, <1>3, <2>1 DEF TypeOK
<1>5. Fresh' /\ Directed' /\ Located' /\ Collected' /\ Retried'
  BY <1>1, <1>2, <1>3 DEF Fresh, Directed, Located, Collected, Retried, Talking, Executed, Nothing
<1>6. AnswersAreAboutTheTarget' /\ InventoriesAreWhole'
  BY <1>1, <1>2, <1>3 DEF AnswersAreAboutTheTarget, InventoriesAreWhole, Executed, Nothing
<1>7. OnlyTheUnreachableIsRetried'
  BY <1>1, <1>2 DEF OnlyTheUnreachableIsRetried
<1>8. QED
  BY <1>4, <1>5, <1>6, <1>7

LEMMA NotConfiguredStep ==
  ASSUME IInv, NotConfigured
  PROVE  IInv'
<1>1. "not configured" \in Failures
  BY DEF Failures
<1>2. QED
  BY <1>1, FailStep DEF NotConfigured, IInv, TypeOK

LEMMA RouteStep ==
  ASSUME IInv, Route
  PROVE  IInv'
<1>a. call.pc = "begin" /\ call \in Calls /\ UNCHANGED <<node, machine, sent, truth, changes>>
      /\ truth' \in [machine : [Machines -> Records \cup {NoMachine}], nodes : SUBSET Nodes]
  BY DEF Route, IInv, TypeOK
<1>1. CASE Addressed(call.tool, call.target) # "ok"
  <2>1. Addressed(call.tool, call.target) \in {"identifier", "instance"}
    BY <1>1 DEF Addressed
  <2>2. PICK fault : fault = Addressed(call.tool, call.target)
    OBVIOUS
  <2>3. fault \in Failures /\ Fail(fault)
    BY <1>1, <2>1, <2>2 DEF Route, Failures
  <2>4. QED
    BY <1>a, <2>3, FailStep
<1>2. CASE Addressed(call.tool, call.target) = "ok"
  <2>1. /\ UNCHANGED failed
        /\ call' = [call EXCEPT !.pc = IF Scope(call.tool) = "INSTANCE"
                                       THEN "read" ELSE "inventory"]
    BY <1>2 DEF Route
  <2>2. /\ call' \in Calls /\ call'.tool = call.tool /\ call'.target = call.target
        /\ call'.spent = call.spent /\ call'.rows = call.rows
        /\ call'.pc = IF Scope(call.tool) = "INSTANCE" THEN "read" ELSE "inventory"
    <3>1. CASE Scope(call.tool) = "INSTANCE"
      BY <1>a, <2>1, <3>1, CallsAre
    <3>2. CASE Scope(call.tool) # "INSTANCE"
      BY <1>a, <2>1, <3>2, CallsAre
    <3>3. QED
      BY <3>1, <3>2
  <2>3. call'.spent <= Budget
    BY <2>2 DEF IInv, TypeOK
  <2>4. Scope(call.tool)' = Scope(call.tool)
    BY <2>2 DEF Scope
  <2>5. Located' /\ Collected'
    BY <1>a, <2>2, <2>4 DEF IInv, Located, Collected
  <2>6. QED
    BY <1>a, <1>2, <2>1, <2>2, <2>3, <2>5, ProceedStep
<1>3. QED
  BY <1>1, <1>2

LEMMA BudgetStep ==
  ASSUME IInv, BudgetExhausted
  PROVE  IInv'
<1>1. "budget" \in Failures
  BY DEF Failures
<1>2. QED
  BY <1>1, FailStep DEF BudgetExhausted, Talking, IInv, TypeOK

LEMMA RequestFailsStep ==
  ASSUME IInv, NEW fault \in Faults, RequestFails(fault)
  PROVE  IInv'
<1>1. fault \in Failures
  BY DEF Failures
<1>2. QED
  BY <1>1, FailStep DEF RequestFails, Send, Talking, IInv, TypeOK

(* The dispatcher's own timeout ends the conversation wherever it is.      *)
LEMMA CancelledStep ==
  ASSUME IInv, CancelledFromOutside
  PROVE  IInv'
<1> USE DEF IInv
<1>a. /\ Talking /\ call \in Calls /\ failed \in Seq(Failures)
      /\ call' = [Afresh EXCEPT !.pc = "done", !.state = "TIMED_OUT", !.error = "TIMEOUT"]
      /\ failed' = Append(failed, "cancelled") /\ "cancelled" \in Failures
      /\ UNCHANGED <<node, machine, truth, changes>>
  BY DEF CancelledFromOutside, TypeOK, Failures
<1>1. "TIMEOUT" \in Errors
  <2>1. "budget" \in Failures /\ Category("budget") = "TIMEOUT"
    BY DEF Failures, Category
  <2>2. QED
    BY <2>1 DEF Errors
<1>2. call' \in Calls
  BY <1>a, <1>1, Ends
<1>3. /\ call'.tool = call.tool /\ call'.target = call.target
      /\ call'.spent = 0 /\ call'.pc = "done" /\ call'.state = "TIMED_OUT"
  BY <1>a, <1>2, AfreshTyped, CallsAre
<1>4. TypeOK'
  <2>1. Budget' = Budget
    BY <1>3 DEF Budget
  <2>2. failed' \in Seq(Failures)
    BY <1>a
  <2>3. QED
    BY <1>a, <1>2, <1>3, <2>1, <2>2, Budgets DEF TypeOK
<1>5. Directed' /\ Ours(call.target)'
  <2>1. Ours(call.target)
    BY <1>a, AddressedIsOurs DEF Directed
  <2>2. Ours(call.target)'
    BY <1>3, <2>1 DEF Ours
  <2>3. ~(Talking \/ Executed)'
    BY <1>3 DEF Talking, Executed
  <2>4. QED
    BY <2>2, <2>3 DEF Directed
<1>6. Fresh' /\ Located' /\ Collected' /\ Retried'
  BY <1>3 DEF Fresh, Located, Collected, Retried
<1>7. AnswersAreAboutTheTarget' /\ InventoriesAreWhole'
  BY <1>3, <1>5 DEF AnswersAreAboutTheTarget, InventoriesAreWhole, Executed, Ours
<1>8. OnlyTheUnreachableIsRetried'
  <2>1. \A i \in 1 .. Len(failed') - 1 : failed'[i] = failed[i] /\ i \in DOMAIN failed
    BY <1>a
  <2>2. \A i \in DOMAIN failed : failed[i] \in Unreachable
    BY <1>a DEF Retried, Talking
  <2>3. QED
    BY <2>1, <2>2 DEF OnlyTheUnreachableIsRetried, Unreachable
<1>9. QED
  BY <1>4, <1>5, <1>6, <1>7, <1>8

(* A request is answered within what is left of the budget.                *)
LEMMA Spending ==
  ASSUME TypeOK, NEW took, Send(took)
  PROVE  call.spent + took \in Nat /\ call.spent + took <= Budget
BY Budgets DEF Send, Remaining

LEMMA ResolveNodeStep ==
  ASSUME IInv, NEW took, ResolveNode(took)
  PROVE  IInv'
<1>a. /\ call.pc = "inventory" /\ Scope(call.tool) = "NODE" /\ call \in Calls /\ Talking
      /\ truth \in [machine : [Machines -> Records \cup {NoMachine}], nodes : SUBSET Nodes]
      /\ Addressed(call.tool, call.target) = "ok"
  BY DEF ResolveNode, IInv, TypeOK, Talking, Directed
<1> DEFINE found == NodesNamed(call.target.object)
<1>s. Send(took) /\ UNCHANGED <<node, machine, truth, changes>>
  BY DEF ResolveNode, Take, Send
<1>1. CASE Cardinality(found) # 1
  <2>1. PICK fault \in {"not found", "ambiguous"} : Fail(fault)
    BY <1>1 DEF ResolveNode
  <2>2. fault \in Failures
    BY DEF Failures, Faults
  <2>3. QED
    BY <1>a, <1>s, <2>1, <2>2, FailStep
<1>2. CASE Cardinality(found) = 1
  <2>1. found # {}
    BY <1>2, FS_EmptySet
  <2>2. PICK n : n = CHOOSE m \in found : TRUE
    OBVIOUS
  <2>3. n \in Nodes /\ Fold[n] = call.target.object
    BY <2>1, <2>2 DEF NodesNamed
  <2>4. /\ call' = [[call EXCEPT !.pc = "read", !.at = n] EXCEPT !.spent = @ + took]
        /\ UNCHANGED failed
    BY <1>2, <2>2 DEF ResolveNode, Take
  <2>5. call.spent + took \in Nat /\ call.spent + took <= Budget
    BY <1>s, Spending DEF IInv
  <2>6. /\ call' \in Calls /\ call'.tool = call.tool /\ call'.target = call.target
        /\ call'.spent <= Budget /\ call'.pc = "read" /\ call'.at = n
    BY <1>a, <2>3, <2>4, <2>5, CallsAre
  <2>7. Scope(call.tool)' = "NODE"
    BY <1>a, <2>6 DEF Scope
  <2>8. Located' /\ Collected'
    BY <2>3, <2>6, <2>7 DEF Located, Collected
  <2>9. QED
    BY <1>a, <1>s, <2>4, <2>6, <2>8, ProceedStep
<1>3. QED
  BY <1>1, <1>2

LEMMA ResolveGuestStep ==
  ASSUME IInv, NEW took, ResolveGuest(took)
  PROVE  IInv'
<1>a. /\ call.pc = "inventory" /\ Scope(call.tool) = "GUEST" /\ call \in Calls /\ Talking
      /\ truth \in [machine : [Machines -> Records \cup {NoMachine}], nodes : SUBSET Nodes]
      /\ Addressed(call.tool, call.target) = "ok"
  BY DEF ResolveGuest, IInv, TypeOK, Talking, Directed
<1> DEFINE found == GuestsNumbered(call.target.object, GuestType(call.tool))
<1>s. Send(took) /\ UNCHANGED <<node, machine, truth, changes>>
  BY DEF ResolveGuest, Take, Send
<1>1. CASE Cardinality(found) # 1
  <2>1. PICK fault \in {"not found", "ambiguous"} : Fail(fault)
    BY <1>1 DEF ResolveGuest
  <2>2. fault \in Failures
    BY DEF Failures, Faults
  <2>3. QED
    BY <1>a, <1>s, <2>1, <2>2, FailStep
<1>2. CASE Cardinality(found) = 1
  <2>1. PICK m : m = CHOOSE g \in found : TRUE
    OBVIOUS
  <2>2. /\ call' = [[call EXCEPT !.pc = "read", !.vmid = call.target.object,
                                !.at = machine[m].on] EXCEPT !.spent = @ + took]
        /\ UNCHANGED failed
    BY <1>2, <2>1 DEF ResolveGuest, Take
  <2>3. machine[m].on \in Nodes
    <3>1. found # {}
      BY <1>2, FS_EmptySet
    <3>2. m \in Living
      BY <2>1, <3>1 DEF GuestsNumbered
    <3>3. machine[m] \in Records
      BY <3>2 DEF IInv, TypeOK, Living
    <3>4. QED
      BY <3>3 DEF Records
  <2>4. call.target.object \in Vmids
    BY <1>a, AddressedIsOurs
  <2>5. call.spent + took \in Nat /\ call.spent + took <= Budget
    BY <1>s, Spending DEF IInv
  <2>6. /\ call' \in Calls /\ call'.tool = call.tool /\ call'.target = call.target
        /\ call'.spent <= Budget /\ call'.pc = "read"
        /\ call'.at \in Nodes /\ call'.vmid = call.target.object
    BY <1>a, <2>2, <2>3, <2>4, <2>5, CallsAre
  <2>7. Scope(call.tool)' = "GUEST"
    BY <1>a, <2>6 DEF Scope
  <2>8. Located' /\ Collected'
    BY <2>6, <2>7 DEF Located, Collected
  <2>9. QED
    BY <1>a, <1>s, <2>2, <2>6, <2>8, ProceedStep
<1>3. QED
  BY <1>1, <1>2

(* The storage tool learns which nodes there are to be asked.              *)
LEMMA ResolveNodesStep ==
  ASSUME IInv, NEW took, ResolveNodes(took)
  PROVE  IInv'
<1> DEFINE online == {n \in Nodes : node[n] = "online"}
<1>a. /\ call.pc = "inventory" /\ Scope(call.tool) = "FANOUT" /\ call \in Calls /\ Talking
      /\ call.tool = "storage.list" /\ call.rows = {}
      /\ truth \in [machine : [Machines -> Records \cup {NoMachine}], nodes : SUBSET Nodes]
      /\ Addressed(call.tool, call.target) = "ok"
  <2>1. call.pc = "inventory" /\ Scope(call.tool) = "FANOUT"
    BY DEF ResolveNodes
  <2>2. call.tool \in Tools /\ call \in Calls
        /\ truth \in [machine : [Machines -> Records \cup {NoMachine}], nodes : SUBSET Nodes]
    BY DEF IInv, TypeOK, Calls
  <2>3. QED
    BY <2>1, <2>2, Scopes DEF IInv, Talking, Directed, Collected
<1>s. /\ Send(took) /\ UNCHANGED <<node, machine, changes>>
      /\ truth' = [truth EXCEPT !.nodes = online]
  BY DEF ResolveNodes, Send
<1>t. /\ truth' \in [machine : [Machines -> Records \cup {NoMachine}], nodes : SUBSET Nodes]
      /\ truth'.nodes = online
  BY <1>a, <1>s
<1>1. CASE online = {}
  <2>1. Finish({})
    BY <1>1 DEF ResolveNodes
  <2>2. PICK then : then = truth'
    OBVIOUS
  <2>3. Right({}, then)
    BY <1>1, <1>a, <1>t, <2>2 DEF Right
  <2>4. QED
    BY <1>a, <1>s, <1>t, <2>1, <2>2, <2>3, FinishStep DEF Right
<1>2. CASE online # {}
  <2>1. /\ call' = [call EXCEPT !.pc = "read", !.todo = SetToSeq(online), !.spent = @ + took]
        /\ UNCHANGED failed
    BY <1>2 DEF ResolveNodes
  <2>2. SetToSeq(online) \in Seq(Nodes) /\ Range(SetToSeq(online)) = online
    <3>1. IsFiniteSet(online)
      BY ProxmoxAssumption, FS_Subset
    <3>2. SetToSeq(online) \in Seq(online) /\ Range(SetToSeq(online)) = online
      BY <3>1, SeqOfSet
    <3>3. QED
      BY <3>2
  <2>3. PICK todo : todo = SetToSeq(online)
    OBVIOUS
  <2>4. todo \in Seq(Nodes) /\ Range(todo) = online /\ todo # <<>>
    <3>1. Range(<<>>) = {}
      BY DEF Range
    <3>2. QED
      BY <1>2, <2>2, <2>3, <3>1
  <2>5. call.spent + took \in Nat /\ call.spent + took <= Budget
    BY <1>s, Spending DEF IInv
  <2>6. /\ call' \in Calls /\ call'.tool = call.tool /\ call'.target = call.target
        /\ call'.spent <= Budget /\ call'.pc = "read"
        /\ call'.todo = todo /\ call'.rows = {}
    BY <1>a, <2>1, <2>3, <2>4, <2>5, CallsAre
  <2>7. Scope(call.tool)' = "FANOUT"
    BY <1>a, <2>6 DEF Scope
  <2>8. Collected'
    <3>1. Range(call.todo)' = online
      BY <2>4, <2>6 DEF Range
    <3>2. QED
      BY <1>t, <2>4, <2>6, <3>1 DEF Collected
  <2>9. Located'
    BY <2>6, <2>7 DEF Located
  <2>10. QED
    BY <1>a, <1>s, <1>t, <2>1, <2>6, <2>8, <2>9, ProceedStep
<1>3. QED
  BY <1>1, <1>2

LEMMA ReadStep ==
  ASSUME IInv, NEW took, NEW unroutable, NEW reading \in Readings,
         Read(took, unroutable, reading)
  PROVE  IInv'
<1> DEFINE answer == Body(unroutable, reading)
<1>a. /\ call.pc = "read" /\ Scope(call.tool) # "FANOUT" /\ call.tool \in Tools /\ Talking
      /\ machine \in [Machines -> Records \cup {NoMachine}]
      /\ truth \in [machine : [Machines -> Records \cup {NoMachine}], nodes : SUBSET Nodes]
  BY DEF Read, IInv, TypeOK, Calls, Talking
<1>s. /\ Send(took) /\ UNCHANGED <<node, machine, changes>>
      /\ truth' = [truth EXCEPT !.machine = machine]
  BY DEF Read, Send
<1>t. /\ truth' \in [machine : [Machines -> Records \cup {NoMachine}], nodes : SUBSET Nodes]
      /\ truth'.machine = machine
  BY <1>a, <1>s
<1>1. CASE answer.fault = "none"
  <2>1. Finish(answer.rows)
    BY <1>1 DEF Read
  <2>2. PICK rows : rows = answer.rows
    OBVIOUS
  <2>3. PICK then : then = truth'
    OBVIOUS
  <2>4. Right(rows, then)
    BY <1>1, <1>a, <1>t, <2>2, <2>3, AnswerRight
  <2>5. Finish(rows)
    BY <2>1, <2>2
  <2>6. Right(rows, truth')
    BY <2>3, <2>4
  <2>7. QED
    BY <1>a, <1>s, <1>t, <2>5, <2>6, FinishStep
<1>2. CASE answer.fault # "none"
  <2>1. PICK fault : fault = answer.fault
    OBVIOUS
  <2>2. Fail(fault)
    BY <1>2, <2>1 DEF Read
  <2>3. fault \in Failures
    BY <1>2, <2>1, BodyFaults DEF Failures, Faults
  <2>4. QED
    BY <1>a, <1>s, <1>t, <2>2, <2>3, FailStep
<1>3. QED
  BY <1>1, <1>2

(* One node's storage: its rows carry its name.                            *)
LEMMA StorageRowsOf ==
  ASSUME call.tool = "storage.list", NEW unroutable, NEW reading,
         Body(unroutable, reading).fault = "none"
  PROVE  /\ {row.on : row \in Body(unroutable, reading).rows} = {Head(call.todo)}
         /\ AsInt(reading) \in Rest
         /\ Body(unroutable, reading).rows = {[on |-> Head(call.todo), rest |-> AsInt(reading)]}
<1>1. Body(unroutable, reading) = Projected(unroutable, reading)
  BY DEF Body
<1>2. AsInt(reading) # "raises"
  BY <1>1 DEF Projected
<1>3. Body(unroutable, reading) = StorageEntries(unroutable, reading)
  BY <1>1, <1>2 DEF Projected, GuestTools
<1>4. Body(unroutable, reading).rows = {[on |-> Head(call.todo), rest |-> AsInt(reading)]}
  BY <1>3 DEF StorageEntries, Answer, Unusable
<1>5. AsInt(reading) \in {"value", "unknown", "raises"}
  BY DEF AsInt
<1>6. QED
  BY <1>2, <1>4, <1>5 DEF Rest

(* The first element and the others.                                       *)
LEMMA HeadAndTail ==
  ASSUME NEW S, NEW seq \in Seq(S), seq # <<>>
  PROVE  /\ Head(seq) \in S /\ Tail(seq) \in Seq(S)
         /\ Range(seq) = {Head(seq)} \cup Range(Tail(seq))
         /\ Len(seq) = 1 <=> Tail(seq) = <<>>
<1>1. Len(seq) \in Nat \ {0} /\ DOMAIN seq = 1 .. Len(seq) /\ Head(seq) = seq[1]
  OBVIOUS
<1>2. /\ Tail(seq) \in Seq(S) /\ Len(Tail(seq)) = Len(seq) - 1
      /\ DOMAIN Tail(seq) = 1 .. Len(seq) - 1
      /\ \A i \in 1 .. Len(seq) - 1 : Tail(seq)[i] = seq[i + 1]
  OBVIOUS
<1>3. Range(seq) \subseteq {Head(seq)} \cup Range(Tail(seq))
  <2>1. ASSUME NEW i \in 1 .. Len(seq), i # 1 PROVE seq[i] \in Range(Tail(seq))
    <3>1. i - 1 \in 1 .. Len(seq) - 1 /\ Tail(seq)[i - 1] = seq[i]
      BY <1>1, <1>2, <2>1
    <3>2. QED
      BY <1>2, <3>1 DEF Range
  <2>2. QED
    BY <1>1, <2>1 DEF Range
<1>4. {Head(seq)} \cup Range(Tail(seq)) \subseteq Range(seq)
  BY <1>1, <1>2 DEF Range
<1>5. Head(seq) \in S
  BY <1>1
<1>6. Len(seq) = 1 <=> Tail(seq) = <<>>
  <2>1. Tail(seq) = <<>> <=> Len(Tail(seq)) = 0
    BY <1>2
  <2>2. QED
    BY <1>1, <1>2, <2>1
<1>7. QED
  BY <1>2, <1>3, <1>4, <1>5, <1>6

LEMMA ReadStorageStep ==
  ASSUME IInv, NEW took, NEW unroutable, NEW reading \in Readings,
         ReadStorage(took, unroutable, reading)
  PROVE  IInv'
<1> DEFINE answer == Body(unroutable, reading)
<1>a. /\ call.pc = "read" /\ Scope(call.tool) = "FANOUT" /\ call \in Calls /\ Talking
      /\ call.tool = "storage.list"
      /\ truth \in [machine : [Machines -> Records \cup {NoMachine}], nodes : SUBSET Nodes]
      /\ Addressed(call.tool, call.target) = "ok"
  <2>1. call.pc = "read" /\ Scope(call.tool) = "FANOUT"
    BY DEF ReadStorage
  <2>2. call.tool \in Tools /\ call \in Calls
        /\ truth \in [machine : [Machines -> Records \cup {NoMachine}], nodes : SUBSET Nodes]
    BY DEF IInv, TypeOK, Calls
  <2>3. QED
    BY <2>1, <2>2, Scopes DEF IInv, Talking, Directed
<1>s. Send(took) /\ UNCHANGED <<node, machine, truth, changes>>
  BY DEF ReadStorage, Send
<1>1. CASE answer.fault # "none"
  <2>1. PICK fault : fault = answer.fault
    OBVIOUS
  <2>2. Fail(fault)
    BY <1>1, <2>1 DEF ReadStorage
  <2>3. fault \in Failures
    BY <1>1, <2>1, BodyFaults DEF Failures, Faults
  <2>4. QED
    BY <1>a, <1>s, <2>2, <2>3, FailStep
<1>2. CASE answer.fault = "none"
  <2>1. PICK rows : rows = answer.rows
    OBVIOUS
  <2>2. Collect(took, rows)
    BY <1>2, <2>1 DEF ReadStorage
  <2>3. /\ {row.on : row \in rows} = {Head(call.todo)} /\ AsInt(reading) \in Rest
        /\ rows = {[on |-> Head(call.todo), rest |-> AsInt(reading)]}
    BY <1>2, <1>a, <2>1, StorageRowsOf
  <2>4. /\ call.todo \in Seq(Nodes) /\ call.todo # <<>>
        /\ {row.on : row \in call.rows} \cup Range(call.todo) = truth.nodes
    BY <1>a, CallsAre DEF IInv, Collected
  <2>5. /\ Head(call.todo) \in Nodes /\ Tail(call.todo) \in Seq(Nodes)
        /\ Range(call.todo) = {Head(call.todo)} \cup Range(Tail(call.todo))
        /\ Len(call.todo) = 1 <=> Tail(call.todo) = <<>>
    BY <2>4, HeadAndTail
  <2>6. PICK union : union = call.rows \cup rows
    OBVIOUS
  <2>7. {row.on : row \in union} \cup Range(Tail(call.todo)) = truth.nodes
    BY <2>3, <2>4, <2>5, <2>6
  <2>8. CASE Len(call.todo) = 1
    <3>1. Finish(union)
      BY <2>2, <2>6, <2>8 DEF Collect
    <3>2. {row.on : row \in union} = truth.nodes
      BY <2>5, <2>7, <2>8 DEF Range
    <3>3. Right(union, truth)
      BY <1>a, <3>2 DEF Right
    <3>4. Right(union, truth')
      BY <1>s, <3>3
    <3>5. QED
      BY <1>a, <1>s, <3>1, <3>4, FinishStep
  <2>9. CASE Len(call.todo) # 1
    <3>1. /\ call' = [call EXCEPT !.rows = union, !.todo = Tail(call.todo),
                                 !.spent = @ + took]
          /\ UNCHANGED failed
      BY <2>2, <2>6, <2>9 DEF Collect
    <3>2. union \in Lists
      <4>1. rows \subseteq Declared("storage.list")
        BY <2>3, <2>5 DEF Declared, StorageRows, NodeTools, GuestTools
      <4>2. rows \in Lists /\ call.rows \in Lists
        BY <1>a, <4>1, CallsAre DEF Lists, Tools
      <4>3. QED
        BY <2>6, <4>2 DEF Lists
    <3>3. call.spent + took \in Nat /\ call.spent + took <= Budget
      BY <1>s, Spending DEF IInv
    <3>4. PICK todo : todo = Tail(call.todo)
      OBVIOUS
    <3>5. /\ call' \in Calls /\ call'.tool = call.tool /\ call'.target = call.target
          /\ call'.spent <= Budget /\ call'.pc = "read"
          /\ call'.todo = todo /\ call'.rows = union
      BY <1>a, <2>5, <3>1, <3>2, <3>3, <3>4, CallsAre
    <3>6. Scope(call.tool)' = "FANOUT"
      BY <1>a, <3>5 DEF Scope
    <3>7. Collected'
      <4>1. Range(call.todo)' = Range(todo)
        BY <3>5 DEF Range
      <4>2. {row.on : row \in union} \cup Range(todo) = truth.nodes /\ todo # <<>>
        BY <2>5, <2>7, <2>9, <3>4
      <4>3. QED
        BY <1>s, <3>5, <4>1, <4>2 DEF Collected
    <3>8. Located'
      BY <3>5, <3>6 DEF Located
    <3>9. QED
      BY <1>a, <1>s, <3>1, <3>5, <3>7, <3>8, ProceedStep
  <2>10. QED
    BY <2>8, <2>9
<1>3. QED
  BY <1>1, <1>2

(* The invariant is about the conversation and its history.                *)
LEMMA ConversationUntouched ==
  ASSUME IInv, UNCHANGED <<call, sent, failed, truth>>, TypeOK'
  PROVE  IInv'
<1> USE DEF IInv
<1>1. Fresh' /\ Retried' /\ OnlyTheUnreachableIsRetried'
  BY DEF Fresh, Retried, OnlyTheUnreachableIsRetried, Nothing
<1>2. Directed'
  BY DEF Directed, Ours, Addressed, Scope, Talking, Executed, Nothing
<1>3. Located'
  BY DEF Located, Scope
<1>4. Collected'
  BY DEF Collected, Scope, Range
<1>5. AnswersAreAboutTheTarget'
  BY DEF AnswersAreAboutTheTarget, Executed, Scope, Nothing
<1>6. InventoriesAreWhole'
  BY DEF InventoriesAreWhole, Executed
<1>7. QED
  BY <1>1, <1>2, <1>3, <1>4, <1>5, <1>6

(* The cluster's own life leaves the conversation and its history alone.   *)
LEMMA ClusterStep ==
  ASSUME IInv, Cluster
  PROVE  IInv'
<1> USE DEF IInv
<1>1. Changes
  BY DEF Cluster, Flip, Destroy, Migrate, Create
<1>2. /\ Talking /\ UNCHANGED <<call, sent, failed, truth>>
      /\ changes' \in 0 .. MaxChanges
  BY <1>1, ProxmoxAssumption DEF Changes, TypeOK
<1>3. node' \in [Nodes -> {"online", "offline"}]
  BY DEF Cluster, Flip, Destroy, Migrate, Create, TypeOK
<1>4. machine' \in [Machines -> Records \cup {NoMachine}]
  <2>1. ASSUME NEW m \in Machines, NEW n \in Nodes, Migrate(m, n)
        PROVE  machine' \in [Machines -> Records \cup {NoMachine}]
    <3>1. machine[m] \in Records
      BY <2>1 DEF Migrate, Living, TypeOK
    <3>2. [machine[m] EXCEPT !.on = n] \in Records
      BY <3>1 DEF Records
    <3>3. QED
      BY <2>1, <3>2 DEF Migrate, TypeOK
  <2>2. QED
    BY <2>1 DEF Cluster, Flip, Destroy, Create, TypeOK
<1>5. TypeOK'
  BY <1>2, <1>3, <1>4 DEF TypeOK, Budget
<1>6. QED
  BY <1>2, <1>5, ConversationUntouched

(* Every step keeps the invariant.                                         *)
LEMMA Steps ==
  ASSUME IInv, [Next]_vars
  PROVE  IInv'
<1>1. CASE UNCHANGED vars
  <2>1. UNCHANGED <<node, machine, call, sent, failed, truth, changes>>
    BY <1>1 DEF vars
  <2>2. TypeOK'
    BY <2>1 DEF IInv, TypeOK, Budget
  <2>3. QED
    BY <2>1, <2>2, ConversationUntouched
<1>2. CASE Cluster
  BY <1>2, ClusterStep
<1>3. CASE Converse
  <2>1. ASSUME NEW tool \in Tools, NEW target \in Targets, Begin(tool, target) PROVE IInv'
    BY <2>1, BeginStep
  <2>2. CASE NotConfigured \/ Route
    BY <2>2, NotConfiguredStep, RouteStep
  <2>3. CASE BudgetExhausted \/ CancelledFromOutside
    BY <2>3, BudgetStep, CancelledStep
  <2>4. ASSUME NEW fault \in Faults, RequestFails(fault) PROVE IInv'
    BY <2>4, RequestFailsStep
  <2>5. ASSUME NEW took, ResolveNode(took) \/ ResolveGuest(took) \/ ResolveNodes(took)
        PROVE  IInv'
    BY <2>5, ResolveNodeStep, ResolveGuestStep, ResolveNodesStep
  <2>6. ASSUME NEW took, NEW unroutable, NEW reading \in Readings,
               Read(took, unroutable, reading) \/ ReadStorage(took, unroutable, reading)
        PROVE  IInv'
    BY <2>6, ReadStep, ReadStorageStep
  <2>7. QED
    BY <1>3, <2>1, <2>2, <2>3, <2>4, <2>5, <2>6 DEF Converse
<1>4. QED
  BY <1>1, <1>2, <1>3 DEF Next

-----------------------------------------------------------------------------
(* The theorems                                                            *)

(* The inductive invariant of a read, from its start to its end, with the  *)
(* cluster living on beside it (services/tools/dispatcher.py, _execute;    *)
(* adapters/proxmox/adapter.py, _observe).                                 *)
THEOREM Invariance == Spec => []IInv
<1>1. Init => IInv
  BY Start
<1>2. IInv /\ [Next]_vars => IInv'
  BY Steps
<1>3. QED
  BY <1>1, <1>2, PTL DEF Spec

(* The conversation, its budget and its history keep their types.          *)
THEOREM TypeCorrect == Spec => []TypeOK
<1>1. IInv => TypeOK
  BY DEF IInv
<1>2. QED
  BY <1>1, Invariance, PTL

(* A read that succeeds is about what its asset's identifier names, and    *)
(* nothing is sent for an identifier of another instance, or none          *)
(* (adapters/proxmox/identity.py, adapter.py's _guest).                    *)
THEOREM AboutTheTarget == Spec => []AnswersAreAboutTheTarget
<1>1. IInv => AnswersAreAboutTheTarget
  BY DEF IInv
<1>2. QED
  BY <1>1, Invariance, PTL

(* A list that succeeds leaves out no guest, no node and no online node's  *)
(* storage (client.py's _envelope, projection.py, adapter.py's _storage).  *)
THEOREM WholeInventories == Spec => []InventoriesAreWhole
<1>1. IInv => InventoriesAreWhole
  BY DEF IInv
<1>2. QED
  BY <1>1, Invariance, PTL

(* Whatever fails before the last attempt is a connection or a client that *)
(* could not be had (errors.py, contract.py's RETRYABLE_CATEGORIES).       *)
THEOREM OnlyUnreachable == Spec => []OnlyTheUnreachableIsRetried
<1>1. IInv => OnlyTheUnreachableIsRetried
  BY DEF IInv
<1>2. QED
  BY <1>1, Invariance, PTL
=============================================================================
