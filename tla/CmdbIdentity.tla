---------------------------- MODULE CmdbIdentity ----------------------------
(***************************************************************************)
(* Assets, the identifiers that correlate sources to them, and the edges   *)
(* between them: services/identity_resolver.py, services/asset.py,         *)
(* services/relationship.py with the constraints of their tables.          *)
(*                                                                         *)
(* A request is a READ COMMITTED transaction: it reads (Read), possibly    *)
(* reads again (ReadAgain), then flushes and commits (Commit), or answers  *)
(* a refusal at the read that found the reason.  Any other request may     *)
(* commit in between; the unique indexes and CHECK constraints have the    *)
(* last word, and what they refuse is rolled back whole.                   *)
(***************************************************************************)
EXTENDS Naturals, Sequences, FiniteSets

CONSTANTS
    Requests,     \* request tasks, each serving one call
    Bodies,       \* the calls they may serve
    Inventories,  \* the assets, identifiers and edges the system may start from
    Cores,        \* identifier values apart from their spelling
    NULL

ASSUME NullAssumption == NULL \notin Nat

VARIABLES
    assets,       \* asset rows; the id is the index, in UUID order
    identifiers,  \* asset_identifier rows
    edges,        \* asset_relationship rows
    clock,        \* datetime.now() of the process
    req           \* per request: step, body, clock reading, rows read, answer

vars == <<assets, identifiers, edges, clock, req>>

-----------------------------------------------------------------------------
(* Registries *)

LifecycleState == {"PLANNED", "ACTIVE", "INACTIVE", "RETIRED", "MERGED"}
TERMINAL_LIFECYCLE_STATES == {"RETIRED", "MERGED"}

\* IDENTIFIER_NAMESPACES: those whose value identifies at most one live asset.
UniqueIn == {"serial", "smbios:uuid", "mac", "proxmox:instance", "proxmox:node",
             "proxmox:guest", "proxmox:storage", "proxmox:uuid", "docker:container-id"}

\* What a namespace's normaliser erases of a spelling: letter case and outer
\* blanks everywhere, a MAC's separators, a host name's trailing dots, and all
\* but the digits of an interface index.
Erases(ns) ==
    {"case", "blank"} \cup
    (CASE ns = "mac" -> {"separator"}
       [] ns \in {"hostname", "fqdn"} -> {"dot"}
       [] ns = "cisco:if-index" -> {"separator", "dot", "letter"}
       [] OTHER -> {})

\* RELATIONSHIP_SPECS: symmetry, permitted endpoints and the label read backwards.
EdgeSpec(symmetric, inverse, sources, targets) ==
    [symmetric |-> symmetric, inverse |-> inverse, sources |-> sources, targets |-> targets]
Ports == {"NETWORK_INTERFACE", "SWITCH_PORT", "DEVICE"}
Software == {"SERVICE", "APPLICATION"}
EdgeSpecOf(t) ==
    CASE t = "HAS_INTERFACE" ->
            EdgeSpec(FALSE, "INTERFACE_OF", {"DEVICE", "HOST", "VM"}, {"NETWORK_INTERFACE"})
      [] t = "CONNECTED_TO" -> EdgeSpec(TRUE, "CONNECTED_TO", Ports, Ports)
      [] t = "MEMBER_OF" ->
            EdgeSpec(FALSE, "HAS_MEMBER", {"SWITCH_PORT", "HOST", "VM"},
                     {"VLAN", "DEVICE", "CLUSTER"})
      [] t = "RUNS_ON" ->
            EdgeSpec(FALSE, "HOSTS", {"VM", "CONTAINER", "SERVICE"}, {"HOST", "VM", "DEVICE"})
      [] t = "DEPENDS_ON" -> EdgeSpec(FALSE, "REQUIRED_BY", Software, Software)
      [] t = "IP_ASSIGNED_TO" ->
            EdgeSpec(FALSE, "HAS_IP", {"IP_ADDRESS"}, {"NETWORK_INTERFACE"})
      [] t = "USES_STORAGE" ->
            EdgeSpec(FALSE, "PROVIDES_STORAGE", {"VM", "HOST", "SERVICE"}, {"STORAGE_DEVICE"})

\* RelationshipType.
RelationshipTypes == {"HAS_INTERFACE", "CONNECTED_TO", "MEMBER_OF", "RUNS_ON", "DEPENDS_ON",
                      "IP_ASSIGNED_TO", "USES_STORAGE"}

permits(t, source, target) ==
    /\ assets[source].type \in EdgeSpecOf(t).sources
    /\ assets[target].type \in EdgeSpecOf(t).targets

-----------------------------------------------------------------------------
(* Calls *)

\* A value is a core and the marks of its spelling.
Spelling == [core : Cores, marks : SUBSET {"case", "blank", "separator", "dot", "letter"}]

\* IdentifierInput.
Presentable == [ns : STRING, val : Spelling]

\* RelationshipAssert.
Relationship ==
    [op : {"LINK"}, type : RelationshipTypes, src : Nat, tgt : Nat,
     qualifier : STRING \cup {NULL}, by : STRING]

ASSUME BodiesAssumption ==
    Bodies \subseteq
        [op : {"RESOLVE"}, type : STRING, items : Seq(Presentable), create : BOOLEAN]
        \cup [op : {"ATTACH"}, asset : Nat, item : Presentable]
        \cup [op : {"PATCH"}, asset : Nat, life : LifecycleState \ TERMINAL_LIFECYCLE_STATES]
        \cup [op : {"RETIRE"}, asset : Nat]
        \cup [op : {"FREE", "UNLINK"}, id : Nat]
        \cup Relationship

-----------------------------------------------------------------------------
(* Tables *)

AssetRow == [type : STRING, life : LifecycleState, retired_at : Nat \cup {NULL}]
IdentifierRow == [asset : Nat \ {0}, ns : STRING, val : Spelling, live : BOOLEAN]
EdgeRow == [type : RelationshipTypes, src : Nat, tgt : Nat, qualifier : STRING \cup {NULL},
            by : STRING, from : Nat, to : Nat \cup {NULL}, supersedes : Nat]

Asset(type) == [type |-> type, life |-> "ACTIVE", retired_at |-> NULL]

\* normalise: the key an identifier is compared by.
normalise(item) == [item.val EXCEPT !.marks = @ \ Erases(item.ns)]
Key(item) == [ns |-> item.ns, val |-> normalise(item)]
Identifier(a, item) ==
    [asset |-> a, ns |-> item.ns, val |-> normalise(item), live |-> TRUE]
KeyOf(row) == [ns |-> row.ns, val |-> row.val]

Edge(b, src, tgt, now, supersedes) ==
    [type |-> b.type, src |-> src, tgt |-> tgt, qualifier |-> b.qualifier, by |-> b.by,
     from |-> now, to |-> NULL, supersedes |-> supersedes]

\* Mutant: the constraint asks a RETIRED asset for its date, not the reverse.
AssetChecksOneWay(row) ==
    /\ row.life # "MERGED"
    /\ row.life = "RETIRED" => row.retired_at # NULL

\* CHECK merged_state, retired_state: nothing sets merged_into_id.
AssetChecks(row) ==
    /\ row.life # "MERGED"
    /\ (row.life = "RETIRED") <=> (row.retired_at # NULL)

\* Mutant: the index on live unique values is missing.
IdentifierUniquePerAsset(a, b) ==
    (a.live /\ b.live /\ KeyOf(a) = KeyOf(b)) => a.asset # b.asset

\* uq_asset_identifier_live_unique and uq_asset_identifier_asset_ns_value.
IdentifierUnique(a, b) ==
    (a.live /\ b.live /\ KeyOf(a) = KeyOf(b)) => (a.ns \notin UniqueIn /\ a.asset # b.asset)

\* CHECK no_self, symmetric_order and interval.
EdgeChecks(row) ==
    /\ row.src # row.tgt
    /\ EdgeSpecOf(row.type).symmetric => row.src < row.tgt
    /\ row.to # NULL => row.to >= row.from

\* Mutant: the keys take in where the edge came from.
EdgeUniquePerLineage(a, b) ==
    LET key(e) == <<e.src, e.type, e.tgt, e.qualifier, e.by, e.from>>
    IN  key(a) # key(b)

\* uq_asset_relationship_live and ex_asset_relationship_no_overlap.
EdgeUnique(a, b) ==
    LET key(e) == <<e.src, e.type, e.tgt, e.qualifier, e.by>>
        ends(e, t) == e.to = NULL \/ t < e.to
    IN  key(a) = key(b) => ~(ends(a, b.from) /\ ends(b, a.from))

Storable(as, ids, es) ==
    /\ \A i \in 1..Len(as) : AssetChecks(as[i])
    /\ \A i, j \in 1..Len(ids) : i # j => IdentifierUnique(ids[i], ids[j])
    /\ \A i \in 1..Len(es) : EdgeChecks(es[i])
    /\ \A i, j \in 1..Len(es) : i # j => EdgeUnique(es[i], es[j])

ASSUME InventoriesAssumption ==
    \A i \in Inventories :
        /\ i.assets \in Seq(AssetRow) /\ i.ids \in Seq(IdentifierRow)
        /\ i.edges \in Seq(EdgeRow) /\ Storable(i.assets, i.ids, i.edges)

-----------------------------------------------------------------------------
(* Reads *)

LiveIdentifiers == {i \in 1..Len(identifiers) : identifiers[i].live}
LiveEdges == {i \in 1..Len(edges) : edges[i].to = NULL}

Keys(items) == {Key(items[i]) : i \in 1..Len(items)}
UniqueKeys(items) == {k \in Keys(items) : k.ns \in UniqueIn}

\* Only namespaces declared unique identify; a hostname is a hint.
find_matches(items) ==
    {identifiers[i].asset : i \in {n \in LiveIdentifiers : KeyOf(identifiers[n]) \in UniqueKeys(items)}}

Carried(a) == {KeyOf(identifiers[i]) : i \in {n \in LiveIdentifiers : identifiers[n].asset = a}}

Holder(k) == \E i \in LiveIdentifiers : KeyOf(identifiers[i]) = k

\* One cable, one row: a symmetric edge is kept in UUID order.
Canonical(b) ==
    IF EdgeSpecOf(b.type).symmetric /\ b.src > b.tgt
    THEN [src |-> b.tgt, tgt |-> b.src] ELSE [src |-> b.src, tgt |-> b.tgt]

\* The live edge of this source, whatever its qualifier; 0 for none.  Two can
\* only be live with different qualifiers, and then either is read first.
FoundEdges(b) ==
    LET c == Canonical(b)
        live == {i \in LiveEdges : /\ edges[i].src = c.src /\ edges[i].tgt = c.tgt
                                   /\ edges[i].type = b.type /\ edges[i].by = b.by}
    IN  IF live = {} THEN {0} ELSE live

\* neighbours(): every live edge from this asset's side of it.
neighbours(a) ==
    {[edge |-> i,
      other |-> IF edges[i].src = a THEN edges[i].tgt ELSE edges[i].src,
      label |-> IF edges[i].src = a THEN edges[i].type ELSE EdgeSpecOf(edges[i].type).inverse] :
        i \in {n \in LiveEdges : a \in {edges[n].src, edges[n].tgt}}}

-----------------------------------------------------------------------------
(* Writes *)

Outcome(as, ids, es, answer) ==
    [assets |-> as, ids |-> ids, edges |-> es, answer |-> answer]
Named(what, which) == [what |-> what, which |-> which]

\* _attach_missing: one row per presented item the asset did not carry when
\* asked, an item presented in two spellings included twice.
attach_missing(a, items, carried) ==
    LET missing == {i \in 1..Len(items) : Key(items[i]) \notin carried}
        order == CHOOSE f \in [1..Cardinality(missing) -> missing] :
                    \A i \in missing : \E n \in DOMAIN f : f[n] = i
    IN  identifiers \o [n \in DOMAIN order |-> Identifier(a, items[order[n]])]

\* resolve, once the matches are known: none or one.
resolve(q) ==
    LET a == IF q.seen.match = 0 THEN Len(assets) + 1 ELSE q.seen.match
    IN  Outcome(IF q.seen.match = 0 THEN Append(assets, Asset(q.body.type)) ELSE assets,
                attach_missing(a, q.body.items, q.seen.carried), edges,
                Named(IF q.seen.match = 0 THEN "CREATED" ELSE "MATCHED", a))

attach_identifier(q) ==
    Outcome(assets,
            IF q.seen.carries THEN identifiers
            ELSE Append(identifiers, Identifier(q.body.asset, q.body.item)),
            edges, Named("ATTACHED", q.body.asset))

retire_identifier(q) ==
    Outcome(assets, [identifiers EXCEPT ![q.body.id].live = FALSE], edges,
            Named("FREED", q.body.id))

\* PATCH: lifecycle_state is written when it differs from the one read.
update(q) ==
    Outcome([assets EXCEPT ![q.body.asset].life =
                IF q.body.life = q.seen.life THEN @ ELSE q.body.life],
            identifiers, edges, Named("UPDATED", q.body.asset))

\* retire: the edges read as live are closed; identifiers stay attached.
retire(q) ==
    Outcome([assets EXCEPT ![q.body.asset] = [@ EXCEPT !.life = "RETIRED", !.retired_at = q.now]],
            identifiers,
            [i \in 1..Len(edges) |-> IF i \in q.seen.edges THEN [edges[i] EXCEPT !.to = q.now]
                                                           ELSE edges[i]],
            Named("RETIRED", q.body.asset))

assert_relationship(q) ==
    LET b == q.body
        c == Canonical(b)
        live == q.seen.edge
    IN  IF live # 0 /\ q.seen.qualifier = b.qualifier
        THEN Outcome(assets, identifiers, edges, Named("TOUCHED", live))
        ELSE Outcome(assets, identifiers,
                     Append(IF live = 0 THEN edges ELSE [edges EXCEPT ![live].to = q.now],
                            Edge(b, c.src, c.tgt, q.now, live)),
                     Named("LINKED", Len(edges) + 1))

retire_relationship(q) ==
    Outcome(assets, identifiers, [edges EXCEPT ![q.body.id].to = q.now], Named("CLOSED", q.body.id))

Effect(q) ==
    CASE q.body.op = "RESOLVE" -> resolve(q)
      [] q.body.op = "ATTACH"  -> attach_identifier(q)
      [] q.body.op = "FREE"    -> retire_identifier(q)
      [] q.body.op = "PATCH"   -> update(q)
      [] q.body.op = "RETIRE"  -> retire(q)
      [] q.body.op = "LINK"    -> assert_relationship(q)
      [] q.body.op = "UNLINK"  -> retire_relationship(q)

-----------------------------------------------------------------------------
Idle == [at |-> "idle", body |-> [op |-> "NONE"], now |-> 0, seen |-> NULL, answer |-> NULL]

Init ==
    /\ \E i \in Inventories : assets = i.assets /\ identifiers = i.ids /\ edges = i.edges
    /\ clock = 2
    /\ req = [r \in Requests |-> Idle]

Rows == <<assets, identifiers, edges>>

\* A call on a row names one that exists.
Begin(r) ==
    /\ req[r].at = "idle"
    /\ \E b \in Bodies :
          /\ b.op \in {"ATTACH", "PATCH", "RETIRE"} => b.asset \in DOMAIN assets
          /\ b.op = "FREE" => b.id \in DOMAIN identifiers
          /\ b.op = "UNLINK" => b.id \in DOMAIN edges
          /\ b.op = "LINK" => {b.src, b.tgt} \subseteq DOMAIN assets
          /\ req' = [req EXCEPT ![r].at = "begun", ![r].body = b, ![r].now = clock]
    /\ clock' = clock + 1
    /\ UNCHANGED Rows

GoTo(r, step, seen) == req' = [req EXCEPT ![r].at = step, ![r].seen = seen]
Answer(r, a) == req' = [req EXCEPT ![r].at = "done", ![r].seen = NULL, ![r].answer = a]
Refuse(r) == Answer(r, Named("CONFLICT", 0))

\* Two matches: refused with both candidates.  None: an asset is made, unless
\* the caller asked not to.
ReadMatches(r, b) ==
    LET found == find_matches(b.items) IN
    /\ b.op = "RESOLVE"
    /\ \/ Cardinality(found) > 1 /\ Refuse(r)
       \/ /\ found = {}
          /\ IF b.create THEN GoTo(r, "read", [match |-> 0, carried |-> {}]) ELSE Refuse(r)
       \/ \E a \in found : found = {a} /\ GoTo(r, "matched", [match |-> a])

ReadAsset(r, b) ==
    \/ /\ b.op = "ATTACH"
       /\ IF Key(b.item) \in Carried(b.asset) THEN GoTo(r, "read", [carries |-> TRUE])
                                              ELSE GoTo(r, "uncarried", NULL)
    \/ /\ b.op = "FREE"
       /\ IF identifiers[b.id].live THEN GoTo(r, "read", NULL) ELSE Refuse(r)
    \/ /\ b.op = "PATCH"
       /\ IF assets[b.asset].life \in TERMINAL_LIFECYCLE_STATES THEN Refuse(r)
          ELSE GoTo(r, "read", [life |-> assets[b.asset].life])
    \/ /\ b.op = "RETIRE"
       /\ IF assets[b.asset].life \in TERMINAL_LIFECYCLE_STATES THEN Refuse(r)
          ELSE GoTo(r, "read",
                    [edges |-> {i \in LiveEdges : b.asset \in {edges[i].src, edges[i].tgt}}])

ReadEdge(r, b) ==
    \/ /\ b.op = "LINK"
       /\ IF b.src = b.tgt \/ ~permits(b.type, b.src, b.tgt) THEN Refuse(r)
          ELSE \E i \in FoundEdges(b) :
                  GoTo(r, "read", [edge |-> i,
                                   qualifier |-> IF i = 0 THEN NULL ELSE edges[i].qualifier])
    \/ /\ b.op = "UNLINK"
       /\ IF edges[b.id].to = NULL THEN GoTo(r, "read", NULL) ELSE Refuse(r)

Read(r) ==
    /\ req[r].at = "begun"
    /\ ReadMatches(r, req[r].body) \/ ReadAsset(r, req[r].body) \/ ReadEdge(r, req[r].body)
    /\ UNCHANGED <<assets, identifiers, edges, clock>>

\* The second SELECT of _attach_missing and of attach_identifier.
ReadAgain(r) ==
    LET b == req[r].body IN
    /\ \/ /\ req[r].at = "matched"
          /\ GoTo(r, "read", [match |-> req[r].seen.match,
                              carried |-> Carried(req[r].seen.match)])
       \/ /\ req[r].at = "uncarried"
          /\ IF b.item.ns \in UniqueIn /\ Holder(Key(b.item))
             THEN Refuse(r) ELSE GoTo(r, "read", [carries |-> FALSE])
    /\ UNCHANGED <<assets, identifiers, edges, clock>>

Commit(r) ==
    LET out == Effect(req[r]) IN
    /\ req[r].at = "read"
    /\ IF Storable(out.assets, out.ids, out.edges)
       THEN /\ assets' = out.assets
            /\ identifiers' = out.ids
            /\ edges' = out.edges
            /\ Answer(r, out.answer)
       ELSE /\ Answer(r, Named("ERROR", 0))
            /\ UNCHANGED Rows
    /\ UNCHANGED clock

Next == \E r \in Requests : Begin(r) \/ Read(r) \/ ReadAgain(r) \/ Commit(r)

Spec == Init /\ [][Next]_vars
-----------------------------------------------------------------------------
(* Properties *)

\* What an answer says: these unique identifiers belong to this asset.
Identified(r) ==
    LET b == req[r].body
        a == req[r].answer
    IN  IF req[r].at # "done" THEN {}
        ELSE CASE a.what \in {"MATCHED", "CREATED"} -> {<<k, a.which>> : k \in UniqueKeys(b.items)}
               [] a.what = "ATTACHED" -> {<<k, a.which>> : k \in UniqueKeys(<<b.item>>)}
               [] OTHER -> {}

\* Two answers never give one identity to two assets, however the resolutions,
\* creations and attachments behind them overlapped - unless the identifier was
\* retired, which is what frees it.
SameIdentitySameAsset ==
    \A r, q \in Requests : \A x \in Identified(r), y \in Identified(q) :
        x[1] = y[1] /\ x[2] # y[2] =>
            \E i \in 1..Len(identifiers) : KeyOf(identifiers[i]) = x[1] /\ ~identifiers[i].live

\* A retired asset stays retired, also past a PATCH that read it as active.
RetiredIsFinal ==
    [][\A a \in DOMAIN assets :
          assets[a].life = "RETIRED" => assets'[a].life = "RETIRED"]_vars

Linked(r) == req[r].at = "done" /\ req[r].answer.what \in {"LINKED", "TOUCHED"}

SameLink(b, c) ==
    /\ <<b.type, b.qualifier, b.by>> = <<c.type, c.qualifier, c.by>>
    /\ \/ <<b.src, b.tgt>> = <<c.src, c.tgt>>
       \/ EdgeSpecOf(b.type).symmetric /\ <<b.src, b.tgt>> = <<c.tgt, c.src>>

\* One cable is one live row: two answers about the same link, told from either
\* end and in any overlap, name the same edge while it lasts, and what either
\* end lists as related shows the link once.
OneLinkOneEdge ==
    /\ \A r, q \in Requests :
          Linked(r) /\ Linked(q) /\ SameLink(req[r].body, req[q].body) =>
              \/ req[r].answer.which = req[q].answer.which
              \/ \E e \in {req[r].answer.which, req[q].answer.which} : edges[e].to # NULL
    /\ \A a \in DOMAIN assets : \A n, m \in neighbours(a) :
          LET told(x) == <<x.other, x.label, edges[x.edge].qualifier, edges[x.edge].by>>
          IN  told(n) = told(m) => n.edge = m.edge

\* Links on different ports are different edges (uq_asset_relationship_live,
\* docs/database/cmdb-schema.md:184): asserting one leaves the other live.
ParallelLinksCoexist ==
    [][\A e \in DOMAIN edges, r \in Requests :
          req[r].at = "read" /\ req'[r].at = "done" /\ req[r].body.op = "LINK"
          /\ edges[e].to = NULL /\ edges[e].qualifier # req[r].body.qualifier
              => edges'[e].to = NULL]_vars
=============================================================================
