--------------------------- MODULE MCAssetMentions ---------------------------
(***************************************************************************)
(* TLC instances of CmdbIdentity composed with AssetMentions: two devices  *)
(* with a serial number each, a link between them, calls that identify,    *)
(* rename, retire and connect, and a document that names them.             *)
(***************************************************************************)
EXTENDS AssetMentions, TLC

CONSTANTS sn, other, mac, name, num

Item(ns, v) == [ns |-> ns, val |-> [core |-> v, marks |-> {}]]
Spelt(item, marks) == [item EXCEPT !.val.marks = marks]
Serial == Item("serial", sn)
Mac == Item("mac", mac)

Resolve(items, create) == [op |-> "RESOLVE", type |-> "HOST", items |-> items, create |-> create]
Attach(a, item) == [op |-> "ATTACH", asset |-> a, item |-> item]
On(op, id) == [op |-> op, id |-> id]
Patch(a, life) == [op |-> "PATCH", asset |-> a, life |-> life]
Retire(a) == [op |-> "RETIRE", asset |-> a]
Link(type, s, t, q) == [op |-> "LINK", type |-> type, src |-> s, tgt |-> t, qualifier |-> q, by |-> "scan"]

Cable == Link("CONNECTED_TO", 1, 2, "Gi1")
Two == <<Asset("DEVICE"), Asset("DEVICE")>>
Known == <<Identifier(1, Serial), Identifier(2, Item("serial", other)),
           Identifier(2, Item("hostname", num))>>

Devices == [assets |-> Two, ids |-> Known, edges |-> <<>>]
Cabled == [Devices EXCEPT !.edges = <<Edge(Cable, 1, 2, 1, 0)>>]
Starts == {Devices, Cabled}

Naming ==
  {Resolve(<<Serial, Mac>>, TRUE), Resolve(<<Spelt(Serial, {"case"}), Item("hostname", name)>>, TRUE),
   Resolve(<<Mac>>, TRUE), Resolve(<<Serial, Item("serial", other)>>, TRUE),
   Resolve(<<Item("hostname", name)>>, TRUE), Resolve(<<Mac>>, FALSE),
   Attach(1, Mac), Attach(2, Spelt(Mac, {"case", "separator"})), Attach(2, Item("hostname", name)), On("FREE", 1)}
Living == {Patch(1, "INACTIVE"), Retire(1)}
Cabling == {Cable, Link("CONNECTED_TO", 2, 1, "Gi1"), Link("CONNECTED_TO", 2, 1, "Gi2"),
            Link("RUNS_ON", 1, 2, NULL), On("UNLINK", 1)}

Calls == Naming \cup Living \cup Cabling
Word(v, marks) == [core |-> v, marks |-> marks]

\* Two chunks: "... SN ... 00-1A-... 100" and "... name ... sn".
Document == <<<<Word(sn, {"case"}), Word(mac, {"separator"}), Word(num, {})>>,
              <<Word(name, {}), Word(sn, {})>>>>
Memo == <<<<Word(sn, {"case"})>>>>

Links == {[chunk |-> 1, asset |-> 1]}

\* What an earlier scan recorded of the serial number in the first chunk.
Earlier == {[chunk |-> 1, text |-> Word(sn, {"case"}), ns |-> "serial", asset |-> 1,
             source |-> "IDENTIFIER_MATCH", candidates |-> {1}, by |-> "before"]}
Unscanned == {{}}
ScannedBefore == {{}, Earlier}

\* The serial number changes hands, with nothing else going on.
Reassigning == {On("FREE", 1), Attach(2, Serial)}
Retiring == {Retire(1)}
Inventory == {Devices}

Interchangeable == Permutations(Requests)
=============================================================================
