------------------------ MODULE AssetMentionsProofs ------------------------
(***************************************************************************)
(* What CmdbIdentity and AssetMentions keep together, for any number of    *)
(* requests, any calls, any text and any inventory the constraints admit.  *)
(*                                                                         *)
(* Requests decide on rows they read some statements ago. What they can    *)
(* count on at their commit is what nobody updates: the key and the owner  *)
(* of an identifier, the ends and the kind of an edge (Keeps). With the    *)
(* unique indexes (Storable) that settles what two answers may say. A scan *)
(* counts on what it read at its start and on nothing being recorded by    *)
(* the scans that had ended by then any more (ScanHolds).                  *)
(***************************************************************************)
EXTENDS AssetMentions, FiniteSetTheorems, WellFoundedInduction, TLAPS

Serving == {"begun", "matched", "uncarried", "read"}

Call(at, body, now, seen, answer) ==
    [at |-> at, body |-> body, now |-> now, seen |-> seen, answer |-> answer]

CallShape(q) ==
    /\ q = Call(q.at, q.body, q.now, q.seen, q.answer)
    /\ q.at \in {"idle", "scanning", "associating", "done"} \cup Serving
    /\ q.at \in Serving => q.body \in Bodies
    /\ q.at = "matched" => q.body.op = "RESOLVE" /\ q.seen.match \in Nat \ {0}
    /\ q.at = "uncarried" => q.body.op = "ATTACH"
    /\ q.at = "idle" => q.body.op = "NONE"
    /\ q.at = "associating" => q.body.op = "ASSOCIATE"
    /\ q.now \in Nat

Shapes ==
    /\ assets \in Seq(AssetRow) /\ identifiers \in Seq(IdentifierRow) /\ edges \in Seq(EdgeRow)
    /\ clock \in Nat
    /\ req = [r \in Requests |-> req[r]]
    /\ \A r \in Requests : CallShape(req[r])

-----------------------------------------------------------------------------
(* What a request can count on *)

Registered(k) == \E i \in 1..Len(identifiers) : KeyOf(identifiers[i]) = k

\* Once true of a key and an asset, always true.
Placed(k, a) == \E i \in 1..Len(identifiers) : KeyOf(identifiers[i]) = k /\ identifiers[i].asset = a

Freed(k) == \E i \in 1..Len(identifiers) : KeyOf(identifiers[i]) = k /\ ~identifiers[i].live

\* An edge between these ends, of this kind, from this source.
Joins(e, b) ==
    /\ e \in 1..Len(edges)
    /\ edges[e].type = b.type /\ edges[e].by = b.by
    /\ edges[e].src = Canonical(b).src /\ edges[e].tgt = Canonical(b).tgt

\* The row a call is on exists.
Aims(b) ==
    /\ b.op \in {"ATTACH", "PATCH", "RETIRE"} => b.asset \in 1..Len(assets)
    /\ b.op = "FREE" => b.id \in 1..Len(identifiers)
    /\ b.op = "UNLINK" => b.id \in 1..Len(edges)

ReadWell(b, seen) ==
    /\ b.op = "RESOLVE" =>
          /\ seen.match \in Nat
          /\ seen.match = 0 => seen.carried = {}
          /\ \A k \in seen.carried : Placed(k, seen.match)
    /\ b.op = "ATTACH" /\ seen.carries => Placed(Key(b.item), b.asset)
    /\ b.op = "PATCH" => seen.life \in LifecycleState
    /\ b.op = "LINK" =>
          /\ seen.edge \in Nat
          /\ seen.edge # 0 => Joins(seen.edge, b) /\ seen.qualifier = edges[seen.edge].qualifier

\* What a request read several statements ago.
ReadsHold ==
    \A r \in Requests :
        /\ req[r].at \in Serving => Aims(req[r].body)
        /\ req[r].at = "read" => ReadWell(req[r].body, req[r].seen)

AnsweredWell(b, a) ==
    /\ a.what \in {"MATCHED", "CREATED"} => \A k \in Keys(b.items) : Placed(k, a.which)
    /\ a.what = "ATTACHED" => Placed(Key(b.item), a.which)
    /\ a.what \in {"LINKED", "TOUCHED"} =>
          b \in Relationship /\ Joins(a.which, b) /\ edges[a.which].qualifier = b.qualifier

\* What an answer said stays so.
AnswersHold == \A r \in Requests : req[r].at = "done" => AnsweredWell(req[r].body, req[r].answer)

-----------------------------------------------------------------------------
(* What a scan can count on *)

Place(m) == <<m.chunk, KeyOfMention(m)>>

\* Recorded before this scan began: by a scan that had ended, or by none of these.
Before(r, m) == m.by \in Requests => m.by \in req[r].body.after

RowWell(r, m) ==
    /\ m.by = r /\ m.source = "IDENTIFIER_MATCH"
    /\ m.chunk \in Chunks /\ m.chunk < req[r].seen.chunk
    /\ KeyOfMention(m) \in Candidates[m.chunk]
    /\ [key |-> KeyOfMention(m), owners |-> m.candidates] \in owned
    /\ m.asset # NULL => m.candidates = {m.asset}
    /\ MentionChecks(m)

\* The rows a scan is about to insert: one per chunk and key, none of them
\* recorded when it began.
RowsHold(r) ==
    /\ \A m \in req[r].seen.rows : RowWell(r, m)
    /\ \A m, n \in req[r].seen.rows : Place(m) = Place(n) => m = n
    /\ \A n \in Matched : Before(r, n) => \A m \in req[r].seen.rows : Place(n) # Place(m)

\* What a scan takes for recorded is recorded, or about to be.
KnownHolds(r) ==
    /\ \A n \in Matched : Before(r, n) => Place(n) \in req[r].seen.known
    /\ \A x \in req[r].seen.known : \E m \in Matched \cup req[r].seen.rows : Place(m) = x

\* The chunks behind a scan have been dealt with.
ProgressHolds(r) ==
    /\ req[r].seen.chunk \in Nat \ {0}
    /\ \A k \in req[r].body.owned : Registered(k)
    /\ \A c \in Chunks : \A k \in Candidates[c] \cap req[r].body.owned :
          c < req[r].seen.chunk => <<c, k>> \in req[r].seen.known \/ Freed(k)

ScanWell(r) == req[r].body.op = "SCAN" /\ RowsHold(r) /\ KnownHolds(r) /\ ProgressHolds(r)

ScansHold == \A r \in Scanning : ScanWell(r)

\* A scan began after scans that had ended, and a row is by a scan that has.
AfterHolds ==
    /\ \A r \in Requests : r \in Scanning \/ Scanned(r) =>
          \A q \in req[r].body.after : q \in Requests /\ Scanned(q)
    /\ \A m \in Matched : m.by \in Requests => Scanned(m.by)

OwnedHolds == Scanning # {} => Holdings \subseteq owned

IInv ==
    /\ Shapes
    /\ Storable(assets, identifiers, edges)
    /\ ReadsHold
    /\ AnswersHold
    /\ ScansHold
    /\ AfterHolds
    /\ OwnedHolds
    /\ RescanAddsNothing
    /\ NothingOverlooked

-----------------------------------------------------------------------------
(* Rows *)

\* Inserting rows leaves the others where they are.
LEMMA InsertedRows ==
    ASSUME NEW S, NEW s \in Seq(S), NEW n \in Nat, NEW f \in [1..n -> S]
    PROVE  /\ s \o f \in Seq(S) /\ Len(s) \in Nat /\ Len(s \o f) = Len(s) + n
           /\ \A i \in 1..Len(s) : (s \o f)[i] = s[i]
           /\ \A i \in 1..n : (s \o f)[Len(s) + i] = f[i]
<1>1. f \in Seq(S) /\ Len(f) = n
    OBVIOUS
<1> QED
    BY <1>1

LEMMA AppendedRow ==
    ASSUME NEW S, NEW s \in Seq(S), NEW e \in S
    PROVE  /\ Append(s, e) \in Seq(S) /\ Len(Append(s, e)) = Len(s) + 1
           /\ Len(s) \in Nat
           /\ \A i \in 1..Len(s) : Append(s, e)[i] = s[i]
           /\ Append(s, e)[Len(s) + 1] = e
OBVIOUS

\* Updating a row keeps the table's shape.
LEMMA UpdatedRow ==
    ASSUME NEW S, NEW s \in Seq(S), NEW i \in 1..Len(s), NEW e \in S
    PROVE  /\ [s EXCEPT ![i] = e] \in Seq(S)
           /\ Len([s EXCEPT ![i] = e]) = Len(s)
           /\ \A j \in 1..Len(s) : [s EXCEPT ![i] = e][j] = IF j = i THEN e ELSE s[j]
OBVIOUS

\* A function on an initial segment is a sequence.
LEMMA MappedSequence ==
    ASSUME NEW S, NEW n \in Nat, NEW f \in [1..n -> S]
    PROVE  f \in Seq(S) /\ Len(f) = n
OBVIOUS

\* What the tables hold.
LEMMA Tables ==
    ASSUME Shapes
    PROVE  /\ Len(assets) \in Nat /\ DOMAIN assets = 1..Len(assets)
           /\ \A i \in 1..Len(assets) : assets[i] \in AssetRow
           /\ Len(identifiers) \in Nat /\ DOMAIN identifiers = 1..Len(identifiers)
           /\ \A i \in 1..Len(identifiers) : identifiers[i] \in IdentifierRow
           /\ Len(edges) \in Nat /\ DOMAIN edges = 1..Len(edges)
           /\ \A i \in 1..Len(edges) : edges[i] \in EdgeRow
<1>1. assets \in Seq(AssetRow) /\ identifiers \in Seq(IdentifierRow) /\ edges \in Seq(EdgeRow)
    BY DEF Shapes
<1>2. /\ Len(assets) \in Nat /\ DOMAIN assets = 1..Len(assets)
      /\ \A i \in 1..Len(assets) : assets[i] \in AssetRow
    BY <1>1
<1>3. /\ Len(identifiers) \in Nat /\ DOMAIN identifiers = 1..Len(identifiers)
      /\ \A i \in 1..Len(identifiers) : identifiers[i] \in IdentifierRow
    BY <1>1
<1>4. /\ Len(edges) \in Nat /\ DOMAIN edges = 1..Len(edges)
      /\ \A i \in 1..Len(edges) : edges[i] \in EdgeRow
    BY <1>1
<1> QED
    BY <1>2, <1>3, <1>4

\* What a call brings, by what it asks for.
LEMMA Bring ==
    ASSUME NEW b \in Bodies
    PROVE  /\ b.op \in {"RESOLVE", "ATTACH", "PATCH", "RETIRE", "FREE", "UNLINK", "LINK"}
           /\ b.op = "RESOLVE" => b.items \in Seq(Presentable) /\ b.type \in STRING
           /\ b.op = "ATTACH" => b.item \in Presentable /\ b.asset \in Nat
           /\ b.op = "PATCH" => b.life \in LifecycleState /\ b.asset \in Nat
           /\ b.op = "LINK" => b \in Relationship
BY BodiesAssumption DEF Relationship, LifecycleState

-----------------------------------------------------------------------------
(* Requests *)

LEMMA Going ==
    ASSUME Shapes, NEW r \in Requests, NEW step, NEW seen, GoTo(r, step, seen)
    PROVE  /\ req' = [q \in Requests |-> req'[q]]
           /\ req'[r] = Call(step, req[r].body, req[r].now, seen, req[r].answer)
           /\ \A s \in Requests \ {r} : req'[s] = req[s]
<1>1. req = [q \in Requests |-> req[q]]
    BY DEF Shapes
<1>2. req[r] = Call(req[r].at, req[r].body, req[r].now, req[r].seen, req[r].answer)
    BY DEF Shapes, CallShape
<1>3. req' = [req EXCEPT ![r].at = step, ![r].seen = seen]
    BY DEF GoTo
<1>4. req' = [q \in Requests |-> req'[q]] /\ \A s \in Requests \ {r} : req'[s] = req[s]
    BY <1>1, <1>3
<1>5. req'[r] = [req[r] EXCEPT !.at = step, !.seen = seen]
    BY <1>1, <1>3
<1>6. req'[r] = Call(step, req[r].body, req[r].now, seen, req[r].answer)
    BY <1>2, <1>5 DEF Call
<1> QED
    BY <1>4, <1>6

LEMMA Answering ==
    ASSUME Shapes, NEW r \in Requests, NEW a, Answer(r, a)
    PROVE  /\ req' = [q \in Requests |-> req'[q]]
           /\ req'[r] = Call("done", req[r].body, req[r].now, NULL, a)
           /\ \A s \in Requests \ {r} : req'[s] = req[s]
<1>1. req = [q \in Requests |-> req[q]]
    BY DEF Shapes
<1>2. req[r] = Call(req[r].at, req[r].body, req[r].now, req[r].seen, req[r].answer)
    BY DEF Shapes, CallShape
<1>3. req' = [req EXCEPT ![r].at = "done", ![r].seen = NULL, ![r].answer = a]
    BY DEF Answer
<1>4. req' = [q \in Requests |-> req'[q]] /\ \A s \in Requests \ {r} : req'[s] = req[s]
    BY <1>1, <1>3
<1>5. req'[r] = [req[r] EXCEPT !.at = "done", !.seen = NULL, !.answer = a]
    BY <1>1, <1>3
<1>6. req'[r] = Call("done", req[r].body, req[r].now, NULL, a)
    BY <1>2, <1>5 DEF Call
<1> QED
    BY <1>4, <1>6

\* A call that goes by its fields.
LEMMA CallFields ==
    ASSUME NEW at, NEW body, NEW now, NEW seen, NEW answer
    PROVE  LET q == Call(at, body, now, seen, answer)
           IN  /\ q.at = at /\ q.body = body /\ q.now = now /\ q.seen = seen
               /\ q.answer = answer /\ q = Call(q.at, q.body, q.now, q.seen, q.answer)
BY DEF Call

-----------------------------------------------------------------------------
(* What a request of the CMDB may do *)

SameEdge(e, f) ==
    /\ e.type = f.type /\ e.src = f.src /\ e.tgt = f.tgt
    /\ e.qualifier = f.qualifier /\ e.by = f.by

\* The tables grow, the constraints hold, and of the rows there are only what
\* may be updated is: an identifier may be freed, an edge closed, an asset's
\* state changed unless it is retired.
Keeps ==
    /\ assets' \in Seq(AssetRow) /\ identifiers' \in Seq(IdentifierRow) /\ edges' \in Seq(EdgeRow)
    /\ Storable(assets', identifiers', edges')
    /\ \A a \in 1..Len(assets) :
          a \in 1..Len(assets') /\ (assets[a].life = "RETIRED" => assets'[a].life = "RETIRED")
    /\ \A i \in 1..Len(identifiers) :
          /\ i \in 1..Len(identifiers')
          /\ KeyOf(identifiers'[i]) = KeyOf(identifiers[i])
          /\ identifiers'[i].asset = identifiers[i].asset
          /\ identifiers'[i].live => identifiers[i].live
    /\ \A e \in 1..Len(edges) : e \in 1..Len(edges') /\ SameEdge(edges'[e], edges[e])

LEMMA StillRows ==
    ASSUME Shapes, Storable(assets, identifiers, edges), UNCHANGED Rows
    PROVE  Keeps
<1>1. assets' = assets /\ identifiers' = identifiers /\ edges' = edges
    BY DEF Rows
<1>2. Storable(assets', identifiers', edges')
    BY <1>1
<1> QED
    BY <1>1, <1>2 DEF Keeps, Shapes, SameEdge

LEMMA KeptFacts ==
    ASSUME Keeps
    PROVE  /\ \A k : Registered(k) => Registered(k)'
           /\ \A k, a : Placed(k, a) => Placed(k, a)'
           /\ \A k : Freed(k) => Freed(k)'
           /\ \A e, b : Joins(e, b) => Joins(e, b)' /\ edges'[e].qualifier = edges[e].qualifier
           /\ \A b : Aims(b) => Aims(b)'
<1>1. /\ \A k : Registered(k) => Registered(k)'
      /\ \A k, a : Placed(k, a) => Placed(k, a)'
      /\ \A k : Freed(k) => Freed(k)'
    BY DEF Keeps, Registered, Placed, Freed
<1>2. \A e, b : Joins(e, b) => Joins(e, b)' /\ edges'[e].qualifier = edges[e].qualifier
    BY DEF Keeps, Joins, SameEdge, Canonical
<1>3. \A b : Aims(b) => Aims(b)'
    BY DEF Keeps, Aims
<1> QED
    BY <1>1, <1>2, <1>3

-----------------------------------------------------------------------------
(* Commits *)

\* What a commit writes when the constraints let it.
Writes(out) ==
    /\ assets' = out.assets /\ identifiers' = out.ids /\ edges' = out.edges
    /\ Storable(assets', identifiers', edges')

LEMMA OutcomeFields ==
    ASSUME NEW as, NEW ids, NEW es, NEW a
    PROVE  /\ Outcome(as, ids, es, a).assets = as /\ Outcome(as, ids, es, a).ids = ids
           /\ Outcome(as, ids, es, a).edges = es /\ Outcome(as, ids, es, a).answer = a
BY DEF Outcome

LEMMA NamedFields ==
    ASSUME NEW what, NEW which
    PROVE  Named(what, which).what = what /\ Named(what, which).which = which
BY DEF Named

\* The key of a row is the key of what was presented.
LEMMA IdentifierKey ==
    ASSUME NEW a \in Nat \ {0}, NEW item \in Presentable
    PROVE  /\ Identifier(a, item) \in IdentifierRow /\ KeyOf(Identifier(a, item)) = Key(item)
           /\ Identifier(a, item).asset = a
<1>1. normalise(item) \in Spelling
    BY DEF normalise, Presentable, Spelling
<1> HIDE DEF Spelling
<1>2. item.ns \in STRING
    BY DEF Presentable
<1> QED
    BY <1>1, <1>2 DEF Identifier, IdentifierRow, KeyOf, Key

\* Rows are inserted in some order, each once at least.
LEMMA SomeOrder ==
    ASSUME NEW n \in Nat, NEW S \in SUBSET (1..n)
    PROVE  LET order == CHOOSE f \in [1..Cardinality(S) -> S] :
                           \A i \in S : \E k \in DOMAIN f : f[k] = i
           IN  /\ Cardinality(S) \in Nat /\ order \in [1..Cardinality(S) -> S]
               /\ \A i \in S : \E k \in 1..Cardinality(S) : order[k] = i
<1>1. IsFiniteSet(S)
  <2>1. IsFiniteSet(1..n)
      BY FS_Interval
  <2> QED
      BY <2>1, FS_Subset
<1>2. Cardinality(S) \in Nat /\ ExistsBijection(1..Cardinality(S), S)
    BY <1>1, FS_CardinalityType
<1>3. PICK g : g \in Bijection(1..Cardinality(S), S)
    BY <1>2 DEF ExistsBijection
<1>4. g \in [1..Cardinality(S) -> S] /\ \A i \in S : \E k \in 1..Cardinality(S) : g[k] = i
    BY <1>3 DEF Bijection, Surjection, Injection
<1>5. \E f \in [1..Cardinality(S) -> S] : \A i \in S : \E k \in DOMAIN f : f[k] = i
    BY <1>4
<1> DEFINE order == CHOOSE f \in [1..Cardinality(S) -> S] :
                       \A i \in S : \E k \in DOMAIN f : f[k] = i
<1>6. order \in [1..Cardinality(S) -> S] /\ \A i \in S : \E k \in DOMAIN order : order[k] = i
    BY <1>5
<1> QED
    BY <1>2, <1>6

LEMMA AttachedRows ==
    ASSUME Shapes, NEW a \in Nat \ {0}, NEW items \in Seq(Presentable), NEW carried,
           NEW ids, ids = attach_missing(a, items, carried)
    PROVE  /\ ids \in Seq(IdentifierRow) /\ Len(ids) \in Nat
           /\ \A i \in 1..Len(identifiers) : i \in 1..Len(ids) /\ ids[i] = identifiers[i]
           /\ \A k \in Keys(items) \ carried :
                 \E i \in 1..Len(ids) : KeyOf(ids[i]) = k /\ ids[i].asset = a
<1> DEFINE missing == {i \in 1..Len(items) : Key(items[i]) \notin carried}
           n == Cardinality(missing)
           order == CHOOSE f \in [1..Cardinality(missing) -> missing] :
                       \A i \in missing : \E m \in DOMAIN f : f[m] = i
           added == [m \in DOMAIN order |-> Identifier(a, items[order[m]])]
<1>1. ids = identifiers \o added
    BY DEF attach_missing
<1>2. Len(items) \in Nat /\ \A i \in 1..Len(items) : items[i] \in Presentable
    OBVIOUS
<1>3. missing \in SUBSET (1..Len(items))
    OBVIOUS
<1>4. /\ n \in Nat /\ order \in [1..n -> missing]
      /\ \A i \in missing : \E m \in 1..n : order[m] = i
    BY <1>2, <1>3, SomeOrder
<1>5. \A k \in Keys(items) \ carried : \E i \in missing : k = Key(items[i])
    BY DEF Keys
<1> HIDE DEF missing, order
<1>6. \A m \in 1..n : items[order[m]] \in Presentable
    BY <1>2, <1>3, <1>4
<1>7. /\ added \in [1..n -> IdentifierRow]
      /\ \A m \in 1..n : /\ KeyOf(added[m]) = Key(items[order[m]])
                         /\ added[m].asset = a
    BY <1>4, <1>6, IdentifierKey
<1> HIDE DEF added, n
<1>8. identifiers \in Seq(IdentifierRow)
    BY DEF Shapes
<1> HIDE DEF IdentifierRow
<1>9. PICK N, new : N = n /\ new = added
    OBVIOUS
<1>10. N \in Nat /\ new \in [1..N -> IdentifierRow] /\ ids = identifiers \o new
    BY <1>1, <1>4, <1>7, <1>9
<1>11. /\ ids \in Seq(IdentifierRow) /\ Len(identifiers) \in Nat /\ Len(ids) = Len(identifiers) + N
       /\ \A i \in 1..Len(identifiers) : ids[i] = identifiers[i]
       /\ \A m \in 1..N : ids[Len(identifiers) + m] = new[m]
    BY <1>8, <1>10, InsertedRows
<1>12. \A i \in 1..Len(identifiers) : i \in 1..Len(ids) /\ ids[i] = identifiers[i]
    BY <1>10, <1>11
<1>13. ASSUME NEW k \in Keys(items) \ carried
       PROVE  \E i \in 1..Len(ids) : KeyOf(ids[i]) = k /\ ids[i].asset = a
  <2>1. PICK m \in 1..N : k = Key(items[order[m]])
      BY <1>4, <1>5, <1>9
  <2>2. Len(identifiers) + m \in 1..Len(ids)
      BY <1>10, <1>11
  <2> QED
      BY <1>7, <1>9, <1>11, <2>1, <2>2
<1> QED
    BY <1>11, <1>12, <1>13

\* resolve: the asset answered has every identifier presented.
LEMMA Resolving ==
    ASSUME Shapes, NEW q, q.body \in Bodies, q.body.op = "RESOLVE", ReadWell(q.body, q.seen),
           Writes(resolve(q)), NEW said, said = resolve(q).answer
    PROVE  Keeps /\ AnsweredWell(q.body, said)'
<1> DEFINE made == q.seen.match = 0
           a == IF made THEN Len(assets) + 1 ELSE q.seen.match
<1>1. /\ assets' = IF made THEN Append(assets, Asset(q.body.type)) ELSE assets
      /\ identifiers' = attach_missing(a, q.body.items, q.seen.carried)
      /\ edges' = edges
      /\ said = Named(IF made THEN "CREATED" ELSE "MATCHED", a)
    BY OutcomeFields DEF Writes, resolve
<1>2. q.body.items \in Seq(Presentable) /\ q.body.type \in STRING
    BY Bring
<1>3. /\ q.seen.match \in Nat /\ (q.seen.match = 0 => q.seen.carried = {})
      /\ \A k \in q.seen.carried : Placed(k, q.seen.match)
    BY DEF ReadWell
<1>4. PICK n : n = a
    OBVIOUS
<1>5. n \in Nat \ {0}
    BY <1>3, <1>4, Tables
<1>6. Asset(q.body.type) \in AssetRow
    BY <1>2 DEF Asset, AssetRow, LifecycleState
<1>7. /\ assets' \in Seq(AssetRow)
      /\ \A i \in 1..Len(assets) : i \in 1..Len(assets') /\ assets'[i] = assets[i]
  <2>1. assets \in Seq(AssetRow)
      BY DEF Shapes
  <2>2. CASE made
      BY <1>1, <1>6, <2>1, <2>2, AppendedRow
  <2>3. CASE ~made
      BY <1>1, <2>1, <2>3
  <2> QED
      BY <2>2, <2>3
<1>8. PICK ids : ids = identifiers'
    OBVIOUS
<1>9. /\ ids \in Seq(IdentifierRow) /\ Len(ids) \in Nat
      /\ \A i \in 1..Len(identifiers) : i \in 1..Len(ids) /\ ids[i] = identifiers[i]
      /\ \A k \in Keys(q.body.items) \ q.seen.carried :
            \E i \in 1..Len(ids) : KeyOf(ids[i]) = k /\ ids[i].asset = n
  <2>1. ids = attach_missing(n, q.body.items, q.seen.carried)
      BY <1>1, <1>4, <1>8
  <2> QED
      BY <1>2, <1>5, <2>1, AttachedRows
<1>10. Keeps
  <2>1. \A e \in 1..Len(edges) : e \in 1..Len(edges') /\ SameEdge(edges'[e], edges[e])
      BY <1>1 DEF SameEdge
  <2>2. edges' \in Seq(EdgeRow)
      BY <1>1 DEF Shapes
  <2> QED
      BY <1>7, <1>8, <1>9, <2>1, <2>2 DEF Keeps, Writes
<1>11. \A k \in Keys(q.body.items) : Placed(k, n)'
  <2> SUFFICES ASSUME NEW k \in Keys(q.body.items) PROVE Placed(k, n)'
      OBVIOUS
  <2>1. CASE k \in q.seen.carried
    <3>1. Placed(k, n)
        BY <1>3, <1>4, <2>1
    <3> QED
        BY <1>10, <3>1, KeptFacts
  <2>2. CASE k \notin q.seen.carried
      BY <1>8, <1>9, <2>2 DEF Placed
  <2> QED
      BY <2>1, <2>2
<1>12. said.what \in {"CREATED", "MATCHED"} /\ said.which = n
    BY <1>1, <1>4, NamedFields
<1> QED
    BY <1>10, <1>11, <1>12 DEF AnsweredWell

\* What is written of one table only.
LEMMA SameTables ==
    ASSUME Shapes
    PROVE  /\ assets' = assets => /\ assets' \in Seq(AssetRow)
                                 /\ \A a \in 1..Len(assets) :
                                       /\ a \in 1..Len(assets')
                                       /\ assets[a].life = "RETIRED" => assets'[a].life = "RETIRED"
           /\ identifiers' = identifiers =>
                 /\ identifiers' \in Seq(IdentifierRow)
                 /\ \A i \in 1..Len(identifiers) :
                       /\ i \in 1..Len(identifiers')
                       /\ KeyOf(identifiers'[i]) = KeyOf(identifiers[i])
                       /\ identifiers'[i].asset = identifiers[i].asset
                       /\ identifiers'[i].live => identifiers[i].live
           /\ edges' = edges => /\ edges' \in Seq(EdgeRow)
                               /\ \A e \in 1..Len(edges) :
                                     e \in 1..Len(edges') /\ SameEdge(edges'[e], edges[e])
BY DEF Shapes, SameEdge

\* attach_identifier
LEMMA Attaching ==
    ASSUME Shapes, NEW q, q.body \in Bodies, q.body.op = "ATTACH", Aims(q.body),
           ReadWell(q.body, q.seen), Writes(attach_identifier(q)),
           NEW said, said = attach_identifier(q).answer
    PROVE  Keeps /\ AnsweredWell(q.body, said)'
<1>1. /\ assets' = assets /\ edges' = edges
      /\ identifiers' = IF q.seen.carries THEN identifiers
                        ELSE Append(identifiers, Identifier(q.body.asset, q.body.item))
      /\ said = Named("ATTACHED", q.body.asset)
    BY OutcomeFields DEF Writes, attach_identifier
<1>2. q.body.item \in Presentable /\ q.body.asset \in Nat \ {0}
    BY Bring, Tables DEF Aims
<1>3. PICK row : row = Identifier(q.body.asset, q.body.item)
    OBVIOUS
<1>4. row \in IdentifierRow /\ KeyOf(row) = Key(q.body.item) /\ row.asset = q.body.asset
    BY <1>2, <1>3, IdentifierKey
<1>5. identifiers \in Seq(IdentifierRow)
    BY DEF Shapes
<1>6. CASE q.seen.carries
  <2>1. Keeps
      BY <1>1, <1>6, SameTables DEF Keeps, Writes
  <2>2. Placed(Key(q.body.item), q.body.asset)
      BY <1>6 DEF ReadWell
  <2>3. Placed(Key(q.body.item), q.body.asset)'
      BY <2>1, <2>2, KeptFacts
  <2> QED
      BY <1>1, <2>1, <2>3, NamedFields DEF AnsweredWell
<1>7. CASE ~q.seen.carries
  <2>1. identifiers' = Append(identifiers, row)
      BY <1>1, <1>3, <1>7
  <2>2. /\ identifiers' \in Seq(IdentifierRow) /\ Len(identifiers) \in Nat
        /\ Len(identifiers') = Len(identifiers) + 1
        /\ \A i \in 1..Len(identifiers) : identifiers'[i] = identifiers[i]
        /\ identifiers'[Len(identifiers) + 1] = row
      BY <1>4, <1>5, <2>1, AppendedRow
  <2>3. Keeps
      BY <1>1, <2>2, SameTables DEF Keeps, Writes
  <2>4. Len(identifiers) + 1 \in 1..Len(identifiers')
      BY <2>2
  <2>5. Placed(Key(q.body.item), q.body.asset)'
      BY <1>4, <2>2, <2>4 DEF Placed
  <2> QED
      BY <1>1, <2>3, <2>5, NamedFields DEF AnsweredWell
<1> QED
    BY <1>6, <1>7

\* retire_identifier
LEMMA Freeing ==
    ASSUME Shapes, NEW q, q.body.op = "FREE", Aims(q.body), Writes(retire_identifier(q)),
           NEW said, said = retire_identifier(q).answer
    PROVE  Keeps /\ AnsweredWell(q.body, said)'
<1>1. /\ assets' = assets /\ edges' = edges
      /\ identifiers' = [identifiers EXCEPT ![q.body.id].live = FALSE]
      /\ said = Named("FREED", q.body.id)
    BY OutcomeFields DEF Writes, retire_identifier
<1>2. PICK id : id = q.body.id
    OBVIOUS
<1>3. id \in 1..Len(identifiers) /\ identifiers \in Seq(IdentifierRow)
    BY <1>2 DEF Aims, Shapes
<1>4. PICK row : row = [identifiers[id] EXCEPT !.live = FALSE]
    OBVIOUS
<1>5. /\ row \in IdentifierRow /\ KeyOf(row) = KeyOf(identifiers[id])
      /\ row.asset = identifiers[id].asset /\ row.live = FALSE
  <2>1. identifiers[id] \in IdentifierRow
      BY <1>3
  <2> QED
      BY <1>4, <2>1 DEF IdentifierRow, KeyOf
<1>6. identifiers' = [identifiers EXCEPT ![id] = row]
    BY <1>1, <1>2, <1>3, <1>4
<1>7. /\ identifiers' \in Seq(IdentifierRow) /\ Len(identifiers') = Len(identifiers)
      /\ \A i \in 1..Len(identifiers) : identifiers'[i] = IF i = id THEN row ELSE identifiers[i]
    BY <1>3, <1>5, <1>6, UpdatedRow
<1>8. Keeps
    BY <1>1, <1>5, <1>7, SameTables DEF Keeps, Writes
<1> QED
    BY <1>1, <1>8, NamedFields DEF AnsweredWell

\* An asset that is retired has a date, which no PATCH takes away.
LEMMA Patching ==
    ASSUME Shapes, Storable(assets, identifiers, edges), NEW q, q.body \in Bodies,
           q.body.op = "PATCH", Aims(q.body), Writes(update(q)),
           NEW said, said = update(q).answer
    PROVE  Keeps /\ AnsweredWell(q.body, said)'
<1> DEFINE life(old) == IF q.body.life = q.seen.life THEN old ELSE q.body.life
<1>1. /\ identifiers' = identifiers /\ edges' = edges
      /\ assets' = [assets EXCEPT ![q.body.asset].life = life(@)]
      /\ said = Named("UPDATED", q.body.asset)
    BY OutcomeFields DEF Writes, update
<1>2. PICK id : id = q.body.asset
    OBVIOUS
<1>3. id \in 1..Len(assets) /\ assets \in Seq(AssetRow) /\ assets[id] \in AssetRow
    BY <1>2, Tables DEF Aims, Shapes
<1>4. PICK row : row = [assets[id] EXCEPT !.life = life(@)]
    OBVIOUS
<1>5. row \in AssetRow /\ row.retired_at = assets[id].retired_at
  <2>1. life(assets[id].life) \in LifecycleState
      BY <1>3, Bring DEF AssetRow
  <2> HIDE DEF life
  <2> QED
      BY <1>3, <1>4, <2>1 DEF AssetRow
<1>6. assets' = [assets EXCEPT ![id] = row]
    BY <1>1, <1>2, <1>3, <1>4
<1>7. /\ assets' \in Seq(AssetRow) /\ Len(assets') = Len(assets)
      /\ \A i \in 1..Len(assets) : assets'[i] = IF i = id THEN row ELSE assets[i]
    BY <1>3, <1>5, <1>6, UpdatedRow
<1>8. AssetChecks(assets[id]) /\ AssetChecks(row)
    BY <1>3, <1>7 DEF Storable, Writes
<1>9. assets[id].life = "RETIRED" => row.life = "RETIRED"
    BY <1>5, <1>8 DEF AssetChecks
<1>10. Keeps
    BY <1>1, <1>7, <1>9, SameTables DEF Keeps, Writes
<1> QED
    BY <1>1, <1>10, NamedFields DEF AnsweredWell

\* retire: the asset, and the edges read as live.
LEMMA RetiringAsset ==
    ASSUME Shapes, NEW q, q.body.op = "RETIRE", Aims(q.body), q.now \in Nat,
           Writes(retire(q)), NEW said, said = retire(q).answer
    PROVE  Keeps /\ AnsweredWell(q.body, said)'
<1> DEFINE ended(i) == IF i \in q.seen.edges THEN [edges[i] EXCEPT !.to = q.now] ELSE edges[i]
<1>1. /\ identifiers' = identifiers
      /\ assets' = [assets EXCEPT ![q.body.asset] = [@ EXCEPT !.life = "RETIRED", !.retired_at = q.now]]
      /\ edges' = [i \in 1..Len(edges) |-> ended(i)]
      /\ said = Named("RETIRED", q.body.asset)
    BY OutcomeFields DEF Writes, retire
<1>2. PICK id : id = q.body.asset
    OBVIOUS
<1>3. id \in 1..Len(assets) /\ assets \in Seq(AssetRow) /\ assets[id] \in AssetRow
    BY <1>2, Tables DEF Aims, Shapes
<1>4. PICK row : row = [assets[id] EXCEPT !.life = "RETIRED", !.retired_at = q.now]
    OBVIOUS
<1>5. row \in AssetRow /\ row.life = "RETIRED"
    BY <1>3, <1>4 DEF AssetRow, LifecycleState
<1>6. assets' = [assets EXCEPT ![id] = row]
    BY <1>1, <1>2, <1>3, <1>4
<1>7. /\ assets' \in Seq(AssetRow) /\ Len(assets') = Len(assets)
      /\ \A i \in 1..Len(assets) : assets'[i] = IF i = id THEN row ELSE assets[i]
    BY <1>3, <1>5, <1>6, UpdatedRow
<1>8. Len(edges) \in Nat /\ \A i \in 1..Len(edges) : edges[i] \in EdgeRow
    BY Tables
<1>9. \A i \in 1..Len(edges) : ended(i) \in EdgeRow /\ SameEdge(ended(i), edges[i])
    BY <1>8 DEF EdgeRow, SameEdge
<1> HIDE DEF ended
<1>10. /\ edges' \in [1..Len(edges) -> EdgeRow]
       /\ \A i \in 1..Len(edges) : SameEdge(edges'[i], edges[i])
    BY <1>1, <1>9
<1>11. edges' \in Seq(EdgeRow) /\ Len(edges') = Len(edges)
    BY <1>8, <1>10, MappedSequence
<1>12. Keeps
    BY <1>1, <1>5, <1>7, <1>10, <1>11, SameTables DEF Keeps, Writes
<1> QED
    BY <1>1, <1>12, NamedFields DEF AnsweredWell

\* The ends of an edge are the two assets told, in either order.
LEMMA CanonicalEnds ==
    ASSUME NEW b \in Relationship
    PROVE  Canonical(b).src \in Nat /\ Canonical(b).tgt \in Nat
<1> b.src \in Nat /\ b.tgt \in Nat
    BY DEF Relationship
<1> QED
    BY DEF Canonical

\* An edge that has been closed, and is otherwise as it was.
Cut(row, now) == [row EXCEPT !.to = now]

LEMMA CutEdge ==
    ASSUME NEW row \in EdgeRow, NEW now \in Nat
    PROVE  Cut(row, now) \in EdgeRow /\ SameEdge(Cut(row, now), row)
BY DEF Cut, SameEdge, EdgeRow

LEMMA CutTable ==
    ASSUME Shapes, NEW id \in 1..Len(edges), NEW now \in Nat
    PROVE  LET es == [edges EXCEPT ![id].to = now]
           IN  /\ es \in Seq(EdgeRow) /\ Len(es) = Len(edges)
               /\ \A e \in 1..Len(edges) : SameEdge(es[e], edges[e])
<1>1. edges \in Seq(EdgeRow) /\ Len(edges) \in Nat /\ \A e \in 1..Len(edges) : edges[e] \in EdgeRow
    BY Tables DEF Shapes
<1>2. PICK row : row = Cut(edges[id], now)
    OBVIOUS
<1>3. row \in EdgeRow /\ SameEdge(row, edges[id])
    BY <1>1, <1>2, CutEdge
<1>4. PICK es : es = [edges EXCEPT ![id].to = now]
    OBVIOUS
<1>5. es = [edges EXCEPT ![id] = row]
    BY <1>1, <1>2, <1>4 DEF Cut
<1>6. /\ es \in Seq(EdgeRow) /\ Len(es) = Len(edges)
      /\ \A e \in 1..Len(edges) : es[e] = IF e = id THEN row ELSE edges[e]
    BY <1>1, <1>3, <1>5, UpdatedRow
<1>7. \A e \in 1..Len(edges) : SameEdge(es[e], edges[e])
    BY <1>3, <1>6 DEF SameEdge
<1> QED
    BY <1>4, <1>6, <1>7

\* assert_relationship: the edge answered joins the two assets told.
LEMMA Relating ==
    ASSUME Shapes, NEW q, q.body \in Bodies, q.body.op = "LINK", ReadWell(q.body, q.seen),
           q.now \in Nat, Writes(assert_relationship(q)),
           NEW said, said = assert_relationship(q).answer
    PROVE  Keeps /\ AnsweredWell(q.body, said)'
<1> DEFINE b == q.body
           touched == q.seen.edge # 0 /\ q.seen.qualifier = q.body.qualifier
           base == IF q.seen.edge = 0 THEN edges ELSE [edges EXCEPT ![q.seen.edge].to = q.now]
<1>1. assets' = assets /\ identifiers' = identifiers
    BY OutcomeFields DEF Writes, assert_relationship
<1>2. b \in Relationship
    BY Bring
<1>3. /\ q.seen.edge \in Nat
      /\ q.seen.edge # 0 => Joins(q.seen.edge, b) /\ q.seen.qualifier = edges[q.seen.edge].qualifier
    BY DEF ReadWell
<1>4. CASE touched
  <2>1. edges' = edges /\ said = Named("TOUCHED", q.seen.edge)
      BY <1>4, OutcomeFields DEF Writes, assert_relationship
  <2>2. Keeps
      BY <1>1, <2>1, SameTables DEF Keeps, Writes
  <2>3. Joins(q.seen.edge, b) /\ edges[q.seen.edge].qualifier = b.qualifier
      BY <1>3, <1>4
  <2>4. PICK e : e = q.seen.edge
      OBVIOUS
  <2>5. Joins(e, b)' /\ edges'[e].qualifier = b.qualifier
      BY <2>2, <2>3, <2>4, KeptFacts
  <2>6. said.what = "TOUCHED" /\ said.which = e
      BY <2>1, <2>4, NamedFields
  <2> QED
      BY <1>2, <2>2, <2>5, <2>6 DEF AnsweredWell
<1>5. CASE ~touched
  <2>1. PICK row : row = Edge(b, Canonical(b).src, Canonical(b).tgt, q.now, q.seen.edge)
      OBVIOUS
  <2>2. edges' = Append(base, row) /\ said = Named("LINKED", Len(edges) + 1)
    <3> HIDE DEF base
    <3>1. assert_relationship(q) =
             Outcome(assets, identifiers, Append(base, row), Named("LINKED", Len(edges) + 1))
        BY <1>5, <2>1 DEF assert_relationship, base
    <3>2. /\ assert_relationship(q).edges = Append(base, row)
          /\ assert_relationship(q).answer = Named("LINKED", Len(edges) + 1)
        BY <3>1 DEF Outcome
    <3> QED
        BY <3>2 DEF Writes
  <2>3. /\ row \in EdgeRow /\ row.type = b.type /\ row.by = b.by /\ row.qualifier = b.qualifier
        /\ row.src = Canonical(b).src /\ row.tgt = Canonical(b).tgt
    <3>1. Canonical(b).src \in Nat /\ Canonical(b).tgt \in Nat
        BY <1>2, CanonicalEnds
    <3>2. /\ b.type \in RelationshipTypes /\ b.qualifier \in STRING \cup {NULL}
          /\ b.by \in STRING
        BY <1>2 DEF Relationship
    <3> HIDE DEF b
    <3> QED
        BY <1>3, <2>1, <3>1, <3>2 DEF Edge, EdgeRow
  <2>4. PICK es : es = base
      OBVIOUS
  <2>5. edges \in Seq(EdgeRow) /\ Len(edges) \in Nat
      BY Tables DEF Shapes
  <2>6. /\ es \in Seq(EdgeRow) /\ Len(es) = Len(edges)
        /\ \A e \in 1..Len(edges) : SameEdge(es[e], edges[e])
    <3>1. CASE q.seen.edge = 0
        BY <2>4, <2>5, <3>1 DEF SameEdge
    <3>2. CASE q.seen.edge # 0
      <4>1. q.seen.edge \in 1..Len(edges)
          BY <1>3, <3>2 DEF Joins
      <4> QED
          BY <2>4, <3>2, <4>1, CutTable
    <3> QED
        BY <3>1, <3>2
  <2>7. /\ edges' \in Seq(EdgeRow) /\ Len(edges') = Len(edges) + 1
        /\ \A e \in 1..Len(edges) : edges'[e] = es[e]
        /\ edges'[Len(edges) + 1] = row
    <3>1. edges' = Append(es, row)
        BY <2>2, <2>4
    <3> QED
        BY <2>3, <2>6, <3>1, AppendedRow
  <2>8. Keeps
      BY <1>1, <2>5, <2>6, <2>7, SameTables DEF Keeps, Writes
  <2>9. PICK e : e = Len(edges) + 1
      OBVIOUS
  <2>10. e \in 1..Len(edges') /\ edges'[e] = row
      BY <2>5, <2>7, <2>9
  <2>11. Joins(e, b)'
      BY <2>3, <2>10 DEF Joins
  <2>12. said.what = "LINKED" /\ said.which = e
      BY <2>2, <2>9, NamedFields
  <2> QED
      BY <1>2, <2>3, <2>8, <2>10, <2>11, <2>12 DEF AnsweredWell
<1> QED
    BY <1>4, <1>5

\* retire_relationship
LEMMA Unrelating ==
    ASSUME Shapes, NEW q, q.body.op = "UNLINK", Aims(q.body), q.now \in Nat,
           Writes(retire_relationship(q)), NEW said, said = retire_relationship(q).answer
    PROVE  Keeps /\ AnsweredWell(q.body, said)'
<1>1. /\ assets' = assets /\ identifiers' = identifiers
      /\ edges' = [edges EXCEPT ![q.body.id].to = q.now]
      /\ said = Named("CLOSED", q.body.id)
    BY OutcomeFields DEF Writes, retire_relationship
<1>2. PICK id : id = q.body.id
    OBVIOUS
<1>3. id \in 1..Len(edges)
    BY <1>2 DEF Aims
<1>4. /\ edges' \in Seq(EdgeRow) /\ Len(edges') = Len(edges)
      /\ \A e \in 1..Len(edges) : SameEdge(edges'[e], edges[e])
    BY <1>1, <1>2, <1>3, CutTable
<1>5. Keeps
    BY <1>1, <1>4, SameTables DEF Keeps, Writes
<1> QED
    BY <1>1, <1>5, NamedFields DEF AnsweredWell

\* Whatever a call has read, its commit keeps what there is and answers truly.
LEMMA Committing ==
    ASSUME Shapes, Storable(assets, identifiers, edges), NEW q, q.body \in Bodies,
           Aims(q.body), ReadWell(q.body, q.seen), q.now \in Nat, Writes(Effect(q)),
           NEW said, said = Effect(q).answer
    PROVE  Keeps /\ AnsweredWell(q.body, said)'
<1>1. CASE q.body.op = "RESOLVE"
  <2>1. Writes(resolve(q)) /\ said = resolve(q).answer
      BY <1>1 DEF Effect, Writes
  <2> QED
      BY <1>1, <2>1, Resolving
<1>2. CASE q.body.op = "ATTACH"
  <2>1. Writes(attach_identifier(q)) /\ said = attach_identifier(q).answer
      BY <1>2 DEF Effect, Writes
  <2> QED
      BY <1>2, <2>1, Attaching
<1>3. CASE q.body.op = "FREE"
  <2>1. Writes(retire_identifier(q)) /\ said = retire_identifier(q).answer
      BY <1>3 DEF Effect, Writes
  <2> QED
      BY <1>3, <2>1, Freeing
<1>4. CASE q.body.op = "PATCH"
  <2>1. Writes(update(q)) /\ said = update(q).answer
      BY <1>4 DEF Effect, Writes
  <2> QED
      BY <1>4, <2>1, Patching
<1>5. CASE q.body.op = "RETIRE"
  <2>1. Writes(retire(q)) /\ said = retire(q).answer
      BY <1>5 DEF Effect, Writes
  <2> QED
      BY <1>5, <2>1, RetiringAsset
<1>6. CASE q.body.op = "LINK"
  <2>1. Writes(assert_relationship(q)) /\ said = assert_relationship(q).answer
      BY <1>6 DEF Effect, Writes
  <2> QED
      BY <1>6, <2>1, Relating
<1>7. CASE q.body.op = "UNLINK"
  <2>1. Writes(retire_relationship(q)) /\ said = retire_relationship(q).answer
      BY <1>7 DEF Effect, Writes
  <2> QED
      BY <1>7, <2>1, Unrelating
<1> QED
    BY <1>1, <1>2, <1>3, <1>4, <1>5, <1>6, <1>7, Bring

-----------------------------------------------------------------------------
(* Steps of a request of the CMDB *)

\* What a request can count on, wherever it is.
HoldsFor(r) ==
    /\ req[r].at \in Serving => Aims(req[r].body)
    /\ req[r].at = "read" => ReadWell(req[r].body, req[r].seen)
    /\ req[r].at = "done" => AnsweredWell(req[r].body, req[r].answer)

\* A step of one request.
Steps(r) ==
    /\ Keeps /\ clock' \in Nat
    /\ req' = [q \in Requests |-> req'[q]]
    /\ \A s \in Requests \ {r} : req'[s] = req[s]
    /\ CallShape(req[r])' /\ HoldsFor(r)'

\* The same of a request that is not a scan.
Serves(r) ==
    /\ Steps(r)
    /\ req[r].at \in {"idle", "associating"} \cup Serving
    /\ req'[r].at \in {"associating", "done"} \cup Serving
    /\ req'[r].body.op # "SCAN"

\* A call is for the inventory, not for a scan.
LEMMA NoScan ==
    ASSUME NEW b \in Bodies
    PROVE  b.op # "SCAN" /\ b.op # "ASSOCIATE"
BY Bring

\* What was read stays good for a commit, what was answered stays so.
LEMMA ReadKept ==
    ASSUME Keeps
    PROVE  /\ \A b, seen : ReadWell(b, seen) => ReadWell(b, seen)'
           /\ \A b, a : AnsweredWell(b, a) => AnsweredWell(b, a)'
<1>1. ASSUME NEW b, NEW seen, ReadWell(b, seen)
      PROVE  ReadWell(b, seen)'
    BY <1>1, KeptFacts DEF ReadWell
<1>2. ASSUME NEW b, NEW a, AnsweredWell(b, a)
      PROVE  AnsweredWell(b, a)'
    BY <1>2, KeptFacts DEF AnsweredWell
<1> QED
    BY <1>1, <1>2

LEMMA GoesOn ==
    ASSUME Shapes, Storable(assets, identifiers, edges), ReadsHold, NEW r \in Requests,
           req[r].at \in Serving, NEW step \in Serving, NEW seen, GoTo(r, step, seen),
           step = "matched" => req[r].body.op = "RESOLVE" /\ seen.match \in Nat \ {0},
           step = "uncarried" => req[r].body.op = "ATTACH",
           step = "read" => ReadWell(req[r].body, seen),
           UNCHANGED <<assets, identifiers, edges, clock>>
    PROVE  Serves(r)
<1>1. PICK b, now, a : b = req[r].body /\ now = req[r].now /\ a = req[r].answer
    OBVIOUS
<1>2. b \in Bodies /\ now \in Nat /\ Aims(b)
    BY <1>1 DEF Shapes, CallShape, ReadsHold
<1>3. /\ req' = [q \in Requests |-> req'[q]]
      /\ req'[r] = Call(step, b, now, seen, a)
      /\ \A s \in Requests \ {r} : req'[s] = req[s]
    BY <1>1, Going
<1>4. /\ req'[r].at = step /\ req'[r].body = b /\ req'[r].now = now /\ req'[r].seen = seen
      /\ req'[r] = Call(req'[r].at, req'[r].body, req'[r].now, req'[r].seen, req'[r].answer)
    BY <1>3, CallFields
<1>5. Keeps /\ clock' \in Nat
    BY StillRows DEF Rows, Shapes
<1>6. CallShape(req[r])'
    BY <1>1, <1>2, <1>4 DEF CallShape, Serving
<1>7. Aims(b)'
    BY <1>2, <1>5, KeptFacts
<1>8. step = "read" => ReadWell(b, seen)'
    BY <1>1, <1>5, ReadKept
<1>9. HoldsFor(r)'
    BY <1>4, <1>7, <1>8 DEF HoldsFor, Serving
<1> QED
    BY <1>2, <1>3, <1>4, <1>5, <1>6, <1>9, NoScan DEF Serves, Steps

\* An answer that tells nothing.
LEMMA AnswersBlank ==
    ASSUME Shapes, Storable(assets, identifiers, edges), NEW r \in Requests,
           req[r].at \in Serving, NEW what \in {"CONFLICT", "ERROR"},
           Answer(r, Named(what, 0)), UNCHANGED <<assets, identifiers, edges, clock>>
    PROVE  Serves(r)
<1>1. PICK b, now, a : b = req[r].body /\ now = req[r].now /\ a = Named(what, 0)
    OBVIOUS
<1>2. b \in Bodies /\ now \in Nat
    BY <1>1 DEF Shapes, CallShape
<1>3. /\ req' = [q \in Requests |-> req'[q]]
      /\ req'[r] = Call("done", b, now, NULL, a)
      /\ \A s \in Requests \ {r} : req'[s] = req[s]
    BY <1>1, Answering
<1>4. /\ req'[r].at = "done" /\ req'[r].body = b /\ req'[r].now = now /\ req'[r].answer = a
      /\ req'[r] = Call(req'[r].at, req'[r].body, req'[r].now, req'[r].seen, req'[r].answer)
    BY <1>3, CallFields
<1>5. Keeps /\ clock' \in Nat
    BY StillRows DEF Rows, Shapes
<1>6. CallShape(req[r])'
    BY <1>2, <1>4 DEF CallShape, Serving
<1>7. a.what \in {"CONFLICT", "ERROR"}
    BY <1>1, NamedFields
<1>8. AnsweredWell(b, a)'
    BY <1>7 DEF AnsweredWell
<1>9. HoldsFor(r)'
    BY <1>4, <1>8 DEF HoldsFor, Serving
<1> QED
    BY <1>2, <1>3, <1>4, <1>5, <1>6, <1>9, NoScan DEF Serves, Steps

LEMMA Refusing ==
    ASSUME Shapes, Storable(assets, identifiers, edges), NEW r \in Requests,
           req[r].at \in Serving, Refuse(r), UNCHANGED <<assets, identifiers, edges, clock>>
    PROVE  Serves(r)
<1>1. Answer(r, Named("CONFLICT", 0))
    BY DEF Refuse
<1> QED
    BY <1>1, AnswersBlank

LEMMA BeginServes ==
    ASSUME IInv, NEW r \in Requests, Begin(r)
    PROVE  Serves(r)
<1>1. PICK b \in Bodies :
          /\ b.op \in {"ATTACH", "PATCH", "RETIRE"} => b.asset \in DOMAIN assets
          /\ b.op = "FREE" => b.id \in DOMAIN identifiers
          /\ b.op = "UNLINK" => b.id \in DOMAIN edges
          /\ req' = [req EXCEPT ![r].at = "begun", ![r].body = b, ![r].now = clock]
    BY DEF Begin
<1>2. PICK now, seen, a : now = clock /\ seen = req[r].seen /\ a = req[r].answer
    OBVIOUS
<1>3. Shapes /\ Storable(assets, identifiers, edges) /\ req[r].at = "idle" /\ clock \in Nat
    BY DEF IInv, Begin, Shapes
<1>4. /\ req = [q \in Requests |-> req[q]]
      /\ req[r] = Call(req[r].at, req[r].body, req[r].now, req[r].seen, req[r].answer)
    BY <1>3 DEF Shapes, CallShape
<1>5. req' = [q \in Requests |-> req'[q]] /\ \A s \in Requests \ {r} : req'[s] = req[s]
    BY <1>1, <1>4
<1>6. req'[r] = [req[r] EXCEPT !.at = "begun", !.body = b, !.now = clock]
    BY <1>1, <1>4
<1>7. req'[r] = Call("begun", b, now, seen, a)
    BY <1>2, <1>4, <1>6 DEF Call
<1>8. /\ req'[r].at = "begun" /\ req'[r].body = b /\ req'[r].now = now
      /\ req'[r] = Call(req'[r].at, req'[r].body, req'[r].now, req'[r].seen, req'[r].answer)
    BY <1>7, CallFields
<1>9. Keeps /\ clock' \in Nat
    BY <1>3, StillRows DEF Begin
<1>10. CallShape(req[r])'
    BY <1>2, <1>3, <1>8 DEF CallShape, Serving
<1>11. Aims(b)
    BY <1>1, <1>3, Tables DEF Aims
<1>12. Aims(b)'
    BY <1>9, <1>11, KeptFacts
<1>13. HoldsFor(r)'
    BY <1>8, <1>12 DEF HoldsFor, Serving
<1> QED
    BY <1>3, <1>5, <1>8, <1>9, <1>10, <1>13, NoScan DEF Serves, Steps, Serving

LEMMA MatchesServe ==
    ASSUME Shapes, Storable(assets, identifiers, edges), ReadsHold, NEW r \in Requests,
           req[r].at = "begun", ReadMatches(r, req[r].body),
           UNCHANGED <<assets, identifiers, edges, clock>>
    PROVE  Serves(r)
<1>1. req[r].body.op = "RESOLVE" /\ req[r].at \in Serving
    BY DEF ReadMatches, Serving
<1>2. CASE Refuse(r)
    BY <1>1, <1>2, Refusing
<1>3. CASE GoTo(r, "read", [match |-> 0, carried |-> {}])
  <2>1. PICK seen : seen = [match |-> 0, carried |-> {}]
      OBVIOUS
  <2>2. ReadWell(req[r].body, seen)
      BY <1>1, <2>1 DEF ReadWell
  <2>3. GoTo(r, "read", seen)
      BY <1>3, <2>1
  <2> QED
      BY <1>1, <2>2, <2>3, GoesOn DEF Serving
<1>4. CASE \E a \in find_matches(req[r].body.items) : GoTo(r, "matched", [match |-> a])
  <2>1. PICK a \in find_matches(req[r].body.items) : GoTo(r, "matched", [match |-> a])
      BY <1>4
  <2>2. PICK i \in 1..Len(identifiers) : a = identifiers[i].asset
      BY <2>1 DEF find_matches, LiveIdentifiers
  <2>3. a \in Nat \ {0}
      BY <2>2, Tables DEF IdentifierRow
  <2>4. PICK seen : seen = [match |-> a]
      OBVIOUS
  <2>5. seen.match \in Nat \ {0} /\ GoTo(r, "matched", seen)
      BY <2>1, <2>3, <2>4
  <2> QED
      BY <1>1, <2>5, GoesOn DEF Serving
<1> QED
    BY <1>2, <1>3, <1>4 DEF ReadMatches

\* A read that finds what the commit needs, and goes on with it.
LEMMA Found ==
    ASSUME Shapes, Storable(assets, identifiers, edges), ReadsHold, NEW r \in Requests,
           req[r].at \in Serving, NEW seen, GoTo(r, "read", seen), ReadWell(req[r].body, seen),
           UNCHANGED <<assets, identifiers, edges, clock>>
    PROVE  Serves(r)
BY GoesOn DEF Serving

LEMMA AssetServes ==
    ASSUME Shapes, Storable(assets, identifiers, edges), ReadsHold, NEW r \in Requests,
           req[r].at = "begun", ReadAsset(r, req[r].body),
           UNCHANGED <<assets, identifiers, edges, clock>>
    PROVE  Serves(r)
<1> DEFINE b == req[r].body
<1>1. req[r].at \in Serving /\ Aims(b)
    BY DEF ReadsHold, Serving
<1>2. CASE Refuse(r)
    BY <1>1, <1>2, Refusing
<1>3. CASE b.op = "ATTACH" /\ Key(b.item) \in Carried(b.asset) /\ GoTo(r, "read", [carries |-> TRUE])
  <2>1. Placed(Key(b.item), b.asset)
      BY <1>3 DEF Carried, LiveIdentifiers, Placed
  <2>2. PICK seen : seen = [carries |-> TRUE]
      OBVIOUS
  <2>3. ReadWell(b, seen) /\ GoTo(r, "read", seen)
      BY <1>3, <2>1, <2>2 DEF ReadWell
  <2> QED
      BY <1>1, <2>3, Found
<1>4. CASE b.op = "ATTACH" /\ GoTo(r, "uncarried", NULL)
    BY <1>1, <1>4, GoesOn DEF Serving
<1>5. CASE b.op = "FREE" /\ GoTo(r, "read", NULL)
  <2>1. ReadWell(b, NULL)
      BY <1>5 DEF ReadWell
  <2> QED
      BY <1>1, <1>5, <2>1, Found
<1>6. CASE b.op = "PATCH" /\ GoTo(r, "read", [life |-> assets[b.asset].life])
  <2>1. PICK seen : seen = [life |-> assets[b.asset].life]
      OBVIOUS
  <2>2. b.asset \in 1..Len(assets)
      BY <1>1, <1>6 DEF Aims
  <2>3. assets[b.asset].life \in LifecycleState
      BY <2>2, Tables DEF AssetRow
  <2>4. seen.life \in LifecycleState
      BY <2>1, <2>3
  <2>5. ReadWell(b, seen) /\ GoTo(r, "read", seen)
      BY <1>6, <2>1, <2>4 DEF ReadWell
  <2> QED
      BY <1>1, <2>5, Found
<1>7. CASE b.op = "RETIRE" /\ GoTo(r, "read", [edges |->
              {i \in LiveEdges : b.asset \in {edges[i].src, edges[i].tgt}}])
  <2>1. PICK seen : seen = [edges |-> {i \in LiveEdges : b.asset \in {edges[i].src, edges[i].tgt}}]
      OBVIOUS
  <2>2. ReadWell(b, seen) /\ GoTo(r, "read", seen)
      BY <1>7, <2>1 DEF ReadWell
  <2> QED
      BY <1>1, <2>2, Found
<1> QED
    BY <1>2, <1>3, <1>4, <1>5, <1>6, <1>7 DEF ReadAsset

LEMMA EdgeServes ==
    ASSUME Shapes, Storable(assets, identifiers, edges), ReadsHold, NEW r \in Requests,
           req[r].at = "begun", ReadEdge(r, req[r].body),
           UNCHANGED <<assets, identifiers, edges, clock>>
    PROVE  Serves(r)
<1> DEFINE b == req[r].body
<1>1. req[r].at \in Serving
    BY DEF Serving
<1>2. CASE Refuse(r)
    BY <1>1, <1>2, Refusing
<1>3. CASE /\ b.op = "LINK"
           /\ \E i \in FoundEdges(b) :
                 GoTo(r, "read", [edge |-> i, qualifier |-> IF i = 0 THEN NULL ELSE edges[i].qualifier])
  <2>1. PICK i \in FoundEdges(b) :
            GoTo(r, "read", [edge |-> i, qualifier |-> IF i = 0 THEN NULL ELSE edges[i].qualifier])
      BY <1>3
  <2>2. i \in Nat /\ (i # 0 => Joins(i, b))
      BY <2>1, Tables DEF FoundEdges, LiveEdges, Joins
  <2>3. PICK seen : seen = [edge |-> i, qualifier |-> IF i = 0 THEN NULL ELSE edges[i].qualifier]
      OBVIOUS
  <2>4. seen.edge = i /\ (i # 0 => seen.qualifier = edges[i].qualifier)
      BY <2>3
  <2>5. ReadWell(b, seen)
      BY <1>3, <2>2, <2>4 DEF ReadWell
  <2>6. GoTo(r, "read", seen)
      BY <2>1, <2>3
  <2> QED
      BY <1>1, <2>5, <2>6, Found
<1>4. CASE b.op = "UNLINK" /\ GoTo(r, "read", NULL)
  <2>1. ReadWell(b, NULL)
      BY <1>4 DEF ReadWell
  <2> QED
      BY <1>1, <1>4, <2>1, Found
<1> QED
    BY <1>2, <1>3, <1>4 DEF ReadEdge

LEMMA ReadServes ==
    ASSUME IInv, NEW r \in Requests, Read(r)
    PROVE  Serves(r)
<1>1. /\ Shapes /\ Storable(assets, identifiers, edges) /\ ReadsHold
      /\ req[r].at = "begun" /\ UNCHANGED <<assets, identifiers, edges, clock>>
    BY DEF IInv, Read
<1>2. ReadMatches(r, req[r].body) \/ ReadAsset(r, req[r].body) \/ ReadEdge(r, req[r].body)
    BY DEF Read
<1> QED
    BY <1>1, <1>2, MatchesServe, AssetServes, EdgeServes

LEMMA ReadAgainServes ==
    ASSUME IInv, NEW r \in Requests, ReadAgain(r)
    PROVE  Serves(r)
<1> DEFINE b == req[r].body
<1>1. /\ Shapes /\ Storable(assets, identifiers, edges) /\ ReadsHold
      /\ req[r].at \in {"matched", "uncarried"} /\ req[r].at \in Serving
      /\ UNCHANGED <<assets, identifiers, edges, clock>>
    BY DEF IInv, ReadAgain, Serving
<1>2. /\ req[r].at = "matched" => b.op = "RESOLVE" /\ req[r].seen.match \in Nat \ {0}
      /\ req[r].at = "uncarried" => b.op = "ATTACH"
    BY <1>1 DEF Shapes, CallShape
<1>3. CASE Refuse(r)
    BY <1>1, <1>3, Refusing
<1>4. CASE req[r].at = "matched"
  <2>1. PICK a : a = req[r].seen.match
      OBVIOUS
  <2>2. PICK seen : seen = [match |-> a, carried |-> Carried(a)]
      OBVIOUS
  <2>3. \A k \in Carried(a) : Placed(k, a)
      BY DEF Carried, LiveIdentifiers, Placed
  <2>4. ReadWell(b, seen)
      BY <1>2, <1>4, <2>1, <2>2, <2>3 DEF ReadWell
  <2>5. GoTo(r, "read", seen)
      BY <1>4, <2>1, <2>2 DEF ReadAgain
  <2> QED
      BY <1>1, <2>4, <2>5, Found
<1>5. CASE req[r].at = "uncarried" /\ GoTo(r, "read", [carries |-> FALSE])
  <2>1. PICK seen : seen = [carries |-> FALSE]
      OBVIOUS
  <2>2. ReadWell(b, seen) /\ GoTo(r, "read", seen)
      BY <1>2, <1>5, <2>1 DEF ReadWell
  <2> QED
      BY <1>1, <2>2, Found
<1> QED
    BY <1>1, <1>3, <1>4, <1>5 DEF ReadAgain

LEMMA CommitServes ==
    ASSUME IInv, NEW r \in Requests, Commit(r)
    PROVE  Serves(r)
<1>1. /\ Shapes /\ Storable(assets, identifiers, edges) /\ ReadsHold
      /\ req[r].at = "read" /\ req[r].at \in Serving /\ clock' = clock
    BY DEF IInv, Commit, Serving
<1>2. CASE Answer(r, Named("ERROR", 0)) /\ UNCHANGED Rows
    BY <1>1, <1>2, AnswersBlank DEF Rows
<1>3. CASE Writes(Effect(req[r])) /\ Answer(r, Effect(req[r]).answer)
  <2>1. PICK q, b, now, said :
            q = req[r] /\ b = q.body /\ now = q.now /\ said = Effect(req[r]).answer
      OBVIOUS
  <2>2. b \in Bodies /\ now \in Nat /\ Aims(b) /\ ReadWell(b, q.seen)
      BY <1>1, <2>1 DEF Shapes, CallShape, ReadsHold
  <2>3. Writes(Effect(q)) /\ said = Effect(q).answer
      BY <1>3, <2>1
  <2>4. Keeps /\ AnsweredWell(b, said)'
      BY <1>1, <2>1, <2>2, <2>3, Committing
  <2>5. /\ req' = [s \in Requests |-> req'[s]]
        /\ req'[r] = Call("done", b, now, NULL, said)
        /\ \A s \in Requests \ {r} : req'[s] = req[s]
      BY <1>1, <1>3, <2>1, Answering
  <2>6. /\ req'[r].at = "done" /\ req'[r].body = b /\ req'[r].now = now /\ req'[r].answer = said
        /\ req'[r] = Call(req'[r].at, req'[r].body, req'[r].now, req'[r].seen, req'[r].answer)
      BY <2>5, CallFields
  <2>7. CallShape(req[r])'
      BY <2>2, <2>6 DEF CallShape, Serving
  <2>8. HoldsFor(r)'
      BY <2>4, <2>6 DEF HoldsFor, Serving
  <2>9. clock' \in Nat
      BY <1>1 DEF Shapes
  <2> QED
      BY <1>1, <2>2, <2>4, <2>5, <2>6, <2>7, <2>8, <2>9, NoScan DEF Serves, Steps
<1> QED
    BY <1>2, <1>3 DEF Commit, Writes

LEMMA ReadAssociationServes ==
    ASSUME IInv, NEW r \in Requests, ReadAssociation(r)
    PROVE  Serves(r)
<1>1. Shapes /\ Storable(assets, identifiers, edges) /\ req[r].at = "idle"
    BY DEF IInv, ReadAssociation
<1>2. Keeps /\ clock' \in Nat
    BY <1>1, StillRows DEF ReadAssociation, Shapes
<1>3. /\ req = [q \in Requests |-> req[q]] /\ req[r].now \in Nat
      /\ req[r] = Call(req[r].at, req[r].body, req[r].now, req[r].seen, req[r].answer)
    BY <1>1 DEF Shapes, CallShape
<1>4. PICK link : \/ Refuse(r)
                  \/ req' = [req EXCEPT ![r].at = "associating",
                                        ![r].body = [op |-> "ASSOCIATE", link |-> link]]
    BY DEF ReadAssociation
<1>5. CASE Refuse(r)
  <2>1. PICK b, now, a : b = req[r].body /\ now = req[r].now /\ a = Named("CONFLICT", 0)
      OBVIOUS
  <2>2. /\ req' = [q \in Requests |-> req'[q]]
        /\ req'[r] = Call("done", b, now, NULL, a)
        /\ \A s \in Requests \ {r} : req'[s] = req[s]
      BY <1>1, <1>5, <2>1, Answering DEF Refuse
  <2>3. /\ req'[r].at = "done" /\ req'[r].body = b /\ req'[r].now = now /\ req'[r].answer = a
        /\ req'[r] = Call(req'[r].at, req'[r].body, req'[r].now, req'[r].seen, req'[r].answer)
      BY <2>2, CallFields
  <2>4. CallShape(req[r])' /\ b.op = "NONE"
      BY <1>1, <1>3, <2>1, <2>3 DEF Shapes, CallShape, Serving
  <2>5. a.what = "CONFLICT"
      BY <2>1, NamedFields
  <2>6. AnsweredWell(b, a)'
      BY <2>5 DEF AnsweredWell
  <2>7. HoldsFor(r)'
      BY <2>3, <2>6 DEF HoldsFor, Serving
  <2> QED
      BY <1>1, <1>2, <2>2, <2>3, <2>4, <2>7 DEF Serves, Steps
<1>6. CASE req' = [req EXCEPT ![r].at = "associating",
                             ![r].body = [op |-> "ASSOCIATE", link |-> link]]
  <2>1. PICK b, now, seen, a : /\ b = [op |-> "ASSOCIATE", link |-> link] /\ now = req[r].now
                              /\ seen = req[r].seen /\ a = req[r].answer
      OBVIOUS
  <2>2. req' = [q \in Requests |-> req'[q]] /\ \A s \in Requests \ {r} : req'[s] = req[s]
      BY <1>3, <1>6
  <2>3. req'[r] = [req[r] EXCEPT !.at = "associating", !.body = b]
      BY <1>3, <1>6, <2>1
  <2>4. req'[r] = Call("associating", b, now, seen, a)
      BY <1>3, <2>1, <2>3 DEF Call
  <2>5. /\ req'[r].at = "associating" /\ req'[r].body = b /\ req'[r].now = now
        /\ req'[r] = Call(req'[r].at, req'[r].body, req'[r].now, req'[r].seen, req'[r].answer)
      BY <2>4, CallFields
  <2>6. b.op = "ASSOCIATE"
      BY <2>1
  <2>7. CallShape(req[r])'
      BY <1>3, <2>1, <2>5, <2>6 DEF CallShape, Serving
  <2>8. HoldsFor(r)'
      BY <2>5 DEF HoldsFor, Serving
  <2> QED
      BY <1>1, <1>2, <2>2, <2>5, <2>6, <2>7, <2>8 DEF Serves, Steps
<1> QED
    BY <1>4, <1>5, <1>6

LEMMA CommitAssociationServes ==
    ASSUME IInv, NEW r \in Requests, CommitAssociation(r)
    PROVE  Serves(r)
<1>1. Shapes /\ Storable(assets, identifiers, edges) /\ req[r].at = "associating"
    BY DEF IInv, CommitAssociation
<1>2. Keeps /\ clock' \in Nat
    BY <1>1, StillRows DEF CommitAssociation, Shapes
<1>3. PICK b, now, a : /\ b = req[r].body /\ now = req[r].now
                      /\ a = Named("ASSOCIATED", req[r].body.link.asset)
    OBVIOUS
<1>4. b.op = "ASSOCIATE" /\ now \in Nat
    BY <1>1, <1>3 DEF Shapes, CallShape
<1>5. /\ req' = [q \in Requests |-> req'[q]]
      /\ req'[r] = Call("done", b, now, NULL, a)
      /\ \A s \in Requests \ {r} : req'[s] = req[s]
    BY <1>1, <1>3, Answering DEF CommitAssociation
<1>6. /\ req'[r].at = "done" /\ req'[r].body = b /\ req'[r].now = now /\ req'[r].answer = a
      /\ req'[r] = Call(req'[r].at, req'[r].body, req'[r].now, req'[r].seen, req'[r].answer)
    BY <1>5, CallFields
<1>7. CallShape(req[r])'
    BY <1>4, <1>6 DEF CallShape, Serving
<1>8. a.what = "ASSOCIATED"
    BY <1>3, NamedFields
<1>9. AnsweredWell(b, a)'
    BY <1>8 DEF AnsweredWell
<1>10. HoldsFor(r)'
    BY <1>6, <1>9 DEF HoldsFor, Serving
<1> QED
    BY <1>1, <1>2, <1>4, <1>5, <1>6, <1>7, <1>10 DEF Serves, Steps

-----------------------------------------------------------------------------
(* What such a step preserves *)

LEMMA ServesApart ==
    ASSUME IInv, NEW r \in Requests, Serves(r)
    PROVE  /\ Scanning' = Scanning
           /\ \A s \in Requests : Scanned(s)' <=> Scanned(s)
           /\ \A s \in Requests : s \in Scanning \/ Scanned(s) => req'[s] = req[s]
<1>1. r \notin Scanning /\ ~Scanned(r)
  <2>1. req[r].at # "scanning" /\ req[r].at # "done"
      BY DEF Serves, Serving
  <2> QED
      BY <2>1 DEF Scanning, Scanned
<1>2. req'[r].at # "scanning" /\ req'[r].body.op # "SCAN"
    BY DEF Serves, Serving
<1>3. \A s \in Requests \ {r} : req'[s] = req[s]
    BY DEF Serves, Steps
<1> QED
    BY <1>1, <1>2, <1>3 DEF Scanning, Scanned

LEMMA StepsCmdb ==
    ASSUME IInv, NEW r \in Requests, Steps(r)
    PROVE  Shapes' /\ Storable(assets, identifiers, edges)' /\ ReadsHold' /\ AnswersHold'
<1>1. /\ Keeps /\ clock' \in Nat /\ req' = [q \in Requests |-> req'[q]]
      /\ CallShape(req[r])' /\ HoldsFor(r)'
      /\ \A s \in Requests \ {r} : req'[s] = req[s]
    BY DEF Steps
<1>2. Shapes'
  <2>1. \A s \in Requests : CallShape(req[s])'
      BY <1>1 DEF IInv, Shapes, CallShape
  <2> QED
      BY <1>1, <2>1 DEF Shapes, Keeps
<1>3. Storable(assets, identifiers, edges)'
    BY <1>1 DEF Keeps
<1>4. ASSUME NEW s \in Requests
      PROVE  HoldsFor(s)'
  <2>1. CASE s = r
      BY <1>1, <2>1
  <2>2. CASE s # r
    <3>1. PICK b, seen, a : b = req[s].body /\ seen = req[s].seen /\ a = req[s].answer
        OBVIOUS
    <3>2. /\ req[s].at \in Serving => Aims(b)
          /\ req[s].at = "read" => ReadWell(b, seen)
          /\ req[s].at = "done" => AnsweredWell(b, a)
        BY <3>1 DEF IInv, ReadsHold, AnswersHold
    <3>3. /\ req[s].at \in Serving => Aims(b)'
          /\ req[s].at = "read" => ReadWell(b, seen)'
          /\ req[s].at = "done" => AnsweredWell(b, a)'
        BY <1>1, <3>2, KeptFacts, ReadKept
    <3>4. req'[s] = req[s]
        BY <1>1, <2>2
    <3> QED
        BY <3>1, <3>3, <3>4 DEF HoldsFor
  <2> QED
      BY <2>1, <2>2
<1>5. ReadsHold' /\ AnswersHold'
    BY <1>4 DEF HoldsFor, ReadsHold, AnswersHold
<1> QED
    BY <1>2, <1>3, <1>5

\* Who had owned a word during the scans goes on being remembered.
Remembers == Scanning # {} => owned \subseteq owned' /\ Holdings' \subseteq owned'

\* A scan another step leaves alone.
LEMMA ScanKept ==
    ASSUME IInv, Keeps, NEW s \in Scanning, req'[s] = req[s], owned \subseteq owned',
           Matched \subseteq Matched', \A n \in Matched' \ Matched : ~Before(s, n)
    PROVE  ScanWell(s)'
<1>1. req[s].body.op = "SCAN" /\ RowsHold(s) /\ KnownHolds(s) /\ ProgressHolds(s)
    BY DEF IInv, ScansHold, ScanWell
<1>2. \A m \in req[s].seen.rows : RowWell(s, m)'
    BY <1>1 DEF RowsHold, RowWell
<1>3. \A m : Before(s, m)' <=> Before(s, m)
    BY DEF Before
<1>4. RowsHold(s)'
    BY <1>1, <1>2, <1>3 DEF RowsHold
<1>5. KnownHolds(s)'
    BY <1>1, <1>3 DEF KnownHolds
<1>6. ProgressHolds(s)'
    BY <1>1, KeptFacts DEF ProgressHolds
<1> QED
    BY <1>1, <1>4, <1>5, <1>6 DEF ScanWell

LEMMA ServesScans ==
    ASSUME IInv, NEW r \in Requests, Serves(r), Matched' = Matched, Remembers
    PROVE  ScansHold' /\ AfterHolds' /\ OwnedHolds' /\ RescanAddsNothing' /\ NothingOverlooked'
<1>1. /\ Scanning' = Scanning
      /\ \A s \in Requests : Scanned(s)' <=> Scanned(s)
      /\ \A s \in Requests : s \in Scanning \/ Scanned(s) => req'[s] = req[s]
    BY ServesApart
<1>2. Keeps /\ Shapes'
    BY StepsCmdb DEF Serves, Steps
<1>3. ASSUME NEW s \in Scanning
      PROVE  ScanWell(s)'
  <2>1. req'[s] = req[s] /\ owned \subseteq owned'
      BY <1>1 DEF Scanning, Remembers
  <2> QED
      BY <1>2, <2>1, ScanKept
<1>4. ScansHold'
    BY <1>1, <1>3 DEF ScansHold
<1>5. AfterHolds'
    BY <1>1 DEF IInv, AfterHolds
<1>6. OwnedHolds'
    BY <1>1 DEF OwnedHolds, Remembers
<1>7. RescanAddsNothing'
  <2>1. \A m \in Matched : m.by \in Requests => req'[m.by] = req[m.by]
      BY <1>1 DEF IInv, AfterHolds
  <2> QED
      BY <2>1 DEF IInv, RescanAddsNothing
<1>8. NothingOverlooked'
  <2> SUFFICES ASSUME NEW s \in Requests, Scanned(s)', NEW c \in Chunks,
                      NEW k \in Candidates[c] \cap req'[s].body.owned
               PROVE  \/ \E m \in Matched' : m.chunk = c /\ KeyOfMention(m) = k
                      \/ \E i \in DOMAIN identifiers' :
                            KeyOf(identifiers'[i]) = k /\ ~identifiers'[i].live
      BY DEF NothingOverlooked
  <2>1. Scanned(s) /\ req'[s] = req[s]
      BY <1>1
  <2>2. \/ \E m \in Matched : m.chunk = c /\ KeyOfMention(m) = k
        \/ \E i \in DOMAIN identifiers : KeyOf(identifiers[i]) = k /\ ~identifiers[i].live
      BY <2>1 DEF IInv, NothingOverlooked
  <2>3. (\E i \in DOMAIN identifiers : KeyOf(identifiers[i]) = k /\ ~identifiers[i].live) => Freed(k)
      BY Tables DEF IInv, Freed
  <2>4. Freed(k)' => \E i \in DOMAIN identifiers' : KeyOf(identifiers'[i]) = k /\ ~identifiers'[i].live
    <3>1. DOMAIN identifiers' = 1..Len(identifiers')
        BY <1>2 DEF Keeps
    <3> QED
        BY <3>1 DEF Freed
  <2> QED
      BY <1>2, <2>2, <2>3, <2>4, KeptFacts
<1> QED
    BY <1>4, <1>5, <1>6, <1>7, <1>8

-----------------------------------------------------------------------------
(* What a scan records *)

LEMMA Least ==
    ASSUME NEW S \in SUBSET Nat, S # {}
    PROVE  \E i \in S : \A j \in S : i <= j
<1>1. PICK i \in S : \A j \in S : <<j, i>> \notin OpToRel(<, Nat)
    BY NatLessThanWellFounded, WFMin, Zenon
<1>2. \A j \in S : ~(j < i)
    BY <1>1 DEF OpToRel
<1> QED
    BY <1>2

\* The word recorded is one that reads as the key.
LEMMA SurfaceReads ==
    ASSUME NEW c \in Chunks, NEW k \in Candidates[c]
    PROVE  k = [ns |-> k.ns, val |-> normalise([ns |-> k.ns, val |-> Surface(c, k)])]
<1>1. PICK ns \in MENTIONABLE_NAMESPACES, i \in DOMAIN Texts[c] :
          k = [ns |-> ns, val |-> normalise([ns |-> ns, val |-> Texts[c][i]])]
    BY DEF Candidates
<1>2. k.ns = ns /\ k.val = normalise([ns |-> ns, val |-> Texts[c][i]])
    BY <1>1
<1> DEFINE spelt == {j \in DOMAIN Texts[c] : normalise([ns |-> k.ns, val |-> Texts[c][j]]) = k.val}
<1>3. i \in spelt
    BY <1>2
<1>4. spelt \in SUBSET Nat
  <2>1. Texts[c] \in Seq(Spelling)
      BY TextsAssumption DEF Chunks
  <2> QED
      BY <2>1
<1> DEFINE first == CHOOSE j \in spelt : \A n \in spelt : j <= n
<1>5. first \in spelt
  <2> HIDE DEF spelt
  <2>1. \E j \in spelt : \A n \in spelt : j <= n
      BY <1>3, <1>4, Least
  <2> QED
      BY <2>1
<1>6. Surface(c, k) = Texts[c][first]
    BY DEF Surface
<1>7. normalise([ns |-> k.ns, val |-> Texts[c][first]]) = k.val
    BY <1>5
<1> HIDE DEF first, spelt
<1>8. normalise([ns |-> k.ns, val |-> Surface(c, k)]) = k.val
    BY <1>6, <1>7
<1>9. k = [ns |-> k.ns, val |-> k.val]
    BY <1>1
<1> QED
    BY <1>8, <1>9

\* The image of a finite set is finite.
LEMMA FiniteImage ==
    ASSUME NEW S, IsFiniteSet(S), NEW T, NEW f \in [S -> T]
    PROVE  IsFiniteSet({f[x] : x \in S})
<1>1. f \in Surjection(S, {f[x] : x \in S})
    BY DEF Surjection
<1> QED
    BY <1>1, FS_Surjection

LEMMA OwnersFinite ==
    ASSUME Shapes, NEW k
    PROVE  IsFiniteSet(Owners(k)) /\ Owners(k) \subseteq Nat
<1> DEFINE S == {n \in LiveIdentifiers : KeyOf(identifiers[n]) = k}
           f == [i \in S |-> identifiers[i].asset]
<1>1. IsFiniteSet(1..Len(identifiers))
    BY Tables, FS_Interval
<1>2. IsFiniteSet(S)
  <2>1. S \subseteq 1..Len(identifiers)
      BY DEF LiveIdentifiers
  <2> QED
      BY <1>1, <2>1, FS_Subset
<1>3. Owners(k) = {f[i] : i \in S}
    BY DEF Owners
<1>4. \A i \in S : identifiers[i].asset \in Nat
    BY Tables DEF LiveIdentifiers, IdentifierRow
<1>5. f \in [S -> Nat]
    BY <1>4
<1>6. \A i \in S : f[i] \in Nat
    BY <1>4
<1> HIDE DEF S, f
<1>7. IsFiniteSet({f[i] : i \in S})
    BY <1>2, <1>5, FiniteImage
<1> QED
    BY <1>3, <1>6, <1>7

\* A row is about the key asked for, and says what the table demands of it.
LEMMA MatchWell ==
    ASSUME Shapes, NEW c \in Chunks, NEW k \in Candidates[c], Owners(k) # {}, NEW r,
           NEW m, m = Match(c, k, r)
    PROVE  /\ m.chunk = c /\ m.by = r /\ m.source = "IDENTIFIER_MATCH" /\ m.candidates = Owners(k)
           /\ KeyOfMention(m) = k
           /\ m.asset # NULL => m.candidates = {m.asset}
           /\ MentionChecks(m)
<1> DEFINE a == IF \E x \in Owners(k) : Owners(k) = {x} THEN CHOOSE x \in Owners(k) : TRUE ELSE NULL
<1>1. m = [chunk |-> c, text |-> Surface(c, k), ns |-> k.ns, source |-> "IDENTIFIER_MATCH",
           asset |-> a, candidates |-> Owners(k), by |-> r]
    BY DEF Match
<1>2. /\ m.chunk = c /\ m.by = r /\ m.source = "IDENTIFIER_MATCH" /\ m.candidates = Owners(k)
      /\ m.ns = k.ns /\ m.text = Surface(c, k) /\ m.asset = a
    BY <1>1
<1>3. KeyOfMention(m) = k
    BY <1>2, SurfaceReads DEF KeyOfMention
<1>4. IsFiniteSet(Owners(k)) /\ Owners(k) \subseteq Nat
    BY OwnersFinite
<1>5. CASE \E x \in Owners(k) : Owners(k) = {x}
  <2>1. PICK x \in Owners(k) : Owners(k) = {x}
      BY <1>5
  <2>2. a = x
      BY <1>5, <2>1
  <2>3. x # NULL
      BY <1>4, <2>1, NullAssumption
  <2>4. Cardinality(Owners(k)) = 1
      BY <2>1, FS_Singleton
  <2>5. MentionChecks(m)
      BY <1>2, <2>2, <2>3, <2>4 DEF MentionChecks
  <2> HIDE DEF a
  <2> QED
      BY <1>2, <1>3, <2>1, <2>2, <2>5
<1>6. CASE ~ \E x \in Owners(k) : Owners(k) = {x}
  <2>1. a = NULL
      BY <1>6
  <2>2. Cardinality(Owners(k)) \in Nat /\ Cardinality(Owners(k)) # 0
      BY <1>4, FS_CardinalityType, FS_EmptySet
  <2>3. Cardinality(Owners(k)) # 1
    <3>1. Cardinality(Owners(k)) = 1 => \E x : Owners(k) = {x}
        BY <1>4, FS_Singleton
    <3> QED
        BY <1>6, <3>1
  <2>4. MentionChecks(m)
      BY <1>2, <2>1, <2>2, <2>3 DEF MentionChecks
  <2> HIDE DEF a
  <2> QED
      BY <1>2, <1>3, <2>1, <2>4
<1> QED
    BY <1>5, <1>6

-----------------------------------------------------------------------------
(* Steps of a scan *)

\* The record of a request in a scan.
LEMMA ScanSteps ==
    ASSUME IInv, NEW r \in Requests, UNCHANGED <<Rows, clock>>,
           req' = [q \in Requests |-> req'[q]], \A s \in Requests \ {r} : req'[s] = req[s],
           req'[r] = Call(req'[r].at, req'[r].body, req'[r].now, req'[r].seen, req'[r].answer),
           req'[r].now = req[r].now, req'[r].at \in {"scanning", "done"},
           req'[r].at = "done" => req'[r].answer.what = "SCANNED"
    PROVE  Steps(r)
<1>1. Keeps /\ clock' \in Nat
    BY StillRows DEF IInv, Shapes
<1>2. req[r].now \in Nat
    BY DEF IInv, Shapes, CallShape
<1>3. CallShape(req[r])'
    BY <1>2 DEF CallShape, Serving
<1>4. PICK b, a : b = req'[r].body /\ a = req'[r].answer
    OBVIOUS
<1>5. req'[r].at = "done" => AnsweredWell(b, a)'
    BY <1>4 DEF AnsweredWell
<1>6. HoldsFor(r)'
    BY <1>4, <1>5 DEF HoldsFor, Serving
<1> QED
    BY <1>1, <1>3, <1>6 DEF Steps

\* Mentions of words and their owners at this moment.
LEMMA HoldingsOwners ==
    ASSUME NEW c \in Chunks, NEW k \in Candidates[c]
    PROVE  [key |-> k, owners |-> Owners(k)] \in Holdings
<1>1. k \in Words
    BY DEF Words
<1> QED
    BY <1>1 DEF Holdings, Holding, Owners

\* A word somebody had registered belongs to somebody, or has been freed.
LEMMA OwnedOrFreed ==
    ASSUME NEW k, Registered(k)
    PROVE  Owners(k) # {} \/ Freed(k)
BY DEF Registered, Owners, Freed, LiveIdentifiers

LEMMA BeginScanHolds ==
    ASSUME IInv, NEW r \in Requests, BeginScan(r)
    PROVE  IInv'
<1>1. PICK b : b = [op |-> "SCAN", after |-> {q \in Requests : Scanned(q)},
                    owned |-> {k \in Words : Holder(k)}]
    OBVIOUS
<1>2. PICK seen : seen = [chunk |-> 1, known |-> Recorded, rows |-> {}]
    OBVIOUS
<1>3. PICK a : a = req[r].answer
    OBVIOUS
<1>4. /\ req[r].at = "idle" /\ UNCHANGED <<Rows, clock, mentions>> /\ owned' = owned \cup Holdings
      /\ req' = [req EXCEPT ![r].at = "scanning", ![r].body = b, ![r].seen = seen]
    BY <1>1, <1>2 DEF BeginScan
<1>5. /\ req = [q \in Requests |-> req[q]]
      /\ req[r] = Call(req[r].at, req[r].body, req[r].now, req[r].seen, req[r].answer)
    BY DEF IInv, Shapes, CallShape
<1>6. req' = [q \in Requests |-> req'[q]] /\ \A s \in Requests \ {r} : req'[s] = req[s]
    BY <1>4, <1>5
<1>7. req'[r] = [req[r] EXCEPT !.at = "scanning", !.body = b, !.seen = seen]
    BY <1>4, <1>5
<1>8. req'[r] = Call("scanning", b, req[r].now, seen, a)
    BY <1>3, <1>5, <1>7 DEF Call
<1>9. Steps(r) /\ req'[r].at = "scanning" /\ req'[r].body = b /\ req'[r].seen = seen
  <2>1. /\ req'[r].at = "scanning" /\ req'[r].body = b /\ req'[r].seen = seen
        /\ req'[r].now = req[r].now
        /\ req'[r] = Call(req'[r].at, req'[r].body, req'[r].now, req'[r].seen, req'[r].answer)
      BY <1>8, CallFields
  <2>2. UNCHANGED <<Rows, clock>>
      BY <1>4
  <2> QED
      BY <1>6, <2>1, <2>2, ScanSteps
<1>10. Shapes' /\ Storable(assets, identifiers, edges)' /\ ReadsHold' /\ AnswersHold'
    BY <1>9, StepsCmdb
<1>11. Keeps /\ Matched' = Matched /\ Holdings' = Holdings
       /\ identifiers' = identifiers
    BY <1>4, <1>9 DEF Steps, Matched, Rows, Holdings, Holding, LiveIdentifiers
<1>12. /\ r \notin Scanning /\ ~Scanned(r) /\ ~Scanned(r)'
       /\ Scanning' = Scanning \cup {r}
       /\ \A s \in Requests : Scanned(s)' <=> Scanned(s)
  <2>1. r \notin Scanning /\ ~Scanned(r) /\ ~Scanned(r)'
      BY <1>4, <1>9 DEF Scanning, Scanned
  <2>2. \A s \in Requests \ {r} : (Scanned(s)' <=> Scanned(s)) /\ (req'[s].at = req[s].at)
      BY <1>6 DEF Scanned
  <2>3. Scanning' = Scanning \cup {r}
      BY <1>9, <2>2 DEF Scanning
  <2> QED
      BY <2>1, <2>2, <2>3
<1>13. b.op = "SCAN" /\ b.after = {q \in Requests : Scanned(q)} /\ b.owned = {k \in Words : Holder(k)}
    BY <1>1
<1>14. seen.chunk = 1 /\ seen.known = Recorded /\ seen.rows = {}
    BY <1>2
<1>15. ScanWell(r)'
  <2>1. RowsHold(r)'
      BY <1>9, <1>14 DEF RowsHold
  <2>2. KnownHolds(r)'
    <3>1. \A n \in Matched : Place(n) \in Recorded
        BY DEF Recorded, Place
    <3>2. \A x \in Recorded : \E m \in Matched : Place(m) = x
        BY DEF Recorded, Place
    <3> QED
        BY <1>9, <1>11, <1>14, <3>1, <3>2 DEF KnownHolds
  <2>3. ProgressHolds(r)'
    <3>1. \A k \in b.owned : Registered(k)'
        BY <1>11, <1>13 DEF Holder, LiveIdentifiers, Registered
    <3>2. \A c \in Chunks : ~(c < 1)
      <4>1. Chunks \subseteq Nat \ {0}
          BY TextsAssumption DEF Chunks
      <4> QED
          BY <4>1
    <3> QED
        BY <1>9, <1>14, <3>1, <3>2 DEF ProgressHolds
  <2> QED
      BY <1>9, <1>13, <2>1, <2>2, <2>3 DEF ScanWell
<1>16. ASSUME NEW s \in Scanning PROVE ScanWell(s)'
  <2>1. req'[s] = req[s] /\ owned \subseteq owned'
      BY <1>4, <1>6, <1>12 DEF Scanning
  <2> QED
      BY <1>11, <2>1, ScanKept
<1>17. ScansHold'
    BY <1>12, <1>15, <1>16 DEF ScansHold
<1>18. AfterHolds'
  <2>1. \A s \in Requests \ {r} : s \in Scanning' \/ Scanned(s)' =>
           \A q \in req'[s].body.after : q \in Requests /\ Scanned(q)
      BY <1>6, <1>12 DEF IInv, AfterHolds
  <2>2. \A m \in Matched : m.by \in Requests => Scanned(m.by)
      BY DEF IInv, AfterHolds
  <2> QED
      BY <1>9, <1>11, <1>12, <1>13, <2>1, <2>2 DEF AfterHolds
<1>19. OwnedHolds'
    BY <1>4, <1>11 DEF OwnedHolds
<1>20. RescanAddsNothing'
  <2>1. \A m \in Matched : m.by \in Requests => req'[m.by] = req[m.by]
      BY <1>6, <1>12 DEF IInv, AfterHolds
  <2> QED
      BY <1>11, <2>1 DEF IInv, RescanAddsNothing
<1>21. NothingOverlooked'
  <2>1. \A s \in Requests : Scanned(s)' => Scanned(s) /\ req'[s] = req[s]
      BY <1>6, <1>12
  <2> QED
      BY <1>11, <2>1 DEF IInv, NothingOverlooked
<1> QED
    BY <1>10, <1>17, <1>18, <1>19, <1>20, <1>21 DEF IInv

LEMMA ScanChunkHolds ==
    ASSUME IInv, NEW r \in Requests, ScanChunk(r)
    PROVE  IInv'
<1>1. PICK old, c, new, b, a : /\ old = req[r].seen /\ c = old.chunk /\ new = New(old)
                              /\ b = req[r].body /\ a = req[r].answer
    OBVIOUS
<1>2. PICK seen : seen = [chunk |-> c + 1, known |-> old.known \cup {<<c, k>> : k \in new},
                          rows |-> old.rows \cup {Match(c, k, r) : k \in new}]
    OBVIOUS
<1>3. /\ req[r].at = "scanning" /\ c \in Chunks
      /\ UNCHANGED <<Rows, clock, mentions, owned>>
      /\ req' = [req EXCEPT ![r].seen = seen]
    BY <1>1, <1>2 DEF ScanChunk
<1>4. /\ req = [q \in Requests |-> req[q]]
      /\ req[r] = Call(req[r].at, req[r].body, req[r].now, req[r].seen, req[r].answer)
    BY DEF IInv, Shapes, CallShape
<1>5. req' = [q \in Requests |-> req'[q]] /\ \A s \in Requests \ {r} : req'[s] = req[s]
    BY <1>3, <1>4
<1>6. req'[r] = [req[r] EXCEPT !.seen = seen]
    BY <1>3, <1>4
<1>7. req'[r] = Call("scanning", b, req[r].now, seen, a)
    BY <1>1, <1>3, <1>4, <1>6 DEF Call
<1>8. /\ req'[r].at = "scanning" /\ req'[r].body = b /\ req'[r].seen = seen
      /\ req'[r].now = req[r].now
      /\ req'[r] = Call(req'[r].at, req'[r].body, req'[r].now, req'[r].seen, req'[r].answer)
    BY <1>7, CallFields
<1>9. Steps(r)
  <2>1. UNCHANGED <<Rows, clock>>
      BY <1>3
  <2> QED
      BY <1>5, <1>8, <2>1, ScanSteps
<1>10. Shapes' /\ Storable(assets, identifiers, edges)' /\ ReadsHold' /\ AnswersHold'
    BY <1>9, StepsCmdb
<1>11. /\ Keeps /\ Matched' = Matched /\ Holdings' = Holdings /\ owned' = owned
       /\ identifiers' = identifiers
    BY <1>3, <1>9 DEF Steps, Matched, Rows, Holdings, Holding, LiveIdentifiers
<1>12. /\ r \in Scanning /\ ~Scanned(r) /\ Scanning' = Scanning
       /\ \A s \in Requests : Scanned(s)' <=> Scanned(s)
  <2>1. r \in Scanning /\ ~Scanned(r) /\ ~Scanned(r)'
      BY <1>3, <1>8 DEF Scanning, Scanned
  <2>2. \A s \in Requests \ {r} : (Scanned(s)' <=> Scanned(s)) /\ (req'[s].at = req[s].at)
      BY <1>5 DEF Scanned
  <2>3. Scanning' = Scanning
      BY <1>3, <1>8, <2>2 DEF Scanning
  <2> QED
      BY <2>1, <2>2, <2>3
<1>13. /\ seen.chunk = c + 1 /\ seen.known = old.known \cup {<<c, k>> : k \in new}
       /\ seen.rows = old.rows \cup {Match(c, k, r) : k \in new}
    BY <1>2
<1>14. b.op = "SCAN" /\ RowsHold(r) /\ KnownHolds(r) /\ ProgressHolds(r)
    BY <1>1, <1>12 DEF IInv, ScansHold, ScanWell
<1>15. c \in Nat \ {0} /\ c < c + 1
    BY <1>1, <1>14 DEF ProgressHolds
<1>16. \A k \in new : k \in Candidates[c] /\ Owners(k) # {} /\ <<c, k>> \notin old.known
    BY <1>1 DEF New
<1>17. ASSUME NEW k \in new, NEW m, m = Match(c, k, r)
       PROVE  /\ m.chunk = c /\ m.by = r /\ m.source = "IDENTIFIER_MATCH" /\ m.candidates = Owners(k)
              /\ KeyOfMention(m) = k /\ (m.asset # NULL => m.candidates = {m.asset})
              /\ MentionChecks(m)
  <2>1. Shapes /\ c \in Chunks /\ k \in Candidates[c] /\ Owners(k) # {}
      BY <1>3, <1>16 DEF IInv
  <2> QED
      BY <1>17, <2>1, MatchWell
<1>18. \A m \in seen.rows \ old.rows : \E k \in new : m = Match(c, k, r) /\ Place(m) = <<c, k>>
  <2> SUFFICES ASSUME NEW m \in seen.rows \ old.rows
               PROVE  \E k \in new : m = Match(c, k, r) /\ Place(m) = <<c, k>>
      OBVIOUS
  <2>1. PICK k \in new : m = Match(c, k, r)
      BY <1>13
  <2>2. m.chunk = c /\ KeyOfMention(m) = k
      BY <1>17, <2>1
  <2> QED
      BY <2>1, <2>2 DEF Place
<1>19. RowsHold(r)'
  <2>1. ASSUME NEW m \in seen.rows
        PROVE  RowWell(r, m)'
    <3>1. CASE m \in old.rows
      <4>1. RowWell(r, m)
          BY <1>1, <1>14, <3>1 DEF RowsHold
      <4>2. m.chunk < c /\ m.chunk \in Chunks
          BY <1>1, <4>1 DEF RowWell
      <4>3. m.chunk < c + 1
        <5>1. Chunks \subseteq Nat
            BY TextsAssumption DEF Chunks
        <5>2. m.chunk \in Nat
            BY <4>2, <5>1
        <5> QED
            BY <1>15, <4>2, <5>2
      <4> QED
          BY <1>8, <1>11, <1>13, <4>1, <4>3 DEF RowWell
    <3>2. CASE m \notin old.rows
      <4>1. PICK k \in new : m = Match(c, k, r)
          BY <1>18, <3>2
      <4>2. [key |-> k, owners |-> Owners(k)] \in owned
          BY <1>3, <1>12, <1>16, HoldingsOwners DEF IInv, OwnedHolds
      <4> QED
          BY <1>3, <1>8, <1>11, <1>13, <1>15, <1>16, <1>17, <4>1, <4>2 DEF RowWell
    <3> QED
        BY <3>1, <3>2
  <2>2. ASSUME NEW m \in seen.rows, NEW n \in seen.rows, Place(m) = Place(n)
        PROVE  m = n
    <3>1. \A x \in old.rows : x.chunk \in Nat /\ x.chunk < c
      <4>1. Chunks \subseteq Nat
          BY TextsAssumption DEF Chunks
      <4> QED
          BY <1>1, <1>14, <4>1 DEF RowsHold, RowWell
    <3>2. m.chunk = n.chunk
        BY <2>2 DEF Place
    <3>3. \A x \in seen.rows \ old.rows : x.chunk = c
        BY <1>18 DEF Place
    <3>4. CASE m \in old.rows /\ n \in old.rows
        BY <1>1, <1>14, <2>2, <3>4 DEF RowsHold
    <3>5. CASE m \notin old.rows /\ n \notin old.rows
      <4>1. PICK k \in new : m = Match(c, k, r) /\ Place(m) = <<c, k>>
          BY <1>18, <3>5
      <4>2. PICK j \in new : n = Match(c, j, r) /\ Place(n) = <<c, j>>
          BY <1>18, <3>5
      <4> QED
          BY <2>2, <4>1, <4>2
    <3> QED
        BY <1>15, <3>1, <3>2, <3>3, <3>4, <3>5
  <2>3. ASSUME NEW n \in Matched, Before(r, n), NEW m \in seen.rows
        PROVE  Place(n) # Place(m)
    <3>1. CASE m \in old.rows
        BY <1>1, <1>14, <2>3, <3>1 DEF RowsHold
    <3>2. CASE m \notin old.rows
      <4>1. Place(n) \in old.known
          BY <1>1, <1>14, <2>3 DEF KnownHolds
      <4> QED
          BY <1>16, <1>18, <3>2, <4>1
    <3> QED
        BY <3>1, <3>2
  <2>4. \A n : Before(r, n)' <=> Before(r, n)
      BY <1>1, <1>8 DEF Before
  <2> QED
      BY <1>8, <1>11, <2>1, <2>2, <2>3, <2>4 DEF RowsHold
<1>20. KnownHolds(r)'
  <2>1. \A n \in Matched : Before(r, n)' => Place(n) \in old.known
      BY <1>1, <1>8, <1>14 DEF KnownHolds, Before
  <2>2. ASSUME NEW x \in seen.known
        PROVE  \E m \in Matched \cup seen.rows : Place(m) = x
    <3>1. CASE x \in old.known
        BY <1>1, <1>13, <1>14, <3>1 DEF KnownHolds
    <3>2. CASE x \notin old.known
      <4>1. PICK k \in new : x = <<c, k>>
          BY <1>13, <3>2
      <4>2. PICK m : m = Match(c, k, r)
          OBVIOUS
      <4>3. m \in seen.rows /\ Place(m) = x
          BY <1>13, <1>17, <4>1, <4>2 DEF Place
      <4> QED
          BY <4>3
    <3> QED
        BY <3>1, <3>2
  <2> QED
      BY <1>8, <1>11, <1>13, <2>1, <2>2 DEF KnownHolds
<1>21. ProgressHolds(r)'
  <2>1. seen.chunk \in Nat \ {0}
      BY <1>13, <1>15
  <2>2. \A k \in b.owned : Registered(k)
      BY <1>1, <1>14 DEF ProgressHolds
  <2>3. ASSUME NEW d \in Chunks, NEW k \in Candidates[d] \cap b.owned, d < c + 1
        PROVE  <<d, k>> \in seen.known \/ Freed(k)
    <3>1. d \in Nat
        BY TextsAssumption DEF Chunks
    <3>2. CASE d < c
        BY <1>1, <1>13, <1>14, <3>2 DEF ProgressHolds
    <3>3. CASE d = c
      <4>1. CASE <<c, k>> \in old.known
          BY <1>13, <3>3, <4>1
      <4>2. CASE <<c, k>> \notin old.known /\ Owners(k) # {}
        <5>1. k \in new
            BY <1>1, <3>3, <4>2 DEF New
        <5> QED
            BY <1>13, <3>3, <5>1
      <4>3. CASE Owners(k) = {}
          BY <2>2, <4>3, OwnedOrFreed
      <4> QED
          BY <4>1, <4>2, <4>3
    <3> QED
        BY <1>15, <2>3, <3>1, <3>2, <3>3
  <2>4. \A k : (Registered(k) => Registered(k)') /\ (Freed(k) => Freed(k)')
      BY <1>11, KeptFacts
  <2> QED
      BY <1>8, <1>13, <2>1, <2>2, <2>3, <2>4 DEF ProgressHolds
<1>22. ScanWell(r)'
    BY <1>8, <1>14, <1>19, <1>20, <1>21 DEF ScanWell
<1>23. ASSUME NEW s \in Scanning, s # r PROVE ScanWell(s)'
  <2>1. req'[s] = req[s]
      BY <1>5, <1>23 DEF Scanning
  <2> QED
      BY <1>11, <2>1, ScanKept
<1>24. ScansHold'
    BY <1>12, <1>22, <1>23 DEF ScansHold
<1>25. \A s \in Requests : req'[s].body = req[s].body
    BY <1>1, <1>5, <1>8
<1>26. AfterHolds'
    BY <1>11, <1>12, <1>25 DEF IInv, AfterHolds
<1>27. OwnedHolds'
    BY <1>11, <1>12 DEF IInv, OwnedHolds
<1>28. RescanAddsNothing' /\ NothingOverlooked'
    BY <1>11, <1>12, <1>25 DEF IInv, RescanAddsNothing, NothingOverlooked
<1> QED
    BY <1>10, <1>24, <1>26, <1>27, <1>28 DEF IInv

LEMMA CommitScanHolds ==
    ASSUME IInv, NEW r \in Requests, CommitScan(r)
    PROVE  IInv'
<1>1. PICK seen, rows, b, a : /\ seen = req[r].seen /\ rows = req[r].seen.rows
                             /\ b = req[r].body /\ a = Named("SCANNED", 0)
    OBVIOUS
<1>2. /\ req[r].at = "scanning" /\ seen.chunk \notin Chunks /\ UNCHANGED <<Rows, clock>>
      /\ owned' = IF Scanning = {r} THEN {} ELSE owned
    BY <1>1 DEF CommitScan
<1>3. b.op = "SCAN" /\ RowsHold(r) /\ KnownHolds(r) /\ ProgressHolds(r)
    BY <1>1, <1>2 DEF IInv, ScansHold, ScanWell, Scanning
<1>4. \A m \in rows : /\ MentionChecks(m) /\ m.by = r /\ m.source = "IDENTIFIER_MATCH"
    BY <1>1, <1>3 DEF RowsHold, RowWell
<1>5. mentions' = mentions \cup rows /\ Answer(r, a)
    BY <1>1, <1>4 DEF CommitScan
<1>6. Shapes
    BY DEF IInv
<1>7. /\ req' = [q \in Requests |-> req'[q]]
      /\ req'[r] = Call("done", b, req[r].now, NULL, a)
      /\ \A s \in Requests \ {r} : req'[s] = req[s]
    BY <1>1, <1>5, <1>6, Answering
<1>8. /\ req'[r].at = "done" /\ req'[r].body = b /\ req'[r].answer = a
      /\ req'[r].now = req[r].now
      /\ req'[r] = Call(req'[r].at, req'[r].body, req'[r].now, req'[r].seen, req'[r].answer)
    BY <1>7, CallFields
<1>9. Steps(r)
  <2>1. UNCHANGED <<Rows, clock>>
      BY <1>2
  <2>2. a.what = "SCANNED"
      BY <1>1, NamedFields
  <2> QED
      BY <1>7, <1>8, <2>1, <2>2, ScanSteps
<1>10. Shapes' /\ Storable(assets, identifiers, edges)' /\ ReadsHold' /\ AnswersHold'
    BY <1>9, StepsCmdb
<1>11. Keeps /\ Matched' = Matched \cup rows /\ Holdings' = Holdings /\ identifiers' = identifiers
    BY <1>2, <1>4, <1>5, <1>9 DEF Steps, Matched, Rows, Holdings, Holding, LiveIdentifiers
<1>12. /\ r \in Scanning /\ ~Scanned(r) /\ Scanned(r)' /\ Scanning' = Scanning \ {r}
       /\ \A s \in Requests \ {r} : Scanned(s)' <=> Scanned(s)
  <2>1. r \in Scanning /\ ~Scanned(r) /\ Scanned(r)'
      BY <1>2, <1>3, <1>8 DEF Scanning, Scanned
  <2>2. \A s \in Requests \ {r} : (Scanned(s)' <=> Scanned(s)) /\ (req'[s].at = req[s].at)
      BY <1>7 DEF Scanned
  <2>3. Scanning' = Scanning \ {r}
      BY <1>8, <2>2 DEF Scanning
  <2> QED
      BY <2>1, <2>2, <2>3
<1>13. \A s \in Requests : req'[s].body = req[s].body
    BY <1>1, <1>7, <1>8
<1>14. \A s \in Requests : s \in Scanning \/ Scanned(s) => r \notin req[s].body.after
    BY <1>12 DEF IInv, AfterHolds
<1>15. \A n \in Matched : n.by \in Requests => n.by # r /\ Scanned(n.by)
    BY <1>12 DEF IInv, AfterHolds
<1>16. ASSUME NEW s \in Scanning, s # r PROVE ScanWell(s)'
  <2>1. s \in Requests /\ req'[s] = req[s]
      BY <1>7, <1>16 DEF Scanning
  <2>2. owned \subseteq owned'
      BY <1>2, <1>16
  <2>3. \A n \in Matched' \ Matched : ~Before(s, n)
      BY <1>4, <1>11, <1>14, <2>1 DEF Before
  <2> QED
      BY <1>11, <2>1, <2>2, <2>3, ScanKept
<1>17. ScansHold'
    BY <1>12, <1>16 DEF ScansHold
<1>18. AfterHolds'
  <2>1. \A m \in Matched' : m.by \in Requests => Scanned(m.by)'
      BY <1>4, <1>11, <1>12, <1>15
  <2>2. \A s \in Requests : Scanned(s) => Scanned(s)'
      BY <1>12
  <2>3. \A s \in Requests : s \in Scanning' \/ Scanned(s)' => s \in Scanning \/ Scanned(s)
      BY <1>12
  <2>4. \A s \in Requests : s \in Scanning' \/ Scanned(s)' =>
           \A q \in req'[s].body.after : q \in Requests /\ Scanned(q)'
      BY <1>13, <2>2, <2>3 DEF IInv, AfterHolds
  <2> QED
      BY <2>1, <2>4 DEF AfterHolds
<1>19. OwnedHolds'
  <2>1. CASE Scanning = {r}
      BY <1>12, <2>1 DEF OwnedHolds
  <2>2. CASE Scanning # {r}
      BY <1>2, <1>11, <1>12, <2>2 DEF IInv, OwnedHolds
  <2> QED
      BY <2>1, <2>2
<1>20. RescanAddsNothing'
  <2> SUFFICES ASSUME NEW m \in Matched', NEW n \in Matched', m # n, m.chunk = n.chunk,
                      KeyOfMention(m) = KeyOfMention(n)
               PROVE  /\ m.by \in Requests /\ n.by \in Requests
                      /\ m.by \notin req'[n.by].body.after /\ n.by \notin req'[m.by].body.after
      BY DEF RescanAddsNothing
  <2>1. Place(m) = Place(n)
      BY DEF Place
  <2>2. \A x \in rows, y \in rows : Place(x) = Place(y) => x = y
      BY <1>1, <1>3 DEF RowsHold
  <2>3. ASSUME NEW x \in rows, NEW y \in Matched, Place(x) = Place(y)
        PROVE  /\ x.by = r /\ y.by \in Requests
               /\ y.by \notin req[r].body.after /\ r \notin req[y.by].body.after
    <3>1. ~Before(r, y)
        BY <1>1, <1>3, <2>3 DEF RowsHold
    <3>2. y.by \in Requests /\ y.by \notin req[r].body.after
        BY <3>1 DEF Before
    <3> QED
        BY <1>4, <1>14, <1>15, <3>2
  <2>4. CASE m \in rows /\ n \in rows
      BY <2>1, <2>2, <2>4
  <2>5. CASE m \in rows /\ n \in Matched
      BY <1>13, <2>1, <2>3, <2>5
  <2>6. CASE m \in Matched /\ n \in rows
      BY <1>13, <2>1, <2>3, <2>6
  <2>7. CASE m \in Matched /\ n \in Matched
      BY <1>13, <2>7 DEF IInv, RescanAddsNothing
  <2> QED
      BY <1>11, <2>4, <2>5, <2>6, <2>7
<1>21. NothingOverlooked'
  <2> SUFFICES ASSUME NEW s \in Requests, Scanned(s)', NEW c \in Chunks,
                      NEW k \in Candidates[c] \cap req[s].body.owned
               PROVE  \/ \E m \in Matched' : m.chunk = c /\ KeyOfMention(m) = k
                      \/ \E i \in DOMAIN identifiers :
                            KeyOf(identifiers[i]) = k /\ ~identifiers[i].live
      BY <1>11, <1>13 DEF NothingOverlooked
  <2>1. CASE s # r
      BY <1>11, <1>12, <2>1 DEF IInv, NothingOverlooked
  <2>2. CASE s = r
    <3>1. c < seen.chunk
      <4>1. Len(Texts) \in Nat /\ Chunks = 1..Len(Texts)
          BY TextsAssumption DEF Chunks
      <4>2. seen.chunk \in Nat \ {0}
          BY <1>1, <1>3 DEF ProgressHolds
      <4> QED
          BY <1>2, <4>1, <4>2
    <3>2. <<c, k>> \in seen.known \/ Freed(k)
        BY <1>1, <1>3, <2>2, <3>1 DEF ProgressHolds
    <3>3. CASE <<c, k>> \in seen.known
      <4>1. PICK m \in Matched \cup rows : Place(m) = <<c, k>>
          BY <1>1, <1>3, <3>3 DEF KnownHolds
      <4> QED
          BY <1>11, <4>1 DEF Place
    <3>4. CASE Freed(k)
        BY <1>6, <3>4, Tables DEF Freed
    <3> QED
        BY <3>2, <3>3, <3>4
  <2> QED
      BY <2>1, <2>2
<1> QED
    BY <1>10, <1>17, <1>18, <1>19, <1>20, <1>21 DEF IInv

-----------------------------------------------------------------------------
(* Invariance *)

LEMMA AdministerHolds ==
    ASSUME IInv, Administer
    PROVE  IInv'
<1>1. PICK r \in Requests : Begin(r) \/ Read(r) \/ ReadAgain(r) \/ Commit(r)
    BY DEF Administer, Next
<1>2. Serves(r)
    BY <1>1, BeginServes, ReadServes, ReadAgainServes, CommitServes
<1>3. Matched' = Matched
    BY DEF Administer, Matched
<1>4. Remembers
    BY DEF Administer, Remembers
<1>5. Shapes' /\ Storable(assets, identifiers, edges)' /\ ReadsHold' /\ AnswersHold'
    BY <1>2, StepsCmdb DEF Serves
<1> QED
    BY <1>2, <1>3, <1>4, <1>5, ServesScans DEF IInv

LEMMA AssociationHolds ==
    ASSUME IInv, NEW r \in Requests, ReadAssociation(r) \/ CommitAssociation(r)
    PROVE  IInv'
<1>1. Serves(r)
    BY ReadAssociationServes, CommitAssociationServes
<1>2. UNCHANGED <<Rows, clock, owned>>
    BY DEF ReadAssociation, CommitAssociation
<1>3. Matched' = Matched
  <2>1. CASE ReadAssociation(r)
      BY <2>1 DEF ReadAssociation, Matched
  <2>2. CASE CommitAssociation(r)
    <3>1. PICK m : m = Explicit(req[r].body.link.chunk, req[r].body.link.asset, r)
        OBVIOUS
    <3>2. m.source = "EXPLICIT"
        BY <3>1 DEF Explicit
    <3>3. mentions' = mentions \cup {m}
        BY <2>2, <3>1 DEF CommitAssociation
    <3> QED
        BY <3>2, <3>3 DEF Matched
  <2> QED
      BY <2>1, <2>2
<1>4. Remembers
  <2>1. Holdings' = Holdings /\ owned' = owned
      BY <1>2 DEF Rows, Holdings, Holding, LiveIdentifiers
  <2> QED
      BY <2>1 DEF Remembers, IInv, OwnedHolds
<1>5. Shapes' /\ Storable(assets, identifiers, edges)' /\ ReadsHold' /\ AnswersHold'
    BY <1>1, StepsCmdb DEF Serves
<1> QED
    BY <1>1, <1>3, <1>4, <1>5, ServesScans DEF IInv

LEMMA Initially ==
    MInit => IInv
<1> SUFFICES ASSUME MInit PROVE IInv
    OBVIOUS
<1>1. Shapes /\ Storable(assets, identifiers, edges)
  <2>1. PICK i \in Inventories : assets = i.assets /\ identifiers = i.ids /\ edges = i.edges
      BY DEF MInit, Init
  <2>2. /\ i.assets \in Seq(AssetRow) /\ i.ids \in Seq(IdentifierRow)
        /\ i.edges \in Seq(EdgeRow) /\ Storable(i.assets, i.ids, i.edges)
      BY InventoriesAssumption
  <2>3. CallShape(Idle)
      BY DEF CallShape, Idle, Call, Serving
  <2>4. clock \in Nat /\ req = [r \in Requests |-> Idle]
      BY DEF MInit, Init
  <2> QED
      BY <2>1, <2>2, <2>3, <2>4 DEF Shapes
<1>2. \A r \in Requests : req[r].at = "idle"
    BY DEF MInit, Init, Idle
<1>3. ReadsHold /\ AnswersHold /\ NothingOverlooked
    BY <1>2 DEF ReadsHold, AnswersHold, Serving, NothingOverlooked, Scanned
<1>4. Scanning = {}
    BY <1>2 DEF Scanning
<1>5. ScansHold /\ OwnedHolds
    BY <1>4 DEF ScansHold, OwnedHolds
<1>6. /\ \A m \in Matched : m.by \notin Requests
      /\ \A m, n \in Matched : m.chunk = n.chunk /\ KeyOfMention(m) = KeyOfMention(n) => m = n
    BY RecollectionsAssumption DEF MInit, Matched
<1>7. AfterHolds
    BY <1>2, <1>4, <1>6 DEF AfterHolds, Scanned
<1>8. RescanAddsNothing
    BY <1>6 DEF RescanAddsNothing
<1> QED
    BY <1>1, <1>3, <1>5, <1>7, <1>8 DEF IInv

LEMMA StutterHolds ==
    ASSUME IInv, UNCHANGED allvars
    PROVE  IInv'
<1>1. /\ assets' = assets /\ identifiers' = identifiers /\ edges' = edges /\ clock' = clock
      /\ req' = req /\ mentions' = mentions /\ owned' = owned
    BY DEF allvars, vars
<1>2. Shapes' /\ Storable(assets, identifiers, edges)'
    BY <1>1 DEF IInv, Shapes
<1>3. Keeps
    BY <1>1, StillRows DEF IInv, Rows
<1>4. Scanning' = Scanning /\ Matched' = Matched /\ Holdings' = Holdings
    BY <1>1 DEF Scanning, Matched, Holdings, Holding, LiveIdentifiers
<1>5. \A s \in Requests : Scanned(s)' <=> Scanned(s)
    BY <1>1 DEF Scanned
<1>6. ReadsHold' /\ AnswersHold'
    BY <1>1, <1>3, KeptFacts, ReadKept DEF IInv, ReadsHold, AnswersHold
<1>7. ScansHold'
    BY <1>1, <1>3, <1>4, ScanKept DEF ScansHold
<1>8. AfterHolds' /\ OwnedHolds' /\ RescanAddsNothing' /\ NothingOverlooked'
    BY <1>1, <1>4, <1>5 DEF IInv, AfterHolds, OwnedHolds, RescanAddsNothing, NothingOverlooked
<1> QED
    BY <1>2, <1>6, <1>7, <1>8 DEF IInv

\* Everything a request or a scan counts on holds whenever it counts on it.
THEOREM Invariance == MSpec => []IInv
<1>1. IInv /\ [MNext]_allvars => IInv'
  <2> SUFFICES ASSUME IInv, [MNext]_allvars PROVE IInv'
      OBVIOUS
  <2>1. CASE Administer
      BY <2>1, AdministerHolds
  <2>2. CASE \E r \in Requests : BeginScan(r)
      BY <2>2, BeginScanHolds
  <2>3. CASE \E r \in Requests : ScanChunk(r)
      BY <2>3, ScanChunkHolds
  <2>4. CASE \E r \in Requests : CommitScan(r)
      BY <2>4, CommitScanHolds
  <2>5. CASE \E r \in Requests : ReadAssociation(r) \/ CommitAssociation(r)
      BY <2>5, AssociationHolds
  <2>6. CASE UNCHANGED allvars
      BY <2>6, StutterHolds
  <2> QED
      BY <2>1, <2>2, <2>3, <2>4, <2>5, <2>6 DEF MNext, Linking
<1> QED
    BY Initially, <1>1, PTL DEF MSpec

-----------------------------------------------------------------------------
(* What follows *)

\* What an answer says of identifiers, the table says too.
LEMMA IdentifiedPlaced ==
    ASSUME IInv, NEW r \in Requests, NEW x \in Identified(r)
    PROVE  x[1].ns \in UniqueIn /\ Placed(x[1], x[2])
<1> DEFINE b == req[r].body
           a == req[r].answer
<1>1. req[r].at = "done"
    BY DEF Identified
<1>2. AnsweredWell(b, a)
    BY <1>1 DEF IInv, AnswersHold
<1>3. CASE a.what \in {"MATCHED", "CREATED"}
  <2>1. PICK k \in UniqueKeys(b.items) : x = <<k, a.which>>
      BY <1>1, <1>3 DEF Identified
  <2>2. k.ns \in UniqueIn /\ k \in Keys(b.items)
      BY <2>1 DEF UniqueKeys
  <2>3. Placed(k, a.which)
      BY <1>2, <1>3, <2>2 DEF AnsweredWell
  <2> QED
      BY <2>1, <2>2, <2>3
<1>4. CASE a.what = "ATTACHED"
  <2>1. PICK k \in UniqueKeys(<<b.item>>) : x = <<k, a.which>>
      BY <1>1, <1>4 DEF Identified
  <2>2. k.ns \in UniqueIn /\ k = Key(b.item)
      BY <2>1 DEF UniqueKeys, Keys
  <2>3. Placed(k, a.which)
      BY <1>2, <1>4, <2>2 DEF AnsweredWell
  <2> QED
      BY <2>1, <2>2, <2>3
<1>5. CASE a.what \notin {"MATCHED", "CREATED", "ATTACHED"}
    BY <1>1, <1>5 DEF Identified
<1> QED
    BY <1>3, <1>4, <1>5

\* SameIdentitySameAsset of every instance: however resolutions, creations and
\* attachments overlap, no two answers give one identity to two assets
\* (IdentityResolver, uq_asset_identifier_live_unique).
THEOREM OneAssetPerIdentity == MSpec => []SameIdentitySameAsset
<1>1. IInv => SameIdentitySameAsset
  <2> SUFFICES ASSUME IInv, NEW r \in Requests, NEW q \in Requests,
                      NEW x \in Identified(r), NEW y \in Identified(q), x[1] = y[1], x[2] # y[2]
               PROVE  \E i \in 1..Len(identifiers) : KeyOf(identifiers[i]) = x[1] /\ ~identifiers[i].live
      BY DEF SameIdentitySameAsset
  <2>1. PICK i \in 1..Len(identifiers) : KeyOf(identifiers[i]) = x[1] /\ identifiers[i].asset = x[2]
      BY IdentifiedPlaced DEF Placed
  <2>2. PICK j \in 1..Len(identifiers) : KeyOf(identifiers[j]) = y[1] /\ identifiers[j].asset = y[2]
      BY IdentifiedPlaced DEF Placed
  <2>3. IdentifierUnique(identifiers[i], identifiers[j])
      BY <2>1, <2>2 DEF IInv, Storable
  <2>4. identifiers[i].ns \in UniqueIn
    <3>1. KeyOf(identifiers[i]).ns = identifiers[i].ns
        BY DEF KeyOf
    <3> QED
        BY <2>1, <3>1, IdentifiedPlaced
  <2> QED
      BY <2>1, <2>2, <2>3, <2>4 DEF IdentifierUnique
<1> QED
    BY <1>1, Invariance, PTL

\* Two ways to tell one link come to one canonical edge.
LEMMA OneCanonical ==
    ASSUME NEW b \in Relationship, NEW c \in Relationship, SameLink(b, c)
    PROVE  Canonical(b) = Canonical(c) /\ b.type = c.type /\ b.qualifier = c.qualifier /\ b.by = c.by
<1>1. b.src \in Nat /\ b.tgt \in Nat /\ c.src \in Nat /\ c.tgt \in Nat
    BY DEF Relationship
<1>2. b.type = c.type /\ b.qualifier = c.qualifier /\ b.by = c.by
    BY DEF SameLink
<1>3. CASE b.src = c.src /\ b.tgt = c.tgt
    BY <1>2, <1>3 DEF Canonical
<1>4. CASE EdgeSpecOf(b.type).symmetric /\ b.src = c.tgt /\ b.tgt = c.src
  <2>1. CASE b.src > b.tgt
      BY <1>1, <1>2, <1>4, <2>1 DEF Canonical
  <2>2. CASE b.src < b.tgt
      BY <1>1, <1>2, <1>4, <2>2 DEF Canonical
  <2>3. CASE b.src = b.tgt
      BY <1>1, <1>2, <1>4, <2>3 DEF Canonical
  <2> QED
      BY <1>1, <2>1, <2>2, <2>3
<1> QED
    BY <1>2, <1>3, <1>4 DEF SameLink

\* Two live edges of one key are one (uq_asset_relationship_live).
LEMMA LiveEdgesDiffer ==
    ASSUME IInv, NEW e \in 1..Len(edges), NEW f \in 1..Len(edges), SameEdge(edges[e], edges[f]),
           edges[e].to = NULL, edges[f].to = NULL
    PROVE  e = f
<1>1. e # f => EdgeUnique(edges[e], edges[f])
    BY DEF IInv, Storable
<1>2. ~EdgeUnique(edges[e], edges[f])
    BY DEF EdgeUnique, SameEdge
<1> QED
    BY <1>1, <1>2

\* No two kinds of edge are read backwards by one label; only a symmetric one is
\* read alike from both ends.
LEMMA LabelsDiffer ==
    ASSUME NEW t \in RelationshipTypes, NEW u \in RelationshipTypes
    PROVE  /\ EdgeSpecOf(t).inverse = EdgeSpecOf(u).inverse => t = u
           /\ t = EdgeSpecOf(u).inverse => t = u /\ EdgeSpecOf(t).symmetric
<1> DEFINE Backwards(v) ==
              CASE v = "HAS_INTERFACE" -> "INTERFACE_OF"
                [] v = "CONNECTED_TO" -> "CONNECTED_TO"
                [] v = "MEMBER_OF" -> "HAS_MEMBER"
                [] v = "RUNS_ON" -> "HOSTS"
                [] v = "DEPENDS_ON" -> "REQUIRED_BY"
                [] v = "IP_ASSIGNED_TO" -> "HAS_IP"
                [] v = "USES_STORAGE" -> "PROVIDES_STORAGE"
<1>1. \A v \in RelationshipTypes : EdgeSpecOf(v).inverse = Backwards(v)
    BY DEF RelationshipTypes, EdgeSpecOf, EdgeSpec
<1>2. EdgeSpecOf("CONNECTED_TO").symmetric
    BY DEF EdgeSpecOf, EdgeSpec
<1>3. /\ Backwards(t) = Backwards(u) => t = u
      /\ t = Backwards(u) => t = u /\ t = "CONNECTED_TO"
    BY DEF RelationshipTypes
<1> QED
    BY <1>1, <1>2, <1>3

\* What a related asset is told of: a live edge, from which side, and to whom.
LEMMA Neighbouring ==
    ASSUME IInv, NEW a, NEW n \in neighbours(a)
    PROVE  /\ n.edge \in 1..Len(edges) /\ edges[n.edge] \in EdgeRow /\ edges[n.edge].to = NULL
           /\ edges[n.edge].src # edges[n.edge].tgt
           /\ \/ /\ edges[n.edge].src = a /\ n.other = edges[n.edge].tgt
                 /\ n.label = edges[n.edge].type
              \/ /\ edges[n.edge].src # a /\ edges[n.edge].tgt = a /\ n.other = edges[n.edge].src
                 /\ n.label = EdgeSpecOf(edges[n.edge].type).inverse
<1>1. PICK i \in {e \in LiveEdges : a \in {edges[e].src, edges[e].tgt}} :
          n = [edge |-> i,
               other |-> IF edges[i].src = a THEN edges[i].tgt ELSE edges[i].src,
               label |-> IF edges[i].src = a THEN edges[i].type
                                             ELSE EdgeSpecOf(edges[i].type).inverse]
    BY DEF neighbours
<1>2. n.edge = i /\ i \in 1..Len(edges) /\ edges[i].to = NULL
    BY <1>1 DEF LiveEdges
<1>3. edges[i] \in EdgeRow
    BY <1>2, Tables DEF IInv
<1>4. edges[i].src # edges[i].tgt
    BY <1>2 DEF IInv, Storable, EdgeChecks
<1>5. CASE edges[i].src = a
    BY <1>1, <1>2, <1>3, <1>4, <1>5
<1>6. CASE edges[i].src # a
    BY <1>1, <1>2, <1>3, <1>4, <1>6
<1> QED
    BY <1>5, <1>6

\* A live edge told twice from one end is one edge.
LEMMA ToldOnce ==
    ASSUME IInv, NEW a, NEW n \in neighbours(a), NEW m \in neighbours(a),
           n.other = m.other, n.label = m.label,
           edges[n.edge].qualifier = edges[m.edge].qualifier, edges[n.edge].by = edges[m.edge].by
    PROVE  n.edge = m.edge
<1> DEFINE e == edges[n.edge]
           f == edges[m.edge]
<1>1. /\ n.edge \in 1..Len(edges) /\ e.to = NULL /\ e.src # e.tgt
      /\ m.edge \in 1..Len(edges) /\ f.to = NULL /\ f.src # f.tgt
    BY Neighbouring
<1>2. /\ e.type \in RelationshipTypes /\ f.type \in RelationshipTypes
      /\ e.src \in Nat /\ e.tgt \in Nat /\ f.src \in Nat /\ f.tgt \in Nat
  <2>1. e \in EdgeRow /\ f \in EdgeRow
      BY Neighbouring
  <2> HIDE DEF e, f
  <2> QED
      BY <2>1 DEF EdgeRow
<1>3. /\ EdgeSpecOf(e.type).symmetric => e.src < e.tgt
      /\ EdgeSpecOf(f.type).symmetric => f.src < f.tgt
    BY <1>1 DEF IInv, Storable, EdgeChecks
<1>4. SameEdge(e, f) => n.edge = m.edge
    BY <1>1, LiveEdgesDiffer
<1>5. CASE e.src = a /\ f.src = a
  <2>1. e.tgt = f.tgt /\ e.type = f.type
      BY <1>5, Neighbouring
  <2> QED
      BY <1>4, <1>5, <2>1 DEF SameEdge
<1>6. CASE e.src # a /\ f.src # a
  <2>1. /\ e.src = f.src /\ e.tgt = a /\ f.tgt = a
        /\ EdgeSpecOf(e.type).inverse = EdgeSpecOf(f.type).inverse
      BY <1>6, Neighbouring
  <2>2. e.type = f.type
      BY <1>2, <2>1, LabelsDiffer
  <2> QED
      BY <1>4, <2>1, <2>2 DEF SameEdge
<1>7. CASE e.src = a /\ f.src # a
  <2>1. e.tgt = f.src /\ f.tgt = a /\ e.type = EdgeSpecOf(f.type).inverse
      BY <1>7, Neighbouring
  <2>2. e.type = f.type /\ EdgeSpecOf(e.type).symmetric
      BY <1>2, <2>1, LabelsDiffer
  <2> QED
      BY <1>2, <1>3, <1>7, <2>1, <2>2
<1>8. CASE e.src # a /\ f.src = a
  <2>1. f.tgt = e.src /\ e.tgt = a /\ f.type = EdgeSpecOf(e.type).inverse
      BY <1>8, Neighbouring
  <2>2. e.type = f.type /\ EdgeSpecOf(f.type).symmetric
      BY <1>2, <2>1, LabelsDiffer
  <2> QED
      BY <1>2, <1>3, <1>8, <2>1, <2>2
<1> QED
    BY <1>5, <1>6, <1>7, <1>8

\* Two answers about one link name one edge while it lasts.
LEMMA LinkedOnce ==
    ASSUME IInv, NEW r \in Requests, NEW q \in Requests, Linked(r), Linked(q),
           SameLink(req[r].body, req[q].body),
           edges[req[r].answer.which].to = NULL, edges[req[q].answer.which].to = NULL
    PROVE  req[r].answer.which = req[q].answer.which
<1>1. /\ AnsweredWell(req[r].body, req[r].answer) /\ req[r].answer.what \in {"LINKED", "TOUCHED"}
      /\ AnsweredWell(req[q].body, req[q].answer) /\ req[q].answer.what \in {"LINKED", "TOUCHED"}
    BY DEF IInv, AnswersHold, Linked
<1>2. PICK b, c, e, f : /\ b = req[r].body /\ c = req[q].body
                        /\ e = req[r].answer.which /\ f = req[q].answer.which
    OBVIOUS
<1>3. /\ b \in Relationship /\ Joins(e, b) /\ edges[e].qualifier = b.qualifier
      /\ c \in Relationship /\ Joins(f, c) /\ edges[f].qualifier = c.qualifier
    BY <1>1, <1>2 DEF AnsweredWell
<1>4. Canonical(b) = Canonical(c) /\ b.type = c.type /\ b.qualifier = c.qualifier /\ b.by = c.by
    BY <1>2, <1>3, OneCanonical
<1>5. e \in 1..Len(edges) /\ f \in 1..Len(edges) /\ SameEdge(edges[e], edges[f])
    BY <1>3, <1>4 DEF Joins, SameEdge
<1> QED
    BY <1>2, <1>5, LiveEdgesDiffer

\* OneLinkOneEdge of every instance: assert_relationship from either end, in any
\* overlap, comes to one live row, and neighbours() lists a link once
\* (uq_asset_relationship_live, the CHECK on the order of a symmetric edge).
THEOREM OneEdgePerLink == MSpec => []OneLinkOneEdge
<1>1. IInv => OneLinkOneEdge
  <2> SUFFICES ASSUME IInv PROVE OneLinkOneEdge
      OBVIOUS
  <2>1. ASSUME NEW r \in Requests, NEW q \in Requests, Linked(r), Linked(q),
               SameLink(req[r].body, req[q].body)
        PROVE  \/ req[r].answer.which = req[q].answer.which
               \/ \E e \in {req[r].answer.which, req[q].answer.which} : edges[e].to # NULL
      BY <2>1, LinkedOnce
  <2>2. ASSUME NEW a \in DOMAIN assets, NEW n \in neighbours(a), NEW m \in neighbours(a),
               <<n.other, n.label, edges[n.edge].qualifier, edges[n.edge].by>>
                   = <<m.other, m.label, edges[m.edge].qualifier, edges[m.edge].by>>
        PROVE  n.edge = m.edge
      BY <2>2, ToldOnce
  <2> QED
      BY <2>1, <2>2 DEF OneLinkOneEdge
<1> QED
    BY <1>1, Invariance, PTL

\* RetiredIsFinal of every instance: no commit takes an asset out of RETIRED, not
\* even a PATCH that read it as active (CHECK retired_state: PATCH leaves the date).
THEOREM RetirementLasts == MSpec => RetiredIsFinal
<1> DEFINE Final == \A a \in DOMAIN assets : assets[a].life = "RETIRED" => assets'[a].life = "RETIRED"
<1>1. IInv /\ [MNext]_allvars => [Final]_vars
  <2> SUFFICES ASSUME IInv, [MNext]_allvars PROVE Final \/ UNCHANGED vars
      OBVIOUS
  <2>1. CASE Administer
    <3>1. PICK r \in Requests : Begin(r) \/ Read(r) \/ ReadAgain(r) \/ Commit(r)
        BY <2>1 DEF Administer, Next
    <3>2. Keeps
        BY <3>1, BeginServes, ReadServes, ReadAgainServes, CommitServes DEF Serves, Steps
    <3> QED
        BY <3>2, Tables DEF IInv, Keeps
  <2>2. CASE Linking
    <3>1. assets' = assets
        BY <2>2 DEF Linking, BeginScan, ScanChunk, CommitScan, ReadAssociation,
                    CommitAssociation, Rows
    <3> QED
        BY <3>1
  <2>3. CASE UNCHANGED allvars
      BY <2>3 DEF allvars
  <2> QED
      BY <2>1, <2>2, <2>3 DEF MNext
<1> QED
    BY <1>1, Invariance, PTL DEF MSpec, RetiredIsFinal

\* MatchesAreExact of every instance: what _match records is exactly who held the
\* written value at some moment of the scan, whatever commits between its chunks.
THEOREM ExactMatches == MSpec => []MatchesAreExact
<1>1. IInv => MatchesAreExact
    BY DEF IInv, ScansHold, ScanWell, RowsHold, RowWell, MatchesAreExact
<1> QED
    BY <1>1, Invariance, PTL

\* RescanAddsNothing of every instance: _existing_keys keeps a scan from recording
\* again what any scan that had ended before it began has recorded.
THEOREM NothingTwice == MSpec => []RescanAddsNothing
<1>1. IInv => RescanAddsNothing
    BY DEF IInv
<1> QED
    BY <1>1, Invariance, PTL

\* NothingOverlooked of every instance: link_version leaves no identifier it could
\* have matched throughout unrecorded, in no chunk and under no namespace.
THEOREM NothingMissed == MSpec => []NothingOverlooked
<1>1. IInv => NothingOverlooked
    BY DEF IInv
<1> QED
    BY <1>1, Invariance, PTL
=============================================================================
