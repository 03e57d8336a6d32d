-------------------------- MODULE CmdbFactsProofs --------------------------
(***************************************************************************)
(* What CmdbFacts keeps for any number of requests, any sources, values    *)
(* and principals, and any history that satisfies HistoriesAssumption.     *)
(*                                                                         *)
(* A request writes from the rows it read, over rows that may have changed *)
(* since. The invariant says how much of them it can still count on: the   *)
(* columns that say what a claim is never change (ReadsHold, Kept), no two *)
(* requests at work have one clock reading and none has the reading of a   *)
(* claim already made (ClocksHold). With the constraints (Storable) that   *)
(* keeps every standing attested and every source's claims in a chain.     *)
(***************************************************************************)
EXTENDS CmdbFacts, FiniteSetTheorems, TLAPS

Working == {"begun", "read"}

Seen == {NULL} \cup [id : Nat, row : FactRow \cup {NULL}]
               \cup [ids : SUBSET Nat, rows : Seq(FactRow)]

Answers == {NULL, "TOUCHED", "CREATED", "SUPERSEDED", "RETIRED", "CONFLICT", "ERROR"}
             \cup Status

RequestShape ==
    [at : {"idle", "done"} \cup Working, body : Bodies \cup {NULL}, now : Nat,
     seen : Seen, answer : Answers]

Shapes ==
    /\ facts \in Seq(FactRow) /\ attestations \in Seq(AttestationRow)
    /\ clock \in Nat
    /\ req \in [Requests -> RequestShape]

\* The columns of a claim that nothing updates.
SameClaim(a, b) ==
    /\ a.kind = b.kind /\ a.src = b.src /\ a.stype = b.stype /\ a.value = b.value
    /\ a.from = b.from /\ a.supersedes = b.supersedes

\* A row read as live, of a claim that is still there.
Kept(row, id) ==
    /\ id \in Ids /\ row \in FactRow /\ SameClaim(facts[id], row)
    /\ row.to = NULL /\ RowChecks(row)
    /\ row.status = "APPROVED" => row.kind = "DESIRED_STATE"

\* The lineage a call adds to.
Speaks(b, row) ==
    IF b.op = "ASSERT" THEN row.kind = "OBSERVED_STATE" /\ row.src = b.src
                       ELSE row.kind = "DESIRED_STATE" /\ row.src = b.by

\* Rows good enough to serve a call by.
ReadWell(b, seen) ==
    /\ b.op \in {"ASSERT", "DESIRE"} /\ seen.id # 0 =>
          Kept(seen.row, seen.id) /\ Speaks(b, seen.row)
    /\ b.op \in {"VERIFY", "REVOKE"} =>
          /\ Kept(seen.row, b.fact)
          /\ b.op = "REVOKE" => IsAuthoritative(seen.row)
    /\ b.op = "RETIRE" => \A id \in seen.ids : Kept(seen.rows[id], id)

\* What a request read several statements ago.
ReadsHold == \A r \in Requests : req[r].at = "read" => ReadWell(req[r].body, req[r].seen)

\* A call on a claim names one there is.
CallsOnClaims(b) == b.op \in {"VERIFY", "REVOKE"} => b.fact \in Ids

\* Every clock reading is one request's alone.
ClocksHold ==
    /\ \A id \in Ids : facts[id].from < clock
    /\ \A r \in Requests : req[r].at \in Working =>
          /\ req[r].body \in Bodies /\ req[r].now < clock
          /\ CallsOnClaims(req[r].body)
          /\ \A id \in Ids : facts[id].from # req[r].now
          /\ \A s \in Requests \ {r} :
                req[s].at \in Working => req[s].now # req[r].now

IInv ==
    /\ Shapes
    /\ ReadsHold
    /\ ClocksHold
    /\ Storable(facts)
    /\ Attested(facts, attestations)
    /\ Chained(facts)

-----------------------------------------------------------------------------
(* Rows *)

\* Inserting a row leaves the others where they are.
LEMMA AppendedRow ==
    ASSUME NEW S, NEW s \in Seq(S), NEW e \in S
    PROVE  /\ Append(s, e) \in Seq(S) /\ Len(Append(s, e)) = Len(s) + 1
           /\ Len(s) \in Nat
           /\ \A i \in 1..Len(s) : Append(s, e)[i] = s[i]
           /\ Append(s, e)[Len(s) + 1] = e
OBVIOUS

\* Updating a row keeps the table's shape.
LEMMA UpdatedRow ==
    ASSUME NEW S, NEW s \in Seq(S), NEW i \in 1..Len(s), NEW e \in S
    PROVE  /\ [s EXCEPT ![i] = e] \in Seq(S)
           /\ Len([s EXCEPT ![i] = e]) = Len(s)
           /\ \A j \in 1..Len(s) : [s EXCEPT ![i] = e][j] = IF j = i THEN e ELSE s[j]
OBVIOUS

\* A function on an initial segment is a sequence.
LEMMA MappedSequence ==
    ASSUME NEW S, NEW n \in Nat, NEW f \in [1..n -> S]
    PROVE  f \in Seq(S) /\ Len(f) = n
OBVIOUS

LEMMA Rows ==
    ASSUME Shapes
    PROVE  /\ Len(facts) \in Nat /\ \A id \in Ids : facts[id] \in FactRow
           /\ Len(attestations) \in Nat
           /\ \A n \in 1..Len(attestations) : attestations[n] \in AttestationRow
           /\ \A r \in Requests : req[r] \in RequestShape
<1>1. facts \in Seq(FactRow) /\ attestations \in Seq(AttestationRow)
    BY DEF Shapes
<1>2. Len(facts) \in Nat /\ \A id \in 1..Len(facts) : facts[id] \in FactRow
    BY <1>1
<1>3. /\ Len(attestations) \in Nat
      /\ \A n \in 1..Len(attestations) : attestations[n] \in AttestationRow
    BY <1>1
<1> QED
    BY <1>2, <1>3 DEF Shapes, Ids

\* A claim that has been closed, and is otherwise as it was.
Ended(row, now) == [row EXCEPT !.to = now]

LEMMA EndedRow ==
    ASSUME NEW row \in FactRow, NEW now \in Nat
    PROVE  /\ Ended(row, now) \in FactRow /\ SameClaim(Ended(row, now), row)
           /\ Ended(row, now).to = now /\ Ended(row, now).status = row.status
           /\ Ended(row, now).vby = row.vby /\ Ended(row, now).aby = row.aby
BY DEF Ended, SameClaim, FactRow

\* An UPDATE reaches four columns.
LEMMA FlushedRow ==
    ASSUME NEW row \in FactRow, NEW read \in FactRow, NEW new \in FactRow
    PROVE  /\ Flush(row, read, new) \in FactRow /\ SameClaim(Flush(row, read, new), row)
           /\ Flush(row, read, new).status = Column(row.status, read.status, new.status)
           /\ Flush(row, read, new).vby = Column(row.vby, read.vby, new.vby)
           /\ Flush(row, read, new).aby = Column(row.aby, read.aby, new.aby)
           /\ Flush(row, read, new).to = Column(row.to, read.to, new.to)
<1> DEFINE s == Column(row.status, read.status, new.status)
           v == Column(row.vby, read.vby, new.vby)
           a == Column(row.aby, read.aby, new.aby)
           t == Column(row.to, read.to, new.to)
<1>1. /\ s \in Status /\ v \in Names \cup {NULL} /\ a \in Names \cup {NULL}
      /\ t \in Nat \cup {NULL}
    BY DEF Column, FactRow
<1>2. Flush(row, read, new) = [row EXCEPT !.status = s, !.vby = v, !.aby = a, !.to = t]
    BY DEF Flush, FactRow
<1> HIDE DEF s, v, a, t
<1>3. LET f == [row EXCEPT !.status = s, !.vby = v, !.aby = a, !.to = t]
      IN  /\ f \in FactRow /\ SameClaim(f, row)
          /\ f.status = s /\ f.vby = v /\ f.aby = a /\ f.to = t
    BY <1>1 DEF FactRow, SameClaim
<1> QED
    BY <1>2, <1>3 DEF s, v, a, t

-----------------------------------------------------------------------------
(* What a commit may do to the tables *)

\* A new claim, and the one it supersedes closed at the same instant.
Inserts(now) ==
    \E l \in Ids \cup {0}, new \in FactRow :
        /\ l # 0 => SameLineage(facts[l], new)
        /\ new.from = now /\ new.to = NULL /\ new.supersedes = l /\ new.vby = NULL
        /\ facts' \in Seq(FactRow) /\ Len(facts') = Len(facts) + 1
        /\ facts'[Len(facts) + 1] = new
        /\ \A id \in Ids : facts'[id] = IF id = l THEN Ended(facts[id], now) ELSE facts[id]
        /\ \/ /\ new.kind = "OBSERVED_STATE" /\ ~IsAuthoritative(new) /\ new.aby = NULL
              /\ attestations' = attestations
           \/ /\ new.kind = "DESIRED_STATE" /\ new.status = "APPROVED" /\ new.aby \in Names
              /\ attestations' = Append(attestations,
                   Attestation(Len(facts) + 1, "APPROVE", "UNVERIFIED", "APPROVED", new.aby))

\* A verification or a revocation. Nothing but the standing changes, and it
\* changes to what is attested, or not at all.
Judges ==
    \E id \in Ids, was \in Status, becomes \in Status, by \in Names,
       op \in {"VERIFY", "REVOKE"} :
        /\ facts' \in Seq(FactRow) /\ Len(facts') = Len(facts)
        /\ \A other \in Ids \ {id} : facts'[other] = facts[other]
        /\ SameClaim(facts'[id], facts[id]) /\ facts'[id].to = facts[id].to
        /\ facts'[id].status = becomes \/ facts'[id].status = facts[id].status
        /\ op = "VERIFY" => becomes = "VERIFIED"
        /\ op = "REVOKE" => ~IsAuthoritative(facts'[id])
        /\ facts'[id].vby \in {facts[id].vby, IF op = "VERIFY" THEN by ELSE NULL}
        /\ facts'[id].aby \in {facts[id].aby, NULL}
        /\ facts[id].kind = "DESIRED_STATE" => facts'[id].status # "APPROVED"
        /\ attestations' = Append(attestations, Attestation(id, op, was, becomes, by))

\* A retirement. It closes claims and takes no standing but to call it stale.
Retires(now) ==
    /\ facts' \in Seq(FactRow) /\ Len(facts') = Len(facts)
    /\ \A id \in Ids :
          /\ SameClaim(facts'[id], facts[id])
          /\ facts'[id].vby = facts[id].vby /\ facts'[id].aby = facts[id].aby
          /\ facts'[id].status \in {facts[id].status, "STALE"}
          /\ facts'[id].to \in {facts[id].to, now}
    /\ attestations' = attestations

\* A claim is inserted on top of the one that was read as live.
LEMMA Insertion ==
    ASSUME Shapes, NEW now \in Nat, NEW l \in Ids \cup {0}, NEW new \in FactRow,
           facts' = Append(Superseded(l, now), new)
    PROVE  /\ facts' \in Seq(FactRow) /\ Len(facts') = Len(facts) + 1
           /\ Len(Append(Superseded(l, now), new)) = Len(facts) + 1
           /\ facts'[Len(facts) + 1] = new
           /\ \A id \in Ids : facts'[id] = IF id = l THEN Ended(facts[id], now) ELSE facts[id]
<1>1. facts \in Seq(FactRow) /\ Len(facts) \in Nat
    BY Rows DEF Shapes
<1>2. /\ Superseded(l, now) \in Seq(FactRow) /\ Len(Superseded(l, now)) = Len(facts)
      /\ \A id \in Ids : Superseded(l, now)[id] =
           IF id = l THEN Ended(facts[id], now) ELSE facts[id]
    <2>1. CASE l = 0
        BY <1>1, <2>1 DEF Superseded, Ids
    <2>2. CASE l # 0
        <3> DEFINE row == Ended(facts[l], now)
        <3>1. l \in 1..Len(facts) /\ row \in FactRow
            BY <2>2, Rows, EndedRow DEF Ids
        <3>2. Superseded(l, now) = [facts EXCEPT ![l] = row]
            BY <2>2, <3>1, <1>1 DEF Superseded, Ended
        <3> HIDE DEF row
        <3>3. /\ Superseded(l, now) \in Seq(FactRow) /\ Len(Superseded(l, now)) = Len(facts)
              /\ \A id \in 1..Len(facts) : Superseded(l, now)[id] =
                   IF id = l THEN row ELSE facts[id]
            BY <1>1, <3>1, <3>2, UpdatedRow
        <3> QED
            BY <3>3 DEF row, Ids
    <2> QED
        BY <2>1, <2>2
<1> DEFINE before == Superseded(l, now)
<1> HIDE DEF before
<1>3. before \in Seq(FactRow) /\ Len(before) = Len(facts) /\ facts' = Append(before, new)
    BY <1>2 DEF before
<1>4. /\ facts' \in Seq(FactRow) /\ Len(facts') = Len(facts) + 1
      /\ facts'[Len(facts) + 1] = new
      /\ \A id \in 1..Len(facts) : facts'[id] = before[id]
    BY <1>3, AppendedRow
<1> QED
    BY <1>2, <1>4 DEF before, Ids

\* No source is authoritative by itself.
LEMMA StandingOfASource ==
    ASSUME NEW stype \in SourceType
    PROVE  default_status_for(stype) \in Status \ Authoritative
BY DEF SourceType, default_status_for, Status, Authoritative

\* The body of a request at work is one of the calls.
LEMMA AtWork ==
    ASSUME Shapes, ClocksHold, NEW r \in Requests, req[r].at \in Working
    PROVE  /\ req[r].body \in Bodies /\ WellFormed(req[r].body) /\ req[r].now \in Nat
           /\ req[r] \in RequestShape
BY Rows, BodiesAssumption DEF ClocksHold, RequestShape

LEMMA AssertionWrites ==
    ASSUME Shapes, ReadsHold, ClocksHold, NEW r \in Requests, req[r].at = "read",
           req[r].body.op = "ASSERT", facts' = assert_fact(req[r]).rows,
           attestations' = assert_fact(req[r]).atts
    PROVE  \/ UNCHANGED <<facts, attestations>>
           \/ Inserts(req[r].now)
<1> DEFINE q == req[r]
           b == q.body
           live == q.seen.id
           status == default_status_for(b.stype)
           new == Claim("OBSERVED_STATE", b.src, b.stype, b.value, status, NULL, q.now, live)
<1>1. /\ b \in Bodies /\ WellFormed(b) /\ q.now \in Nat
      /\ b.src \in Names /\ b.stype \in SourceType /\ b.value \in DOMAIN Summary
    BY AtWork DEF Working, WellFormed
<1>2. /\ live \in Ids \cup {0}
      /\ live # 0 => facts[live].kind = "OBSERVED_STATE" /\ facts[live].src = b.src
    BY DEF ReadsHold, ReadWell, Kept, Speaks, SameClaim
<1>3. status \in Status \ Authoritative
    BY <1>1, StandingOfASource
<1>4. \/ facts' = facts /\ attestations' = attestations
      \/ facts' = Append(Superseded(live, q.now), new) /\ attestations' = attestations
    BY DEF assert_fact, Outcome
<1> HIDE DEF q, b, live, status
<1>5. /\ new \in FactRow /\ new.from = q.now /\ new.to = NULL /\ new.supersedes = live
      /\ new.vby = NULL /\ new.aby = NULL /\ new.kind = "OBSERVED_STATE" /\ new.src = b.src
      /\ ~IsAuthoritative(new)
    <2>1. live \in Nat
        BY <1>2, Rows DEF Ids
    <2> QED
        BY <1>1, <1>3, <2>1 DEF Claim, FactRow, FactKind, IsAuthoritative
<1> HIDE DEF new
<1>6. CASE facts' = Append(Superseded(live, q.now), new) /\ attestations' = attestations
    <2>1. /\ facts' \in Seq(FactRow) /\ Len(facts') = Len(facts) + 1
          /\ facts'[Len(facts) + 1] = new
          /\ \A id \in Ids : facts'[id] = IF id = live THEN Ended(facts[id], q.now) ELSE facts[id]
        BY <1>1, <1>2, <1>5, <1>6, Insertion
    <2>2. live # 0 => SameLineage(facts[live], new)
        BY <1>2, <1>5 DEF SameLineage
    <2>3. Inserts(q.now)
        BY <1>2, <1>5, <1>6, <2>1, <2>2 DEF Inserts
    <2> QED
        BY <2>3 DEF q
<1> QED
    BY <1>4, <1>6

LEMMA DesireWrites ==
    ASSUME Shapes, ReadsHold, ClocksHold, NEW r \in Requests, req[r].at = "read",
           req[r].body.op = "DESIRE", facts' = create_desired(req[r]).rows,
           attestations' = create_desired(req[r]).atts
    PROVE  Inserts(req[r].now)
<1> DEFINE q == req[r]
           b == q.body
           live == q.seen.id
           new == Claim("DESIRED_STATE", b.by, "MANUAL_ENTRY", b.value, "APPROVED", b.by,
                        q.now, live)
           rows == Append(Superseded(live, q.now), new)
<1>1. /\ b \in Bodies /\ WellFormed(b) /\ q.now \in Nat
      /\ b.by \in Names /\ b.value \in DOMAIN Summary
    BY AtWork DEF Working, WellFormed
<1>2. /\ live \in Ids \cup {0}
      /\ live # 0 => facts[live].kind = "DESIRED_STATE" /\ facts[live].src = b.by
    BY DEF ReadsHold, ReadWell, Kept, Speaks, SameClaim
<1>3. /\ facts' = rows
      /\ attestations' = Append(attestations,
           Attestation(Len(rows), "APPROVE", "UNVERIFIED", "APPROVED", b.by))
    BY DEF create_desired, Outcome
<1> HIDE DEF q, b, live
<1>4. /\ new \in FactRow /\ new.from = q.now /\ new.to = NULL /\ new.supersedes = live
      /\ new.vby = NULL /\ new.aby = b.by /\ new.kind = "DESIRED_STATE" /\ new.src = b.by
      /\ new.status = "APPROVED"
    <2>1. live \in Nat
        BY <1>2, Rows DEF Ids
    <2> QED
        BY <1>1, <2>1 DEF Claim, FactRow, FactKind, SourceType, Status, Authoritative
<1> HIDE DEF new
<1>5. /\ facts' \in Seq(FactRow) /\ Len(facts') = Len(facts) + 1
      /\ Len(rows) = Len(facts) + 1
      /\ facts'[Len(facts) + 1] = new
      /\ \A id \in Ids : facts'[id] = IF id = live THEN Ended(facts[id], q.now) ELSE facts[id]
    BY <1>1, <1>2, <1>3, <1>4, Insertion
<1>6. live # 0 => SameLineage(facts[live], new)
    BY <1>2, <1>4 DEF SameLineage
<1> HIDE DEF rows
<1>7. attestations' = Append(attestations,
         Attestation(Len(facts) + 1, "APPROVE", "UNVERIFIED", "APPROVED", new.aby))
    BY <1>3, <1>4, <1>5
<1>8. Inserts(q.now)
    BY <1>1, <1>2, <1>4, <1>5, <1>6, <1>7 DEF Inserts
<1> QED
    BY <1>8 DEF q

LEMMA TransitionWrites ==
    ASSUME Shapes, ReadsHold, ClocksHold, NEW r \in Requests, req[r].at = "read",
           req[r].body.op \in {"VERIFY", "REVOKE"}, facts' = transition(req[r]).rows,
           attestations' = transition(req[r]).atts, Storable(facts), Storable(facts')
    PROVE  /\ Judges
           /\ transition(req[r]).answer \in Answers
<1> DEFINE q == req[r]
           b == q.body
           id == b.fact
           read == q.seen.row
           becomes == IF b.op = "VERIFY" THEN "VERIFIED" ELSE default_status_for(read.stype)
           marks == attribution_for(b, read)
           new == [read EXCEPT !.status = becomes, !.vby = marks.vby, !.aby = marks.aby]
<1>1. WellFormed(b) /\ b.by \in Names /\ b.op \in {"VERIFY", "REVOKE"}
    BY AtWork DEF Working, WellFormed
<1>2. /\ Kept(read, id)
      /\ b.op = "REVOKE" => IsAuthoritative(read)
    BY DEF ReadsHold, ReadWell
<1>3. /\ id \in Ids /\ read \in FactRow /\ facts[id] \in FactRow /\ read.to = NULL
      /\ read.kind = facts[id].kind
    BY <1>2, Rows DEF Kept, SameClaim
<1>4. /\ facts' = [facts EXCEPT ![id] = Flush(facts[id], read, new)]
      /\ attestations' = Append(attestations, Attestation(id, b.op, read.status, becomes, b.by))
      /\ transition(req[r]).answer = becomes
    <2>1. facts' = [facts EXCEPT ![id] = Flush(@, read, new)]
        BY DEF transition, Outcome
    <2> QED
        BY <2>1 DEF transition, Outcome
<1> HIDE DEF q, b, id, read
<1>5. read.stype \in SourceType /\ read.status \in Status
    BY <1>3 DEF FactRow
<1>6. /\ becomes \in Status /\ (b.op = "VERIFY" => becomes = "VERIFIED")
      /\ b.op = "REVOKE" => becomes \notin Authoritative
    BY <1>1, <1>5, StandingOfASource DEF Status, Authoritative
<1>7. /\ marks.vby \in Names \cup {NULL} /\ marks.aby \in Names \cup {NULL}
      /\ b.op = "VERIFY" => marks.vby = b.by /\ marks.aby = read.aby
      /\ b.op = "REVOKE" => marks.vby = NULL /\ marks.aby = NULL
    BY <1>1, <1>3 DEF attribution_for, FactRow
<1> HIDE DEF becomes, marks
<1>8. /\ new \in FactRow /\ new.status = becomes /\ new.vby = marks.vby
      /\ new.aby = marks.aby /\ new.to = read.to
    BY <1>3, <1>6, <1>7 DEF FactRow
<1> HIDE DEF new
<1> DEFINE after == Flush(facts[id], read, new)
<1>9. /\ after \in FactRow /\ SameClaim(after, facts[id])
      /\ after.status = Column(facts[id].status, read.status, becomes)
      /\ after.vby = Column(facts[id].vby, read.vby, marks.vby)
      /\ after.aby = Column(facts[id].aby, read.aby, marks.aby)
      /\ after.to = facts[id].to
    <2>1. Column(facts[id].to, read.to, new.to) = facts[id].to
        BY <1>8 DEF Column
    <2> QED
        BY <1>3, <1>8, <2>1, FlushedRow
<1> HIDE DEF after
<1>10. /\ facts' \in Seq(FactRow) /\ Len(facts') = Len(facts)
       /\ facts'[id] = after /\ \A other \in Ids \ {id} : facts'[other] = facts[other]
    <2>1. facts' = [facts EXCEPT ![id] = after] /\ id \in 1..Len(facts)
        BY <1>3, <1>4 DEF after, Ids
    <2> QED
        BY <1>9, <2>1, UpdatedRow DEF Shapes, Ids
<1>11. /\ after.status = becomes \/ after.status = facts[id].status
       /\ b.op = "REVOKE" => ~IsAuthoritative(after)
       /\ after.vby \in {facts[id].vby, IF b.op = "VERIFY" THEN b.by ELSE NULL}
       /\ after.aby \in {facts[id].aby, NULL}
    <2>1. b.op = "REVOKE" => after.status = becomes
        BY <1>2, <1>6, <1>9 DEF Column, IsAuthoritative
    <2> QED
        BY <1>1, <1>6, <1>7, <1>9, <2>1 DEF Column, IsAuthoritative
<1>12. ASSUME facts[id].kind = "DESIRED_STATE"
       PROVE  after.status # "APPROVED"
    <2>1. RowChecks(read)
        BY <1>2 DEF Kept
    <2>2. read.status = "APPROVED"
        BY <1>3, <1>12, <2>1 DEF RowChecks
    <2>3. becomes # "APPROVED"
        BY <1>1, <1>6 DEF Authoritative
    <2> QED
        BY <1>9, <2>2, <2>3 DEF Column
<1>13. Judges
    <2>1. /\ SameClaim(facts'[id], facts[id]) /\ facts'[id].to = facts[id].to
          /\ facts'[id].status = becomes \/ facts'[id].status = facts[id].status
          /\ b.op = "REVOKE" => ~IsAuthoritative(facts'[id])
          /\ facts'[id].vby \in {facts[id].vby, IF b.op = "VERIFY" THEN b.by ELSE NULL}
          /\ facts'[id].aby \in {facts[id].aby, NULL}
          /\ facts[id].kind = "DESIRED_STATE" => facts'[id].status # "APPROVED"
        BY <1>9, <1>10, <1>11, <1>12
    <2>2. b.op = "VERIFY" => becomes = "VERIFIED"
        BY <1>6
    <2> /\ id \in Ids /\ read.status \in Status /\ becomes \in Status /\ b.by \in Names
        /\ b.op \in {"VERIFY", "REVOKE"}
        BY <1>1, <1>3, <1>5, <1>6
    <2> SUFFICES \E i \in Ids, was \in Status, become \in Status, by \in Names,
                    op \in {"VERIFY", "REVOKE"} :
                 /\ facts' \in Seq(FactRow) /\ Len(facts') = Len(facts)
                 /\ \A other \in Ids \ {i} : facts'[other] = facts[other]
                 /\ SameClaim(facts'[i], facts[i]) /\ facts'[i].to = facts[i].to
                 /\ facts'[i].status = become \/ facts'[i].status = facts[i].status
                 /\ op = "VERIFY" => become = "VERIFIED"
                 /\ op = "REVOKE" => ~IsAuthoritative(facts'[i])
                 /\ facts'[i].vby \in {facts[i].vby, IF op = "VERIFY" THEN by ELSE NULL}
                 /\ facts'[i].aby \in {facts[i].aby, NULL}
                 /\ facts[i].kind = "DESIRED_STATE" => facts'[i].status # "APPROVED"
                 /\ attestations' = Append(attestations, Attestation(i, op, was, become, by))
        BY DEF Judges
    <2> WITNESS id \in Ids, read.status \in Status, becomes \in Status, b.by \in Names,
                b.op \in {"VERIFY", "REVOKE"}
    <2> QED
        BY <1>4, <1>10, <2>1, <2>2
<1> QED
    BY <1>4, <1>6, <1>13 DEF Answers

LEMMA RetirementWrites ==
    ASSUME Shapes, ReadsHold, ClocksHold, NEW r \in Requests, req[r].at = "read",
           req[r].body.op = "RETIRE", facts' = retire(req[r]).rows,
           attestations' = retire(req[r]).atts
    PROVE  Retires(req[r].now)
<1> DEFINE q == req[r]
           closed(row) == [row EXCEPT !.to = q.now,
                                      !.status = IF IsAuthoritative(row) THEN @ ELSE "STALE"]
           after(id) == IF id \in q.seen.ids
                        THEN Flush(facts[id], q.seen.rows[id], closed(q.seen.rows[id]))
                        ELSE facts[id]
<1>1. q.now \in Nat
    BY AtWork DEF Working
<1>2. \A id \in q.seen.ids : q.seen.rows[id] \in FactRow
    BY DEF ReadsHold, ReadWell, Kept
<1>3. facts' = [id \in Ids |-> after(id)] /\ attestations' = attestations
    BY DEF retire, Outcome
<1>4. \A id \in Ids : facts[id] \in FactRow
    BY Rows
<1> HIDE DEF q
<1>5. ASSUME NEW row \in FactRow
      PROVE  /\ closed(row) \in FactRow /\ closed(row).to = q.now
             /\ closed(row).status \in {row.status, "STALE"}
             /\ closed(row).vby = row.vby /\ closed(row).aby = row.aby
    BY <1>1, <1>5 DEF FactRow, Status
<1> HIDE DEF closed
<1>6. ASSUME NEW id \in Ids
      PROVE  /\ after(id) \in FactRow /\ SameClaim(after(id), facts[id])
             /\ after(id).vby = facts[id].vby /\ after(id).aby = facts[id].aby
             /\ after(id).status \in {facts[id].status, "STALE"}
             /\ after(id).to \in {facts[id].to, q.now}
    <2>1. CASE id \in q.seen.ids
        <3> DEFINE row == q.seen.rows[id]
        <3>1. row \in FactRow
            BY <1>2, <2>1
        <3> HIDE DEF row
        <3>2. closed(row) \in FactRow
            BY <1>5, <3>1
        <3>3. LET f == Flush(facts[id], row, closed(row))
              IN  /\ f \in FactRow /\ SameClaim(f, facts[id])
                  /\ f.status = Column(facts[id].status, row.status, closed(row).status)
                  /\ f.vby = Column(facts[id].vby, row.vby, closed(row).vby)
                  /\ f.aby = Column(facts[id].aby, row.aby, closed(row).aby)
                  /\ f.to = Column(facts[id].to, row.to, closed(row).to)
            BY <1>4, <3>1, <3>2, FlushedRow
        <3>4. after(id) = Flush(facts[id], row, closed(row))
            BY <2>1 DEF row
        <3> HIDE DEF after
        <3> QED
            BY <1>5, <3>1, <3>3, <3>4 DEF Column
    <2>2. CASE id \notin q.seen.ids
        BY <1>4, <2>2 DEF SameClaim
    <2> QED
        BY <2>1, <2>2
<1> HIDE DEF after
<1>7. facts' \in Seq(FactRow) /\ Len(facts') = Len(facts)
    <2>1. facts' \in [1..Len(facts) -> FactRow] /\ Len(facts) \in Nat
        BY <1>3, <1>6, Rows DEF Ids
    <2> QED
        BY <2>1, MappedSequence
<1>8. Retires(q.now)
    BY <1>3, <1>6, <1>7 DEF Retires
<1> QED
    BY <1>8 DEF q

\* Every commit does one of three things to the tables, or nothing.
LEMMA Commits ==
    ASSUME Shapes, ReadsHold, ClocksHold, Storable(facts), NEW r \in Requests, Commit(r)
    PROVE  /\ req[r].at = "read" /\ clock' = clock
           /\ \E a \in Answers : Answer(r, a)
           /\ \/ UNCHANGED <<facts, attestations>>
              \/ /\ Storable(facts')
                 /\ Inserts(req[r].now) \/ Judges \/ Retires(req[r].now)
<1> DEFINE out == Effect(req[r])
<1>1. req[r].at = "read" /\ clock' = clock
    BY DEF Commit
<1>2. CASE Answer(r, "ERROR") /\ UNCHANGED <<facts, attestations>>
    BY <1>1, <1>2 DEF Answers
<1>3. CASE /\ facts' = out.rows /\ attestations' = out.atts /\ Answer(r, out.answer)
           /\ Storable(out.rows)
    <2>0. Storable(facts')
        BY <1>3
    <2>1. CASE req[r].body.op = "ASSERT"
        <3>1. out = assert_fact(req[r])
            BY <2>1 DEF Effect
        <3>2. out.answer \in Answers
            BY <3>1 DEF assert_fact, Outcome, Answers
        <3> QED
            BY <1>1, <1>3, <2>0, <2>1, <3>1, <3>2, AssertionWrites
    <2>2. CASE req[r].body.op = "DESIRE"
        <3>1. out = create_desired(req[r])
            BY <2>2 DEF Effect
        <3>2. out.answer \in Answers
            BY <3>1 DEF create_desired, Outcome, Answers, Status, Authoritative
        <3> QED
            BY <1>1, <1>3, <2>0, <2>2, <3>1, <3>2, DesireWrites
    <2>3. CASE req[r].body.op \in {"VERIFY", "REVOKE"}
        <3>1. out = transition(req[r])
            BY <2>3 DEF Effect
        <3> QED
            BY <1>1, <1>3, <2>0, <2>3, <3>1, TransitionWrites
    <2>4. CASE req[r].body.op = "RETIRE"
        <3>1. out = retire(req[r])
            BY <2>4 DEF Effect
        <3>2. out.answer \in Answers
            <4>1. PICK rows : out = Outcome(rows, attestations, "RETIRED", "RETIRED")
                BY <3>1, Zenon DEF retire
            <4> HIDE DEF out
            <4> QED
                BY <4>1 DEF Outcome, Answers
        <3> QED
            BY <1>1, <1>3, <2>0, <2>4, <3>1, <3>2, RetirementWrites
    <2>5. req[r].body.op \in {"ASSERT", "DESIRE", "VERIFY", "REVOKE", "RETIRE"}
        BY <1>1, AtWork DEF Working, WellFormed
    <2> QED
        BY <2>1, <2>2, <2>3, <2>4, <2>5
<1> QED
    BY <1>2, <1>3 DEF Commit

-----------------------------------------------------------------------------
(* Types, and what stays *)

\* The claim found for a source is its live one.
LEMMA LiveClaimFound ==
    ASSUME NEW kind, NEW src, NEW id, id = LiveClaim(kind, src), id # 0
    PROVE  id \in Ids /\ Live(id) /\ facts[id].kind = kind /\ facts[id].src = src
BY DEF LiveClaim

\* A row read as live is one to work from.
LEMMA JustRead ==
    ASSUME Shapes, Storable(facts), Attested(facts, attestations), NEW id \in Ids, Live(id)
    PROVE  Kept(facts[id], id)
<1>1. facts[id] \in FactRow
    BY Rows
<1>2. RowChecks(facts[id])
    BY DEF Storable, Ids
<1>3. facts[id].status = "APPROVED" => facts[id].kind = "DESIRED_STATE"
    BY DEF Attested, Ids
<1> QED
    BY <1>1, <1>2, <1>3 DEF Kept, SameClaim, Live

\* What Read leaves with the request.
LEMMA Reads ==
    ASSUME Shapes, ClocksHold, Storable(facts), Attested(facts, attestations),
           NEW r \in Requests, Read(r)
    PROVE  /\ req[r].at = "begun" /\ UNCHANGED <<facts, attestations, clock>>
           /\ \/ \E seen \in Seen : Proceed(r, seen) /\ ReadWell(req[r].body, seen)
              \/ Answer(r, "CONFLICT")
<1> DEFINE b == req[r].body
<1>1. req[r].at = "begun" /\ UNCHANGED <<facts, attestations, clock>>
    BY DEF Read
<1>2. WellFormed(b)
    BY <1>1, AtWork DEF Working
<1>3. ASSUME NEW id \in Ids \cup {0}
      PROVE  Found(id) \in Seen /\ Found(id).id = id /\ (id # 0 => Found(id).row = facts[id])
    <2>1. id \in Nat /\ (id # 0 => facts[id] \in FactRow)
        BY <1>3, Rows DEF Ids
    <2> QED
        BY <2>1 DEF Found, Seen
<1>4. CASE b.op = "ASSERT" /\ Proceed(r, Found(LiveClaim("OBSERVED_STATE", b.src)))
    <2> DEFINE id == LiveClaim("OBSERVED_STATE", b.src)
    <2>1. id # 0 => id \in Ids /\ Live(id) /\ facts[id].kind = "OBSERVED_STATE"
                    /\ facts[id].src = b.src
        BY LiveClaimFound
    <2> HIDE DEF id
    <2>2. id \in Ids \cup {0} /\ (id # 0 => Kept(facts[id], id))
        BY <2>1, JustRead
    <2>3. ReadWell(b, Found(id))
        BY <1>3, <1>4, <2>1, <2>2 DEF ReadWell, Speaks
    <2> QED
        BY <1>1, <1>3, <1>4, <2>2, <2>3 DEF id
<1>5. CASE b.op = "DESIRE" /\ Proceed(r, Found(LiveClaim("DESIRED_STATE", b.by)))
    <2> DEFINE id == LiveClaim("DESIRED_STATE", b.by)
    <2>1. id # 0 => id \in Ids /\ Live(id) /\ facts[id].kind = "DESIRED_STATE"
                    /\ facts[id].src = b.by
        BY LiveClaimFound
    <2> HIDE DEF id
    <2>2. id \in Ids \cup {0} /\ (id # 0 => Kept(facts[id], id))
        BY <2>1, JustRead
    <2>3. ReadWell(b, Found(id))
        BY <1>3, <1>5, <2>1, <2>2 DEF ReadWell, Speaks
    <2> QED
        BY <1>1, <1>3, <1>5, <2>2, <2>3 DEF id
<1>6. CASE b.op \in {"VERIFY", "REVOKE"} /\ MayTransition(b) /\ Proceed(r, Found(b.fact))
    <2>1. b.fact \in Ids
        BY <1>1, <1>6 DEF ClocksHold, Working, CallsOnClaims
    <2>2. Kept(facts[b.fact], b.fact) /\ (b.op = "REVOKE" => IsAuthoritative(facts[b.fact]))
        BY <1>6, <2>1, JustRead DEF MayTransition, Live
    <2>3. ReadWell(b, Found(b.fact))
        BY <1>3, <1>6, <2>1, <2>2, Rows DEF ReadWell, Ids
    <2> QED
        BY <1>1, <1>3, <1>6, <2>1, <2>3
<1>7. CASE b.op = "RETIRE" /\ Proceed(r, [ids |-> {id \in Ids : Live(id)}, rows |-> facts])
    <2> DEFINE seen == [ids |-> {id \in Ids : Live(id)}, rows |-> facts]
    <2>1. seen \in Seen
        BY DEF Seen, Shapes, Ids
    <2>2. ReadWell(b, seen)
        BY <1>7, JustRead DEF ReadWell
    <2> QED
        BY <1>1, <1>7, <2>1, <2>2
<1>8. CASE Answer(r, "CONFLICT")
    BY <1>1, <1>8
<1> QED
    BY <1>4, <1>5, <1>6, <1>7, <1>8 DEF Read

\* No claim is deleted, and none becomes another claim.
LEMMA ClaimsStay ==
    ASSUME Shapes, NEW now \in Nat,
           Inserts(now) \/ Judges \/ Retires(now) \/ UNCHANGED <<facts, attestations>>
    PROVE  /\ facts' \in Seq(FactRow) /\ attestations' \in Seq(AttestationRow)
           /\ \A id \in Ids : id \in Ids' /\ SameClaim(facts'[id], facts[id])
           /\ \A id \in Ids' : id \in Ids \/ facts'[id].from = now
<1>1. /\ Len(facts) \in Nat /\ \A id \in Ids : facts[id] \in FactRow
      /\ attestations \in Seq(AttestationRow) /\ facts \in Seq(FactRow)
    BY Rows DEF Shapes
<1>2. CASE UNCHANGED <<facts, attestations>>
    BY <1>1, <1>2 DEF SameClaim, Ids
<1>3. CASE Inserts(now)
    <2>1. PICK l \in Ids \cup {0}, new \in FactRow :
            /\ new.from = now
            /\ facts' \in Seq(FactRow) /\ Len(facts') = Len(facts) + 1
            /\ facts'[Len(facts) + 1] = new
            /\ \A id \in Ids : facts'[id] = IF id = l THEN Ended(facts[id], now) ELSE facts[id]
            /\ \/ attestations' = attestations
               \/ /\ new.aby \in Names
                  /\ attestations' = Append(attestations,
                       Attestation(Len(facts) + 1, "APPROVE", "UNVERIFIED", "APPROVED", new.aby))
        BY <1>3 DEF Inserts
    <2>2. \A id \in Ids : SameClaim(facts'[id], facts[id])
        <3>1. ASSUME NEW id \in Ids
              PROVE  SameClaim(facts'[id], facts[id])
            <4>1. SameClaim(Ended(facts[id], now), facts[id])
                BY <1>1, EndedRow
            <4>2. SameClaim(facts[id], facts[id])
                BY DEF SameClaim
            <4> QED
                BY <2>1, <4>1, <4>2
        <3> QED
            BY <3>1
    <2>3. Ids' = Ids \cup {Len(facts) + 1}
        BY <1>1, <2>1 DEF Ids
    <2>4. new.aby \in Names =>
            Attestation(Len(facts) + 1, "APPROVE", "UNVERIFIED", "APPROVED", new.aby)
              \in AttestationRow
        BY <1>1 DEF Attestation, AttestationRow, Status, Authoritative
    <2>5. attestations' \in Seq(AttestationRow)
        BY <1>1, <2>1, <2>4, AppendedRow
    <2> QED
        BY <2>1, <2>2, <2>3, <2>5
<1>4. CASE Judges
    <2>1. PICK id \in Ids, was \in Status, becomes \in Status, by \in Names,
               op \in {"VERIFY", "REVOKE"} :
            /\ facts' \in Seq(FactRow) /\ Len(facts') = Len(facts)
            /\ \A other \in Ids \ {id} : facts'[other] = facts[other]
            /\ SameClaim(facts'[id], facts[id])
            /\ attestations' = Append(attestations, Attestation(id, op, was, becomes, by))
        BY <1>4 DEF Judges
    <2>2. Attestation(id, op, was, becomes, by) \in AttestationRow
        BY <1>1, <2>1 DEF Attestation, AttestationRow, Ids
    <2>3. attestations' \in Seq(AttestationRow)
        BY <1>1, <2>1, <2>2, AppendedRow
    <2>4. Ids' = Ids /\ \A other \in Ids : SameClaim(facts'[other], facts[other])
        BY <2>1 DEF SameClaim, Ids
    <2> QED
        BY <2>1, <2>3, <2>4
<1>5. CASE Retires(now)
    BY <1>1, <1>5 DEF Retires, Ids
<1> QED
    BY <1>2, <1>3, <1>4, <1>5

\* What a request does to its own state.
LEMMA RequestSteps ==
    ASSUME IInv, NEW r \in Requests, Begin(r) \/ Read(r) \/ Commit(r)
    PROVE  /\ req' \in [Requests -> RequestShape]
           /\ \A q \in Requests \ {r} : req'[q] = req[q]
           /\ \/ /\ Begin(r) /\ req'[r].at = "begun" /\ req'[r].now = clock
                 /\ req'[r].body \in Bodies /\ CallsOnClaims(req'[r].body)
              \/ /\ req'[r].at \in {"read", "done"} /\ req[r].at \in Working
                 /\ req'[r].body = req[r].body /\ req'[r].now = req[r].now
                 /\ clock' = clock
                 /\ req'[r].at = "read" => ReadWell(req[r].body, req'[r].seen)
           /\ clock' \in Nat /\ clock' >= clock
           /\ \/ UNCHANGED <<facts, attestations>>
              \/ /\ Storable(facts') /\ req[r].at = "read" /\ Commit(r)
                 /\ Inserts(req[r].now) \/ Judges \/ Retires(req[r].now)
<1>0. /\ Shapes /\ ReadsHold /\ ClocksHold /\ Storable(facts)
      /\ Attested(facts, attestations)
    BY DEF IInv
<1>1. /\ req \in [Requests -> RequestShape] /\ clock \in Nat /\ req[r] \in RequestShape
    BY <1>0 DEF Shapes
<1>2. ASSUME NEW seen \in Seen, Proceed(r, seen)
      PROVE  /\ req' \in [Requests -> RequestShape]
             /\ \A q \in Requests \ {r} : req'[q] = req[q]
             /\ req'[r].at = "read" /\ req'[r].body = req[r].body
             /\ req'[r].now = req[r].now /\ req'[r].seen = seen
    BY <1>1, <1>2 DEF Proceed, RequestShape, Working
<1>3. ASSUME NEW a \in Answers, Answer(r, a)
      PROVE  /\ req' \in [Requests -> RequestShape]
             /\ \A q \in Requests \ {r} : req'[q] = req[q]
             /\ req'[r].at = "done" /\ req'[r].body = req[r].body
             /\ req'[r].now = req[r].now
    BY <1>1, <1>3 DEF Answer, RequestShape, Working, Seen
<1>4. CASE Begin(r)
    <2>1. PICK b \in Bodies :
            /\ CallsOnClaims(b)
            /\ req' = [req EXCEPT ![r].at = "begun", ![r].body = b, ![r].now = clock]
        BY <1>4 DEF Begin, CallsOnClaims
    <2>2. /\ req' \in [Requests -> RequestShape]
          /\ \A q \in Requests \ {r} : req'[q] = req[q]
          /\ req'[r].at = "begun" /\ req'[r].now = clock /\ req'[r].body = b
        BY <1>1, <2>1 DEF RequestShape, Working
    <2>3. clock' = clock + 1 /\ UNCHANGED <<facts, attestations>>
        BY <1>4 DEF Begin
    <2> QED
        BY <1>1, <1>4, <2>1, <2>2, <2>3
<1>5. CASE Read(r)
    <2>1. req[r].at = "begun" /\ UNCHANGED <<facts, attestations, clock>>
        BY <1>0, <1>5, Reads
    <2>2. CASE Answer(r, "CONFLICT")
        BY <1>1, <1>3, <2>1, <2>2 DEF Answers, Working
    <2>3. CASE \E seen \in Seen : Proceed(r, seen) /\ ReadWell(req[r].body, seen)
        BY <1>1, <1>2, <2>1, <2>3 DEF Working
    <2> QED
        BY <1>0, <1>5, <2>2, <2>3, Reads
<1>6. CASE Commit(r)
    <2>1. /\ req[r].at = "read" /\ clock' = clock
          /\ \E a \in Answers : Answer(r, a)
          /\ \/ UNCHANGED <<facts, attestations>>
             \/ /\ Storable(facts')
                /\ Inserts(req[r].now) \/ Judges \/ Retires(req[r].now)
        BY <1>0, <1>6, Commits
    <2> QED
        BY <1>1, <1>3, <1>6, <2>1 DEF Working
<1> QED
    BY <1>4, <1>5, <1>6

\* Types, what was read, and the clock readings.
LEMMA RequestsStep ==
    ASSUME IInv, [Next]_vars
    PROVE  Shapes' /\ ReadsHold' /\ ClocksHold'
<1>0. Shapes /\ ReadsHold /\ ClocksHold
    BY DEF IInv
<1>1. CASE UNCHANGED vars
    <2> USE <1>1 DEF vars
    <2>1. Shapes'
        BY <1>0 DEF Shapes
    <2>2. ClocksHold'
        BY <1>0 DEF ClocksHold, Ids, CallsOnClaims
    <2>3. ReadsHold'
        BY <1>0 DEF ReadsHold, ReadWell, Kept, Ids
    <2> QED
        BY <2>1, <2>2, <2>3
<1>2. ASSUME NEW r \in Requests, Begin(r) \/ Read(r) \/ Commit(r)
      PROVE  Shapes' /\ ReadsHold' /\ ClocksHold'
    <2>1. /\ req' \in [Requests -> RequestShape]
          /\ \A q \in Requests \ {r} : req'[q] = req[q]
          /\ \/ /\ Begin(r) /\ req'[r].at = "begun" /\ req'[r].now = clock
                /\ req'[r].body \in Bodies /\ CallsOnClaims(req'[r].body)
             \/ /\ req'[r].at \in {"read", "done"} /\ req[r].at \in Working
                /\ req'[r].body = req[r].body /\ req'[r].now = req[r].now
                /\ clock' = clock
                /\ req'[r].at = "read" => ReadWell(req[r].body, req'[r].seen)
          /\ clock' \in Nat /\ clock' >= clock
          /\ \/ UNCHANGED <<facts, attestations>>
             \/ /\ Storable(facts') /\ req[r].at = "read" /\ Commit(r)
                /\ Inserts(req[r].now) \/ Judges \/ Retires(req[r].now)
        BY <1>2, RequestSteps
    <2>2. /\ clock \in Nat /\ \A q \in Requests : req[q] \in RequestShape /\ req[q].now \in Nat
        BY <1>0, Rows DEF Shapes, RequestShape
    <2>3. /\ facts' \in Seq(FactRow) /\ attestations' \in Seq(AttestationRow)
          /\ \A id \in Ids : id \in Ids' /\ SameClaim(facts'[id], facts[id])
          /\ \A id \in Ids' : id \in Ids \/ facts'[id].from = req[r].now
        BY <1>0, <2>1, <2>2, ClaimsStay
    <2>4. Shapes'
        BY <2>1, <2>3 DEF Shapes
    <2>5. ASSUME NEW b, NEW seen, ReadWell(b, seen)
          PROVE  ReadWell(b, seen)'
        <3>1. ASSUME NEW row, NEW id, Kept(row, id)
              PROVE  Kept(row, id)'
            BY <2>3, <3>1 DEF Kept, SameClaim
        <3> QED
            BY <2>5, <3>1 DEF ReadWell
    <2>6. ASSUME NEW q \in Requests, req'[q].at = "read"
          PROVE  /\ ReadWell(req'[q].body, req'[q].seen)
        BY <1>0, <2>1, <2>6 DEF ReadsHold
    <2>7. ReadsHold'
        BY <2>5, <2>6 DEF ReadsHold, ReadWell, Kept
    <2>8. \A id \in Ids' : facts'[id].from < clock'
        <3>1. ASSUME NEW id \in Ids', id \notin Ids
              PROVE  facts'[id].from < clock'
            <4>1. req[r].at = "read" /\ clock' >= clock /\ facts'[id].from = req[r].now
                BY <2>1, <2>3, <3>1 DEF Ids
            <4>2. req[r].now < clock
                BY <1>0, <4>1 DEF ClocksHold, Working
            <4> QED
                BY <2>1, <2>2, <4>1, <4>2
        <3>2. ASSUME NEW id \in Ids
              PROVE  facts'[id].from < clock'
            <4>1. facts'[id].from = facts[id].from /\ facts[id].from < clock
                BY <1>0, <2>3 DEF SameClaim, ClocksHold
            <4>2. facts[id].from \in Nat
                BY <1>0, Rows DEF FactRow
            <4> QED
                BY <2>1, <2>2, <4>1, <4>2
        <3> QED
            BY <3>1, <3>2
    <2>9. ASSUME NEW q \in Requests, req'[q].at \in Working
          PROVE  /\ req'[q].body \in Bodies /\ req'[q].now < clock'
                 /\ CallsOnClaims(req'[q].body)
                 /\ \A id \in Ids : facts[id].from # req'[q].now
                 /\ \A p \in Requests \ {q} : req[p].at \in Working => req[p].now # req'[q].now
        <3>1. CASE q = r /\ Begin(r)
            <4>1. req'[q].now = clock /\ clock' = clock + 1
                <5>1. clock' = clock + 1
                    BY <3>1 DEF Begin
                <5>2. clock' # clock
                    BY <2>2, <5>1
                <5> QED
                    BY <2>1, <3>1, <5>1, <5>2
            <4>2. \A id \in Ids : facts[id].from < clock /\ facts[id].from \in Nat
                BY <1>0, Rows DEF ClocksHold, FactRow
            <4>3. \A p \in Requests : req[p].at \in Working => req[p].now < clock
                BY <1>0 DEF ClocksHold
            <4>4. req[r].at = "idle"
                BY <3>1 DEF Begin
            <4>5. req'[q].body \in Bodies /\ CallsOnClaims(req'[q].body)
                BY <2>1, <3>1, <4>4 DEF Working
            <4> QED
                BY <2>2, <4>1, <4>2, <4>3, <4>5
        <3>2. CASE ~(q = r /\ Begin(r))
            <4>1. /\ req[q].at \in Working /\ req'[q].body = req[q].body
                  /\ req'[q].now = req[q].now
                BY <2>1, <2>9, <3>2
            <4>2. /\ req[q].body \in Bodies /\ req[q].now < clock
                  /\ CallsOnClaims(req[q].body)
                  /\ \A id \in Ids : facts[id].from # req[q].now
                  /\ \A p \in Requests \ {q} : req[p].at \in Working => req[p].now # req[q].now
                BY <1>0, <4>1 DEF ClocksHold
            <4> QED
                BY <2>1, <2>2, <4>1, <4>2
        <3> QED
            BY <3>1, <3>2
    <2>10. ASSUME NEW q \in Requests, req'[q].at \in Working
           PROVE  /\ \A id \in Ids' : facts'[id].from # req'[q].now
                  /\ \A p \in Requests \ {q} : req'[p].at \in Working => req'[p].now # req'[q].now
        <3>1. ASSUME NEW id \in Ids', id \notin Ids
              PROVE  facts'[id].from # req'[q].now
            <4>1. req[r].at = "read" /\ facts'[id].from = req[r].now /\ Commit(r)
                BY <2>1, <2>3, <3>1 DEF Ids
            <4>2. q # r
                <5>1. PICK a \in Answers : Answer(r, a)
                    BY <1>0, <4>1, Commits DEF IInv
                <5>2. req'[r].at = "done"
                    BY <1>0, <2>2, <5>1 DEF Answer, Shapes, RequestShape
                <5> QED
                    BY <2>10, <5>2 DEF Working
            <4> QED
                BY <2>9, <2>10, <4>1, <4>2 DEF Working
        <3>2. ASSUME NEW id \in Ids
              PROVE  facts'[id].from # req'[q].now
            BY <2>3, <2>9, <2>10 DEF SameClaim
        <3>3. ASSUME NEW p \in Requests \ {q}, req'[p].at \in Working
              PROVE  req'[p].now # req'[q].now
            <4>1. CASE q = r
                BY <2>1, <2>9, <2>10, <3>3, <4>1
            <4>2. CASE q # r
                BY <2>1, <2>9, <2>10, <3>3, <4>2
            <4> QED
                BY <4>1, <4>2
        <3> QED
            BY <3>1, <3>2, <3>3
    <2>11. \A b : CallsOnClaims(b) => (b.op \in {"VERIFY", "REVOKE"} => b.fact \in Ids')
        BY <2>3 DEF CallsOnClaims
    <2>12. ClocksHold'
        BY <2>8, <2>9, <2>10, <2>11 DEF ClocksHold, CallsOnClaims
    <2> QED
        BY <2>4, <2>7, <2>12
<1> QED
    BY <1>1, <1>2 DEF Next

-----------------------------------------------------------------------------
(* Standing *)

\* An attestation by which a claim got its standing or its marks.
Said(n, id, status) == attestations[n].fact = id /\ attestations[n].becomes = status

\* What Attested says of one claim, now.
StandingOf(id) ==
    /\ facts[id].status = "APPROVED" => facts[id].kind = "DESIRED_STATE"
    /\ IsAuthoritative(facts[id]) =>
          \E n \in 1..Len(attestations) :
             /\ Said(n, id, facts[id].status)
             /\ \A m \in 1..Len(attestations) : attestations[m].fact = id => m <= n
    /\ facts[id].vby # NULL =>
          \E n \in 1..Len(attestations) :
             Said(n, id, "VERIFIED") /\ attestations[n].by = facts[id].vby
    /\ facts[id].aby # NULL =>
          \E n \in 1..Len(attestations) :
             Said(n, id, "APPROVED") /\ attestations[n].by = facts[id].aby

LEMMA AttestedOf ==
    Attested(facts, attestations) <=>
        /\ \A n \in 1..Len(attestations) : attestations[n].fact \in Ids
        /\ \A id \in Ids : StandingOf(id)
BY DEF Attested, StandingOf, Said, Ids

\* A claim whose marks stay, and whose standing stays or goes, needs no new
\* attestation.
LEMMA StandingStays ==
    ASSUME NEW id \in Ids, StandingOf(id), id \in Ids',
           SameClaim(facts'[id], facts[id]),
           facts'[id].vby = facts[id].vby, facts'[id].aby = facts[id].aby,
           facts'[id].status \in {facts[id].status, "STALE"},
           Len(attestations) \in Nat, Len(attestations') \in Nat,
           Len(attestations') >= Len(attestations),
           \A n \in 1..Len(attestations) : attestations'[n] = attestations[n],
           \A n \in 1..Len(attestations') :
              n \in 1..Len(attestations) \/ attestations'[n].fact # id
    PROVE  StandingOf(id)'
<1>1. \A n \in 1..Len(attestations) : n \in 1..Len(attestations')
    OBVIOUS
<1>2. facts'[id].status = "APPROVED" => facts'[id].kind = "DESIRED_STATE"
    BY DEF StandingOf, SameClaim
<1>3. ASSUME IsAuthoritative(facts'[id])
      PROVE  \E n \in 1..Len(attestations') :
                /\ attestations'[n].fact = id /\ attestations'[n].becomes = facts'[id].status
                /\ \A m \in 1..Len(attestations') : attestations'[m].fact = id => m <= n
    <2>1. facts'[id].status = facts[id].status /\ IsAuthoritative(facts[id])
        BY <1>3 DEF IsAuthoritative, Authoritative
    <2>2. PICK n \in 1..Len(attestations) :
             /\ Said(n, id, facts[id].status)
             /\ \A m \in 1..Len(attestations) : attestations[m].fact = id => m <= n
        BY <2>1 DEF StandingOf
    <2> QED
        BY <1>1, <2>1, <2>2 DEF Said
<1>4. ASSUME facts'[id].vby # NULL
      PROVE  \E n \in 1..Len(attestations') :
                /\ attestations'[n].fact = id /\ attestations'[n].becomes = "VERIFIED"
                /\ attestations'[n].by = facts'[id].vby
    BY <1>1, <1>4 DEF StandingOf, Said
<1>5. ASSUME facts'[id].aby # NULL
      PROVE  \E n \in 1..Len(attestations') :
                /\ attestations'[n].fact = id /\ attestations'[n].becomes = "APPROVED"
                /\ attestations'[n].by = facts'[id].aby
    BY <1>1, <1>5 DEF StandingOf, Said
<1> QED
    BY <1>2, <1>3, <1>4, <1>5 DEF StandingOf, Said

\* An approval comes with the claim it is about.
LEMMA InsertionAttested ==
    ASSUME Shapes, Attested(facts, attestations), NEW now \in Nat, Inserts(now)
    PROVE  Attested(facts, attestations)'
<1>0. /\ Len(facts) \in Nat /\ Len(attestations) \in Nat
      /\ \A id \in Ids : facts[id] \in FactRow
      /\ attestations \in Seq(AttestationRow)
      /\ \A n \in 1..Len(attestations) : attestations[n].fact \in Ids
      /\ \A id \in Ids : StandingOf(id)
    BY Rows, AttestedOf DEF Shapes
<1>1. PICK l \in Ids \cup {0}, new \in FactRow :
        /\ new.vby = NULL
        /\ Len(facts') = Len(facts) + 1 /\ facts'[Len(facts) + 1] = new
        /\ \A id \in Ids : facts'[id] = IF id = l THEN Ended(facts[id], now) ELSE facts[id]
        /\ \/ /\ new.kind = "OBSERVED_STATE" /\ ~IsAuthoritative(new) /\ new.aby = NULL
              /\ attestations' = attestations
           \/ /\ new.kind = "DESIRED_STATE" /\ new.status = "APPROVED" /\ new.aby \in Names
              /\ attestations' = Append(attestations,
                   Attestation(Len(facts) + 1, "APPROVE", "UNVERIFIED", "APPROVED", new.aby))
    BY DEF Inserts
<1>a. PICK id0 : id0 = Len(facts) + 1
    OBVIOUS
<1> DEFINE N == Len(attestations)
           given == Attestation(id0, "APPROVE", "UNVERIFIED", "APPROVED", new.aby)
<1>2. Ids' = Ids \cup {id0} /\ id0 \notin Ids /\ id0 \in Nat
    BY <1>0, <1>1, <1>a DEF Ids
<1>3. given.fact = id0 /\ given.becomes = "APPROVED" /\ given.by = new.aby
    BY DEF Attestation
<1> HIDE DEF given
<1>4. \/ /\ new.kind = "OBSERVED_STATE" /\ ~IsAuthoritative(new) /\ new.aby = NULL
         /\ Len(attestations') = N
      \/ /\ new.kind = "DESIRED_STATE" /\ new.status = "APPROVED"
         /\ Len(attestations') = N + 1 /\ attestations'[N + 1] = given
    BY <1>0, <1>1, <1>a DEF given
<1>5. \A n \in 1..N : attestations'[n] = attestations[n]
    BY <1>0, <1>1
<1> HIDE DEF N
<1>6. N \in Nat /\ (Len(attestations') = N \/ Len(attestations') = N + 1)
    BY <1>0, <1>4 DEF N
<1>7. \A n \in 1..Len(attestations') : n \in 1..N \/ attestations'[n].fact = id0
    BY <1>3, <1>4, <1>6
<1>8. \A n \in 1..Len(attestations') : attestations'[n].fact \in Ids'
    BY <1>0, <1>2, <1>5, <1>7 DEF N
<1>9. ASSUME NEW id \in Ids
      PROVE  StandingOf(id)'
    <2>1. /\ SameClaim(facts'[id], facts[id]) /\ facts'[id].vby = facts[id].vby
          /\ facts'[id].aby = facts[id].aby /\ facts'[id].status = facts[id].status
        <3>1. CASE id = l
            <4>1. facts'[id] = Ended(facts[id], now)
                BY <1>1, <3>1
            <4>2. /\ SameClaim(Ended(facts[id], now), facts[id])
                  /\ Ended(facts[id], now).status = facts[id].status
                  /\ Ended(facts[id], now).vby = facts[id].vby
                  /\ Ended(facts[id], now).aby = facts[id].aby
                BY <1>0, EndedRow
            <4> QED
                BY <4>1, <4>2
        <3>2. CASE id # l
            BY <1>1, <3>2 DEF SameClaim
        <3> QED
            BY <3>1, <3>2
    <2>2. \A n \in 1..Len(attestations') : n \in 1..N \/ attestations'[n].fact # id
        BY <1>2, <1>7
    <2>3. Len(attestations') \in Nat /\ Len(attestations') >= N
        BY <1>6
    <2> QED
        BY <1>0, <1>2, <1>5, <2>1, <2>2, <2>3, StandingStays DEF N
<1>10. StandingOf(id0)'
    <2>1. facts'[id0] = new /\ new.vby = NULL
        BY <1>1, <1>a
    <2>2. CASE /\ new.kind = "OBSERVED_STATE" /\ ~IsAuthoritative(new) /\ new.aby = NULL
        <3>1. new.status # "APPROVED"
            BY <2>2 DEF IsAuthoritative, Authoritative
        <3> QED
            BY <2>1, <2>2, <3>1 DEF StandingOf, IsAuthoritative
    <2>3. CASE /\ new.kind = "DESIRED_STATE" /\ new.status = "APPROVED"
               /\ Len(attestations') = N + 1 /\ attestations'[N + 1] = given
        <3>1. /\ N + 1 \in 1..Len(attestations')
              /\ \A m \in 1..Len(attestations') : m <= N + 1
            BY <1>6, <2>3
        <3> QED
            BY <1>3, <2>1, <2>3, <3>1 DEF StandingOf, Said
    <2> QED
        BY <1>4, <2>2, <2>3
<1>11. \A id \in Ids' : StandingOf(id)'
    BY <1>2, <1>9, <1>10
<1> QED
    BY <1>8, <1>11 DEF Attested, StandingOf, Said, Ids

\* A judgement is attested whether or not it moved the row.
LEMMA JudgementAttested ==
    ASSUME Shapes, Attested(facts, attestations), Storable(facts), Storable(facts'), Judges
    PROVE  Attested(facts, attestations)'
<1>0. /\ Len(facts) \in Nat /\ Len(attestations) \in Nat
      /\ \A i \in Ids : facts[i] \in FactRow
      /\ attestations \in Seq(AttestationRow)
      /\ \A n \in 1..Len(attestations) : attestations[n].fact \in Ids
      /\ \A i \in Ids : StandingOf(i)
    BY Rows, AttestedOf DEF Shapes
<1>1. PICK id \in Ids, was \in Status, becomes \in Status, by \in Names,
           op \in {"VERIFY", "REVOKE"} :
        /\ facts' \in Seq(FactRow) /\ Len(facts') = Len(facts)
        /\ \A other \in Ids \ {id} : facts'[other] = facts[other]
        /\ SameClaim(facts'[id], facts[id])
        /\ facts'[id].status = becomes \/ facts'[id].status = facts[id].status
        /\ op = "VERIFY" => becomes = "VERIFIED"
        /\ op = "REVOKE" => ~IsAuthoritative(facts'[id])
        /\ facts'[id].vby \in {facts[id].vby, IF op = "VERIFY" THEN by ELSE NULL}
        /\ facts'[id].aby \in {facts[id].aby, NULL}
        /\ facts[id].kind = "DESIRED_STATE" => facts'[id].status # "APPROVED"
        /\ attestations' = Append(attestations, Attestation(id, op, was, becomes, by))
    BY DEF Judges
<1> DEFINE N == Len(attestations)
           given == Attestation(id, op, was, becomes, by)
<1>2. Ids' = Ids
    BY <1>1 DEF Ids
<1>3. given.fact = id /\ given.becomes = becomes /\ given.by = by
    BY DEF Attestation
<1> HIDE DEF given
<1>4. /\ N \in Nat /\ Len(attestations') = N + 1 /\ attestations'[N + 1] = given
      /\ \A n \in 1..N : attestations'[n] = attestations[n]
    BY <1>0, <1>1 DEF given
<1> HIDE DEF N
<1>5. \A n \in 1..Len(attestations') : attestations'[n].fact \in Ids'
    BY <1>0, <1>2, <1>3, <1>4 DEF N
<1>6. ASSUME NEW other \in Ids \ {id}
      PROVE  StandingOf(other)'
    <2>1. \A n \in 1..Len(attestations') : n \in 1..N \/ attestations'[n].fact # other
        BY <1>3, <1>4
    <2>2. Len(attestations') \in Nat /\ Len(attestations') >= N
        BY <1>4
    <2>3. facts'[other] = facts[other] /\ SameClaim(facts[other], facts[other])
        BY <1>1 DEF SameClaim
    <2> QED
        BY <1>0, <1>2, <1>4, <2>1, <2>2, <2>3, StandingStays DEF N
<1>7. StandingOf(id)'
    <2>1. /\ facts'[id].status # "APPROVED"
        <3>1. CASE facts[id].kind = "DESIRED_STATE"
            BY <1>1, <3>1
        <3>2. CASE facts[id].kind # "DESIRED_STATE"
            <4>1. facts[id].status # "APPROVED"
                BY <1>0, <3>2 DEF StandingOf
            <4>2. becomes = "APPROVED" => op = "REVOKE"
                BY <1>1
            <4> QED
                BY <1>1, <4>1, <4>2 DEF IsAuthoritative, Authoritative
        <3> QED
            BY <3>1, <3>2
    <2>2. ASSUME IsAuthoritative(facts'[id])
          PROVE  \E n \in 1..Len(attestations') :
                    /\ attestations'[n].fact = id
                    /\ attestations'[n].becomes = facts'[id].status
                    /\ \A m \in 1..Len(attestations') : attestations'[m].fact = id => m <= n
        <3>1. facts'[id].status = "VERIFIED" /\ becomes = "VERIFIED"
            BY <1>1, <2>1, <2>2 DEF IsAuthoritative, Authoritative
        <3>2. /\ N + 1 \in 1..Len(attestations')
              /\ \A m \in 1..Len(attestations') : m <= N + 1
            BY <1>4
        <3> QED
            BY <1>3, <1>4, <3>1, <3>2
    <2>3. \A n \in 1..N : n \in 1..Len(attestations')
        BY <1>4
    <2>4. ASSUME facts'[id].vby # NULL
          PROVE  \E n \in 1..Len(attestations') :
                    /\ attestations'[n].fact = id /\ attestations'[n].becomes = "VERIFIED"
                    /\ attestations'[n].by = facts'[id].vby
        <3>1. CASE facts'[id].vby = facts[id].vby
            <4>1. PICK n \in 1..N : Said(n, id, "VERIFIED") /\ attestations[n].by = facts[id].vby
                BY <1>0, <2>4, <3>1 DEF StandingOf, N
            <4> QED
                BY <1>4, <2>3, <3>1, <4>1 DEF Said
        <3>2. CASE op = "VERIFY" /\ facts'[id].vby = by
            <4>1. N + 1 \in 1..Len(attestations')
                BY <1>4
            <4> QED
                BY <1>1, <1>3, <1>4, <3>2, <4>1
        <3> QED
            BY <1>1, <2>4, <3>1, <3>2
    <2>5. ASSUME facts'[id].aby # NULL
          PROVE  \E n \in 1..Len(attestations') :
                    /\ attestations'[n].fact = id /\ attestations'[n].becomes = "APPROVED"
                    /\ attestations'[n].by = facts'[id].aby
        <3>1. facts'[id].aby = facts[id].aby
            BY <1>1, <2>5
        <3>2. PICK n \in 1..N : Said(n, id, "APPROVED") /\ attestations[n].by = facts[id].aby
            BY <1>0, <2>5, <3>1 DEF StandingOf, N
        <3> QED
            BY <1>4, <2>3, <3>1, <3>2 DEF Said
    <2> QED
        BY <2>1, <2>2, <2>4, <2>5 DEF StandingOf, Said
<1>8. \A i \in Ids' : StandingOf(i)'
    BY <1>2, <1>6, <1>7
<1> QED
    BY <1>5, <1>8 DEF Attested, StandingOf, Said, Ids

\* A retirement needs no attestation: it takes standing away from nobody.
LEMMA RetirementAttested ==
    ASSUME Shapes, Attested(facts, attestations), NEW now, Retires(now)
    PROVE  Attested(facts, attestations)'
<1>0. /\ Len(attestations) \in Nat
      /\ \A n \in 1..Len(attestations) : attestations[n].fact \in Ids
      /\ \A id \in Ids : StandingOf(id)
    BY Rows, AttestedOf
<1>1. Ids' = Ids /\ attestations' = attestations
    BY DEF Retires, Ids
<1>2. ASSUME NEW id \in Ids
      PROVE  StandingOf(id)'
    <2>1. /\ SameClaim(facts'[id], facts[id]) /\ facts'[id].vby = facts[id].vby
          /\ facts'[id].aby = facts[id].aby /\ facts'[id].status \in {facts[id].status, "STALE"}
        BY DEF Retires
    <2>2. Len(attestations') \in Nat /\ Len(attestations') >= Len(attestations)
        BY <1>0, <1>1
    <2> QED
        BY <1>0, <1>1, <2>1, <2>2, StandingStays
<1>3. \A id \in Ids' : StandingOf(id)'
    BY <1>1, <1>2
<1> QED
    BY <1>0, <1>1, <1>3 DEF Attested, StandingOf, Said, Ids

-----------------------------------------------------------------------------
(* Chains *)

\* Of two claims that do not overlap and are not empty, the one that starts
\* first ends before the other starts.
LEMMA Ordered ==
    ASSUME NEW a \in FactRow, NEW b \in FactRow, ~Overlap(a, b), RowChecks(a), RowChecks(b),
           a.to # a.from, b.to # b.from, a.from < b.from
    PROVE  a.to # NULL /\ a.to <= b.from
<1>1. /\ a.from \in Nat /\ b.from \in Nat
      /\ a.to \in Nat \cup {NULL} /\ b.to \in Nat \cup {NULL} /\ NULL \notin Nat
    BY NullAssumption DEF FactRow
<1>2. a.to = NULL \/ a.from < a.to
    BY <1>1 DEF RowChecks
<1>3. b.to = NULL \/ b.from < b.to
    BY <1>1 DEF RowChecks
<1>4. b.to = NULL \/ a.from < b.to
    BY <1>1, <1>3
<1>5. ~(a.to = NULL \/ b.from < a.to)
    BY <1>2, <1>3, <1>4 DEF Overlap
<1> QED
    BY <1>1, <1>5

\* What the table's constraints say of two claims of one source.
LEMMA Apart ==
    ASSUME NEW rows \in Seq(FactRow), Storable(rows), NEW i \in 1..Len(rows),
           NEW j \in 1..Len(rows), i # j, SameLineage(rows[i], rows[j]),
           rows[i].to # rows[i].from, rows[j].to # rows[j].from,
           rows[i].from < rows[j].from
    PROVE  rows[i].to # NULL /\ rows[i].to <= rows[j].from
<1>1. rows[i] \in FactRow /\ rows[j] \in FactRow
    OBVIOUS
<1>2. RowChecks(rows[i]) /\ RowChecks(rows[j]) /\ ~Overlap(rows[i], rows[j])
    BY DEF Storable, OneClaimAtATime
<1> QED
    BY <1>1, <1>2, Ordered

\* Whatever closed a claim again, its successor still starts no earlier than
\* it stops: the constraints leave no other order.
LEMMA ChainKept ==
    ASSUME Shapes, Storable(facts), Chained(facts),
           NEW rows \in Seq(FactRow), Storable(rows), Len(rows) >= Len(facts),
           \A id \in Ids : SameClaim(rows[id], facts[id]),
           \A id \in 1..Len(rows) : rows[id].to # rows[id].from,
           NEW j \in Ids, facts[j].supersedes # 0
    PROVE  LET i == facts[j].supersedes
           IN  /\ i \in Ids /\ i # j /\ SameLineage(rows[i], rows[j])
               /\ rows[i].from < rows[j].from
               /\ rows[i].to # NULL /\ rows[i].to <= rows[j].from
<1> DEFINE i == facts[j].supersedes
<1>1. /\ i \in Ids /\ SameLineage(facts[i], facts[j])
      /\ facts[i].to # NULL /\ facts[i].to <= facts[j].from /\ facts[i].to # facts[i].from
    BY DEF Chained, Ids
<1> HIDE DEF i
<1>2. /\ Len(facts) \in Nat /\ facts[i] \in FactRow /\ facts[j] \in FactRow
      /\ i \in 1..Len(rows) /\ j \in 1..Len(rows)
    <2>1. Len(facts) \in Nat /\ Len(rows) \in Nat
        BY Rows
    <2> QED
        BY <1>1, <2>1, Rows DEF Ids
<1>3. facts[i].from < facts[j].from
    <2>1. RowChecks(facts[i])
        BY <1>1 DEF Storable, Ids
    <2>2. /\ facts[i].from \in Nat /\ facts[j].from \in Nat /\ facts[i].to \in Nat
        BY <1>1, <1>2 DEF FactRow
    <2> QED
        BY <1>1, <2>1, <2>2 DEF RowChecks
<1>4. i # j
    <2>1. facts[j].from \in Nat
        BY <1>2 DEF FactRow
    <2> QED
        BY <1>3, <2>1
<1>5. rows[i].from < rows[j].from /\ SameLineage(rows[i], rows[j])
    BY <1>1, <1>3 DEF SameClaim, SameLineage
<1>6. rows[i].to # NULL /\ rows[i].to <= rows[j].from
    BY <1>2, <1>4, <1>5, Apart
<1> QED
    BY <1>1, <1>4, <1>5, <1>6 DEF i

\* Every commit leaves chains.
LEMMA ChainedStep ==
    ASSUME Shapes, Storable(facts), Chained(facts), Storable(facts'), NEW now \in Nat,
           \A id \in Ids : facts[id].from # now,
           Inserts(now) \/ Judges \/ Retires(now)
    PROVE  Chained(facts)'
<1>1. /\ facts' \in Seq(FactRow)
      /\ \A id \in Ids : id \in Ids' /\ SameClaim(facts'[id], facts[id])
    BY ClaimsStay
<1>2. /\ Len(facts) \in Nat /\ Len(facts') \in Nat /\ NULL \notin Nat
      /\ \A id \in Ids : facts[id] \in FactRow /\ facts[id].from \in Nat
    BY <1>1, Rows, NullAssumption DEF FactRow
<1>3. \A id \in Ids : facts[id].to # facts[id].from
    BY DEF Chained, Ids
<1>4. CASE Judges \/ Retires(now)
    <2>1. Len(facts') = Len(facts)
        BY <1>4 DEF Judges, Retires
    <2>2. \A id \in Ids : facts'[id].to \in {facts[id].to, now}
        BY <1>4 DEF Judges, Retires
    <2>3. \A id \in 1..Len(facts') : facts'[id].to # facts'[id].from
        BY <1>1, <1>3, <2>1, <2>2 DEF SameClaim, Ids
    <2>4. ASSUME NEW j \in Ids, facts'[j].supersedes # 0
          PROVE  LET i == facts'[j].supersedes
                 IN  /\ i \in Ids /\ SameLineage(facts'[i], facts'[j])
                     /\ facts'[i].to # NULL /\ facts'[i].to <= facts'[j].from
        <3>1. facts'[j].supersedes = facts[j].supersedes
            BY <1>1 DEF SameClaim
        <3>2. Len(facts') >= Len(facts)
            BY <1>2, <2>1
        <3>3. LET i == facts[j].supersedes
              IN  /\ i \in Ids /\ SameLineage(facts'[i], facts'[j])
                  /\ facts'[i].to # NULL /\ facts'[i].to <= facts'[j].from
            BY <1>1, <2>3, <2>4, <3>1, <3>2, ChainKept
        <3> QED
            BY <3>1, <3>3
    <2>5. \A i, j \in Ids :
            i # j /\ facts'[i].supersedes = facts'[j].supersedes => facts'[i].supersedes = 0
        BY <1>1 DEF Chained, SameClaim, Ids
    <2> QED
        BY <2>1, <2>3, <2>4, <2>5 DEF Chained, Ids
<1>5. CASE Inserts(now)
    <2>1. PICK l \in Ids \cup {0}, new \in FactRow :
            /\ l # 0 => SameLineage(facts[l], new)
            /\ new.from = now /\ new.to = NULL /\ new.supersedes = l
            /\ Len(facts') = Len(facts) + 1 /\ facts'[Len(facts) + 1] = new
            /\ \A id \in Ids : facts'[id] = IF id = l THEN Ended(facts[id], now) ELSE facts[id]
        BY <1>5 DEF Inserts
    <2>2. PICK n : n = Len(facts) + 1
        OBVIOUS
    <2>3. /\ 1..Len(facts') = Ids \cup {n} /\ n \notin Ids /\ facts'[n] = new /\ 0 \notin Ids
          /\ n \in Nat
        BY <1>2, <2>1, <2>2 DEF Ids
    <2>4. l # 0 => l \in Ids /\ facts'[l].to = now
        <3>1. ASSUME l # 0
              PROVE  l \in Ids /\ facts'[l].to = now
            <4>1. l \in Ids /\ facts'[l] = Ended(facts[l], now)
                BY <2>1, <3>1
            <4>2. Ended(facts[l], now).to = now
                BY <1>2, <4>1, EndedRow
            <4> QED
                BY <4>1, <4>2
        <3> QED
            BY <3>1
    <2>5. \A id \in 1..Len(facts') : facts'[id].to # facts'[id].from
        <3>1. ASSUME NEW id \in Ids
              PROVE  facts'[id].to # facts'[id].from
            <4>1. facts'[id].to = now \/ facts'[id].to = facts[id].to
                <5>1. CASE id = l
                    BY <2>3, <2>4, <5>1
                <5>2. CASE id # l
                    BY <2>1, <5>2
                <5> QED
                    BY <5>1, <5>2
            <4>2. facts'[id].from = facts[id].from
                BY <1>1 DEF SameClaim
            <4> QED
                BY <1>3, <4>1, <4>2
        <3> QED
            BY <1>2, <2>1, <2>3, <3>1
    <2>6. ASSUME NEW j \in Ids, facts'[j].supersedes # 0
          PROVE  LET i == facts'[j].supersedes
                 IN  /\ i \in Ids /\ i # j /\ SameLineage(facts'[i], facts'[j])
                     /\ facts'[i].from < facts'[j].from
                     /\ facts'[i].to # NULL /\ facts'[i].to <= facts'[j].from
        <3>1. facts'[j].supersedes = facts[j].supersedes
            BY <1>1 DEF SameClaim
        <3>2. Len(facts') >= Len(facts)
            BY <1>2, <2>1
        <3>3. LET i == facts[j].supersedes
              IN  /\ i \in Ids /\ i # j /\ SameLineage(facts'[i], facts'[j])
                  /\ facts'[i].from < facts'[j].from
                  /\ facts'[i].to # NULL /\ facts'[i].to <= facts'[j].from
            BY <1>1, <2>5, <2>6, <3>1, <3>2, ChainKept
        <3> QED
            BY <3>1, <3>3
    <2>7. ASSUME l # 0
          PROVE  /\ SameLineage(facts'[l], new) /\ facts'[l].to # NULL
                 /\ facts'[l].to <= new.from
        BY <1>1, <1>2, <2>1, <2>4, <2>7 DEF SameClaim, SameLineage
    \* A claim that already supersedes l would start after the new one, which
    \* is still open.
    <2>8. ASSUME NEW j \in Ids, l # 0, facts'[j].supersedes = l
          PROVE  FALSE
        <3>1. now <= facts'[j].from
            BY <2>4, <2>6, <2>8
        <3>2. facts'[j].from \in Nat /\ facts'[j].from # now
            BY <1>1, <1>2 DEF SameClaim
        <3>3. new.from < facts'[j].from
            BY <2>1, <3>1, <3>2
        <3>4. SameLineage(facts'[n], facts'[j])
            <4>1. SameLineage(facts'[l], facts'[j]) /\ SameLineage(facts'[l], new)
                BY <2>6, <2>7, <2>8
            <4> QED
                BY <2>3, <4>1 DEF SameLineage
        <3>5. n \in 1..Len(facts') /\ j \in 1..Len(facts') /\ n # j
            BY <2>3
        <3>6. facts'[n].to # NULL
            BY <1>1, <2>3, <2>5, <3>3, <3>4, <3>5, Apart
        <3> QED
            BY <2>1, <2>3, <3>6
    <2>9. \A i, j \in Ids :
            i # j /\ facts'[i].supersedes = facts'[j].supersedes => facts'[i].supersedes = 0
        BY <1>1 DEF Chained, SameClaim, Ids
    <2>10. \A i, j \in 1..Len(facts') :
             i # j /\ facts'[i].supersedes = facts'[j].supersedes => facts'[i].supersedes = 0
        BY <2>1, <2>3, <2>8, <2>9
    <2>11. \A j \in 1..Len(facts') :
             LET i == facts'[j].supersedes
             IN  i # 0 => /\ i \in 1..Len(facts')
                          /\ SameLineage(facts'[i], facts'[j])
                          /\ facts'[i].to # NULL /\ facts'[i].to <= facts'[j].from
        <3>1. ASSUME NEW j \in 1..Len(facts'), facts'[j].supersedes # 0
              PROVE  LET i == facts'[j].supersedes
                     IN  /\ i \in 1..Len(facts')
                         /\ SameLineage(facts'[i], facts'[j])
                         /\ facts'[i].to # NULL /\ facts'[i].to <= facts'[j].from
            <4>1. CASE j \in Ids
                BY <2>3, <2>6, <3>1, <4>1
            <4>2. CASE j = n
                BY <2>1, <2>3, <2>4, <2>7, <3>1, <4>2
            <4> QED
                BY <2>3, <4>1, <4>2
        <3> QED
            BY <3>1
    <2> QED
        BY <2>5, <2>10, <2>11 DEF Chained
<1> QED
    BY <1>4, <1>5

-----------------------------------------------------------------------------
(* The invariant *)

LEMMA InitHolds ==
    ASSUME Init
    PROVE  IInv
<1>1. PICK h \in Histories : facts = h.facts /\ attestations = h.attestations
    BY DEF Init
<1>2. /\ facts \in Seq(FactRow) /\ attestations \in Seq(AttestationRow)
      /\ Storable(facts) /\ Attested(facts, attestations) /\ Chained(facts)
      /\ \A id \in Ids : facts[id].from <= Len(facts)
    BY <1>1, HistoriesAssumption DEF Ids
<1>3. Len(facts) \in Nat /\ clock = 1 + Len(facts)
    BY <1>2 DEF Init
<1>4. req = [r \in Requests |-> Idle] /\ Idle.at = "idle" /\ Idle \in RequestShape
    BY DEF Init, Idle, RequestShape, Seen, Answers
<1>5. Shapes
    BY <1>2, <1>3, <1>4 DEF Shapes
<1>6. \A id \in Ids : facts[id].from < clock
    <2>1. \A id \in Ids : facts[id].from \in Nat
        BY <1>5, Rows DEF FactRow
    <2> QED
        BY <1>2, <1>3, <2>1
<1>7. \A r \in Requests : req[r].at \notin Working
    BY <1>4 DEF Working
<1> QED
    BY <1>2, <1>5, <1>6, <1>7 DEF IInv, ReadsHold, ClocksHold, Working

\* Every step keeps the invariant.
LEMMA StepHolds ==
    ASSUME IInv, [Next]_vars
    PROVE  IInv'
<1>1. Shapes' /\ ReadsHold' /\ ClocksHold'
    BY RequestsStep
<1>2. CASE UNCHANGED <<facts, attestations>>
    <2>1. /\ Storable(facts)' = Storable(facts) /\ Chained(facts)' = Chained(facts)
          /\ Attested(facts, attestations)' = Attested(facts, attestations)
        BY <1>2
    <2> QED
        BY <1>1, <2>1 DEF IInv
<1>3. ASSUME NEW r \in Requests, Storable(facts'), req[r].at = "read",
             Inserts(req[r].now) \/ Judges \/ Retires(req[r].now)
      PROVE  IInv'
    <2>1. /\ Shapes /\ Storable(facts) /\ Attested(facts, attestations) /\ Chained(facts)
        BY DEF IInv
    <2>2. /\ req[r].now \in Nat
          /\ \A id \in Ids : facts[id].from # req[r].now
        BY <1>3, Rows DEF IInv, ClocksHold, Working, RequestShape
    <2>3. Attested(facts, attestations)'
        BY <1>3, <2>1, <2>2, InsertionAttested, JudgementAttested, RetirementAttested
    <2>4. Chained(facts)'
        BY <1>3, <2>1, <2>2, ChainedStep
    <2> QED
        BY <1>1, <1>3, <2>3, <2>4 DEF IInv
<1>4. ASSUME NEW r \in Requests, Begin(r) \/ Read(r) \/ Commit(r)
      PROVE  IInv'
    BY <1>2, <1>3, <1>4, RequestSteps
<1>5. CASE UNCHANGED vars
    BY <1>2, <1>5 DEF vars
<1> QED
    BY <1>4, <1>5 DEF Next

\* What a request read is still what it writes from: the invariant holds in
\* every reachable state (services/fact.py, one READ COMMITTED transaction per
\* request).
THEOREM Invariance == Spec => []IInv
<1>1. Init => IInv
    BY InitHolds
<1>2. IInv /\ [Next]_vars => IInv'
    BY StepHolds
<1> QED
    BY <1>1, <1>2, PTL DEF Spec

\* A claim holds no standing, and names no principal for it, that the newest
\* attestation about it did not give, however many verifications, revocations
\* and retirements overlap (services/fact.py:232-330).
THEOREM StandingIsAttested == Spec => []AuthorityIsAttested
<1>1. ASSUME IInv
      PROVE  AuthorityIsAttested
    <2>1. ASSUME NEW id \in Ids, IsAuthoritative(facts[id])
          PROVE  /\ \E n \in 1..Len(attestations) :
                       /\ attestations[n].fact = id
                       /\ attestations[n].becomes = facts[id].status
                       /\ attestations[n].by = AttributedTo(facts[id])
                 /\ attestations[LastWord(id)].becomes = facts[id].status
        <3>1. StandingOf(id) /\ RowChecks(facts[id]) /\ Len(attestations) \in Nat
            BY <1>1, <2>1, AttestedOf, Rows DEF IInv, Storable, Ids
        <3>2. facts[id].status \in {"VERIFIED", "APPROVED"}
            BY <2>1 DEF IsAuthoritative, Authoritative
        <3>3. \E n \in 1..Len(attestations) :
                 /\ attestations[n].fact = id
                 /\ attestations[n].becomes = facts[id].status
                 /\ attestations[n].by = AttributedTo(facts[id])
            <4>1. CASE facts[id].status = "VERIFIED"
                BY <3>1, <4>1 DEF StandingOf, RowChecks, Said, AttributedTo
            <4>2. CASE facts[id].status = "APPROVED"
                BY <3>1, <4>2 DEF StandingOf, RowChecks, Said, AttributedTo
            <4> QED
                BY <3>2, <4>1, <4>2
        <3>4. attestations[LastWord(id)].becomes = facts[id].status
            <4> DEFINE about == {n \in 1..Len(attestations) : attestations[n].fact = id}
            <4>1. PICK n \in about :
                     /\ attestations[n].becomes = facts[id].status
                     /\ \A m \in about : m <= n
                BY <2>1, <3>1 DEF StandingOf, Said
            <4>2. LastWord(id) \in about /\ \A m \in about : m <= LastWord(id)
                BY <4>1 DEF LastWord
            <4>3. LastWord(id) = n
                BY <3>1, <4>1, <4>2
            <4> QED
                BY <4>1, <4>3
        <3> QED
            BY <3>3, <3>4
    <2> QED
        BY <2>1 DEF AuthorityIsAttested
<1> QED
    BY <1>1, Invariance, PTL

\* One source's claims never branch, overlap or run backwards, though a
\* superseding call closes a claim it read before others closed it
\* (services/fact.py:90-190, the exclusion and the unique constraints).
THEOREM LineagesAreChains == Spec => []LineageIsAChain
<1>1. ASSUME IInv
      PROVE  LineageIsAChain
    <2>1. ASSUME NEW i \in Ids, NEW j \in Ids
          PROVE  /\ facts[j].supersedes = i =>
                       /\ ~Live(i)
                       /\ facts[i].to <= facts[j].from
                       /\ SameLineage(facts[i], facts[j])
                 /\ i # j =>
                       /\ facts[i].supersedes = facts[j].supersedes => facts[i].supersedes = 0
                       /\ SameLineage(facts[i], facts[j]) => ~Overlap(facts[i], facts[j])
        <3>1. i # 0
            BY <1>1, Rows DEF IInv, Ids
        <3>2. facts[j].supersedes = i =>
                  ~Live(i) /\ facts[i].to <= facts[j].from /\ SameLineage(facts[i], facts[j])
            BY <1>1, <3>1 DEF IInv, Chained, Ids, Live
        <3>3. i # j => /\ facts[i].supersedes = facts[j].supersedes => facts[i].supersedes = 0
                       /\ SameLineage(facts[i], facts[j]) => ~Overlap(facts[i], facts[j])
            BY <1>1 DEF IInv, Chained, Storable, OneClaimAtATime, Ids
        <3> QED
            BY <3>2, <3>3
    <2> QED
        BY <2>1 DEF LineageIsAChain
<1> QED
    BY <1>1, Invariance, PTL

-----------------------------------------------------------------------------
(* The effective value *)

\* A function takes finitely many elements to finitely many.
LEMMA FiniteImage ==
    ASSUME NEW S, IsFiniteSet(S), NEW f, DOMAIN f = S, f = [x \in S |-> f[x]]
    PROVE  IsFiniteSet({f[x] : x \in S})
<1> DEFINE T == {f[x] : x \in S}
<1>1. f \in Surjection(S, T)
    BY DEF Surjection
<1> HIDE DEF T
<1>2. IsFiniteSet(T)
    BY <1>1, FS_Surjection
<1> QED
    BY <1>2 DEF T

\* An inference holds no authority, so what is effective looks at the rest.
LEMMA InferencesHaveNoSay ==
    ASSUME NEW rows, \A row \in rows : Inferred(row) => ~IsAuthoritative(row),
           NEW voters, voters = {row \in rows : ~Inferred(row)}
    PROVE  effective(rows) = effective(voters)
<1>1. {row \in rows : IsAuthoritative(row)} = {row \in voters : IsAuthoritative(row)}
    OBVIOUS
<1>2. {row \in voters : ~Inferred(row)} = voters
    OBVIOUS
<1> DEFINE authoritative == {row \in rows : IsAuthoritative(row)}
           said == {Summary[row.value] : row \in voters}
<1>3. effective(rows) =
        CASE Cardinality(authoritative) = 1 ->
               [basis |-> "AUTHORITATIVE_SINGLE",
                says |-> {Summary[row.value] : row \in authoritative}]
          [] Cardinality(authoritative) # 1 /\ Cardinality(said) = 1 ->
               [basis |-> "UNANIMOUS", says |-> said]
          [] OTHER -> [basis |-> "UNRESOLVED", says |-> {}]
    BY Zenon DEF effective
<1>4. effective(voters) =
        CASE Cardinality(authoritative) = 1 ->
               [basis |-> "AUTHORITATIVE_SINGLE",
                says |-> {Summary[row.value] : row \in authoritative}]
          [] Cardinality(authoritative) # 1 /\ Cardinality(said) = 1 ->
               [basis |-> "UNANIMOUS", says |-> said]
          [] OTHER -> [basis |-> "UNRESOLVED", says |-> {}]
    BY <1>1, <1>2, Zenon DEF effective
<1> QED
    BY <1>3, <1>4

\* The rows of a set that someone speaks in and nobody contradicts have an
\* effective value.
LEMMA AgreementIsEffective ==
    ASSUME NEW rows, IsFiniteSet(rows), ~Conflicting(rows),
           \E row \in rows : ~Inferred(row)
    PROVE  effective(rows).basis # "UNRESOLVED"
<1> DEFINE authoritative == {row \in rows : IsAuthoritative(row)}
           voters == {row \in rows : ~Inferred(row)}
           said == {Summary[row.value] : row \in voters}
           all == {Summary[row.value] : row \in rows}
<1>1. IsFiniteSet(all) /\ Cardinality(all) \in Nat
    <2> DEFINE f == [row \in rows |-> Summary[row.value]]
    <2>1. all = {f[row] : row \in rows}
        OBVIOUS
    <2>2. DOMAIN f = rows /\ f = [row \in rows |-> f[row]]
        OBVIOUS
    <2> HIDE DEF f, all
    <2>3. IsFiniteSet(all)
        BY <2>1, <2>2, FiniteImage
    <2> QED
        BY <2>3, FS_CardinalityType
<1>2. said \subseteq all /\ said # {}
    OBVIOUS
<1>3. IsFiniteSet(said) /\ Cardinality(said) \in Nat /\ Cardinality(said) <= Cardinality(all)
    BY <1>1, <1>2, FS_Subset, FS_CardinalityType
<1>4. Cardinality(said) # 0
    BY <1>2, <1>3, FS_EmptySet
<1>5. Cardinality(all) <= 1
    BY <1>1 DEF Conflicting
<1>6. Cardinality(said) = 1
    BY <1>1, <1>3, <1>4, <1>5
<1> HIDE DEF said, authoritative
<1>7. effective(rows) =
        CASE Cardinality(authoritative) = 1 ->
               [basis |-> "AUTHORITATIVE_SINGLE",
                says |-> {Summary[row.value] : row \in authoritative}]
          [] Cardinality(authoritative) # 1 /\ Cardinality(said) = 1 ->
               [basis |-> "UNANIMOUS", says |-> said]
          [] OTHER -> [basis |-> "UNRESOLVED", says |-> {}]
    BY Zenon DEF effective, said, authoritative
<1>8. CASE Cardinality(authoritative) = 1
    BY <1>7, <1>8
<1>9. CASE Cardinality(authoritative) # 1
    BY <1>6, <1>7, <1>9
<1> QED
    BY <1>8, <1>9

\* What models say among themselves changes nothing that is reported as
\* current, and a value nobody contradicts is reported
\* (services/fact.py:332-420).
THEOREM InferencesDoNotEcho == Spec => []EchoIsNoCorroboration
<1>1. ASSUME IInv
      PROVE  EchoIsNoCorroboration
    <2>1. ASSUME NEW kind \in FactKind
          PROVE  LET rows == LiveRows(kind)
                     voters == {row \in rows : ~Inferred(row)}
                 IN  /\ effective(rows) = effective(voters)
                     /\ voters # {} /\ ~Conflicting(rows) =>
                           effective(rows).basis # "UNRESOLVED"
        <3> DEFINE rows == LiveRows(kind)
                   ids == {i \in Ids : Live(i) /\ facts[i].kind = kind}
        <3>1. \A row \in rows : Inferred(row) => ~IsAuthoritative(row)
            BY <1>1 DEF IInv, Storable, RowChecks, LiveRows, Ids
        <3>2. IsFiniteSet(rows)
            <4>1. IsFiniteSet(Ids)
                BY <1>1, Rows, FS_Interval DEF IInv, Ids
            <4>2. IsFiniteSet(ids)
                BY <4>1, FS_Subset
            <4> DEFINE f == [id \in ids |-> facts[id]]
            <4>3. rows = {f[id] : id \in ids}
                BY DEF LiveRows
            <4>4. DOMAIN f = ids /\ f = [id \in ids |-> f[id]]
                OBVIOUS
            <4> HIDE DEF rows, ids, f
            <4> QED
                BY <4>2, <4>3, <4>4, FiniteImage
        <3> HIDE DEF rows
        <3>3. effective(rows) = effective({row \in rows : ~Inferred(row)})
            BY <3>1, InferencesHaveNoSay
        <3>4. {row \in rows : ~Inferred(row)} # {} /\ ~Conflicting(rows) =>
                effective(rows).basis # "UNRESOLVED"
            BY <3>2, AgreementIsEffective
        <3> QED
            BY <3>3, <3>4 DEF rows
    <2> QED
        BY <2>1 DEF EchoIsNoCorroboration
<1> QED
    BY <1>1, Invariance, PTL

=============================================================================
