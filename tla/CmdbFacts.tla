------------------------------ MODULE CmdbFacts ------------------------------
(***************************************************************************)
(* Claims about one predicate of one asset: services/fact.py with the      *)
(* provenance rules, the constraints of asset_fact and the closing of      *)
(* claims when the asset is retired (services/asset.py).  Claims about     *)
(* another asset or predicate share no constraint with these.              *)
(*                                                                         *)
(* Every request is a READ COMMITTED transaction of three steps: it takes  *)
(* its clock reading (Begin), reads rows (Read), and flushes and commits   *)
(* (Commit).  Another request may commit between any two of them.  The     *)
(* object-relational mapper updates by primary key and writes the columns  *)
(* that differ from the values it read, so what was read decides what is   *)
(* written, even over a row that has changed since.                        *)
(***************************************************************************)
EXTENDS Naturals, Sequences, FiniteSets

CONSTANTS
    Requests,       \* request tasks, each serving one call
    Names,          \* sources and principals
    Bodies,         \* the calls they may serve
    Histories,      \* the claims and attestations the system may start from
    Summary,        \* what _summarise renders of each value
    NULL

VARIABLES
    facts,          \* asset_fact rows in insertion order; the id is the index
    attestations,   \* fact_attestation rows in insertion order
    lifecycle,      \* the asset's lifecycle_state
    clock,          \* datetime.now() of the process
    req             \* per request: step, body, clock reading, rows read, answer

vars == <<facts, attestations, lifecycle, clock, req>>

-----------------------------------------------------------------------------
(* Vocabulary *)

SourceType == {"LIVE_DISCOVERY", "CONFIG_FILE", "PROMETHEUS", "MANUAL_ENTRY",
               "DOCUMENTATION", "IMPORT", "AI_INFERENCE"}
FactKind == {"OBSERVED_STATE", "DESIRED_STATE"}
Authoritative == {"VERIFIED", "APPROVED"}
Status == {"DISCOVERED", "OBSERVED", "UNVERIFIED", "STALE"} \cup Authoritative

\* The class of a statement follows from its source; the caller never chooses.
statement_class_for(stype) ==
    CASE stype \in {"LIVE_DISCOVERY", "CONFIG_FILE", "PROMETHEUS"} -> "OBSERVATION"
      [] stype \in {"MANUAL_ENTRY", "DOCUMENTATION", "IMPORT"} -> "FACT"
      [] stype = "AI_INFERENCE" -> "INFERENCE"

default_status_for(stype) ==
    CASE stype \in {"LIVE_DISCOVERY", "CONFIG_FILE"} -> "DISCOVERED"
      [] stype = "PROMETHEUS" -> "OBSERVED"
      [] OTHER -> "UNVERIFIED"

\* FactAssert and DesiredFactCreate: an assertion names its source and never the
\* desired axis; a desired value has no source but the principal who declares it.
WellFormed(b) ==
    \/ /\ b.op = "ASSERT"
       /\ b.src \in Names /\ b.stype \in SourceType /\ b.value \in DOMAIN Summary
    \/ b.op = "DESIRE" /\ b.by \in Names /\ b.value \in DOMAIN Summary
    \/ b.op \in {"VERIFY", "REVOKE"} /\ b.by \in Names /\ b.fact \in Nat
    \/ b.op = "RETIRE"

ASSUME BodiesAssumption == \A b \in Bodies : WellFormed(b)
ASSUME NullAssumption == NULL \notin Names /\ NULL \notin Nat

Inferred(row) == statement_class_for(row.stype) = "INFERENCE"
IsAuthoritative(row) == row.status \in Authoritative

Claim(kind, src, stype, value, status, aby, now, supersedes) ==
    [kind |-> kind, src |-> src, stype |-> stype, value |-> value,
     status |-> status, vby |-> NULL, aby |-> aby,
     from |-> now, to |-> NULL, supersedes |-> supersedes]

FactRow ==
    [kind : FactKind, src : Names, stype : SourceType, value : DOMAIN Summary,
     status : Status, vby : Names \cup {NULL}, aby : Names \cup {NULL},
     from : Nat, to : Nat \cup {NULL}, supersedes : Nat]

Attestation(id, action, was, becomes, by) ==
    [fact |-> id, action |-> action, was |-> was, becomes |-> becomes, by |-> by]

AttestationRow ==
    [fact : Nat, action : {"VERIFY", "REVOKE", "APPROVE"}, was : Status,
     becomes : Status, by : Names]

-----------------------------------------------------------------------------
(* The table and its constraints *)

Ids == 1..Len(facts)
Live(id) == facts[id].to = NULL
SameLineage(a, b) == a.kind = b.kind /\ a.src = b.src

\* CHECK constraints of one row.
RowChecks(row) ==
    /\ Inferred(row) => ~IsAuthoritative(row)
    /\ row.status = "VERIFIED" => row.vby # NULL
    /\ row.status = "APPROVED" => row.aby # NULL
    /\ row.kind = "DESIRED_STATE" => row.status = "APPROVED"
    /\ row.to # NULL => row.to >= row.from

\* Half-open intervals; an open one runs on for ever, an empty one meets none.
Overlap(a, b) ==
    /\ a.to = NULL \/ a.from < a.to
    /\ b.to = NULL \/ b.from < b.to
    /\ b.to = NULL \/ a.from < b.to
    /\ a.to = NULL \/ b.from < a.to

\* Mutant: the keys of both constraints take in the value.
OneClaimPerValue(a, b) ==
    SameLineage(a, b) /\ a.value = b.value => ~Overlap(a, b)

\* ex_asset_fact_no_overlap and uq_asset_fact_live_claim.
OneClaimAtATime(a, b) ==
    SameLineage(a, b) => ~Overlap(a, b) /\ ~(a.to = NULL /\ b.to = NULL)

\* uq_asset_fact_live_authority.
OneAuthorityEach(a, b) ==
    ~(/\ a.kind = b.kind
      /\ a.to = NULL /\ b.to = NULL
      /\ IsAuthoritative(a) /\ IsAuthoritative(b))

Storable(rows) ==
    /\ \A i \in 1..Len(rows) : RowChecks(rows[i])
    /\ \A i, j \in 1..Len(rows) :
          i # j => OneClaimAtATime(rows[i], rows[j]) /\ OneAuthorityEach(rows[i], rows[j])

-----------------------------------------------------------------------------
(* What each call reads *)

\* _live_claim: the live row of this source, 0 when there is none.
LiveClaim(kind, src) ==
    LET found == {id \in Ids : Live(id) /\ facts[id].kind = kind /\ facts[id].src = src}
    IN  IF found = {} THEN 0 ELSE CHOOSE id \in found : TRUE

\* _guard_single_authority.
Incumbent(id) ==
    \E other \in Ids \ {id} : /\ Live(other)
                              /\ facts[other].kind = facts[id].kind
                              /\ IsAuthoritative(facts[other])

\* transition: the refusals, on the row as it is read.
MayTransition(b) ==
    LET row == facts[b.fact] IN
    /\ row.to = NULL
    /\ b.op = "REVOKE" => IsAuthoritative(row)
    /\ b.op = "VERIFY" => ~Inferred(row) /\ ~Incumbent(b.fact)

-----------------------------------------------------------------------------
(* What each call writes, from the rows it read *)

Outcome(rows, atts, life, answer) ==
    [rows |-> rows, atts |-> atts, life |-> life, answer |-> answer]

Superseded(id, now) == IF id = 0 THEN facts ELSE [facts EXCEPT ![id].to = now]

\* assert_fact: touch an equal claim, otherwise close first and insert.
assert_fact(q) ==
    LET b == q.body
        live == q.seen.id
    IN  IF live # 0 /\ q.seen.row.value = b.value
        THEN Outcome(facts, attestations, lifecycle, "TOUCHED")
        ELSE Outcome(Append(Superseded(live, q.now),
                            Claim("OBSERVED_STATE", b.src, b.stype, b.value,
                                  default_status_for(b.stype), NULL, q.now, live)),
                     attestations, lifecycle,
                     IF live = 0 THEN "CREATED" ELSE "SUPERSEDED")

\* create_desired: the caller is source and approver at once.
create_desired(q) ==
    LET b == q.body
        rows == Append(Superseded(q.seen.id, q.now),
                       Claim("DESIRED_STATE", b.by, "MANUAL_ENTRY", b.value,
                             "APPROVED", b.by, q.now, q.seen.id))
    IN  Outcome(rows,
                Append(attestations,
                       Attestation(Len(rows), "APPROVE", "UNVERIFIED", "APPROVED", b.by)),
                lifecycle, "APPROVED")

\* attribution_for: revocation clears what verification and approval set.
attribution_for(b, row) ==
    IF b.op = "VERIFY" THEN [vby |-> b.by, aby |-> row.aby]
                       ELSE [vby |-> NULL, aby |-> NULL]

\* The UPDATE names only the columns whose new value differs from the one read.
Column(stored, read, new) == IF new = read THEN stored ELSE new
Flush(row, read, new) ==
    [row EXCEPT !.status = Column(@, read.status, new.status),
                !.vby = Column(@, read.vby, new.vby),
                !.aby = Column(@, read.aby, new.aby),
                !.to = Column(@, read.to, new.to)]

\* Mutant: a repeated verification is taken for no transition.
transitionUnlessRepeated(q) ==
    LET b == q.body
        read == q.seen.row
        becomes == IF b.op = "VERIFY" THEN "VERIFIED" ELSE default_status_for(read.stype)
        marks == attribution_for(b, read)
        new == [read EXCEPT !.status = becomes, !.vby = marks.vby, !.aby = marks.aby]
    IN  Outcome([facts EXCEPT ![b.fact] = Flush(@, read, new)],
                IF read.status = becomes THEN attestations
                ELSE Append(attestations,
                            Attestation(b.fact, b.op, read.status, becomes, b.by)),
                lifecycle, becomes)

transition(q) ==
    LET b == q.body
        read == q.seen.row
        becomes == IF b.op = "VERIFY" THEN "VERIFIED" ELSE default_status_for(read.stype)
        marks == attribution_for(b, read)
        new == [read EXCEPT !.status = becomes, !.vby = marks.vby, !.aby = marks.aby]
    IN  Outcome([facts EXCEPT ![b.fact] = Flush(@, read, new)],
                Append(attestations,
                       Attestation(b.fact, b.op, read.status, becomes, b.by)),
                lifecycle, becomes)

\* AssetService.retire: close every claim read as live; those without standing
\* are relabelled.
retire(q) ==
    LET closed(row) ==
          [row EXCEPT !.to = q.now, !.status = IF IsAuthoritative(row) THEN @ ELSE "STALE"]
    IN  Outcome([id \in Ids |->
                   IF id \in q.seen.ids
                   THEN Flush(facts[id], q.seen.rows[id], closed(q.seen.rows[id]))
                   ELSE facts[id]],
                attestations, "RETIRED", "RETIRED")

Effect(q) ==
    CASE q.body.op = "ASSERT"  -> assert_fact(q)
      [] q.body.op = "DESIRE"  -> create_desired(q)
      [] q.body.op \in {"VERIFY", "REVOKE"} -> transition(q)
      [] q.body.op = "RETIRE"  -> retire(q)

-----------------------------------------------------------------------------
(* The effective value *)

LiveRows(kind) == {facts[id] : id \in {i \in Ids : Live(i) /\ facts[i].kind = kind}}

\* Mutant: an inference that agrees counts as corroboration.
effectiveByShow(rows) ==
    LET authoritative == {row \in rows : IsAuthoritative(row)}
        said == {Summary[row.value] : row \in rows}
    IN  IF Cardinality(authoritative) = 1
        THEN [basis |-> "AUTHORITATIVE_SINGLE",
              says |-> {Summary[row.value] : row \in authoritative}]
        ELSE IF Cardinality(said) = 1 THEN [basis |-> "UNANIMOUS", says |-> said]
                                      ELSE [basis |-> "UNRESOLVED", says |-> {}]

\* effective(): the one authoritative claim, else what every claim but the
\* inferences says, else nothing.
effective(rows) ==
    LET authoritative == {row \in rows : IsAuthoritative(row)}
        voters == {row \in rows : ~Inferred(row)}
        said == {Summary[row.value] : row \in voters}
    IN  CASE Cardinality(authoritative) = 1 ->
               [basis |-> "AUTHORITATIVE_SINGLE",
                says |-> {Summary[row.value] : row \in authoritative}]
          [] Cardinality(authoritative) # 1 /\ Cardinality(said) = 1 ->
               [basis |-> "UNANIMOUS", says |-> said]
          [] OTHER -> [basis |-> "UNRESOLVED", says |-> {}]

\* conflicts(): live sources disagree, inferences included.
Conflicting(rows) == Cardinality({Summary[row.value] : row \in rows}) > 1

-----------------------------------------------------------------------------
(* Where the system may start: what earlier calls have left *)

\* The newest attestation about a claim that holds authority gave it, and who
\* stands on a row attested just that.
Attested(rows, atts) ==
    /\ \A n \in 1..Len(atts) : atts[n].fact \in 1..Len(rows)
    /\ \A id \in 1..Len(rows) :
          LET row == rows[id]
              said(n, status) == atts[n].fact = id /\ atts[n].becomes = status
          IN  /\ row.status = "APPROVED" => row.kind = "DESIRED_STATE"
              /\ IsAuthoritative(row) =>
                    \E n \in 1..Len(atts) :
                       /\ said(n, row.status)
                       /\ \A m \in 1..Len(atts) : atts[m].fact = id => m <= n
              /\ row.vby # NULL =>
                    \E n \in 1..Len(atts) : said(n, "VERIFIED") /\ atts[n].by = row.vby
              /\ row.aby # NULL =>
                    \E n \in 1..Len(atts) : said(n, "APPROVED") /\ atts[n].by = row.aby

\* No claim is empty, and each replaces at most one that ended before it.
Chained(rows) ==
    /\ \A id \in 1..Len(rows) : rows[id].to # rows[id].from
    /\ \A j \in 1..Len(rows) :
          LET i == rows[j].supersedes
          IN  i # 0 => /\ i \in 1..Len(rows)
                       /\ SameLineage(rows[i], rows[j])
                       /\ rows[i].to # NULL /\ rows[i].to <= rows[j].from
    /\ \A i, j \in 1..Len(rows) :
          i # j /\ rows[i].supersedes = rows[j].supersedes => rows[i].supersedes = 0

ASSUME HistoriesAssumption ==
    \A h \in Histories :
        /\ h.facts \in Seq(FactRow) /\ h.attestations \in Seq(AttestationRow)
        /\ Storable(h.facts) /\ Attested(h.facts, h.attestations) /\ Chained(h.facts)
        /\ \A id \in 1..Len(h.facts) :
              /\ h.facts[id].from <= Len(h.facts)
              /\ h.facts[id].to = NULL \/ h.facts[id].to <= Len(h.facts)

-----------------------------------------------------------------------------
Idle == [at |-> "idle", body |-> NULL, now |-> 0, seen |-> NULL, answer |-> NULL]

Init ==
    /\ \E h \in Histories : facts = h.facts /\ attestations = h.attestations
    /\ lifecycle = "ACTIVE"
    /\ clock = 1 + Len(facts)
    /\ req = [r \in Requests |-> Idle]

\* The handler starts; a call on a claim names one that exists.
Begin(r) ==
    /\ req[r].at = "idle"
    /\ \E b \in Bodies :
          /\ b.op \in {"VERIFY", "REVOKE"} => b.fact \in Ids
          /\ req' = [req EXCEPT ![r].at = "begun", ![r].body = b, ![r].now = clock]
    /\ clock' = clock + 1
    /\ UNCHANGED <<facts, attestations, lifecycle>>

Proceed(r, seen) == req' = [req EXCEPT ![r].at = "read", ![r].seen = seen]
Answer(r, a) == req' = [req EXCEPT ![r].at = "done", ![r].seen = NULL, ![r].answer = a]

\* The rows the call works from.
Found(id) == [id |-> id, row |-> IF id = 0 THEN NULL ELSE facts[id]]

Read(r) ==
    LET b == req[r].body IN
    /\ req[r].at = "begun"
    /\ \/ b.op = "ASSERT" /\ Proceed(r, Found(LiveClaim("OBSERVED_STATE", b.src)))
       \/ b.op = "DESIRE" /\ Proceed(r, Found(LiveClaim("DESIRED_STATE", b.by)))
       \/ /\ b.op \in {"VERIFY", "REVOKE"}
          /\ IF MayTransition(b) THEN Proceed(r, Found(b.fact)) ELSE Answer(r, "CONFLICT")
       \/ /\ b.op = "RETIRE"
          /\ IF lifecycle = "RETIRED"
             THEN Answer(r, "CONFLICT")
             ELSE Proceed(r, [ids |-> {id \in Ids : Live(id)}, rows |-> facts])
    /\ UNCHANGED <<facts, attestations, lifecycle, clock>>

\* Flush and commit, or an integrity error that nothing handles: all rolled back.
Commit(r) ==
    LET out == Effect(req[r]) IN
    /\ req[r].at = "read"
    /\ IF Storable(out.rows)
       THEN /\ facts' = out.rows
            /\ attestations' = out.atts
            /\ lifecycle' = out.life
            /\ Answer(r, out.answer)
       ELSE /\ Answer(r, "ERROR")
            /\ UNCHANGED <<facts, attestations, lifecycle>>
    /\ UNCHANGED clock

Next == \E r \in Requests : Begin(r) \/ Read(r) \/ Commit(r)

Spec == Init /\ [][Next]_vars

-----------------------------------------------------------------------------
(* Properties *)

LastWord(id) ==
    LET about == {n \in 1..Len(attestations) : attestations[n].fact = id}
    IN  CHOOSE n \in about : \A m \in about : m <= n

AttributedTo(row) == IF row.status = "VERIFIED" THEN row.vby ELSE row.aby

\* A claim that holds authority, live or closed, holds the standing the newest
\* attestation about it gave, and the principal on the row attested just that:
\* verifications, revocations and retirements that overlap never leave standing
\* on the row that the immutable lineage does not account for.
AuthorityIsAttested ==
    \A id \in Ids :
        IsAuthoritative(facts[id]) =>
            /\ \E n \in 1..Len(attestations) :
                  /\ attestations[n].fact = id
                  /\ attestations[n].becomes = facts[id].status
                  /\ attestations[n].by = AttributedTo(facts[id])
            /\ attestations[LastWord(id)].becomes = facts[id].status

\* One source's claims form a chain: a claim that names a predecessor starts no
\* earlier than that predecessor stops, no two claims replace the same one, and
\* "what did this source say at t" has at most one answer, whatever overlaps.
LineageIsAChain ==
    \A i, j \in Ids :
        /\ facts[j].supersedes = i =>
              /\ ~Live(i)
              /\ facts[i].to <= facts[j].from
              /\ SameLineage(facts[i], facts[j])
        /\ i # j =>
              /\ facts[i].supersedes = facts[j].supersedes => facts[i].supersedes = 0
              /\ SameLineage(facts[i], facts[j]) => ~Overlap(facts[i], facts[j])

\* Echo is not corroboration: taking every inference away changes neither the
\* value reported as current nor the basis it is reported on; and where anyone
\* but a model speaks, no reported conflict means a reported value.
EchoIsNoCorroboration ==
    \A kind \in FactKind :
        LET rows == LiveRows(kind)
            voters == {row \in rows : ~Inferred(row)}
        IN  /\ effective(rows) = effective(voters)
            /\ voters # {} /\ ~Conflicting(rows) => effective(rows).basis # "UNRESOLVED"

\* "A closed historical claim cannot change trust state; it is already part of
\* the record" (services/fact.py:265).
ClosedClaimsAreFrozen ==
    [][\A id \in Ids : ~Live(id) => facts'[id].status = facts[id].status]_vars

\* "Overwriting a human's VERIFIED standing would erase attribution the row
\* still carries" (services/asset.py:194): retirement takes no standing away.
RetirementSparesStanding ==
    [][lifecycle' # lifecycle =>
          \A id \in Ids : IsAuthoritative(facts[id]) => facts'[id].status = facts[id].status]_vars

=============================================================================
