-------------------------- MODULE KnowledgeIngest --------------------------
(***************************************************************************)
(* Ingesting documents of one source under one external reference, while   *)
(* the source and its documents are retired or reclassified.               *)
(*                                                                         *)
(* An ingest is one request. Its attempt row is written on a transaction   *)
(* of its own and stays when the request rolls back; the source, the       *)
(* document and the dispositions are read by separate statements of the    *)
(* request's READ COMMITTED transaction; the provider is called in the     *)
(* middle of it; and the document, the version, its vectors and the        *)
(* attempt's final state are committed together at the end. Nothing is     *)
(* locked in between: what two ingests of one reference may do to each     *)
(* other is settled by the unique indexes alone, and nothing settles what  *)
(* an ingest and a retirement or a reclassification do. A request whose    *)
(* process or connection is lost is one that takes no further step: all it *)
(* holds is its transaction, and its attempt row is left as it stands.     *)
(*                                                                         *)
(* A content is a record: its bytes (raw), what normalise() makes of them  *)
(* (text), the blocking matches the screen finds in it (secrets), whether  *)
(* its media type and size are accepted (valid) and whether every chunk    *)
(* fits the model's input (fits). The vectors of a version live and die    *)
(* together, so a version carries the two columns they copy.               *)
(***************************************************************************)
EXTENDS Naturals, FiniteSets, Sequences

CONSTANTS
  Requests,        \* ingest requests, one attempt each
  Contents,        \* what may be submitted
  Sensitivities,   \* the classifications a source may have
  MaxDispositions  \* bound on the judgements recorded

VARIABLES
  source,        \* the source row: lifecycle and sensitivity
  docs,          \* document rows, in order of insertion
  versions,      \* version rows with the state of their vectors
  attempts,      \* request -> its attempt row, or NoAttempt
  dispositions,  \* disposition rows in order of decided_at
  verified,      \* is the space's prefix_verified_at set?
  req            \* request -> what it is doing and what it has read

vars == <<source, docs, versions, attempts, dispositions, verified, req>>

Outcomes == {"PENDING", "REJECTED_SECRET", "REJECTED_INVALID",
             "FAILED_EMBEDDING", "UNCHANGED", "UNCHANGED_TEXT",
             "CREATED", "VERSIONED"}

Verdicts == {"FALSE_POSITIVE", "REMEDIATED_AT_SOURCE"}

Unblocking == {"FALSE_POSITIVE"}

Lifecycles == {"ACTIVE", "RETIRED"}

NoAttempt == [outcome |-> "NONE"]

\* Positions in docs and versions; 0 stands for NULL.
Docs     == DOMAIN docs
Versions == DOMAIN versions

(* The rows, with the columns the program decides by. *)

SourceRow   == [life : Lifecycles, sens : Sensitivities]
DocumentRow == [life : Lifecycles, current : Versions]
VersionRow  == [doc : Docs, no : Nat \ {0}, content : Contents,
                supersedes : 0 .. Len(versions), superseded : BOOLEAN,
                attempt : Requests, retrievable : BOOLEAN, sens : Sensitivities]
DispositionRow ==
  [content : Contents, secret : UNION {c.secrets : c \in Contents}, verdict : Verdicts]

\* An attempt row and its blocking findings, with the table's CHECK: it names a
\* version exactly when it was successful.
AttemptRow(a) ==
  /\ a.content \in Contents /\ a.outcome \in Outcomes
  /\ a.findings \subseteq a.content.secrets
  /\ a.outcome \in {"CREATED", "VERSIONED"} <=> a.version \in Versions

ContentOf(r) == attempts[r].content
VersionsOf(d) == {v \in Versions : versions[v].doc = d}

----------------------------------------------------------------------------
(* Reading *)

\* _find_document: the ACTIVE document of the reference, 0 when there is none.
ActiveDocument ==
  LET active == {d \in Docs : docs[d].life = "ACTIVE"}
  IN  IF active = {} THEN 0 ELSE CHOOSE d \in active : TRUE

CurrentVersion(d) == IF d = 0 THEN 0 ELSE docs[d].current

\* A ruling on match k of content c.
About(e, c, k) == e.content = c /\ e.secret = k

\* Mutant: clears a fingerprint wherever it was judged.
ClearedAnywhere(c) ==
  {k \in c.secrets :
     \E i \in DOMAIN dispositions :
       /\ dispositions[i].secret = k /\ dispositions[i].verdict \in Unblocking
       /\ \A j \in DOMAIN dispositions : dispositions[j].secret = k => j <= i}

\* _cleared_fingerprints: the latest judgement of each fingerprint, for these
\* exact bytes.
Cleared(c) ==
  {k \in c.secrets :
     \E i \in DOMAIN dispositions :
       /\ About(dispositions[i], c, k) /\ dispositions[i].verdict \in Unblocking
       /\ \A j \in DOMAIN dispositions : About(dispositions[j], c, k) => j <= i}

\* Mutant: only the bytes are compared.
UnchangedBytes(c, v) ==
  IF v # 0 /\ versions[v].content.raw = c.raw THEN "UNCHANGED" ELSE "NO"

\* The two no-op tests: the same bytes, then the same text.
Unchanged(c, v) ==
  IF v = 0 THEN "NO"
  ELSE IF versions[v].content.raw = c.raw THEN "UNCHANGED"
  ELSE IF versions[v].content.text = c.text THEN "UNCHANGED_TEXT"
  ELSE "NO"

----------------------------------------------------------------------------
(* Bookkeeping of an attempt *)

\* _open_attempt commits on a transaction of its own.
Pending(c) ==
  [content |-> c, outcome |-> "PENDING", version |-> 0, findings |-> {}]

\* A request that holds nothing it has read.
At(pc) == [pc |-> pc, verified |-> FALSE, sens |-> "NONE", doc |-> 0, current |-> 0]

\* _close_attempt, again on a transaction of its own: the request ends here,
\* with the findings it is closed with.
Close(r, outcome, findings) ==
  /\ attempts' = [attempts EXCEPT ![r].outcome = outcome,
                                  ![r].findings = findings]
  /\ req' = [req EXCEPT ![r] = At("done")]
  /\ UNCHANGED <<source, docs, versions, dispositions, verified>>

Advance(r, now) ==
  /\ req' = [req EXCEPT ![r] = now]
  /\ UNCHANGED <<source, docs, versions, attempts, dispositions, verified>>

----------------------------------------------------------------------------
(* One ingest *)

\* The route has the space, the service opens the attempt.
Open(r, c) ==
  /\ req[r].pc = "idle"
  /\ attempts' = [attempts EXCEPT ![r] = Pending(c)]
  /\ req' = [req EXCEPT ![r].pc = "opened", ![r].verified = verified]
  /\ UNCHANGED <<source, docs, versions, dispositions, verified>>

\* The source is loaded once; its sensitivity is the one the vectors get.
TakeSource(r) ==
  /\ req[r].pc = "opened"
  /\ source.life = "ACTIVE" /\ ContentOf(r).valid
  /\ Advance(r, [req[r] EXCEPT !.pc = "sourced", !.sens = source.sens])

\* source_retired, unsupported_media_type, document_too_large.
RefuseSubmission(r) ==
  /\ req[r].pc = "opened"
  /\ source.life # "ACTIVE" \/ ~ContentOf(r).valid
  /\ Close(r, "REJECTED_INVALID", {})

FindDocument(r) ==
  LET d == ActiveDocument
      v == CurrentVersion(d)
      same == Unchanged(ContentOf(r), v)
  IN  /\ req[r].pc = "sourced"
      /\ IF same = "NO"
         THEN Advance(r, [req[r] EXCEPT !.pc = "found", !.doc = d, !.current = v])
         ELSE Close(r, same, {})

\* The persistence security gate, the prefix gate and the size gate, in the
\* order the service asks them.
Gate(r) ==
  LET c == ContentOf(r)
  IN  /\ req[r].pc = "found"
      /\ IF c.secrets \ Cleared(c) # {} THEN Close(r, "REJECTED_SECRET", c.secrets)
         ELSE IF ~req[r].verified \/ ~c.fits
              THEN Close(r, "REJECTED_INVALID", c.secrets)
         ELSE Advance(r, [req[r] EXCEPT !.pc = "cleared"])

Embed(r) ==
  /\ req[r].pc = "cleared"
  /\ \/ Advance(r, [req[r] EXCEPT !.pc = "embedded"])
     \/ Close(r, "FAILED_EMBEDDING", ContentOf(r).secrets)

----------------------------------------------------------------------------
(* Persisting *)

NextNumber(r) ==
  IF req[r].current = 0 THEN 1 ELSE versions[req[r].current].no + 1

\* uq_knowledge_document_source_ref: one ACTIVE document per reference.
ReferenceFree(r) == req[r].doc = 0 => ActiveDocument = 0

\* Mutant: uq_document_version_no left out.
NumberFreeAlways(r) == TRUE

\* uq_document_version_no.
NumberFree(r) ==
  \A v \in VersionsOf(req[r].doc) : versions[v].no # NextNumber(r)

\* uq_document_raw_hash: a document never holds the same bytes twice.
BytesFree(r) ==
  \A v \in VersionsOf(req[r].doc) : versions[v].content.raw # ContentOf(r).raw

Storable(r) == ReferenceFree(r) /\ NumberFree(r) /\ BytesFree(r)

\* The closure marker and the retired vectors of the version superseded.
Superseded(v) ==
  IF v = 0 THEN versions
  ELSE [versions EXCEPT ![v].superseded = TRUE, ![v].retrievable = FALSE]

NewVersion(r, d) ==
  [doc |-> d, no |-> NextNumber(r), content |-> ContentOf(r),
   supersedes |-> req[r].current, superseded |-> FALSE, attempt |-> r,
   retrievable |-> TRUE, sens |-> req[r].sens]

\* The outcome a success is closed with.
Success(r) == IF NextNumber(r) = 1 THEN "CREATED" ELSE "VERSIONED"

\* _persist and the attempt's success, in the request's one transaction.
Commit(r) ==
  LET isNew == req[r].doc = 0
      d == IF isNew THEN Len(docs) + 1 ELSE req[r].doc
      v == Len(versions) + 1
  IN  /\ req[r].pc = "embedded"
      /\ Storable(r)
      /\ docs' = IF isNew THEN Append(docs, [life |-> "ACTIVE", current |-> v])
                 ELSE [docs EXCEPT ![d].current = v]
      /\ versions' = Append(Superseded(req[r].current), NewVersion(r, d))
      /\ attempts' = [attempts EXCEPT ![r].outcome = Success(r), ![r].version = v]
      /\ req' = [req EXCEPT ![r] = At("done")]
      /\ UNCHANGED <<source, dispositions, verified>>

\* Mutant: a submission that meets a constraint is closed as if it had been stored.
RefuseAsStored(r) ==
  /\ req[r].pc = "embedded"
  /\ ~Storable(r)
  /\ Close(r, "VERSIONED", {})

\* A unique index refuses the row: the request rolls back and its caller is
\* answered 500. The attempt is not closed.
Refuse(r) ==
  /\ req[r].pc = "embedded"
  /\ ~Storable(r)
  /\ Advance(r, At("refused"))

----------------------------------------------------------------------------
(* The catalog's operations, each one transaction *)

\* _retire_vectors: the vectors of these versions leave retrieval.
WithoutVectorsOf(vs) ==
  [v \in Versions |->
     [versions[v] EXCEPT !.retrievable = versions[v].retrievable /\ v \notin vs]]

\* resync_source_sensitivity, over the vectors there are.
Resynced(s) == [v \in Versions |-> [versions[v] EXCEPT !.sens = s]]

RetireSource ==
  /\ source.life = "ACTIVE"
  /\ source' = [source EXCEPT !.life = "RETIRED"]
  /\ versions' = WithoutVectorsOf(Versions)
  /\ UNCHANGED <<docs, attempts, dispositions, verified, req>>

RetireDocument(d) ==
  /\ docs[d].life = "ACTIVE"
  /\ docs' = [docs EXCEPT ![d].life = "RETIRED"]
  /\ versions' = WithoutVectorsOf(VersionsOf(d))
  /\ UNCHANGED <<source, attempts, dispositions, verified, req>>

Reclassify(s) ==
  /\ source.sens # s
  /\ source' = [source EXCEPT !.sens = s]
  /\ versions' = Resynced(s)
  /\ UNCHANGED <<docs, attempts, dispositions, verified, req>>

\* record_disposition takes its scope from the finding's own attempt.
RecordDisposition(r, k, verdict) ==
  /\ Len(dispositions) < MaxDispositions
  /\ attempts[r] # NoAttempt /\ k \in attempts[r].findings
  /\ dispositions' = Append(dispositions,
       [content |-> ContentOf(r), secret |-> k, verdict |-> verdict])
  /\ UNCHANGED <<source, docs, versions, attempts, verified, req>>

MarkPrefixesVerified ==
  /\ ~verified
  /\ verified' = TRUE
  /\ UNCHANGED <<source, docs, versions, attempts, dispositions, req>>

----------------------------------------------------------------------------
Init ==
  /\ source \in SourceRow /\ source.life = "ACTIVE"
  /\ docs = <<>> /\ versions = <<>> /\ dispositions = <<>>
  /\ attempts = [r \in Requests |-> NoAttempt]
  /\ verified \in BOOLEAN
  /\ req = [r \in Requests |-> At("idle")]

Ingest(r) ==
  \/ \E c \in Contents : Open(r, c)
  \/ TakeSource(r) \/ RefuseSubmission(r) \/ FindDocument(r) \/ Gate(r)
  \/ Embed(r) \/ Commit(r) \/ Refuse(r)

Administer ==
  \/ RetireSource
  \/ \E d \in Docs : RetireDocument(d)
  \/ \E s \in Sensitivities : Reclassify(s)
  \/ \E r \in Requests, verdict \in Verdicts : \E k \in UNION {c.secrets : c \in Contents} :
       RecordDisposition(r, k, verdict)
  \/ MarkPrefixesVerified

Next == (\E r \in Requests : Ingest(r)) \/ Administer

Spec == Init /\ [][Next]_vars

----------------------------------------------------------------------------
(* Properties *)

TypeOK ==
  /\ source \in SourceRow
  /\ \A d \in Docs : docs[d] \in DocumentRow
  /\ \A v \in Versions : versions[v] \in VersionRow
  /\ \A r \in Requests : attempts[r] = NoAttempt \/ AttemptRow(attempts[r])
  /\ \A i \in DOMAIN dispositions : dispositions[i] \in DispositionRow
  /\ verified \in BOOLEAN

\* No version holds a blocking match that an approver has not ruled a false
\* positive for those very bytes, and the ruling was made on a submission of
\* them that the gate had turned away (ingest.py:329-338, catalog.py:337-346).
SecretsWereCleared ==
  \A v \in Versions : \A k \in versions[v].content.secrets :
    /\ \E i \in DOMAIN dispositions :
         dispositions[i] = [content |-> versions[v].content, secret |-> k,
                            verdict |-> "FALSE_POSITIVE"]
    /\ \E r \in Requests :
         /\ attempts[r] # NoAttempt
         /\ ContentOf(r) = versions[v].content
         /\ attempts[r].outcome = "REJECTED_SECRET"

\* An attempt says CREATED or VERSIONED exactly when it has a version, and
\* that version is the one it names, made from its content; every other
\* attempt, finished or not, has left nothing behind (ingest.py:260-272,
\* models/knowledge.py:394-403).
AttemptsTellTheTruth ==
  \A r \in Requests : attempts[r] # NoAttempt =>
    LET made == {v \in Versions : versions[v].attempt = r}
    IN  IF attempts[r].outcome \in {"CREATED", "VERSIONED"}
        THEN LET v == attempts[r].version
             IN  /\ made = {v}
                 /\ versions[v].content = ContentOf(r)
                 /\ attempts[r].outcome = "CREATED" <=> versions[v].no = 1
        ELSE made = {} /\ attempts[r].version = 0

\* However ingests of one reference interleave, each document's versions are
\* numbered without a gap, each supersedes the one before it, the current one
\* is the last and the only one not superseded, no other has vectors in
\* retrieval and it has them while its document and source are active
\* (ingest.py:653-686; nothing but the unique indexes orders them).
OneCurrentVersion ==
  \A d \in Docs :
    LET mine == VersionsOf(d)
        current == docs[d].current
    IN  /\ {versions[v].no : v \in mine} = 1 .. Cardinality(mine)
        /\ versions[current].no = Cardinality(mine)
        /\ {v \in mine : ~versions[v].superseded} = {current}
        /\ {v \in mine : versions[v].retrievable} \subseteq {current}
        /\ source.life = "ACTIVE" /\ docs[d].life = "ACTIVE"
             => versions[current].retrievable
        /\ \A v \in mine : LET before == versions[v].supersedes
             IN  IF versions[v].no = 1 THEN before = 0
                 ELSE before \in mine /\ versions[before].no = versions[v].no - 1

\* Re-encoding a document does not make a version of it: a version and the one
\* it supersedes differ in text, even when they were submitted at once
\* (ingest.py:444-465).
VersionsDifferInText ==
  \A v \in Versions :
    LET before == versions[v].supersedes
    IN  before # 0 => versions[before].content.text # versions[v].content.text

----------------------------------------------------------------------------
(* Statements of the documentation the code does not keep *)

\* "False once its version is superseded or its document or source retired"
\* (models/embedding.py:177). An ingest in flight over the retirement puts
\* new vectors in.
RetiredIsNotRetrievable ==
  \A v \in Versions : versions[v].retrievable =>
    source.life = "ACTIVE" /\ docs[versions[v].doc].life = "ACTIVE"

\* "so the two can never be observed apart" (services/knowledge/spaces.py:245).
\* An ingest in flight over the reclassification copies the old value.
CopiesAgree == \A v \in Versions : versions[v].sens = source.sens

\* An ingest that meets no other ingest and no fault is closed: going back to
\* bytes an earlier version had is refused by uq_document_raw_hash and leaves
\* the attempt PENDING.
LoneAttemptIsClosed ==
  \A r \in Requests :
    req[r].pc = "refused" => \E q \in Requests \ {r} : req[q].pc \notin {"idle", "done"}

=============================================================================
