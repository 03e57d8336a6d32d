-------------------------- MODULE KnowledgeProofs --------------------------
(***************************************************************************)
(* What KnowledgeIngest keeps for any number of ingests, any contents, any *)
(* classifications and any number of rulings; then what DocumentChunking   *)
(* and what KnowledgeRetrieval keep, each introduced where it begins.      *)
(*                                                                         *)
(* An ingest decides by rows it read several statements earlier, while     *)
(* others commit. The invariant therefore says what of the things read is  *)
(* still so when the ingest commits: the document and the version it found *)
(* are rows of one document and the text differs (ReadsHold), what the     *)
(* gate cleared was ruled on (GateHolds), and whatever was ruled on had    *)
(* been turned away first (RulingsHold). Attempts and versions name each   *)
(* other (MadeHolds).                                                      *)
(***************************************************************************)
EXTENDS
  DocumentChunking, KnowledgeIngest, KnowledgeRetrieval, FiniteSetTheorems,
  WellFoundedInduction, TLAPS

Reading  == {"sourced", "found", "cleared", "embedded"}
FoundSteps    == {"found", "cleared", "embedded"}
Steps    == {"idle", "opened", "refused", "done"} \cup Reading
AllSecrets == UNION {c.secrets : c \in Contents}

Successes == {"CREATED", "VERSIONED"}

(* The columns of each table, each by itself.                              *)
DocumentShape == [life : Lifecycles, current : Nat]
VersionShape  ==
  [doc : Nat, no : Nat \ {0}, content : Contents, supersedes : Nat,
   superseded : BOOLEAN, attempt : Requests, retrievable : BOOLEAN,
   sens : Sensitivities]
AttemptShape  ==
  [content : Contents, outcome : Outcomes, version : Nat, findings : SUBSET AllSecrets]
RequestShape  ==
  [pc : Steps, verified : BOOLEAN, sens : Sensitivities \cup {"NONE"}, doc : Nat,
   current : Nat]

Shapes ==
  /\ source \in SourceRow
  /\ docs \in Seq(DocumentShape)
  /\ versions \in Seq(VersionShape)
  /\ dispositions \in Seq(DispositionRow)
  /\ attempts \in [Requests -> AttemptShape \cup {NoAttempt}]
  /\ verified \in BOOLEAN
  /\ req \in [Requests -> RequestShape]
  /\ \A r \in Requests : req[r].pc \in Reading => req[r].sens \in Sensitivities

(* An attempt is opened once, stays PENDING while its request is at work   *)
(* or was refused by the database, and is closed when the request is done. *)
ProgressHolds ==
  \A r \in Requests :
    /\ req[r].pc = "idle" <=> attempts[r] = NoAttempt
    /\ req[r].pc \in {"opened", "refused"} \cup Reading =>
         attempts[r] = Pending(ContentOf(r))
    /\ req[r].pc = "done" => attempts[r].outcome # "PENDING"

(* What FindDocument read is still there, and still another text.          *)
ReadsHold ==
  \A r \in Requests : req[r].pc \in FoundSteps =>
    /\ IF req[r].doc = 0 THEN req[r].current = 0
       ELSE req[r].doc \in Docs /\ req[r].current \in VersionsOf(req[r].doc)
    /\ req[r].current # 0 =>
         versions[req[r].current].content.text # ContentOf(r).text

RuledHarmless(c, k) ==
  \E i \in DOMAIN dispositions :
    dispositions[i] = [content |-> c, secret |-> k, verdict |-> "FALSE_POSITIVE"]

TurnedAway(c) ==
  \E r \in Requests : /\ attempts[r] # NoAttempt
                      /\ ContentOf(r) = c /\ attempts[r].outcome = "REJECTED_SECRET"

GateHolds ==
  \A r \in Requests : req[r].pc \in {"cleared", "embedded"} =>
    \A k \in ContentOf(r).secrets : RuledHarmless(ContentOf(r), k)

(* A ruling is about a finding, and there are findings of a content only   *)
(* after a submission of it was turned away.                               *)
RulingsHold ==
  /\ \A i \in DOMAIN dispositions : TurnedAway(dispositions[i].content)
  /\ \A r \in Requests :
       attempts[r] # NoAttempt =>
         /\ attempts[r].findings \subseteq ContentOf(r).secrets
         /\ attempts[r].findings # {} => TurnedAway(ContentOf(r))

(* Versions and successful attempts are in one-to-one correspondence.      *)
MadeHolds ==
  /\ \A v \in Versions :
       LET a == attempts[versions[v].attempt]
       IN  a # NoAttempt /\ a.outcome \in Successes /\ a.version = v
  /\ \A r \in Requests : attempts[r] # NoAttempt =>
       IF attempts[r].outcome \in Successes
       THEN LET v == attempts[r].version
            IN  /\ v \in Versions /\ versions[v].attempt = r
                /\ versions[v].content = ContentOf(r)
                /\ attempts[r].outcome = "CREATED" <=> versions[v].no = 1
       ELSE attempts[r].version = 0

VersionsHold ==
  \A v \in Versions :
    /\ versions[v].doc \in Docs
    /\ \A k \in versions[v].content.secrets :
         RuledHarmless(versions[v].content, k) /\ TurnedAway(versions[v].content)

(* No two versions of a document have one number (uq_document_version_no). *)
NumbersDiffer ==
  \A v, w \in Versions :
    versions[v].doc = versions[w].doc /\ versions[v].no = versions[w].no => v = w

IInv ==
  /\ Shapes
  /\ ProgressHolds
  /\ ReadsHold
  /\ GateHolds
  /\ RulingsHold
  /\ MadeHolds
  /\ VersionsHold
  /\ NumbersDiffer
  /\ OneCurrentVersion
  /\ VersionsDifferInText

-----------------------------------------------------------------------------
(* Sequences *)

\* A function on an initial segment is a sequence.
LEMMA MappedSequence ==
  ASSUME NEW S, NEW n \in Nat, NEW f \in [1..n -> S]
  PROVE  f \in Seq(S) /\ Len(f) = n /\ DOMAIN f = 1..n
OBVIOUS

\* What DOMAIN and the elements of a sequence are.
LEMMA SequenceRows ==
  ASSUME NEW S, NEW s \in Seq(S)
  PROVE  /\ Len(s) \in Nat /\ DOMAIN s = 1..Len(s) /\ s \in [1..Len(s) -> S]
         /\ \A i \in DOMAIN s : s[i] \in S
OBVIOUS

\* Inserting a row leaves the others where they are.
LEMMA AppendedRow ==
  ASSUME NEW S, NEW s \in Seq(S), NEW e \in S
  PROVE  /\ Append(s, e) \in Seq(S) /\ Len(Append(s, e)) = Len(s) + 1
         /\ DOMAIN Append(s, e) = (DOMAIN s) \cup {Len(s) + 1}
         /\ Len(s) + 1 \notin DOMAIN s
         /\ \A i \in DOMAIN s : Append(s, e)[i] = s[i]
         /\ Append(s, e)[Len(s) + 1] = e
OBVIOUS

\* Updating a row keeps the table's shape.
LEMMA UpdatedRow ==
  ASSUME NEW S, NEW s \in Seq(S), NEW i \in DOMAIN s, NEW e \in S
  PROVE  /\ [s EXCEPT ![i] = e] \in Seq(S)
         /\ DOMAIN [s EXCEPT ![i] = e] = DOMAIN s
         /\ Len([s EXCEPT ![i] = e]) = Len(s)
OBVIOUS

\* Every row has the columns of its table.
LEMMA Rows ==
  ASSUME Shapes
  PROVE  /\ Len(versions) \in Nat /\ Versions = 1..Len(versions)
         /\ Len(docs) \in Nat /\ Docs = 1..Len(docs)
         /\ \A v \in Versions : versions[v] \in VersionShape
         /\ \A d \in Docs : docs[d] \in DocumentShape
         /\ \A i \in DOMAIN dispositions : dispositions[i] \in DispositionRow
         /\ \A r \in Requests : attempts[r] # NoAttempt => attempts[r] \in AttemptShape
         /\ \A r \in Requests : req[r] \in RequestShape
<1>1. /\ versions \in Seq(VersionShape) /\ docs \in Seq(DocumentShape)
      /\ dispositions \in Seq(DispositionRow)
  BY DEF Shapes
<1>2. /\ \A v \in Versions : versions[v] \in VersionShape
      /\ Len(versions) \in Nat /\ Versions = 1..Len(versions)
  BY <1>1, SequenceRows DEF Versions
<1>3. /\ \A d \in Docs : docs[d] \in DocumentShape
      /\ Len(docs) \in Nat /\ Docs = 1..Len(docs)
  BY <1>1, SequenceRows DEF Docs
<1>4. \A i \in DOMAIN dispositions : dispositions[i] \in DispositionRow
  BY <1>1, SequenceRows
<1> QED
  BY <1>2, <1>3, <1>4 DEF Shapes

-----------------------------------------------------------------------------
(* What the steps do *)

\* The steps of an ingest that only advance it or close its attempt.
Quiet(r) ==
  \/ \E c \in Contents : Open(r, c)
  \/ TakeSource(r) \/ RefuseSubmission(r) \/ FindDocument(r) \/ Gate(r)
  \/ Embed(r) \/ Refuse(r)

Tables == <<source, docs, versions, dispositions, verified>>

\* The outcomes an attempt is closed with when nothing was stored.
Unsuccessful == Outcomes \ ({"PENDING"} \cup Successes)

\* A quiet step opens an attempt, goes on, or closes the attempt.
LEMMA QuietSteps ==
  ASSUME Shapes, ProgressHolds, NEW r \in Requests, Quiet(r)
  PROVE  /\ UNCHANGED Tables
         /\ \/ /\ req[r].pc = "idle"
               /\ \E c \in Contents : attempts' = [attempts EXCEPT ![r] = Pending(c)]
               /\ req' = [req EXCEPT ![r].pc = "opened", ![r].verified = verified]
            \/ /\ req[r].pc \in {"opened"} \cup Reading
               /\ \E now \in RequestShape :
                    /\ req' = [req EXCEPT ![r] = now]
                    /\ now.pc \in {"refused"} \cup Reading
                    /\ now.pc \in Reading => now.sens \in Sensitivities
               /\ attempts' = attempts
            \/ /\ req[r].pc \in {"opened"} \cup Reading
               /\ \E outcome \in Unsuccessful, findings \in SUBSET ContentOf(r).secrets :
                    attempts' = [attempts EXCEPT ![r].outcome = outcome,
                                                 ![r].findings = findings]
               /\ req' = [req EXCEPT ![r] = At("done")]
<1> USE DEF Tables
<1>0. req[r] \in RequestShape /\ verified \in BOOLEAN /\ source.sens \in Sensitivities
  BY DEF Shapes, SourceRow
<1>1. CASE \E c \in Contents : Open(r, c)
  BY <1>1 DEF Open
<1>2. CASE TakeSource(r)
  <2>1. [req[r] EXCEPT !.pc = "sourced", !.sens = source.sens] \in RequestShape
    BY <1>0 DEF RequestShape, Steps, Reading
  <2> QED
    BY <1>0, <1>2, <2>1 DEF TakeSource, Advance, Reading, RequestShape
<1>3. CASE RefuseSubmission(r)
  BY <1>3 DEF RefuseSubmission, Close, Unsuccessful, Outcomes, Successes, Reading
<1>4. CASE FindDocument(r)
  <2> DEFINE d == ActiveDocument
             v == CurrentVersion(d)
             same == Unchanged(ContentOf(r), v)
             now == [req[r] EXCEPT !.pc = "found", !.doc = d, !.current = v]
  <2>1. d \in Nat /\ v \in Nat
    <3>1. d \in Docs \cup {0}
      BY DEF ActiveDocument
    <3>2. Docs \subseteq Nat /\ \A e \in Docs : docs[e].current \in Nat
      BY Rows DEF DocumentShape
    <3> QED
      BY <3>1, <3>2 DEF CurrentVersion
  <2>2. now \in RequestShape /\ now.pc = "found" /\ now.sens = req[r].sens
    BY <1>0, <2>1 DEF RequestShape, Steps, Reading
  <2>3. same \in {"NO", "UNCHANGED", "UNCHANGED_TEXT"}
    BY DEF Unchanged
  <2>4. req[r].pc = "sourced"
    BY <1>4 DEF FindDocument
  <2>5. CASE same = "NO"
    <3>1. Advance(r, now)
      BY <1>4, <2>5 DEF FindDocument
    <3> HIDE DEF now
    <3> QED
      BY <2>2, <2>4, <3>1 DEF Advance, Reading, Shapes
  <2>6. CASE same # "NO"
    <3>1. Close(r, same, {})
      BY <1>4, <2>6 DEF FindDocument
    <3> HIDE DEF same
    <3> QED
      BY <2>3, <2>4, <2>6, <3>1
      DEF Close, Unsuccessful, Outcomes, Successes, Reading
  <2> QED
    BY <2>5, <2>6
<1>5. CASE Gate(r)
  <2> DEFINE now == [req[r] EXCEPT !.pc = "cleared"]
             c == ContentOf(r)
  <2>1. now \in RequestShape /\ now.pc = "cleared" /\ now.sens = req[r].sens
    BY <1>0 DEF RequestShape, Steps, Reading
  <2>2. req[r].pc = "found"
    BY <1>5 DEF Gate
  <2>3. \/ Close(r, "REJECTED_SECRET", c.secrets)
        \/ Close(r, "REJECTED_INVALID", c.secrets)
        \/ Advance(r, now)
    BY <1>5 DEF Gate
  <2> HIDE DEF now
  <2>4. CASE Advance(r, now)
    BY <2>1, <2>2, <2>4 DEF Advance, Reading, Shapes
  <2>5. ASSUME NEW outcome \in {"REJECTED_SECRET", "REJECTED_INVALID"},
               Close(r, outcome, c.secrets)
        PROVE  /\ UNCHANGED Tables
               /\ req[r].pc \in {"opened"} \cup Reading
               /\ outcome \in Unsuccessful /\ c.secrets \in SUBSET ContentOf(r).secrets
               /\ attempts' = [attempts EXCEPT ![r].outcome = outcome,
                                               ![r].findings = c.secrets]
               /\ req' = [req EXCEPT ![r] = At("done")]
    BY <2>2, <2>5 DEF Close, Unsuccessful, Outcomes, Successes, Reading
  <2> QED
    BY <2>3, <2>4, <2>5
<1>6. CASE Embed(r)
  <2> DEFINE now == [req[r] EXCEPT !.pc = "embedded"]
  <2>1. now \in RequestShape /\ now.pc = "embedded" /\ now.sens = req[r].sens
    BY <1>0 DEF RequestShape, Steps, Reading
  <2>2. req[r].pc = "cleared"
    BY <1>6 DEF Embed
  <2>3. Close(r, "FAILED_EMBEDDING", ContentOf(r).secrets) \/ Advance(r, now)
    BY <1>6 DEF Embed
  <2> HIDE DEF now
  <2>4. CASE Close(r, "FAILED_EMBEDDING", ContentOf(r).secrets)
    <3>1. "FAILED_EMBEDDING" \in Unsuccessful BY DEF Unsuccessful, Outcomes, Successes
    <3> QED BY <2>2, <2>4, <3>1 DEF Close, Reading
  <2>5. CASE Advance(r, now)
    <3>1. now.sens \in Sensitivities BY <2>1, <2>2 DEF Reading, Shapes
    <3> QED BY <2>1, <2>2, <2>5, <3>1 DEF Advance, Reading
  <2> QED BY <2>3, <2>4, <2>5
<1>7. CASE Refuse(r)
  <2>1. At("refused") \in RequestShape
    BY DEF At, RequestShape, Steps
  <2> QED
    BY <1>7, <2>1 DEF Refuse, Advance, At, Reading
<1> QED
  BY <1>1, <1>2, <1>3, <1>4, <1>5, <1>6, <1>7 DEF Quiet

\* The version a commit supersedes.
Displaced(row) == [row EXCEPT !.superseded = TRUE, !.retrievable = FALSE]

\* The row a commit inserts and the ones it changes.
LEMMA CommitStep ==
  ASSUME Shapes, ProgressHolds, ReadsHold, NEW r \in Requests, Commit(r),
         NEW d, d = (IF req[r].doc = 0 THEN Len(docs) + 1 ELSE req[r].doc),
         NEW v, v = Len(versions) + 1
  PROVE  /\ docs' \in Seq(DocumentShape) /\ versions' \in Seq(VersionShape)
         /\ v \in Nat \ {0} /\ v \notin Versions /\ Versions' = Versions \cup {v}
         /\ Docs' = Docs \cup {d} /\ (req[r].doc = 0 <=> d \notin Docs)
         /\ docs'[d].current = v
         /\ \A e \in Docs : e # d => docs'[e] = docs[e]
         /\ d \in Docs => docs'[d].life = docs[d].life
         /\ NewVersion(r, d) \in VersionShape
         /\ versions'[v] = NewVersion(r, d)
         /\ \A w \in Versions :
              versions'[w] = IF w = req[r].current
                             THEN Displaced(versions[w])
                             ELSE versions[w]
         /\ attempts[r] = Pending(ContentOf(r)) /\ attempts[r] \in AttemptShape
         /\ req' = [req EXCEPT ![r] = At("done")]
<1> DEFINE old == req[r].current
<1> USE DEF Docs, Versions
<1>1. /\ req[r] \in RequestShape /\ req[r].pc = "embedded" /\ req[r].sens \in Sensitivities
      /\ attempts[r] = Pending(ContentOf(r)) /\ attempts[r] \in AttemptShape
  <2>1. req[r].pc = "embedded"
    BY DEF Commit
  <2>2. attempts[r] = Pending(ContentOf(r)) /\ attempts[r] # NoAttempt
    BY <2>1 DEF ProgressHolds, Reading
  <2> QED
    BY <2>1, <2>2 DEF Shapes, Reading
<1>2. IF req[r].doc = 0 THEN old = 0 ELSE req[r].doc \in Docs /\ old \in VersionsOf(req[r].doc)
  BY <1>1 DEF ReadsHold, FoundSteps
<1>3. /\ Len(versions) \in Nat /\ Len(docs) \in Nat
      /\ Versions = 1..Len(versions) /\ Docs = 1..Len(docs)
  BY SequenceRows DEF Shapes
<1>4. old # 0 => old \in Versions
  BY <1>2 DEF VersionsOf
<1>5. Superseded(old) \in Seq(VersionShape) /\ DOMAIN Superseded(old) = Versions
      /\ Len(Superseded(old)) = Len(versions)
      /\ \A w \in Versions :
           Superseded(old)[w] = IF w = old
                                THEN Displaced(versions[w])
                                ELSE versions[w]
  <2>1. CASE old = 0
    <3>1. Superseded(old) = versions /\ \A w \in Versions : w # old
      BY <1>3, <2>1 DEF Superseded
    <3> QED
      BY <3>1 DEF Shapes
  <2>2. CASE old # 0
    <3> DEFINE row == Displaced(versions[old])
    <3>1. versions[old] \in VersionShape
      BY <1>4, <2>2, SequenceRows DEF Shapes
    <3>2. row \in VersionShape
      BY <3>1 DEF VersionShape, Displaced
    <3>3. Superseded(old) = [versions EXCEPT ![old] = row]
      BY <2>2, <1>4, <1>3 DEF Superseded, Shapes, Displaced
    <3> HIDE DEF row
    <3>4. /\ Superseded(old) \in Seq(VersionShape) /\ DOMAIN Superseded(old) = Versions
          /\ Len(Superseded(old)) = Len(versions)
      BY <1>4, <2>2, <3>2, <3>3, UpdatedRow DEF Shapes
    <3>5. \A w \in Versions : Superseded(old)[w] = IF w = old THEN row ELSE versions[w]
      BY <3>3
    <3> QED
      BY <3>4, <3>5 DEF row
  <2> QED
    BY <2>1, <2>2
<1>6. NewVersion(r, d) \in VersionShape
  <2>1. NextNumber(r) \in Nat \ {0}
    <3>1. old # 0 => versions[old] \in VersionShape
      BY <1>4, Rows
    <3>2. old # 0 => versions[old].no \in Nat
      BY <3>1 DEF VersionShape
    <3> QED
      BY <3>2 DEF NextNumber
  <2>2. ContentOf(r) \in Contents
    BY <1>1 DEF AttemptShape, ContentOf
  <2>3. d \in Nat
    BY <1>1, <1>3 DEF RequestShape
  <2>4. old \in Nat /\ r \in Requests /\ req[r].sens \in Sensitivities
    BY <1>1 DEF RequestShape
  <2> QED
    BY <2>1, <2>2, <2>3, <2>4 DEF NewVersion, VersionShape
<1>7. versions' = Append(Superseded(old), NewVersion(r, d))
  BY DEF Commit
<1>8. /\ versions' \in Seq(VersionShape) /\ Versions' = Versions \cup {v}
      /\ v \notin Versions /\ versions'[v] = NewVersion(r, d)
      /\ \A w \in Versions : versions'[w] = Superseded(old)[w]
  <2> DEFINE before == Superseded(old)
             row == NewVersion(r, d)
  <2>1. before \in Seq(VersionShape) /\ DOMAIN before = Versions /\ Len(before) + 1 = v
    BY <1>5
  <2> HIDE DEF before, row
  <2>2. row \in VersionShape
    BY <1>6 DEF row
  <2>3. versions' = Append(before, row)
    BY <1>7 DEF before, row
  <2>4. /\ versions' \in Seq(VersionShape) /\ Versions' = Versions \cup {v}
        /\ v \notin Versions /\ versions'[v] = row
        /\ \A w \in Versions : versions'[w] = before[w]
    BY <2>1, <2>2, <2>3, AppendedRow
  <2> QED
    BY <2>4 DEF before, row
<1>9. req' = [req EXCEPT ![r] = At("done")]
  BY DEF Commit
<1>10. /\ versions' \in Seq(VersionShape) /\ Versions' = Versions \cup {v}
       /\ v \notin Versions /\ versions'[v] = NewVersion(r, d)
       /\ \A w \in Versions :
            versions'[w] = IF w = req[r].current
                           THEN Displaced(versions[w])
                           ELSE versions[w]
  BY <1>5, <1>8
<1>11. CASE req[r].doc = 0
  <2>1. docs' = Append(docs, [life |-> "ACTIVE", current |-> v])
    BY <1>11 DEF Commit
  <2>2. [life |-> "ACTIVE", current |-> v] \in DocumentShape
    BY <1>3 DEF DocumentShape, Lifecycles
  <2>3. docs \in Seq(DocumentShape) /\ d = Len(docs) + 1
    BY <1>11 DEF Shapes
  <2>4. /\ docs' \in Seq(DocumentShape) /\ Docs' = Docs \cup {d} /\ d \notin Docs
        /\ docs'[d] = [life |-> "ACTIVE", current |-> v]
        /\ \A e \in Docs : docs'[e] = docs[e]
    <3> DEFINE new == [life |-> "ACTIVE", current |-> v]
    <3> HIDE DEF new
    <3>1. docs' = Append(docs, new) /\ new \in DocumentShape
      BY <2>1, <2>2 DEF new
    <3>2. /\ docs' \in Seq(DocumentShape) /\ Docs' = Docs \cup {d} /\ d \notin Docs
          /\ docs'[d] = new /\ \A e \in Docs : docs'[e] = docs[e]
      BY <2>3, <3>1, AppendedRow
    <3> QED
      BY <3>2 DEF new
  <2>5. docs'[d].current = v
    BY <2>4
  <2> QED
    BY <1>1, <1>3, <1>6, <1>9, <1>10, <1>11, <2>4, <2>5
<1>12. CASE req[r].doc # 0
  <2>1. d \in Docs
    BY <1>2, <1>12
  <2>2. docs' = [docs EXCEPT ![d].current = v]
    BY <1>12 DEF Commit
  <2>3. docs[d] \in DocumentShape
    BY <2>1, SequenceRows DEF Shapes
  <2>4. docs' = [docs EXCEPT ![d] = [docs[d] EXCEPT !.current = v]]
    BY <2>2
  <2>5. [docs[d] EXCEPT !.current = v] \in DocumentShape
    BY <1>3, <2>3 DEF DocumentShape
  <2>6. docs' \in Seq(DocumentShape) /\ Docs' = Docs
    BY <2>1, <2>4, <2>5, UpdatedRow DEF Shapes
  <2>7. /\ docs'[d].current = v /\ docs'[d].life = docs[d].life
        /\ \A e \in Docs : e # d => docs'[e] = docs[e]
    BY <2>1, <2>2, <2>3, SequenceRows DEF DocumentShape, Shapes
  <2> QED
    BY <1>1, <1>3, <1>6, <1>9, <1>10, <1>12, <2>1, <2>6, <2>7
<1> QED
  BY <1>11, <1>12

\* The columns of a version that nothing changes once it is inserted.
SameVersion(a, b) ==
  /\ a.doc = b.doc /\ a.no = b.no /\ a.content = b.content
  /\ a.supersedes = b.supersedes /\ a.attempt = b.attempt

\* A superseded version is otherwise the version it was.
LEMMA DisplacedVersion ==
  ASSUME NEW row \in VersionShape
  PROVE  /\ SameVersion(Displaced(row), row)
         /\ Displaced(row).superseded /\ ~Displaced(row).retrievable
BY DEF SameVersion, Displaced, VersionShape

\* A judgement about a finding that an attempt was closed with.
Ruled ==
  \E r \in Requests, k \in AllSecrets, verdict \in Verdicts :
    /\ attempts[r] # NoAttempt /\ k \in attempts[r].findings
    /\ dispositions' = Append(dispositions,
         [content |-> ContentOf(r), secret |-> k, verdict |-> verdict])

\* The catalog inserts no version and moves no document on. It takes vectors
\* out of retrieval only together with the document or the source.
LEMMA CatalogSteps ==
  ASSUME Shapes, Administer
  PROVE  /\ req' = req /\ attempts' = attempts
         /\ source' \in SourceRow /\ verified' \in BOOLEAN
         /\ docs' \in Seq(DocumentShape) /\ versions' \in Seq(VersionShape)
         /\ Docs' = Docs /\ Versions' = Versions
         /\ source'.life = "ACTIVE" => source.life = "ACTIVE"
         /\ \A d \in Docs : /\ docs'[d].current = docs[d].current
                            /\ docs'[d].life = "ACTIVE" => docs[d].life = "ACTIVE"
         /\ \A v \in Versions :
              /\ SameVersion(versions'[v], versions[v])
              /\ versions'[v].superseded = versions[v].superseded
              /\ versions'[v].retrievable => versions[v].retrievable
              /\ /\ source'.life = "ACTIVE" /\ versions[v].doc \in Docs
                 /\ docs'[versions[v].doc].life = "ACTIVE" /\ versions[v].retrievable
                 => versions'[v].retrievable
         /\ dispositions' = dispositions \/ Ruled
<1> USE DEF Docs, Versions
<1>0. /\ \A v \in Versions : versions[v] \in VersionShape
      /\ Len(versions) \in Nat /\ Versions = 1..Len(versions)
      /\ \A d \in Docs : docs[d] \in DocumentShape
      /\ source \in SourceRow
  BY Rows DEF Shapes
<1>1. ASSUME NEW vs
      PROVE  /\ WithoutVectorsOf(vs) \in Seq(VersionShape)
             /\ DOMAIN WithoutVectorsOf(vs) = Versions
             /\ \A v \in Versions :
                  /\ SameVersion(WithoutVectorsOf(vs)[v], versions[v])
                  /\ WithoutVectorsOf(vs)[v].superseded = versions[v].superseded
                  /\ WithoutVectorsOf(vs)[v].retrievable = (versions[v].retrievable /\ v \notin vs)
  <2> DEFINE row(v) == [versions[v] EXCEPT !.retrievable = versions[v].retrievable /\ v \notin vs]
  <2>1. \A v \in Versions : row(v) \in VersionShape
    BY <1>0 DEF VersionShape
  <2>2. WithoutVectorsOf(vs) = [v \in Versions |-> row(v)]
    BY DEF WithoutVectorsOf
  <2>3. \A v \in Versions :
          /\ SameVersion(row(v), versions[v]) /\ row(v).superseded = versions[v].superseded
          /\ row(v).retrievable = (versions[v].retrievable /\ v \notin vs)
    BY <1>0 DEF VersionShape, SameVersion
  <2> HIDE DEF row
  <2>4. WithoutVectorsOf(vs) \in [1..Len(versions) -> VersionShape]
    BY <1>0, <2>1, <2>2
  <2>5. /\ WithoutVectorsOf(vs) \in Seq(VersionShape)
        /\ DOMAIN WithoutVectorsOf(vs) = Versions
    BY <1>0, <2>4, MappedSequence
  <2> QED
    BY <2>2, <2>3, <2>5
<1>2. ASSUME NEW c \in Sensitivities
      PROVE  /\ Resynced(c) \in Seq(VersionShape) /\ DOMAIN Resynced(c) = Versions
             /\ \A v \in Versions :
                  /\ SameVersion(Resynced(c)[v], versions[v])
                  /\ Resynced(c)[v].superseded = versions[v].superseded
                  /\ Resynced(c)[v].retrievable = versions[v].retrievable
  <2> DEFINE row(v) == [versions[v] EXCEPT !.sens = c]
  <2>1. \A v \in Versions : row(v) \in VersionShape
    BY <1>0 DEF VersionShape
  <2>2. Resynced(c) = [v \in Versions |-> row(v)]
    BY DEF Resynced
  <2>3. \A v \in Versions :
          /\ SameVersion(row(v), versions[v]) /\ row(v).superseded = versions[v].superseded
          /\ row(v).retrievable = versions[v].retrievable
    BY <1>0 DEF VersionShape, SameVersion
  <2> HIDE DEF row
  <2>4. Resynced(c) \in [1..Len(versions) -> VersionShape]
    BY <1>0, <2>1, <2>2
  <2>5. Resynced(c) \in Seq(VersionShape) /\ DOMAIN Resynced(c) = Versions
    BY <1>0, <2>4, MappedSequence
  <2> QED
    BY <2>2, <2>3, <2>5
<1>3. CASE RetireSource
  <2>1. /\ source' = [source EXCEPT !.life = "RETIRED"] /\ versions' = WithoutVectorsOf(Versions)
        /\ UNCHANGED <<docs, attempts, dispositions, verified, req>>
    BY <1>3 DEF RetireSource
  <2>2. source' \in SourceRow /\ source'.life = "RETIRED"
    BY <1>0, <2>1 DEF SourceRow, Lifecycles
  <2> QED
    BY <1>1, <2>1, <2>2 DEF Shapes
<1>4. ASSUME NEW d \in Docs, RetireDocument(d)
      PROVE  /\ docs' \in Seq(DocumentShape) /\ Docs' = Docs /\ docs'[d].life = "RETIRED"
             /\ \A e \in Docs : docs'[e].current = docs[e].current
             /\ \A e \in Docs : e # d => docs'[e] = docs[e]
             /\ versions' = WithoutVectorsOf(VersionsOf(d))
             /\ UNCHANGED <<source, attempts, dispositions, verified, req>>
  <2>1. docs' = [docs EXCEPT ![d] = [docs[d] EXCEPT !.life = "RETIRED"]]
    BY <1>4 DEF RetireDocument
  <2>2. [docs[d] EXCEPT !.life = "RETIRED"] \in DocumentShape
    BY <1>0 DEF DocumentShape, Lifecycles
  <2>3. docs' \in Seq(DocumentShape) /\ Docs' = Docs
    BY <2>1, <2>2, UpdatedRow DEF Shapes
  <2>4. \A e \in Docs : docs'[e] = IF e = d THEN [docs[d] EXCEPT !.life = "RETIRED"] ELSE docs[e]
    BY <2>1
  <2> QED
    BY <1>0, <1>4, <2>3, <2>4 DEF RetireDocument, DocumentShape
<1>5. CASE \E d \in Docs : RetireDocument(d)
  <2>1. PICK d \in Docs : RetireDocument(d)
    BY <1>5
  <2>2. \A v \in Versions : v \in VersionsOf(d) <=> versions[v].doc = d
    BY DEF VersionsOf
  <2>3. /\ docs' \in Seq(DocumentShape) /\ Docs' = Docs /\ docs'[d].life = "RETIRED"
        /\ \A e \in Docs : docs'[e].current = docs[e].current
        /\ \A e \in Docs : e # d => docs'[e] = docs[e]
        /\ versions' = WithoutVectorsOf(VersionsOf(d))
        /\ UNCHANGED <<source, attempts, dispositions, verified, req>>
    BY <1>4, <2>1
  <2>4. /\ versions' \in Seq(VersionShape) /\ Versions' = Versions
        /\ \A v \in Versions :
             /\ SameVersion(versions'[v], versions[v])
             /\ versions'[v].superseded = versions[v].superseded
             /\ versions'[v].retrievable = (versions[v].retrievable /\ versions[v].doc # d)
    BY <1>1, <2>2, <2>3
  <2> QED
    BY <1>0, <2>3, <2>4 DEF Shapes
<1>6. CASE \E c \in Sensitivities : Reclassify(c)
  <2>1. PICK c \in Sensitivities : Reclassify(c)
    BY <1>6
  <2>2. /\ source' = [source EXCEPT !.sens = c] /\ versions' = Resynced(c)
        /\ UNCHANGED <<docs, attempts, dispositions, verified, req>>
    BY <2>1 DEF Reclassify
  <2>3. source' \in SourceRow /\ source'.life = source.life
    BY <1>0, <2>2 DEF SourceRow
  <2> QED
    BY <1>2, <2>2, <2>3 DEF Shapes
<1>7. CASE \E r \in Requests, verdict \in Verdicts : \E k \in AllSecrets :
             RecordDisposition(r, k, verdict)
  BY <1>7 DEF RecordDisposition, Ruled, Shapes, SameVersion
<1>8. CASE MarkPrefixesVerified
  BY <1>8 DEF MarkPrefixesVerified, Shapes, SameVersion
<1> QED
  BY <1>3, <1>5, <1>6, <1>7, <1>8 DEF Administer, AllSecrets

-----------------------------------------------------------------------------
(* Types, and what stays *)

LEMMA ShapesStep ==
  ASSUME Shapes, ProgressHolds, ReadsHold, [Next]_vars
  PROVE  Shapes'
<1>1. CASE UNCHANGED vars
  BY <1>1 DEF vars, Shapes
<1>2. ASSUME NEW r \in Requests, Quiet(r)
      PROVE  Shapes'
  <2>1. UNCHANGED Tables
    BY <1>2, QuietSteps
  <2>2. req[r] \in RequestShape /\ (attempts[r] # NoAttempt => attempts[r] \in AttemptShape)
    BY Rows
  <2>3. CASE /\ \E c \in Contents : attempts' = [attempts EXCEPT ![r] = Pending(c)]
             /\ req' = [req EXCEPT ![r].pc = "opened", ![r].verified = verified]
    <3>1. PICK c \in Contents : attempts' = [attempts EXCEPT ![r] = Pending(c)]
      BY <2>3
    <3>2. Pending(c) \in AttemptShape
      BY DEF Pending, AttemptShape, Outcomes
    <3>3. [req[r] EXCEPT !.pc = "opened", !.verified = verified] \in RequestShape
      BY <2>2 DEF RequestShape, Steps, Shapes
    <3>4. req'[r].pc = "opened"
      BY <2>2, <2>3 DEF RequestShape, Shapes
    <3> QED
      BY <2>1, <2>3, <3>1, <3>2, <3>3, <3>4 DEF Shapes, Tables, Reading
  <2>4. CASE /\ \E now \in RequestShape :
                  /\ req' = [req EXCEPT ![r] = now]
                  /\ now.pc \in {"refused"} \cup Reading
                  /\ now.pc \in Reading => now.sens \in Sensitivities
             /\ attempts' = attempts
    BY <2>1, <2>4 DEF Shapes, Tables
  <2>5. ASSUME req[r].pc \in {"opened"} \cup Reading,
               NEW outcome \in Unsuccessful, NEW findings \in SUBSET ContentOf(r).secrets,
               attempts' = [attempts EXCEPT ![r].outcome = outcome, ![r].findings = findings],
               req' = [req EXCEPT ![r] = At("done")]
        PROVE  Shapes'
    <3>1. attempts[r] \in AttemptShape
      BY <2>2, <2>5 DEF ProgressHolds, Reading
    <3>2. [attempts[r] EXCEPT !.outcome = outcome, !.findings = findings] \in AttemptShape
      <4>1. ContentOf(r).secrets \subseteq AllSecrets /\ outcome \in Outcomes
        BY <3>1 DEF ContentOf, AttemptShape, AllSecrets, Unsuccessful
      <4> QED
        BY <3>1, <4>1 DEF AttemptShape
    <3>3. At("done") \in RequestShape /\ At("done").pc \notin Reading
      BY DEF At, RequestShape, Steps, Reading
    <3> QED
      BY <2>1, <2>5, <3>1, <3>2, <3>3 DEF Shapes, Tables
  <2> QED
    BY <1>2, <2>3, <2>4, <2>5, QuietSteps
<1>3. ASSUME NEW r \in Requests, Commit(r)
      PROVE  Shapes'
  <2>1. PICK d, v : /\ d = (IF req[r].doc = 0 THEN Len(docs) + 1 ELSE req[r].doc)
                    /\ v = Len(versions) + 1
    OBVIOUS
  <2>2. /\ docs' \in Seq(DocumentShape) /\ versions' \in Seq(VersionShape)
        /\ attempts[r] \in AttemptShape /\ v \in Nat
        /\ req' = [req EXCEPT ![r] = At("done")]
    BY <1>3, <2>1, CommitStep
  <2>3. [attempts[r] EXCEPT !.outcome = Success(r), !.version = v] \in AttemptShape
    BY <2>2 DEF AttemptShape, Success, Outcomes
  <2>4. /\ attempts' = [attempts EXCEPT ![r].outcome = Success(r), ![r].version = v]
        /\ UNCHANGED <<source, dispositions, verified>>
    BY <1>3, <2>1 DEF Commit
  <2>5. At("done") \in RequestShape /\ At("done").pc \notin Reading
    BY DEF At, RequestShape, Steps, Reading
  <2> QED
    BY <2>2, <2>3, <2>4, <2>5 DEF Shapes
<1>4. CASE Administer
  <2>1. /\ req' = req /\ attempts' = attempts
        /\ source' \in SourceRow /\ verified' \in BOOLEAN
        /\ docs' \in Seq(DocumentShape) /\ versions' \in Seq(VersionShape)
        /\ dispositions' = dispositions \/ Ruled
    BY <1>4, CatalogSteps
  <2>2. dispositions' \in Seq(DispositionRow)
    <3>1. CASE Ruled
      <4>1. PICK r \in Requests, k \in AllSecrets, verdict \in Verdicts :
              /\ attempts[r] # NoAttempt
              /\ dispositions' = Append(dispositions,
                   [content |-> ContentOf(r), secret |-> k, verdict |-> verdict])
        BY <3>1 DEF Ruled
      <4>2. [content |-> ContentOf(r), secret |-> k, verdict |-> verdict] \in DispositionRow
        BY <4>1, Rows DEF DispositionRow, AttemptShape, ContentOf, AllSecrets
      <4> QED
        BY <4>1, <4>2, AppendedRow DEF Shapes
    <3> QED
      BY <2>1, <3>1 DEF Shapes
  <2> QED
    BY <2>1, <2>2 DEF Shapes
<1> QED
  BY <1>1, <1>2, <1>3, <1>4 DEF Next, Ingest, Quiet

\* No step deletes a row, changes what a version is, or reopens an attempt
\* that was closed.
LEMMA RowsStay ==
  ASSUME Shapes, ProgressHolds, ReadsHold, [Next]_vars
  PROVE  /\ \A v \in Versions : v \in Versions' /\ SameVersion(versions'[v], versions[v])
         /\ \A d \in Docs : d \in Docs'
         /\ \A i \in DOMAIN dispositions :
              i \in DOMAIN dispositions' /\ dispositions'[i] = dispositions[i]
         /\ \A r \in Requests : attempts[r] # NoAttempt =>
              /\ attempts'[r] # NoAttempt /\ ContentOf(r)' = ContentOf(r)
              /\ attempts[r].outcome # "PENDING" => attempts'[r] = attempts[r]
<1> USE DEF Docs, Versions, ContentOf
<1>0. /\ \A r \in Requests : attempts[r] # NoAttempt => attempts[r] \in AttemptShape
      /\ attempts \in [Requests -> AttemptShape \cup {NoAttempt}]
      /\ \A v \in Versions : versions[v] \in VersionShape
  BY Rows DEF Shapes
<1>1. CASE UNCHANGED vars
  BY <1>1 DEF vars, SameVersion
<1>2. ASSUME NEW r \in Requests, Quiet(r)
      PROVE  /\ UNCHANGED Tables
             /\ \A q \in Requests : attempts[q] # NoAttempt =>
                  /\ attempts'[q] # NoAttempt /\ attempts'[q].content = attempts[q].content
                  /\ attempts[q].outcome # "PENDING" => attempts'[q] = attempts[q]
  <2>1. UNCHANGED Tables
    BY <1>2, QuietSteps
  <2>2. CASE req[r].pc = "idle" /\ \E c \in Contents : attempts' = [attempts EXCEPT ![r] = Pending(c)]
    BY <1>0, <2>1, <2>2 DEF ProgressHolds
  <2>3. CASE attempts' = attempts
    BY <2>1, <2>3
  <2>4. ASSUME req[r].pc \in {"opened"} \cup Reading,
               NEW outcome \in Unsuccessful, NEW findings \in SUBSET ContentOf(r).secrets,
               attempts' = [attempts EXCEPT ![r].outcome = outcome, ![r].findings = findings]
        PROVE  \A q \in Requests : attempts[q] # NoAttempt =>
                  /\ attempts'[q] # NoAttempt /\ attempts'[q].content = attempts[q].content
                  /\ attempts[q].outcome # "PENDING" => attempts'[q] = attempts[q]
    <3>1. attempts[r] = Pending(ContentOf(r)) /\ attempts[r] \in AttemptShape
      BY <1>0, <2>4 DEF ProgressHolds, Reading
    <3>2. attempts[r].outcome = "PENDING" /\ outcome # "NONE"
      BY <2>4, <3>1 DEF Pending, Unsuccessful, Outcomes
    <3>3. attempts'[r].content = attempts[r].content /\ attempts'[r].outcome = outcome
      BY <1>0, <2>4, <3>1 DEF AttemptShape
    <3> QED
      BY <1>0, <2>4, <3>2, <3>3 DEF NoAttempt
  <2> QED
    BY <1>2, <2>1, <2>2, <2>3, <2>4, QuietSteps
<1>3. ASSUME NEW r \in Requests, Commit(r)
      PROVE  /\ \A v \in Versions : v \in Versions' /\ SameVersion(versions'[v], versions[v])
             /\ \A d \in Docs : d \in Docs'
             /\ dispositions' = dispositions
             /\ \A q \in Requests : attempts[q] # NoAttempt =>
                  /\ attempts'[q] # NoAttempt /\ attempts'[q].content = attempts[q].content
                  /\ attempts[q].outcome # "PENDING" => attempts'[q] = attempts[q]
  <2>1. PICK d, v : /\ d = (IF req[r].doc = 0 THEN Len(docs) + 1 ELSE req[r].doc)
                    /\ v = Len(versions) + 1
    OBVIOUS
  <2>2. /\ Versions' = Versions \cup {v} /\ Docs' = Docs \cup {d}
        /\ \A w \in Versions : versions'[w] = IF w = req[r].current THEN Displaced(versions[w])
                                                                    ELSE versions[w]
        /\ attempts[r] = Pending(ContentOf(r)) /\ attempts[r] \in AttemptShape
    BY <1>3, <2>1, CommitStep
  <2>3. \A w \in Versions : SameVersion(versions'[w], versions[w])
    BY <1>0, <2>2, DisplacedVersion DEF SameVersion
  <2>4. /\ attempts' = [attempts EXCEPT ![r].outcome = Success(r), ![r].version = v]
        /\ dispositions' = dispositions
    BY <1>3, <2>1 DEF Commit
  <2>5. /\ attempts'[r].content = attempts[r].content /\ attempts'[r].outcome = Success(r)
        /\ attempts[r].outcome = "PENDING" /\ Success(r) # "NONE"
    BY <1>0, <2>2, <2>4 DEF AttemptShape, Pending, Success
  <2>6. \A q \in Requests : q # r => attempts'[q] = attempts[q]
    BY <1>0, <2>4
  <2>7. attempts'[r] # NoAttempt
    BY <2>5 DEF NoAttempt
  <2> HIDE DEF Docs, Versions
  <2> QED
    BY <2>2, <2>3, <2>4, <2>5, <2>6, <2>7
<1>4. CASE Administer
  <2>1. /\ attempts' = attempts /\ Docs' = Docs /\ Versions' = Versions
        /\ \A v \in Versions : SameVersion(versions'[v], versions[v])
        /\ dispositions' = dispositions \/ Ruled
    BY <1>4, CatalogSteps
  <2>2. ASSUME Ruled
        PROVE  \A i \in DOMAIN dispositions :
                 i \in DOMAIN dispositions' /\ dispositions'[i] = dispositions[i]
    <3>1. PICK row : dispositions' = Append(dispositions, row)
      BY <2>2 DEF Ruled
    <3>2. dispositions \in Seq(DispositionRow)
      BY DEF Shapes
    <3> QED
      BY <3>1, <3>2
  <2> QED
    BY <2>1, <2>2
<1> QED
  BY <1>1, <1>2, <1>3, <1>4 DEF Next, Ingest, Quiet, Tables, SameVersion

\* So what was ruled on and what was turned away stay so.
LEMMA RulingsStay ==
  ASSUME Shapes, ProgressHolds, ReadsHold, [Next]_vars
  PROVE  /\ \A c, k : RuledHarmless(c, k) => RuledHarmless(c, k)'
         /\ \A c : TurnedAway(c) => TurnedAway(c)'
<1>1. ASSUME NEW c, NEW k, RuledHarmless(c, k)
      PROVE  RuledHarmless(c, k)'
  BY <1>1, RowsStay DEF RuledHarmless
<1>2. ASSUME NEW c, TurnedAway(c)
      PROVE  TurnedAway(c)'
  <2>1. PICK r \in Requests : /\ attempts[r] # NoAttempt
                              /\ ContentOf(r) = c /\ attempts[r].outcome = "REJECTED_SECRET"
    BY <1>2 DEF TurnedAway
  <2> QED
    BY <2>1, RowsStay DEF TurnedAway
<1> QED
  BY <1>1, <1>2

-----------------------------------------------------------------------------
(* Requests and attempts *)

\* The state of an attempt follows its request.
LEMMA ProgressStep ==
  ASSUME Shapes, ProgressHolds, ReadsHold, [Next]_vars
  PROVE  ProgressHolds'
<1> USE DEF ContentOf
<1>0. /\ \A r \in Requests : attempts[r] # NoAttempt => attempts[r] \in AttemptShape
      /\ \A r \in Requests : req[r] \in RequestShape
      /\ attempts \in [Requests -> AttemptShape \cup {NoAttempt}]
      /\ req \in [Requests -> RequestShape]
  BY Rows DEF Shapes
<1>1. CASE UNCHANGED vars
  BY <1>1 DEF vars, ProgressHolds
<1>2. ASSUME NEW r \in Requests, NEW q \in Requests, q # r,
             attempts'[q] = attempts[q], req'[q] = req[q]
      PROVE  /\ req'[q].pc = "idle" <=> attempts'[q] = NoAttempt
             /\ req'[q].pc \in {"opened", "refused"} \cup Reading =>
                  attempts'[q] = Pending(attempts'[q].content)
             /\ req'[q].pc = "done" => attempts'[q].outcome # "PENDING"
  BY <1>2 DEF ProgressHolds
<1>3. ASSUME NEW r \in Requests, Quiet(r)
      PROVE  ProgressHolds'
  <2>1. CASE /\ \E c \in Contents : attempts' = [attempts EXCEPT ![r] = Pending(c)]
             /\ req' = [req EXCEPT ![r].pc = "opened", ![r].verified = verified]
    <3>1. PICK c \in Contents : attempts' = [attempts EXCEPT ![r] = Pending(c)]
      BY <2>1
    <3>2. attempts'[r] = Pending(c) /\ Pending(c).content = c /\ Pending(c) # NoAttempt
      BY <1>0, <3>1 DEF Pending, NoAttempt
    <3>3. req'[r].pc = "opened"
      BY <1>0, <2>1 DEF RequestShape
    <3>4. \A q \in Requests \ {r} : attempts'[q] = attempts[q] /\ req'[q] = req[q]
      BY <1>0, <2>1, <3>1
    <3> QED
      BY <1>2, <3>2, <3>3, <3>4 DEF ProgressHolds
  <2>2. CASE /\ req[r].pc \in {"opened"} \cup Reading
             /\ \E now \in RequestShape :
                  req' = [req EXCEPT ![r] = now] /\ now.pc \in {"refused"} \cup Reading
             /\ attempts' = attempts
    <3>1. attempts[r] = Pending(attempts[r].content) /\ attempts[r] # NoAttempt
      BY <2>2 DEF ProgressHolds, Reading
    <3>2. req'[r].pc \in {"refused"} \cup Reading
      BY <1>0, <2>2
    <3>3. req'[r].pc \notin {"idle", "done"}
      BY <3>2 DEF Reading
    <3>4. \A q \in Requests \ {r} : attempts'[q] = attempts[q] /\ req'[q] = req[q]
      BY <1>0, <2>2
    <3> QED
      BY <1>2, <2>2, <3>1, <3>2, <3>3, <3>4 DEF ProgressHolds
  <2>3. ASSUME req[r].pc \in {"opened"} \cup Reading,
               NEW outcome \in Unsuccessful, NEW findings \in SUBSET ContentOf(r).secrets,
               attempts' = [attempts EXCEPT ![r].outcome = outcome, ![r].findings = findings],
               req' = [req EXCEPT ![r] = At("done")]
        PROVE  ProgressHolds'
    <3>1. attempts[r] # NoAttempt /\ attempts[r] \in AttemptShape
      BY <1>0, <2>3 DEF ProgressHolds, Reading
    <3>2. attempts'[r].outcome = outcome /\ outcome \notin {"PENDING", "NONE"}
      BY <1>0, <2>3, <3>1 DEF Unsuccessful, Outcomes, AttemptShape
    <3>3. req'[r].pc = "done"
      BY <1>0, <2>3 DEF At
    <3>4. \A q \in Requests \ {r} : attempts'[q] = attempts[q] /\ req'[q] = req[q]
      BY <1>0, <2>3
    <3>5. attempts'[r] # NoAttempt
      BY <3>2 DEF NoAttempt
    <3> QED
      BY <1>2, <3>2, <3>3, <3>4, <3>5 DEF ProgressHolds, Reading
  <2> QED
    BY <1>3, <2>1, <2>2, <2>3, QuietSteps
<1>4. ASSUME NEW r \in Requests, Commit(r)
      PROVE  ProgressHolds'
  <2>1. PICK d, v : /\ d = (IF req[r].doc = 0 THEN Len(docs) + 1 ELSE req[r].doc)
                    /\ v = Len(versions) + 1
    OBVIOUS
  <2>2. attempts[r] \in AttemptShape /\ req' = [req EXCEPT ![r] = At("done")]
    BY <1>4, <2>1, CommitStep
  <2>3. attempts' = [attempts EXCEPT ![r].outcome = Success(r), ![r].version = v]
    BY <1>4, <2>1 DEF Commit
  <2>4. attempts'[r].outcome = Success(r) /\ Success(r) \notin {"PENDING", "NONE"}
    BY <1>0, <2>2, <2>3 DEF AttemptShape, Success
  <2>5. req'[r].pc = "done"
    BY <1>0, <2>2 DEF At
  <2>6. \A q \in Requests \ {r} : attempts'[q] = attempts[q] /\ req'[q] = req[q]
    BY <1>0, <2>2, <2>3
  <2>7. attempts'[r] # NoAttempt
    BY <2>4 DEF NoAttempt
  <2> QED
    BY <1>2, <2>4, <2>5, <2>6, <2>7 DEF ProgressHolds, Reading
<1>5. CASE Administer
  <2>1. req' = req /\ attempts' = attempts
    BY <1>5, CatalogSteps
  <2> QED
    BY <2>1 DEF ProgressHolds
<1> QED
  BY <1>1, <1>3, <1>4, <1>5 DEF Next, Ingest, Quiet

\* What was read stays where it was read: FindDocument is the only step that
\* reads a document, and no step moves a version to another one.
LEMMA ReadsStep ==
  ASSUME Shapes, ProgressHolds, ReadsHold, OneCurrentVersion, [Next]_vars
  PROVE  ReadsHold'
<1> DEFINE Holds(d, v, c) ==
             /\ IF d = 0 THEN v = 0 ELSE d \in Docs /\ v \in Versions /\ versions[v].doc = d
             /\ v # 0 => versions[v].content.text # c.text
           HoldsAfter(d, v, c) ==
             /\ IF d = 0 THEN v = 0 ELSE d \in Docs' /\ v \in Versions' /\ versions'[v].doc = d
             /\ v # 0 => versions'[v].content.text # c.text
<1>0. /\ \A r \in Requests : req[r] \in RequestShape
      /\ req \in [Requests -> RequestShape]
      /\ Versions = 1..Len(versions) /\ Docs = 1..Len(docs)
      /\ Len(versions) \in Nat /\ Len(docs) \in Nat
  BY Rows DEF Shapes
<1>1. ASSUME NEW d, NEW v, NEW c, Holds(d, v, c)
      PROVE  HoldsAfter(d, v, c)
  <2>1. v \in Versions => v \in Versions' /\ SameVersion(versions'[v], versions[v])
    BY RowsStay
  <2>2. d \in Docs => d \in Docs'
    BY RowsStay
  <2>3. v # 0 => v \in Versions
    BY <1>1
  <2> QED
    BY <1>1, <2>1, <2>2, <2>3 DEF SameVersion
<1>2. ASSUME NEW q \in Requests, req[q].pc \in FoundSteps, req'[q].pc \in FoundSteps,
             req'[q].doc = req[q].doc, req'[q].current = req[q].current
      PROVE  HoldsAfter(req'[q].doc, req'[q].current, ContentOf(q)')
  <2>1. Holds(req[q].doc, req[q].current, ContentOf(q))
    BY <1>2 DEF ReadsHold, VersionsOf
  <2>2. attempts[q] # NoAttempt
    BY <1>2 DEF ProgressHolds, FoundSteps
  <2>3. ContentOf(q)' = ContentOf(q)
    BY <2>2, RowsStay
  <2> HIDE DEF Holds, HoldsAfter
  <2> QED
    BY <1>1, <1>2, <2>1, <2>3
<1>3. ASSUME NEW q \in Requests, FindDocument(q), req'[q].pc \in FoundSteps
      PROVE  HoldsAfter(req'[q].doc, req'[q].current, ContentOf(q)')
  <2> DEFINE d == ActiveDocument
             v == CurrentVersion(d)
  <2>1. /\ req[q].pc = "sourced" /\ Unchanged(ContentOf(q), v) = "NO"
        /\ req'[q] = [req[q] EXCEPT !.pc = "found", !.doc = d, !.current = v]
    BY <1>0, <1>3 DEF FindDocument, Close, Advance, At, FoundSteps
  <2>2. req'[q].doc = d /\ req'[q].current = v
    BY <1>0, <2>1 DEF RequestShape
  <2>3. d = 0 \/ d \in Docs
    BY DEF ActiveDocument
  <2>4. d \in Docs => docs[d].current \in VersionsOf(d)
    BY DEF OneCurrentVersion
  <2>5. IF d = 0 THEN v = 0 ELSE d \in Docs /\ v \in Versions /\ versions[v].doc = d
    BY <2>3, <2>4 DEF CurrentVersion, VersionsOf
  <2>6. v # 0 => versions[v].content.text # ContentOf(q).text
    BY <2>1 DEF Unchanged
  <2>7. attempts[q] # NoAttempt
    BY <2>1 DEF ProgressHolds, Reading
  <2>8. ContentOf(q)' = ContentOf(q)
    BY <2>7, RowsStay
  <2>9. HoldsAfter(d, v, ContentOf(q))
    BY <1>1, <2>5, <2>6
  <2> HIDE DEF HoldsAfter, d, v
  <2> QED
    BY <2>2, <2>8, <2>9
<1>4. ASSUME NEW q \in Requests, req'[q].pc \in FoundSteps
      PROVE  HoldsAfter(req'[q].doc, req'[q].current, ContentOf(q)')
  <2>1. ASSUME NEW r \in Requests, Quiet(r), ~FindDocument(q)
        PROVE  /\ req[q].pc \in FoundSteps
               /\ req'[q].doc = req[q].doc /\ req'[q].current = req[q].current
    <3>1. CASE q # r
      BY <1>0, <1>4, <2>1, <3>1, QuietSteps
    <3>2. CASE q = r
      <4>1. ~(\E c \in Contents : Open(q, c))
        BY <1>0, <1>4 DEF Open, FoundSteps, RequestShape
      <4>2. ~TakeSource(q)
        BY <1>0, <1>4 DEF TakeSource, Advance, FoundSteps, RequestShape
      <4>3. ~RefuseSubmission(q) /\ ~Refuse(q)
        BY <1>0, <1>4 DEF RefuseSubmission, Refuse, Advance, Close, At, FoundSteps
      <4>4. CASE Gate(q)
        <5>1. req[q].pc = "found" /\ req'[q] = [req[q] EXCEPT !.pc = "cleared"]
          BY <1>0, <1>4, <4>4 DEF Gate, Advance, Close, At, FoundSteps
        <5> QED
          BY <1>0, <5>1 DEF FoundSteps, RequestShape
      <4>5. CASE Embed(q)
        <5>1. req[q].pc = "cleared" /\ req'[q] = [req[q] EXCEPT !.pc = "embedded"]
          BY <1>0, <1>4, <4>5 DEF Embed, Advance, Close, At, FoundSteps
        <5> QED
          BY <1>0, <5>1 DEF FoundSteps, RequestShape
      <4> QED
        BY <2>1, <3>2, <4>1, <4>2, <4>3, <4>4, <4>5 DEF Quiet
    <3> QED
      BY <3>1, <3>2
  <2>2. ASSUME NEW r \in Requests, Commit(r)
        PROVE  req[q].pc \in FoundSteps /\ req'[q] = req[q]
    BY <1>0, <1>4, <2>2 DEF Commit, At, FoundSteps
  <2>3. ASSUME Administer \/ UNCHANGED vars
        PROVE  req[q].pc \in FoundSteps /\ req'[q] = req[q]
    BY <1>4, <2>3, CatalogSteps DEF vars
  <2> QED
    BY <1>2, <1>3, <1>4, <2>1, <2>2, <2>3 DEF Next, Ingest, Quiet
<1> QED
  BY <1>4 DEF ReadsHold, VersionsOf

\* What the gate calls cleared has a ruling in its favour.
LEMMA ClearedIsRuled ==
  ASSUME Shapes, NEW c, NEW k \in Cleared(c)
  PROVE  RuledHarmless(c, k)
<1>1. PICK i \in DOMAIN dispositions :
        About(dispositions[i], c, k) /\ dispositions[i].verdict \in Unblocking
  BY DEF Cleared
<1>2. dispositions[i] \in DispositionRow
  BY Rows
<1>3. dispositions[i] = [content |-> c, secret |-> k, verdict |-> "FALSE_POSITIVE"]
  BY <1>1, <1>2 DEF DispositionRow, About, Unblocking
<1> QED
  BY <1>3 DEF RuledHarmless

\* Only the gate lets a request go on to the provider.
LEMMA GateStep ==
  ASSUME Shapes, ProgressHolds, ReadsHold, GateHolds, [Next]_vars
  PROVE  GateHolds'
<1> DEFINE Past == {"cleared", "embedded"}
<1>0. /\ \A r \in Requests : req[r] \in RequestShape
      /\ req \in [Requests -> RequestShape]
  BY Rows DEF Shapes
<1>1. ASSUME NEW q \in Requests, req'[q].pc \in Past,
             \A k \in ContentOf(q).secrets : RuledHarmless(ContentOf(q), k),
             attempts[q] # NoAttempt
      PROVE  \A k \in ContentOf(q)'.secrets : RuledHarmless(ContentOf(q), k)'
  <2>1. ContentOf(q)' = ContentOf(q)
    BY <1>1, RowsStay
  <2>2. \A k : RuledHarmless(ContentOf(q), k) => RuledHarmless(ContentOf(q), k)'
    <3>1. \A c, k : RuledHarmless(c, k) => RuledHarmless(c, k)'
      BY RulingsStay
    <3> QED
      BY <2>1, <3>1 DEF RuledHarmless
  <2> QED
    BY <1>1, <2>1, <2>2
<1>2. ASSUME NEW q \in Requests, req'[q].pc \in Past
      PROVE  \/ req[q].pc \in Past
             \/ req[q].pc = "found" /\ ContentOf(q).secrets \ Cleared(ContentOf(q)) = {}
  <2>1. ASSUME NEW r \in Requests, Quiet(r)
        PROVE  \/ req[q].pc \in Past
               \/ req[q].pc = "found" /\ ContentOf(q).secrets \ Cleared(ContentOf(q)) = {}
    <3>1. CASE q # r
      BY <1>0, <1>2, <2>1, <3>1, QuietSteps
    <3>2. CASE q = r
      <4>1. ~(\E c \in Contents : Open(q, c))
        BY <1>0, <1>2 DEF Open, RequestShape
      <4>2. ~TakeSource(q) /\ ~FindDocument(q)
        <5>1. ~TakeSource(q)
          BY <1>0, <1>2 DEF TakeSource, Advance, RequestShape
        <5>2. ASSUME FindDocument(q)
              PROVE  req'[q].pc \in {"found", "done"}
          <6>1. PICK d, v, same :
                  IF same = "NO"
                  THEN req' = [req EXCEPT ![q] =
                                 [req[q] EXCEPT !.pc = "found", !.doc = d, !.current = v]]
                  ELSE req' = [req EXCEPT ![q] = At("done")]
            BY <5>2 DEF FindDocument, Advance, Close
          <6>2. CASE same = "NO"
            <7>1. req'[q] = [req[q] EXCEPT !.pc = "found", !.doc = d, !.current = v]
              BY <1>0, <6>1, <6>2
            <7>2. req[q] \in RequestShape
              BY <1>0
            <7> QED
              BY <7>1, <7>2 DEF RequestShape
          <6>3. CASE same # "NO"
            BY <1>0, <6>1, <6>3 DEF At
          <6> QED
            BY <6>2, <6>3
        <5> QED
          BY <1>2, <5>1, <5>2
      <4>3. ~RefuseSubmission(q) /\ ~Refuse(q)
        BY <1>0, <1>2 DEF RefuseSubmission, Refuse, Advance, Close, At
      <4>4. CASE Gate(q)
        BY <1>0, <1>2, <4>4 DEF Gate, Close, At
      <4>5. CASE Embed(q)
        BY <4>5 DEF Embed
      <4> QED
        BY <2>1, <3>2, <4>1, <4>2, <4>3, <4>4, <4>5 DEF Quiet
    <3> QED
      BY <3>1, <3>2
  <2>2. ASSUME NEW r \in Requests, Commit(r)
        PROVE  req[q].pc \in Past
    BY <1>0, <1>2, <2>2 DEF Commit, At
  <2>3. ASSUME Administer \/ UNCHANGED vars
        PROVE  req[q].pc \in Past
    BY <1>2, <2>3, CatalogSteps DEF vars
  <2> QED
    BY <2>1, <2>2, <2>3 DEF Next, Ingest, Quiet
<1>3. ASSUME NEW q \in Requests, req'[q].pc \in Past
      PROVE  \A k \in ContentOf(q)'.secrets : RuledHarmless(ContentOf(q), k)'
  <2>1. attempts[q] # NoAttempt
    BY <1>2, <1>3 DEF ProgressHolds
  <2>2. \A k \in ContentOf(q).secrets : RuledHarmless(ContentOf(q), k)
    BY <1>2, <1>3, ClearedIsRuled DEF GateHolds
  <2> QED
    BY <1>1, <1>3, <2>1, <2>2
<1> QED
  BY <1>3 DEF GateHolds

\* A content about which there is a ruling in its favour was turned away.
LEMMA RuledWasTurnedAway ==
  ASSUME RulingsHold, NEW c, NEW k, RuledHarmless(c, k)
  PROVE  TurnedAway(c)
BY DEF RulingsHold, RuledHarmless

\* An attempt has findings only when the gate turned it away, or when all its
\* matches had been ruled on before.
LEMMA FindingsOfAStep ==
  ASSUME Shapes, ProgressHolds, ReadsHold, GateHolds, NEW r \in Requests, Quiet(r)
  PROVE  \/ attempts'[r] = attempts[r]
         \/ attempts'[r].findings = {}
         \/ /\ attempts'[r].content = ContentOf(r)
            /\ attempts'[r].findings \subseteq ContentOf(r).secrets
            /\ \/ attempts'[r].outcome = "REJECTED_SECRET"
               \/ \A k \in attempts'[r].findings : RuledHarmless(ContentOf(r), k)
<1>0. /\ req[r] \in RequestShape
      /\ attempts \in [Requests -> AttemptShape \cup {NoAttempt}]
  BY Rows DEF Shapes
<1>1. CASE \E c \in Contents : Open(r, c)
  BY <1>0, <1>1 DEF Open, Pending
<1>2. CASE \E now : Advance(r, now)
  BY <1>2 DEF Advance
<1>3. ASSUME req[r].pc \in {"opened"} \cup Reading
      PROVE  attempts[r] \in AttemptShape
  BY <1>3, Rows DEF ProgressHolds, Reading
<1>4. ASSUME NEW outcome, NEW findings, Close(r, outcome, findings),
             req[r].pc \in {"opened"} \cup Reading
      PROVE  /\ attempts'[r].content = ContentOf(r)
             /\ attempts'[r].outcome = outcome /\ attempts'[r].findings = findings
  <2>1. attempts[r] \in AttemptShape
    BY <1>3, <1>4
  <2> QED
    BY <1>0, <1>4, <2>1 DEF Close, AttemptShape, ContentOf
<1>5. CASE RefuseSubmission(r)
  BY <1>4, <1>5 DEF RefuseSubmission
<1>6. CASE FindDocument(r)
  <2>1. req[r].pc \in Reading
    BY <1>6 DEF FindDocument, Reading
  <2>2. (\E now : Advance(r, now)) \/ \E outcome : Close(r, outcome, {})
    BY <1>6 DEF FindDocument
  <2> QED
    BY <1>2, <1>4, <2>1, <2>2
<1>7. CASE Gate(r)
  <2> DEFINE c == ContentOf(r)
  <2>1. req[r].pc \in Reading
    BY <1>7 DEF Gate, Reading
  <2>2. \/ \E now : Advance(r, now)
        \/ Close(r, "REJECTED_SECRET", c.secrets)
        \/ c.secrets \subseteq Cleared(c) /\ Close(r, "REJECTED_INVALID", c.secrets)
    BY <1>7 DEF Gate
  <2>3. \A k \in Cleared(c) : RuledHarmless(c, k)
    BY ClearedIsRuled
  <2> QED
    BY <1>2, <1>4, <2>1, <2>2, <2>3
<1>8. CASE Embed(r)
  <2> DEFINE c == ContentOf(r)
  <2>1. req[r].pc = "cleared"
    BY <1>8 DEF Embed
  <2>2. (\E now : Advance(r, now)) \/ Close(r, "FAILED_EMBEDDING", c.secrets)
    BY <1>8 DEF Embed
  <2>3. \A k \in c.secrets : RuledHarmless(c, k)
    BY <2>1 DEF GateHolds
  <2> QED
    BY <1>2, <1>4, <2>1, <2>2, <2>3 DEF Reading
<1>9. CASE TakeSource(r) \/ Refuse(r)
  BY <1>2, <1>9 DEF TakeSource, Refuse
<1> QED
  BY <1>1, <1>5, <1>6, <1>7, <1>8, <1>9 DEF Quiet

\* So every ruling and every finding is of a content that was turned away.
LEMMA RulingsStep ==
  ASSUME Shapes, ProgressHolds, ReadsHold, GateHolds, RulingsHold, [Next]_vars
  PROVE  RulingsHold'
<1> DEFINE TurnedAwayAfter(c) ==
             \E r \in Requests : /\ attempts'[r] # NoAttempt
                                 /\ attempts'[r].content = c
                                 /\ attempts'[r].outcome = "REJECTED_SECRET"
<1>0. /\ \A r \in Requests : attempts[r] # NoAttempt => attempts[r] \in AttemptShape
      /\ attempts \in [Requests -> AttemptShape \cup {NoAttempt}]
      /\ dispositions \in Seq(DispositionRow)
  BY Rows DEF Shapes
<1>1. ASSUME NEW c, TurnedAway(c)
      PROVE  TurnedAwayAfter(c)
  BY <1>1, RulingsStay DEF TurnedAway, ContentOf
<1>2. \A i \in DOMAIN dispositions' : TurnedAwayAfter(dispositions'[i].content)
  <2>1. CASE dispositions' = dispositions
    BY <1>1, <2>1 DEF RulingsHold
  <2>2. CASE Ruled
    <3>1. PICK r \in Requests, k \in AllSecrets, verdict \in Verdicts :
            /\ attempts[r] # NoAttempt /\ k \in attempts[r].findings
            /\ dispositions' = Append(dispositions,
                 [content |-> ContentOf(r), secret |-> k, verdict |-> verdict])
      BY <2>2 DEF Ruled
    <3> DEFINE row == [content |-> ContentOf(r), secret |-> k, verdict |-> verdict]
    <3>2. row \in DispositionRow /\ row.content = ContentOf(r)
      BY <1>0, <3>1 DEF DispositionRow, AttemptShape, ContentOf, AllSecrets
    <3>3. TurnedAway(row.content)
      BY <3>1, <3>2 DEF RulingsHold
    <3>4. dispositions' = Append(dispositions, row)
      BY <3>1
    <3> HIDE DEF row, TurnedAwayAfter
    <3>5. \A i \in DOMAIN dispositions' :
            \/ i \in DOMAIN dispositions /\ dispositions'[i] = dispositions[i]
            \/ dispositions'[i] = row
      BY <1>0, <3>2, <3>4, AppendedRow
    <3> QED
      BY <1>1, <3>3, <3>5 DEF RulingsHold
  <2>3. dispositions' = dispositions \/ Ruled
    <3>1. ASSUME NEW r \in Requests, Quiet(r)
          PROVE  dispositions' = dispositions
      BY <3>1, QuietSteps DEF Tables
    <3>2. ASSUME NEW r \in Requests, Commit(r)
          PROVE  dispositions' = dispositions
      BY <3>2 DEF Commit
    <3> QED
      BY <3>1, <3>2, CatalogSteps DEF Next, Ingest, Quiet, vars
  <2> QED
    BY <2>1, <2>2, <2>3
<1>3. ASSUME NEW q \in Requests, attempts'[q] = attempts[q], attempts'[q] # NoAttempt
      PROVE  /\ attempts'[q].findings \subseteq attempts'[q].content.secrets
             /\ attempts'[q].findings # {} => TurnedAwayAfter(attempts'[q].content)
  BY <1>1, <1>3 DEF RulingsHold, ContentOf
<1>4. ASSUME NEW q \in Requests, Quiet(q), attempts'[q] # NoAttempt
      PROVE  /\ attempts'[q].findings \subseteq attempts'[q].content.secrets
             /\ attempts'[q].findings # {} => TurnedAwayAfter(attempts'[q].content)
  <2>1. CASE attempts'[q] = attempts[q] \/ attempts'[q].findings = {}
    BY <1>3, <1>4, <2>1
  <2>2. CASE /\ attempts'[q].content = ContentOf(q)
             /\ attempts'[q].findings \subseteq ContentOf(q).secrets
             /\ attempts'[q].outcome = "REJECTED_SECRET"
    BY <1>4, <2>2
  <2>3. CASE /\ attempts'[q].content = ContentOf(q)
             /\ attempts'[q].findings \subseteq ContentOf(q).secrets
             /\ \A k \in attempts'[q].findings : RuledHarmless(ContentOf(q), k)
    <3>1. attempts'[q].findings # {} => TurnedAway(ContentOf(q))
      BY <2>3, RuledWasTurnedAway
    <3> QED
      BY <1>1, <2>3, <3>1
  <2> QED
    BY <1>4, <2>1, <2>2, <2>3, FindingsOfAStep
<1>5. ASSUME NEW r \in Requests, Commit(r)
      PROVE  /\ attempts'[r].content = attempts[r].content
             /\ attempts'[r].findings = {}
  <2>1. attempts[r] \in AttemptShape /\ attempts[r].findings = {}
    <3>1. req[r].pc = "embedded"
      BY <1>5 DEF Commit
    <3>2. attempts[r] = Pending(ContentOf(r)) /\ attempts[r] # NoAttempt
      BY <3>1 DEF ProgressHolds, Reading
    <3>3. Pending(ContentOf(r)).findings = {}
      BY DEF Pending
    <3> QED
      BY <1>0, <3>2, <3>3
  <2>2. \E v : attempts' = [attempts EXCEPT ![r].outcome = Success(r), ![r].version = v]
    BY <1>5 DEF Commit
  <2> QED
    BY <1>0, <2>1, <2>2 DEF AttemptShape
<1>6. ASSUME NEW q \in Requests, attempts'[q] # NoAttempt
      PROVE  /\ attempts'[q].findings \subseteq attempts'[q].content.secrets
             /\ attempts'[q].findings # {} => TurnedAwayAfter(attempts'[q].content)
  <2> HIDE DEF TurnedAwayAfter
  <2>1. ASSUME NEW r \in Requests, Quiet(r)
        PROVE  q = r \/ attempts'[q] = attempts[q]
    BY <1>0, <2>1, QuietSteps
  <2>2. ASSUME NEW r \in Requests, Commit(r)
        PROVE  \/ attempts'[q].findings = {}
               \/ attempts'[q] = attempts[q]
    <3>1. q # r => attempts'[q] = attempts[q]
      BY <1>0, <2>2 DEF Commit
    <3> QED
      BY <1>5, <2>2, <3>1
  <2>3. ASSUME Administer \/ UNCHANGED vars
        PROVE  attempts'[q] = attempts[q]
    BY <2>3, CatalogSteps DEF vars
  <2> QED
    BY <1>3, <1>4, <1>6, <2>1, <2>2, <2>3 DEF Next, Ingest, Quiet
<1> QED
  BY <1>2, <1>6 DEF RulingsHold, TurnedAway, ContentOf

-----------------------------------------------------------------------------
(* Versions *)

\* Versions and documents are inserted by commits alone.
LEMMA OnlyCommitsInsert ==
  ASSUME Shapes, ProgressHolds, [Next]_vars, \A r \in Requests : ~Commit(r)
  PROVE  /\ Versions' = Versions /\ Docs' = Docs
         /\ source'.life = "ACTIVE" => source.life = "ACTIVE"
         /\ \A d \in Docs : /\ docs'[d].current = docs[d].current
                            /\ docs'[d].life = "ACTIVE" => docs[d].life = "ACTIVE"
         /\ \A v \in Versions :
              /\ SameVersion(versions'[v], versions[v])
              /\ versions'[v].superseded = versions[v].superseded
              /\ versions'[v].retrievable => versions[v].retrievable
              /\ /\ source'.life = "ACTIVE" /\ versions[v].doc \in Docs
                 /\ docs'[versions[v].doc].life = "ACTIVE" /\ versions[v].retrievable
                 => versions'[v].retrievable
<1>1. CASE UNCHANGED <<source, docs, versions>>
  BY <1>1 DEF Versions, Docs, SameVersion
<1>2. CASE Administer
  BY <1>2, CatalogSteps
<1>3. ASSUME NEW r \in Requests, Quiet(r)
      PROVE  UNCHANGED <<source, docs, versions>>
  BY <1>3, QuietSteps DEF Tables
<1> QED
  BY <1>1, <1>2, <1>3 DEF Next, Ingest, Quiet, vars

\* A commit gives its attempt the version, and no other step gives an attempt
\* one: it stays with the version, and the version with the attempt.
LEMMA MadeStep ==
  ASSUME Shapes, ProgressHolds, ReadsHold, MadeHolds, [Next]_vars
  PROVE  MadeHolds'
<1> USE DEF ContentOf
<1>0. /\ \A r \in Requests : attempts[r] # NoAttempt => attempts[r] \in AttemptShape
      /\ \A v \in Versions : versions[v] \in VersionShape
      /\ attempts \in [Requests -> AttemptShape \cup {NoAttempt}]
  BY Rows DEF Shapes
<1>1. ASSUME NEW r \in Requests, Commit(r)
      PROVE  LET v == Len(versions) + 1
             IN  /\ Versions' = Versions \cup {v} /\ versions'[v].attempt = r
                 /\ versions'[v].content = attempts[r].content
                 /\ versions'[v].no = NextNumber(r)
                 /\ attempts'[r] # NoAttempt /\ attempts'[r].outcome = Success(r)
                 /\ attempts'[r].version = v /\ attempts'[r].content = attempts[r].content
                 /\ \A q \in Requests \ {r} : attempts'[q] = attempts[q]
  <2>1. PICK d, v : /\ d = (IF req[r].doc = 0 THEN Len(docs) + 1 ELSE req[r].doc)
                    /\ v = Len(versions) + 1
    OBVIOUS
  <2>2. /\ Versions' = Versions \cup {v} /\ versions'[v] = NewVersion(r, d)
        /\ attempts[r] \in AttemptShape
    BY <1>1, <2>1, CommitStep
  <2>3. attempts' = [attempts EXCEPT ![r].outcome = Success(r), ![r].version = v]
    BY <1>1, <2>1 DEF Commit
  <2>4. /\ attempts'[r].outcome = Success(r) /\ attempts'[r].version = v
        /\ attempts'[r].content = attempts[r].content
        /\ \A q \in Requests \ {r} : attempts'[q] = attempts[q]
    BY <1>0, <2>2, <2>3 DEF AttemptShape
  <2>5. Success(r) # "NONE"
    BY DEF Success
  <2>6. attempts'[r] # NoAttempt
    BY <2>4, <2>5 DEF NoAttempt
  <2>7. /\ versions'[v].attempt = r /\ versions'[v].content = attempts[r].content
        /\ versions'[v].no = NextNumber(r)
    BY <2>2 DEF NewVersion
  <2> QED
    BY <2>1, <2>2, <2>4, <2>6, <2>7
<1>2. ASSUME NEW v \in Versions'
      PROVE  LET a == attempts'[versions'[v].attempt]
             IN  a # NoAttempt /\ a.outcome \in Successes /\ a.version = v
  <2>1. CASE v \in Versions
    <3> DEFINE q == versions[v].attempt
    <3>1. q \in Requests
      BY <1>0, <2>1 DEF VersionShape
    <3>2. /\ attempts[q] # NoAttempt /\ attempts[q].outcome \in Successes
          /\ attempts[q].version = v
      BY <2>1 DEF MadeHolds
    <3>3. attempts'[q] = attempts[q]
      BY <3>1, <3>2, RowsStay DEF Successes
    <3>4. versions'[v].attempt = q
      BY <2>1, RowsStay DEF SameVersion
    <3> QED
      BY <3>2, <3>3, <3>4
  <2>2. CASE v \notin Versions
    <3>1. PICK r \in Requests : Commit(r)
      BY <1>2, <2>2, OnlyCommitsInsert
    <3>2. Success(r) \in Successes
      BY DEF Success, Successes
    <3> QED
      BY <1>1, <1>2, <2>2, <3>1, <3>2
  <2> QED
    BY <2>1, <2>2
<1>3. ASSUME NEW q \in Requests, attempts'[q] # NoAttempt
      PROVE  IF attempts'[q].outcome \in Successes
             THEN LET v == attempts'[q].version
                  IN  /\ v \in Versions' /\ versions'[v].attempt = q
                      /\ versions'[v].content = attempts'[q].content
                      /\ attempts'[q].outcome = "CREATED" <=> versions'[v].no = 1
             ELSE attempts'[q].version = 0
  <2>1. CASE attempts'[q] = attempts[q]
    <3>1. CASE attempts[q].outcome \in Successes
      <4>1. PICK v \in Versions : /\ attempts[q].version = v /\ versions[v].attempt = q
                                  /\ versions[v].content = attempts[q].content
                                  /\ attempts[q].outcome = "CREATED" <=> versions[v].no = 1
        BY <1>3, <2>1, <3>1 DEF MadeHolds
      <4>2. v \in Versions' /\ SameVersion(versions'[v], versions[v])
        BY RowsStay
      <4> QED
        BY <2>1, <3>1, <4>1, <4>2 DEF SameVersion
    <3>2. CASE attempts[q].outcome \notin Successes
      BY <1>3, <2>1, <3>2 DEF MadeHolds
    <3> QED
      BY <3>1, <3>2
  <2>2. ASSUME Quiet(q), attempts'[q] # attempts[q]
        PROVE  attempts'[q].outcome \notin Successes /\ attempts'[q].version = 0
    <3>1. CASE \E c \in Contents : attempts' = [attempts EXCEPT ![q] = Pending(c)]
      BY <1>0, <3>1 DEF Pending, Successes
    <3>2. ASSUME NEW outcome \in Unsuccessful, NEW findings,
                 req[q].pc \in {"opened"} \cup Reading,
                 attempts' = [attempts EXCEPT ![q].outcome = outcome,
                                              ![q].findings = findings]
          PROVE  attempts'[q].outcome \notin Successes /\ attempts'[q].version = 0
      <4>1. attempts[q] = Pending(attempts[q].content) /\ attempts[q] # NoAttempt
        BY <3>2 DEF ProgressHolds, Reading
      <4>2. attempts[q] \in AttemptShape /\ attempts[q].version = 0
        BY <1>0, <4>1 DEF Pending
      <4> QED
        BY <1>0, <3>2, <4>2 DEF AttemptShape, Unsuccessful
    <3>3. \/ \E c \in Contents : attempts' = [attempts EXCEPT ![q] = Pending(c)]
          \/ attempts' = attempts
          \/ /\ req[q].pc \in {"opened"} \cup Reading
             /\ \E outcome \in Unsuccessful, findings \in SUBSET ContentOf(q).secrets :
                  attempts' = [attempts EXCEPT ![q].outcome = outcome,
                                               ![q].findings = findings]
      BY <2>2, QuietSteps
    <3> QED
      BY <2>2, <3>1, <3>2, <3>3
  <2>3. ASSUME Commit(q)
        PROVE  LET v == attempts'[q].version
               IN  /\ v \in Versions' /\ versions'[v].attempt = q
                   /\ versions'[v].content = attempts'[q].content
                   /\ attempts'[q].outcome \in Successes
                   /\ attempts'[q].outcome = "CREATED" <=> versions'[v].no = 1
    BY <1>1, <2>3 DEF Success, Successes
  <2>4. Quiet(q) \/ Commit(q) \/ attempts'[q] = attempts[q]
    <3>1. ASSUME NEW r \in Requests, Quiet(r), r # q
          PROVE  attempts'[q] = attempts[q]
      <4>1. \/ \E c \in Contents : attempts' = [attempts EXCEPT ![r] = Pending(c)]
            \/ attempts' = attempts
            \/ \E outcome \in Unsuccessful, findings \in SUBSET ContentOf(r).secrets :
                 attempts' = [attempts EXCEPT ![r].outcome = outcome,
                                              ![r].findings = findings]
        <5> HIDE DEF ContentOf
        <5> QED BY <3>1, QuietSteps
      <4> QED
        BY <1>0, <3>1, <4>1
    <3>2. ASSUME NEW r \in Requests, Commit(r), r # q
          PROVE  attempts'[q] = attempts[q]
      BY <1>1, <3>2
    <3>3. ASSUME Administer \/ UNCHANGED vars
          PROVE  attempts'[q] = attempts[q]
      BY <3>3, CatalogSteps DEF vars
    <3> QED
      BY <3>1, <3>2, <3>3 DEF Next, Ingest, Quiet
  <2> QED
    BY <2>1, <2>2, <2>3, <2>4
<1> QED
  BY <1>2, <1>3 DEF MadeHolds

\* A commit persists what the gate cleared.
LEMMA VersionsStep ==
  ASSUME Shapes, ProgressHolds, ReadsHold, GateHolds, RulingsHold, VersionsHold,
         [Next]_vars
  PROVE  VersionsHold'
<1>1. ASSUME NEW c, \A k \in c.secrets : RuledHarmless(c, k) /\ TurnedAway(c)
      PROVE  \A k \in c.secrets : RuledHarmless(c, k)' /\ TurnedAway(c)'
  BY <1>1, RulingsStay
<1>2. ASSUME NEW v \in Versions', NEW c, c = versions'[v].content
      PROVE  /\ versions'[v].doc \in Docs'
             /\ \A k \in c.secrets : RuledHarmless(c, k)' /\ TurnedAway(c)'
  <2>1. CASE v \in Versions
    <3>1. versions'[v].doc = versions[v].doc /\ c = versions[v].content
      BY <1>2, <2>1, RowsStay DEF SameVersion
    <3>2. versions[v].doc \in Docs'
      BY <2>1, RowsStay DEF VersionsHold
    <3> QED
      BY <1>1, <2>1, <3>1, <3>2 DEF VersionsHold
  <2>2. CASE v \notin Versions
    <3>1. PICK r \in Requests : Commit(r)
      BY <1>2, <2>2, OnlyCommitsInsert
    <3>2. PICK d : d = (IF req[r].doc = 0 THEN Len(docs) + 1 ELSE req[r].doc)
      OBVIOUS
    <3>3. v = Len(versions) + 1
      BY <1>2, <2>2, <3>1, <3>2, CommitStep
    <3>4. versions'[v] = NewVersion(r, d) /\ d \in Docs'
      BY <3>1, <3>2, <3>3, CommitStep
    <3>5. c = ContentOf(r) /\ versions'[v].doc \in Docs'
      BY <1>2, <3>4 DEF NewVersion
    <3>6. req[r].pc = "embedded"
      BY <3>1 DEF Commit
    <3>7. \A k \in c.secrets : RuledHarmless(c, k)
      BY <3>5, <3>6 DEF GateHolds
    <3> QED
      BY <1>1, <3>5, <3>7, RuledWasTurnedAway
  <2> QED
    BY <2>1, <2>2
<1> QED
  BY <1>2 DEF VersionsHold, RuledHarmless, TurnedAway, ContentOf

\* uq_document_version_no keeps the numbers of a document apart.
LEMMA NumbersStep ==
  ASSUME Shapes, ProgressHolds, ReadsHold, VersionsHold, NumbersDiffer, [Next]_vars
  PROVE  NumbersDiffer'
<1>1. \A v \in Versions : SameVersion(versions'[v], versions[v])
  BY RowsStay
<1>2. ASSUME NEW r \in Requests, Commit(r)
      PROVE  NumbersDiffer'
  <2>1. PICK d, v : /\ d = (IF req[r].doc = 0 THEN Len(docs) + 1 ELSE req[r].doc)
                    /\ v = Len(versions) + 1
    OBVIOUS
  <2>2. /\ Versions' = Versions \cup {v} /\ versions'[v] = NewVersion(r, d)
        /\ (req[r].doc = 0 <=> d \notin Docs)
    BY <1>2, <2>1, CommitStep
  <2>3. versions'[v].doc = d /\ versions'[v].no = NextNumber(r)
    BY <2>2 DEF NewVersion
  <2>4. ASSUME NEW w \in Versions, versions[w].doc = d
        PROVE  versions[w].no # NextNumber(r)
    <3>1. d = req[r].doc
      BY <2>1, <2>2, <2>4 DEF VersionsHold
    <3> QED
      BY <1>2, <2>4, <3>1 DEF Commit, Storable, NumberFree, VersionsOf
  <2> QED
    BY <1>1, <2>2, <2>3, <2>4 DEF NumbersDiffer, SameVersion
<1>3. CASE \A r \in Requests : ~Commit(r)
  BY <1>1, <1>3, OnlyCommitsInsert DEF NumbersDiffer, SameVersion
<1> QED
  BY <1>2, <1>3

\* A commit was preceded by the comparison of the texts.
LEMMA TextStep ==
  ASSUME Shapes, ProgressHolds, ReadsHold, VersionsHold, OneCurrentVersion,
         VersionsDifferInText, [Next]_vars
  PROVE  VersionsDifferInText'
<1>1. \A v \in Versions : SameVersion(versions'[v], versions[v])
  BY RowsStay
<1>2. ASSUME NEW v \in Versions
      PROVE  versions[v].supersedes = 0 \/ versions[v].supersedes \in Versions
  BY <1>2 DEF VersionsHold, OneCurrentVersion, VersionsOf
<1>3. ASSUME NEW v \in Versions', versions'[v].supersedes # 0
      PROVE  versions'[versions'[v].supersedes].content.text # versions'[v].content.text
  <2>1. CASE v \in Versions
    BY <1>1, <1>2, <1>3, <2>1 DEF VersionsDifferInText, SameVersion
  <2>2. CASE v \notin Versions
    <3>1. PICK r \in Requests : Commit(r)
      BY <1>3, <2>2, OnlyCommitsInsert
    <3>2. PICK d : d = (IF req[r].doc = 0 THEN Len(docs) + 1 ELSE req[r].doc)
      OBVIOUS
    <3>3. v = Len(versions) + 1
      BY <1>3, <2>2, <3>1, <3>2, CommitStep
    <3>4. versions'[v] = NewVersion(r, d)
      BY <3>1, <3>2, <3>3, CommitStep
    <3>5. versions'[v].content = ContentOf(r) /\ versions'[v].supersedes = req[r].current
      BY <3>4 DEF NewVersion
    <3>6. req[r].pc = "embedded"
      BY <3>1 DEF Commit
    <3>7. /\ req[r].current \in Versions
          /\ versions[req[r].current].content.text # ContentOf(r).text
      BY <1>3, <3>5, <3>6 DEF ReadsHold, FoundSteps, VersionsOf
    <3> QED
      BY <1>1, <3>5, <3>7 DEF SameVersion
  <2> QED
    BY <2>1, <2>2
<1> QED
  BY <1>3 DEF VersionsDifferInText

\* What OneCurrentVersion says of one document.
OneCurrent(d) ==
  LET mine == VersionsOf(d)
      current == docs[d].current
  IN  /\ {versions[v].no : v \in mine} = 1 .. Cardinality(mine)
      /\ versions[current].no = Cardinality(mine)
      /\ {v \in mine : ~versions[v].superseded} = {current}
      /\ {v \in mine : versions[v].retrievable} \subseteq {current}
      /\ source.life = "ACTIVE" /\ docs[d].life = "ACTIVE"
           => versions[current].retrievable
      /\ \A v \in mine : LET before == versions[v].supersedes
           IN  IF versions[v].no = 1 THEN before = 0
               ELSE before \in mine /\ versions[before].no = versions[v].no - 1

\* A document whose versions stay, superseded or not as they were, and leave
\* retrieval only with the document or the source, stays in order.
LEMMA OneCurrentStays ==
  ASSUME Shapes, NEW d \in Docs, OneCurrent(d),
         VersionsOf(d)' = VersionsOf(d), docs'[d].current = docs[d].current,
         source'.life = "ACTIVE" /\ docs'[d].life = "ACTIVE" =>
           source.life = "ACTIVE" /\ docs[d].life = "ACTIVE",
         \A v \in VersionsOf(d) :
           /\ SameVersion(versions'[v], versions[v])
           /\ versions'[v].superseded = versions[v].superseded
           /\ versions'[v].retrievable => versions[v].retrievable
           /\ source'.life = "ACTIVE" /\ docs'[d].life = "ACTIVE" /\ versions[v].retrievable
              => versions'[v].retrievable
  PROVE  OneCurrent(d)'
<1> DEFINE mine == VersionsOf(d)
           current == docs[d].current
<1>1. current \in mine
  BY DEF OneCurrent
<1>2. /\ {versions'[v].no : v \in mine} = {versions[v].no : v \in mine}
      /\ {v \in mine : ~versions'[v].superseded} = {v \in mine : ~versions[v].superseded}
  BY DEF SameVersion
<1>3. {v \in mine : versions'[v].retrievable} \subseteq {current}
  BY DEF OneCurrent
<1>4. versions'[current].no = versions[current].no
  BY <1>1 DEF SameVersion
<1>5. source'.life = "ACTIVE" /\ docs'[d].life = "ACTIVE" => versions'[current].retrievable
  BY <1>1 DEF OneCurrent
<1>6. ASSUME NEW v \in mine
      PROVE  IF versions'[v].no = 1 THEN versions'[v].supersedes = 0
             ELSE /\ versions'[v].supersedes \in mine
                  /\ versions'[versions'[v].supersedes].no = versions'[v].no - 1
  BY <1>6 DEF OneCurrent, SameVersion
<1> HIDE DEF mine
<1>7. VersionsOf(d)' = mine /\ docs'[d].current = current
  BY DEF mine
<1>8. /\ {versions[v].no : v \in mine} = 1 .. Cardinality(mine)
      /\ versions[current].no = Cardinality(mine)
      /\ {v \in mine : ~versions[v].superseded} = {current}
  BY DEF mine, OneCurrent
<1> QED
  BY <1>2, <1>3, <1>4, <1>5, <1>6, <1>7, <1>8 DEF OneCurrent

\* The version committed under a document that exists supersedes its current
\* one, whatever was committed since that was read: the numbers tell.
LEMMA CommitOnTop ==
  ASSUME IInv, NEW r \in Requests, Commit(r), NEW d \in Docs, d = req[r].doc
  PROVE  req[r].current = docs[d].current
<1> DEFINE mine == VersionsOf(d)
           old == req[r].current
           n == Cardinality(mine)
<1>1. req[r].pc = "embedded" /\ d # 0
  BY Rows DEF Commit, IInv
<1>2. old \in mine /\ old # 0
  <2>1. old \in mine
    BY <1>1 DEF IInv, ReadsHold, FoundSteps
  <2> QED
    BY <2>1, Rows DEF VersionsOf, IInv
<1>3. IsFiniteSet(mine) /\ n \in Nat
  <2>1. mine \subseteq 1..Len(versions) /\ Len(versions) \in Nat
    BY Rows DEF VersionsOf, IInv
  <2>2. IsFiniteSet(1..Len(versions))
    BY <2>1, FS_Interval
  <2> QED
    BY <2>1, <2>2, FS_Subset, FS_CardinalityType
<1>4. /\ {versions[v].no : v \in mine} = 1..n
      /\ docs[d].current \in mine /\ versions[docs[d].current].no = n
  BY DEF IInv, OneCurrentVersion
<1>5. \A v \in mine : versions[v].no # versions[old].no + 1
  BY <1>2 DEF Commit, Storable, NumberFree, NextNumber
<1>6. versions[old].no \in 1..n
  BY <1>2, <1>4
<1>7. versions[old].no + 1 \notin 1..n
  BY <1>4, <1>5
<1>8. versions[old].no = n
  BY <1>3, <1>6, <1>7
<1> QED
  BY <1>2, <1>4, <1>8 DEF IInv, NumbersDiffer, VersionsOf

\* The first version of a new document.
LEMMA FirstVersion ==
  ASSUME IInv, NEW r \in Requests, Commit(r), req[r].doc = 0,
         NEW d, d = Len(docs) + 1
  PROVE  OneCurrent(d)'
<1>0. Shapes /\ ProgressHolds /\ ReadsHold /\ VersionsHold
  BY DEF IInv
<1>1. PICK v : v = Len(versions) + 1
  OBVIOUS
<1>2. /\ d \notin Docs /\ Versions' = Versions \cup {v}
      /\ versions'[v] = NewVersion(r, d) /\ docs'[d].current = v
      /\ \A w \in Versions : SameVersion(versions'[w], versions[w])
  BY <1>0, <1>1, CommitStep, RowsStay DEF Next, Ingest
<1>3. req[r].current = 0
  <2>1. req[r].pc = "embedded"
    BY DEF Commit
  <2> QED
    BY <1>0, <2>1 DEF ReadsHold, FoundSteps
<1>4. /\ versions'[v].doc = d /\ versions'[v].no = 1 /\ versions'[v].supersedes = 0
      /\ ~versions'[v].superseded /\ versions'[v].retrievable
  BY <1>2, <1>3 DEF NewVersion, NextNumber
<1>5. VersionsOf(d)' = {v}
  BY <1>0, <1>2, <1>4 DEF VersionsOf, VersionsHold, SameVersion
<1>6. Cardinality({v}) = 1
  BY FS_Singleton
<1>7. {versions'[w].no : w \in {v}} = 1..1
  BY <1>4
<1> QED
  BY <1>2, <1>4, <1>5, <1>6, <1>7 DEF OneCurrent

\* A later version of a document.
LEMMA NextVersion ==
  ASSUME IInv, NEW r \in Requests, Commit(r), NEW d \in Docs, d = req[r].doc
  PROVE  OneCurrent(d)'
<1> DEFINE mine == VersionsOf(d)
           old == req[r].current
           n == Cardinality(mine)
<1>0. Shapes /\ ProgressHolds /\ ReadsHold /\ VersionsHold
  BY DEF IInv
<1>1. OneCurrent(d) /\ old = docs[d].current /\ d # 0
  BY <1>0, Rows, CommitOnTop DEF IInv, OneCurrentVersion, OneCurrent
<1>2. PICK v : v = Len(versions) + 1
  OBVIOUS
<1>3. /\ v \notin Versions /\ Versions' = Versions \cup {v}
      /\ versions'[v] = NewVersion(r, d) /\ docs'[d].current = v
      /\ \A w \in Versions :
           versions'[w] = IF w = old THEN Displaced(versions[w]) ELSE versions[w]
  BY <1>0, <1>1, <1>2, CommitStep
<1>4. \A w \in Versions : versions[w] \in VersionShape
  BY <1>0, Rows
<1>5. old \in mine /\ old \in Versions /\ versions[old].no = n
  BY <1>1 DEF OneCurrent, VersionsOf
<1>6. IsFiniteSet(mine) /\ n \in Nat /\ n >= 1
  <2>1. mine \subseteq 1..Len(versions) /\ Len(versions) \in Nat
    BY <1>0, Rows DEF VersionsOf
  <2>2. IsFiniteSet(1..Len(versions))
    BY <2>1, FS_Interval
  <2>3. IsFiniteSet(mine) /\ n \in Nat
    BY <2>1, <2>2, FS_Subset, FS_CardinalityType
  <2>4. n \in Nat \ {0}
    BY <1>4, <1>5 DEF VersionShape
  <2> QED
    BY <2>3, <2>4
<1>7. /\ versions'[v].doc = d /\ versions'[v].no = n + 1 /\ versions'[v].supersedes = old
      /\ ~versions'[v].superseded /\ versions'[v].retrievable
  <2>1. old # 0
    BY <1>0, <1>5, Rows
  <2> QED
    BY <1>3, <1>5, <2>1 DEF NewVersion, NextNumber
<1>8. \A w \in Versions : SameVersion(versions'[w], versions[w])
  BY <1>3, <1>4, DisplacedVersion DEF SameVersion
<1>9. VersionsOf(d)' = mine \cup {v} /\ v \notin mine
  BY <1>3, <1>7, <1>8 DEF VersionsOf, SameVersion
<1>10. Cardinality(mine \cup {v}) = n + 1
  BY <1>6, <1>9, FS_AddElement
<1>11. \A w \in mine : /\ w \in Versions /\ versions'[w].no = versions[w].no
                       /\ versions'[w].supersedes = versions[w].supersedes
                       /\ versions'[w].superseded /\ ~versions'[w].retrievable
  <2>1. ASSUME NEW w \in mine
        PROVE  versions'[w].superseded /\ ~versions'[w].retrievable
    <3>1. CASE w = old
      BY <1>3, <1>4, <1>5, <3>1, DisplacedVersion
    <3>2. CASE w # old
      <4>1. versions[w].superseded /\ ~versions[w].retrievable
        BY <1>1, <3>2 DEF OneCurrent
      <4>2. versions'[w] = versions[w]
        BY <1>3, <3>2 DEF VersionsOf
      <4> QED
        BY <4>1, <4>2
    <3> QED
      BY <3>1, <3>2
  <2> QED
    BY <1>8, <2>1 DEF VersionsOf, SameVersion
<1>12. /\ {versions[w].no : w \in mine} = 1..n
       /\ \A w \in mine : IF versions[w].no = 1 THEN versions[w].supersedes = 0
                          ELSE /\ versions[w].supersedes \in mine
                               /\ versions[versions[w].supersedes].no = versions[w].no - 1
  BY <1>1 DEF OneCurrent
<1> HIDE DEF mine, n
<1> DEFINE all == mine \cup {v}
<1>13. {versions'[w].no : w \in all} = 1..(n + 1)
  <2>1. {versions'[w].no : w \in all} = {versions[w].no : w \in mine} \cup {n + 1}
    BY <1>7, <1>11
  <2>2. (1..n) \cup {n + 1} = 1..(n + 1)
    BY <1>6
  <2> QED
    BY <1>12, <2>1, <2>2
<1>14. /\ {w \in all : ~versions'[w].superseded} = {v}
       /\ {w \in all : versions'[w].retrievable} = {v}
  BY <1>7, <1>11
<1>15. ASSUME NEW w \in all
       PROVE  IF versions'[w].no = 1 THEN versions'[w].supersedes = 0
              ELSE /\ versions'[w].supersedes \in all
                   /\ versions'[versions'[w].supersedes].no = versions'[w].no - 1
  <2>1. CASE w = v
    <3>1. versions'[old].no = n
      BY <1>5, <1>11
    <3> QED
      BY <1>5, <1>6, <1>7, <2>1, <3>1
  <2>2. CASE w \in mine
    BY <1>11, <1>12, <2>2
  <2> QED
    BY <1>15, <2>1, <2>2
<1>16. VersionsOf(d)' = all /\ Cardinality(all) = n + 1
  BY <1>9, <1>10
<1> HIDE DEF all
<1> QED
  BY <1>3, <1>7, <1>13, <1>14, <1>15, <1>16 DEF OneCurrent

\* Ingests of one reference may interleave as they like: a document's versions
\* stay in line.
LEMMA OneCurrentStep ==
  ASSUME IInv, [Next]_vars
  PROVE  OneCurrentVersion'
<1>0. /\ Shapes /\ ProgressHolds /\ ReadsHold /\ VersionsHold
      /\ \A d \in Docs : OneCurrent(d)
  BY DEF IInv, OneCurrentVersion, OneCurrent
<1>1. ASSUME NEW r \in Requests, Commit(r), NEW e \in Docs'
      PROVE  OneCurrent(e)'
  <2>1. PICK d, v : /\ d = (IF req[r].doc = 0 THEN Len(docs) + 1 ELSE req[r].doc)
                    /\ v = Len(versions) + 1
    OBVIOUS
  <2>2. /\ Docs' = Docs \cup {d} /\ (req[r].doc = 0 <=> d \notin Docs)
        /\ \A c \in Docs : c # d => docs'[c] = docs[c]
        /\ v \notin Versions /\ Versions' = Versions \cup {v}
        /\ versions'[v] = NewVersion(r, d)
        /\ \A w \in Versions :
             versions'[w] = IF w = req[r].current THEN Displaced(versions[w]) ELSE versions[w]
    BY <1>0, <1>1, <2>1, CommitStep
  <2>3. CASE e = d /\ req[r].doc = 0
    BY <1>1, <2>1, <2>3, FirstVersion
  <2>4. CASE e = d /\ req[r].doc # 0
    BY <1>1, <2>1, <2>2, <2>4, NextVersion
  <2>5. CASE e # d
    <3>1. e \in Docs /\ docs'[e] = docs[e] /\ OneCurrent(e)
      BY <1>0, <1>1, <2>2, <2>5
    <3>2. versions'[v].doc = d
      BY <2>2 DEF NewVersion
    <3>3. req[r].current \notin VersionsOf(e)
      <4>1. req[r].pc = "embedded"
        BY <1>1 DEF Commit
      <4>2. IF req[r].doc = 0 THEN req[r].current = 0
            ELSE req[r].current \in VersionsOf(req[r].doc)
        BY <1>0, <4>1 DEF ReadsHold, FoundSteps
      <4>3. 0 \notin Versions
        BY <1>0, Rows
      <4> QED
        BY <2>1, <2>5, <4>2, <4>3 DEF VersionsOf
    <3>4. \A w \in VersionsOf(e) : versions'[w] = versions[w]
      BY <2>2, <3>3 DEF VersionsOf
    <3>5. \A w \in Versions : versions'[w].doc = versions[w].doc
      BY <1>0, <1>1, RowsStay DEF SameVersion, Next, Ingest
    <3>6. VersionsOf(e)' = VersionsOf(e)
      BY <2>2, <2>5, <3>2, <3>5 DEF VersionsOf
    <3>7. source' = source
      BY <1>1 DEF Commit
    <3> QED
      BY <1>0, <3>1, <3>4, <3>6, <3>7, OneCurrentStays DEF SameVersion
  <2> QED
    BY <2>3, <2>4, <2>5
<1>2. ASSUME \A r \in Requests : ~Commit(r), NEW d \in Docs'
      PROVE  OneCurrent(d)'
  <2>1. /\ Versions' = Versions /\ Docs' = Docs
        /\ source'.life = "ACTIVE" => source.life = "ACTIVE"
        /\ docs'[d].current = docs[d].current
        /\ docs'[d].life = "ACTIVE" => docs[d].life = "ACTIVE"
        /\ \A v \in Versions :
             /\ SameVersion(versions'[v], versions[v])
             /\ versions'[v].superseded = versions[v].superseded
             /\ versions'[v].retrievable => versions[v].retrievable
             /\ /\ source'.life = "ACTIVE" /\ versions[v].doc \in Docs
                /\ docs'[versions[v].doc].life = "ACTIVE" /\ versions[v].retrievable
                => versions'[v].retrievable
    BY <1>0, <1>2, OnlyCommitsInsert
  <2>2. VersionsOf(d)' = VersionsOf(d)
    BY <2>1 DEF VersionsOf, SameVersion
  <2>3. \A v \in VersionsOf(d) : v \in Versions /\ versions[v].doc = d
    BY DEF VersionsOf
  <2>4. d \in Docs /\ OneCurrent(d)
    BY <1>0, <1>2, <2>1
  <2> QED
    BY <1>0, <2>1, <2>2, <2>3, <2>4, OneCurrentStays
<1>3. \A d \in Docs' : OneCurrent(d)'
  BY <1>1, <1>2
<1> QED
  BY <1>3 DEF OneCurrentVersion, OneCurrent

-----------------------------------------------------------------------------
(* The invariant *)

LEMMA InitHolds ==
  ASSUME Init
  PROVE  IInv
<1>1. Docs = {} /\ Versions = {} /\ DOMAIN dispositions = {}
  BY DEF Init, Docs, Versions
<1>2. \A r \in Requests : /\ req[r] = At("idle") /\ attempts[r] = NoAttempt
                          /\ At("idle").pc = "idle"
  BY DEF Init, At
<1>3. Shapes
  <2>1. At("idle") \in RequestShape
    BY DEF At, RequestShape, Steps
  <2>2. \A r \in Requests : req[r].pc \notin Reading
    BY <1>2 DEF Reading
  <2>3. attempts \in [Requests -> AttemptShape \cup {NoAttempt}]
    BY DEF Init
  <2>4. req \in [Requests -> RequestShape]
    BY <2>1 DEF Init
  <2> QED
    BY <2>2, <2>3, <2>4 DEF Init, Shapes
<1>4. ProgressHolds /\ ReadsHold /\ GateHolds
  BY <1>2 DEF ProgressHolds, ReadsHold, GateHolds, FoundSteps, Reading
<1>5. RulingsHold /\ MadeHolds
  BY <1>1, <1>2 DEF RulingsHold, MadeHolds
<1> QED
  BY <1>1, <1>3, <1>4, <1>5
  DEF IInv, VersionsHold, NumbersDiffer, OneCurrentVersion, VersionsDifferInText

\* Every step keeps the invariant.
LEMMA StepHolds ==
  ASSUME IInv, [Next]_vars
  PROVE  IInv'
<1>1. Shapes' /\ ProgressHolds' /\ ReadsHold'
  BY ShapesStep, ProgressStep, ReadsStep DEF IInv
<1>2. GateHolds' /\ RulingsHold'
  BY GateStep, RulingsStep DEF IInv
<1>3. MadeHolds' /\ VersionsHold' /\ NumbersDiffer'
  BY MadeStep, VersionsStep, NumbersStep DEF IInv
<1>4. OneCurrentVersion' /\ VersionsDifferInText'
  BY OneCurrentStep, TextStep DEF IInv
<1> QED
  BY <1>1, <1>2, <1>3, <1>4 DEF IInv

\* What an ingest read several statements ago is still good enough to commit
\* by (ingest.py:260-472): the invariant holds in every reachable state.
THEOREM Invariance == Spec => []IInv
<1>1. Init => IInv
  BY InitHolds
<1>2. IInv /\ [Next]_vars => IInv'
  BY StepHolds
<1> QED
  BY <1>1, <1>2, PTL DEF Spec

\* Every row has its table's columns, and an attempt names a version exactly
\* when it was successful (models/knowledge.py:394-403).
THEOREM TypeCorrect == Spec => []TypeOK
<1>1. ASSUME IInv
      PROVE  TypeOK
  <2>0. Shapes /\ MadeHolds /\ RulingsHold /\ VersionsHold /\ OneCurrentVersion
    BY <1>1 DEF IInv
  <2>1. \A d \in Docs : docs[d] \in DocumentRow
    <3>1. \A d \in Docs : docs[d] \in DocumentShape /\ docs[d].current \in Versions
      <4>1. \A d \in Docs : docs[d].current \in {v \in VersionsOf(d) : ~versions[v].superseded}
        BY <2>0 DEF OneCurrentVersion
      <4> QED
        BY <2>0, <4>1, Rows DEF VersionsOf
    <3> QED
      BY <3>1 DEF DocumentShape, DocumentRow
  <2>2. \A v \in Versions : versions[v] \in VersionRow
    <3>1. ASSUME NEW v \in Versions
          PROVE  /\ versions[v] \in VersionShape /\ versions[v].doc \in Docs
                 /\ versions[v].supersedes \in 0..Len(versions)
      <4>1. versions[v] \in VersionShape /\ versions[v].doc \in Docs
        BY <2>0, Rows DEF VersionsHold
      <4>2. versions[v].supersedes = 0 \/ versions[v].supersedes \in Versions
        BY <2>0, <4>1 DEF OneCurrentVersion, VersionsOf
      <4> QED
        BY <2>0, <4>1, <4>2, Rows
    <3> QED
      BY <3>1 DEF VersionShape, VersionRow
  <2>3. ASSUME NEW r \in Requests, attempts[r] # NoAttempt
        PROVE  AttemptRow(attempts[r])
    <3>1. attempts[r] \in AttemptShape /\ attempts[r].findings \subseteq ContentOf(r).secrets
      BY <2>0, <2>3, Rows DEF RulingsHold
    <3>2. attempts[r].outcome \in Successes <=> attempts[r].version \in Versions
      <4>1. 0 \notin Versions
        BY <2>0, Rows
      <4> QED
        BY <2>0, <2>3, <4>1 DEF MadeHolds
    <3> QED
      BY <3>1, <3>2 DEF AttemptRow, AttemptShape, ContentOf, Successes
  <2>4. \A i \in DOMAIN dispositions : dispositions[i] \in DispositionRow
    BY <2>0, Rows
  <2> QED
    BY <2>0, <2>1, <2>2, <2>3, <2>4 DEF TypeOK, Shapes
<1> QED
  BY <1>1, Invariance, PTL

\* No secret is persisted that an approver has not ruled a false positive, for
\* those very bytes, on a submission the gate had turned away, however long
\* after the screening the version is committed (ingest.py:329-338).
THEOREM OnlyClearedSecrets == Spec => []SecretsWereCleared
<1>1. ASSUME IInv
      PROVE  SecretsWereCleared
  BY <1>1 DEF IInv, VersionsHold, RuledHarmless, TurnedAway, SecretsWereCleared
<1> QED
  BY <1>1, Invariance, PTL

\* An attempt and the version it claims always name each other, though they
\* are written on two transactions (ingest.py:260-272).
THEOREM TruthfulAttempts == Spec => []AttemptsTellTheTruth
<1>1. ASSUME IInv
      PROVE  AttemptsTellTheTruth
  <2>0. MadeHolds
    BY <1>1 DEF IInv
  <2>1. ASSUME NEW r \in Requests, attempts[r] # NoAttempt
        PROVE  LET made == {v \in Versions : versions[v].attempt = r}
               IN  IF attempts[r].outcome \in {"CREATED", "VERSIONED"}
                   THEN LET v == attempts[r].version
                        IN  /\ made = {v}
                            /\ versions[v].content = ContentOf(r)
                            /\ attempts[r].outcome = "CREATED" <=> versions[v].no = 1
                   ELSE made = {} /\ attempts[r].version = 0
    <3>1. \A v \in Versions : versions[v].attempt = r =>
            attempts[r].outcome \in Successes /\ attempts[r].version = v
      BY <2>0 DEF MadeHolds
    <3> QED
      BY <2>0, <2>1, <3>1 DEF MadeHolds, Successes
  <2> QED
    BY <2>1 DEF AttemptsTellTheTruth
<1> QED
  BY <1>1, Invariance, PTL

\* Concurrent ingests of one reference never leave a document with a gap in
\* its numbers, two current versions, or a superseded one in retrieval: the
\* unique index on the number is enough of a lock (ingest.py:653-686).
THEOREM VersionsInLine == Spec => []OneCurrentVersion
<1>1. IInv => OneCurrentVersion
  BY DEF IInv
<1> QED
  BY <1>1, Invariance, PTL

\* No version repeats the text of the one it supersedes, though the text was
\* compared before the provider was called (ingest.py:444-465).
THEOREM NoVersionRepeated == Spec => []VersionsDifferInText
<1>1. IInv => VersionsDifferInText
  BY DEF IInv
<1> QED
  BY <1>1, Invariance, PTL

----------------------------------------------------------------------------
(* Chunking                                                                *)

(***************************************************************************)
(* What DocumentChunking says of every document, for any kinds of lines    *)
(* and any sizes with an overlap within the ceiling. The document is a     *)
(* variable of its own; in every state it is cut afresh, so the properties *)
(* are about the operators, and the specification contributes the type.    *)
(*                                                                         *)
(* Each stage of chunk_document is a walk that hands the next a list of    *)
(* spans. Two things are kept along all of them: the list is a Chain, one  *)
(* that skips newlines only, and every span of it is Right, filed under    *)
(* the headings in force at each line it touches.                          *)
(***************************************************************************)

----------------------------------------------------------------------------
(* Induction, and the walks *)

(* What holds at 0 and passes from each number to the next holds up to n:  *)
(* the walks over lines and lists in _sections, _paragraph_spans and       *)
(* chunk_document are followed with it. (The library's induction theorem   *)
(* takes an operator.)                                                     *)
LEMMA Upwards ==
  ASSUME NEW n \in Nat, NEW S, 0 \in S, \A i \in 1 .. n : i - 1 \in S => i \in S
  PROVE  \A i \in 0 .. n : i \in S
<1> DEFINE T == {i \in Nat : i <= n /\ i \notin S}
<1>1. SUFFICES ASSUME T # {} PROVE FALSE
  OBVIOUS
<1>2. PICK x \in T : \A y \in T : ~ (<<y, x>> \in OpToRel(<, Nat))
  <2>1. T \subseteq Nat
    OBVIOUS
  <2> HIDE DEF T
  <2> QED
    BY <1>1, <2>1, NatLessThanWellFounded, WFMin
<1>3. x \in Nat /\ x <= n /\ x \notin S
  OBVIOUS
<1>4. \A y \in T : ~(y < x)
  <2>1. T \subseteq Nat
    OBVIOUS
  <2> HIDE DEF T
  <2> QED
    BY <1>2, <2>1 DEF OpToRel
<1>5. x \in 1 .. n
  BY <1>3
<1>6. x - 1 \in T
  BY <1>3, <1>5
<1> QED
  BY <1>4, <1>5, <1>6

(* Parts of the definitions that have no name there.                       *)
Opened(section) == [fence |-> NoFence, block |-> section.start, spans |-> <<>>]
InParagraph(d, section, s, i) ==
  IF LineStarts(d)[i] \in Span(section) THEN NextParagraph(d, s, d[i], LineStarts(d)[i]) ELSE s
Joined(all, more) == all \o more

Empty == [start |-> -1, end |-> 0, out |-> <<>>]

(* The walks of chunking.py are functions that refer to themselves; each   *)
(* lemma here says that there is such a function. First the offsets of the *)
(* lines (chunking.py:117-121).                                            *)
LEMMA LinesRun ==
  ASSUME NEW d \in Seq(Lines)
  PROVE  LineStarts(d) = [i \in 1 .. Len(d) + 1 |->
                            IF i = 1 THEN 0 ELSE LineStarts(d)[i - 1] + d[i - 1].len + 1]
<1> DEFINE S == {m \in 0 .. Len(d) :
                   \E g : g = [i \in 1 .. m + 1 |->
                                 IF i = 1 THEN 0 ELSE g[i - 1] + d[i - 1].len + 1]}
<1>0. Len(d) \in Nat
  OBVIOUS
<1>1. 0 \in S
  <2> DEFINE g == [i \in 1 .. 1 |-> 0]
  <2>1. g = [i \in 1 .. 0 + 1 |-> IF i = 1 THEN 0 ELSE g[i - 1] + d[i - 1].len + 1]
    OBVIOUS
  <2> HIDE DEF g
  <2> QED
    BY <1>0, <2>1
<1>2. ASSUME NEW m \in 1 .. Len(d), m - 1 \in S
      PROVE  m \in S
  <2>1. PICK g : g = [i \in 1 .. m |-> IF i = 1 THEN 0 ELSE g[i - 1] + d[i - 1].len + 1]
    BY <1>2
  <2> DEFINE h == [i \in 1 .. m + 1 |-> IF i = m + 1 THEN g[m] + d[m].len + 1 ELSE g[i]]
  <2>2. h = [i \in 1 .. m + 1 |-> IF i = 1 THEN 0 ELSE h[i - 1] + d[i - 1].len + 1]
    BY <2>1
  <2> HIDE DEF h
  <2> QED
    BY <2>2
<1>3. Len(d) \in S
  <2> HIDE DEF S
  <2>1. \A m \in 1 .. Len(d) : m - 1 \in S => m \in S
    BY <1>2
  <2>2. \A m \in 0 .. Len(d) : m \in S
    BY <1>0, <1>1, <2>1, Upwards
  <2> QED
    BY <1>0, <2>2
<1> QED
  BY <1>3 DEF LineStarts

(* The fence that is open after each line.                                 *)
LEMMA FencesRun ==
  ASSUME NEW d \in Seq(Lines)
  PROVE  Fences(d) =
           [i \in 0 .. Len(d) |-> IF i = 0 THEN NoFence
              ELSE FenceAfter(Fences(d)[i - 1], d[i])]
<1> DEFINE S == {m \in 0 .. Len(d) :
                   \E g : g = [i \in 0 .. m |-> IF i = 0 THEN NoFence
                                 ELSE FenceAfter(g[i - 1], d[i])]}
<1>0. Len(d) \in Nat
  OBVIOUS
<1>1. 0 \in S
  <2> DEFINE g == [i \in 0 .. 0 |-> NoFence]
  <2>1. g = [i \in 0 .. 0 |-> IF i = 0 THEN NoFence
               ELSE FenceAfter(g[i - 1], d[i])]
    OBVIOUS
  <2> HIDE DEF g
  <2> QED
    BY <1>0, <2>1
<1>2. ASSUME NEW m \in 1 .. Len(d), m - 1 \in S
      PROVE  m \in S
  <2>1. PICK g : g = [i \in 0 .. m - 1 |-> IF i = 0 THEN NoFence
                        ELSE FenceAfter(g[i - 1], d[i])]
    BY <1>2
  <2> DEFINE h == [i \in 0 .. m |-> IF i = m THEN FenceAfter(g[m - 1], d[m])
                                    ELSE g[i]]
  <2>2. h = [i \in 0 .. m |-> IF i = 0 THEN NoFence
               ELSE FenceAfter(h[i - 1], d[i])]
    BY <2>1
  <2> HIDE DEF h
  <2> QED
    BY <2>2
<1>3. Len(d) \in S
  <2> HIDE DEF S
  <2>1. \A m \in 1 .. Len(d) : m - 1 \in S => m \in S
    BY <1>2
  <2>2. \A m \in 0 .. Len(d) : m \in S
    BY <1>0, <1>1, <2>1, Upwards
  <2> QED
    BY <1>0, <2>2
<1> QED
  BY <1>3 DEF Fences

(* The walk over the lines in _sections (chunking.py:129-155).             *)
LEMMA SectionsRun ==
  ASSUME NEW d \in Seq(Lines)
  PROVE  SectionWalk(d) =
           [i \in 0 .. Len(d) |-> IF i = 0 THEN AtTop
              ELSE AfterLine(d, SectionWalk(d)[i - 1], d[i], LineStarts(d)[i])]
<1> DEFINE S == {m \in 0 .. Len(d) :
                   \E g : g = [i \in 0 .. m |-> IF i = 0 THEN AtTop
                                 ELSE AfterLine(d, g[i - 1], d[i], LineStarts(d)[i])]}
<1>0. Len(d) \in Nat
  OBVIOUS
<1>1. 0 \in S
  <2> DEFINE g == [i \in 0 .. 0 |-> AtTop]
  <2>1. g = [i \in 0 .. 0 |-> IF i = 0 THEN AtTop
               ELSE AfterLine(d, g[i - 1], d[i], LineStarts(d)[i])]
    OBVIOUS
  <2> HIDE DEF g
  <2> QED
    BY <1>0, <2>1
<1>2. ASSUME NEW m \in 1 .. Len(d), m - 1 \in S
      PROVE  m \in S
  <2>1. PICK g : g = [i \in 0 .. m - 1 |-> IF i = 0 THEN AtTop
                        ELSE AfterLine(d, g[i - 1], d[i], LineStarts(d)[i])]
    BY <1>2
  <2> DEFINE h == [i \in 0 .. m |-> IF i = m THEN AfterLine(d, g[m - 1], d[m], LineStarts(d)[m])
                                    ELSE g[i]]
  <2>2. h = [i \in 0 .. m |-> IF i = 0 THEN AtTop
               ELSE AfterLine(d, h[i - 1], d[i], LineStarts(d)[i])]
    BY <2>1
  <2> HIDE DEF h
  <2> QED
    BY <2>2
<1>3. Len(d) \in S
  <2> HIDE DEF S
  <2>1. \A m \in 1 .. Len(d) : m - 1 \in S => m \in S
    BY <1>2
  <2>2. \A m \in 0 .. Len(d) : m \in S
    BY <1>0, <1>1, <2>1, Upwards
  <2> QED
    BY <1>0, <2>2
<1> QED
  BY <1>3 DEF SectionWalk

(* The walk over a section's lines in _paragraph_spans                     *)
(* (chunking.py:172-184).                                                  *)
LEMMA ParagraphsRun ==
  ASSUME NEW d \in Seq(Lines), NEW section
  PROVE  ParagraphWalk(d, section) =
           [i \in 0 .. Len(d) |-> IF i = 0 THEN Opened(section)
              ELSE InParagraph(d, section, ParagraphWalk(d, section)[i - 1], i)]
<1> DEFINE S == {m \in 0 .. Len(d) :
                   \E g : g = [i \in 0 .. m |-> IF i = 0 THEN Opened(section)
                                 ELSE InParagraph(d, section, g[i - 1], i)]}
<1>0. Len(d) \in Nat
  OBVIOUS
<1>1. 0 \in S
  <2> DEFINE g == [i \in 0 .. 0 |-> Opened(section)]
  <2>1. g = [i \in 0 .. 0 |-> IF i = 0 THEN Opened(section)
               ELSE InParagraph(d, section, g[i - 1], i)]
    OBVIOUS
  <2> HIDE DEF g
  <2> QED
    BY <1>0, <2>1
<1>2. ASSUME NEW m \in 1 .. Len(d), m - 1 \in S
      PROVE  m \in S
  <2>1. PICK g : g = [i \in 0 .. m - 1 |-> IF i = 0 THEN Opened(section)
                        ELSE InParagraph(d, section, g[i - 1], i)]
    BY <1>2
  <2> DEFINE h == [i \in 0 .. m |-> IF i = m THEN InParagraph(d, section, g[m - 1], m)
                                    ELSE g[i]]
  <2>2. h = [i \in 0 .. m |-> IF i = 0 THEN Opened(section)
               ELSE InParagraph(d, section, h[i - 1], i)]
    BY <2>1
  <2> HIDE DEF h
  <2> QED
    BY <2>2
<1>3. Len(d) \in S
  <2> HIDE DEF S
  <2>1. \A m \in 1 .. Len(d) : m - 1 \in S => m \in S
    BY <1>2
  <2>2. \A m \in 0 .. Len(d) : m \in S
    BY <1>0, <1>1, <2>1, Upwards
  <2> QED
    BY <1>0, <2>2
<1> QED
  BY <1>3 DEF ParagraphWalk, Opened, InParagraph

(* The buffer as it passes over a section's paragraphs                     *)
(* (chunking.py:206-218).                                                  *)
LEMMA GatherRun ==
  ASSUME NEW X, NEW list \in Seq(X), NEW path
  PROVE  GatherWalk(list, path) =
           [i \in 0 .. Len(list) |-> IF i = 0 THEN Empty
              ELSE Gather(GatherWalk(list, path)[i - 1], list[i], path)]
<1> DEFINE S == {m \in 0 .. Len(list) :
                   \E g : g = [i \in 0 .. m |-> IF i = 0 THEN Empty
                                 ELSE Gather(g[i - 1], list[i], path)]}
<1>0. Len(list) \in Nat
  OBVIOUS
<1>1. 0 \in S
  <2> DEFINE g == [i \in 0 .. 0 |-> Empty]
  <2>1. g = [i \in 0 .. 0 |-> IF i = 0 THEN Empty
               ELSE Gather(g[i - 1], list[i], path)]
    OBVIOUS
  <2> HIDE DEF g
  <2> QED
    BY <1>0, <2>1
<1>2. ASSUME NEW m \in 1 .. Len(list), m - 1 \in S
      PROVE  m \in S
  <2>1. PICK g : g = [i \in 0 .. m - 1 |-> IF i = 0 THEN Empty
                        ELSE Gather(g[i - 1], list[i], path)]
    BY <1>2
  <2> DEFINE h == [i \in 0 .. m |-> IF i = m THEN Gather(g[m - 1], list[m], path)
                                    ELSE g[i]]
  <2>2. h = [i \in 0 .. m |-> IF i = 0 THEN Empty
               ELSE Gather(h[i - 1], list[i], path)]
    BY <2>1
  <2> HIDE DEF h
  <2> QED
    BY <2>2
<1>3. Len(list) \in S
  <2> HIDE DEF S
  <2>1. \A m \in 1 .. Len(list) : m - 1 \in S => m \in S
    BY <1>2
  <2>2. \A m \in 0 .. Len(list) : m \in S
    BY <1>0, <1>1, <2>1, Upwards
  <2> QED
    BY <1>0, <2>2
<1> QED
  BY <1>3 DEF GatherWalk, Empty

(* The chunks of one section after those of another (chunking.py:203).     *)
LEMMA GatheredRun ==
  ASSUME NEW d, NEW X, NEW list \in Seq(X)
  PROVE  GatheredAll(d, list) =
           [i \in 0 .. Len(list) |-> IF i = 0 THEN <<>>
              ELSE Joined(GatheredAll(d, list)[i - 1], Gathered(d, list[i]))]
<1> DEFINE S == {m \in 0 .. Len(list) :
                   \E g : g = [i \in 0 .. m |-> IF i = 0 THEN <<>>
                                 ELSE Joined(g[i - 1], Gathered(d, list[i]))]}
<1>0. Len(list) \in Nat
  OBVIOUS
<1>1. 0 \in S
  <2> DEFINE g == [i \in 0 .. 0 |-> <<>>]
  <2>1. g = [i \in 0 .. 0 |-> IF i = 0 THEN <<>>
               ELSE Joined(g[i - 1], Gathered(d, list[i]))]
    OBVIOUS
  <2> HIDE DEF g
  <2> QED
    BY <1>0, <2>1
<1>2. ASSUME NEW m \in 1 .. Len(list), m - 1 \in S
      PROVE  m \in S
  <2>1. PICK g : g = [i \in 0 .. m - 1 |-> IF i = 0 THEN <<>>
                        ELSE Joined(g[i - 1], Gathered(d, list[i]))]
    BY <1>2
  <2> DEFINE h == [i \in 0 .. m |-> IF i = m THEN Joined(g[m - 1], Gathered(d, list[m]))
                                    ELSE g[i]]
  <2>2. h = [i \in 0 .. m |-> IF i = 0 THEN <<>>
               ELSE Joined(h[i - 1], Gathered(d, list[i]))]
    BY <2>1
  <2> HIDE DEF h
  <2> QED
    BY <2>2
<1>3. Len(list) \in S
  <2> HIDE DEF S
  <2>1. \A m \in 1 .. Len(list) : m - 1 \in S => m \in S
    BY <1>2
  <2>2. \A m \in 0 .. Len(list) : m \in S
    BY <1>0, <1>1, <2>1, Upwards
  <2> QED
    BY <1>0, <2>2
<1> QED
  BY <1>3 DEF GatheredAll, Joined

(* The pieces of one chunk after those of another (chunking.py:225-231).   *)
LEMMA BoundedRun ==
  ASSUME NEW X, NEW list \in Seq(X)
  PROVE  BoundedAll(list) =
           [i \in 0 .. Len(list) |-> IF i = 0 THEN <<>>
              ELSE Joined(BoundedAll(list)[i - 1], Bounded(list[i]))]
<1> DEFINE S == {m \in 0 .. Len(list) :
                   \E g : g = [i \in 0 .. m |-> IF i = 0 THEN <<>>
                                 ELSE Joined(g[i - 1], Bounded(list[i]))]}
<1>0. Len(list) \in Nat
  OBVIOUS
<1>1. 0 \in S
  <2> DEFINE g == [i \in 0 .. 0 |-> <<>>]
  <2>1. g = [i \in 0 .. 0 |-> IF i = 0 THEN <<>>
               ELSE Joined(g[i - 1], Bounded(list[i]))]
    OBVIOUS
  <2> HIDE DEF g
  <2> QED
    BY <1>0, <2>1
<1>2. ASSUME NEW m \in 1 .. Len(list), m - 1 \in S
      PROVE  m \in S
  <2>1. PICK g : g = [i \in 0 .. m - 1 |-> IF i = 0 THEN <<>>
                        ELSE Joined(g[i - 1], Bounded(list[i]))]
    BY <1>2
  <2> DEFINE h == [i \in 0 .. m |-> IF i = m THEN Joined(g[m - 1], Bounded(list[m]))
                                    ELSE g[i]]
  <2>2. h = [i \in 0 .. m |-> IF i = 0 THEN <<>>
               ELSE Joined(h[i - 1], Bounded(list[i]))]
    BY <2>1
  <2> HIDE DEF h
  <2> QED
    BY <2>2
<1>3. Len(list) \in S
  <2> HIDE DEF S
  <2>1. \A m \in 1 .. Len(list) : m - 1 \in S => m \in S
    BY <1>2
  <2>2. \A m \in 0 .. Len(list) : m \in S
    BY <1>0, <1>1, <2>1, Upwards
  <2> QED
    BY <1>0, <2>2
<1> QED
  BY <1>3 DEF BoundedAll, Joined

(* The merged list as it passes over the pieces (chunking.py:235-244).     *)
LEMMA MergedRun ==
  ASSUME NEW X, NEW list \in Seq(X)
  PROVE  MergedAll(list) =
           [i \in 0 .. Len(list) |-> IF i = 0 THEN <<>>
              ELSE Merge(MergedAll(list)[i - 1], list[i])]
<1> DEFINE S == {m \in 0 .. Len(list) :
                   \E g : g = [i \in 0 .. m |-> IF i = 0 THEN <<>>
                                 ELSE Merge(g[i - 1], list[i])]}
<1>0. Len(list) \in Nat
  OBVIOUS
<1>1. 0 \in S
  <2> DEFINE g == [i \in 0 .. 0 |-> <<>>]
  <2>1. g = [i \in 0 .. 0 |-> IF i = 0 THEN <<>>
               ELSE Merge(g[i - 1], list[i])]
    OBVIOUS
  <2> HIDE DEF g
  <2> QED
    BY <1>0, <2>1
<1>2. ASSUME NEW m \in 1 .. Len(list), m - 1 \in S
      PROVE  m \in S
  <2>1. PICK g : g = [i \in 0 .. m - 1 |-> IF i = 0 THEN <<>>
                        ELSE Merge(g[i - 1], list[i])]
    BY <1>2
  <2> DEFINE h == [i \in 0 .. m |-> IF i = m THEN Merge(g[m - 1], list[m])
                                    ELSE g[i]]
  <2>2. h = [i \in 0 .. m |-> IF i = 0 THEN <<>>
               ELSE Merge(h[i - 1], list[i])]
    BY <2>1
  <2> HIDE DEF h
  <2> QED
    BY <2>2
<1>3. Len(list) \in S
  <2> HIDE DEF S
  <2>1. \A m \in 1 .. Len(list) : m - 1 \in S => m \in S
    BY <1>2
  <2>2. \A m \in 0 .. Len(list) : m \in S
    BY <1>0, <1>1, <2>1, Upwards
  <2> QED
    BY <1>0, <2>2
<1> QED
  BY <1>3 DEF MergedAll

----------------------------------------------------------------------------
(* Lines *)

(* Segments laid end to end with one character, the newline, between them. *)
Tiled(n, at, len) ==
  \A k \in 1 .. n : /\ at[k] \in Nat /\ len[k] \in Nat /\ at[k + 1] \in Nat
                    /\ at[k + 1] = at[k] + len[k] + 1

(* A later segment begins where an earlier one has ended.                  *)
LEMMA TilesRise ==
  ASSUME NEW n \in Nat, NEW at, NEW len, Tiled(n, at, len),
         NEW i \in 1 .. n, NEW j \in 1 .. n, i < j
  PROVE  at[i + 1] <= at[j]
<1> DEFINE S == {m \in 0 .. n - 1 : i <= m => at[i + 1] <= at[m + 1]}
<1>1. 0 \in S
  OBVIOUS
<1>2. \A m \in 1 .. n - 1 : m - 1 \in S => m \in S
  <2> SUFFICES ASSUME NEW m \in 1 .. n - 1, m - 1 \in S, i <= m
               PROVE  at[i + 1] <= at[m + 1]
    OBVIOUS
  <2>1. at[m] \in Nat /\ len[m] \in Nat /\ at[m + 1] = at[m] + len[m] + 1 /\ at[i + 1] \in Nat
    BY DEF Tiled
  <2>2. CASE i = m
    BY <2>1, <2>2
  <2>3. CASE i <= m - 1
    <3>1. at[i + 1] <= at[m - 1 + 1]
      BY <2>3
    <3>2. m - 1 + 1 = m
      OBVIOUS
    <3> QED
      BY <2>1, <3>1, <3>2
  <2> QED
    BY <2>2, <2>3
<1>3. n - 1 \in Nat
  OBVIOUS
<1>4. \A m \in 0 .. n - 1 : m \in S
  <2> HIDE DEF S
  <2> QED
    BY <1>1, <1>2, <1>3, Upwards
<1>5. j - 1 \in S /\ j - 1 + 1 = j /\ i <= j - 1
  <2>1. j - 1 \in 0 .. n - 1
    OBVIOUS
  <2> HIDE DEF S
  <2> QED
    BY <1>4, <2>1
<1>6. at[i + 1] <= at[j - 1 + 1]
  BY <1>5
<1> QED
  BY <1>5, <1>6

(* A position is in one segment only.                                      *)
LEMMA TilesMeet ==
  ASSUME NEW n \in Nat, NEW at, NEW len, Tiled(n, at, len),
         NEW i \in 1 .. n, NEW j \in 1 .. n, NEW p \in Int,
         at[i] <= p, p < at[i + 1], at[j] <= p, p < at[j + 1]
  PROVE  i = j
<1>1. /\ at[i] \in Nat /\ at[i + 1] \in Nat
      /\ at[j] \in Nat /\ at[j + 1] \in Nat
  BY DEF Tiled
<1>2. i < j => at[i + 1] <= at[j]
  BY TilesRise
<1>3. j < i => at[j + 1] <= at[i]
  BY TilesRise
<1> QED
  BY <1>1, <1>2, <1>3

(* The lines of a document are laid so: the offsets of _sections add       *)
(* len(line) + 1 (chunking.py:119-121).                                    *)
LEMMA LinesAreTiles ==
  ASSUME NEW d \in Seq(Lines)
  PROVE  \E n \in Nat, len \in Seq(Nat) : /\ n = Len(d) /\ len = [k \in 1 .. n |-> d[k].len]
                             /\ Tiled(n, LineStarts(d), len)
<1>1. PICK n \in Nat : n = Len(d)
  OBVIOUS
<1>2. PICK at : at = LineStarts(d)
  OBVIOUS
<1>3. PICK len : len = [k \in 1 .. n |-> d[k].len]
  OBVIOUS
<1>4. \A k \in 1 .. n : len[k] \in Nat
  <2>1. \A k \in 1 .. n : d[k] \in Lines
    BY <1>1
  <2> QED
    BY <1>3, <2>1, LinesAssumption
<1>5. at = [k \in 1 .. n + 1 |-> IF k = 1 THEN 0 ELSE at[k - 1] + d[k - 1].len + 1]
  BY <1>1, <1>2, LinesRun
<1>6. at[1] = 0
  BY <1>5
<1>7. \A k \in 1 .. n : at[k + 1] = at[k] + len[k] + 1
  <2> TAKE k \in 1 .. n
  <2>1. at[k + 1] = at[k + 1 - 1] + d[k + 1 - 1].len + 1
    BY <1>5
  <2>2. k + 1 - 1 = k
    OBVIOUS
  <2> QED
    BY <1>3, <2>1, <2>2
<1> DEFINE S == {m \in 0 .. n : at[m + 1] \in Nat}
<1>8. 0 \in S
  BY <1>6
<1>9. \A m \in 1 .. n : m - 1 \in S => m \in S
  <2> TAKE m \in 1 .. n
  <2>1. m - 1 + 1 = m
    OBVIOUS
  <2> QED
    BY <1>4, <1>7, <2>1, SMTT(30)
<1>10. \A m \in 0 .. n : m \in S
  <2> HIDE DEF S
  <2> QED
    BY <1>8, <1>9, Upwards
<1>11. ASSUME NEW k \in 1 .. n
       PROVE  at[k] \in Nat /\ at[k + 1] \in Nat
  <2>1. k - 1 \in 0 .. n /\ k \in 0 .. n /\ k - 1 + 1 = k
    OBVIOUS
  <2>2. k - 1 \in S /\ k \in S
    <3> HIDE DEF S
    <3> QED
      BY <1>10, <2>1
  <2> QED
    BY <2>1, <2>2
<1>12. Tiled(n, at, len)
  BY <1>4, <1>7, <1>11 DEF Tiled
<1>13. len \in Seq(Nat)
  <2>1. len \in [1 .. n -> Nat]
    BY <1>3, <1>4
  <2> QED
    BY <2>1
<1> QED
  BY <1>1, <1>2, <1>3, <1>12, <1>13

(* What is known of a line and of where it and the next one begin.         *)
LEMMA LineFacts ==
  ASSUME NEW d \in Seq(Lines), NEW i \in 1 .. Len(d)
  PROVE  /\ d[i] \in Lines /\ d[i].len \in Nat
         /\ d[i].kind = "blank" <=> d[i].len = 0
         /\ d[i].kind = "heading" => d[i].tag \in Nat \ {0}
         /\ LineStarts(d)[i] \in Nat /\ LineStarts(d)[i + 1] \in Nat
         /\ LineStarts(d)[i + 1] = LineStarts(d)[i] + d[i].len + 1
<1>1. PICK n \in Nat, len \in Seq(Nat) : /\ n = Len(d) /\ len = [k \in 1 .. n |-> d[k].len]
                            /\ Tiled(n, LineStarts(d), len)
  BY LinesAreTiles
<1>2. i \in 1 .. n /\ len[i] = d[i].len
  BY <1>1
<1>3. /\ LineStarts(d)[i] \in Nat /\ LineStarts(d)[i + 1] \in Nat
      /\ LineStarts(d)[i + 1] = LineStarts(d)[i] + d[i].len + 1
  BY <1>1, <1>2 DEF Tiled
<1>4. d[i] \in Lines
  OBVIOUS
<1> QED
  BY <1>3, <1>4, LinesAssumption

(* The first line begins at 0.                                             *)
LEMMA FirstLine ==
  ASSUME NEW d \in Seq(Lines)
  PROVE  LineStarts(d)[1] = 0
<1>1. 1 \in 1 .. Len(d) + 1
  OBVIOUS
<1> QED
  BY <1>1, LinesRun

(* Of two lines the later begins where the earlier has ended.              *)
LEMMA LinesInOrder ==
  ASSUME NEW d \in Seq(Lines), NEW i \in 1 .. Len(d), NEW j \in 1 .. Len(d), i < j
  PROVE  LineStarts(d)[i + 1] <= LineStarts(d)[j]
<1>1. PICK n \in Nat, len \in Seq(Nat) : /\ n = Len(d) /\ len = [k \in 1 .. n |-> d[k].len]
                            /\ Tiled(n, LineStarts(d), len)
  BY LinesAreTiles
<1> QED
  BY <1>1, TilesRise

(* The text ends with its last line, whose newline is not part of it.      *)
LEMMA TextEnds ==
  ASSUME NEW d \in Seq(Lines)
  PROVE  /\ TextLen(d) \in Nat
         /\ d = <<>> => TextLen(d) = 0
         /\ \A i \in 1 .. Len(d) :
              /\ LineStarts(d)[i] + d[i].len <= TextLen(d)
              /\ i < Len(d) => LineStarts(d)[i + 1] <= TextLen(d)
         /\ d # <<>> => TextLen(d) = LineStarts(d)[Len(d) + 1] - 1
<1>1. CASE d = <<>>
  BY <1>1 DEF TextLen
<1>2. CASE d # <<>>
  <2>1. PICK n \in Nat : n = Len(d) /\ n \in 1 .. Len(d)
    BY <1>2
  <2>2. PICK at : at = LineStarts(d)
    OBVIOUS
  <2>3. TextLen(d) = at[n + 1] - 1
    BY <1>2, <2>1, <2>2 DEF TextLen
  <2>4. at[n] \in Nat /\ d[n].len \in Nat /\ at[n + 1] = at[n] + d[n].len + 1
    BY <2>1, <2>2, LineFacts
  <2>5. TextLen(d) \in Nat /\ TextLen(d) = at[n] + d[n].len
    BY <2>3, <2>4
  <2>6. ASSUME NEW i \in 1 .. Len(d)
        PROVE  /\ at[i] + d[i].len <= TextLen(d)
               /\ i < Len(d) => at[i + 1] <= TextLen(d)
    <3>1. at[i] \in Nat /\ d[i].len \in Nat /\ at[i + 1] = at[i] + d[i].len + 1
      BY <2>2, LineFacts
    <3>2. CASE i < n
      <4>1. at[i + 1] <= at[n]
        BY <2>1, <2>2, <3>2, LinesInOrder
      <4>2. at[n] <= TextLen(d)
        BY <2>4, <2>5
      <4>3. at[i + 1] <= TextLen(d)
        BY <2>4, <2>5, <3>1, <4>1, <4>2, SMTT(30)
      <4> QED
        BY <2>5, <3>1, <4>3
    <3>3. CASE i = n
      BY <2>1, <2>5, <3>3
    <3> QED
      BY <2>1, <3>2, <3>3
  <2> QED
    BY <1>2, <2>1, <2>2, <2>3, <2>5, <2>6
<1> QED
  BY <1>1, <1>2

(* A newline that falls in a line, its end included, is the one that ends  *)
(* it.                                                                     *)
LEMMA NewlineEndsItsLine ==
  ASSUME NEW d \in Seq(Lines), NEW i \in 1 .. Len(d), NEW p \in Newlines(d),
         LineStarts(d)[i] <= p, p < LineStarts(d)[i + 1]
  PROVE  p = LineStarts(d)[i] + d[i].len
<1>1. PICK n \in Nat, len \in Seq(Nat) : /\ n = Len(d) /\ len = [k \in 1 .. n |-> d[k].len]
                            /\ Tiled(n, LineStarts(d), len)
  BY LinesAreTiles
<1>2. PICK at : at = LineStarts(d)
  OBVIOUS
<1>3. PICK j \in 1 .. n - 1 : p = at[j + 1] - 1
  BY <1>1, <1>2 DEF Newlines
<1>4. j \in 1 .. n /\ i \in 1 .. n
  BY <1>1
<1>5. at[j] \in Nat /\ d[j].len \in Nat /\ at[j + 1] = at[j] + d[j].len + 1
  BY <1>1, <1>2, <1>4, LineFacts
<1>6. p \in Int /\ at[j] <= p /\ p < at[j + 1]
  BY <1>3, <1>5
<1>7. i = j
  BY <1>1, <1>2, <1>4, <1>6, TilesMeet
<1> QED
  BY <1>2, <1>3, <1>5, <1>7

(* The character after a line that is not the last is a newline, so a      *)
(* blank line is nothing but one: what _paragraph_spans skips over         *)
(* (chunking.py:181-183).                                                  *)
LEMMA BlankLineIsANewline ==
  ASSUME NEW d \in Seq(Lines), NEW i \in 1 .. Len(d), i < Len(d)
  PROVE  LineStarts(d)[i] + d[i].len \in Newlines(d)
<1>1. i \in 1 .. Len(d) - 1
  OBVIOUS
<1>2. LineStarts(d)[i + 1] - 1 = LineStarts(d)[i] + d[i].len
  BY LineFacts
<1> QED
  BY <1>1, <1>2 DEF Newlines

----------------------------------------------------------------------------
(* Chains of spans *)

(* Nothing but newlines from a up to b.                                    *)
Bare(N, a, b) == \A p \in a .. b - 1 : p \in N

(* How far a list of spans has come.                                       *)
Reached(list, lo, i) == IF i = 0 THEN lo ELSE list[i].end

(* A span of a list: it steps back from where the list had come by at most *)
(* `back`, skips newlines only, and does not end before the list had come. *)
Link(N, list, lo, hi, back, i) ==
  /\ list[i].start \in Int /\ list[i].end \in Int /\ Reached(list, lo, i - 1) \in Int
  /\ lo <= list[i].start /\ list[i].start < list[i].end /\ list[i].end <= hi
  /\ Reached(list, lo, i - 1) <= list[i].end
  /\ Reached(list, lo, i - 1) - back <= list[i].start
  /\ Bare(N, Reached(list, lo, i - 1), list[i].start)

(* A list of spans that leaves out nothing but newlines of what lies       *)
(* between lo and hi, and whose spans overlap by at most `back`. Every     *)
(* stage of chunk_document keeps this, and it is what makes the result     *)
(* complete.                                                               *)
Chain(N, list, lo, hi, back) ==
  /\ \A i \in 1 .. Len(list) : Link(N, list, lo, hi, back, i)
  /\ Reached(list, lo, Len(list)) \in Int /\ Reached(list, lo, Len(list)) <= hi
  /\ Bare(N, Reached(list, lo, Len(list)), hi)

(* The empty list is a chain of nothing.                                   *)
LEMMA ChainStarts ==
  ASSUME NEW N, NEW lo \in Int, NEW back \in Nat
  PROVE  Chain(N, <<>>, lo, lo, back)
BY DEF Chain, Reached, Bare

(* A chain reaches on over newlines: what is left out as having no text    *)
(* (chunking.py:159, 188) and the blank lines between paragraphs.          *)
LEMMA ChainStretches ==
  ASSUME NEW N, NEW X, NEW list \in Seq(X), NEW lo \in Int, NEW hi \in Int, NEW back \in Nat,
         Chain(N, list, lo, hi, back), NEW to \in Int, hi <= to, Bare(N, hi, to)
  PROVE  Chain(N, list, lo, to, back)
<1>1. \A i \in 1 .. Len(list) : Link(N, list, lo, to, back, i)
  BY DEF Chain, Link
<1>2. PICK r \in Int : r = Reached(list, lo, Len(list)) /\ r <= hi /\ Bare(N, r, hi)
  BY DEF Chain
<1>3. Bare(N, r, to)
  BY <1>2 DEF Bare
<1> QED
  BY <1>1, <1>2, <1>3 DEF Chain

(* A chain grows at its end: an append in any of the stages.               *)
LEMMA ChainGrows ==
  ASSUME NEW N, NEW X, NEW list \in Seq(X), NEW lo \in Int, NEW hi \in Int, NEW back \in Nat,
         Chain(N, list, lo, hi, back),
         NEW c \in X, c.start \in Int, c.end \in Int, lo <= c.start, c.start < c.end,
         hi <= c.end, hi - back <= c.start, Bare(N, hi, c.start)
  PROVE  Append(list, c) \in Seq(X) /\ Chain(N, Append(list, c), lo, c.end, back)
<1>1. PICK n \in Nat : n = Len(list)
  OBVIOUS
<1>2. PICK more : more = Append(list, c)
  OBVIOUS
<1>3. /\ more \in Seq(X) /\ Len(more) = n + 1 /\ more[n + 1] = c
      /\ \A i \in 1 .. n : more[i] = list[i]
  BY <1>1, <1>2
<1>4. \A i \in 0 .. n : Reached(more, lo, i) = Reached(list, lo, i)
  BY <1>3 DEF Reached
<1>5. ASSUME NEW i \in 1 .. n
      PROVE  Link(N, more, lo, c.end, back, i)
  <2>1. Link(N, list, lo, hi, back, i)
    BY <1>1 DEF Chain
  <2>2. i - 1 \in 0 .. n /\ more[i] = list[i]
    BY <1>3
  <2> QED
    BY <1>4, <2>1, <2>2 DEF Link
<1>6. PICK r \in Int : r = Reached(list, lo, n) /\ r <= hi /\ Bare(N, r, hi)
  BY <1>1 DEF Chain
<1>7. Reached(more, lo, n + 1 - 1) = r
  BY <1>4, <1>6
<1>8. Bare(N, r, c.start)
  BY <1>6 DEF Bare
<1>9. Link(N, more, lo, c.end, back, n + 1)
  BY <1>3, <1>6, <1>7, <1>8 DEF Link
<1>10. \A i \in 1 .. Len(more) : Link(N, more, lo, c.end, back, i)
  BY <1>3, <1>5, <1>9
<1>11. Reached(more, lo, Len(more)) = c.end
  BY <1>3 DEF Reached
<1>12. Chain(N, more, lo, c.end, back)
  BY <1>10, <1>11 DEF Chain, Bare
<1> QED
  BY <1>2, <1>3, <1>12

(* A list whose last element is replaced.                                  *)
WithLast(list, e) == [list EXCEPT ![Len(list)] = e]

(* The last span of a chain may be extended over what follows: how a       *)
(* paragraph joins the buffer (chunking.py:210-212) and an undersized      *)
(* chunk the one before it (chunking.py:242).                              *)
LEMMA ChainLengthens ==
  ASSUME NEW N, NEW X, NEW list \in Seq(X), list # <<>>,
         NEW lo \in Int, NEW hi \in Int, NEW back \in Nat, Chain(N, list, lo, hi, back),
         NEW c \in X, c.start \in Int, c.end \in Int, c.start <= c.end, hi <= c.end,
         Bare(N, hi, c.start), list[Len(list)].end = hi,
         NEW longer \in X, longer.start = list[Len(list)].start, longer.end = c.end
  PROVE  /\ WithLast(list, longer) \in Seq(X)
         /\ Chain(N, WithLast(list, longer), lo, c.end, back)
<1>1. PICK n \in Nat \ {0} : n = Len(list)
  OBVIOUS
<1>2. PICK more : more = [list EXCEPT ![n] = longer]
  OBVIOUS
<1>3. /\ more \in Seq(X) /\ Len(more) = n /\ more[n] = longer
      /\ \A i \in 1 .. n - 1 : more[i] = list[i]
  BY <1>1, <1>2
<1>4. \A i \in 0 .. n - 1 : Reached(more, lo, i) = Reached(list, lo, i)
  BY <1>3 DEF Reached
<1>5. \A i \in 1 .. n : Link(N, list, lo, hi, back, i)
  BY <1>1 DEF Chain
<1>6. ASSUME NEW i \in 1 .. n - 1
      PROVE  Link(N, more, lo, c.end, back, i)
  <2>1. Link(N, list, lo, hi, back, i)
    BY <1>5
  <2>2. i - 1 \in 0 .. n - 1 /\ more[i] = list[i]
    BY <1>3
  <2> QED
    BY <1>4, <2>1, <2>2 DEF Link
<1>7. Link(N, list, lo, hi, back, n)
  BY <1>5
<1>8. Reached(more, lo, n - 1) = Reached(list, lo, n - 1)
  BY <1>4
<1>9. Link(N, more, lo, c.end, back, n)
  BY <1>1, <1>3, <1>7, <1>8, SMTT(30) DEF Link
<1>10. \A i \in 1 .. Len(more) : Link(N, more, lo, c.end, back, i)
  BY <1>3, <1>6, <1>9
<1>11. Reached(more, lo, Len(more)) = c.end
  BY <1>3 DEF Reached
<1>12. Chain(N, more, lo, c.end, back)
  BY <1>10, <1>11 DEF Chain, Bare
<1> QED
  BY <1>1, <1>2, <1>3, <1>12 DEF WithLast

(* Two chains are one when the second begins no further back than the      *)
(* overlap and skips newlines only: the chunks of two sections, the pieces *)
(* of two chunks.                                                          *)
LEMMA ChainsJoin ==
  ASSUME NEW N, NEW X, NEW one \in Seq(X), NEW two \in Seq(X), NEW back \in Nat,
         NEW lo \in Int, NEW to \in Int, NEW mid \in Int, NEW hi \in Int,
         Chain(N, one, lo, to, back), Chain(N, two, mid, hi, back),
         lo <= mid, to - back <= mid, to <= hi, Bare(N, to, mid),
         two # <<>> => to <= two[1].end
  PROVE  one \o two \in Seq(X) /\ Chain(N, one \o two, lo, hi, back)
<1>1. PICK m \in Nat, n \in Nat : m = Len(one) /\ n = Len(two)
  OBVIOUS
<1>2. PICK both : both = one \o two
  OBVIOUS
<1>3. /\ both \in Seq(X) /\ Len(both) = m + n
      /\ \A i \in 1 .. m : both[i] = one[i]
      /\ \A i \in 1 .. n : both[m + i] = two[i]
  BY <1>1, <1>2
<1>4. \A i \in 0 .. m : Reached(both, lo, i) = Reached(one, lo, i)
  BY <1>3 DEF Reached
<1>5. \A i \in 1 .. n : Reached(both, lo, m + i) = Reached(two, mid, i)
  BY <1>3 DEF Reached
<1>6. PICK r \in Int : r = Reached(one, lo, m) /\ r <= to /\ Bare(N, r, to)
  BY <1>1 DEF Chain
<1>7. ASSUME NEW i \in 1 .. m
      PROVE  Link(N, both, lo, hi, back, i)
  <2>1. Link(N, one, lo, to, back, i)
    BY <1>1 DEF Chain
  <2>2. i - 1 \in 0 .. m /\ both[i] = one[i]
    BY <1>3
  <2> QED
    BY <1>4, <2>1, <2>2, SMTT(30) DEF Link
<1>8. ASSUME NEW i \in 1 .. n
      PROVE  Link(N, both, lo, hi, back, m + i)
  <2>1. Link(N, two, mid, hi, back, i)
    BY <1>1 DEF Chain
  <2>2. both[m + i] = two[i]
    BY <1>3
  <2>3. CASE i = 1
    <3>1. Reached(both, lo, m + i - 1) = r
      BY <1>4, <1>6, <2>3
    <3>2. Reached(two, mid, i - 1) = mid
      BY <2>3 DEF Reached
    <3>3. PICK s \in Int, e \in Int : s = two[i].start /\ e = two[i].end
      BY <2>1 DEF Link
    <3>4. mid <= s /\ s < e /\ e <= hi /\ Bare(N, mid, s)
      BY <2>1, <3>2, <3>3 DEF Link
    <3>5. to <= e
      BY <1>1, <2>3, <3>3
    <3>6. lo <= s /\ r <= e /\ r - back <= s
      BY <1>6, <3>4, <3>5
    <3>7. Bare(N, r, s)
      BY <1>6, <3>4 DEF Bare
    <3> QED
      BY <1>6, <2>2, <3>1, <3>3, <3>4, <3>6, <3>7, SMTT(30) DEF Link
  <2>4. CASE i # 1
    <3>1. i - 1 \in 1 .. n /\ m + i - 1 = m + (i - 1)
      BY <2>4
    <3>2. Reached(both, lo, m + i - 1) = Reached(two, mid, i - 1)
      BY <1>5, <3>1
    <3> QED
      BY <2>1, <2>2, <3>2, SMTT(30) DEF Link
  <2> QED
    BY <2>3, <2>4
<1>9. ASSUME NEW i \in 1 .. m + n
      PROVE  Link(N, both, lo, hi, back, i)
  <2>1. CASE i <= m
    BY <1>7, <2>1
  <2>2. CASE i > m
    <3>1. i - m \in 1 .. n /\ m + (i - m) = i
      BY <2>2
    <3> QED
      BY <1>8, <3>1
  <2> QED
    BY <2>1, <2>2
<1>10. /\ Reached(both, lo, m + n) \in Int /\ Reached(both, lo, m + n) <= hi
       /\ Bare(N, Reached(both, lo, m + n), hi)
  <2>1. /\ Reached(two, mid, n) \in Int /\ Reached(two, mid, n) <= hi
        /\ Bare(N, Reached(two, mid, n), hi)
    BY <1>1 DEF Chain
  <2>2. CASE n = 0
    <3>1. Reached(both, lo, m + n) = r /\ r <= hi
      BY <1>4, <1>6, <2>2
    <3>2. Bare(N, mid, hi)
      BY <2>1, <2>2 DEF Reached
    <3>3. Bare(N, r, hi)
      BY <1>6, <3>2 DEF Bare
    <3> QED
      BY <3>1, <3>3
  <2>3. CASE n # 0
    <3>1. Reached(both, lo, m + n) = Reached(two, mid, n)
      BY <1>5, <2>3
    <3> QED
      BY <2>1, <3>1
  <2> QED
    BY <2>2, <2>3
<1>11. Chain(N, both, lo, hi, back)
  BY <1>3, <1>9, <1>10 DEF Chain
<1> QED
  BY <1>2, <1>3, <1>11

(* What lies between lo and hi and is not a newline is in a span of the    *)
(* chain.                                                                  *)
LEMMA ChainCovers ==
  ASSUME NEW N, NEW X, NEW list \in Seq(X), NEW lo \in Int, NEW hi \in Int, NEW back \in Nat,
         Chain(N, list, lo, hi, back), NEW p \in lo .. hi - 1, p \notin N
  PROVE  \E i \in 1 .. Len(list) : list[i].start <= p /\ p < list[i].end
<1>1. PICK n \in Nat : n = Len(list)
  OBVIOUS
<1> DEFINE S == {m \in 0 .. n : p < Reached(list, lo, m)
                    => \E i \in 1 .. n : list[i].start <= p /\ p < list[i].end}
<1>2. 0 \in S
  BY DEF Reached
<1>3. \A m \in 1 .. n : m - 1 \in S => m \in S
  <2> SUFFICES ASSUME NEW m \in 1 .. n, m - 1 \in S, p < Reached(list, lo, m)
               PROVE  \E i \in 1 .. n : list[i].start <= p /\ p < list[i].end
    OBVIOUS
  <2>1. Link(N, list, lo, hi, back, m)
    BY <1>1 DEF Chain
  <2>2. p < list[m].end
    BY DEF Reached
  <2>3. CASE p < Reached(list, lo, m - 1)
    BY <2>3
  <2>4. CASE ~(p < Reached(list, lo, m - 1))
    <3>1. list[m].start <= p
      BY <2>1, <2>4, SMTT(30) DEF Link, Bare
    <3> QED
      BY <2>2, <3>1
  <2> QED
    BY <2>3, <2>4
<1>4. \A m \in 0 .. n : m \in S
  <2> HIDE DEF S
  <2> QED
    BY <1>2, <1>3, Upwards
<1>5. n \in S
  <2> HIDE DEF S
  <2> QED
    BY <1>4
<1>6. p < Reached(list, lo, n)
  BY <1>1 DEF Chain, Bare
<1> QED
  BY <1>1, <1>5, <1>6

(* What the filters at the end of _sections and _paragraph_spans leave out *)
(* is newlines, so the chain goes on over it (chunking.py:159, 188).       *)
LEMMA ChainAdds ==
  ASSUME NEW d, NEW X, NEW list \in Seq(X), NEW lo \in Int, NEW c \in X,
         c.start \in Int, c.end \in Int, lo <= c.start, c.start < c.end,
         Chain(Newlines(d), list, lo, c.start, 0)
  PROVE  /\ Adding(d, list, c) \in Seq(X)
         /\ Chain(Newlines(d), Adding(d, list, c), lo, c.end, 0)
<1>1. PICK s \in Int, e \in Int : s = c.start /\ e = c.end
  OBVIOUS
<1>2. CASE HasText(d, c)
  <2>1. Bare(Newlines(d), s, s)
    BY DEF Bare
  <2>2. Append(list, c) \in Seq(X) /\ Chain(Newlines(d), Append(list, c), lo, c.end, 0)
    BY <1>1, <2>1, ChainGrows
  <2> QED
    BY <1>2, <2>2 DEF Adding
<1>3. CASE ~HasText(d, c)
  <2>1. Bare(Newlines(d), s, e)
    BY <1>1, <1>3 DEF HasText, Span, Bare
  <2>2. Chain(Newlines(d), list, lo, e, 0)
    BY <1>1, <2>1, ChainStretches
  <2> QED
    BY <1>1, <1>3, <2>2 DEF Adding
<1> QED
  BY <1>2, <1>3

----------------------------------------------------------------------------
(* Headings *)

(* What a path is made of.                                                 *)
Titles == {line.title : line \in Lines} \cup {""}
Paths == Seq(Titles)

(* What a heading leaves of the titles in force, its own added.            *)
Descended(label, line) ==
  {e \in label : e[1] < line.tag} \cup {e \in {<<line.tag, line.title>>} : line.title # ""}

(* The assignments to path in _sections do that to its titles: what is at  *)
(* the heading's depth or deeper goes, and the levels skipped are empty    *)
(* (chunking.py:151-154).                                                  *)
LEMMA LabelDescends ==
  ASSUME NEW path \in Paths, NEW line \in Lines, line.tag \in Nat \ {0}
  PROVE  /\ Descend(path, line) \in Paths
         /\ Label(Descend(path, line)) = Descended(Label(path), line)
<1>1. PICK t \in Nat \ {0}, title \in Titles : t = line.tag /\ title = line.title
  BY DEF Titles
<1>2. PICK new : new = Descend(path, line)
  OBVIOUS
<1>3. PICK n \in Nat : n = Len(path) /\ DOMAIN path = 1 .. n
  BY DEF Paths
<1>4. new = [i \in 1 .. t |-> IF i = t THEN title ELSE IF i <= n THEN path[i] ELSE ""]
  BY <1>1, <1>2, <1>3 DEF Descend
<1>0. ASSUME NEW i \in 1 .. t
      PROVE  /\ i = t => new[i] = title
             /\ i # t /\ i <= n => new[i] = path[i]
             /\ i # t /\ ~(i <= n) => new[i] = ""
  BY <1>4
<1>5. \A i \in 1 .. n : path[i] \in Titles
  BY <1>3 DEF Paths
<1>6. "" \in Titles
  BY DEF Titles
<1>7. \A i \in 1 .. t : new[i] \in Titles
  <2> TAKE i \in 1 .. t
  <2>1. CASE i = t
    BY <1>0, <2>1
  <2>2. CASE i # t /\ i <= n
    <3>1. i \in 1 .. n
      BY <2>2
    <3>2. new[i] = path[i]
      BY <1>0, <2>2
    <3>3. path[i] \in Titles
      BY <1>5, <3>1
    <3> QED
      BY <3>2, <3>3
  <2>3. CASE i # t /\ ~(i <= n)
    BY <1>0, <1>6, <2>3
  <2> QED
    BY <2>1, <2>2, <2>3
<1>8. new \in Paths
  <2>1. new \in [1 .. t -> Titles]
    BY <1>4, <1>7
  <2> QED
    BY <2>1 DEF Paths
<1>9. DOMAIN new = 1 .. t
  BY <1>4
<1>10. ASSUME NEW e \in Label(new)
       PROVE  e \in Descended(Label(path), line)
  <2>1. PICK k \in 1 .. t : new[k] # "" /\ e = <<k, new[k]>>
    BY <1>9 DEF Label
  <2>2. CASE k = t
    BY <1>1, <1>4, <2>1, <2>2 DEF Descended
  <2>3. CASE k # t
    <3>0. k <= n
      BY <1>0, <2>1, <2>3
    <3>1. k < t /\ k \in 1 .. n /\ new[k] = path[k]
      <4>1. k < t /\ k \in 1 .. n
        BY <2>3, <3>0
      <4>2. new[k] = path[k]
        BY <1>0, <2>3, <3>0
      <4> QED
        BY <4>1, <4>2
    <3>2. e = <<k, path[k]>> /\ path[k] # "" /\ e[1] = k
      BY <2>1, <3>1
    <3>3. e \in Label(path)
      BY <1>3, <3>1, <3>2 DEF Label
    <3> QED
      BY <1>1, <3>1, <3>2, <3>3 DEF Descended
  <2> QED
    BY <2>2, <2>3
<1>11. ASSUME NEW e \in Descended(Label(path), line)
       PROVE  e \in Label(new)
  <2>1. CASE e \in Label(path) /\ e[1] < t
    <3>1. PICK k \in 1 .. n : path[k] # "" /\ e = <<k, path[k]>>
      BY <1>3, <2>1 DEF Label
    <3>2. e[1] = k
      BY <3>1
    <3>3. k \in 1 .. t /\ k # t /\ k <= n
      <4>1. k < t
        BY <2>1, <3>2
      <4> QED
        BY <4>1
    <3>4. new[k] = path[k]
      BY <1>0, <3>3
    <3>5. k \in DOMAIN new /\ new[k] # "" /\ e = <<k, new[k]>>
      BY <1>9, <3>1, <3>3, <3>4
    <3> QED
      BY <3>5 DEF Label
  <2>2. CASE e = <<t, title>> /\ title # ""
    <3>0. t \in 1 .. t
      OBVIOUS
    <3>1. t \in 1 .. t /\ new[t] = title
      BY <1>0, <3>0
    <3>2. t \in DOMAIN new /\ new[t] # "" /\ e = <<t, new[t]>>
      BY <1>9, <2>2, <3>1
    <3> QED
      BY <3>2 DEF Label
  <2> QED
    BY <1>1, <2>1, <2>2 DEF Descended
<1> QED
  BY <1>2, <1>8, <1>10, <1>11

(* A line that opens no section leaves the headings in force as they were. *)
LEMMA InForceStays ==
  ASSUME NEW d \in Seq(Lines), NEW i \in 1 .. Len(d), i \notin Openings(d, i)
  PROVE  InForce(d, i) = InForce(d, i - 1)
<1>1. Openings(d, i) = Openings(d, i - 1)
  BY DEF Openings
<1> QED
  BY <1>1 DEF InForce

(* A heading that opens one ends those of its depth and deeper.            *)
LEMMA InForceDescends ==
  ASSUME NEW d \in Seq(Lines), NEW i \in 1 .. Len(d), i \in Openings(d, i)
  PROVE  InForce(d, i) = Descended(InForce(d, i - 1), d[i])
<1>1. PICK above, before : above = Openings(d, i) /\ before = Openings(d, i - 1)
  OBVIOUS
<1>2. above = before \cup {i} /\ before \subseteq 1 .. i - 1
  BY <1>1 DEF Openings
<1>3. \A j \in above : d[j].tag \in Nat \ {0}
  <2>1. \A j \in above : j \in 1 .. Len(d) /\ d[j].kind = "heading"
    BY <1>1 DEF Openings
  <2> QED
    BY <2>1, LineFacts
<1>4. ASSUME NEW e \in InForce(d, i)
      PROVE  e \in Descended(InForce(d, i - 1), d[i])
  <2>1. PICK k \in above : /\ e = <<d[k].tag, d[k].title>> /\ d[k].title # ""
                           /\ \A j \in above : j > k => d[j].tag > d[k].tag
    BY <1>1 DEF InForce
  <2>2. CASE k = i
    BY <2>1, <2>2 DEF Descended
  <2>3. CASE k # i
    <3>1. k \in before /\ i > k /\ i \in above
      BY <1>2, <2>3
    <3>2. e \in InForce(d, i - 1)
      BY <1>1, <1>2, <2>1, <3>1 DEF InForce
    <3>3. e[1] < d[i].tag
      BY <1>3, <2>1, <3>1
    <3> QED
      BY <3>2, <3>3 DEF Descended
  <2> QED
    BY <2>2, <2>3
<1>5. ASSUME NEW e \in Descended(InForce(d, i - 1), d[i])
      PROVE  e \in InForce(d, i)
  <2>1. CASE e \in InForce(d, i - 1) /\ e[1] < d[i].tag
    <3>1. PICK k \in before : /\ e = <<d[k].tag, d[k].title>> /\ d[k].title # ""
                              /\ \A j \in before : j > k => d[j].tag > d[k].tag
      BY <1>1, <2>1 DEF InForce
    <3>2. d[i].tag > d[k].tag
      BY <1>2, <1>3, <2>1, <3>1
    <3>3. \A j \in above : j > k => d[j].tag > d[k].tag
      BY <1>2, <3>1, <3>2
    <3> QED
      BY <1>1, <1>2, <3>1, <3>3 DEF InForce
  <2>2. CASE e = <<d[i].tag, d[i].title>> /\ d[i].title # ""
    <3>1. \A j \in above : j > i => d[j].tag > d[i].tag
      BY <1>2
    <3> QED
      BY <1>1, <1>2, <2>2, <3>1 DEF InForce
  <2> QED
    BY <2>1, <2>2 DEF Descended
<1> QED
  BY <1>4, <1>5

----------------------------------------------------------------------------
(* Sections *)

(* Sections and chunks; the source has tuples of these three.              *)
Passages == [path : Paths, start : Nat, end : Nat]

(* A span is filed under the headings in force at every line it touches.   *)
Right(d, c) ==
  \A k \in 1 .. Len(d) :
    LineStarts(d)[k] < c.end /\ c.start < LineStarts(d)[k + 1] => Label(c.path) = InForce(d, k)

AllRight(d, list) == \A j \in 1 .. Len(list) : Right(d, list[j])

(* The invariant of the walk in _sections after i lines: the path is what  *)
(* is in force at every line the open section touches.                     *)
SectionHolds(d, s, i) ==
  /\ s \in [path : Paths, start : Nat, fence : {s.fence}, out : Seq(Passages)]
  /\ s.start <= TextLen(d) /\ s.start <= LineStarts(d)[i + 1]
  /\ s.fence = Fences(d)[i]
  /\ Label(s.path) = InForce(d, i)
  /\ \A k \in 1 .. i : s.start < LineStarts(d)[k + 1] => Label(s.path) = InForce(d, k)

(* A list of sections is complete up to `end`, and each is filed rightly.  *)
ListHolds(d, list, end) ==
  /\ list \in Seq(Passages) /\ AllRight(d, list)
  /\ Chain(Newlines(d), list, 0, end, 0)

(* The fence that is open steps from line to line.                         *)
LEMMA FenceSteps ==
  ASSUME NEW d \in Seq(Lines)
  PROVE  /\ Fences(d)[0] = NoFence
         /\ \A i \in 1 .. Len(d) : Fences(d)[i] = FenceAfter(Fences(d)[i - 1], d[i])
<1>1. PICK n \in Nat : n = Len(d)
  OBVIOUS
<1>2. PICK f : f = Fences(d)
  OBVIOUS
<1>3. f = [i \in 0 .. n |-> IF i = 0 THEN NoFence ELSE FenceAfter(f[i - 1], d[i])]
  BY <1>1, <1>2, FencesRun
<1>4. f[0] = NoFence
  BY <1>3
<1>5. \A i \in 1 .. n : f[i] = FenceAfter(f[i - 1], d[i])
  BY <1>3
<1> QED
  BY <1>1, <1>2, <1>4, <1>5

(* Adding a span that is filed rightly leaves the list so, whether or not  *)
(* the span has text (chunking.py:159).                                    *)
LEMMA AddedIsRight ==
  ASSUME NEW d, NEW list \in Seq(Passages), AllRight(d, list), NEW c \in Passages, Right(d, c)
  PROVE  AllRight(d, Adding(d, list, c))
<1>1. PICK n \in Nat : n = Len(list)
  OBVIOUS
<1>2. PICK more : more = Append(list, c)
  OBVIOUS
<1>3. Len(more) = n + 1 /\ more[n + 1] = c /\ \A i \in 1 .. n : more[i] = list[i]
  BY <1>1, <1>2
<1>4. \A j \in 1 .. n + 1 : Right(d, more[j])
  <2> TAKE j \in 1 .. n + 1
  <2>1. CASE j = n + 1
    BY <1>3, <2>1
  <2>2. CASE j # n + 1
    <3>1. j \in 1 .. n
      BY <2>2
    <3> QED
      BY <1>1, <1>3, <3>1 DEF AllRight
  <2> QED
    BY <2>1, <2>2
<1> QED
  BY <1>2, <1>3, <1>4 DEF AllRight, Adding

(* Ending the open section adds it to the complete ones                    *)
(* (chunking.py:145-148, 157-158).                                         *)
LEMMA LeavingKeeps ==
  ASSUME NEW d \in Seq(Lines), NEW s, NEW i \in 0 .. Len(d), NEW end \in Nat,
         SectionHolds(d, s, i), ListHolds(d, s.out, s.start),
         s.start <= end,
         \A k \in 1 .. Len(d) : k > i => end <= LineStarts(d)[k]
  PROVE  ListHolds(d, Leave(d, s, end), end)
<1>1. PICK start \in Nat : start = s.start
  BY DEF SectionHolds
<1>2. CASE start < end
  <2>1. PICK c : c = [path |-> s.path, start |-> start, end |-> end]
    OBVIOUS
  <2>2. c \in Passages
    BY <2>1 DEF Passages, SectionHolds
  <2>3. Right(d, c)
    <3> SUFFICES ASSUME NEW k \in 1 .. Len(d), LineStarts(d)[k] < end, start < LineStarts(d)[k + 1]
                 PROVE  Label(s.path) = InForce(d, k)
      BY <2>1 DEF Right
    <3>1. LineStarts(d)[k] \in Nat
      BY LineFacts
    <3>2. ~(k > i)
      BY <3>1
    <3>3. k \in 1 .. i
      BY <3>2
    <3> QED
      BY <1>1, <3>3 DEF SectionHolds
  <2>4. /\ Adding(d, s.out, c) \in Seq(Passages)
        /\ Chain(Newlines(d), Adding(d, s.out, c), 0, end, 0)
    <3>1. /\ s.out \in Seq(Passages) /\ c.start = start /\ c.end = end
          /\ Chain(Newlines(d), s.out, 0, c.start, 0)
      BY <1>1, <2>1 DEF ListHolds
    <3> QED
      BY <1>2, <2>2, <3>1, ChainAdds
  <2>5. AllRight(d, Adding(d, s.out, c))
    BY <2>2, <2>3, AddedIsRight DEF ListHolds
  <2>6. Leave(d, s, end) = Adding(d, s.out, c)
    BY <1>1, <1>2, <2>1 DEF Leave
  <2> QED
    BY <2>4, <2>5, <2>6 DEF ListHolds
<1>3. CASE ~(start < end)
  <2>1. start = end
    BY <1>1, <1>3
  <2>2. Leave(d, s, end) = s.out
    BY <1>1, <1>3 DEF Leave
  <2> QED
    BY <1>1, <2>1, <2>2
<1> QED
  BY <1>2, <1>3

(* The walk begins right.                                                  *)
LEMMA SectionBegins ==
  ASSUME NEW d \in Seq(Lines)
  PROVE  SectionHolds(d, AtTop, 0) /\ ListHolds(d, AtTop.out, AtTop.start)
<1>1. <<>> \in Paths /\ Label(<<>>) = {}
  BY DEF Paths, Label
<1>2. InForce(d, 0) = {}
  BY DEF InForce, Openings
<1>3. LineStarts(d)[0 + 1] = 0
  BY FirstLine
<1>4. SectionHolds(d, AtTop, 0)
  <2>1. /\ AtTop.path = <<>> /\ AtTop.start = 0 /\ AtTop.fence = NoFence
        /\ AtTop \in [path : Paths, start : Nat, fence : {AtTop.fence}, out : Seq(Passages)]
    BY <1>1 DEF AtTop
  <2>2. TextLen(d) \in Nat /\ Fences(d)[0] = NoFence
    BY TextEnds, FenceSteps
  <2>3. /\ AtTop.start <= TextLen(d) /\ AtTop.start <= LineStarts(d)[0 + 1]
        /\ AtTop.fence = Fences(d)[0] /\ Label(AtTop.path) = InForce(d, 0)
    <3>1. AtTop.start <= TextLen(d) /\ AtTop.start <= LineStarts(d)[0 + 1]
      BY <1>3, <2>1, <2>2
    <3>2. AtTop.fence = Fences(d)[0]
      BY <2>1, <2>2
    <3>3. Label(AtTop.path) = InForce(d, 0)
      BY <1>1, <1>2, <2>1
    <3> QED
      BY <3>1, <3>2, <3>3
  <2>4. \A k \in 1 .. 0 : AtTop.start < LineStarts(d)[k + 1] => Label(AtTop.path) = InForce(d, k)
    OBVIOUS
  <2> QED
    BY <2>1, <2>3, <2>4 DEF SectionHolds
<1>5. ListHolds(d, AtTop.out, AtTop.start)
  <2>1. Chain(Newlines(d), <<>>, 0, 0, 0)
    BY ChainStarts
  <2>2. <<>> \in Seq(Passages) /\ AllRight(d, <<>>)
    BY DEF AllRight
  <2> QED
    BY <2>1, <2>2 DEF ListHolds, AtTop
<1> QED
  BY <1>4, <1>5

(* Each line keeps it so: a heading ends the section it finds and files    *)
(* the next under the path it leaves, and any other line stays in the      *)
(* section under what was in force (chunking.py:129-155).                  *)
LEMMA SectionContinues ==
  ASSUME NEW d \in Seq(Lines), NEW i \in 1 .. Len(d), NEW s,
         SectionHolds(d, s, i - 1), ListHolds(d, s.out, s.start),
         NEW t, t = AfterLine(d, s, d[i], LineStarts(d)[i])
  PROVE  SectionHolds(d, t, i) /\ ListHolds(d, t.out, t.start)
<1>1. PICK at : at = LineStarts(d)
  OBVIOUS
<1>2. /\ at[i] \in Nat /\ at[i + 1] \in Nat /\ d[i].len \in Nat /\ at[i + 1] = at[i] + d[i].len + 1
      /\ d[i] \in Lines /\ (d[i].kind = "heading" => d[i].tag \in Nat \ {0})
  BY <1>1, LineFacts
<1>3. i - 1 \in 0 .. Len(d) /\ i - 1 + 1 = i
  OBVIOUS
<1>4. s.start \in Nat /\ s.start <= at[i] /\ s.fence = Fences(d)[i - 1]
  BY <1>1, <1>3 DEF SectionHolds
<1>5. i \in Openings(d, i) <=> OpensSection(s, d[i])
  BY <1>4 DEF Openings, OpensSection
<1>6. CASE OpensSection(s, d[i])
  <2>1. /\ t.path = Descend(s.path, d[i]) /\ t.start = at[i] /\ t.fence = NoFence
        /\ t.out = Leave(d, s, at[i])
    BY <1>1, <1>6 DEF AfterLine, Enter
  <2>2. t.path \in Paths /\ Label(t.path) = InForce(d, i)
    <3>1. InForce(d, i) = Descended(InForce(d, i - 1), d[i])
      BY <1>5, <1>6, InForceDescends
    <3>2. s.path \in Paths /\ Label(s.path) = InForce(d, i - 1)
      BY DEF SectionHolds
    <3>3. d[i].tag \in Nat \ {0}
      BY <1>2, <1>6 DEF OpensSection
    <3> QED
      BY <1>2, <2>1, <3>1, <3>2, <3>3, LabelDescends
  <2>3. ListHolds(d, t.out, t.start)
    <3>1. \A k \in 1 .. Len(d) : k > i - 1 => at[i] <= at[k]
      <4> SUFFICES ASSUME NEW k \in 1 .. Len(d), k > i - 1
                   PROVE  at[i] <= at[k]
        OBVIOUS
      <4>1. CASE k = i
        BY <1>2, <4>1
      <4>2. CASE i < k
        <5>1. at[i + 1] <= at[k] /\ at[k] \in Nat
          BY <1>1, <4>2, LinesInOrder, LineFacts
        <5> QED
          BY <1>2, <5>1
      <4> QED
        BY <4>1, <4>2
    <3> QED
      BY <1>1, <1>2, <1>3, <1>4, <2>1, <3>1, LeavingKeeps
  <2>4. t.fence = Fences(d)[i]
    <3>1. Fences(d)[i] = FenceAfter(Fences(d)[i - 1], d[i])
      BY FenceSteps
    <3> QED
      BY <1>4, <1>6, <2>1, <3>1 DEF OpensSection, FenceAfter
  <2>5. \A k \in 1 .. i : t.start < at[k + 1] => Label(t.path) = InForce(d, k)
    <3> SUFFICES ASSUME NEW k \in 1 .. i, at[i] < at[k + 1]
                 PROVE  k = i
      BY <2>1, <2>2
    <3>1. k \in 1 .. Len(d)
      BY <1>3
    <3>2. k < i => at[k + 1] <= at[i] /\ at[k + 1] \in Nat
      BY <1>1, <3>1, LinesInOrder, LineFacts
    <3> QED
      BY <1>2, <3>2
  <2>6. t.start <= TextLen(d) /\ t.start <= at[i + 1] /\ t.start \in Nat
    <3>1. at[i] + d[i].len <= TextLen(d) /\ TextLen(d) \in Nat
      BY <1>1, TextEnds
    <3> QED
      BY <1>2, <2>1, <3>1
  <2>7. t.out \in Seq(Passages)
    BY <2>3 DEF ListHolds
  <2>8. t \in [path : Paths, start : Nat, fence : {t.fence}, out : Seq(Passages)]
    BY <1>1, <1>6, <2>1, <2>2, <2>6, <2>7 DEF AfterLine, Enter
  <2>9. SectionHolds(d, t, i)
    BY <1>1, <2>2, <2>4, <2>5, <2>6, <2>8 DEF SectionHolds
  <2> QED
    BY <2>3, <2>9
<1>7. CASE ~OpensSection(s, d[i])
  <2>1. t = [s EXCEPT !.fence = FenceAfter(s.fence, d[i])]
    BY <1>1, <1>7 DEF AfterLine
  <2>2. /\ t.path = s.path /\ t.start = s.start /\ t.out = s.out
        /\ t.fence = FenceAfter(s.fence, d[i])
        /\ t \in [path : Paths, start : Nat, fence : {t.fence}, out : Seq(Passages)]
    BY <2>1 DEF SectionHolds
  <2>3. Label(t.path) = InForce(d, i)
    <3>1. InForce(d, i) = InForce(d, i - 1)
      BY <1>5, <1>7, InForceStays
    <3> QED
      BY <2>2, <3>1 DEF SectionHolds
  <2>4. t.fence = Fences(d)[i]
    BY <1>4, <2>2, FenceSteps
  <2>5. \A k \in 1 .. i : t.start < at[k + 1] => Label(t.path) = InForce(d, k)
    <3> SUFFICES ASSUME NEW k \in 1 .. i, t.start < at[k + 1]
                 PROVE  Label(t.path) = InForce(d, k)
      OBVIOUS
    <3>1. CASE k = i
      BY <2>3, <3>1
    <3>2. CASE k # i
      <4>1. k \in 1 .. i - 1
        BY <3>2
      <4> QED
        BY <1>1, <2>2, <4>1 DEF SectionHolds
    <3> QED
      BY <3>1, <3>2
  <2>6. t.start <= at[i + 1]
    BY <1>2, <1>4, <2>2
  <2>7. t.start <= TextLen(d)
    BY <2>2 DEF SectionHolds
  <2>8. SectionHolds(d, t, i)
    BY <1>1, <2>2, <2>3, <2>4, <2>5, <2>6, <2>7 DEF SectionHolds
  <2> QED
    BY <2>2, <2>8
<1> QED
  BY <1>6, <1>7

(* The sections are complete and each is filed under the headings in force *)
(* at all of its lines (_sections, chunking.py:109-159).                   *)
LEMMA SectionsHold ==
  ASSUME NEW d \in Seq(Lines)
  PROVE  ListHolds(d, Sections(d), TextLen(d))
<1>1. PICK n \in Nat : n = Len(d)
  OBVIOUS
<1>2. PICK w : w = SectionWalk(d)
  OBVIOUS
<1>3. w = [i \in 0 .. n |-> IF i = 0 THEN AtTop
             ELSE AfterLine(d, w[i - 1], d[i], LineStarts(d)[i])]
  BY <1>1, <1>2, SectionsRun
<1>4. w[0] = AtTop /\ \A i \in 1 .. n : w[i] = AfterLine(d, w[i - 1], d[i], LineStarts(d)[i])
  BY <1>3
<1> DEFINE S == {i \in 0 .. n : SectionHolds(d, w[i], i) /\ ListHolds(d, w[i].out, w[i].start)}
<1>5. 0 \in S
  BY <1>4, SectionBegins
<1>6. \A i \in 1 .. n : i - 1 \in S => i \in S
  BY <1>1, <1>4, SectionContinues
<1>7. \A i \in 0 .. n : i \in S
  <2> HIDE DEF S
  <2> QED
    BY <1>5, <1>6, Upwards
<1>8. SectionHolds(d, w[n], n) /\ ListHolds(d, w[n].out, w[n].start)
  <2>1. n \in S
    <3> HIDE DEF S
    <3> QED
      BY <1>7
  <2> QED
    BY <2>1
<1>9. TextLen(d) \in Nat /\ w[n].start <= TextLen(d)
  BY <1>8, TextEnds DEF SectionHolds
<1>10. \A k \in 1 .. Len(d) : ~(k > n)
  BY <1>1
<1>11. ListHolds(d, Leave(d, w[n], TextLen(d)), TextLen(d))
  BY <1>1, <1>8, <1>9, <1>10, LeavingKeeps
<1> QED
  BY <1>1, <1>2, <1>11 DEF Sections

----------------------------------------------------------------------------
(* Paragraphs *)

Spans == [start : Nat, end : Nat]

(* The invariant of the walk in _paragraph_spans: the spans are complete   *)
(* up to the block that is open.                                           *)
ParagraphHolds(d, section, s) ==
  /\ s.block \in Nat /\ section.start <= s.block /\ s.block <= section.end
  /\ s.spans \in Seq(Spans) /\ Chain(Newlines(d), s.spans, section.start, s.block, 0)

(* A paragraph that ends is added if it has text (chunking.py:181-188).    *)
LEMMA ParagraphEnds ==
  ASSUME NEW d, NEW section \in Passages, NEW s, ParagraphHolds(d, section, s),
         NEW end \in Nat, s.block < end
  PROVE  LET spans == Adding(d, s.spans, [start |-> s.block, end |-> end])
         IN  spans \in Seq(Spans) /\ Chain(Newlines(d), spans, section.start, end, 0)
<1>1. PICK c : c = [start |-> s.block, end |-> end]
  OBVIOUS
<1>2. c \in Spans /\ c.start = s.block /\ c.end = end
  BY <1>1 DEF ParagraphHolds, Spans
<1>3. PICK lo \in Nat, block \in Nat : lo = section.start /\ block = s.block
  BY DEF Passages, ParagraphHolds
<1>4. PICK list \in Seq(Spans) : list = s.spans
  BY DEF ParagraphHolds
<1>5. lo <= block /\ Chain(Newlines(d), list, lo, c.start, 0)
  BY <1>2, <1>3, <1>4 DEF ParagraphHolds
<1>6. Adding(d, list, c) \in Seq(Spans) /\ Chain(Newlines(d), Adding(d, list, c), lo, c.end, 0)
  BY <1>2, <1>3, <1>5, ChainAdds
<1> QED
  BY <1>1, <1>2, <1>3, <1>4, <1>6

(* Each line of the section keeps it so: the blank line that ends a        *)
(* paragraph is skipped, and is a newline (chunking.py:172-184).           *)
LEMMA ParagraphContinues ==
  ASSUME NEW d \in Seq(Lines), NEW section \in Passages, section.end <= TextLen(d),
         NEW i \in 1 .. Len(d), NEW s, ParagraphHolds(d, section, s)
  PROVE  ParagraphHolds(d, section, InParagraph(d, section, s, i))
<1>1. PICK at \in Nat : at = LineStarts(d)[i]
  BY LineFacts
<1>2. PICK lo \in Nat, hi \in Nat : lo = section.start /\ hi = section.end
  BY DEF Passages
<1>3. CASE at \notin Span(section)
  BY <1>1, <1>3 DEF InParagraph
<1>4. CASE at \in Span(section)
  <2>1. lo <= at /\ at < hi
    BY <1>2, <1>4 DEF Span
  <2>2. PICK t : t = NextParagraph(d, s, d[i], at)
    OBVIOUS
  <2>3. CASE d[i].kind = "blank" /\ s.fence = NoFence /\ at > s.block
    <3>1. PICK spans : spans = Adding(d, s.spans, [start |-> s.block, end |-> at])
      OBVIOUS
    <3>2. t.block = at + 1 /\ t.spans = spans
      BY <2>2, <2>3, <3>1 DEF NextParagraph
    <3>3. spans \in Seq(Spans) /\ Chain(Newlines(d), spans, lo, at, 0)
      <4>1. s.block < at
        BY <2>3 DEF ParagraphHolds
      <4> QED
        BY <1>2, <3>1, <4>1, ParagraphEnds
    <3>4. at \in Newlines(d)
      <4>1. d[i].len = 0
        BY <2>3, LineFacts
      <4>2. LineStarts(d)[i + 1] = at + 1
        BY <1>1, <4>1, LineFacts
      <4>3. CASE i = Len(d)
        <5>1. d # <<>>
          OBVIOUS
        <5>2. TextLen(d) = at /\ TextLen(d) \in Nat
          BY <4>2, <4>3, <5>1, TextEnds
        <5> QED
          BY <1>2, <2>1, <5>2
      <4>4. CASE i # Len(d)
        <5>1. i < Len(d)
          BY <4>4
        <5>2. LineStarts(d)[i] + d[i].len = at
          BY <1>1, <4>1
        <5> QED
          BY <5>1, <5>2, BlankLineIsANewline
      <4> QED
        BY <4>3, <4>4
    <3>5. Bare(Newlines(d), at, at + 1)
      BY <3>4 DEF Bare
    <3>6. Chain(Newlines(d), spans, lo, at + 1, 0)
      BY <3>3, <3>5, ChainStretches
    <3>7. ParagraphHolds(d, section, t)
      BY <1>2, <2>1, <3>2, <3>3, <3>6 DEF ParagraphHolds
    <3> QED
      BY <1>1, <1>4, <2>2, <3>7 DEF InParagraph
  <2>4. CASE ~(d[i].kind = "blank" /\ s.fence = NoFence /\ at > s.block)
    <3>1. t.block = s.block /\ t.spans = s.spans
      BY <2>2, <2>4 DEF NextParagraph
    <3>2. ParagraphHolds(d, section, t)
      BY <3>1 DEF ParagraphHolds
    <3> QED
      BY <1>1, <1>4, <2>2, <3>2 DEF InParagraph
  <2> QED
    BY <2>3, <2>4
<1> QED
  BY <1>3, <1>4

(* The paragraphs of a section leave out nothing but newlines              *)
(* (_paragraph_spans, chunking.py:162-188).                                *)
LEMMA ParagraphsHold ==
  ASSUME NEW d \in Seq(Lines), NEW section \in Passages,
         section.start < section.end, section.end <= TextLen(d)
  PROVE  /\ ParagraphSpans(d, section) \in Seq(Spans)
         /\ Chain(Newlines(d), ParagraphSpans(d, section), section.start, section.end, 0)
<1>1. PICK n \in Nat : n = Len(d)
  OBVIOUS
<1>2. PICK w : w = ParagraphWalk(d, section)
  OBVIOUS
<1>3. w = [i \in 0 .. n |-> IF i = 0 THEN Opened(section)
             ELSE InParagraph(d, section, w[i - 1], i)]
  BY <1>1, <1>2, ParagraphsRun
<1>4. w[0] = Opened(section) /\ \A i \in 1 .. n : w[i] = InParagraph(d, section, w[i - 1], i)
  BY <1>3
<1>5. PICK lo \in Nat, hi \in Nat : lo = section.start /\ hi = section.end
  BY DEF Passages
<1> DEFINE S == {i \in 0 .. n : ParagraphHolds(d, section, w[i])}
<1>6. 0 \in S
  <2>1. Chain(Newlines(d), <<>>, lo, lo, 0)
    BY ChainStarts
  <2>2. <<>> \in Seq(Spans)
    OBVIOUS
  <2>3. ParagraphHolds(d, section, Opened(section))
    BY <1>5, <2>1, <2>2 DEF ParagraphHolds, Opened
  <2> QED
    BY <1>4, <2>3
<1>7. \A i \in 1 .. n : i - 1 \in S => i \in S
  BY <1>1, <1>4, ParagraphContinues
<1>8. \A i \in 0 .. n : i \in S
  <2> HIDE DEF S
  <2> QED
    BY <1>6, <1>7, Upwards
<1>9. ParagraphHolds(d, section, w[n])
  <2>1. n \in S
    <3> HIDE DEF S
    <3> QED
      BY <1>8
  <2> QED
    BY <2>1
<1>10. PICK s : s = w[n]
  OBVIOUS
<1>11. CASE s.block < hi
  <2>1. PICK spans : spans = Adding(d, s.spans, [start |-> s.block, end |-> hi])
    OBVIOUS
  <2>2. spans \in Seq(Spans) /\ Chain(Newlines(d), spans, lo, hi, 0)
    BY <1>5, <1>9, <1>10, <1>11, <2>1, ParagraphEnds
  <2>3. ParagraphSpans(d, section) = spans
    BY <1>1, <1>2, <1>5, <1>10, <1>11, <2>1 DEF ParagraphSpans
  <2> QED
    BY <1>5, <2>2, <2>3
<1>12. CASE ~(s.block < hi)
  <2>1. ParagraphSpans(d, section) = s.spans
    BY <1>1, <1>2, <1>5, <1>10, <1>12 DEF ParagraphSpans
  <2>2. s.block = hi
    BY <1>5, <1>9, <1>10, <1>12 DEF ParagraphHolds
  <2> QED
    BY <1>5, <1>9, <1>10, <2>1, <2>2 DEF ParagraphHolds
<1> QED
  BY <1>11, <1>12

----------------------------------------------------------------------------
(* Gathering paragraphs *)

(* Every element has this path.                                            *)
Filed(list, path) == \A j \in 1 .. Len(list) : list[j].path = path

(* The chunks emitted so far, with the buffer as the last of them.         *)
Held(b, path) == Append(b.out, Buffer(b, path))

(* The invariant of the buffer after i paragraphs: with it emitted, the    *)
(* list is complete up to the end of paragraph i (chunking.py:204-220).    *)
GatherHolds(N, list, path, lo, b, i) ==
  /\ i = 0 => b = Empty
  /\ i # 0 => /\ b \in [start : Nat, end : {list[i].end}, out : Seq(Passages)]
              /\ Held(b, path) \in Seq(Passages) /\ Filed(Held(b, path), path)
              /\ Chain(N, Held(b, path), lo, list[i].end, OverlapChars)

(* The sizes in characters; the overlap is within the ceiling.             *)
LEMMA SizesAreNat ==
  /\ TargetChars \in Nat /\ OverlapChars \in Nat /\ MinChars \in Nat /\ MaxChars \in Nat \ {0}
  /\ OverlapChars <= MaxChars
<1>1. \A a \in Nat, b \in Nat, c \in Nat : a <= b => a * c \in Nat /\ b * c \in Nat /\ a * c <= b * c
  OBVIOUS
<1>2. \A a \in Nat \ {0}, c \in Nat \ {0} : a * c \in Nat \ {0}
  OBVIOUS
<1> QED
  BY <1>1, <1>2, SizesAssumption DEF TargetChars, OverlapChars, MinChars, MaxChars

(* One more element of the path leaves all of them so.                     *)
LEMMA AppendFiled ==
  ASSUME NEW X, NEW list \in Seq(X), NEW path, Filed(list, path), NEW c \in X, c.path = path
  PROVE  Filed(Append(list, c), path)
<1>1. PICK n \in Nat : n = Len(list)
  OBVIOUS
<1>2. PICK more : more = Append(list, c)
  OBVIOUS
<1>3. Len(more) = n + 1 /\ more[n + 1] = c /\ \A i \in 1 .. n : more[i] = list[i]
  BY <1>1, <1>2
<1>4. \A j \in 1 .. n + 1 : more[j].path = path
  <2> TAKE j \in 1 .. n + 1
  <2>1. CASE j = n + 1
    BY <1>3, <2>1
  <2>2. CASE j # n + 1
    <3>1. j \in 1 .. n
      BY <2>2
    <3> QED
      BY <1>1, <1>3, <3>1 DEF Filed
  <2> QED
    BY <2>1, <2>2
<1> QED
  BY <1>2, <1>3, <1>4 DEF Filed

(* The last element of a list that has grown, and its replacement.         *)
LEMMA LastOfAppend ==
  ASSUME NEW X, NEW list \in Seq(X), NEW c \in X, NEW e \in X
  PROVE  /\ Append(list, c) \in Seq(X) /\ Append(list, c) # <<>>
         /\ Append(list, c)[Len(Append(list, c))] = c
         /\ WithLast(Append(list, c), e) = Append(list, e)
<1>1. PICK n \in Nat : n = Len(list)
  OBVIOUS
<1>2. PICK one, two : one = Append(list, c) /\ two = Append(list, e)
  OBVIOUS
<1>3. /\ one \in Seq(X) /\ two \in Seq(X) /\ Len(one) = n + 1 /\ Len(two) = n + 1
      /\ one[n + 1] = c /\ two[n + 1] = e
      /\ \A i \in 1 .. n : one[i] = list[i] /\ two[i] = list[i]
  BY <1>1, <1>2
<1>4. PICK new : new = [one EXCEPT ![n + 1] = e]
  OBVIOUS
<1>5. new \in Seq(X) /\ Len(new) = n + 1 /\ new[n + 1] = e
  BY <1>3, <1>4
<1>6. \A i \in 1 .. n + 1 : new[i] = two[i]
  <2> TAKE i \in 1 .. n + 1
  <2>1. CASE i = n + 1
    BY <1>3, <1>5, <2>1
  <2>2. CASE i # n + 1
    <3>1. i \in 1 .. n
      BY <2>2
    <3>2. new[i] = one[i]
      BY <1>3, <1>4, <2>2
    <3> QED
      BY <1>3, <3>1, <3>2
  <2> QED
    BY <2>1, <2>2
<1>7. new = two
  BY <1>3, <1>5, <1>6
<1>8. one # <<>>
  BY <1>3
<1> QED
  BY <1>2, <1>3, <1>4, <1>7, <1>8 DEF WithLast

(* A paragraph starts the buffer, joins it, or has it emitted and steps    *)
(* back from its end by the overlap; in every case the list with the       *)
(* buffer is complete up to the paragraph's end (chunking.py:206-218).     *)
LEMMA GatherContinues ==
  ASSUME NEW N, NEW list \in Seq(Spans), NEW path \in Paths, NEW lo \in Nat, NEW hi \in Nat,
         Chain(N, list, lo, hi, 0), NEW i \in 1 .. Len(list), NEW b,
         GatherHolds(N, list, path, lo, b, i - 1)
  PROVE  GatherHolds(N, list, path, lo, Gather(b, list[i], path), i)
<1>1. PICK p : p = list[i]
  OBVIOUS
<1>2. PICK s \in Nat, e \in Nat : s = p.start /\ e = p.end
  <2>1. p \in Spans
    BY <1>1
  <2> QED
    BY <2>1 DEF Spans
<1>3. PICK r \in Int : r = Reached(list, lo, i - 1)
  BY DEF Chain, Link
<1>4. lo <= s /\ s < e /\ r <= e /\ r <= s /\ Bare(N, r, s)
  <2>1. Link(N, list, lo, hi, 0, i)
    BY DEF Chain
  <2> QED
    BY <1>1, <1>2, <1>3, <2>1 DEF Link
<1>5. PICK t : t = Gather(b, p, path)
  OBVIOUS
<1>6. SUFFICES /\ t \in [start : Nat, end : {e}, out : Seq(Passages)]
               /\ Held(t, path) \in Seq(Passages) /\ Filed(Held(t, path), path)
               /\ Chain(N, Held(t, path), lo, e, OverlapChars)
  BY <1>1, <1>2, <1>5 DEF GatherHolds
<1>7. PICK ov \in Nat : ov = OverlapChars
  BY SizesAreNat
<1>8. CASE i = 1
  <2>1. b = Empty
    BY <1>8 DEF GatherHolds
  <2>2. t = [start |-> s, end |-> e, out |-> <<>>]
    BY <1>2, <1>5, <2>1 DEF Gather, Empty
  <2>3. PICK c : c = [path |-> path, start |-> s, end |-> e]
    OBVIOUS
  <2>4. c \in Passages /\ c.path = path /\ c.start = s /\ c.end = e
    BY <2>3 DEF Passages
  <2>5. Held(t, path) = Append(<<>>, c)
    BY <2>2, <2>3 DEF Held, Buffer
  <2>6. r = lo
    BY <1>3, <1>8 DEF Reached
  <2>7. Chain(N, <<>>, lo, lo, ov)
    BY ChainStarts
  <2>8. <<>> \in Seq(Passages) /\ Filed(<<>>, path)
    BY DEF Filed
  <2>9. PICK none \in Seq(Passages) : none = <<>>
    BY <2>8
  <2>10. Append(none, c) \in Seq(Passages) /\ Chain(N, Append(none, c), lo, e, ov)
    <3>1. lo - ov <= s /\ Chain(N, none, lo, lo, ov)
      BY <1>4, <2>7, <2>9
    <3> QED
      BY <1>4, <2>4, <2>6, <3>1, ChainGrows
  <2>11. Filed(Append(none, c), path)
    BY <2>4, <2>8, <2>9, AppendFiled
  <2> QED
    BY <1>7, <2>2, <2>4, <2>5, <2>9, <2>10, <2>11
<1>9. CASE i # 1
  <2>1. i - 1 \in 1 .. Len(list) /\ i - 1 # 0
    BY <1>9
  <2>2. list[i - 1].end = r
    BY <1>3, <2>1 DEF Reached
  <2>3. /\ b \in [start : Nat, end : {r}, out : Seq(Passages)]
        /\ Held(b, path) \in Seq(Passages) /\ Filed(Held(b, path), path)
        /\ Chain(N, Held(b, path), lo, r, ov)
    BY <1>7, <2>1, <2>2 DEF GatherHolds
  <2>4. PICK st \in Nat, out \in Seq(Passages) : b = [start |-> st, end |-> r, out |-> out]
    BY <2>3
  <2>5. PICK c : c = [path |-> path, start |-> st, end |-> r]
    OBVIOUS
  <2>6. Held(b, path) = Append(out, c)
    BY <2>4, <2>5 DEF Held, Buffer
  <2>7. PICK held \in Seq(Passages) : held = Append(out, c)
    BY <2>3, <2>6
  <2>8. c \in Passages /\ c = held[Len(held)] /\ held # <<>> /\ lo <= st /\ r \in Nat
    <3>1. PICK n \in Nat : n = Len(out)
      OBVIOUS
    <3>2. Len(held) = n + 1 /\ held[n + 1] = c
      BY <2>7, <3>1
    <3>3. held[n + 1] \in Passages
      BY <3>1, <3>2
    <3>4. Link(N, held, lo, r, ov, n + 1)
      BY <2>3, <2>6, <2>7, <3>1, <3>2 DEF Chain
    <3> QED
      BY <2>5, <3>1, <3>2, <3>3, <3>4 DEF Link, Passages
  <2>12. Chain(N, held, lo, r, ov)
    BY <2>3, <2>6, <2>7
  <2>9. CASE e - st <= TargetChars
    <3>1. t = [start |-> st, end |-> e, out |-> out]
      BY <1>2, <1>5, <2>4, <2>9, SMTT(30) DEF Gather
    <3>2. PICK longer : longer = [path |-> path, start |-> st, end |-> e]
      OBVIOUS
    <3>3. longer \in Passages /\ longer.path = path /\ longer.start = st /\ longer.end = e
      BY <3>2 DEF Passages
    <3>4. Held(t, path) = Append(out, longer)
      BY <3>1, <3>2 DEF Held, Buffer
    <3>5. PICK u : u = [path |-> path, start |-> s, end |-> e]
      OBVIOUS
    <3>6. u \in Passages /\ u.start = s /\ u.end = e
      BY <3>5 DEF Passages
    <3>7. held[Len(held)].end = r /\ longer.start = held[Len(held)].start
      BY <2>5, <2>8, <3>3
    <3>8. PICK more : more = WithLast(held, longer)
      OBVIOUS
    <3>9. more \in Seq(Passages) /\ Chain(N, more, lo, e, ov)
      <4>1. u.start <= u.end /\ r <= u.end /\ Bare(N, r, u.start) /\ u.start \in Int /\ u.end \in Int
        BY <1>4, <3>6
      <4>2. longer.end = u.end
        BY <3>3, <3>6
      <4>3. /\ WithLast(held, longer) \in Seq(Passages)
            /\ Chain(N, WithLast(held, longer), lo, u.end, ov)
        <5>1. lo \in Int
          OBVIOUS
        <5> QED
          BY <2>8, <2>12, <3>3, <3>6, <3>7, <4>1, <4>2, <5>1, ChainLengthens, Zenon
      <4> QED
        BY <3>6, <3>8, <4>3
    <3>10. more = Append(out, longer)
      BY <2>7, <2>8, <3>3, <3>8, LastOfAppend, SMTT(30)
    <3>11. Filed(Append(out, longer), path)
      <4>1. Filed(out, path)
        BY <2>3, <2>6 DEF Filed
      <4> QED
        BY <3>3, <4>1, AppendFiled
    <3> QED
      BY <1>7, <3>1, <3>4, <3>9, <3>10, <3>11
  <2>10. CASE ~(e - st <= TargetChars)
    <3>1. PICK ns : ns = Least(Greatest(st, r - ov), s)
      OBVIOUS
    <3>2. ns \in Nat /\ lo <= ns /\ ns <= s /\ r - ov <= ns
      BY <1>4, <2>8, <3>1 DEF Least, Greatest
    <3>3. t = [start |-> ns, end |-> e, out |-> held]
      <4>1. b.start = st /\ b.end = r /\ b.out = out /\ st # -1
        BY <2>4
      <4>2. t = [start |-> Least(Greatest(b.start, b.end - OverlapChars), p.start),
                 end |-> p.end, out |-> Append(b.out, Buffer(b, path))]
        BY <1>2, <1>5, <2>10, <4>1 DEF Gather
      <4>3. Append(b.out, Buffer(b, path)) = held
        BY <2>6, <2>7 DEF Held
      <4> QED
        BY <1>2, <1>7, <3>1, <4>1, <4>2, <4>3
    <3>4. PICK u : u = [path |-> path, start |-> ns, end |-> e]
      OBVIOUS
    <3>5. u \in Passages /\ u.path = path /\ u.start = ns /\ u.end = e
      BY <3>2, <3>4 DEF Passages
    <3>6. Held(t, path) = Append(held, u)
      BY <3>3, <3>4 DEF Held, Buffer
    <3>7. Bare(N, r, ns)
      BY <1>4, <3>2 DEF Bare
    <3>8. Append(held, u) \in Seq(Passages) /\ Chain(N, Append(held, u), lo, e, ov)
      <4>1. /\ u.start \in Int /\ u.end \in Int /\ lo <= u.start /\ u.start < u.end
            /\ r <= u.end /\ r - ov <= u.start /\ Bare(N, r, u.start)
        BY <1>4, <3>2, <3>5, <3>7
      <4>2. Append(held, u) \in Seq(Passages) /\ Chain(N, Append(held, u), lo, u.end, ov)
        BY <2>12, <3>5, <4>1, ChainGrows, SMTT(30)
      <4> QED
        BY <3>5, <4>2
    <3>9. Filed(Append(held, u), path)
      BY <2>3, <2>6, <2>7, <3>5, AppendFiled
    <3> QED
      BY <1>7, <3>2, <3>3, <3>6, <3>8, <3>9
  <2> QED
    BY <2>9, <2>10
<1> QED
  BY <1>8, <1>9

(* The chunks of a section leave out nothing but newlines of it and carry  *)
(* its path (chunking.py:203-220).                                         *)
LEMMA GatheredHolds ==
  ASSUME NEW d \in Seq(Lines), NEW section \in Passages,
         section.start < section.end, section.end <= TextLen(d)
  PROVE  /\ Gathered(d, section) \in Seq(Passages)
         /\ Filed(Gathered(d, section), section.path)
         /\ Chain(Newlines(d), Gathered(d, section), section.start, section.end, OverlapChars)
<1>1. PICK list \in Seq(Spans) : list = ParagraphSpans(d, section)
  BY ParagraphsHold
<1>2. PICK lo \in Nat, hi \in Nat, path \in Paths :
        lo = section.start /\ hi = section.end /\ path = section.path
  BY DEF Passages
<1>3. PICK N : N = Newlines(d)
  OBVIOUS
<1>4. Chain(N, list, lo, hi, 0) /\ lo < hi
  BY <1>1, <1>2, <1>3, ParagraphsHold
<1>5. PICK n \in Nat : n = Len(list)
  OBVIOUS
<1>6. PICK w : w = GatherWalk(list, path)
  OBVIOUS
<1>7. w = [i \in 0 .. n |-> IF i = 0 THEN Empty ELSE Gather(w[i - 1], list[i], path)]
  BY <1>5, <1>6, GatherRun
<1>8. w[0] = Empty /\ \A i \in 1 .. n : w[i] = Gather(w[i - 1], list[i], path)
  BY <1>7
<1> DEFINE S == {i \in 0 .. n : GatherHolds(N, list, path, lo, w[i], i)}
<1>9. 0 \in S
  BY <1>8 DEF GatherHolds
<1>10. \A i \in 1 .. n : i - 1 \in S => i \in S
  BY <1>4, <1>5, <1>8, GatherContinues
<1>11. \A i \in 0 .. n : i \in S
  <2> HIDE DEF S
  <2> QED
    BY <1>9, <1>10, Upwards
<1>12. GatherHolds(N, list, path, lo, w[n], n)
  <2>1. n \in S
    <3> HIDE DEF S
    <3> QED
      BY <1>11
  <2> QED
    BY <2>1
<1>13. PICK g : g = Emptied(w[n], path)
  OBVIOUS
<1>14. g = Gathered(d, section)
  BY <1>1, <1>2, <1>5, <1>6, <1>13 DEF Gathered
<1>15. PICK ov \in Nat : ov = OverlapChars
  BY SizesAreNat
<1>16. PICK r \in Int : r = Reached(list, lo, n) /\ r <= hi /\ Bare(N, r, hi)
  BY <1>4, <1>5 DEF Chain
<1>17. CASE n = 0
  <2>1. w[n] = Empty
    BY <1>8, <1>17
  <2>2. g = <<>>
    BY <1>13, <2>1 DEF Emptied, Empty
  <2>3. Bare(N, lo, hi)
    BY <1>16, <1>17 DEF Reached
  <2>4. PICK none \in Seq(Passages) : none = <<>>
    <3>1. <<>> \in Seq(Passages)
      OBVIOUS
    <3> QED
      BY <3>1
  <2>5. Chain(N, none, lo, lo, ov)
    BY <2>4, ChainStarts
  <2>6. Chain(N, none, lo, hi, ov)
    BY <1>4, <2>3, <2>5, ChainStretches
  <2>7. Filed(none, path)
    BY <2>4 DEF Filed
  <2> QED
    BY <1>2, <1>3, <1>14, <1>15, <2>2, <2>4, <2>6, <2>7
<1>18. CASE n # 0
  <2>1. r = list[n].end
    BY <1>16, <1>18 DEF Reached
  <2>2. /\ w[n].start \in Nat /\ Held(w[n], path) \in Seq(Passages) /\ Filed(Held(w[n], path), path)
        /\ Chain(N, Held(w[n], path), lo, r, ov)
    BY <1>12, <1>15, <1>18, <2>1 DEF GatherHolds
  <2>3. g = Held(w[n], path)
    <3>1. w[n].start # -1
      BY <2>2
    <3> QED
      BY <1>13, <3>1 DEF Emptied, Held
  <2>4. Chain(N, g, lo, hi, ov)
    BY <1>16, <2>2, <2>3, ChainStretches
  <2> QED
    BY <1>2, <1>3, <1>14, <1>15, <2>2, <2>3, <2>4
<1> QED
  BY <1>17, <1>18

(* What lies within a span that is filed rightly, under its path, is filed *)
(* rightly.                                                                *)
LEMMA ElementsAreRight ==
  ASSUME NEW d \in Seq(Lines), NEW section \in Passages, Right(d, section),
         NEW N, NEW list \in Seq(Passages), Filed(list, section.path), NEW back \in Nat,
         Chain(N, list, section.start, section.end, back)
  PROVE  AllRight(d, list)
<1> SUFFICES ASSUME NEW j \in 1 .. Len(list), NEW k \in 1 .. Len(d),
                    LineStarts(d)[k] < list[j].end, list[j].start < LineStarts(d)[k + 1]
             PROVE  Label(list[j].path) = InForce(d, k)
  BY DEF AllRight, Right
<1>1. list[j].path = section.path
  BY DEF Filed
<1>2. PICK s \in Nat, e \in Nat, lo \in Nat, hi \in Nat :
        s = list[j].start /\ e = list[j].end /\ lo = section.start /\ hi = section.end
  <2>1. list[j] \in Passages
    OBVIOUS
  <2> QED
    BY <2>1 DEF Passages
<1>3. lo <= s /\ e <= hi
  <2>1. Link(N, list, section.start, section.end, back, j)
    BY DEF Chain
  <2> QED
    BY <1>2, <2>1 DEF Link
<1>4. PICK a \in Nat, b \in Nat : a = LineStarts(d)[k] /\ b = LineStarts(d)[k + 1]
  BY LineFacts
<1>5. a < e /\ s < b
  BY <1>2, <1>4
<1>6. a < hi /\ lo < b
  BY <1>3, <1>5
<1> QED
  BY <1>1, <1>2, <1>4, <1>6 DEF Right

(* Two lists of spans that are filed rightly make one.                     *)
LEMMA JoinedAreRight ==
  ASSUME NEW d, NEW one \in Seq(Passages), NEW two \in Seq(Passages),
         AllRight(d, one), AllRight(d, two)
  PROVE  AllRight(d, one \o two)
<1>1. PICK m \in Nat, n \in Nat : m = Len(one) /\ n = Len(two)
  OBVIOUS
<1>2. PICK both : both = one \o two
  OBVIOUS
<1>3. /\ Len(both) = m + n /\ \A i \in 1 .. m : both[i] = one[i]
      /\ \A i \in 1 .. n : both[m + i] = two[i]
  BY <1>1, <1>2
<1>4. ASSUME NEW j \in 1 .. m + n
      PROVE  Right(d, both[j])
  <2>1. CASE j <= m
    BY <1>1, <1>3, <2>1 DEF AllRight
  <2>2. CASE j > m
    <3>1. j - m \in 1 .. n /\ m + (j - m) = j
      BY <2>2
    <3> QED
      BY <1>1, <1>3, <3>1 DEF AllRight
  <2> QED
    BY <2>1, <2>2
<1> QED
  BY <1>2, <1>3, <1>4 DEF AllRight

(* The chunks of all sections, before cuts and merges, leave out nothing   *)
(* but newlines of the text, overlap by no more than the overlap, and are  *)
(* filed rightly (chunking.py:202-220).                                    *)
LEMMA AllGatheredHold ==
  ASSUME NEW d \in Seq(Lines), NEW list, ListHolds(d, list, TextLen(d))
  PROVE  LET all == GatheredAll(d, list)[Len(list)]
         IN  /\ all \in Seq(Passages) /\ AllRight(d, all)
             /\ Chain(Newlines(d), all, 0, TextLen(d), OverlapChars)
<1>1. PICK N : N = Newlines(d)
  OBVIOUS
<1>2. PICK top \in Nat : top = TextLen(d)
  BY TextEnds
<1>3. list \in Seq(Passages) /\ AllRight(d, list) /\ Chain(N, list, 0, top, 0)
  BY <1>1, <1>2 DEF ListHolds
<1>4. PICK n \in Nat : n = Len(list)
  BY <1>3
<1>5. PICK w : w = GatheredAll(d, list)
  OBVIOUS
<1>6. w = [i \in 0 .. n |-> IF i = 0 THEN <<>> ELSE Joined(w[i - 1], Gathered(d, list[i]))]
  BY <1>3, <1>4, <1>5, GatheredRun
<1>7. w[0] = <<>> /\ \A i \in 1 .. n : w[i] = Joined(w[i - 1], Gathered(d, list[i]))
  BY <1>6
<1>8. PICK ov \in Nat : ov = OverlapChars
  BY SizesAreNat
<1> DEFINE S == {i \in 0 .. n : /\ w[i] \in Seq(Passages) /\ AllRight(d, w[i])
                                /\ Chain(N, w[i], 0, Reached(list, 0, i), ov)}
<1>9. 0 \in S
  <2>1. w[0] \in Seq(Passages)
    BY <1>7
  <2>2. AllRight(d, w[0])
    BY <1>7 DEF AllRight
  <2>3. Chain(N, w[0], 0, 0, ov)
    BY <1>7, ChainStarts
  <2>4. Reached(list, 0, 0) = 0
    BY DEF Reached
  <2> QED
    BY <2>1, <2>2, <2>3, <2>4
<1>10. ASSUME NEW i \in 1 .. n, i - 1 \in S
       PROVE  i \in S
  <2>1. PICK one \in Seq(Passages) : one = w[i - 1] /\ AllRight(d, one)
    BY <1>10
  <2>2. PICK section \in Passages : section = list[i] /\ Right(d, section)
    BY <1>3, <1>4 DEF AllRight
  <2>3. PICK lo \in Nat, hi \in Nat : lo = section.start /\ hi = section.end
    BY <2>2 DEF Passages
  <2>4. Link(N, list, 0, top, 0, i)
    BY <1>3, <1>4 DEF Chain
  <2>5. PICK r \in Int : r = Reached(list, 0, i - 1)
    BY <2>4 DEF Link
  <2>6. lo < hi /\ hi <= top /\ r <= lo /\ Bare(N, r, lo)
    <3>1. /\ list[i].start = lo /\ list[i].end = hi
      BY <2>2, <2>3
    <3> QED
      BY <2>4, <2>5, <3>1 DEF Link
  <2>7. PICK two : two = Gathered(d, section)
    OBVIOUS
  <2>8. two \in Seq(Passages) /\ Filed(two, section.path) /\ Chain(N, two, lo, hi, ov)
    BY <1>1, <1>2, <1>8, <2>3, <2>6, <2>7, GatheredHolds
  <2>9. AllRight(d, two)
    BY <2>2, <2>3, <2>8, ElementsAreRight
  <2>10. Chain(N, one, 0, lo, ov)
    <3>1. Chain(N, one, 0, r, ov)
      BY <1>10, <2>1, <2>5
    <3> QED
      BY <2>6, <3>1, ChainStretches
  <2>11. one \o two \in Seq(Passages) /\ Chain(N, one \o two, 0, hi, ov)
    <3>1. 0 <= lo /\ lo <= hi /\ lo - ov <= lo /\ lo \in Int /\ hi \in Int /\ Bare(N, lo, lo)
      BY <2>6 DEF Bare
    <3>2. two # <<>> => lo <= two[1].end
      BY <2>8 DEF Chain, Link
    <3>3. 0 \in Int
      OBVIOUS
    <3> QED
      BY <2>8, <2>10, <3>1, <3>2, <3>3, ChainsJoin, Zenon
  <2>12. AllRight(d, one \o two)
    BY <2>1, <2>8, <2>9, JoinedAreRight
  <2>13. w[i] = one \o two
    BY <1>7, <2>1, <2>2, <2>7 DEF Joined
  <2>14. Reached(list, 0, i) = hi
    BY <2>2, <2>3 DEF Reached
  <2>15. w[i] \in Seq(Passages) /\ AllRight(d, w[i]) /\ Chain(N, w[i], 0, hi, ov)
    BY <2>11, <2>12, <2>13
  <2> QED
    BY <2>14, <2>15
<1>11. \A i \in 0 .. n : i \in S
  <2> HIDE DEF S
  <2>1. \A i \in 1 .. n : i - 1 \in S => i \in S
    BY <1>10
  <2> QED
    BY <1>9, <2>1, Upwards
<1>12. w[n] \in Seq(Passages) /\ AllRight(d, w[n]) /\ Chain(N, w[n], 0, Reached(list, 0, n), ov)
  <2>1. n \in S
    <3> HIDE DEF S
    <3> QED
      BY <1>11
  <2> QED
    BY <2>1
<1>13. PICK r \in Int : r = Reached(list, 0, n) /\ r <= top /\ Bare(N, r, top)
  BY <1>3, <1>4 DEF Chain
<1>14. Chain(N, w[n], 0, top, ov)
  BY <1>12, <1>13, ChainStretches
<1> QED
  BY <1>1, <1>2, <1>4, <1>5, <1>8, <1>12, <1>14

----------------------------------------------------------------------------
(* Cutting at the ceiling *)

(* Quotient and remainder.                                                 *)
LEMMA Division ==
  ASSUME NEW a \in Nat, NEW m \in Nat \ {0}
  PROVE  /\ a \div m \in Nat /\ (a \div m) * m <= a /\ a < (a \div m) * m + m
OBVIOUS

(* Multiples of the ceiling go up by it.                                   *)
LEMMA Multiples ==
  ASSUME NEW m \in Nat
  PROVE  /\ \A k \in Nat : k * m \in Nat /\ (k + 1) * m = k * m + m
         /\ \A j \in Nat, k \in Nat : j <= k => j * m <= k * m
OBVIOUS

(* The pieces a chunk is cut into lie end to end from its start to its     *)
(* end, the remainder included (chunking.py:226-231).                      *)
LEMMA PiecesTile ==
  ASSUME NEW N, NEW c \in Passages, c.start < c.end
  PROVE  /\ Bounded(c) \in Seq(Passages) /\ Bounded(c) # <<>> /\ Filed(Bounded(c), c.path)
         /\ Chain(N, Bounded(c), c.start, c.end, 0)
         /\ Bounded(c)[1].end = Least(c.end, c.start + MaxChars)
<1>1. PICK m \in Nat \ {0} : m = MaxChars
  BY SizesAreNat
<1>2. PICK path \in Paths, start \in Nat, end \in Nat : c = [path |-> path, start |-> start, end |-> end]
  BY DEF Passages
<1>3. c.path = path /\ c.start = start /\ c.end = end /\ start < end
  BY <1>2
<1>4. PICK a \in Nat : a = end - start + m - 1
  BY <1>3
<1>5. PICK q \in Nat : q = a \div m /\ q * m <= a /\ a < q * m + m
  BY Division
<1>6. PICK f : f = [k \in 0 .. q |-> start + k * m]
  OBVIOUS
<1>7. \A k \in 0 .. q : f[k] \in Nat
  BY <1>6, Multiples
<1>8. ASSUME NEW k \in 1 .. q
      PROVE  f[k] = f[k - 1] + m
  <2>1. k - 1 \in Nat /\ k - 1 + 1 = k
    OBVIOUS
  <2>2. k * m = (k - 1) * m + m
    BY <2>1, Multiples
  <2>3. (k - 1) * m \in Nat
    BY <2>1, Multiples
  <2> QED
    BY <1>6, <2>2, <2>3
<1>9. f[0] = start
  <2>1. 0 * m = 0
    OBVIOUS
  <2> QED
    BY <1>6, <2>1
<1>10. q # 0
  <2>1. q = 0 => q * m = 0
    OBVIOUS
  <2> QED
    BY <1>3, <1>4, <1>5, <2>1
<1>11. f[q - 1] < end /\ end <= f[q]
  <2>1. f[q] = start + q * m /\ f[q] = f[q - 1] + m /\ f[q - 1] \in Nat /\ q * m \in Nat
    BY <1>6, <1>7, <1>8, <1>10, Multiples
  <2> QED
    BY <1>4, <1>5, <2>1
<1>12. ASSUME NEW k \in 0 .. q - 1
       PROVE  start <= f[k] /\ f[k] < end
  <2>1. k * m <= (q - 1) * m /\ k * m \in Nat
    BY Multiples
  <2>2. f[k] = start + k * m /\ f[q - 1] = start + (q - 1) * m
    BY <1>6, <1>10
  <2>3. f[k] <= f[q - 1] /\ start <= f[k] /\ f[k] \in Nat /\ f[q - 1] \in Nat
    BY <1>7, <1>10, <2>1, <2>2
  <2> QED
    BY <1>11, <2>3
<1>13. PICK e : e = [k \in 0 .. q |-> Least(end, f[k])]
  OBVIOUS
<1>14. \A k \in 0 .. q - 1 : e[k] = f[k] /\ e[k] \in Nat
  BY <1>7, <1>12, <1>13 DEF Least
<1>15. e[q] = end
  BY <1>7, <1>11, <1>13 DEF Least
<1>16. PICK ps : ps = Bounded(c)
  OBVIOUS
<1>17. ps = [k \in 1 .. q |-> [path |-> path, start |-> f[k - 1], end |-> e[k]]]
  <2>1. c.end - c.start + MaxChars - 1 = a
    BY <1>1, <1>3, <1>4
  <2>2. ps = [k \in 1 .. q |-> [path |-> path, start |-> start + (k - 1) * m,
                                 end |-> Least(end, start + k * m)]]
    BY <1>1, <1>3, <1>5, <1>16, <2>1 DEF Bounded
  <2>3. ASSUME NEW k \in 1 .. q
        PROVE  start + (k - 1) * m = f[k - 1] /\ Least(end, start + k * m) = e[k]
    <3>1. k - 1 \in 0 .. q /\ k \in 0 .. q
      OBVIOUS
    <3> QED
      BY <1>6, <1>13, <3>1
  <2> QED
    BY <2>2, <2>3
<1>18. \A k \in 1 .. q : ps[k] \in Passages
  <2> TAKE k \in 1 .. q
  <2>1. k - 1 \in 0 .. q /\ f[k - 1] \in Nat
    BY <1>7
  <2>2. e[k] \in Nat
    <3>1. CASE k = q
      BY <1>15, <3>1
    <3>2. CASE k # q
      BY <1>14, <3>2
    <3> QED
      BY <3>1, <3>2
  <2> QED
    BY <1>17, <2>1, <2>2 DEF Passages
<1>19. ps \in Seq(Passages) /\ Len(ps) = q
  <2>1. ps \in [1 .. q -> Passages]
    BY <1>17, <1>18
  <2> QED
    BY <2>1
<1>20. \A k \in 0 .. q : Reached(ps, start, k) = e[k]
  <2> TAKE k \in 0 .. q
  <2>1. CASE k = 0
    BY <1>9, <1>10, <1>14, <2>1 DEF Reached
  <2>2. CASE k # 0
    BY <1>17, <2>2 DEF Reached
  <2> QED
    BY <2>1, <2>2
<1>21. ASSUME NEW k \in 1 .. q
       PROVE  Link(N, ps, start, end, 0, k)
  <2>1. k - 1 \in 0 .. q - 1
    OBVIOUS
  <2>2. PICK s \in Nat : s = f[k - 1] /\ s = e[k - 1] /\ start <= s /\ s < end
    BY <1>7, <1>12, <1>14, <2>1
  <2>3. e[k] \in Nat /\ s < e[k] /\ e[k] <= end
    <3>1. CASE k = q
      BY <1>15, <2>2, <3>1
    <3>2. CASE k # q
      <4>1. k \in 0 .. q - 1
        BY <3>2
      <4> QED
        BY <1>8, <1>12, <1>14, <2>2, <4>1
    <3> QED
      BY <3>1, <3>2
  <2>4. ps[k].start = s /\ ps[k].end = e[k]
    BY <1>17, <2>2
  <2>5. Reached(ps, start, k - 1) = s
    BY <1>20, <2>1, <2>2
  <2>6. Bare(N, s, s)
    BY DEF Bare
  <2> QED
    BY <2>2, <2>3, <2>4, <2>5, <2>6 DEF Link
<1>22. Chain(N, ps, start, end, 0)
  <2>1. Reached(ps, start, q) = end
    BY <1>15, <1>20
  <2>2. Bare(N, end, end)
    BY DEF Bare
  <2> QED
    BY <1>19, <1>21, <2>1, <2>2 DEF Chain
<1>23. Filed(ps, path)
  BY <1>17, <1>19 DEF Filed
<1>24. ps # <<>> /\ ps[1].end = Least(end, start + m)
  <2>1. 1 \in 1 .. q /\ 1 \in 0 .. q /\ 1 - 1 = 0
    BY <1>10
  <2>2. f[1] = start + m
    BY <1>8, <1>9, <2>1
  <2> QED
    BY <1>13, <1>17, <1>19, <2>1, <2>2
<1> QED
  BY <1>1, <1>3, <1>16, <1>19, <1>22, <1>23, <1>24

(* A list of chunks is complete for the text, with its overlaps, and each  *)
(* is filed rightly.                                                       *)
PassagesHold(d, list) ==
  /\ list \in Seq(Passages) /\ AllRight(d, list)
  /\ Chain(Newlines(d), list, 0, TextLen(d), OverlapChars)

(* A chain without overlaps is one with overlaps allowed.                  *)
LEMMA ChainLoosens ==
  ASSUME NEW N, NEW list, NEW lo \in Int, NEW hi \in Int, NEW back \in Nat, Chain(N, list, lo, hi, 0)
  PROVE  Chain(N, list, lo, hi, back)
<1>1. ASSUME NEW i \in 1 .. Len(list)
      PROVE  Link(N, list, lo, hi, back, i)
  <2>1. Link(N, list, lo, hi, 0, i)
    BY DEF Chain
  <2> QED
    BY <2>1 DEF Link
<1> QED
  BY <1>1 DEF Chain

(* Cutting at the ceiling keeps that: where the next chunk steps back, its *)
(* first piece still reaches past the end of the last one, as the overlap  *)
(* is within the ceiling (chunking.py:223-231).                            *)
LEMMA AllBoundedHold ==
  ASSUME NEW d \in Seq(Lines), NEW list, PassagesHold(d, list)
  PROVE  PassagesHold(d, BoundedAll(list)[Len(list)])
<1>1. PICK N : N = Newlines(d)
  OBVIOUS
<1>2. PICK top \in Nat : top = TextLen(d)
  BY TextEnds
<1>3. PICK ov \in Nat, m \in Nat : ov = OverlapChars /\ m = MaxChars /\ ov <= m
  BY SizesAreNat
<1>4. list \in Seq(Passages) /\ AllRight(d, list) /\ Chain(N, list, 0, top, ov)
  BY <1>1, <1>2, <1>3 DEF PassagesHold
<1>5. PICK n \in Nat : n = Len(list)
  BY <1>4
<1>6. PICK w : w = BoundedAll(list)
  OBVIOUS
<1>7. w = [i \in 0 .. n |-> IF i = 0 THEN <<>> ELSE Joined(w[i - 1], Bounded(list[i]))]
  BY <1>4, <1>5, <1>6, BoundedRun
<1>8. w[0] = <<>> /\ \A i \in 1 .. n : w[i] = Joined(w[i - 1], Bounded(list[i]))
  BY <1>7
<1> DEFINE S == {i \in 0 .. n : /\ w[i] \in Seq(Passages) /\ AllRight(d, w[i])
                                /\ Chain(N, w[i], 0, Reached(list, 0, i), ov)}
<1>9. 0 \in S
  <2>1. w[0] \in Seq(Passages)
    BY <1>8
  <2>2. AllRight(d, w[0])
    BY <1>8 DEF AllRight
  <2>3. Chain(N, w[0], 0, 0, ov)
    BY <1>8, ChainStarts
  <2>4. Reached(list, 0, 0) = 0
    BY DEF Reached
  <2> QED
    BY <2>1, <2>2, <2>3, <2>4
<1>10. ASSUME NEW i \in 1 .. n, i - 1 \in S
       PROVE  i \in S
  <2>1. PICK one \in Seq(Passages) : one = w[i - 1] /\ AllRight(d, one)
    BY <1>10
  <2>2. PICK c \in Passages : c = list[i] /\ Right(d, c)
    BY <1>4, <1>5 DEF AllRight
  <2>3. PICK s \in Nat, e \in Nat : s = c.start /\ e = c.end
    BY <2>2 DEF Passages
  <2>4. Link(N, list, 0, top, ov, i)
    BY <1>4, <1>5 DEF Chain
  <2>5. PICK r \in Int : r = Reached(list, 0, i - 1)
    BY <2>4 DEF Link
  <2>6. s < e /\ e <= top /\ r <= e /\ r - ov <= s /\ Bare(N, r, s)
    <3>1. list[i].start = s /\ list[i].end = e
      BY <2>2, <2>3
    <3> QED
      BY <2>4, <2>5, <3>1 DEF Link
  <2>7. PICK two : two = Bounded(c)
    OBVIOUS
  <2>8. /\ two \in Seq(Passages) /\ two # <<>> /\ Filed(two, c.path) /\ Chain(N, two, s, e, 0)
        /\ two[1].end = Least(e, s + m)
    BY <1>3, <2>3, <2>6, <2>7, PiecesTile
  <2>9. AllRight(d, two)
    BY <2>2, <2>3, <2>8, ElementsAreRight
  <2>10. Chain(N, one, 0, r, ov)
    BY <1>10, <2>1, <2>5
  <2>11. one \o two \in Seq(Passages) /\ Chain(N, one \o two, 0, e, ov)
    <3>1. r <= two[1].end
      BY <1>3, <2>6, <2>8 DEF Least
    <3>2. Chain(N, two, s, e, ov)
      BY <2>8, ChainLoosens
    <3>3. 0 <= s /\ 0 \in Int /\ s \in Int /\ e \in Int
      OBVIOUS
    <3> QED
      BY <2>6, <2>8, <2>10, <3>1, <3>2, <3>3, ChainsJoin
  <2>12. AllRight(d, one \o two)
    BY <2>1, <2>8, <2>9, JoinedAreRight
  <2>13. w[i] = one \o two
    BY <1>8, <2>1, <2>2, <2>7 DEF Joined
  <2>14. Reached(list, 0, i) = e
    BY <2>2, <2>3 DEF Reached
  <2>15. w[i] \in Seq(Passages) /\ AllRight(d, w[i]) /\ Chain(N, w[i], 0, e, ov)
    BY <2>11, <2>12, <2>13
  <2> QED
    BY <2>14, <2>15
<1>11. \A i \in 0 .. n : i \in S
  <2> HIDE DEF S
  <2>1. \A i \in 1 .. n : i - 1 \in S => i \in S
    BY <1>10
  <2> QED
    BY <1>9, <2>1, Upwards
<1>12. w[n] \in Seq(Passages) /\ AllRight(d, w[n]) /\ Chain(N, w[n], 0, Reached(list, 0, n), ov)
  <2>1. n \in S
    <3> HIDE DEF S
    <3> QED
      BY <1>11
  <2> QED
    BY <2>1
<1>13. PICK r \in Int : r = Reached(list, 0, n) /\ r <= top /\ Bare(N, r, top)
  BY <1>4, <1>5 DEF Chain
<1>14. Chain(N, w[n], 0, top, ov)
  BY <1>12, <1>13, ChainStretches
<1> QED
  BY <1>1, <1>2, <1>3, <1>5, <1>6, <1>12, <1>14 DEF PassagesHold

(* An undersized chunk and the one before it under the same path make a    *)
(* span that is filed rightly: what lies between them is newlines, and no  *)
(* heading is (chunking.py:236-242).                                       *)
LEMMA SpanOfBothIsRight ==
  ASSUME NEW d \in Seq(Lines), NEW before \in Passages, NEW c \in Passages, NEW both \in Passages,
         Right(d, before), Right(d, c), before.path = c.path, both.path = c.path,
         both.start = before.start, both.end = c.end, before.start < before.end,
         Bare(Newlines(d), before.end, c.start)
  PROVE  Right(d, both)
<1>1. PICK n \in Nat : n = Len(d)
  OBVIOUS
<1>2. PICK at : at = LineStarts(d)
  OBVIOUS
<1>3. PICK bs \in Nat, be \in Nat, cs \in Nat, ce \in Nat :
        bs = before.start /\ be = before.end /\ cs = c.start /\ ce = c.end
  BY DEF Passages
<1>4. PICK label : label = Label(c.path)
  OBVIOUS
<1>5. \A k \in 1 .. n : at[k] < be /\ bs < at[k + 1] => label = InForce(d, k)
  BY <1>1, <1>2, <1>3, <1>4 DEF Right
<1>6. \A k \in 1 .. n : at[k] < ce /\ cs < at[k + 1] => label = InForce(d, k)
  BY <1>1, <1>2, <1>3, <1>4 DEF Right
<1> DEFINE S == {k \in 0 .. n : k # 0 /\ at[k] < ce /\ bs < at[k + 1] => label = InForce(d, k)}
<1>7. 0 \in S
  OBVIOUS
<1>8. ASSUME NEW k \in 1 .. n, k - 1 \in S
      PROVE  k \in S
  <2> SUFFICES ASSUME at[k] < ce, bs < at[k + 1]
               PROVE  label = InForce(d, k)
    OBVIOUS
  <2>1. /\ at[k] \in Nat /\ at[k + 1] \in Nat /\ at[k + 1] = at[k] + d[k].len + 1
        /\ d[k].len \in Nat /\ (d[k].kind = "blank" <=> d[k].len = 0)
    BY <1>1, <1>2, LineFacts
  <2>2. CASE at[k] < be
    BY <1>5, <2>2
  <2>3. CASE cs < at[k + 1]
    BY <1>6, <2>3
  <2>4. CASE ~(at[k] < be) /\ ~(cs < at[k + 1])
    <3>1. at[k] \in Newlines(d)
      <4>1. at[k] \in be .. cs - 1
        BY <2>1, <2>4, SMTT(30)
      <4> QED
        BY <1>3, <4>1 DEF Bare
    <3>2. at[k] = at[k] + d[k].len
      <4>1. at[k] <= at[k] /\ at[k] < at[k + 1]
        BY <2>1
      <4> QED
        BY <1>1, <1>2, <3>1, <4>1, NewlineEndsItsLine
    <3>3. d[k].kind # "heading"
      BY <2>1, <3>2
    <3>4. InForce(d, k) = InForce(d, k - 1)
      <4>1. k \notin Openings(d, k)
        BY <3>3 DEF Openings
      <4> QED
        BY <1>1, <4>1, InForceStays
    <3>5. k # 1
      <4>1. bs < be
        BY <1>3
      <4> QED
        BY <1>2, <2>4, <4>1, FirstLine
    <3>6. k - 1 \in 1 .. n /\ k - 1 + 1 = k
      BY <3>5
    <3>7. at[k - 1] < ce
      <4>1. at[k - 1] \in Nat /\ d[k - 1].len \in Nat /\ at[k] = at[k - 1] + d[k - 1].len + 1
        BY <1>1, <1>2, <3>6, LineFacts
      <4> QED
        BY <2>1, <4>1
    <3>8. bs < at[k - 1 + 1]
      BY <1>3, <2>1, <2>4, <3>6, SMTT(30)
    <3>9. label = InForce(d, k - 1)
      BY <1>8, <3>6, <3>7, <3>8
    <3> QED
      BY <3>4, <3>9
  <2> QED
    BY <2>2, <2>3, <2>4
<1>9. \A k \in 0 .. n : k \in S
  <2> HIDE DEF S
  <2>1. \A k \in 1 .. n : k - 1 \in S => k \in S
    BY <1>8
  <2> QED
    BY <1>7, <2>1, Upwards
<1>10. ASSUME NEW k \in 1 .. n, at[k] < ce, bs < at[k + 1]
       PROVE  label = InForce(d, k)
  <2>1. k \in S
    <3> HIDE DEF S
    <3> QED
      BY <1>9
  <2> QED
    BY <1>10, <2>1
<1> QED
  BY <1>1, <1>2, <1>3, <1>4, <1>10 DEF Right

----------------------------------------------------------------------------
(* Merging *)

(* One more chunk that is filed rightly leaves the list so.                *)
LEMMA AppendedIsRight ==
  ASSUME NEW d, NEW list \in Seq(Passages), AllRight(d, list), NEW c \in Passages, Right(d, c)
  PROVE  AllRight(d, Append(list, c))
<1>1. PICK n \in Nat : n = Len(list)
  OBVIOUS
<1>2. PICK more : more = Append(list, c)
  OBVIOUS
<1>3. Len(more) = n + 1 /\ more[n + 1] = c /\ \A i \in 1 .. n : more[i] = list[i]
  BY <1>1, <1>2
<1>4. \A j \in 1 .. n + 1 : Right(d, more[j])
  <2> TAKE j \in 1 .. n + 1
  <2>1. CASE j = n + 1
    BY <1>3, <2>1
  <2>2. CASE j # n + 1
    <3>1. j \in 1 .. n
      BY <2>2
    <3> QED
      BY <1>1, <1>3, <3>1 DEF AllRight
  <2> QED
    BY <2>1, <2>2
<1> QED
  BY <1>2, <1>3, <1>4 DEF AllRight

(* So does replacing the last by one that is.                              *)
LEMMA LastIsRight ==
  ASSUME NEW d, NEW list \in Seq(Passages), AllRight(d, list), list # <<>>,
         NEW e \in Passages, Right(d, e)
  PROVE  AllRight(d, WithLast(list, e)) /\ WithLast(list, e) # <<>>
         /\ WithLast(list, e)[Len(WithLast(list, e))] = e
<1>1. PICK n \in Nat \ {0} : n = Len(list)
  OBVIOUS
<1>2. PICK new : new = [list EXCEPT ![n] = e]
  OBVIOUS
<1>3. new \in Seq(Passages) /\ Len(new) = n /\ new[n] = e
  BY <1>1, <1>2
<1>4. \A j \in 1 .. n : Right(d, new[j])
  <2> TAKE j \in 1 .. n
  <2>1. CASE j = n
    BY <1>3, <2>1
  <2>2. CASE j # n
    <3>1. new[j] = list[j]
      BY <1>1, <1>2, <2>2
    <3> QED
      BY <1>1, <3>1 DEF AllRight
  <2> QED
    BY <2>1, <2>2
<1>5. new # <<>>
  BY <1>3
<1> QED
  BY <1>1, <1>2, <1>3, <1>4, <1>5 DEF AllRight, WithLast

(* The invariant of the merge after i pieces: the list is complete up to   *)
(* the end of piece i, and its last element ends there.                    *)
MergeHolds(d, list, out, i) ==
  /\ out \in Seq(Passages) /\ AllRight(d, out)
  /\ Chain(Newlines(d), out, 0, Reached(list, 0, i), OverlapChars)
  /\ out # <<>> => out[Len(out)].end = Reached(list, 0, i)

(* A piece joins the last chunk or is added, and the list is complete up   *)
(* to its end and filed rightly (chunking.py:235-244).                     *)
LEMMA MergeContinues ==
  ASSUME NEW d \in Seq(Lines), NEW list, PassagesHold(d, list),
         NEW i \in 1 .. Len(list), NEW out, MergeHolds(d, list, out, i - 1)
  PROVE  MergeHolds(d, list, Merge(out, list[i]), i)
<1>1. PICK N : N = Newlines(d)
  OBVIOUS
<1>2. PICK top \in Nat : top = TextLen(d)
  BY TextEnds
<1>3. PICK ov \in Nat : ov = OverlapChars
  BY SizesAreNat
<1>4. PICK n \in Nat : n = Len(list) /\ i \in 1 .. n
  BY DEF PassagesHold
<1>5. PICK c \in Passages : c = list[i] /\ Right(d, c)
  BY <1>4 DEF PassagesHold, AllRight
<1>6. PICK s \in Nat, e \in Nat : s = c.start /\ e = c.end
  BY <1>5 DEF Passages
<1>7. Link(N, list, 0, top, ov, i)
  BY <1>1, <1>2, <1>3 DEF PassagesHold, Chain
<1>8. PICK r \in Int : r = Reached(list, 0, i - 1)
  BY <1>7 DEF Link
<1>9. s < e /\ e <= top /\ r <= e /\ r - ov <= s /\ Bare(N, r, s)
  <2>1. list[i].start = s /\ list[i].end = e
    BY <1>5, <1>6
  <2> QED
    BY <1>7, <1>8, <2>1 DEF Link
<1>10. Reached(list, 0, i) = e
  BY <1>5, <1>6 DEF Reached
<1>11. /\ out \in Seq(Passages) /\ AllRight(d, out) /\ Chain(N, out, 0, r, ov)
       /\ out # <<>> => out[Len(out)].end = r
  BY <1>1, <1>3, <1>8 DEF MergeHolds
<1>12. PICK t : t = Merge(out, c)
  OBVIOUS
<1>13. SUFFICES /\ t \in Seq(Passages) /\ AllRight(d, t) /\ Chain(N, t, 0, e, ov)
                /\ t # <<>> => t[Len(t)].end = e
  BY <1>1, <1>3, <1>5, <1>10, <1>12 DEF MergeHolds
<1>14. 0 \in Int /\ s \in Int /\ e \in Int
  OBVIOUS
<1>15. CASE out # <<>> /\ Joins(out[Len(out)], c)
  <2>1. PICK m \in Nat \ {0} : m = Len(out)
    BY <1>11, <1>15
  <2>2. PICK before \in Passages : before = out[m] /\ Right(d, before)
    BY <1>11, <2>1 DEF AllRight
  <2>3. PICK bs \in Nat : bs = before.start
    BY <2>2 DEF Passages
  <2>4. before.end = r /\ bs < r
    <3>1. Link(N, out, 0, r, ov, m)
      BY <1>11, <2>1 DEF Chain
    <3> QED
      BY <1>11, <1>15, <2>1, <2>2, <2>3, <3>1 DEF Link
  <2>5. PICK both : both = [path |-> c.path, start |-> bs, end |-> e]
    OBVIOUS
  <2>6. both \in Passages /\ both.path = c.path /\ both.start = bs /\ both.end = e
    BY <2>5 DEF Passages
  <2>7. t = WithLast(out, both)
    BY <1>6, <1>12, <1>15, <2>1, <2>2, <2>3, <2>5 DEF Merge, WithLast
  <2>8. before.path = c.path
    BY <1>15, <2>1, <2>2 DEF Joins
  <2>9. Right(d, both)
    BY <1>1, <1>5, <1>6, <1>9, <2>2, <2>3, <2>4, <2>6, <2>8, SpanOfBothIsRight, Zenon
  <2>10. WithLast(out, both) \in Seq(Passages) /\ Chain(N, WithLast(out, both), 0, c.end, ov)
    <3>1. /\ c.start \in Int /\ c.end \in Int /\ c.start <= c.end /\ r <= c.end
          /\ Bare(N, r, c.start)
      BY <1>6, <1>9
    <3>2. /\ out[Len(out)].end = r /\ both.start = out[Len(out)].start /\ both.end = c.end
      BY <1>6, <2>1, <2>2, <2>3, <2>4, <2>6
    <3> QED
      BY <1>11, <1>14, <1>15, <2>6, <3>1, <3>2, ChainLengthens, Zenon
  <2>11. /\ AllRight(d, WithLast(out, both)) /\ WithLast(out, both) # <<>>
         /\ WithLast(out, both)[Len(WithLast(out, both))] = both
    BY <1>11, <1>15, <2>6, <2>9, LastIsRight
  <2> QED
    BY <1>6, <2>6, <2>7, <2>10, <2>11
<1>16. CASE ~(out # <<>> /\ Joins(out[Len(out)], c))
  <2>1. t = Append(out, c)
    BY <1>12, <1>16 DEF Merge
  <2>2. Append(out, c) \in Seq(Passages) /\ Chain(N, Append(out, c), 0, c.end, ov)
    <3>1. /\ c.start \in Int /\ c.end \in Int /\ 0 <= c.start /\ c.start < c.end
          /\ r <= c.end /\ r - ov <= c.start /\ Bare(N, r, c.start)
      BY <1>6, <1>9
    <3> QED
      BY <1>11, <1>14, <3>1, ChainGrows
  <2>3. AllRight(d, Append(out, c))
    BY <1>5, <1>11, AppendedIsRight
  <2>4. Append(out, c)[Len(Append(out, c))] = c
    BY <1>11
  <2> QED
    BY <1>6, <2>1, <2>2, <2>3, <2>4
<1> QED
  BY <1>15, <1>16

(* Merging keeps the list complete and filed rightly                       *)
(* (chunking.py:233-244).                                                  *)
LEMMA AllMergedHold ==
  ASSUME NEW d \in Seq(Lines), NEW list, PassagesHold(d, list)
  PROVE  PassagesHold(d, MergedAll(list)[Len(list)])
<1>1. list \in Seq(Passages) /\ Chain(Newlines(d), list, 0, TextLen(d), OverlapChars)
  BY DEF PassagesHold
<1>2. PICK n \in Nat : n = Len(list)
  BY <1>1
<1>3. PICK w : w = MergedAll(list)
  OBVIOUS
<1>4. w = [i \in 0 .. n |-> IF i = 0 THEN <<>> ELSE Merge(w[i - 1], list[i])]
  BY <1>1, <1>2, <1>3, MergedRun
<1>5. w[0] = <<>> /\ \A i \in 1 .. n : w[i] = Merge(w[i - 1], list[i])
  BY <1>4
<1> DEFINE S == {i \in 0 .. n : MergeHolds(d, list, w[i], i)}
<1>6. 0 \in S
  <2>1. w[0] \in Seq(Passages)
    BY <1>5
  <2>2. AllRight(d, w[0])
    BY <1>5 DEF AllRight
  <2>3. Reached(list, 0, 0) = 0
    BY DEF Reached
  <2>4. Chain(Newlines(d), w[0], 0, 0, OverlapChars)
    <3>1. PICK ov \in Nat : ov = OverlapChars
      BY SizesAreNat
    <3>2. Chain(Newlines(d), <<>>, 0, 0, ov)
      BY ChainStarts
    <3> QED
      BY <1>5, <3>1, <3>2
  <2>5. Chain(Newlines(d), w[0], 0, Reached(list, 0, 0), OverlapChars)
    BY <2>3, <2>4
  <2>6. MergeHolds(d, list, w[0], 0)
    BY <1>5, <2>1, <2>2, <2>5 DEF MergeHolds
  <2> QED
    BY <2>6
<1>7. ASSUME NEW i \in 1 .. n, i - 1 \in S
      PROVE  i \in S
  <2>1. MergeHolds(d, list, w[i - 1], i - 1)
    BY <1>7
  <2>2. MergeHolds(d, list, Merge(w[i - 1], list[i]), i)
    BY <1>2, <2>1, MergeContinues
  <2> QED
    BY <1>5, <2>2
<1>8. \A i \in 0 .. n : i \in S
  <2> HIDE DEF S
  <2>1. \A i \in 1 .. n : i - 1 \in S => i \in S
    BY <1>7
  <2> QED
    BY <1>6, <2>1, Upwards
<1>9. MergeHolds(d, list, w[n], n)
  <2>1. n \in S
    <3> HIDE DEF S
    <3> QED
      BY <1>8
  <2> QED
    BY <2>1
<1>10. PICK r \in Int : /\ r = Reached(list, 0, n) /\ r <= TextLen(d)
                        /\ Bare(Newlines(d), r, TextLen(d))
  BY <1>1, <1>2 DEF Chain
<1>11. TextLen(d) \in Int /\ 0 \in Int /\ OverlapChars \in Nat
  BY TextEnds, SizesAreNat
<1>12. Chain(Newlines(d), w[n], 0, TextLen(d), OverlapChars)
  BY <1>9, <1>10, <1>11, ChainStretches DEF MergeHolds
<1> QED
  BY <1>2, <1>3, <1>9, <1>12 DEF MergeHolds, PassagesHold

----------------------------------------------------------------------------
(* Stripping, and the result *)

(* A set of naturals that is not empty has a least element.                *)
LEMMA LeastOf ==
  ASSUME NEW S \in SUBSET Nat, S # {}
  PROVE  \E p \in S : \A q \in S : p <= q
<1>1. PICK x \in S : \A y \in S : ~ (<<y, x>> \in OpToRel(<, Nat))
  BY NatLessThanWellFounded, WFMin
<1>2. \A y \in S : ~(y < x)
  BY <1>1 DEF OpToRel
<1>3. \A y \in S : x <= y
  BY <1>2
<1> QED
  BY <1>3

(* If it is bounded, it has a greatest.                                    *)
LEMMA GreatestOf ==
  ASSUME NEW S \in SUBSET Nat, S # {}, NEW hi \in Nat, \A p \in S : p < hi
  PROVE  \E p \in S : \A q \in S : q <= p
<1>1. PICK T : T = {hi - p : p \in S}
  OBVIOUS
<1>2. T \in SUBSET Nat /\ T # {}
  <2>1. \A p \in S : hi - p \in Nat
    OBVIOUS
  <2>2. PICK p \in S : TRUE
    OBVIOUS
  <2>3. hi - p \in T
    BY <1>1
  <2>4. T \subseteq Nat
    BY <1>1, <2>1
  <2> QED
    BY <2>3, <2>4
<1>3. PICK t \in T : \A u \in T : t <= u
  BY <1>2, LeastOf
<1>4. PICK p \in S : t = hi - p
  BY <1>1
<1>5. ASSUME NEW q \in S
      PROVE  q <= p
  <2>1. q \in Nat /\ p \in Nat /\ hi - q \in T
    BY <1>1
  <2>2. hi - p <= hi - q
    BY <1>3, <1>4, <2>1
  <2> QED
    BY <2>1, <2>2
<1>6. \A q \in S : q <= p
  BY <1>5
<1> QED
  BY <1>6

(* Stripping newlines from both ends of a chunk with text leaves all of    *)
(* its text, within the chunk and under its path (chunking.py:248-257).    *)
LEMMA StrippedHolds ==
  ASSUME NEW d \in Seq(Lines), NEW c \in Passages, HasText(d, c)
  PROVE  /\ Stripped(d, c) \in Passages /\ Stripped(d, c).path = c.path
         /\ c.start <= Stripped(d, c).start /\ Stripped(d, c).end <= c.end
         /\ Stripped(d, c).start < Stripped(d, c).end
         /\ Span(c) \ Newlines(d) \subseteq Span(Stripped(d, c))
<1>1. PICK s \in Nat, e \in Nat, path \in Paths : s = c.start /\ e = c.end /\ path = c.path
  BY DEF Passages
<1>2. PICK shown : shown = Span(c) \ Newlines(d)
  OBVIOUS
<1>3. shown # {} /\ shown \in SUBSET Nat /\ \A p \in shown : s <= p /\ p < e
  BY <1>1, <1>2 DEF HasText, Span
<1>4. PICK first : first = CHOOSE p \in shown : \A q \in shown : p <= q
  OBVIOUS
<1>5. first \in shown /\ \A q \in shown : first <= q
  <2>1. \E p \in shown : \A q \in shown : p <= q
    BY <1>3, LeastOf
  <2> QED
    BY <1>4, <2>1
<1>6. PICK last : last = CHOOSE p \in shown : \A q \in shown : q <= p
  OBVIOUS
<1>7. last \in shown /\ \A q \in shown : q <= last
  <2>1. \E p \in shown : \A q \in shown : q <= p
    BY <1>3, GreatestOf
  <2> QED
    BY <1>6, <2>1
<1>8. PICK t : t = Stripped(d, c)
  OBVIOUS
<1>9. t = [path |-> path, start |-> first, end |-> 1 + last]
  BY <1>1, <1>2, <1>4, <1>6, <1>8 DEF Stripped
<1>10. first \in Nat /\ last \in Nat /\ s <= first /\ last < e /\ first <= last
  BY <1>3, <1>5, <1>7
<1>11. /\ t \in Passages /\ t.path = path /\ s <= t.start /\ t.end <= e /\ t.start < t.end
  BY <1>9, <1>10 DEF Passages
<1>12. ASSUME NEW p \in shown
       PROVE  p \in Span(t)
  <2>1. p \in Nat /\ first <= p /\ p <= last
    BY <1>3, <1>5, <1>7
  <2> QED
    BY <1>9, <1>10, <2>1 DEF Span
<1> QED
  BY <1>1, <1>2, <1>8, <1>11, <1>12

(* The chunks of a document are filed rightly, and every visible character *)
(* is in one: so there is one whenever there is text, and the fallback of  *)
(* chunk_document is never taken (chunking.py:262-273).                    *)
LEMMA ChunksHold ==
  ASSUME NEW d \in Seq(Lines)
  PROVE  /\ \A c \in ChunkDocument(d) : c \in Passages /\ Right(d, c)
         /\ \A p \in Visible(d) : \E c \in ChunkDocument(d) : p \in Span(c)
<1>1. PICK sections : sections = Sections(d)
  OBVIOUS
<1>2. PICK gathered : gathered = GatheredAll(d, sections)[Len(sections)]
  OBVIOUS
<1>3. PICK bounded : bounded = BoundedAll(gathered)[Len(gathered)]
  OBVIOUS
<1>4. PICK merged : merged = MergedAll(bounded)[Len(bounded)]
  OBVIOUS
<1>5. ChunkDocument(d) =
        {Stripped(d, merged[i]) : i \in {j \in DOMAIN merged : HasText(d, merged[j])}}
  BY <1>1, <1>2, <1>3, <1>4 DEF ChunkDocument
<1>6. ListHolds(d, sections, TextLen(d))
  BY <1>1, SectionsHold
<1>7. PassagesHold(d, gathered)
  BY <1>2, <1>6, AllGatheredHold DEF PassagesHold
<1>8. PassagesHold(d, bounded)
  BY <1>3, <1>7, AllBoundedHold
<1>9. PassagesHold(d, merged)
  BY <1>4, <1>8, AllMergedHold
<1>10. /\ merged \in Seq(Passages) /\ AllRight(d, merged)
       /\ Chain(Newlines(d), merged, 0, TextLen(d), OverlapChars)
  BY <1>9 DEF PassagesHold
<1>11. PICK n \in Nat : n = Len(merged) /\ DOMAIN merged = 1 .. n
  BY <1>10
<1>12. \A j \in 1 .. n : merged[j] \in Passages /\ Right(d, merged[j])
  BY <1>10, <1>11 DEF AllRight
<1>13. ASSUME NEW c \in ChunkDocument(d)
       PROVE  c \in Passages /\ Right(d, c)
  <2>1. PICK j \in 1 .. n : HasText(d, merged[j]) /\ c = Stripped(d, merged[j])
    BY <1>5, <1>11
  <2>2. PICK whole \in Passages : whole = merged[j] /\ Right(d, whole)
    BY <1>12
  <2>3. /\ c \in Passages /\ c.path = whole.path
        /\ whole.start <= c.start /\ c.end <= whole.end
    BY <2>1, <2>2, StrippedHolds
  <2>4. PICK s \in Nat, e \in Nat, ws \in Nat, we \in Nat :
          s = c.start /\ e = c.end /\ ws = whole.start /\ we = whole.end
    BY <2>2, <2>3 DEF Passages
  <2>5. ASSUME NEW k \in 1 .. Len(d), LineStarts(d)[k] < e, s < LineStarts(d)[k + 1]
        PROVE  Label(c.path) = InForce(d, k)
    <3>1. PICK a \in Nat, b \in Nat : a = LineStarts(d)[k] /\ b = LineStarts(d)[k + 1]
      BY LineFacts
    <3>2. ws <= s /\ e <= we
      BY <2>3, <2>4
    <3>3. a < e /\ s < b
      BY <2>5, <3>1
    <3>4. a < we /\ ws < b
      BY <3>2, <3>3
    <3> QED
      BY <2>2, <2>3, <2>4, <3>1, <3>4 DEF Right
  <2> QED
    BY <2>3, <2>4, <2>5 DEF Right
<1>14. ASSUME NEW p \in Visible(d)
       PROVE  \E c \in ChunkDocument(d) : p \in Span(c)
  <2>1. p \in 0 .. TextLen(d) - 1 /\ p \notin Newlines(d) /\ p \in Int
    BY DEF Visible
  <2>2. TextLen(d) \in Int /\ 0 \in Int /\ OverlapChars \in Nat
    BY TextEnds, SizesAreNat
  <2>3. PICK j \in 1 .. n : merged[j].start <= p /\ p < merged[j].end
    BY <1>10, <1>11, <2>1, <2>2, ChainCovers
  <2>4. PICK whole \in Passages : whole = merged[j]
    BY <1>12
  <2>5. p \in Span(whole)
    <3>1. PICK ws \in Nat, we \in Nat : ws = whole.start /\ we = whole.end
      BY <2>4 DEF Passages
    <3> QED
      BY <2>1, <2>3, <2>4, <3>1 DEF Span
  <2>6. HasText(d, whole)
    BY <2>1, <2>5 DEF HasText
  <2>7. p \in Span(Stripped(d, whole))
    BY <2>1, <2>5, <2>6, StrippedHolds
  <2>8. Stripped(d, whole) \in ChunkDocument(d)
    BY <1>5, <1>11, <2>4, <2>6
  <2> QED
    BY <2>7, <2>8
<1> QED
  BY <1>13, <1>14

(* A hit lies in a line: its characters are visible.                       *)
LEMMA HitsAreVisible ==
  ASSUME NEW d \in Seq(Lines), NEW hit \in Hits(d), NEW p \in Span(hit)
  PROVE  p \in Visible(d) /\ p \in Int /\ hit.start <= p /\ p < hit.end
<1>1. PICK at : at = LineStarts(d)
  OBVIOUS
<1>2. PICK i \in 1 .. Len(d), skip \in {0, 1} :
        hit = [start |-> at[i] + skip, end |-> at[i] + d[i].len]
  BY <1>1 DEF Hits
<1>3. /\ at[i] \in Nat /\ at[i + 1] \in Nat /\ d[i].len \in Nat
      /\ at[i + 1] = at[i] + d[i].len + 1
  BY <1>1, LineFacts
<1>4. at[i] + d[i].len <= TextLen(d) /\ TextLen(d) \in Nat
  BY <1>1, TextEnds
<1>5. p \in Int /\ at[i] + skip <= p /\ p < at[i] + d[i].len
  BY <1>2, <1>3 DEF Span
<1>6. p \in 0 .. TextLen(d) - 1
  BY <1>3, <1>4, <1>5, SMTT(30)
<1>7. p \notin Newlines(d)
  <2>1. at[i] <= p /\ p < at[i + 1] /\ p # at[i] + d[i].len
    BY <1>3, <1>5
  <2> QED
    BY <1>1, <2>1, NewlineEndsItsLine
<1> QED
  BY <1>2, <1>3, <1>5, <1>6, <1>7 DEF Visible

(* No visible character is in no chunk, and the chunks with a character of *)
(* a hit are those _persist flags (ingest.py:700-703).                     *)
LEMMA ChunksKeepAll ==
  ASSUME NEW d \in Seq(Lines)
  PROVE  Kept(d, ChunkDocument(d), Hits(d))
<1>1. PICK chunks : chunks = ChunkDocument(d)
  OBVIOUS
<1>2. /\ \A c \in chunks : c \in Passages /\ Right(d, c)
      /\ \A p \in Visible(d) : \E c \in chunks : p \in Span(c)
  BY <1>1, ChunksHold
<1>3. Visible(d) \subseteq UNION {Span(c) : c \in chunks}
  BY <1>2
<1>4. ASSUME NEW hit \in Hits(d), NEW p \in Span(hit)
      PROVE  p \in UNION {Span(c) : c \in FlaggedChunks(chunks, Hits(d))}
  <2>1. p \in Visible(d) /\ p \in Int /\ hit.start <= p /\ p < hit.end
    BY <1>4, HitsAreVisible
  <2>2. PICK c \in chunks : p \in Span(c) /\ c \in Passages
    BY <1>2, <2>1
  <2>3. c.start <= p /\ p < c.end /\ c.start \in Int /\ c.end \in Int
    BY <2>2 DEF Span, Passages
  <2>4. hit.start \in Int /\ hit.end \in Int
    <3>1. PICK i \in 1 .. Len(d), skip \in {0, 1} :
            hit = [start |-> LineStarts(d)[i] + skip, end |-> LineStarts(d)[i] + d[i].len]
      BY DEF Hits
    <3>2. LineStarts(d)[i] \in Nat /\ d[i].len \in Nat
      BY LineFacts
    <3> QED
      BY <3>1, <3>2
  <2>5. Overlaps(hit, c)
    BY <2>1, <2>3, <2>4 DEF Overlaps
  <2>6. c \in FlaggedChunks(chunks, Hits(d))
    BY <2>5 DEF FlaggedChunks
  <2> QED
    BY <2>2, <2>6
<1> QED
  BY <1>1, <1>3, <1>4 DEF Kept

(* A chunk that touches a line is filed under what is in force there.      *)
LEMMA ChunksAreFiled ==
  ASSUME NEW d \in Seq(Lines)
  PROVE  FiledTogether(d, ChunkDocument(d), LineStarts(d))
<1> SUFFICES ASSUME NEW c \in ChunkDocument(d), NEW n \in 1 .. Len(d),
                    Overlaps(c, [start |-> LineStarts(d)[n], end |-> LineStarts(d)[n] + d[n].len])
             PROVE  Label(c.path) = InForce(d, n)
  BY DEF FiledTogether
<1>1. c \in Passages /\ Right(d, c)
  BY ChunksHold
<1>2. PICK a \in Nat, l \in Nat, b \in Nat :
        /\ a = LineStarts(d)[n] /\ l = d[n].len /\ b = LineStarts(d)[n + 1] /\ b = a + l + 1
  BY LineFacts
<1>3. PICK s \in Nat, e \in Nat : s = c.start /\ e = c.end
  BY <1>1 DEF Passages
<1>4. s < a + l /\ a < e
  BY <1>2, <1>3 DEF Overlaps
<1>5. a < e /\ s < b
  BY <1>2, <1>4
<1> QED
  BY <1>1, <1>2, <1>3, <1>5 DEF Right

\* A document is a sequence of lines within the bound, as it grows line by line
\* (chunking.py:116).
THEOREM DocumentIsTyped == GrowSpec => []DocumentTypeOK
<1>1. GrowInit => DocumentTypeOK
  BY SizesAssumption DEF GrowInit, DocumentTypeOK
<1>2. ASSUME DocumentTypeOK, [GrowNext]_doc
      PROVE  DocumentTypeOK'
  <2>1. CASE GrowNext
    <3>1. PICK line \in Lines : Len(doc) < MaxLines /\ doc' = Append(doc, line)
      BY <2>1 DEF GrowNext, Write
    <3>2. doc \in Seq(Lines) /\ Len(doc) \in Nat
      BY <1>2 DEF DocumentTypeOK
    <3>3. doc' \in Seq(Lines) /\ Len(doc') = Len(doc) + 1
      BY <3>1, <3>2
    <3> QED
      BY <3>1, <3>2, <3>3, SizesAssumption DEF DocumentTypeOK
  <2>2. CASE UNCHANGED doc
    BY <1>2, <2>2 DEF DocumentTypeOK
  <2> QED
    BY <1>2, <2>1, <2>2
<1> QED
  BY <1>1, <1>2, PTL DEF GrowSpec

\* For every document, whatever its lines and the sizes of the chunker: no
\* visible character is outside every chunk, and every character of an
\* injection-shaped hit is in a flagged one (chunking.py:191-260,
\* ingest.py:700-703).
THEOREM NothingIsEverLost == GrowSpec => []NothingIsLost
<1>1. DocumentTypeOK => NothingIsLost
  BY ChunksKeepAll DEF DocumentTypeOK, NothingIsLost
<1> QED
  BY <1>1, DocumentIsTyped, PTL

\* For every document, the path a chunk is filed under is the headings in force
\* at each line its text touches, after overlaps, cuts and merges
\* (chunking.py:109-159, 233-244).
THEOREM EveryChunkIsFiled == GrowSpec => []FiledUnderItsHeading
<1>1. DocumentTypeOK => FiledUnderItsHeading
  BY ChunksAreFiled DEF DocumentTypeOK, FiledUnderItsHeading
<1> QED
  BY <1>1, DocumentIsTyped, PTL

----------------------------------------------------------------------------
(* Retrieval                                                               *)

(***************************************************************************)
(* What KnowledgeRetrieval keeps for any corpus, ranking, settings, roles  *)
(* and number of changes during a search. The search is another machine,   *)
(* with variables of its own.                                              *)
(*                                                                         *)
(* The invariant says what each statement leaves for the next: whatever is *)
(* in hand was permitted when it was read (Permitted); a short list is all *)
(* the index offered, and the exhaustive stage is only reached when there  *)
(* is more and the ceiling was not hit (Short); what was then declared of  *)
(* it is so, while the corpus stands (Told); and the fused list agrees     *)
(* with its legs (Fused).                                                  *)
(***************************************************************************)

USE DeploymentAssumption

(* What Range and Min of the community modules are.                        *)
LEMMA Usual ==
  /\ \A s : Range(s) = {s[i] : i \in DOMAIN s}
  /\ \A m, n \in Nat : Min({m, n}) = IF m < n THEN m ELSE n
<1>1. \A s : Range(s) = {s[i] : i \in DOMAIN s} BY DEF Range
<1>2. \A m, n \in Nat : Min({m, n}) = IF m < n THEN m ELSE n BY DEF Min
<1> QED BY <1>1, <1>2

Orders(ahead, S) ==
  /\ \A a \in S : <<a, a>> \notin ahead
  /\ \A a, b \in S : a # b => <<a, b>> \in ahead \/ <<b, a>> \in ahead
  /\ \A a, b, c \in S : <<a, b>> \in ahead /\ <<b, c>> \in ahead => <<a, c>> \in ahead

Ahead(S, ahead, c) == {d \in S : <<d, c>> \in ahead}

(* Whoever is further behind has more ahead of him.                        *)
LEMMA FurtherBehind ==
  ASSUME NEW S, IsFiniteSet(S), NEW ahead, Orders(ahead, S),
         NEW a \in S, NEW b \in S, <<a, b>> \in ahead
  PROVE  Cardinality(Ahead(S, ahead, a)) < Cardinality(Ahead(S, ahead, b))
<1> DEFINE A == Ahead(S, ahead, a)
           B == Ahead(S, ahead, b)
<1>1. A \in SUBSET B /\ B \in SUBSET S /\ a \in B /\ a \notin A
  BY DEF Orders, Ahead
<1> HIDE DEF A, B
<1>2. IsFiniteSet(B) /\ Cardinality(B) \in Nat BY <1>1, FS_Subset, FS_CardinalityType
<1>3. IsFiniteSet(A) /\ Cardinality(A) \in Nat BY <1>1, <1>2, FS_Subset, FS_CardinalityType
<1>4. Cardinality(A) <= Cardinality(B) /\ (Cardinality(A) = Cardinality(B) => A = B)
  BY <1>1, <1>2, FS_Subset
<1>5. Cardinality(A) < Cardinality(B) BY <1>1, <1>2, <1>3, <1>4
<1> QED BY <1>5 DEF A, B

(* Every place in the order is taken, by one member.                       *)
LEMMA PlacesTaken ==
  ASSUME NEW S, IsFiniteSet(S), NEW ahead, Orders(ahead, S),
         NEW i \in 1 .. Cardinality(S)
  PROVE  \E c \in S : /\ Cardinality(Ahead(S, ahead, c)) = i - 1
                      /\ \A d \in S : Cardinality(Ahead(S, ahead, d)) = i - 1 => d = c
<1> DEFINE n == Cardinality(S)
           place == [c \in S |-> Cardinality(Ahead(S, ahead, c))]
           Places == 0 .. (n - 1)
<1>1. n \in Nat BY FS_CardinalityType
<1>2. ASSUME NEW c \in S PROVE place[c] \in Places
  <2>1. Ahead(S, ahead, c) \in SUBSET S /\ Ahead(S, ahead, c) # S
    BY DEF Ahead, Orders
  <2>2. /\ IsFiniteSet(Ahead(S, ahead, c)) /\ Cardinality(Ahead(S, ahead, c)) <= n
        /\ n # Cardinality(Ahead(S, ahead, c))
    BY <2>1, FS_Subset
  <2>3. Cardinality(Ahead(S, ahead, c)) \in Nat BY <2>2, FS_CardinalityType
  <2> QED BY <1>1, <2>2, <2>3
<1>3. ASSUME NEW a \in S, NEW b \in S, place[a] = place[b] PROVE a = b
  <2>1. ASSUME NEW x \in S, NEW y \in S, <<x, y>> \in ahead PROVE place[x] # place[y]
    <3>1. Cardinality(Ahead(S, ahead, x)) < Cardinality(Ahead(S, ahead, y))
      BY <2>1, FurtherBehind
    <3>2. place[x] \in Nat /\ place[y] \in Nat BY <1>2, <1>1
    <3> QED BY <3>1, <3>2
  <2> QED BY <1>3, <2>1 DEF Orders
<1> HIDE DEF place
<1>4. place \in Injection(S, Places) 
  <2>1. place \in [S -> Places] BY <1>2 DEF place
  <2> QED BY <2>1, <1>3 DEF Injection, IsInjective
<1>5. IsFiniteSet(Places) /\ Cardinality(Places) = n
  <2>1. 0 \in Int /\ n - 1 \in Int BY <1>1
  <2>2. /\ IsFiniteSet(Places)
        /\ Cardinality(Places) = IF 0 > n - 1 THEN 0 ELSE n - 1 - 0 + 1
    BY <2>1, FS_Interval
  <2> QED BY <1>1, <2>2
<1>6. place \in Surjection(S, Places)
  BY <1>4, <1>5, FS_Injection
<1>7. i - 1 \in Places BY <1>1
<1>8. PICK c \in S : place[c] = i - 1 BY <1>6, <1>7 DEF Surjection
<1> QED BY <1>3, <1>8 DEF place

(* What the sort returns.                                                  *)
LEMMA Sorted ==
  ASSUME NEW S, IsFiniteSet(S), NEW ahead, Orders(ahead, S)
  PROVE  LET s == InOrder(S, ahead)
         IN  /\ Cardinality(S) \in Nat /\ s \in [1 .. Cardinality(S) -> S]
             /\ \A c \in S : \E i \in 1 .. Cardinality(S) : s[i] = c
             /\ \A i, j \in 1 .. Cardinality(S) : i < j <=> <<s[i], s[j]>> \in ahead
             /\ \A i, j \in 1 .. Cardinality(S) : s[i] = s[j] => i = j
<1> DEFINE n == Cardinality(S)
           s == InOrder(S, ahead)
<1>0. n \in Nat BY FS_CardinalityType
<1>1. s = [i \in 1 .. n |-> CHOOSE c \in S : Cardinality(Ahead(S, ahead, c)) = i - 1]
  BY DEF InOrder, Ahead
<1> HIDE DEF s
<1>2. ASSUME NEW i \in 1 .. n
      PROVE  s[i] \in S /\ Cardinality(Ahead(S, ahead, s[i])) = i - 1
  <2>1. s[i] = CHOOSE c \in S : Cardinality(Ahead(S, ahead, c)) = i - 1 BY <1>1
  <2> QED BY <2>1, PlacesTaken
<1>3. s \in [1 .. n -> S] BY <1>1, <1>2
<1>4. ASSUME NEW c \in S PROVE \E i \in 1 .. n : s[i] = c
  <2> DEFINE p == Cardinality(Ahead(S, ahead, c))
  <2>1. Ahead(S, ahead, c) \in SUBSET S /\ Ahead(S, ahead, c) # S
    BY DEF Ahead, Orders
  <2>2. IsFiniteSet(Ahead(S, ahead, c)) /\ p <= n /\ n # p BY <2>1, FS_Subset
  <2>3. p \in Nat BY <2>2, FS_CardinalityType
  <2> HIDE DEF p
  <2>4. p + 1 \in 1 .. n /\ (p + 1) - 1 = p BY <1>0, <2>2, <2>3
  <2>5. PICK d \in S : \A e \in S : Cardinality(Ahead(S, ahead, e)) = (p + 1) - 1 => e = d
    BY <2>4, PlacesTaken
  <2>6. s[p + 1] = c BY <1>2, <2>4, <2>5 DEF p
  <2> QED BY <2>4, <2>6
<1>5. ASSUME NEW i \in 1 .. n, NEW j \in 1 .. n, <<s[i], s[j]>> \in ahead PROVE i < j
  <2>1. Cardinality(Ahead(S, ahead, s[i])) < Cardinality(Ahead(S, ahead, s[j]))
    BY <1>2, <1>5, FurtherBehind
  <2> QED BY <2>1, <1>2, <1>0
<1>6. ASSUME NEW i \in 1 .. n, NEW j \in 1 .. n, s[i] = s[j] PROVE i = j
  BY <1>0, <1>2, <1>6
<1>7. ASSUME NEW i \in 1 .. n, NEW j \in 1 .. n, i < j PROVE <<s[i], s[j]>> \in ahead
  <2>1. s[i] # s[j] BY <1>0, <1>6, <1>7
  <2>2. <<s[j], s[i]>> \notin ahead BY <1>0, <1>5, <1>7
  <2> QED BY <1>2, <2>1, <2>2 DEF Orders
<1> QED BY <1>0, <1>3, <1>4, <1>5, <1>6, <1>7 DEF s

(* The first n of a list.                                                  *)
LEMMA FirstRows ==
  ASSUME NEW S, NEW s \in Seq(S), NEW n \in Nat
  PROVE  LET t == FirstOf(s, n)
         IN  /\ t \in Seq(S)
             /\ Len(t) = IF n < Len(s) THEN n ELSE Len(s)
             /\ \A i \in 1 .. Len(t) : i \in 1 .. Len(s) /\ t[i] = s[i]
<1> DEFINE p == IF n < Len(s) THEN n ELSE Len(s)
           t == FirstOf(s, n)
<1>1. Len(s) \in Nat /\ DOMAIN s = 1 .. Len(s) OBVIOUS
<1>2. p \in 0 .. Len(s) BY <1>1
<1>3. t = SubSeq(s, 1, p)
  BY <1>1, Usual DEF FirstOf
<1>4. t \in Seq(S) /\ Len(t) = p /\ \A i \in 1 .. p : t[i] = s[i]
  BY <1>1, <1>2, <1>3
<1> QED BY <1>1, <1>2, <1>4

(* Distance, then id, orders passages; so does score, then id.             *)
LEMMA RanksOrder ==
  ASSUME NEW S \in SUBSET Chunks
  PROVE  Orders(Before, S) /\ Orders(Better, S) /\ IsFiniteSet(S)
<1>1. /\ Chunks \subseteq Nat /\ IsFiniteSet(Chunks)
      /\ \A c \in Chunks : Distance[c] \in Nat /\ LexicalScore[c] \in Nat
  BY DEF Deployment
<1>2. \A a, b \in S :
        /\ <<a, b>> \in Before
             <=> (Distance[a] < Distance[b] \/ (Distance[a] = Distance[b] /\ a < b))
        /\ <<a, b>> \in Better
             <=> (LexicalScore[a] > LexicalScore[b]
                    \/ (LexicalScore[a] = LexicalScore[b] /\ a < b))
  BY DEF Before, Better
<1>3. \A c \in S : c \in Nat /\ Distance[c] \in Nat /\ LexicalScore[c] \in Nat
  BY <1>1
<1>4. Orders(Before, S) BY <1>2, <1>3 DEF Orders
<1>5. Orders(Better, S) BY <1>2, <1>3 DEF Orders
<1>6. IsFiniteSet(S) BY <1>1, FS_Subset
<1> QED BY <1>4, <1>5, <1>6

----------------------------------------------------------------------------
(* Products of positive numbers *)

(* A product grows with its factor, and only with it.                      *)
LEMMA ProductGrows ==
  ASSUME NEW a \in Nat, NEW b \in Nat, NEW c \in Nat \ {0}
  PROVE  /\ a < b => a * c < b * c
         /\ a <= b => a * c <= b * c
         /\ a * c < b * c => a < b
         /\ a * c <= b * c => a <= b
OBVIOUS

(* Products are naturals, positive for positive factors, in either order.  *)
LEMMA ProductType ==
  ASSUME NEW a \in Nat, NEW b \in Nat
  PROVE  /\ a * b \in Nat /\ a * b = b * a
         /\ a # 0 /\ b # 0 => a * b # 0
OBVIOUS

(* Products regroup and distribute.                                        *)
LEMMA ProductMoves ==
  ASSUME NEW a \in Nat, NEW b \in Nat, NEW c \in Nat
  PROVE  /\ (a * b) * c = (a * c) * b
         /\ (a * b) * c = a * (b * c)
         /\ (a + b) * c = a * c + b * c
OBVIOUS

(* The comparison of fractions is transitive, strictly if either is.       *)
LEMMA FractionsChain ==
  ASSUME NEW p \in Nat, NEW q \in Nat, NEW r \in Nat,
         NEW x \in Nat \ {0}, NEW y \in Nat \ {0}, NEW z \in Nat \ {0},
         p * y >= q * x, q * z >= r * y
  PROVE  /\ p * z >= r * x
         /\ p * y > q * x \/ q * z > r * y => p * z > r * x
<1> DEFINE A == p * y
           B == q * x
           C == q * z
           D == r * y
           E == p * z
           F == r * x
<1>1. {A, B, C, D, E, F} \subseteq Nat BY ProductType
<1>2. A * z = E * y /\ B * z = C * x /\ D * x = F * y
  <2>1. A * z = E * y BY ProductMoves
  <2>2. B * z = C * x BY ProductMoves
  <2>3. D * x = F * y BY ProductMoves
  <2> QED BY <2>1, <2>2, <2>3
<1>3. B <= A /\ D <= C OBVIOUS
<1> HIDE DEF A, B, C, D, E, F
<1>4. B * z <= A * z /\ (B < A => B * z < A * z)
  BY <1>1, <1>3, ProductGrows
<1>5. D * x <= C * x /\ (D < C => D * x < C * x)
  BY <1>1, <1>3, ProductGrows
<1>6. {A * z, B * z, C * x, D * x, E * y, F * y} \subseteq Nat
  BY <1>1, ProductType
<1>7. F * y <= E * y /\ (B < A \/ D < C => F * y < E * y)
  BY <1>2, <1>4, <1>5, <1>6
<1>8. F <= E /\ (B < A \/ D < C => F < E)
  BY <1>1, <1>7, ProductGrows
<1> QED BY <1>8, <1>1 DEF A, B, C, D, E, F

----------------------------------------------------------------------------
(* Fusion *)

(* A rank is a place of the leg, and 0 for what the leg does not have.     *)
LEMMA RankIs ==
  ASSUME NEW leg \in Seq(Chunks), NEW c
  PROVE  LET r == RankIn(leg, c)
         IN  /\ r \in Nat
             /\ r = 0 <=> c \notin Range(leg)
             /\ r # 0 => r \in DOMAIN leg /\ leg[r] = c
<1> DEFINE r == RankIn(leg, c)
<1>1. CASE c \in Range(leg)
  <2>1. \E i \in DOMAIN leg : leg[i] = c BY <1>1, Usual
  <2>2. r = CHOOSE i \in DOMAIN leg : leg[i] = c BY <1>1 DEF RankIn
  <2>3. r \in DOMAIN leg /\ leg[r] = c BY <2>1, <2>2
  <2>4. r \in Nat /\ r # 0 BY <2>3
  <2> QED BY <1>1, <2>3, <2>4
<1>2. CASE c \notin Range(leg)
  <2>1. r = 0 BY <1>2 DEF RankIn
  <2> QED BY <1>2, <2>1
<1> QED BY <1>1, <1>2

(* A score is a fraction, and what leads in both legs, in one of them      *)
(* strictly, has the larger.                                               *)
LEMMA ScoreIs ==
  ASSUME NEW dense \in Seq(Chunks), NEW lexical \in Seq(Chunks),
         NEW rrf \in Nat \ {0}, NEW c
  PROVE  LET w == Score(dense, lexical, rrf, c)
         IN  w[1] \in Nat /\ w[2] \in Nat \ {0}
<1> DEFINE d == RankIn(dense, c)
           l == RankIn(lexical, c)
<1>1. d \in Nat /\ l \in Nat BY RankIs
<1>2. Score(dense, lexical, rrf, c) =
        IF l = 0 THEN <<1, rrf + d>>
        ELSE IF d = 0 THEN <<1, rrf + l>>
        ELSE <<(rrf + d) + (rrf + l), (rrf + d) * (rrf + l)>>
  BY DEF Score
<1> HIDE DEF d, l
<1>3. rrf + d \in Nat \ {0} /\ rrf + l \in Nat \ {0} BY <1>1
<1>4. (rrf + d) * (rrf + l) \in Nat \ {0} BY <1>3, ProductType
<1> QED BY <1>1, <1>2, <1>3, <1>4

(* 1/a + 1/b falls when a or b grows.                                      *)
LEMMA SumsFall ==
  ASSUME NEW a \in Nat \ {0}, NEW b \in Nat \ {0}, NEW c \in Nat \ {0}, NEW d \in Nat \ {0},
         a <= c, b <= d, a < c \/ b < d
  PROVE  (a + b) * (c * d) > (c + d) * (a * b)
<1> DEFINE bd == b * d
           ac == a * c
<1>1. bd \in Nat \ {0} /\ ac \in Nat \ {0} BY ProductType
<1>2. (a + b) * (c * d) = ac * d + bd * c
  <2>1. (a + b) * (c * d) = a * (c * d) + b * (c * d) BY ProductMoves, ProductType
  <2>2. a * (c * d) = ac * d BY ProductMoves
  <2>3. b * (c * d) = bd * c BY ProductMoves, ProductType
  <2> QED BY <2>1, <2>2, <2>3
<1>3. (c + d) * (a * b) = ac * b + bd * a
  <2>1. (c + d) * (a * b) = c * (a * b) + d * (a * b) BY ProductMoves, ProductType
  <2>2. c * (a * b) = ac * b BY ProductMoves, ProductType
  <2>3. d * (a * b) = bd * a BY ProductMoves, ProductType
  <2> QED BY <2>1, <2>2, <2>3
<1> HIDE DEF bd, ac
<1>4. /\ ac * b <= ac * d /\ (b < d => ac * b < ac * d)
      /\ bd * a <= bd * c /\ (a < c => bd * a < bd * c)
  <2>1. b * ac <= d * ac /\ (b < d => b * ac < d * ac) BY <1>1, ProductGrows
  <2>2. a * bd <= c * bd /\ (a < c => a * bd < c * bd) BY <1>1, ProductGrows
  <2>3. b * ac = ac * b /\ d * ac = ac * d /\ a * bd = bd * a /\ c * bd = bd * c
    BY <1>1, ProductType
  <2> QED BY <2>1, <2>2, <2>3
<1>5. {ac * b, ac * d, bd * a, bd * c} \subseteq Nat BY <1>1, ProductType
<1> QED BY <1>2, <1>3, <1>4, <1>5

(* Two shares are more than either.                                        *)
LEMMA SumsExceed ==
  ASSUME NEW a \in Nat \ {0}, NEW b \in Nat \ {0}, NEW c \in Nat \ {0}, a <= c
  PROVE  (a + b) * c > a * b /\ (b + a) * c > b * a
<1>1. (a + b) * c = a * c + b * c BY ProductMoves
<1>2. a * c \in Nat \ {0} /\ b * c \in Nat /\ a * b \in Nat BY ProductType
<1>3. a * b <= c * b /\ c * b = b * c /\ a * b = b * a BY ProductGrows, ProductType
<1> QED BY <1>1, <1>2, <1>3

(* The fused ranking compares scores, then ids.                            *)
LEMMA AboveIs ==
  ASSUME NEW dense, NEW lexical, NEW rrf,
         NEW a \in Found(dense, lexical), NEW b \in Found(dense, lexical)
  PROVE  LET v == Score(dense, lexical, rrf, a)
             w == Score(dense, lexical, rrf, b)
         IN  <<a, b>> \in Above(dense, lexical, rrf)
               <=> \/ v[1] * w[2] > w[1] * v[2]
                   \/ v[1] * w[2] = w[1] * v[2] /\ a < b
BY DEF Above

(* The fused ranking is an order on what was found.                        *)
LEMMA AboveOrders ==
  ASSUME NEW dense \in Seq(Chunks), NEW lexical \in Seq(Chunks),
         NEW rrf \in Nat \ {0}
  PROVE  /\ Found(dense, lexical) \in SUBSET Chunks
         /\ IsFiniteSet(Found(dense, lexical))
         /\ Orders(Above(dense, lexical, rrf), Found(dense, lexical))
<1> DEFINE found == Found(dense, lexical)
           above == Above(dense, lexical, rrf)
           w == [c \in found |-> Score(dense, lexical, rrf, c)]
<1>1. found \in SUBSET Chunks BY Usual DEF Found
<1>2. IsFiniteSet(Chunks) /\ Chunks \subseteq Nat BY DEF Deployment
<1>3. IsFiniteSet(found) /\ found \subseteq Nat BY <1>1, <1>2, FS_Subset
<1>4. \A c \in found : w[c][1] \in Nat /\ w[c][2] \in Nat \ {0} BY ScoreIs
<1>5. \A a, b \in found :
        <<a, b>> \in above <=> \/ w[a][1] * w[b][2] > w[b][1] * w[a][2]
                               \/ w[a][1] * w[b][2] = w[b][1] * w[a][2] /\ a < b
  <2>1. ASSUME NEW a \in found, NEW b \in found
        PROVE  <<a, b>> \in above <=> \/ w[a][1] * w[b][2] > w[b][1] * w[a][2]
                                      \/ w[a][1] * w[b][2] = w[b][1] * w[a][2] /\ a < b
    <3>1. /\ w[a] = Score(dense, lexical, rrf, a)
          /\ w[b] = Score(dense, lexical, rrf, b)
      OBVIOUS
    <3> HIDE DEF w
    <3> QED BY <3>1, AboveIs
  <2> QED BY <2>1
<1> HIDE DEF found, above, w
<1>6. \A a, b \in found : w[a][1] * w[b][2] \in Nat
  BY <1>4, ProductType
<1>7. \A a \in found : <<a, a>> \notin above
  <2>1. ASSUME NEW a \in found PROVE <<a, a>> \notin above
    <3>1. w[a][1] * w[a][2] \in Nat BY <1>6
    <3>2. a \in Nat BY <1>3
    <3> QED BY <1>5, <3>1, <3>2
  <2> QED BY <2>1
<1>8. \A a, b \in found : a # b => <<a, b>> \in above \/ <<b, a>> \in above
  <2>1. ASSUME NEW a \in found, NEW b \in found, a # b
        PROVE  <<a, b>> \in above \/ <<b, a>> \in above
    <3> DEFINE x == w[a][1] * w[b][2]
               y == w[b][1] * w[a][2]
    <3>1. x \in Nat /\ y \in Nat /\ a \in Nat /\ b \in Nat BY <1>3, <1>6
    <3>2. <<a, b>> \in above <=> x > y \/ (x = y /\ a < b) BY <1>5
    <3>3. <<b, a>> \in above <=> y > x \/ (y = x /\ b < a) BY <1>5
    <3> QED BY <2>1, <3>1, <3>2, <3>3
  <2> QED BY <2>1
<1>9. \A a, b, c \in found :
        <<a, b>> \in above /\ <<b, c>> \in above => <<a, c>> \in above
  <2>1. ASSUME NEW a \in found, NEW b \in found, NEW c \in found,
               <<a, b>> \in above, <<b, c>> \in above
        PROVE  <<a, c>> \in above
    <3> DEFINE p == w[a][1]
               q == w[b][1]
               r == w[c][1]
               x == w[a][2]
               y == w[b][2]
               z == w[c][2]
    <3>1. {p, q, r} \subseteq Nat /\ {x, y, z} \subseteq Nat \ {0} BY <1>4
    <3>2. {a, b, c} \subseteq Nat BY <1>3
    <3>3. p * y > q * x \/ (p * y = q * x /\ a < b) BY <1>5, <2>1
    <3>4. q * z > r * y \/ (q * z = r * y /\ b < c) BY <1>5, <2>1
    <3>5. p * z > r * x \/ (p * z = r * x /\ a < c) => <<a, c>> \in above BY <1>5
    <3>6. {p * y, q * x, q * z, r * y, p * z, r * x} \subseteq Nat
      BY <3>1, ProductType
    <3> HIDE DEF p, q, r, x, y, z
    <3>7. p * y >= q * x /\ q * z >= r * y BY <3>3, <3>4, <3>6
    <3>8. p * z >= r * x /\ (p * y > q * x \/ q * z > r * y => p * z > r * x)
      BY <3>1, <3>7, FractionsChain
    <3> QED BY <3>2, <3>3, <3>4, <3>5, <3>6, <3>8
  <2> QED BY <2>1
<1>10. Orders(above, found) BY <1>7, <1>8, <1>9 DEF Orders
<1> QED BY <1>1, <1>3, <1>10 DEF found, above

Leads(dense, lexical, a, b) ==
  /\ AtLeastAsHigh(dense, a, b) /\ AtLeastAsHigh(lexical, a, b)
  /\ ~(AtLeastAsHigh(dense, b, a) /\ AtLeastAsHigh(lexical, b, a))

(* What leads in the legs comes first in the fusion.                       *)
LEMMA LeadersAreAbove ==
  ASSUME NEW dense \in Seq(Chunks), NEW lexical \in Seq(Chunks),
         NEW rrf \in Nat \ {0},
         NEW a \in Found(dense, lexical), NEW b \in Found(dense, lexical),
         Leads(dense, lexical, a, b)
  PROVE  <<a, b>> \in Above(dense, lexical, rrf)
<1> DEFINE da == RankIn(dense, a)
           db == RankIn(dense, b)
           la == RankIn(lexical, a)
           lb == RankIn(lexical, b)
           v == Score(dense, lexical, rrf, a)
           w == Score(dense, lexical, rrf, b)
<1>1. {da, db, la, lb} \subseteq Nat BY RankIs
<1>2. b \in Range(dense) \/ b \in Range(lexical) BY DEF Found
<1>3. db # 0 \/ lb # 0 BY <1>2, RankIs
<1>4. /\ db = 0 \/ (da # 0 /\ da <= db)
      /\ lb = 0 \/ (la # 0 /\ la <= lb)
      /\ \/ ~(da = 0 \/ (db # 0 /\ db <= da))
         \/ ~(la = 0 \/ (lb # 0 /\ lb <= la))
  BY DEF Leads, AtLeastAsHigh
<1>5. v = IF la = 0 THEN <<1, rrf + da>>
          ELSE IF da = 0 THEN <<1, rrf + la>>
          ELSE <<(rrf + da) + (rrf + la), (rrf + da) * (rrf + la)>>
  BY DEF Score
<1>6. w = IF lb = 0 THEN <<1, rrf + db>>
          ELSE IF db = 0 THEN <<1, rrf + lb>>
          ELSE <<(rrf + db) + (rrf + lb), (rrf + db) * (rrf + lb)>>
  BY DEF Score
<1>7. v[1] * w[2] > w[1] * v[2] => <<a, b>> \in Above(dense, lexical, rrf)
  BY AboveIs
<1> HIDE DEF da, db, la, lb, v, w
<1> DEFINE A == rrf + da
           B == rrf + db
           K == rrf + la
           M == rrf + lb
<1>8. {A, B, K, M} \subseteq Nat \ {0} BY <1>1
<1>9. /\ da <= db <=> A <= B /\ (da < db <=> A < B)
      /\ la <= lb <=> K <= M /\ (la < lb <=> K < M)
  BY <1>1, SMTT(30)
<1>10. v[1] * w[2] > w[1] * v[2]
  <2>1. CASE db # 0 /\ lb # 0
    <3>1. A <= B /\ K <= M /\ (A < B \/ K < M) /\ da # 0 /\ la # 0
      BY <1>1, <1>4, <2>1
    <3>2. v = <<A + K, A * K>> /\ w = <<B + M, B * M>>
      BY <1>5, <1>6, <2>1, <3>1
    <3> HIDE DEF A, B, K, M
    <3>3. (A + K) * (B * M) > (B + M) * (A * K) BY <1>8, <3>1, SumsFall
    <3> QED BY <3>2, <3>3
  <2>2. CASE db # 0 /\ lb = 0
    <3>1. w = <<1, B>> /\ A <= B /\ da # 0 BY <1>1, <1>4, <1>6, <2>2
    <3>2. CASE la = 0
      <4>1. v = <<1, A>> /\ A < B BY <1>1, <1>4, <1>5, <2>2, <3>2
      <4> QED BY <1>8, <3>1, <4>1
    <3>3. CASE la # 0
      <4>1. v = <<A + K, A * K>> BY <1>5, <3>1, <3>3
      <4> HIDE DEF A, B, K, M
      <4>2. (A + K) * B > A * K /\ A * K \in Nat BY <1>8, <3>1, SumsExceed, ProductType
      <4> QED BY <3>1, <4>1, <4>2
    <3> QED BY <3>2, <3>3
  <2>3. CASE db = 0 /\ lb # 0
    <3>1. w = <<1, M>> /\ K <= M /\ la # 0 BY <1>1, <1>4, <1>6, <2>3
    <3>2. CASE da = 0
      <4>1. v = <<1, K>> /\ K < M BY <1>1, <1>4, <1>5, <2>3, <3>1, <3>2
      <4> QED BY <1>8, <3>1, <4>1
    <3>3. CASE da # 0
      <4>1. v = <<A + K, A * K>> BY <1>5, <3>1, <3>3
      <4> HIDE DEF A, B, K, M
      <4>2. (A + K) * M > A * K /\ A * K \in Nat BY <1>8, <3>1, SumsExceed, ProductType
      <4> QED BY <3>1, <4>1, <4>2
    <3> QED BY <3>2, <3>3
  <2> QED BY <1>3, <2>1, <2>2, <2>3
<1> QED BY <1>7, <1>10

FusionFaithful(dense, lexical, results, k) ==
  LET found == Found(dense, lexical)
      place(c) == RankIn(results, c)
  IN  /\ Range(results) \subseteq found
      /\ Len(results) = Min({k, Cardinality(found)})
      /\ \A a, b \in found : Leads(dense, lexical, a, b) /\ place(b) # 0
           => place(a) # 0 /\ place(a) < place(b)

(* The first k of the fused ranking agree with the legs (_fuse).           *)
LEMMA FusedFaithfully ==
  ASSUME NEW dense \in Seq(Chunks), NEW lexical \in Seq(Chunks),
         NEW rrf \in Nat \ {0}, NEW k \in Nat
  PROVE  LET results == FirstOf(Fuse(dense, lexical, rrf), k)
         IN  /\ results \in Seq(Chunks)
             /\ FusionFaithful(dense, lexical, results, k)
<1> DEFINE found == Found(dense, lexical)
           above == Above(dense, lexical, rrf)
           s == Fuse(dense, lexical, rrf)
           n == Cardinality(found)
           p == IF k < n THEN k ELSE n
           results == FirstOf(s, k)
<1>1. found \in SUBSET Chunks /\ IsFiniteSet(found) /\ Orders(above, found)
  BY AboveOrders
<1>2. s = InOrder(found, above) BY DEF Fuse
<1> HIDE DEF found, above, s
<1>3. /\ n \in Nat /\ s \in [1 .. n -> found]
      /\ \A c \in found : \E i \in 1 .. n : s[i] = c
      /\ \A i, j \in 1 .. n : i < j <=> <<s[i], s[j]>> \in above
      /\ \A i, j \in 1 .. n : s[i] = s[j] => i = j
  BY <1>1, <1>2, Sorted
<1> HIDE DEF n
<1>4. /\ results \in Seq(found) /\ Len(results) = p /\ DOMAIN results = 1 .. p /\ p \in 0 .. n
      /\ \A i \in 1 .. p : results[i] = s[i]
  <2>1. n \in Nat /\ s \in Seq(found) /\ Len(s) = n BY <1>3
  <2>2. /\ results \in Seq(found) /\ Len(results) = p
        /\ \A i \in 1 .. Len(results) : i \in 1 .. n /\ results[i] = s[i]
    BY <2>1, FirstRows
  <2> HIDE DEF results
  <2> QED BY <2>1, <2>2
<1> HIDE DEF results
<1>5. results \in Seq(Chunks) BY <1>1, <1>4
<1>6. Range(results) \subseteq found BY <1>4, Usual
<1>7. Len(results) = Min({k, Cardinality(found)})
  <2>1. Cardinality(found) = n BY DEF n
  <2> QED BY <2>1, <1>3, <1>4, Usual
<1>8. ASSUME NEW a \in found, NEW b \in found, Leads(dense, lexical, a, b),
             RankIn(results, b) # 0
      PROVE  /\ RankIn(results, a) # 0
             /\ RankIn(results, a) < RankIn(results, b)
  <2> DEFINE j == RankIn(results, b)
             r == RankIn(results, a)
  <2>1. j \in 1 .. p /\ results[j] = b BY <1>4, <1>5, <1>8, RankIs
  <2>2. PICK i \in 1 .. n : s[i] = a BY <1>3
  <2>3. <<a, b>> \in above BY <1>8, LeadersAreAbove DEF found, above
  <2>4. j \in 1 .. n /\ s[j] = b BY <1>3, <1>4, <2>1
  <2>5. i < j BY <1>3, <2>2, <2>3, <2>4
  <2>6. i \in 1 .. p /\ results[i] = a BY <1>3, <1>4, <2>1, <2>2, <2>5
  <2>7. a \in Range(results) BY <1>4, <2>6, Usual
  <2>8. r # 0 /\ r \in DOMAIN results /\ results[r] = a BY <1>5, <2>7, RankIs
  <2>9. r \in 1 .. p /\ r \in 1 .. n /\ s[r] = a BY <1>3, <1>4, <2>8
  <2>10. r = i BY <1>3, <2>2, <2>9
  <2> QED BY <2>5, <2>8, <2>10
<1>9. FusionFaithful(dense, lexical, results, k)
  BY <1>6, <1>7, <1>8 DEF FusionFaithful, found
<1> QED BY <1>5, <1>9 DEF results, s

----------------------------------------------------------------------------
(* The dense leg *)

Finite(S) == IsFiniteSet(S) /\ Cardinality(S) \in Nat

(* Ranked by distance, a set of passages is listed once each.              *)
LEMMA NearestIs ==
  ASSUME NEW S \in SUBSET Chunks
  PROVE  LET s == Nearest(S)
         IN  /\ Finite(S) /\ s \in Seq(S) /\ s \in Seq(Chunks)
             /\ Len(s) = Cardinality(S) /\ Range(s) = S
<1> DEFINE s == Nearest(S)
           n == Cardinality(S)
<1>1. Orders(Before, S) /\ IsFiniteSet(S) BY RanksOrder
<1>2. s = InOrder(S, Before) BY DEF Nearest
<1> HIDE DEF s
<1>3. /\ n \in Nat /\ s \in [1 .. n -> S]
      /\ \A c \in S : \E i \in 1 .. n : s[i] = c
  BY <1>1, <1>2, Sorted
<1> HIDE DEF n
<1>4. s \in Seq(S) /\ Len(s) = n /\ DOMAIN s = 1 .. n BY <1>3
<1>5. s \in Seq(Chunks) BY <1>4
<1>6. Range(s) = {s[i] : i \in DOMAIN s} BY Usual
<1>7. Range(s) = S BY <1>3, <1>4, <1>6
<1> QED BY <1>1, <1>3, <1>4, <1>5, <1>7 DEF s, n, Finite

(* The first rows of a ranking.                                            *)
LEMMA FirstOfRanking ==
  ASSUME NEW S \in SUBSET Chunks, NEW s \in Seq(S), NEW n \in Nat
  PROVE  LET t == FirstOf(s, n)
         IN  /\ t \in Seq(Chunks) /\ Range(t) \subseteq S /\ Len(t) <= n
             /\ Len(t) < n => t = s
<1> DEFINE t == FirstOf(s, n)
<1>1. /\ t \in Seq(S) /\ Len(t) = IF n < Len(s) THEN n ELSE Len(s)
      /\ \A i \in 1 .. Len(t) : i \in 1 .. Len(s) /\ t[i] = s[i]
  BY FirstRows
<1> HIDE DEF t
<1>2. Range(t) = {t[i] : i \in DOMAIN t} BY Usual
<1>3. Len(s) \in Nat /\ DOMAIN t = 1 .. Len(t) BY <1>1
<1>4. t \in Seq(Chunks) /\ Range(t) \subseteq S BY <1>1, <1>2, <1>3
<1>5. Len(t) <= n BY <1>1, <1>3
<1>6. ASSUME Len(t) < n PROVE t = s
  <2>1. Len(t) = Len(s) BY <1>1, <1>3, <1>6
  <2> QED BY <1>1, <2>1
<1> QED BY <1>4, <1>5, <1>6 DEF t

----------------------------------------------------------------------------
(* The invariant *)

Places == {"idle", "refused", "ann", "count", "exact", "lexical", "done", "concluded"}
Bands  == UNION {RoleSensitivity[r] : r \in Roles}

DiagnosticsShape ==
  [strategy : Strategies, degraded : BOOLEAN,
   reason : {"NONE", "disabled", "too many", "timeout"},
   population : Nat, lexicalCandidates : Nat]

CallShape ==
  [pc : Places, mode : Modes, config : ConfigRow,
   allowed : SUBSET Bands, wanted : Filters \cup {{}}, dense : Seq(Chunks),
   lexical : Seq(Chunks), results : Seq(Chunks), diagnostics : DiagnosticsShape]

SearchShape ==
  /\ config \in Configs /\ checked \in BOOLEAN
  /\ corpus \in [Sources -> CorpusRow] /\ rows \in [Chunks -> Row]
  /\ call \in CallShape
  /\ seen \in SUBSET Chunks /\ steady \in BOOLEAN /\ changes \in 0 .. MaxChanges

(* What the caller has, some statement was permitted to read.              *)
Permitted ==
  /\ Range(call.dense) \subseteq seen
  /\ Range(call.results) \subseteq seen
  /\ answer.cites \subseteq DOMAIN call.results
  /\ call.pc # "concluded" => answer = NoAnswer
  /\ answer.state = "GIVEN" => answer.degraded = call.diagnostics.degraded

Fused ==
  call.pc \in {"done", "concluded"} /\ call.mode = "HYBRID" =>
    FusionFaithful(call.dense, call.lexical, call.results, call.config.k)

(* While fewer than k are known: they are all of what the index offered,   *)
(* and on the way to the exhaustive stage there are more, and not too many.*)
Short ==
  /\ call.pc \in {"ann", "count", "exact"} => call.mode \in {"VECTOR", "HYBRID"}
  /\ call.pc \in {"count", "exact"} =>
       /\ Len(call.dense) < call.config.k
       /\ call.dense = Nearest(Range(call.dense))
       /\ steady /\ CopiesCurrent => Range(call.dense) \subseteq Population
  /\ call.pc = "exact" /\ steady =>
       /\ Len(call.dense) < Cardinality(Population)
       /\ Cardinality(Population) <= call.config.exactMax

Honest(leg, diagnostics) ==
  /\ diagnostics.strategy = "EXACT_FALLBACK" => IsNearest(leg)
  /\ diagnostics.strategy = "ANN_COMPLETE" /\ CountReaches(call.config)
       => IsNearest(leg)
  /\ diagnostics.degraded
       => Len(leg) < call.config.k /\ Population \ Range(leg) # {}

Told ==
  call.pc \in {"lexical", "done", "concluded"} /\ call.mode # "LEXICAL"
    /\ call.allowed # {} /\ steady /\ CopiesCurrent
    => Honest(call.dense, call.diagnostics)

SearchInv == SearchShape /\ Permitted /\ Fused /\ Short /\ Told

(* The view of the corpus depends on the corpus and on who is asking.      *)
LEMMA SameView ==
  ASSUME rows' = rows, corpus' = corpus, call'.allowed = call.allowed,
         call'.wanted = call.wanted
  PROVE  /\ Population' = Population
         /\ CopiesCurrent' <=> CopiesCurrent
<1>1. InIndex' = InIndex BY DEF InIndex
<1>2. \A c : Eligible(c)' <=> Eligible(c) BY DEF Eligible
<1>3. Population' = Population BY <1>1, <1>2 DEF Population
<1>4. CopiesCurrent' <=> CopiesCurrent BY <1>1 DEF CopiesCurrent
<1> QED BY <1>3, <1>4

(* The eligible are finitely many.                                         *)
LEMMA PopulationFinite == Population \in SUBSET Chunks /\ Finite(Population)
<1>1. Population \in SUBSET Chunks BY DEF Population, InIndex
<1> QED BY <1>1, NearestIs

(* An answer whose rows are the whole population is the nearest of all.    *)
LEMMA AllIsNearest ==
  ASSUME call \in CallShape, NEW leg \in Seq(Chunks),
         leg = Nearest(Population),
         Cardinality(Population) <= call.config.k
  PROVE  IsNearest(leg)
<1> DEFINE P == Population
           k == call.config.k
<1>1. P \in SUBSET Chunks /\ Finite(P) BY PopulationFinite
<1>2. k \in Nat /\ Cardinality(P) <= k BY DEF CallShape, ConfigRow
<1>3. Min({k, Cardinality(P)}) = Cardinality(P)
  <2>1. Cardinality(P) \in Nat BY <1>1 DEF Finite
  <2> HIDE DEF P, k
  <2>2. ASSUME NEW n \in Nat, n <= k PROVE Min({k, n}) = n
    <3>1. Min({k, n}) = IF k < n THEN k ELSE n BY <1>2, Usual
    <3> QED BY <1>2, <2>2, <3>1
  <2> QED BY <1>2, <2>1, <2>2
<1>4. P \in NearestChoices(P, k)
  <2> HIDE DEF P, k
  <2> QED BY <1>3 DEF NearestChoices
<1> QED BY <1>4 DEF IsNearest

(* Nothing asked, nothing known.                                           *)
LEMMA SearchStarts ==
  ASSUME SearchInit
  PROVE  SearchInv
<1>1. config \in ConfigRow /\ MaxChanges \in Nat
  BY DEF SearchInit, Deployment
<1>2. /\ call.pc = "idle" /\ call.dense = <<>> /\ call.results = <<>>
      /\ answer = NoAnswer
  BY DEF SearchInit, NoCall
<1>3. call \in CallShape
  BY <1>1 DEF SearchInit, NoCall, CallShape, Places, Modes,
     NoDiagnostics, DiagnosticsShape, Strategies
<1>4. SearchShape
  BY <1>1, <1>3 DEF SearchShape, SearchInit
<1>5. Range(<<>>) = {} BY Usual
<1>6. Permitted BY <1>2, <1>5 DEF Permitted, NoAnswer
<1>7. Fused /\ Short /\ Told BY <1>2 DEF Fused, Short, Told
<1> QED BY <1>4, <1>6, <1>7 DEF SearchInv

(* Nothing read yet.                                                       *)
LEMMA AskKeeps ==
  ASSUME SearchInv,
         NEW mode \in Modes, NEW roles \in SUBSET Roles,
         NEW k \in {NoK} \cup 1 .. MaxK, NEW wanted \in Filters,
         Ask(mode, roles, k, wanted)
  PROVE  SearchInv'
<1> DEFINE allowed == AllowedSensitivities(roles)
           refused == /\ ~checked
                      /\ mode = "VECTOR" \/ (mode = "HYBRID" /\ allowed # {})
           place == IF refused THEN "refused"
                    ELSE IF allowed = {} THEN "done"
                    ELSE IF mode = "LEXICAL" THEN "lexical" ELSE "ann"
           strategy == IF mode = "LEXICAL" THEN "NOT_RUN" ELSE "ANN_COMPLETE"
           told == [NoDiagnostics EXCEPT
                      !.strategy = IF place = "done" THEN strategy ELSE "NOT_RUN"]
<1>a. call' = [pc |-> place, mode |-> mode, config |-> WithK(config, k),
               allowed |-> allowed, wanted |-> wanted, dense |-> <<>>, lexical |-> <<>>,
               results |-> <<>>, diagnostics |-> told]
  <2>1. call' = [NoCall EXCEPT
           !.pc = place, !.mode = mode, !.config = WithK(config, k),
           !.allowed = allowed, !.wanted = wanted,
           !.diagnostics.strategy = IF place = "done" THEN strategy ELSE "NOT_RUN"]
    BY DEF Ask
  <2> HIDE DEF place, strategy, allowed
  <2>2. /\ NoCall = [pc |-> "idle", mode |-> "HYBRID", config |-> config,
           allowed |-> {}, wanted |-> {}, dense |-> <<>>, lexical |-> <<>>,
           results |-> <<>>, diagnostics |-> NoDiagnostics]
        /\ NoCall.diagnostics = NoDiagnostics
    BY DEF NoCall
  <2> QED BY <2>1, <2>2
<1>b. told \in DiagnosticsShape
  BY DEF NoDiagnostics, DiagnosticsShape, Strategies
<1>c. /\ place \in {"refused", "done", "lexical", "ann"}
      /\ place = "done" => allowed = {}
      /\ place = "lexical" => mode = "LEXICAL"
      /\ place = "ann" => mode # "LEXICAL"
  BY DEF Modes
<1> HIDE DEF place, refused, strategy, told
<1>d. call.pc = "idle" BY DEF Ask
<1>e. call'.pc = place BY <1>a
<1>1. call.pc = "idle" /\ call'.pc = place BY <1>d, <1>e
<1>2. /\ config' = config /\ checked' = checked /\ corpus' = corpus /\ rows' = rows
      /\ changes' = changes /\ answer' = answer /\ seen' = seen /\ steady' = steady
  BY DEF Ask, CorpusStays
<1>3. allowed \in SUBSET Bands BY DEF Bands, AllowedSensitivities
<1>4. WithK(config, k) \in ConfigRow
  <2>1. config \in ConfigRow BY DEF SearchInv, SearchShape, Deployment
  <2>2. MaxK \in Nat /\ DefaultLexicalLimit \in Nat \ {0} /\ DefaultRrfK \in Nat \ {0}
    BY DEF Deployment
  <2> QED BY <2>1, <2>2 DEF WithK, ConfigRow, NoK
<1> HIDE DEF allowed
<1>5. call' \in CallShape
  <2>1. <<>> \in Seq(Chunks) /\ place \in Places BY <1>c DEF Places
  <2> QED BY <1>a, <1>b, <1>3, <1>4, <2>1 DEF CallShape
<1>6. SearchShape' BY <1>2, <1>5 DEF SearchInv, SearchShape
<1>7. /\ call'.dense = <<>> /\ call'.lexical = <<>> /\ call'.results = <<>>
      /\ call'.mode = mode /\ call'.allowed = allowed
      /\ call'.config \in ConfigRow
  BY <1>a, <1>4
<1>8. Range(<<>>) = {} /\ DOMAIN <<>> = {} BY Usual
<1>9. Permitted'
  <2>1. answer = NoAnswer BY <1>1 DEF SearchInv, Permitted
  <2> QED BY <1>1, <1>2, <1>7, <1>8, <1>c, <2>1 DEF Permitted, NoAnswer
<1>10. Fused'
  <2>1. Found(<<>>, <<>>) = {} BY <1>8 DEF Found
  <2>2. Cardinality({}) = 0 BY FS_EmptySet
  <2>3. call'.config.k \in Nat BY <1>7 DEF ConfigRow
  <2>4. Min({call'.config.k, 0}) = 0 BY <2>3, Usual
  <2>5. FusionFaithful(<<>>, <<>>, <<>>, call'.config.k)
    BY <1>8, <2>1, <2>2, <2>4 DEF FusionFaithful
  <2> QED BY <1>7, <2>5 DEF Fused
<1>11. Short'
  <2>1. place = "ann" => mode \in {"VECTOR", "HYBRID"} BY <1>c DEF Modes
  <2>2. place \notin {"count", "exact"} BY <1>c
  <2>3. call'.pc = place /\ call'.mode = mode BY <1>1, <1>7
  <2> QED BY <2>1, <2>2, <2>3 DEF Short
<1>12. Told'
  <2>1. place \in {"lexical", "done", "concluded"} => mode = "LEXICAL" \/ allowed = {}
    BY <1>c
  <2> QED BY <1>1, <1>7, <2>1 DEF Told
<1> QED BY <1>6, <1>9, <1>10, <1>11, <1>12 DEF SearchInv

(* The end of the dense leg, by whichever way.                             *)
LEMMA FinishKeeps ==
  ASSUME SearchInv, call.pc \in {"ann", "count", "exact"},
         CorpusStays, answer' = answer,
         seen \subseteq seen', seen' \in SUBSET Chunks, steady' \in BOOLEAN,
         NEW leg \in Seq(Chunks), Range(leg) \subseteq seen',
         NEW diagnostics \in DiagnosticsShape,
         steady' /\ CopiesCurrent => Honest(leg, diagnostics),
         FinishDense(leg, diagnostics)
  PROVE  SearchInv'
<1>1. /\ call \in CallShape /\ call.mode \in {"VECTOR", "HYBRID"}
      /\ answer = NoAnswer
  BY DEF SearchInv, SearchShape, Short, Permitted
<1>2. /\ config' = config /\ checked' = checked /\ corpus' = corpus /\ rows' = rows
      /\ changes' = changes
  BY DEF CorpusStays
<1>a. (IF call.mode = "VECTOR" THEN leg ELSE <<>>) \in Seq(Chunks) OBVIOUS
<1>b. (IF call.mode = "VECTOR" THEN "done" ELSE "lexical") \in Places BY DEF Places
<1>3. /\ call' \in CallShape /\ call'.mode = call.mode /\ call'.config = call.config
      /\ call'.allowed = call.allowed /\ call'.wanted = call.wanted
      /\ call'.dense = leg /\ call'.diagnostics = diagnostics
      /\ call'.results = IF call.mode = "VECTOR" THEN leg ELSE <<>>
      /\ call'.pc = IF call.mode = "VECTOR" THEN "done" ELSE "lexical"
  BY <1>1, <1>a, <1>b DEF FinishDense, CallShape
<1>4. SearchShape' BY <1>2, <1>3 DEF SearchInv, SearchShape
<1>5. Range(<<>>) = {} BY Usual
<1>6. Permitted'
  BY <1>1, <1>3, <1>5 DEF Permitted, NoAnswer
<1>7. Fused' /\ Short' BY <1>1, <1>3 DEF Fused, Short
<1>8. Told'
  <2>1. Population' = Population /\ (CopiesCurrent' <=> CopiesCurrent)
    BY <1>2, <1>3, SameView
  <2>2. Honest(leg, diagnostics) => Honest(call.dense, call.diagnostics)'
    BY <1>3, <2>1 DEF Honest, CountReaches, IsNearest
  <2> QED BY <2>1, <2>2 DEF Told
<1> QED BY <1>4, <1>6, <1>7, <1>8 DEF SearchInv

(* The outcomes the dense leg may report.                                  *)
LEMMA CompleteShape ==
  ASSUME NEW strategy \in Strategies, NEW population \in Nat
  PROVE  /\ Complete(strategy, population) \in DiagnosticsShape
         /\ Complete(strategy, population).strategy = strategy
         /\ Complete(strategy, population).degraded = FALSE
BY DEF Complete, NoDiagnostics, DiagnosticsShape

LEMMA DegradedShape ==
  ASSUME NEW strategy \in Strategies, NEW population \in Nat,
         NEW reason \in {"disabled", "too many", "timeout"}
  PROVE  /\ Degraded(strategy, reason, population) \in DiagnosticsShape
         /\ Degraded(strategy, reason, population).strategy = strategy
BY DEF Degraded, NoDiagnostics, DiagnosticsShape

(* The parts of a call.                                                    *)
LEMMA CallTypes ==
  ASSUME SearchInv
  PROVE  /\ call.config.k \in Nat \ {0} /\ call.config.exactMax \in Nat \ {0}
         /\ call.config.lexicalLimit \in Nat \ {0} /\ call.config.rrfK \in Nat \ {0}
         /\ call.dense \in Seq(Chunks) /\ call.lexical \in Seq(Chunks)
         /\ call.results \in Seq(Chunks) /\ Len(call.dense) \in Nat
         /\ call.diagnostics \in DiagnosticsShape
<1>1. call \in CallShape BY DEF SearchInv, SearchShape
<1>2. call.config \in ConfigRow BY <1>1 DEF CallShape
<1> QED BY <1>1, <1>2 DEF CallShape, ConfigRow

(* The index proposes, the policy disposes (search_vector, _ann_stage).    *)
LEMMA AnnKeeps ==
  ASSUME SearchInv, Ann
  PROVE  SearchInv'
<1>1. PICK proposed \in SUBSET InIndex :
        LET leg == FirstOf(Nearest({c \in proposed : Eligible(c)}),
                                  call.config.k)
        IN  IF Len(leg) >= call.config.k
            THEN FinishDense(leg, Complete("ANN", 0))
            ELSE call' = [call EXCEPT !.pc = "count", !.dense = leg]
  BY DEF Ann
<1> DEFINE kept == {c \in proposed : Eligible(c)}
           ranked == Nearest(kept)
           leg == FirstOf(ranked, call.config.k)
<1>2. /\ call.pc = "ann" /\ steady' = TRUE /\ answer' = answer /\ CorpusStays
      /\ seen' = seen \cup {c \in InIndex : Eligible(c)}
  BY DEF Ann, Reads
<1>3. InIndex \in SUBSET Chunks BY DEF InIndex
<1>4. kept \in SUBSET Chunks /\ kept \subseteq seen' /\ kept \subseteq InIndex
  BY <1>2, <1>3
<1>5. seen' \in SUBSET Chunks /\ seen \subseteq seen'
  BY <1>2, <1>3 DEF SearchInv, SearchShape
<1>6. call.config.k \in Nat BY CallTypes
<1>7. /\ Finite(kept) /\ ranked \in Seq(kept) /\ Len(ranked) = Cardinality(kept)
      /\ Range(ranked) = kept
  <2> HIDE DEF kept
  <2> QED BY <1>4, NearestIs
<1>8. /\ leg \in Seq(Chunks) /\ Range(leg) \subseteq kept
      /\ Len(leg) < call.config.k => leg = ranked
  <2> HIDE DEF kept, ranked
  <2> QED BY <1>4, <1>6, <1>7, FirstOfRanking
<1>9. IF Len(leg) >= call.config.k
      THEN FinishDense(leg, Complete("ANN", 0))
      ELSE call' = [call EXCEPT !.pc = "count", !.dense = leg]
  BY <1>1
<1>10. kept = {c \in proposed : Eligible(c)} OBVIOUS
<1>11. ranked = Nearest(kept) OBVIOUS
<1> HIDE DEF leg, kept, ranked
<1>12. CASE Len(leg) >= call.config.k
  <2> DEFINE told == Complete("ANN", 0)
  <2>1. told \in DiagnosticsShape /\ told.strategy = "ANN" /\ told.degraded = FALSE
    <3>1. "ANN" \in Strategies /\ 0 \in Nat
      BY DEF Strategies
    <3> QED BY <3>1, CompleteShape
  <2>2. FinishDense(leg, told) BY <1>9, <1>12
  <2> HIDE DEF told
  <2>3. Honest(leg, told) BY <2>1 DEF Honest
  <2>4. Range(leg) \subseteq seen' BY <1>4, <1>8
  <2> QED BY <1>2, <1>5, <1>8, <2>1, <2>2, <2>3, <2>4, FinishKeeps
<1>13. CASE ~(Len(leg) >= call.config.k)
  <2>1. call' = [call EXCEPT !.pc = "count", !.dense = leg] BY <1>9, <1>13
  <2>2. call \in CallShape BY DEF SearchInv, SearchShape
  <2>3. /\ call' \in CallShape /\ call'.pc = "count" /\ call'.dense = leg
        /\ call'.config = call.config /\ call'.mode = call.mode
        /\ call'.allowed = call.allowed /\ call'.wanted = call.wanted
        /\ call'.results = call.results /\ call'.diagnostics = call.diagnostics
    BY <1>8, <2>1, <2>2 DEF CallShape, Places
  <2>4. /\ config' = config /\ checked' = checked /\ corpus' = corpus /\ rows' = rows
        /\ changes' = changes
    BY <1>2 DEF CorpusStays
  <2>5. SearchShape' BY <1>2, <1>5, <2>3, <2>4 DEF SearchInv, SearchShape
  <2>6. Permitted' BY <1>2, <1>4, <1>5, <1>8, <2>3 DEF SearchInv, Permitted, NoAnswer
  <2>7. Len(leg) < call.config.k /\ leg = ranked
    <3>1. Len(leg) \in Nat BY <1>8
    <3>2. Len(leg) < call.config.k BY <1>6, <1>13, <3>1
    <3> QED BY <1>8, <3>2
  <2>8. CopiesCurrent => kept \subseteq Population
    BY <1>4, <1>10 DEF CopiesCurrent, Population, Eligible
  <2>9. Population' = Population /\ (CopiesCurrent' <=> CopiesCurrent)
    BY <2>3, <2>4, SameView
  <2>10. leg = Nearest(Range(leg)) /\ Range(leg) = kept
    BY <1>7, <1>11, <2>7
  <2>11. Short'
    <3>1. call.mode \in {"VECTOR", "HYBRID"} BY <1>2 DEF SearchInv, Short
    <3> QED BY <2>3, <2>7, <2>8, <2>9, <2>10, <3>1 DEF Short
  <2>12. Fused' /\ Told' BY <2>3 DEF Fused, Told
  <2> QED BY <2>5, <2>6, <2>11, <2>12 DEF SearchInv
<1> QED BY <1>12, <1>13

(* The count stops one above the ceiling (_eligible_population).           *)
LEMMA PopulationCounted ==
  ASSUME SearchInv
  PROVE  LET P == Cardinality(Population)
             population == EligiblePopulation(call.config)
         IN  /\ P \in Nat /\ population \in Nat
             /\ population = IF P < call.config.exactMax + 1 THEN P ELSE call.config.exactMax + 1
<1>1. Finite(Population) BY PopulationFinite
<1>2. call.config.exactMax + 1 \in Nat BY CallTypes
<1>3. Cardinality(Population) \in Nat BY <1>1 DEF Finite
<1>4. EligiblePopulation(call.config) =
        Min({Cardinality(Population), call.config.exactMax + 1})
  BY DEF EligiblePopulation
<1> QED BY <1>2, <1>3, <1>4, Usual

(* Fewer rows than there are leave one out.                                *)
LEMMA SomeMissing ==
  ASSUME NEW S \in SUBSET Chunks,
         Cardinality(S) < Cardinality(Population)
  PROVE  Population \ S # {}
<1>1. SUFFICES ASSUME Population \subseteq S PROVE FALSE OBVIOUS
<1>2. Finite(S) /\ Finite(Population) BY NearestIs, PopulationFinite
<1>3. Cardinality(Population) <= Cardinality(S)
  BY <1>1, <1>2, FS_Subset DEF Finite
<1> QED BY <1>2, <1>3 DEF Finite

(* The count against what is in hand (search_vector).                      *)
LEMMA CountKeeps ==
  ASSUME SearchInv, Count
  PROVE  SearchInv'
<1> DEFINE f == call.config
           leg == call.dense
           P == Population
           n == Cardinality(P)
           population == EligiblePopulation(f)
           skipped == "ANN_PARTIAL_FALLBACK_SKIPPED"
<1>1. /\ call.pc = "count" /\ answer' = answer /\ seen' = seen /\ steady' = steady
      /\ CorpusStays
  BY DEF Count
<1>2. /\ f.k \in Nat \ {0} /\ f.exactMax \in Nat \ {0}
      /\ leg \in Seq(Chunks) /\ Len(leg) \in Nat
  BY CallTypes
<1>3. /\ n \in Nat /\ population \in Nat
      /\ population = IF n < f.exactMax + 1 THEN n ELSE f.exactMax + 1
  BY PopulationCounted
<1>4. /\ Len(leg) < f.k /\ leg = Nearest(Range(leg))
      /\ steady /\ CopiesCurrent => Range(leg) \subseteq P
  BY <1>1 DEF SearchInv, Short
<1>5. /\ seen' \in SUBSET Chunks /\ steady' \in BOOLEAN /\ Range(leg) \subseteq seen'
      /\ Range(leg) \in SUBSET Chunks
  BY <1>1 DEF SearchInv, SearchShape, Permitted
<1>6. Finite(Range(leg)) /\ Cardinality(Range(leg)) = Len(leg)
  BY <1>4, <1>5, NearestIs
<1>7. IF population <= Len(leg)
      THEN FinishDense(leg, Complete("ANN_COMPLETE", population))
      ELSE IF ~f.fallback
      THEN FinishDense(leg, Degraded(skipped, "disabled", population))
      ELSE IF population > f.exactMax
      THEN FinishDense(leg, Degraded(skipped, "too many", population))
      ELSE call' = [call EXCEPT !.pc = "exact", !.diagnostics.population = population]
  BY DEF Count
<1>8. /\ {"ANN_COMPLETE", skipped} \subseteq Strategies
      /\ skipped # "ANN_COMPLETE" /\ skipped # "EXACT_FALLBACK"
  BY DEF Strategies
<1>9. P \in SUBSET Chunks /\ Finite(P) BY PopulationFinite
<1> HIDE DEF population, skipped, n
<1>10. CASE population <= Len(leg)
  <2> DEFINE told == Complete("ANN_COMPLETE", population)
  <2>1. told \in DiagnosticsShape /\ told.strategy = "ANN_COMPLETE" /\ told.degraded = FALSE
    <3>1. "ANN_COMPLETE" \in Strategies BY <1>8
    <3>2. population \in Nat BY <1>3
    <3> QED BY <3>1, <3>2, CompleteShape
  <2>2. FinishDense(leg, told) BY <1>7, <1>10
  <2> HIDE DEF told
  <2>3. ASSUME steady', CopiesCurrent PROVE Honest(leg, told)
    <3>1. ASSUME CountReaches(f) PROVE IsNearest(leg)
      <4>1. n <= Len(leg) BY <1>2, <1>3, <1>4, <1>10, <3>1 DEF CountReaches
      <4>2. Range(leg) \subseteq P BY <1>1, <1>4, <2>3
      <4>3. Cardinality(Range(leg)) = n
        <5>1. Cardinality(Range(leg)) <= n BY <1>9, <4>2, FS_Subset DEF Finite, n
        <5> QED BY <1>2, <1>3, <1>6, <4>1, <5>1
      <4>4. Range(leg) = P BY <1>9, <4>2, <4>3, FS_Subset DEF Finite, n
      <4>5. leg = Nearest(P) BY <1>4, <4>4
      <4>6. n <= f.k BY <1>2, <1>3, <1>4, <4>1
      <4>7. call \in CallShape BY DEF SearchInv, SearchShape
      <4> QED BY <1>2, <4>5, <4>6, <4>7, AllIsNearest DEF n
    <3> QED BY <2>1, <3>1 DEF Honest
  <2> QED BY <1>1, <1>2, <1>5, <2>1, <2>2, <2>3, FinishKeeps
<1>11. CASE ~(population <= Len(leg))
  <2>1. Len(leg) < population /\ population <= n BY <1>2, <1>3, <1>11
  <2>2. P \ Range(leg) # {}
    <3>1. Cardinality(Range(leg)) < Cardinality(P) BY <1>2, <1>3, <1>6, <2>1 DEF n
    <3> QED BY <1>5, <3>1, SomeMissing
  <2>3. ASSUME NEW reason \in {"disabled", "too many"},
               FinishDense(leg, Degraded(skipped, reason, population))
        PROVE  SearchInv'
    <3> DEFINE told == Degraded(skipped, reason, population)
    <3>1. told \in DiagnosticsShape /\ told.strategy = skipped
      <4>1. /\ reason \in {"disabled", "too many", "timeout"}
            /\ skipped \in Strategies
        BY <1>8
      <4>2. population \in Nat BY <1>3
      <4> QED BY <4>1, <4>2, DegradedShape
    <3>2. FinishDense(leg, told) BY <2>3
    <3> HIDE DEF told
    <3>3. Honest(leg, told) BY <1>4, <1>8, <2>2, <3>1 DEF Honest
    <3> QED BY <1>1, <1>2, <1>5, <3>1, <3>2, <3>3, FinishKeeps
  <2>4. CASE ~f.fallback BY <1>7, <1>11, <2>3, <2>4
  <2>5. CASE f.fallback /\ population > f.exactMax BY <1>7, <1>11, <2>3, <2>5
  <2>6. CASE f.fallback /\ ~(population > f.exactMax)
    <3>1. call' = [call EXCEPT !.pc = "exact", !.diagnostics.population = population]
      BY <1>7, <1>11, <2>6
    <3>2. call \in CallShape /\ call.diagnostics \in DiagnosticsShape
      BY CallTypes DEF SearchInv, SearchShape
    <3>3. [call.diagnostics EXCEPT !.population = population] \in DiagnosticsShape
      BY <1>3, <3>2 DEF DiagnosticsShape
    <3>4. call' = [call EXCEPT !.pc = "exact",
                     !.diagnostics = [call.diagnostics EXCEPT !.population = population]]
      BY <3>1, <3>2 DEF CallShape
    <3>5. /\ call' \in CallShape /\ call'.pc = "exact" /\ call'.dense = leg
          /\ call'.config = f /\ call'.mode = call.mode
          /\ call'.allowed = call.allowed /\ call'.wanted = call.wanted
          /\ call'.results = call.results
      BY <3>2, <3>3, <3>4 DEF CallShape, Places
    <3>6. /\ config' = config /\ checked' = checked /\ corpus' = corpus /\ rows' = rows
          /\ changes' = changes
      BY <1>1 DEF CorpusStays
    <3>7. SearchShape' BY <1>1, <3>5, <3>6 DEF SearchInv, SearchShape
    <3>8. Permitted' BY <1>1, <3>5 DEF SearchInv, Permitted, NoAnswer
    <3>9. Population' = P /\ (CopiesCurrent' <=> CopiesCurrent)
      BY <3>5, <3>6, SameView
    <3>10. n <= f.exactMax /\ Len(leg) < n BY <1>2, <1>3, <2>1, <2>6
    <3>11. Short'
      <4>1. call.mode \in {"VECTOR", "HYBRID"} BY <1>1 DEF SearchInv, Short
      <4> QED BY <1>1, <1>4, <3>5, <3>9, <3>10, <4>1 DEF Short, n
    <3>12. Fused' /\ Told' BY <3>5 DEF Fused, Told
    <3> QED BY <3>7, <3>8, <3>11, <3>12 DEF SearchInv
  <2> QED BY <2>4, <2>5, <2>6
<1> QED BY <1>10, <1>11

(* The exhaustive ranking (_exact_stage).                                  *)
LEMMA ExactKeeps ==
  ASSUME SearchInv, Exact
  PROVE  SearchInv'
<1> DEFINE f == call.config
           P == Population
           n == Cardinality(P)
           told == Complete("EXACT_FALLBACK", call.diagnostics.population)
<1>1. PICK ranked \in SUBSET P :
        /\ Cardinality(ranked) = Min({Cardinality(P), f.exactMax})
        /\ \E chosen \in NearestChoices(ranked, f.k) :
             FinishDense(Nearest(chosen), told)
  BY DEF Exact
<1>2. PICK chosen \in NearestChoices(ranked, f.k) :
        FinishDense(Nearest(chosen), told)
  BY <1>1
<1>3. /\ call.pc = "exact" /\ answer' = answer /\ steady' = steady /\ CorpusStays
      /\ seen' = seen \cup {c \in InIndex : Eligible(c)}
  BY DEF Exact, Reads
<1>4. P \in SUBSET Chunks /\ Finite(P) BY PopulationFinite
<1>5. chosen \in SUBSET ranked BY DEF NearestChoices
<1>6. chosen \in SUBSET Chunks BY <1>4, <1>5
<1> DEFINE leg == Nearest(chosen)
<1>7. leg \in Seq(Chunks) /\ Range(leg) = chosen BY <1>6, NearestIs
<1>8. P \subseteq seen' BY <1>3 DEF Population
<1>9. InIndex \in SUBSET Chunks BY DEF InIndex
<1>10. /\ seen \subseteq seen' /\ seen' \in SUBSET Chunks /\ steady' \in BOOLEAN
       /\ Range(leg) \subseteq seen'
  BY <1>3, <1>5, <1>7, <1>8, <1>9 DEF SearchInv, SearchShape
<1>11. told \in DiagnosticsShape /\ told.strategy = "EXACT_FALLBACK" /\ told.degraded = FALSE
  <2>1. "EXACT_FALLBACK" \in Strategies BY DEF Strategies
  <2>2. call.diagnostics.population \in Nat BY CallTypes DEF DiagnosticsShape
  <2> QED BY <2>1, <2>2, CompleteShape
<1>12. FinishDense(leg, told) BY <1>2
<1>13. ASSUME steady', CopiesCurrent PROVE Honest(leg, told)
  <2>1. n <= f.exactMax /\ f.exactMax \in Nat
    BY <1>3, <1>13, CallTypes DEF SearchInv, Short
  <2>2. ranked = P
    <3>1. Cardinality(ranked) = Min({n, f.exactMax}) BY <1>1
    <3>2. n \in Nat BY <1>4 DEF Finite
    <3>3. Min({n, f.exactMax}) = n
      <4> HIDE DEF n
      <4> QED BY <2>1, <3>2, Usual
    <3> QED BY <1>4, <3>1, <3>3, FS_Subset DEF Finite
  <2>3. IsNearest(leg) BY <2>2 DEF IsNearest
  <2> QED BY <1>11, <2>3 DEF Honest
<1> HIDE DEF told, leg
<1> QED BY <1>3, <1>7, <1>10, <1>11, <1>12, <1>13, FinishKeeps

(* Its timeout: what was in hand, and said to be incomplete.               *)
LEMMA TimeoutKeeps ==
  ASSUME SearchInv, ExactTimesOut
  PROVE  SearchInv'
<1> DEFINE leg == call.dense
           late == "ANN_PARTIAL_FALLBACK_TIMEOUT"
           told == Degraded(late, "timeout", call.diagnostics.population)
<1>1. /\ call.pc = "exact" /\ answer' = answer /\ seen' = seen /\ steady' = steady
      /\ CorpusStays /\ FinishDense(leg, told)
  BY DEF ExactTimesOut
<1>2. told \in DiagnosticsShape /\ told.strategy = late
  <2>1. late \in Strategies /\ "timeout" \in {"disabled", "too many", "timeout"}
    BY DEF Strategies
  <2>2. call.diagnostics.population \in Nat BY CallTypes DEF DiagnosticsShape
  <2> HIDE DEF late
  <2> QED BY <2>1, <2>2, DegradedShape
<1>3. /\ seen' \in SUBSET Chunks /\ steady' \in BOOLEAN /\ Range(leg) \subseteq seen'
      /\ Range(leg) \in SUBSET Chunks /\ leg \in Seq(Chunks)
  BY <1>1, CallTypes DEF SearchInv, SearchShape, Permitted
<1>4. /\ Len(leg) < call.config.k /\ leg = Nearest(Range(leg))
      /\ steady => Len(leg) < Cardinality(Population)
  BY <1>1 DEF SearchInv, Short
<1> HIDE DEF told
<1>5. ASSUME steady' PROVE Honest(leg, told)
  <2>1. Cardinality(Range(leg)) = Len(leg) BY <1>3, <1>4, NearestIs
  <2>2. Population \ Range(leg) # {}
    BY <1>1, <1>3, <1>4, <1>5, <2>1, SomeMissing
  <2> QED BY <1>2, <1>4, <2>2 DEF Honest
<1> QED BY <1>1, <1>2, <1>3, <1>5, FinishKeeps

(* The lexical leg, and what it is fused with.                             *)
LEMMA MatchedIs ==
  ASSUME SearchInv
  PROVE  LET found == LexicalCandidates(call.config)
             leg == FirstOf(found, call.config.k)
         IN  /\ found \in Seq(Chunks) /\ Range(found) \subseteq Population
             /\ leg \in Seq(Chunks) /\ Range(leg) \subseteq Population
<1> DEFINE P == Population
           M == Matched
           n == Cardinality(M)
           s == InOrder(M, Better)
           found == LexicalCandidates(call.config)
           leg == FirstOf(found, call.config.k)
<1>1. P \in SUBSET Chunks /\ M \in SUBSET P BY PopulationFinite DEF Matched
<1>2. Orders(Better, M) /\ IsFiniteSet(M) BY <1>1, RanksOrder
<1>3. call.config.k \in Nat /\ call.config.lexicalLimit \in Nat BY CallTypes
<1> HIDE DEF P, M
<1>4. n \in Nat /\ s \in [1 .. n -> M] BY <1>2, Sorted
<1> HIDE DEF s
<1>5. s \in Seq(M) BY <1>4
<1>6. found = FirstOf(s, call.config.lexicalLimit)
  BY DEF LexicalCandidates, s, M
<1> HIDE DEF found
<1>7. found \in Seq(Chunks) /\ Range(found) \subseteq M
  BY <1>1, <1>3, <1>5, <1>6, FirstOfRanking
<1>8. found \in Seq(M)
  <2>1. Range(found) = {found[i] : i \in DOMAIN found} BY Usual
  <2> QED BY <1>7, <2>1
<1>9. leg \in Seq(Chunks) /\ Range(leg) \subseteq M
  BY <1>1, <1>3, <1>8, FirstOfRanking
<1> QED BY <1>1, <1>7, <1>9 DEF P, M, found

(* The end of a search with a lexical leg.                                 *)
LEMMA FinishLexicalKeeps ==
  ASSUME SearchInv, call.pc = "lexical",
         NEW leg \in Seq(Chunks), NEW results \in Seq(Chunks), NEW found \in Seq(Chunks),
         Range(results) \subseteq Range(call.dense) \cup Population,
         call.mode = "HYBRID" => FusionFaithful(call.dense, leg, results, call.config.k),
         FinishLexical(leg, results, found)
  PROVE  SearchInv'
<1>1. /\ call \in CallShape /\ answer = NoAnswer /\ call.diagnostics \in DiagnosticsShape
  BY CallTypes DEF SearchInv, SearchShape, Permitted
<1>2. /\ config' = config /\ checked' = checked /\ corpus' = corpus /\ rows' = rows
      /\ changes' = changes /\ answer' = answer /\ steady' = steady
      /\ seen' = seen \cup {c \in InIndex : Eligible(c)}
  BY DEF FinishLexical, CorpusStays, Reads
<1> DEFINE told == [call.diagnostics EXCEPT !.lexicalCandidates = Len(found)]
<1>3. /\ told \in DiagnosticsShape /\ told.strategy = call.diagnostics.strategy
      /\ told.degraded = call.diagnostics.degraded
  <2>1. Len(found) \in Nat OBVIOUS
  <2> QED BY <1>1, <2>1 DEF DiagnosticsShape
<1>4. call' = [call EXCEPT !.pc = "done", !.lexical = leg, !.results = results,
                           !.diagnostics = told]
  BY <1>1 DEF FinishLexical, CallShape
<1> HIDE DEF told
<1>5. /\ call' \in CallShape /\ call'.pc = "done" /\ call'.dense = call.dense
      /\ call'.lexical = leg /\ call'.results = results /\ call'.mode = call.mode
      /\ call'.config = call.config /\ call'.diagnostics = told
      /\ call'.allowed = call.allowed /\ call'.wanted = call.wanted
  BY <1>1, <1>3, <1>4 DEF CallShape, Places
<1>6. InIndex \in SUBSET Chunks /\ Population \subseteq seen'
  BY <1>2 DEF InIndex, Population
<1>7. SearchShape' BY <1>2, <1>5, <1>6 DEF SearchInv, SearchShape
<1>8. Permitted'
  BY <1>1, <1>2, <1>5, <1>6 DEF SearchInv, Permitted, NoAnswer
<1>9. Fused' /\ Short' BY <1>5 DEF Fused, Short
<1>10. Told'
  <2>1. Population' = Population /\ (CopiesCurrent' <=> CopiesCurrent)
    BY <1>2, <1>5, SameView
  <2>2. Honest(call.dense, call.diagnostics) => Honest(call.dense, call.diagnostics)'
    BY <1>3, <1>5, <2>1 DEF Honest, CountReaches, IsNearest
  <2>3. Told BY DEF SearchInv
  <2> QED BY <1>2, <1>5, <2>1, <2>2, <2>3 DEF Told
<1> QED BY <1>7, <1>8, <1>9, <1>10 DEF SearchInv

(* The lexical mode (search_lexical).                                      *)
LEMMA SearchLexicalKeeps ==
  ASSUME SearchInv, SearchLexical
  PROVE  SearchInv'
<1> DEFINE found == LexicalCandidates(call.config)
           leg == FirstOf(found, call.config.k)
<1>1. call.pc = "lexical" /\ call.mode = "LEXICAL" /\ FinishLexical(leg, leg, found)
  BY DEF SearchLexical
<1>2. /\ found \in Seq(Chunks) /\ leg \in Seq(Chunks)
      /\ Range(leg) \subseteq Population
  BY MatchedIs
<1> HIDE DEF found, leg
<1> QED BY <1>1, <1>2, FinishLexicalKeeps

(* The hybrid mode, fused (search_hybrid).                                 *)
LEMMA SearchHybridKeeps ==
  ASSUME SearchInv, SearchHybrid
  PROVE  SearchInv'
<1> DEFINE f == call.config
           found == LexicalCandidates(f)
           leg == FirstOf(found, f.k)
           results == FirstOf(Fuse(call.dense, leg, f.rrfK), f.k)
<1>1. call.pc = "lexical" /\ FinishLexical(leg, results, found)
  BY DEF SearchHybrid
<1>2. /\ found \in Seq(Chunks) /\ leg \in Seq(Chunks)
      /\ Range(leg) \subseteq Population
  BY MatchedIs
<1>3. f.k \in Nat /\ f.rrfK \in Nat \ {0} /\ call.dense \in Seq(Chunks) BY CallTypes
<1> HIDE DEF found, leg, f
<1>4. results \in Seq(Chunks) /\ FusionFaithful(call.dense, leg, results, f.k)
  BY <1>2, <1>3, FusedFaithfully
<1> HIDE DEF results
<1>5. Range(results) \subseteq Range(call.dense) \cup Population
  <2>1. Range(results) \subseteq Found(call.dense, leg)
    BY <1>4 DEF FusionFaithful
  <2> QED BY <1>2, <2>1 DEF Found
<1> QED BY <1>1, <1>2, <1>4, <1>5, FinishLexicalKeeps DEF f

(* The answer is the draft's, and cites the bundle.                        *)
LEMMA ConcludeKeeps ==
  ASSUME SearchInv, NEW draft \in Drafts, Conclude(draft)
  PROVE  SearchInv'
<1> DEFINE statements == Range(draft)
           cited == UNION {st.cites : st \in statements}
           given == [state |-> "GIVEN", cites |-> cited,
                     degraded |-> call.diagnostics.degraded,
                     flagged |-> \E i \in cited \cap Indexes : call.results[i] \in Flagged]
<1>1. /\ call.pc = "done" /\ call' = [call EXCEPT !.pc = "concluded"]
      /\ answer' = IF \A st \in statements : Acceptable(st)
                   THEN given ELSE [NoAnswer EXCEPT !.state = "REJECTED"]
      /\ seen' = seen /\ steady' = steady
  BY DEF Conclude
<1>2. /\ config' = config /\ checked' = checked /\ corpus' = corpus /\ rows' = rows
      /\ changes' = changes
  BY DEF Conclude, CorpusStays
<1>3. call \in CallShape BY DEF SearchInv, SearchShape
<1>4. /\ call' \in CallShape /\ call'.pc = "concluded" /\ call'.dense = call.dense
      /\ call'.lexical = call.lexical /\ call'.results = call.results
      /\ call'.mode = call.mode /\ call'.config = call.config
      /\ call'.diagnostics = call.diagnostics
      /\ call'.allowed = call.allowed /\ call'.wanted = call.wanted
  BY <1>1, <1>3 DEF CallShape, Places
<1>5. SearchShape' BY <1>1, <1>2, <1>4 DEF SearchInv, SearchShape
<1>6. /\ answer'.cites \subseteq DOMAIN call.results
      /\ answer'.state = "GIVEN" => answer'.degraded = call.diagnostics.degraded
  <2>1. CASE \A st \in statements : Acceptable(st)
    <3>1. \A st \in statements : st.cites \subseteq DOMAIN call.results
      BY <2>1 DEF Acceptable, Indexes
    <3>2. cited \subseteq DOMAIN call.results BY <3>1
    <3>3. answer' = given BY <1>1, <2>1
    <3> QED BY <3>2, <3>3
  <2>2. CASE ~(\A st \in statements : Acceptable(st))
    <3>1. answer' = [NoAnswer EXCEPT !.state = "REJECTED"] BY <1>1, <2>2
    <3>2. answer'.cites = {} /\ answer'.state = "REJECTED" BY <3>1 DEF NoAnswer
    <3> QED BY <3>2
  <2> QED BY <2>1, <2>2
<1>7. Permitted' BY <1>1, <1>4, <1>6 DEF SearchInv, Permitted
<1>8. Fused' BY <1>1, <1>4 DEF SearchInv, Fused
<1>9. Short' BY <1>4 DEF Short
<1>10. Told'
  <2>1. Population' = Population /\ (CopiesCurrent' <=> CopiesCurrent)
    BY <1>2, <1>4, SameView
  <2>2. Honest(call.dense, call.diagnostics) => Honest(call.dense, call.diagnostics)'
    BY <1>4, <2>1 DEF Honest, CountReaches, IsNearest
  <2>3. Told BY DEF SearchInv
  <2> QED BY <1>1, <1>4, <2>1, <2>2, <2>3 DEF Told
<1> QED BY <1>5, <1>7, <1>8, <1>9, <1>10 DEF SearchInv

(* A change of the corpus ends what is claimed of a corpus that stands.    *)
LEMMA CorpusKeeps ==
  ASSUME SearchInv, Corpus
  PROVE  SearchInv'
<1>1. /\ Changes
      /\ corpus' \in [Sources -> CorpusRow] /\ rows' \in [Chunks -> Row]
  <2>1. corpus \in [Sources -> CorpusRow] /\ rows \in [Chunks -> Row]
    BY DEF SearchInv, SearchShape
  <2>2. ASSUME NEW c \in Chunks, Withdraw(c) PROVE <1>1
    <3>1. /\ rows' = [rows EXCEPT ![c].stage = "GONE", ![c].retrievable = FALSE]
          /\ corpus' = corpus /\ Changes
      BY <2>2 DEF Withdraw
    <3>2. rows' \in [Chunks -> Row] BY <2>1, <3>1 DEF Row
    <3> QED BY <2>1, <3>1, <3>2
  <2>3. ASSUME NEW s \in Sources, RetireMeanwhile(s) PROVE <1>1
    <3>1. /\ corpus' = [corpus EXCEPT ![s].life = "RETIRED"] /\ Changes
          /\ rows' = [c \in Chunks |-> IF SourceOf[c] = s
                        THEN [rows[c] EXCEPT !.retrievable = FALSE] ELSE rows[c]]
      BY <2>3 DEF RetireMeanwhile
    <3>2. corpus' \in [Sources -> CorpusRow]
      BY <2>1, <3>1 DEF CorpusRow
    <3>3. ASSUME NEW c \in Chunks
          PROVE  [rows[c] EXCEPT !.retrievable = FALSE] \in Row
      BY <2>1 DEF Row
    <3>4. rows' \in [Chunks -> Row] BY <2>1, <3>1, <3>3
    <3> QED BY <3>1, <3>2, <3>4
  <2>4. ASSUME NEW s \in Sources, NEW sens \in Classifications,
               NEW trust \in {"OPERATOR_AUTHORED", "QUARANTINED"},
               ReclassifyMeanwhile(s, sens, trust)
        PROVE  <1>1
    <3>1. /\ corpus' = [corpus EXCEPT ![s].sens = sens, ![s].trust = trust] /\ Changes
          /\ rows' = [c \in Chunks |-> IF SourceOf[c] = s /\ rows[c].stage # "ABSENT"
                        THEN [rows[c] EXCEPT !.copy = sens] ELSE rows[c]]
      BY <2>4 DEF ReclassifyMeanwhile
    <3>2. corpus' \in [Sources -> CorpusRow]
      BY <2>1, <3>1 DEF CorpusRow
    <3>3. ASSUME NEW c \in Chunks PROVE [rows[c] EXCEPT !.copy = sens] \in Row
      BY <2>1 DEF Row
    <3>4. rows' \in [Chunks -> Row] BY <2>1, <3>1, <3>3
    <3> QED BY <3>1, <3>2, <3>4
  <2>5. ASSUME NEW c \in Chunks, NEW sens \in Classifications, IngestMeanwhile(c, sens)
        PROVE  <1>1
    <3>1. /\ rows' = [rows EXCEPT
              ![c] = [stage |-> "CURRENT", retrievable |-> TRUE, copy |-> sens]]
          /\ corpus' = corpus /\ Changes
      BY <2>5 DEF IngestMeanwhile
    <3>2. rows' \in [Chunks -> Row] BY <2>1, <3>1 DEF Row
    <3> QED BY <2>1, <3>1, <3>2
  <2> QED BY <2>2, <2>3, <2>4, <2>5 DEF Corpus
<1>2. /\ call.pc \in {"ann", "count", "exact", "lexical"} /\ changes < MaxChanges
      /\ changes' = changes + 1 /\ steady' = FALSE /\ config' = config
      /\ checked' = checked /\ call' = call /\ answer' = answer /\ seen' = seen
  BY <1>1 DEF Changes
<1>3. changes' \in 0 .. MaxChanges
  BY <1>2 DEF SearchInv, SearchShape, Deployment
<1>4. SearchShape' BY <1>1, <1>2, <1>3 DEF SearchInv, SearchShape
<1>5. Permitted' BY <1>2 DEF SearchInv, Permitted, NoAnswer
<1>6. Fused' /\ Told' BY <1>2 DEF Fused, Told
<1>7. Short' BY <1>2 DEF SearchInv, Short
<1> QED BY <1>4, <1>5, <1>6, <1>7 DEF SearchInv

(* A step that is none of the search's.                                    *)
LEMMA SearchStutters ==
  ASSUME SearchInv, UNCHANGED searchVars
  PROVE  SearchInv'
<1>1. /\ config' = config /\ checked' = checked /\ corpus' = corpus /\ rows' = rows
      /\ call' = call /\ answer' = answer /\ seen' = seen /\ steady' = steady
      /\ changes' = changes
  BY DEF searchVars
<1>2. SearchShape' /\ Permitted' /\ Fused'
  BY <1>1 DEF SearchInv, SearchShape, Permitted, Fused, NoAnswer
<1>3. Population' = Population /\ (CopiesCurrent' <=> CopiesCurrent)
  BY <1>1, SameView
<1>4. Short' BY <1>1, <1>3 DEF SearchInv, Short
<1>5. Told'
  <2>1. Honest(call.dense, call.diagnostics) => Honest(call.dense, call.diagnostics)'
    BY <1>1, <1>3 DEF Honest, CountReaches, IsNearest
  <2> QED BY <1>1, <1>3, <2>1 DEF SearchInv, Told
<1> QED BY <1>2, <1>4, <1>5 DEF SearchInv

\* The inductive invariant of a search: what each of its statements may rely on
\* from those before it, over a corpus that changes (search_vector,
\* search_lexical, search_hybrid).
THEOREM SearchInvariance == SearchSpec => []SearchInv
<1>1. SearchInit => SearchInv BY SearchStarts
<1>2. SearchInv /\ [SearchNext]_searchVars => SearchInv'
  <2>1. SUFFICES ASSUME SearchInv, [SearchNext]_searchVars PROVE SearchInv' OBVIOUS
  <2>2. CASE Search
    <3>1. ASSUME NEW mode \in Modes, NEW roles \in SUBSET Roles,
                 NEW k \in {NoK} \cup 1 .. MaxK, NEW wanted \in Filters,
                 Ask(mode, roles, k, wanted)
          PROVE  SearchInv'
      BY <2>1, <3>1, AskKeeps
    <3>2. CASE Ann BY <2>1, <3>2, AnnKeeps
    <3>3. CASE Count BY <2>1, <3>3, CountKeeps
    <3>4. CASE Exact BY <2>1, <3>4, ExactKeeps
    <3>5. CASE ExactTimesOut BY <2>1, <3>5, TimeoutKeeps
    <3>6. CASE SearchLexical BY <2>1, <3>6, SearchLexicalKeeps
    <3>7. CASE SearchHybrid BY <2>1, <3>7, SearchHybridKeeps
    <3>8. ASSUME NEW draft \in Drafts, Conclude(draft) PROVE SearchInv'
      BY <2>1, <3>8, ConcludeKeeps
    <3> QED
      BY <2>2, <3>1, <3>2, <3>3, <3>4, <3>5, <3>6, <3>7, <3>8 DEF Search
  <2>3. CASE Corpus BY <2>1, <2>3, CorpusKeeps
  <2>4. CASE UNCHANGED searchVars BY <2>1, <2>4, SearchStutters
  <2> QED BY <2>1, <2>2, <2>3, <2>4 DEF SearchNext
<1> QED BY <1>1, <1>2, PTL DEF SearchSpec

\* Settings, rows, rankings and diagnostics stay what the dataclasses and columns
\* allow (retrieval.py:169-316).
THEOREM SearchTypeCorrect == SearchSpec => []SearchTypeOK
<1>1. SearchInv => SearchTypeOK
  <2>1. ASSUME SearchInv
        PROVE  {Range(call.dense), Range(call.lexical),
                Range(call.results), seen} \subseteq SUBSET Chunks
    <3>1. /\ call.dense \in Seq(Chunks) /\ call.lexical \in Seq(Chunks)
          /\ call.results \in Seq(Chunks) /\ seen \in SUBSET Chunks
      BY <2>1, CallTypes DEF SearchInv, SearchShape
    <3>2. \A leg \in Seq(Chunks) : Range(leg) \in SUBSET Chunks BY Usual
    <3> QED BY <3>1, <3>2
  <2>2. SearchInv => call.diagnostics.strategy \in Strategies
    BY CallTypes DEF DiagnosticsShape
  <2> QED BY <2>1, <2>2 DEF SearchInv, SearchShape, SearchTypeOK
<1> QED BY <1>1, SearchInvariance, PTL

(* The exhaustive ranking, while the corpus stands, and the text search,   *)
(* which is the last to read, return what both copies of the band permit.  *)
Vouched ==
  /\ call.pc \notin {"done", "concluded"} => call.lexical = <<>>
  /\ Range(call.lexical) \subseteq Population
  /\ call.pc \in {"lexical", "done", "concluded"} /\ steady
       /\ call.diagnostics.strategy = "EXACT_FALLBACK" => Range(call.dense) \subseteq Population

(* The end of the dense leg brings nothing of the lexical one.             *)
LEMMA FinishVouched ==
  ASSUME SearchInv, Vouched, call.pc \in {"ann", "count", "exact"}, CorpusStays,
         NEW leg, NEW diagnostics, FinishDense(leg, diagnostics),
         diagnostics.strategy = "EXACT_FALLBACK" => Range(leg) \subseteq Population
  PROVE  Vouched'
<1>1. call \in CallShape /\ rows' = rows /\ corpus' = corpus
  BY DEF SearchInv, SearchShape, CorpusStays
<1>2. /\ call'.lexical = call.lexical /\ call'.dense = leg
      /\ call'.diagnostics = diagnostics
      /\ call'.allowed = call.allowed /\ call'.wanted = call.wanted
  BY <1>1 DEF FinishDense, CallShape
<1>3. call.lexical = <<>> BY DEF Vouched
<1>4. Population' = Population BY <1>1, <1>2, SameView
<1>5. Range(<<>>) = {} BY Usual
<1> QED BY <1>2, <1>3, <1>4, <1>5 DEF Vouched

(* A stage that ends the dense leg short of the exhaustive ranking.         *)
LEMMA EndVouched ==
  ASSUME SearchInv, Vouched, call.pc \in {"ann", "count", "exact"}, CorpusStays,
         NEW leg, NEW strategy \in Strategies \ {"EXACT_FALLBACK"}, NEW reason, NEW n,
         \/ FinishDense(leg, Complete(strategy, n))
         \/ FinishDense(leg, Degraded(strategy, reason, n))
  PROVE  Vouched'
<1>1. /\ Complete(strategy, n).strategy = strategy
      /\ Degraded(strategy, reason, n).strategy = strategy
  BY DEF Complete, Degraded, NoDiagnostics
<1> QED BY <1>1, FinishVouched

(* A stage that hands the dense leg on to the next.                        *)
LEMMA HandedOnVouched ==
  ASSUME Vouched, call.pc \in {"ann", "count"}, call'.pc \in {"count", "exact"},
         call'.lexical = call.lexical
  PROVE  Vouched'
<1>1. call'.lexical = <<>> BY DEF Vouched
<1>2. Range(<<>>) = {} BY Usual
<1> QED BY <1>1, <1>2 DEF Vouched

(* The first stage ends the leg or hands it on to be counted.              *)
LEMMA AnnVouched ==
  ASSUME SearchInv, Vouched, Ann
  PROVE  Vouched'
<1>1. call.pc = "ann" /\ CorpusStays BY DEF Ann
<1>2. PICK proposed \in SUBSET InIndex :
        LET leg == FirstOf(Nearest({c \in proposed : Eligible(c)}), call.config.k)
        IN  IF Len(leg) >= call.config.k
            THEN FinishDense(leg, Complete("ANN", 0))
            ELSE call' = [call EXCEPT !.pc = "count", !.dense = leg]
  BY DEF Ann
<1> DEFINE leg == FirstOf(Nearest({c \in proposed : Eligible(c)}), call.config.k)
<1>3. CASE FinishDense(leg, Complete("ANN", 0))
  <2>1. "ANN" \in Strategies \ {"EXACT_FALLBACK"} BY DEF Strategies
  <2> HIDE DEF leg
  <2> QED BY <1>1, <1>3, <2>1, EndVouched
<1>4. CASE call' = [call EXCEPT !.pc = "count", !.dense = leg]
  <2> HIDE DEF leg
  <2>1. call'.pc = "count" /\ call'.lexical = call.lexical
    BY <1>4 DEF SearchInv, SearchShape, CallShape
  <2> QED BY <1>1, <2>1, HandedOnVouched
<1> QED BY <1>2, <1>3, <1>4

(* The count ends the leg or hands it on to be ranked exhaustively.        *)
LEMMA CountVouched ==
  ASSUME SearchInv, Vouched, Count
  PROVE  Vouched'
<1> DEFINE n == EligiblePopulation(call.config)
           skipped == "ANN_PARTIAL_FALLBACK_SKIPPED"
<1>1. call.pc = "count" /\ CorpusStays BY DEF Count
<1>2. IF n <= Len(call.dense)
      THEN FinishDense(call.dense, Complete("ANN_COMPLETE", n))
      ELSE IF ~call.config.fallback
      THEN FinishDense(call.dense, Degraded(skipped, "disabled", n))
      ELSE IF n > call.config.exactMax
      THEN FinishDense(call.dense, Degraded(skipped, "too many", n))
      ELSE call' = [call EXCEPT !.pc = "exact", !.diagnostics.population = n]
  BY DEF Count
<1>3. {"ANN_COMPLETE", skipped} \subseteq Strategies \ {"EXACT_FALLBACK"}
  BY DEF Strategies
<1> HIDE DEF n, skipped
<1>4. CASE FinishDense(call.dense, Complete("ANN_COMPLETE", n))
  BY <1>1, <1>3, <1>4, EndVouched
<1>5. ASSUME NEW why, FinishDense(call.dense, Degraded(skipped, why, n))
      PROVE  Vouched'
  BY <1>1, <1>3, <1>5, EndVouched
<1>6. CASE call' = [call EXCEPT !.pc = "exact", !.diagnostics.population = n]
  <2>1. call'.pc = "exact" /\ call'.lexical = call.lexical
    BY <1>6 DEF SearchInv, SearchShape, CallShape
  <2> QED BY <1>1, <2>1, HandedOnVouched
<1> QED BY <1>2, <1>4, <1>5, <1>6

(* The exhaustive ranking reads the population, and no more.               *)
LEMMA ExactVouched ==
  ASSUME SearchInv, Vouched, Exact
  PROVE  Vouched'
<1> DEFINE diagnostics == Complete("EXACT_FALLBACK", call.diagnostics.population)
<1>1. call.pc = "exact" /\ CorpusStays BY DEF Exact
<1>2. PICK ranked \in SUBSET Population :
        \E chosen \in NearestChoices(ranked, call.config.k) :
          FinishDense(Nearest(chosen), diagnostics)
  BY DEF Exact
<1> HIDE DEF diagnostics
<1>3. PICK chosen \in NearestChoices(ranked, call.config.k) :
        FinishDense(Nearest(chosen), diagnostics)
  BY <1>2
<1>4. chosen \in SUBSET Population BY <1>3 DEF NearestChoices
<1>5. chosen \in SUBSET Chunks BY <1>4, PopulationFinite
<1>6. Range(Nearest(chosen)) = chosen BY <1>5, NearestIs
<1>7. Range(Nearest(chosen)) \subseteq Population BY <1>4, <1>6
<1> QED BY <1>1, <1>3, <1>7, FinishVouched

(* A ranking that was cancelled leaves what the index found.               *)
LEMMA TimeoutVouched ==
  ASSUME SearchInv, Vouched, ExactTimesOut
  PROVE  Vouched'
<1> DEFINE strategy == "ANN_PARTIAL_FALLBACK_TIMEOUT"
<1>1. /\ call.pc = "exact" /\ CorpusStays
      /\ FinishDense(call.dense, Degraded(strategy, "timeout", call.diagnostics.population))
  BY DEF ExactTimesOut
<1>2. strategy \in Strategies \ {"EXACT_FALLBACK"} BY DEF Strategies
<1> HIDE DEF strategy
<1> QED BY <1>1, <1>2, EndVouched

(* The text search joins the vectors and asks both.                        *)
LEMMA LexicalVouched ==
  ASSUME SearchInv, Vouched, SearchLexical \/ SearchHybrid
  PROVE  Vouched'
<1> DEFINE found == LexicalCandidates(call.config)
           leg == FirstOf(found, call.config.k)
<1>1. call.pc = "lexical" /\ \E results : FinishLexical(leg, results, found)
  BY DEF SearchLexical, SearchHybrid
<1>2. found \in Seq(Chunks) /\ Range(leg) \subseteq Population BY MatchedIs
<1> HIDE DEF leg, found
<1>3. PICK results : FinishLexical(leg, results, found) BY <1>1
<1>4. call \in CallShape /\ call.diagnostics \in DiagnosticsShape
  BY CallTypes DEF SearchInv, SearchShape
<1> DEFINE told == [call.diagnostics EXCEPT !.lexicalCandidates = Len(found)]
<1>a. told.strategy = call.diagnostics.strategy
  <2>1. Len(found) \in Nat BY <1>2
  <2> QED BY <1>4, <2>1 DEF DiagnosticsShape
<1>b. call' = [call EXCEPT !.pc = "done", !.lexical = leg, !.results = results,
                           !.diagnostics = told]
  BY <1>3, <1>4 DEF FinishLexical, CallShape
<1>c. rows' = rows /\ corpus' = corpus /\ steady' = steady
  BY <1>3 DEF FinishLexical, CorpusStays
<1> HIDE DEF told
<1>5. /\ call'.pc = "done" /\ call'.lexical = leg /\ call'.dense = call.dense
      /\ call'.diagnostics.strategy = call.diagnostics.strategy
      /\ call'.allowed = call.allowed /\ call'.wanted = call.wanted
      /\ rows' = rows /\ corpus' = corpus /\ steady' = steady
  BY <1>4, <1>a, <1>b, <1>c DEF CallShape
<1>6. Population' = Population BY <1>5, SameView
<1> QED BY <1>1, <1>2, <1>5, <1>6 DEF Vouched

(* What is vouched for stays so: nothing is read after the text search, and *)
(* a change of the corpus ends what is said of one that stands.            *)
LEMMA VouchedStep ==
  ASSUME SearchInv, Vouched, [SearchNext]_searchVars
  PROVE  Vouched'
<1>a. call \in CallShape BY DEF SearchInv, SearchShape
<1>b. Range(<<>>) = {} BY Usual
<1>1. ASSUME NEW mode \in Modes, NEW roles \in SUBSET Roles,
             NEW k \in {NoK} \cup 1 .. MaxK, NEW wanted \in Filters,
             Ask(mode, roles, k, wanted)
      PROVE  Vouched'
  <2>1. /\ call'.lexical = <<>> /\ call'.dense = <<>>
    BY <1>1 DEF Ask, NoCall
  <2> QED BY <1>b, <2>1 DEF Vouched
<1>2. CASE Ann \/ Count \/ Exact \/ ExactTimesOut
  BY <1>2, AnnVouched, CountVouched, ExactVouched, TimeoutVouched
<1>3. CASE SearchLexical \/ SearchHybrid BY <1>3, LexicalVouched
<1>4. ASSUME NEW draft \in Drafts, Conclude(draft) PROVE Vouched'
  <2>1. /\ call.pc = "done" /\ call'.pc = "concluded" /\ call'.dense = call.dense
        /\ call'.lexical = call.lexical /\ call'.diagnostics = call.diagnostics
        /\ call'.allowed = call.allowed /\ call'.wanted = call.wanted
        /\ rows' = rows /\ corpus' = corpus /\ steady' = steady
    BY <1>a, <1>4 DEF Conclude, CallShape, CorpusStays
  <2>2. Population' = Population BY <2>1, SameView
  <2> QED BY <2>1, <2>2 DEF Vouched
<1>5. CASE Corpus
  <2>1. Changes
    BY <1>5 DEF Corpus, Withdraw, RetireMeanwhile, ReclassifyMeanwhile, IngestMeanwhile
  <2>2. call' = call /\ steady' = FALSE /\ call.lexical = <<>>
    BY <2>1 DEF Changes, Vouched
  <2> QED BY <1>b, <2>2 DEF Vouched
<1>6. CASE UNCHANGED searchVars
  <2>1. call' = call /\ rows' = rows /\ corpus' = corpus /\ steady' = steady
    BY <1>6 DEF searchVars
  <2>2. Population' = Population BY <2>1, SameView
  <2> QED BY <2>1, <2>2 DEF Vouched
<1> QED BY <1>1, <1>2, <1>3, <1>4, <1>5, <1>6 DEF SearchNext, Search

LEMMA VouchedAlways == SearchSpec => []Vouched
<1>1. SearchInit => Vouched
  <2>1. Range(<<>>) = {} BY Usual
  <2> QED BY <2>1 DEF SearchInit, NoCall, Vouched
<1> QED BY <1>1, VouchedStep, SearchInvariance, PTL DEF SearchSpec

\* Whatever is reclassified, retired or replaced between the statements of a
\* search, its source permitted each result when a statement read it, the copy on
\* the vector permits as well what the text search found, and what the exhaustive
\* ranking found in a corpus that stands, and an answer cites nothing outside its
\* bundle (retrieval.py:342-378, 435-450, evidence.py:325-372).
THEOREM NothingForbiddenTheorem == SearchSpec => []NothingForbidden
<1>1. ASSUME SearchInv, Vouched PROVE NothingForbidden
  <2>1. Finished => call.pc \in {"done", "concluded"} BY DEF Finished
  <2>2. Range(call.results) \subseteq seen /\ answer.cites \subseteq DOMAIN call.results
    BY <1>1 DEF SearchInv, Permitted
  <2> QED BY <1>1, <2>1, <2>2 DEF Vouched, NothingForbidden, Indexes
<1> QED BY <1>1, SearchInvariance, VouchedAlways, PTL

\* On a corpus that stands, a complete answer is the k nearest, whatever the index
\* proposed, provided the ceiling reaches k - 1, and a degraded one lacks
\* something (retrieval.py:592-686, 1122-1208).
THEOREM CompleteTheorem == SearchSpec => []CompleteMeansNearest
<1>1. SearchInv => CompleteMeansNearest
  BY DEF SearchInv, Permitted, Told, Honest, CompleteMeansNearest, Finished
<1> QED BY <1>1, SearchInvariance, PTL

\* Ranks summed as fractions never put a passage behind one that neither leg puts
\* before it (retrieval.py:1307-1366).
THEOREM FusionTheorem == SearchSpec => []FusionKeepsTheOrder
<1>1. SearchInv => FusionKeepsTheOrder
  BY DEF SearchInv, Fused, FusionFaithful, Leads, FusionKeepsTheOrder, Finished
<1> QED BY <1>1, SearchInvariance, PTL

=============================================================================
