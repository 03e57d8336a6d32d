------------------------- MODULE KnowledgeRetrieval -------------------------
(***************************************************************************)
(* One retrieval while the corpus changes under it.                        *)
(*                                                                         *)
(* The dense leg asks the approximate index for candidates, applies the    *)
(* policy to what it proposed, and only when that leaves fewer than k      *)
(* passages counts how many there are and, if some were missed, ranks them *)
(* exhaustively. The lexical leg searches the text. Each of these is one   *)
(* SQL statement, reading a snapshot of its own, so that a document may be *)
(* replaced or a source retired or reclassified between any two of them.   *)
(* The two legs are fused by rank, and the result is packaged as evidence  *)
(* that an answer's statements are validated against.                      *)
(*                                                                         *)
(* Chunk ids are naturals, compared as the database compares them. A row   *)
(* of rows stands for a chunk with its vector: stage says whether its      *)
(* version is its active document's current one, retrievable and copy are  *)
(* the two columns of the vector.                                          *)
(***************************************************************************)
EXTENDS Naturals, FiniteSets, Sequences, SequencesExt, FiniteSetsExt

CONSTANTS
  Chunks,               \* chunk ids
  SourceOf,             \* chunk -> its source
  Distance,             \* chunk -> distance of its vector from the query's
  LexicalScore,         \* chunk -> score of its text, 0 when it does not match
  Flagged,              \* chunks flagged INJECTION_SUSPECTED by the screen
  Classifications,      \* the bands
  RoleSensitivity,      \* role -> the bands it reads
  Configs,              \* the settings a deployment may run with
  MaxK,                 \* the largest k a caller may ask for
  Filters,              \* the sets of sources a caller may narrow to, {} for all
  DefaultLexicalLimit,  \* the dataclass defaults
  DefaultRrfK,
  Drafts,               \* lists of statements somebody may try to answer with
  MaxChanges            \* bound on the changes of the corpus

VARIABLES
  config,   \* the settings of this deployment
  checked,  \* is the space's prefix_verified_at set?
  corpus,   \* source -> its row
  rows,     \* chunk -> its row
  call,     \* the retrieval
  answer,   \* what build_answer made of a draft
  seen,     \* history: the chunks permitted when some statement read them
  steady,   \* history: has nothing changed since the first statement?
  changes   \* history: how many changes there were

searchVars == <<config, checked, corpus, rows, call, answer, seen, steady, changes>>

Sources == {SourceOf[c] : c \in Chunks}
Roles   == DOMAIN RoleSensitivity
Modes   == {"VECTOR", "LEXICAL", "HYBRID"}
NoK     == 0

Strategies == {"NOT_RUN", "ANN", "ANN_COMPLETE", "EXACT_FALLBACK",
               "ANN_PARTIAL_FALLBACK_TIMEOUT", "ANN_PARTIAL_FALLBACK_SKIPPED"}

\* The settings __post_init__ lets through.
ConfigRow ==
  [k : 1 .. MaxK, overfetch : Nat \ {0}, cap : Nat, fallback : BOOLEAN,
   exactMax : Nat \ {0}, lexicalLimit : Nat \ {0}, rrfK : Nat \ {0}]

\* What is given: distances and scores are compared, nothing else.
Deployment ==
  /\ IsFiniteSet(Chunks) /\ Chunks \subseteq Nat
  /\ Distance \in [Chunks -> Nat] /\ LexicalScore \in [Chunks -> Nat]
  /\ Configs \subseteq ConfigRow
  /\ {MaxK, DefaultLexicalLimit, DefaultRrfK} \subseteq Nat \ {0}
  /\ MaxChanges \in Nat

ASSUME DeploymentAssumption == Deployment

CandidateLimit(f) == Min({f.k * f.overfetch, f.cap})

\* _with_k copies every setting but the two of the lexical leg and the fusion.
WithK(f, k) ==
  IF k = NoK THEN f
  ELSE [f EXCEPT !.k = k, !.lexicalLimit = DefaultLexicalLimit, !.rrfK = DefaultRrfK]

\* policy_for: the union over the principal's roles.
AllowedSensitivities(roles) == UNION {RoleSensitivity[r] : r \in roles}

----------------------------------------------------------------------------
(* What a statement sees *)

\* _ELIGIBILITY: the source's and the document's columns.
Eligible(c) ==
  LET s == corpus[SourceOf[c]]
  IN  /\ s.sens \in call.allowed
      /\ s.trust # "QUARANTINED"
      /\ s.life = "ACTIVE"
      /\ rows[c].stage = "CURRENT"
      /\ call.wanted = {} \/ SourceOf[c] \in call.wanted

\* _VECTOR_LIFECYCLE
InIndex == {c \in Chunks : rows[c].retrievable}

\* The WHERE of the exhaustive statements: the source must permit the row and
\* so must the copy of its sensitivity on the vector.
Population == {c \in InIndex : rows[c].copy \in call.allowed /\ Eligible(c)}

\* The members of S, each behind those that ahead puts before it.
InOrder(S, ahead) ==
  [i \in 1 .. Cardinality(S) |->
     CHOOSE c \in S : Cardinality({d \in S : <<d, c>> \in ahead}) = i - 1]

Before ==
  {p \in Chunks \X Chunks :
     \/ Distance[p[1]] < Distance[p[2]]
     \/ Distance[p[1]] = Distance[p[2]] /\ p[1] < p[2]}

Better ==
  {p \in Chunks \X Chunks :
     \/ LexicalScore[p[1]] > LexicalScore[p[2]]
     \/ LexicalScore[p[1]] = LexicalScore[p[2]] /\ p[1] < p[2]}

FirstOf(s, n) == SubSeq(s, 1, Min({n, Len(s)}))

Nearest(S) == InOrder(S, Before)

\* The exhaustive ranking cuts by distance alone: which of several passages at
\* the same distance falls on the inside of the limit is left open.
NearestChoices(S, k) ==
  {T \in SUBSET S : /\ Cardinality(T) = Min({k, Cardinality(S)})
                    /\ \A c \in T, d \in S \ T : Distance[c] <= Distance[d]}

----------------------------------------------------------------------------
(* Fusion *)

\* The rank of a chunk in a leg, 0 when the leg does not have it.
RankIn(leg, c) == IF c \in Range(leg) THEN CHOOSE i \in DOMAIN leg : leg[i] = c ELSE 0

\* Mutant: the second leg's share replaces the first's.
ScoreReplaced(dense, lexical, rrf, c) ==
  LET d == RankIn(dense, c)
      l == RankIn(lexical, c)
  IN  IF l # 0 THEN <<1, rrf + l>> ELSE <<1, rrf + d>>

\* The sum over the legs of 1 / (rrf + rank), as a fraction.
Score(dense, lexical, rrf, c) ==
  LET d == RankIn(dense, c)
      l == RankIn(lexical, c)
  IN  IF l = 0 THEN <<1, rrf + d>>
      ELSE IF d = 0 THEN <<1, rrf + l>>
      ELSE <<(rrf + d) + (rrf + l), (rrf + d) * (rrf + l)>>

Found(dense, lexical) == Range(dense) \cup Range(lexical)

\* By score, ties by id.
Above(dense, lexical, rrf) ==
  LET Of(c) == Score(dense, lexical, rrf, c)
  IN  {p \in Found(dense, lexical) \X Found(dense, lexical) :
         LET x == Of(p[1])[1] * Of(p[2])[2]
             y == Of(p[2])[1] * Of(p[1])[2]
         IN  x > y \/ (x = y /\ p[1] < p[2])}

\* _fuse
Fuse(dense, lexical, rrf) == InOrder(Found(dense, lexical), Above(dense, lexical, rrf))

----------------------------------------------------------------------------
(* The call *)

NoDiagnostics == [strategy |-> "NOT_RUN", degraded |-> FALSE, reason |-> "NONE",
                  population |-> 0, lexicalCandidates |-> 0]

NoCall == [pc |-> "idle", mode |-> "HYBRID", config |-> config, allowed |-> {},
           wanted |-> {}, dense |-> <<>>, lexical |-> <<>>, results |-> <<>>,
           diagnostics |-> NoDiagnostics]

NoAnswer == [state |-> "NONE", cites |-> {}, degraded |-> FALSE, flagged |-> FALSE]

\* A statement has read: the rows it could have returned were permitted then.
Reads == seen' = seen \cup {c \in InIndex : Eligible(c)}

\* Nobody but the caller changes anything in these steps.
CorpusStays == UNCHANGED <<config, checked, corpus, rows, changes>>

\* retrieve, search and search_hybrid up to the first statement. The vector
\* mode embeds the query, and so refuses an unverified space, before it looks
\* at the policy; the hybrid mode looks at the policy first.
Ask(mode, roles, k, wanted) ==
  LET allowed == AllowedSensitivities(roles)
      refused == /\ ~checked
                 /\ mode = "VECTOR" \/ (mode = "HYBRID" /\ allowed # {})
      pc      == IF refused THEN "refused"
                 ELSE IF allowed = {} THEN "done"
                 ELSE IF mode = "LEXICAL" THEN "lexical" ELSE "ann"
      strategy == IF mode = "LEXICAL" THEN "NOT_RUN" ELSE "ANN_COMPLETE"
  IN  /\ call.pc = "idle"
      /\ call' = [NoCall EXCEPT
           !.pc = pc, !.mode = mode, !.config = WithK(config, k),
           !.allowed = allowed, !.wanted = wanted,
           !.diagnostics.strategy = IF pc = "done" THEN strategy ELSE "NOT_RUN"]
      /\ UNCHANGED <<answer, seen, steady>>
      /\ CorpusStays

\* _finish and _degraded, and the way back into search_hybrid.
FinishDense(leg, diagnostics) ==
  call' = [call EXCEPT
    !.pc          = IF call.mode = "VECTOR" THEN "done" ELSE "lexical",
    !.dense       = leg,
    !.results     = IF call.mode = "VECTOR" THEN leg ELSE <<>>,
    !.diagnostics = diagnostics]

Complete(strategy, population) ==
  [NoDiagnostics EXCEPT !.strategy = strategy, !.population = population]

Degraded(strategy, reason, population) ==
  [NoDiagnostics EXCEPT !.strategy = strategy, !.degraded = TRUE,
                        !.reason = reason, !.population = population]

\* Stages 1 and 2: the index proposes, SQL disposes. The index is approximate:
\* it may propose any of its rows, never more than it was asked for.
Ann ==
  /\ call.pc = "ann"
  /\ \E proposed \in SUBSET InIndex :
       LET leg == FirstOf(Nearest({c \in proposed : Eligible(c)}), call.config.k)
       IN  /\ Cardinality(proposed) <= CandidateLimit(call.config)
           /\ IF Len(leg) >= call.config.k
              THEN FinishDense(leg, Complete("ANN", 0))
              ELSE call' = [call EXCEPT !.pc = "count", !.dense = leg]
  /\ Reads
  /\ steady' = TRUE
  /\ UNCHANGED answer
  /\ CorpusStays

\* _eligible_population, bounded one above the ceiling.
EligiblePopulation(f) == Min({Cardinality(Population), f.exactMax + 1})

\* Mutant: a full page of candidates is taken for the whole population.
CountUnlessSome ==
  /\ call.pc = "count"
  /\ LET population == EligiblePopulation(call.config)
     IN  IF population <= Len(call.dense) \/ Len(call.dense) > 0
         THEN FinishDense(call.dense, Complete("ANN_COMPLETE", population))
         ELSE call' = [call EXCEPT !.pc = "exact", !.diagnostics.population = population]
  /\ UNCHANGED <<answer, seen, steady>>
  /\ CorpusStays

\* Fewer than k: is there nothing else, or was something missed?
Count ==
  /\ call.pc = "count"
  /\ LET f          == call.config
         population == EligiblePopulation(f)
         skipped    == "ANN_PARTIAL_FALLBACK_SKIPPED"
     IN  IF population <= Len(call.dense)
         THEN FinishDense(call.dense, Complete("ANN_COMPLETE", population))
         ELSE IF ~f.fallback
         THEN FinishDense(call.dense, Degraded(skipped, "disabled", population))
         ELSE IF population > f.exactMax
         THEN FinishDense(call.dense, Degraded(skipped, "too many", population))
         ELSE call' = [call EXCEPT !.pc = "exact", !.diagnostics.population = population]
  /\ UNCHANGED <<answer, seen, steady>>
  /\ CorpusStays

\* Stage 3: rank them all. The population may have outgrown the ceiling since
\* it was counted; which of its rows are then ranked is left open.
Exact ==
  /\ call.pc = "exact"
  /\ \E ranked \in SUBSET Population :
       /\ Cardinality(ranked) = Min({Cardinality(Population), call.config.exactMax})
       /\ \E chosen \in NearestChoices(ranked, call.config.k) :
            FinishDense(Nearest(chosen),
                        Complete("EXACT_FALLBACK", call.diagnostics.population))
  /\ Reads
  /\ UNCHANGED <<answer, steady>>
  /\ CorpusStays

\* The statement_timeout of the savepoint: the call goes on without stage 3.
ExactTimesOut ==
  /\ call.pc = "exact"
  /\ FinishDense(call.dense, Degraded("ANN_PARTIAL_FALLBACK_TIMEOUT", "timeout",
                                      call.diagnostics.population))
  /\ UNCHANGED <<answer, seen, steady>>
  /\ CorpusStays

\* Mutant: the text is searched without joining the vectors.
MatchedInText == {c \in Chunks : LexicalScore[c] > 0 /\ rows[c].stage # "ABSENT"
                                 /\ corpus[SourceOf[c]].sens \in call.allowed}

\* _LEXICAL_SQL before its LIMIT.
Matched == {c \in Population : LexicalScore[c] > 0}

\* _lexical_stage, and the first k of it.
LexicalCandidates(f) == FirstOf(InOrder(Matched, Better), f.lexicalLimit)

FinishLexical(leg, results, found) ==
  /\ call' = [call EXCEPT !.pc = "done", !.lexical = leg, !.results = results,
                          !.diagnostics.lexicalCandidates = Len(found)]
  /\ Reads
  /\ UNCHANGED <<answer, steady>>
  /\ CorpusStays

SearchLexical ==
  /\ call.pc = "lexical" /\ call.mode = "LEXICAL"
  /\ LET found == LexicalCandidates(call.config)
         leg   == FirstOf(found, call.config.k)
     IN  FinishLexical(leg, leg, found)

\* The diagnostics of the dense leg are the call's.
SearchHybrid ==
  /\ call.pc = "lexical" /\ call.mode = "HYBRID"
  /\ LET f     == call.config
         found == LexicalCandidates(f)
         leg   == FirstOf(found, f.k)
     IN  FinishLexical(leg, FirstOf(Fuse(call.dense, leg, f.rrfK), f.k), found)

----------------------------------------------------------------------------
(* The answer *)

\* The numbers of the bundle's citations: from_result takes every result, in
\* order.
Indexes == DOMAIN call.results

\* What build_answer asks of one statement; evidence is cited by its number.
Acceptable(statement) ==
  /\ statement.cites \subseteq Indexes
  /\ statement.kind \in {"SOURCED", "CMDB_FACT"} => statement.cites # {}
  /\ statement.kind = "CMDB_FACT" => statement.fact /\ statement.status
  /\ statement.kind = "SOURCED" => ~statement.status

\* from_result and build_answer.
Conclude(draft) ==
  LET statements == Range(draft)
      cited      == UNION {st.cites : st \in statements}
      used       == cited \cap Indexes
  IN  /\ call.pc = "done"
      /\ call' = [call EXCEPT !.pc = "concluded"]
      /\ answer' = IF \A st \in statements : Acceptable(st)
                   THEN [state |-> "GIVEN", cites |-> cited,
                         degraded |-> call.diagnostics.degraded,
                         flagged |-> \E i \in used : call.results[i] \in Flagged]
                   ELSE [NoAnswer EXCEPT !.state = "REJECTED"]
      /\ UNCHANGED <<seen, steady>>
      /\ CorpusStays

----------------------------------------------------------------------------
(* The corpus *)

\* Changes before the first statement and between statements: after the last
\* one the call reads nothing.
Changes ==
  /\ changes < MaxChanges
  /\ call.pc \in {"ann", "count", "exact", "lexical"}
  /\ changes' = changes + 1
  /\ steady' = FALSE
  /\ UNCHANGED <<config, checked, call, answer, seen>>

\* A chunk's document is replaced by its next version, or retired.
Withdraw(c) ==
  /\ rows[c].stage = "CURRENT"
  /\ rows' = [rows EXCEPT ![c].stage = "GONE", ![c].retrievable = FALSE]
  /\ UNCHANGED corpus
  /\ Changes

RetireMeanwhile(s) ==
  /\ corpus[s].life = "ACTIVE"
  /\ corpus' = [corpus EXCEPT ![s].life = "RETIRED"]
  /\ rows' = [c \in Chunks |-> IF SourceOf[c] = s
                               THEN [rows[c] EXCEPT !.retrievable = FALSE] ELSE rows[c]]
  /\ Changes

\* reclassify_source writes the source and, in the same transaction, the copies.
ReclassifyMeanwhile(s, sens, trust) ==
  /\ <<sens, trust>> # <<corpus[s].sens, corpus[s].trust>>
  /\ corpus' = [corpus EXCEPT ![s].sens = sens, ![s].trust = trust]
  /\ rows' = [c \in Chunks |->
       IF SourceOf[c] = s /\ rows[c].stage # "ABSENT"
       THEN [rows[c] EXCEPT !.copy = sens] ELSE rows[c]]
  /\ Changes

\* An ingest commits. It copied the sensitivity its source had when it began.
IngestMeanwhile(c, sens) ==
  /\ rows[c].stage = "ABSENT"
  /\ rows' = [rows EXCEPT ![c] = [stage |-> "CURRENT", retrievable |-> TRUE, copy |-> sens]]
  /\ UNCHANGED corpus
  /\ Changes

----------------------------------------------------------------------------
Row == [stage : {"ABSENT", "CURRENT", "GONE"}, retrievable : BOOLEAN, copy : Classifications]

CorpusRow == [sens : Classifications, trust : {"OPERATOR_AUTHORED", "QUARANTINED"},
              life : {"ACTIVE", "RETIRED"}]

\* A corpus of current passages in sources that have not been touched since,
\* but for copies an earlier ingest may have left behind a reclassification.
SearchInit ==
  /\ config \in Configs /\ checked \in BOOLEAN
  /\ corpus \in [Sources -> {s \in CorpusRow :
                   s.trust = "OPERATOR_AUTHORED" /\ s.life = "ACTIVE"}]
  /\ rows \in [Chunks -> {r \in Row : /\ r.stage # "GONE"
                                      /\ r.retrievable <=> r.stage = "CURRENT"}]
  /\ \A c \in Chunks : rows[c].stage = "ABSENT" => rows[c].copy = corpus[SourceOf[c]].sens
  /\ call = NoCall /\ answer = NoAnswer
  /\ seen = {} /\ steady = TRUE /\ changes = 0

Search == \/ \E mode \in Modes, roles \in SUBSET Roles, k \in {NoK} \cup 1 .. MaxK,
                wanted \in Filters : Ask(mode, roles, k, wanted)
          \/ Ann \/ Count \/ Exact \/ ExactTimesOut
          \/ SearchLexical \/ SearchHybrid
          \/ \E draft \in Drafts : Conclude(draft)

Corpus == \/ \E c \in Chunks : Withdraw(c)
          \/ \E s \in Sources : RetireMeanwhile(s)
          \/ \E s \in Sources, sens \in Classifications,
                trust \in {"OPERATOR_AUTHORED", "QUARANTINED"} : ReclassifyMeanwhile(s, sens, trust)
          \/ \E c \in Chunks, sens \in Classifications : IngestMeanwhile(c, sens)

SearchNext == Search \/ Corpus

SearchSpec == SearchInit /\ [][SearchNext]_searchVars

----------------------------------------------------------------------------
(* What retrieval promises *)

SearchTypeOK ==
  /\ config \in Configs /\ checked \in BOOLEAN
  /\ corpus \in [Sources -> CorpusRow] /\ rows \in [Chunks -> Row]
  /\ {Range(call.dense), Range(call.lexical), Range(call.results), seen}
       \subseteq SUBSET Chunks
  /\ call.diagnostics.strategy \in Strategies
  /\ changes \in 0 .. MaxChanges /\ steady \in BOOLEAN

Finished == call.pc \in {"done", "concluded"}

\* Do the copies say what the sources say?
CopiesCurrent ==
  \A c \in InIndex : rows[c].copy = corpus[SourceOf[c]].sens

\* Nothing reaches the caller, by either leg, in the results or among the
\* citations of an answer, that its source did not permit to it, current and in
\* active and fit material, when one of the call's statements read it: whatever
\* changes between the statements, and however the ranks are combined. What the
\* text search returns, and what the exhaustive ranking does on a corpus that
\* stands, the vector's own copy of the band permits as well; of a candidate of
\* the approximate index the copy is not asked (RequiresBothCopies, below).
\* (policy_for, _ELIGIBILITY, _VECTOR_SENSITIVITY and _LEXICAL_SQL; an answer
\* that cites evidence outside the bundle is refused.)
NothingForbidden ==
  /\ Range(call.results) \subseteq seen
  /\ Finished => Range(call.lexical) \subseteq Population
  /\ Finished /\ steady /\ call.diagnostics.strategy = "EXACT_FALLBACK" =>
       Range(call.dense) \subseteq Population
  /\ answer.cites \subseteq Indexes

\* The results a search with no index would have given: the nearest of all.
IsNearest(leg) ==
  \E T \in NearestChoices(Population, call.config.k) : leg = Nearest(T)

\* Can the count, which stops one above the ceiling, tell k passages apart?
CountReaches(f) == f.k <= f.exactMax + 1

\* When the corpus holds still and the copies agree, the exact answer is the k
\* nearest permitted passages, so is the declared-complete answer when the
\* count reaches that far, and an answer is declared degraded only when
\* something permitted is missing from it. The declaration survives fusion and
\* the answer built on it. (stages 1 to 3 of search_vector, search_hybrid,
\* from_result and build_answer.)
CompleteMeansNearest ==
  Finished /\ steady /\ CopiesCurrent /\ call.mode # "LEXICAL" /\ call.allowed # {} =>
    /\ call.diagnostics.strategy = "EXACT_FALLBACK" => IsNearest(call.dense)
    /\ call.diagnostics.strategy = "ANN_COMPLETE" /\ CountReaches(call.config)
         => IsNearest(call.dense)
    /\ call.diagnostics.degraded
         => Len(call.dense) < call.config.k /\ Population \ Range(call.dense) # {}
    /\ answer.state = "GIVEN" => answer.degraded = call.diagnostics.degraded

\* A leg ranks one passage at least as high as another, present before absent.
AtLeastAsHigh(leg, a, b) ==
  LET ra == RankIn(leg, a)
      rb == RankIn(leg, b)
  IN  rb = 0 \/ (ra # 0 /\ ra <= rb)

\* Fusion never contradicts the legs where they agree: a passage both legs put
\* at least as high as another, and one higher, comes before it, and is not the
\* one that falls off the end. So a passage found by both legs outranks one
\* found by either alone at the same rank. (_fuse and search_hybrid)
FusionKeepsTheOrder ==
  Finished /\ call.mode = "HYBRID" =>
    LET found == Found(call.dense, call.lexical)
        Dominates(a, b) ==
          /\ AtLeastAsHigh(call.dense, a, b) /\ AtLeastAsHigh(call.lexical, a, b)
          /\ ~(AtLeastAsHigh(call.dense, b, a) /\ AtLeastAsHigh(call.lexical, b, a))
        place(c) == RankIn(call.results, c)
    IN  /\ Range(call.results) \subseteq found
        /\ Len(call.results) = Min({call.config.k, Cardinality(found)})
        /\ \A a, b \in found : Dominates(a, b) /\ place(b) # 0
             => place(a) # 0 /\ place(a) < place(b)

----------------------------------------------------------------------------
(* What it does not keep *)

\* retrieval.py:338-341: both the source's band and the copy on the vector "are
\* required, which fails closed: if they ever disagree, the row is excluded".
\* The statement over the approximate index (retrieval.py:916-935) asks the
\* source only, so that a row whose copy denies the caller is returned.
RequiresBothCopies ==
  Finished /\ steady => Range(call.results) \subseteq Population

\* retrieval.py:1184-1190: an approximate answer is never presented as complete.
\* A passage that was permitted throughout the call, and is nearer than what the
\* call returned, may still be missing from a complete answer: the rows the
\* index found are compared in number with a later count.
NeverFalselyComplete ==
  Finished /\ call.mode # "LEXICAL" /\ CopiesCurrent
    /\ call.diagnostics.strategy = "ANN_COMPLETE" =>
      Population \cap seen \subseteq Range(call.dense)

\* retrieval.py:196-199: beyond exact_max_rows the call returns a degraded
\* result. __post_init__ takes a ceiling below k, and then a count cut off at
\* the ceiling is not above what the index found: the answer counts as complete.
CompleteAtAnyCeiling ==
  Finished /\ steady /\ CopiesCurrent /\ call.mode # "LEXICAL" /\ call.allowed # {}
    /\ call.diagnostics.strategy = "ANN_COMPLETE" => IsNearest(call.dense)

=============================================================================
