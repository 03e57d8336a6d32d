# ACOP in TLA+

ACOP (`src/src/acop`) is a control plane that records what it knows about a
site (a CMDB and a knowledge base) and executes *tools* against it: small,
declared capabilities that pass policy gates, wait for human approval where
their class demands it, and are dispatched by background workers to adapters
that read or change real systems. PostgreSQL is the only shared state.
Everything below is about the concurrency of that design: worker processes,
request tasks, a reaper and a sweeper act on the same rows in READ COMMITTED
transactions, any of which may be rolled back, cancelled or killed; requests
decide by rows they read earlier, and only unique indexes, CHECK and exclusion
constraints see what others have committed in between.

## Inventory

| Part | State it keeps | Operations | Interacts with |
|---|---|---|---|
| Dispatcher (`services/tools/dispatcher.py`, `state.py`) | `tool_invocation` row: state, lease, attempt count, gate decision, outcome | `execute_once`, `_run_claimed`, `_final_gate`, `_execute`, `_after_execution`, `run_inline` | adapters, worker, reaper, approvals, registry |
| Worker (`worker.py`) | loop tick, stop flag, batch of ids | `start`, `stop`, `_loop`, `_dispatch_ready` | dispatcher, reaper, sweeper |
| Reaper and sweeper (`reaper.py`) | candidate rows read without a lock | `reap_expired_leases`, `expire_stale` | the same rows as everyone |
| Approvals (`approval.py`) | `tool_approval` rows, `approvals_received` | `decide`, `approval_failure` | invocation row, final gate |
| Requests (`invocation.py`, `policy.py`, `api/routes/tool_invocations.py`) | invocation rows, idempotency keys | `create`, cancel, reconcile | policy gates, registry, inline dispatch |
| Registry (`tools/registry.py`, `api/routes/tools.py`) | `tool_registration`: lifecycle, contract hash | reconcile at start, disable, enable | gates, final gate |
| Proxmox adapter (`tools/adapters/proxmox/*`) | one client and one time budget per attempt | ten read-only tools, each a conversation of GETs | dispatcher, a cluster outside ACOP |
| Event history (`state.append_event`) | `tool_invocation_event`, gapless sequence per row | append | every transition |
| CMDB facts (`fact.py`, `provenance.py`) | `asset_fact` with validity intervals, `fact_attestation` | assert, desire, verify, revoke, conflicts, effective | retirement of the asset |
| CMDB identity (`identity_resolver.py`, `asset.py`, `relationship.py`) | assets, identifiers, edges | resolve, attach, free, patch, retire, link, unlink | mentions, tool targets |
| Mentions (`services/knowledge/mentions.py`) | `knowledge_asset_mention` rows | scan a version, associate | identifiers, chunks |
| Ingest (`services/knowledge/ingest.py`, `catalog.py`) | sources, documents, versions, vectors, attempts, findings, rulings | ingest, retire, reclassify, record a disposition | provider, screen, chunker, retrieval |
| Chunking (`chunking.py`) | none | sections, paragraphs, cuts, merges | ingest, citations |
| Retrieval (`retrieval.py`, `evidence.py`) | settings, one call's diagnostics | vector, lexical and hybrid search, evidence and answers | vectors, sources, policy |
| Embedding spaces (`spaces.py`) | spaces, the default, prefix verification | register, set default, verify, resync | ingest, retrieval |
| Request transaction and audit (`api/transaction.py`, `db/session.py`, `services/audit.py`) | one session per request, audit events | commit, rollback, out-of-band denial records | everything |
| Authentication, health, model client, configuration | caches only | | |

What is hard here:

* the invocation row is claimed in one transaction and worked in another, so
  every belief about it may be stale; adapters act on systems whose effect may
  land after ACOP gave up; leases expire on two different clocks (the
  compare-and-set uses PostgreSQL's `now()`, the reaper its process's); the
  reaper and the sweeper read first and write later; approvals are counted
  under READ COMMITTED; an `await` anywhere can be the last thing a cancelled
  task does;
* the CMDB and the knowledge base read, decide and write in separate statements
  without locking anything, and the ORM writes only the columns that differ
  from what it once read, so two calls can compose into a row neither wrote;
* an ingest keeps an attempt row outside its own transaction and calls a
  provider in the middle of it; a retrieval is several statements, each with a
  snapshot of its own; an approximate index must not be mistaken for an answer;
* a Proxmox read asks the inventory where its object is and then asks that
  place, while guests migrate and numbers are reused.

What makes the parts correct: a task at the adapter owns the row; a target is
changed at most once per authorised invocation; a state that says "nothing was
attempted" is true; terminal rows stay closed; nothing out of service,
unapproved or tampered with is dispatched; nothing becomes executable without
the approvals its snapshot asked for; every request is eventually closed;
standing on a claim is accounted for by an attestation; one source says one
thing at a time; one identity is one asset; a document has one current version
and no secret nobody cleared; nothing forbidden is retrieved and "complete"
means complete; a read-only answer is about the object asked for and whole. The
list of hazards, each at its line, is in `PROJECT.json`.

## Modules

* `ToolVocabulary` - the closed vocabulary of `models/tool_vocabulary.py`:
  states, terminal and in-flight sets, the table of legal transitions, gate
  decisions, tool lifecycles.
* `InvocationLifecycle` - the abstract specification: per row, which committed
  state follows which, and that the target may be touched only while the row
  says EXECUTING. No workers, leases, locks or clocks.
* `ToolExecution` - the execution framework. Tasks are worker loops (`Workers`)
  and request tasks that run a Class 0/1 tool inline (`Callers`); both execute
  the same `execute_once`. `MCToolExecution` instantiates it.
* `ToolApproval` - `ToolApprovalService.decide` for one invocation, statement
  by statement. `MCToolApproval` instantiates it.
* `ToolRegistry` - processes with different builds that reconcile their
  declarations into `tool_registration`, administrators, and what is executed
  meanwhile. `MCToolRegistry` names the builds.
* `InvocationRequest` - the POST of an invocation from its body to its answer:
  gates, idempotency key, record, commit, route. `MCInvocationRequest` names the
  bodies, the catalogue of tools and the assets.
* `ProxmoxRead` - one read-only Proxmox tool run by the dispatcher against a
  cluster that goes on living. `MCProxmoxRead` names nodes, guests and targets.
* `CmdbFacts` - claims about one predicate of one asset, their attestations and
  the retirement of the asset. `MCCmdbFacts` names the sources and operators.
* `CmdbIdentity` - assets, identifiers and edges under overlapping requests.
* `AssetMentions` - extends `CmdbIdentity`: scans of a document version and
  explicit associations, while the requests of `CmdbIdentity` register, free
  and retire what the text names. `MCAssetMentions` instantiates both at once.
* `KnowledgeIngest` - ingests of one reference, with the retirements, rulings
  and reclassifications that may fall between their statements.
  `MCKnowledgeIngest` names the contents.
* `DocumentChunking` - the chunker as operators over a document that grows by a
  line at a time. `MCDocumentChunking` names the lines.
* `KnowledgeRetrieval` - one search, statement by statement, while the corpus
  changes; fusion, evidence and the validation of an answer.
  `MCKnowledgeRetrieval` names passages, settings and drafts.
* `ToolExecutionProofs`, `ToolApprovalProofs`, `ToolRegistryProofs`,
  `InvocationRequestProofs`, `CmdbFactsProofs`, `AssetMentionsProofs` (with
  `CmdbIdentity`), `ProxmoxReadProofs` - the TLAPS proofs about the module each
  is named after; `KnowledgeProofs` - those about `KnowledgeIngest`,
  `DocumentChunking` and `KnowledgeRetrieval`, which have no name in common.

How they meet. `InvocationRequest` writes the invocation row and leaves it in
AWAITING_APPROVAL, READY or REJECTED; `ToolApproval` moves it from
AWAITING_APPROVAL; `ToolExecution` begins where a row has been recorded and
takes the decisive approval and the registration's lifecycle as inputs, which
are in turn what `ToolApproval` and `ToolRegistry` are about; `ProxmoxRead` is
what one of its adapter calls does, with the dispatcher's retries and its
`wait_for` included. `InvocationLifecycle` is the promise about the row that
`ToolExecution` is shown to keep. `AssetMentions` and `CmdbIdentity` are one
state machine: a scan reads the identifiers that requests are changing. The
vectors `KnowledgeIngest` commits, with the copies of the sensitivity it read
earlier, are the rows `KnowledgeRetrieval` starts from, stale copies included;
`DocumentChunking` is the pure step between reading a text and embedding it.

### How ToolExecution corresponds to the code


`state`, `lease`, `attempt_count` and `final_gate` are the *committed* columns.
A transaction that has won a compare-and-set holds `lock[i]` and keeps its
uncommitted version in `draft[i]`; others still read `state[i]`. Under READ
COMMITTED an UPDATE whose predicate fails on the committed row returns at once,
and one that matches waits for the lock and is re-evaluated; so a winning step
is guarded by "predicate and lock free", a losing step by the negated predicate.

| Action | Code |
|---|---|
| `Create`, `CreateInline` | `create_invocation` with `InvocationService.create`; the inline variant then runs `run_inline` in the same task |
| `Approve`, `Deny`, `Cancel` | the decisive approval, a denial, `POST /{id}/cancel` |
| `DisableTool`, `EnableTool`, `RetireTool`, `Tamper` | lifecycle administration; a stored envelope that no longer recomputes |
| `Poll`, `EndBatch` | `_loop`, `_dispatch_ready` |
| `SkipNotReady`, `Claim` | `execute_once`: early return, `claim_for_execution` and its commit |
| `EvaluateGate` | start of `_run_claimed`: `now()` is fixed, `_final_gate` evaluated |
| `GateAllows`, `GateDenies`, `AbandonLostLease` | `record_final_gate_if_owned` and its three continuations |
| `CallAdapter`, `AdapterTimesOut`, `AdapterRetries`, `AdapterFails`, `AdapterSucceeds`, `BeginValidation`, `ValidationConfirms`, `ValidationFails` | `_execute` and `_after_execution` |
| `CommitExecution` | the end of `_run_claimed`'s session |
| `StartReap`, `ReapOne`, `ReapStoodDown`, `CommitReap` | `reap_expired_leases` |
| `StartSweep`, `SweepOne`, `SweepStoodDown`, `CommitSweep` | `expire_stale` |
| `TransactionFails`, `Crash`, `InlineWaitElapses`, `Stop`, `LoopEnds`, `StopTimesOut`, `Start` | failure, kill, `wait_for` in `run_inline`, shutdown |
| `LeaseExpiresOnServer`, `LeaseExpiresForReaper`, `WindowLapses`, `TargetActs` | clocks and the managed system (external) |

The target is external: a call made may take effect at any later time
(`TargetActs`), also after a timeout, a crash or a reap. An adapter's answer is
a free choice except that a *confirmed* validation observed the change.

`ToolApproval` separates the statements of `decide`: `Begin` (read and checks),
`Insert`, `Count`, `Flush`, `Advance` or `Refuse`, `Commit`. `Flush` writes
`approvals_received` by primary key, only when it differs from the value that
was loaded, because that is what the ORM emits. `FinalGate` evaluates
`approval_failure` over the committed rows.

### How ToolRegistry corresponds to the code

Reconciliation and the two lifecycle endpoints read rows without locking them
and write at the flush, so each is two actions. An UPDATE carries only the
columns whose value differs from the one that was read (`Column`), and
`Storable` is the table's CHECK constraints, which may refuse the result.

| Action | Code |
|---|---|
| `StartProcess`, `StopProcess` | the lifespan of `main.py`, with the build that is deployed |
| `ReadRows` | `reconcile`: all rows are read; a drifted contract refuses start-up |
| `WriteRows` | inserts, retirements and the commit, or their refusal and the `except` in `main.py` |
| `LoseDatabase` | the database goes before, during or just after the commit |
| `ReadTarget`, `WriteLifecycle` | `disable_tool`, `enable_tool` |
| `Execute` | an inline invocation that passes the lifecycle gates |

### How InvocationRequest corresponds to the code

A request's steps are the statements between which others can act: `Receive`
(the registration is read, gates 1 to 4), `ResolveTarget` (the asset is read,
gates 5 to 8), `LookUpKey` (`_existing_for_key`), `Insert` or `InsertFails`
(`_persist`, `_reject` and the unique index), `Commit`, `Respond` (the refusal
is raised, the justification checked, an inline tool chosen) and `RunInline`.
`draft[r]` is the row inserted but not committed; the unique index makes another
insertion of its key wait (`Claimants`) and refuses one that is committed
(`Holders`). `Lose` is a connection, task or process lost at any point after
the request began. `SwitchTool` and `RetireAsset` change what the gates read,
`Approve`, `Cancel` and `Claim` move accepted rows on. A body is a record of
what the gates tell apart: the tool, its input (valid, refused by the schema, or
one on which validation itself fails), the target, the key, the roles and
whether there is a justification; the envelope digest is the record it is taken
over.

### How CmdbFacts, CmdbIdentity and AssetMentions correspond to the code

A request of the CMDB is a transaction of a few statements. `Begin` takes the
call and the process's `now()`, `Read` (and `ReadAgain`, where the code selects
a second time) decides and remembers what it saw, `Commit` flushes: it writes
what the call's operator makes of the remembered rows into the tables as they
are by then, and only if every constraint of the table (`Storable`) holds of the
result; otherwise nothing is written and the caller gets the unhandled integrity
error. A refusal at a read ends the request there. An update by the ORM names
the columns that differ from the values it read (`Flush`).

| Operator or action | Code |
|---|---|
| `assert_fact`, `create_desired`, `transition` | the methods of `services/fact.py`, with `_live_claim`, `_guard_single_authority`, `attribution_for` |
| `Histories`, `HistoriesAssumption` | what earlier calls may have left: rows the constraints admit, attested and chained |
| `retire` (facts) | the part of `AssetService.retire` that closes claims |
| `effective`, `Conflicting` | `effective()` and `conflicts()` over live rows |
| `OneClaimAtATime`, `OneAuthorityEach`, `RowChecks` | the partial unique indexes, the exclusion constraint and the CHECKs of `asset_fact` |
| `ReadMatches`, `resolve`, `attach_missing` | `IdentityResolver.resolve`, `find_matches`, `_attach_missing` |
| `attach_identifier`, `retire_identifier` | the same names in `identity_resolver.py` and its routes |
| `update`, `retire` (assets) | `AssetService.update`, `retire` |
| `ReadEdge`, `assert_relationship`, `retire_relationship` | `RelationshipService`, with the registry of edge types (`EdgeSpecOf`) |
| `BeginScan`, `ScanChunk`, `CommitScan` | `link_version`, `_existing_keys`, `_match`, one query per chunk |
| `ReadAssociation`, `CommitAssociation` | `associate` |

An identifier's value is a core with the marks of its spelling (letter case,
blanks, separators, dots); `Erases` is what each namespace's normaliser removes.
Asset ids are in UUID order, which is what keeps a symmetric edge in one
direction. `owned` and the `after`/`owned` fields of a scan are history.

### How KnowledgeIngest corresponds to the code

`Open` is `_open_attempt`, committed on a session of its own; `TakeSource`,
`FindDocument`, `Gate` and `Embed` are the statements and the provider call
between which others may commit; `Commit` is `_persist` with the attempt's
success in the request's transaction, `Refuse` the unique index that turned it
away (nothing closes the attempt then), and `Close` every other ending, again on
a session of its own. `RetireSource`, `RetireDocument`, `Reclassify`,
`RecordDisposition` and `MarkPrefixesVerified` are the catalog's and the space's
operations. A crash is a request that takes no further step: there is no
fairness in this module, so every property holds of those behaviours too.

### How DocumentChunking corresponds to the code

A document is a sequence of lines by kind and length, and positions are character
offsets. Every loop of `chunk_document` and its helpers is a recursive function
over what the loop runs over: `SectionWalk` and `ParagraphWalk` over the lines,
`GatherWalk` over the paragraphs of a section, `GatheredAll` over the sections,
`BoundedAll` and `MergedAll` over the chunks so far; `AfterLine`, `NextParagraph`,
`Gather`, `Bounded` and `Merge` are their bodies. The source drops sections and
paragraphs without text at the end of a pass; here they are not added
(`Adding`), which gives the same list. `ChunkDocument` is the result, as a set:
ordinals and estimates are left out. `Write` is no action of the program; it
makes every document a state. `InForce` says which headings hold at a line
without walking sections, and `FiledUnderItsHeading` compares the two by the
titles that are not empty (`Label`), since `chunk_document` drops the empty ones
that stand for skipped levels, and a heading may have no title of its own.
`FlaggedChunks` is `_persist`'s overlap test between a chunk and a hit.

### How KnowledgeRetrieval corresponds to the code

| Action | Code |
|---|---|
| `Ask` | `search_vector`, `search_lexical`, `search_hybrid` up to their first statement: prefix check, `policy_for`, `_with_k` |
| `Ann` | stages 1 and 2: the index proposes up to its candidate limit, the eligibility predicate disposes |
| `Count` | `_eligible_population` and the three ways on |
| `Exact`, `ExactTimesOut` | stage 3 in its savepoint, and its statement timeout |
| `SearchLexical`, `SearchHybrid` | `_lexical_stage`, `_fuse` |
| `Conclude` | `EvidenceBundle.from_result`, `build_answer` |
| `Withdraw`, `RetireMeanwhile`, `ReclassifyMeanwhile`, `IngestMeanwhile` | other requests, between two statements |

The index may propose any subset of its rows that fits its limit, which covers
every recall an approximate index can have. Fused scores are fractions, compared
exactly; the code sums floats, whose rounding is not modelled. `seen` collects what some statement was permitted to read.

### How ProxmoxRead corresponds to the code

| Action | Code |
|---|---|
| `Begin`, `NotConfigured`, `Route` | `execute`: client from settings, `_identifier`, `require_instance`, `parse_vmid` |
| `ResolveNode`, `ResolveGuest`, `ResolveNodes` | the inventory request and `resolve_node`, `resolve_guest`, `online_nodes` |
| `Read`, `ReadStorage` | the tool's own request and its projection; one per online node for storage |
| `RequestFails`, `BudgetExhausted`, `CancelledFromOutside` | `_send`, `_check_status`, `_envelope`; the shared budget; the dispatcher's `wait_for` |
| `Fail` | the error's category and the dispatcher's retry decision, with a client and a budget of its own per attempt |
| `Finish` | `_declared_output` |
| `Flip`, `Migrate`, `Destroy`, `Create` | the cluster (external) |

A record carries one optional field, which stands for all that its projection
reads beside what routes; `Readings` are JSON values by what the coercions make
of them.

Names that describe a plausible bug (`OwnedAsRead`, `StillSeenById`, ...) are
mutants of the definition that follows them; `PROJECT.json` says which property
each one breaks. No specification uses them.

## Runs

| Run | Instance | Shows |
|---|---|---|
| `exec_race` | 1 row, 2 workers, validation, 2 attempts, 1 fault, 2 administrative changes | ownership at dispatch, bounded effects on the target, the final gate's authority, gate decision and outcome agree |
| `exec_liveness` | 2 rows, 1 worker, 1 inline caller, all queries limited to one row, fairness | the inductive invariant, refinement of `InvocationLifecycle`, the sweeper spares a fresh approval, every recorded request is closed |
| `approval_decisions` | 4 requests by 3 people, threshold 2 | quorum of distinct authorised people, denial is final, counter never ahead, gate agrees with quorum |
| `registry_deploys` | 2 processes, 3 builds, 3 starts, 2 administrative requests, 1 outage | a reconciled process serves the stored contract, only an enable revives, an acknowledged disable holds |
| `request_race` | 2 requests of 15 bodies, losses, 1 change of a tool or asset, fairness | a key means one request, a refusal burns no key, what a prohibited tool answers depends on nobody's roles or input, every request is answered |
| `cmdb_facts` | 3 of 13 calls overlap; nothing, an observation or a verified one to start from | authority rests on an attestation, a source's claims are a chain, inferences never corroborate |
| `cmdb_identity` | 3 requests overlap: 17 CMDB calls, scans of two chunks, an association | one identity, one asset; one cable, one edge; retirement is final; a scan links exactly what is named to exactly who held it, once |
| `mention_reassigned` (violation) | 3 requests over one chunk an earlier scan linked: free, attach, scan | a scan all through which the new owner alone holds the value leaves it linked to the former one |
| `knowledge_ingest` | 3 ingests of 7 contents, 1 ruling, both classifications | secrets were cleared for those bytes, attempts tell what became of them, one gapless chain with one current version, versions differ in text |
| `knowledge_chunking` | every document of up to 5 of 9 lines | no visible character and no hit is lost; a chunk is filed under the headings in force where its text is |
| `knowledge_retrieval` | 3 passages of 2 sources, 2 settings, every mode, role and filter, 1 change | every result was permitted by its source when it was read, and by the vector's copy too but for what the index alone found; a complete answer is the nearest if the count could reach k; fusion keeps the legs' order |
| `proxmox_read` | 2 nodes, 2 machines, 2 numbers, 7 targets, 10 tools, 2 attempts, 2 changes | an answer is about its target, an inventory is whole, only the unreachable is asked again |

Further configurations give counterexamples to sentences of the documentation,
or to what a reader would expect, and are kept beside the runs above. Each
property fails; where a configuration lists several, TLC stops at the first that
does, and with `-continue` shows them all:

| Configuration | Property | What it shows |
|---|---|---|
| `exec_inline_wait.cfg` | `LiveLeaseIsWorked` | `run_inline` says the work continues when its wait ends; it is cancelled |
| `exec_stop.cfg` | `StopLetsExecutionFinish` | `stop` says it does not cancel an execution in flight; after five seconds it does |
| `exec_lost_validation.cfg` | `IndeterminateMeansUnreported` | a lost validation is closed as EXECUTION_INDETERMINATE although the adapter had reported |
| `approval_threshold.cfg` | `ThresholdMovesOn` | two approvals at once both count one; the row never moves on |
| `registry_unreconciled.cfg` | `NothingBeforeReconciliation` | a start-up whose reconciliation failed serves and executes a drifted contract |
| `registry_remove.cfg` | `RemovalRetires` | removing a disabled tool makes reconciliation fail instead of retiring the row |
| `registry_remove.cfg` | `RestoredByDeploy` | declaring a retired tool again leaves it retired |
| `request_replay.cfg` | `ReplayReturnsOriginal` | an overlapping retry fails instead of receiving the original |
| `request_unrecorded.cfg` | `ProhibitionIsSaid` | a prohibited tool named for an asset the inventory does not have is answered with the foreign key's error, not with the prohibition |
| `request_unrecorded.cfg` | `RefusalIsRecorded` | the refusal of an unknown asset is not recorded |
| `facts_closed.cfg` | `ClosedClaimsAreFrozen` | a verification that read the claim while it was live marks it after it was superseded |
| `facts_closed.cfg` | `RetirementSparesStanding` | a retirement that read the claim before it was verified relabels it STALE |
| `identity_ports.cfg` | `ParallelLinksCoexist` | asserting a second link between two devices, on another port, closes the first |
| `mention_twice.cfg` | `OneMentionEach` | two scans at once record everything twice |
| `ingest_retired.cfg` | `RetiredIsNotRetrievable` | an ingest in flight over a retirement puts retrievable vectors into a retired source |
| `ingest_revert.cfg` | `LoneAttemptIsClosed` | going back to bytes an earlier version had is refused by `uq_document_raw_hash`, and the attempt stays PENDING |
| `retrieval_short.cfg` | `RequiresBothCopies` | on a corpus that stands, the statement over the index returns a passage whose vector still carries a band the caller may not read: it asks the source only |
| `retrieval_short.cfg` | `NeverFalselyComplete` | candidates that were withdrawn between two statements make an incomplete answer count as complete |
| `retrieval_short.cfg` | `CompleteAtAnyCeiling` | with `exact_max_rows` below k - 1, which `__post_init__` accepts, a partial answer of the index counts as complete on a corpus that stands |
| `proxmox_nan.cfg` | `DegradesToUnknown` | a NaN or an Infinity in an optional number fails the whole read instead of reading as unknown |

Bounds. Two tasks are enough for every pairwise race, and one more actor is
always there in the form of people, clocks and the target. Two rows make a
multi-row reap or sweep, a batch with a second entry and a LIMIT that bites.
`MaxFaults` bounds crashes, stops and failed transactions, `MaxAdmin` lifecycle
changes and tampering; the proofs have no such bounds. `minted` and
`attempt_count` are bounded because a row is claimed at most once. Workers are
symmetric; symmetry is not used in the liveness run.

In `registry_deploys` the three builds differ by a removal and by an edit in
place, which are the two things reconciliation must tell apart; three starts let
a second process come up, and one be restarted, between a read and a write of
the other; one outage is enough to leave a process unreconciled at any point.
In `request_race` the fifteen bodies hold at least one for every gate, for
every constraint and for every branch of the route, and six of them share
a key; two requests make every race at the unique index, and `MaxChanges` is one
because a gate reads each of the two inputs once. A third request would only
wait at the same index.

In the CMDB runs three requests make every race of two at a constraint with a
third call (a retirement, a freeing, a revocation) before, between or after
them; the clock needs no bound because each request reads it once. In
`knowledge_ingest` three ingests give a document a second version while a third
is in flight over either; two contents are one text in two encodings, and two
texts hold the same match, so that a ruling can be mistaken for another's;
`MaxDispositions` is one because a second ruling could only withdraw or repeat
the first. In `knowledge_chunking` the sizes keep the source's order (overlap <
minimum < target < ceiling), one line exceeds the ceiling, one heading has no
title, and five lines let a fence hide a heading between two others. In `knowledge_retrieval` two passages
are equally near and matched by text in the opposite order, the settings make
the fallback run, be refused by the ceiling and be switched off, one of them
with a ceiling below what a caller may ask for, and one change may fall before
any statement. In `proxmox_read` a second change lets a number
be freed and given to another guest between the inventory and the read; the
tools' times are those of the declarations in units of five seconds, the request
timeout is set to 35 seconds, which the setting permits, so that one request can
use up a budget (at the default of 15 no two-node read could); and two attempts
are what the catalogue's retry policy allows.

Fairness. `FairSpec` of `ToolExecution` assumes weak fairness of each task's own
steps (an adapter call is bounded by `wait_for`, a transaction ends, a stopped
process is started again by its supervisor) and that the reaper's clock and the
approval windows advance. It assumes nothing of people, of faults or of the
target. Weak fairness suffices because a task waiting for a row lock waits for
another task's step. `InvocationRequest` assumes only that a statement a request
has begun ends (`WF` of each request's `Step`): whoever it waits for at the
index commits, fails or is lost. The other modules assume none and state no
liveness: every one of their requests is a bounded sequence of statements that
wait for nothing but the database.

## Proofs

`ToolExecutionProofs` proves `Spec => []IInv` for every number of rows, workers
and callers, every limit and any number of faults, from `ConstantsAssumption`
only. `DispatchOwnsRow` and `ActsAtMostOnce` are not inductive: a task at the
gate must know that nobody called the adapter under its lease, and a task that
holds a lock that its draft is what its program point says. `IInv` therefore
adds, per row, the relation of state, lease, attempts, calls and landings
(`RowInv`); per lock, who may hold it and what the draft then is (`LockInv`);
per task, what its lease entitles it to before (`JobInv`) and after
(`DispatchInv`) the ownership check; that lease ids are never shared
(`LeaseInv`); and what the reaper's and sweeper's candidate lists may hold
(`CandInv`). Actions are grouped by their effect on the rows, one lemma per
group; `CoreStep` and `CandStep` go through the actions one by one. From it
follow `TypeOK`, `DispatchOwnsRow`, `LeaseExactlyInFlight`, `UntouchedOutcomes`
and `ActsAtMostOnce`.

A second invariant, `GateInv`, on top of the first, is about the gate and the
sweeper. A decision is taken, held in memory and written two statements later,
so the committed row alone explains nothing: `GateTask` says that the verdict a
task carries is the one its draft stands for, and that a row it allowed can no
longer be barred (only queued rows are held or tampered with, and this one is
EXECUTING under its lease). `SweepTask` says that a candidate which is still in
the state the sweeper read is still overdue: no row returns to waiting, so a
window is only restarted by leaving that state, and then the compare-and-set
misses. From these follow `BarredNeverCalled`, `GateExplainsOutcome` and the
action property `SweepSparesFresh`.

The same module proves the refinement `Spec => ImplementsLifecycle` (only
claims, human decisions, calls and the three publishing commits are visible;
everything else stutters) and, from it, `TerminalIsFinal` and `MovesAreLegal`:
whatever a transaction makes of a committed row can be reached by moves of
`LEGAL_TRANSITIONS`, so the table refuses nothing that the actions commit.

`ToolRegistryProofs` proves `DriftNeverServed`, `BuildsAgree`, `ContractFixed`
and `TypeOK` for any processes, builds, outages and administrators. Between
reading the rows and writing them a process relies on what it read, so the
invariant adds that a row once read is still there with the same contract
(`SnapshotsHold`), that it was compared with the build (`SnapshotsCompared`) and
that the target an administrator has read still exists (`TargetsExist`). The
action properties `OnlyEnableRevives` and `AcknowledgedDisable` need one more
fact, that an enable on its way has not read a RETIRED row
(`EnablesReadUnretired`): an UPDATE names only the columns that differ from what
was read, so an enable makes a row ACTIVE only if it read it otherwise, hence
DISABLED. A disable that read a row DISABLED which has been enabled since would
leave it ACTIVE; the CHECK constraints refuse what that UPDATE makes of it.

`InvocationRequestProofs` proves `KeyMeansOneRequest` for any number of
requests, bodies and tools. Committed rows are not enough for the induction: a
key may be held by a row no one has committed yet (`KeysDiffer`), a request has
written only what its program point allows (`Progress`), and the invocation
`create` is about to return already records what was asked for
(`ReturnsWhatWasAsked`), which the answer inherits (`AnswersWhatWasAsked`). The
assumptions are the shape of bodies and declarations (`RequestAssumption`) and
that the absent value is no row and no reason (`NoneAssumption`). `DecisionInv`
adds what the records mean: a committed row is the one its request decided on
but for its later state, whatever the gates' inputs have become since, and a
conflict that was answered rests on an accepted row, which nothing removes. From
it follows `ConflictMeansAccepted`. `ProhibitionIsUniform` is about answers,
those without a row included: what a prohibited tool may answer is a function of
the body in which roles and input do not occur, and the target only in whether a
row can record it (`ProhibitionAnswers`). Its invariant (`ProhibitionInv`) says
that such a request never gets past gate 3 and that what it is refused for is
one of that gate's reasons or an earlier one's; whether the refusal can be
stored is then a matter of its target alone (`RefusalStorable`), so that every
caller who names the same target gets the same answer.

`ToolApprovalProofs` proves `TypeOK`, `ReadyIsApproved`,
`OneApprovalPerSubject`, `DenialIsFinal`, `CounterNeverAhead` and
`GateAgreesWithQuorum` for any number of decision requests, any threshold and
either setting of self-approval. A request counts while others commit and
commits later, so the committed rows are not inductive: the invariant adds which
rows a transaction in progress has inserted (`RowsInv`), that whoever decides is
entitled to (`AuthorityInv`), that two approvals of one subject, committed or
not, are one row (`UniqueInv`), that the step a request is at fits its decision
(`DecisionInv`), that the approvals it counted are still there in what it sees
(`CountInv`), what the holder of the row lock is about to write (`LockInv`), and
that a row released or executing has its quorum (`Enough`). Approvals are only
ever added, so a count once taken stays a lower bound (`ApproversGrow`). The
assumption is the shape of the constants, finitely many subjects among it
(`ApprovalAssumption`).

`CmdbFactsProofs` proves `AuthorityIsAttested`, `LineageIsAChain` and
`EchoIsNoCorroboration` for any number of requests, sources, values and
principals and any start that meets the constraints. A request writes what it
made of rows it read, over rows that others have changed; what it can rely on is
that the columns that say what a claim is are never updated (`ReadsHold`), and
that no two requests at work, and no request and an existing claim, share a
clock reading (`ClocksHold`): without the latter a claim could be closed before
it begins. With the constraints (`Storable`) every write keeps standing attested
(`Attested`) and each source's claims in a chain (`Chained`). The assumptions
are the shape of the calls (`BodiesAssumption`), that NULL is nothing else
(`NullAssumption`), and that the initial history is one the constraints and the
code could have produced (`HistoriesAssumption`).

`AssetMentionsProofs` is about `CmdbIdentity` and `AssetMentions` as one machine
(`MSpec`), for any requests, calls, texts and inventories. It proves
`SameIdentitySameAsset`, `OneLinkOneEdge`, `RetiredIsFinal`, `MatchesAreExact`,
`RescanAddsNothing` and `NothingOverlooked`. Nobody locks what he read, so the
induction rests on what nobody updates: the key and owner of an identifier and
the ends and kind of an edge (`Keeps`). An answer given is therefore still
justified by rows that are there, live or freed (`AnswersHold`), and the unique
indexes (`Storable`) settle what two of them may say. For a scan in progress
(`ScansHold`), the rows it is about to insert name keys of the chunks behind it
with owners that were theirs together at some moment of the scan, repeat nothing
that had been recorded before it began, and leave out nothing of those chunks
that has not been freed since. A scan it counts as earlier has ended
(`AfterHolds`), and `owned` covers every holding while a scan runs
(`OwnedHolds`). The assumptions are the shapes of calls, text and inventory and
that mentions recorded before the start do not repeat each other
(`RecollectionsAssumption`).

`KnowledgeProofs` proves of `KnowledgeIngest` `SecretsWereCleared`,
`AttemptsTellTheTruth`, `OneCurrentVersion`, `VersionsDifferInText` and `TypeOK`
for any number of ingests, contents, classifications and rulings. An ingest decides by rows that
are several statements old. The invariant says what of them still holds: the
document and version it found are rows of one document and its text differs
(`ReadsHold`), what its gate cleared was ruled on for those bytes and rulings
are only made on what was turned away (`GateHolds`, `RulingsHold`), an attempt
and the version it names refer to each other (`MadeHolds`), and version numbers
differ within a document (`NumbersDiffer`, the constraint
`uq_document_version_no`). That constraint is what carries `OneCurrentVersion`:
an ingest inserts number n + 1 after reading n, so if it is not refused, the
version it displaces is still the last one and the current one (`CommitOnTop`).

Of `DocumentChunking` it proves `NothingIsLost` and `FiledUnderItsHeading` for every
document over every set of lines. A document is cut afresh in each state, so
these are theorems about the operators (`ChunksKeepAll`, `ChunksAreFiled`), and
`GrowSpec` contributes that the document is a sequence of lines
(`DocumentIsTyped`). The library's induction theorems cannot be used, as they
take an operator; `Upwards` states what is needed of them about a set, and is
proved from a least counterexample. With it each walk is first shown to be the
function it is written as (`SectionsRun` and its likes), then to keep an
invariant. Two things hold of the list that every pass hands on. It is a
`Chain`: each span begins no further back than the overlap from where the list
had come, does not end before that, and skips newlines only; so nothing else is
in no span (`ChainCovers`). And each of its spans is `Right`: its path is what is
in force at every line it touches. The passes differ in how they keep the two.
A heading ends the section it finds and files the next under what it leaves in
force (`SectionContinues`, `LabelDescends`); a blank line that ends a paragraph
is a newline (`BlankLineIsANewline`), and so is all that has no text
(`ChainAdds`); a paragraph lengthens the buffer, or the next buffer steps back
(`GatherContinues`); the pieces of a chunk lie end to end and the first still
reaches past the overlap (`PiecesTile`, `AllBoundedHold`); an undersized chunk
under the same path may lengthen the one before it because no heading lies
between them (`SpanOfBothIsRight`); stripping removes newlines only
(`StrippedHolds`). It also follows that a text with a visible character has a
chunk, so the fallback at the end of `chunk_document` is never taken. The
assumptions are `SizesAssumption`, whose one condition is that the overlap is
within the ceiling - with one larger, a piece of the next chunk could end before
the last one had; the only values in use are the defaults, 80 and 1024 tokens -
and `LinesAssumption`: a line is blank if and only if it is empty, which
`normalise` sees to by stripping line ends, and a heading has a depth.

Of `KnowledgeRetrieval` it proves `NothingForbidden`, `CompleteMeansNearest`,
`FusionKeepsTheOrder` and `SearchTypeOK` for any corpus, distances, scores, roles,
settings and number of changes. The lists are sorted by rank, so what they hold
and in which order is a matter of the sets they sort (`Sorted`,
`AboveOrders`, `LeadersAreAbove`). The search invariant says of what the caller
has that some statement was permitted to read it (`Permitted`), that a fused
list is faithful to both legs (`Fused`), that on the way to the exhaustive stage
fewer than k passages are known, in order, and on a corpus that stands there are
more (`Short`), and that on such a corpus the diagnostics tell the truth about
the dense list (`Told`). What the vector's copy of the band permits as well is
an invariant beside it (`Vouched`): the text search reads last, so what it found
is still permitted by both copies at the end, and what the exhaustive ranking
found is as long as the corpus stands. `CompleteMeansNearest` has
a condition that this proof brought out. `_eligible_population` counts no
further than `exact_max_rows` + 1, so with a ceiling below k - 1 its count cannot
exceed a partial list and the list passes for all there is
(`CompleteAtAnyCeiling`, refuted in `retrieval_short.cfg`): what the index alone
answered is the nearest only if the count reaches k (`CountReaches`); what the
exhaustive stage answered always is. The assumption is `DeploymentAssumption`: finitely
many passages, numbered, and positive limits.

`ProxmoxReadProofs` proves `AnswersAreAboutTheTarget`, `InventoriesAreWhole`,
`OnlyTheUnreachableIsRetried` and `TypeOK` for any cluster, any identifiers,
timeouts and attempts and any number of changes during a read. The properties
speak of a conversation that is over; the invariant says what each stage has
established for the next. Nothing is sent before the identifier was found to be
this instance's (`Directed`), the node that is asked is the one the identifier
names and the number is the identifier's (`Located`), and for the storage tool
the nodes answered for and the nodes still to be asked make up those that were
online (`Collected`); an attempt that is going on follows only failures that may
be retried (`Retried`). What an answer then says is a matter of the projections
(`AnswerRight`). The assumption is `ProxmoxAssumption`: finitely many nodes and
positive limits.

Only model-checked:

* liveness (`EveryRequestCloses`, `EveryRequestIsAnswered`): fairness and
  ENABLED are out of the prover's reach;
* the counterexamples, which are about single behaviours.

## Left out of these modules

Audit records and log lines; the wording of errors; the contents of requests,
results and envelopes (an envelope either recomputes or does not); sequence
numbers of the event history; the import rules a declaration must pass (a
contract is a value that is equal or not); the read-only catalogue and every
other GET that only reads rows.

Of the CMDB: attributes of an asset other than its lifecycle, a fact's
confidence and evidence, and the merging of assets, which the code declares and
never performs. Of ingest: the screen's patterns (a content says which matches
it holds), findings that do not block, and the provider's own failures beyond
"it did not embed". Of retrieval: query embedding, ranking inside the database
(a distance and a score are given per passage), and the audit of a search. Of
the Proxmox adapter: field names, units and the projections' layout;
their common rule - what routes must be there, what does not may be unknown - is
kept.

Not modelled: the reconciliation of indeterminate invocations and event
numbering; `value_screen.py` (pattern detectors over one value); registering an
embedding space and choosing the default; the embedding provider's and the model
client's HTTP; authentication, health, configuration, logging, schemas and
migrations, which hold no protocol state of their own.

Some facts about the code that the modules build in and a reader may not expect:

* `create_asset` ignores the `lifecycle_state` of its payload; retiring an asset
  leaves its identifiers live, so a scan still links to it.
* An HTTP timeout is one of silence per phase: a response that trickles outlives
  it, and the dispatcher's `wait_for` and the adapter's own budget then race.
* In the projections `isdigit()` accepts characters `int()` does not, and
  `json.loads` reads NaN; both end as an unhandled error, not as "unknown".
* A call that overrides k falls back to the built-in lexical limit and fusion
  constant (`_with_k` copies the rest only); the request schema always has a k,
  so the deployment's values for these are never used through the API.
* The source's band and the vector's copy of it are said to be both required.
  The count, the exhaustive ranking and the text search ask both; the statement
  over the approximate index asks the source only (`_ELIGIBILITY`), so a copy
  left behind by an ingest hides a passage from some searches and not from
  others. `NothingForbidden` says what does hold of each leg.
* A refusal is a row too. When no row can record the target - an asset the
  inventory does not have, an asset together with a reference - the caller gets
  the constraint's error instead of the refusal, also for a prohibition.
* A pattern of the screen may match across lines; the chunker's model keeps a
  hit within one. Of visible characters the claim is the same: each belongs to
  the part of the match on its line, and a chunk that touches a part touches the
  match.
* The exhaustive stage orders by distance without an id, so passages at equal
  distance may fall on either side of the limit.
* `build_answer` has no caller in the repository; it is modelled as the code
  that any caller would run.
* `exact_max_rows` is documented as the size beyond which a call answers
  degraded. It also bounds the count by which a short answer is judged complete,
  so it has to be at least k - 1, which nothing checks or says.
* Submitting a document's current bytes to another space is a no-op, so they are
  never embedded there.

## Plan

Done: the execution framework and its lifecycle, approvals, the registry, the
requests, the CMDB with mentions, ingest with the chunker, retrieval, and the
Proxmox reads. Next, in this order:

1. `EventHistory`: `append_event` and `next_sequence` under concurrent
   transitions (the gate event is appended before the row lock is taken), with
   the reconciliation of indeterminate invocations, which appends a judgement
   beside a terminal row.
2. `EmbeddingSpace`: registration, the default and its switch, composed with
   ingest (`set_default` on the space that is the default already leaves none),
   and the index names, which `_create_partition` cuts to a prefix of the space
   key while `CREATE INDEX IF NOT EXISTS` skips a name that exists.
3. `ToolDeclaration`: the import rules of `tools/contract.py` and the choice of
   a version in `get_tool`, as operators checked against what the guide says.
4. `RequestTransaction`: which audit records survive which rollback.
