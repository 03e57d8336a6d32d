------------------------- MODULE InvocationRequest -------------------------
(***************************************************************************)
(* POST /tool-invocations: ToolInvocationService.create with the eight     *)
(* gates of ToolPolicyEngine, the idempotency key, the record of what was  *)
(* decided, and the route around it (services/tools/invocation.py,         *)
(* tools/policy.py, api/routes/tool_invocations.py).                       *)
(*                                                                         *)
(* A request's own transaction reads the registration, evaluates gates 1   *)
(* to 4, reads the target, evaluates the rest, looks its key up, inserts   *)
(* one tool_invocation row and commits; only then does the route check the *)
(* justification, run an inline tool and answer.  Each of these is a step, *)
(* so that retries, administrators and retirements come in between.  What  *)
(* becomes of an accepted row is ToolExecution's and ToolApproval's: here  *)
(* EXECUTING stands for everything after the claim.                        *)
(***************************************************************************)
EXTENDS Naturals, ToolVocabulary

CONSTANTS
  Requests,    \* POSTs; a retry is another request with the same body
  Bodies,      \* what may be posted, with the roles of who posts it
  Tools,       \* tool versions that may be named
  Definition,  \* Definition[t]: the declaration, for the bound ones
  Registered,  \* those with a tool_registration row
  AssetType,   \* AssetType[a], for the assets in the inventory
  Invalid,     \* an input the tool's schema refuses
  Faulty,      \* an input whose validation raises something else
  Administered,  \* tools an administrator or a deploy changes meanwhile
  MaxChanges,  \* bound on what administrators and the CMDB change meanwhile
  None

Bound == DOMAIN Definition
Inventory == DOMAIN AssetType
ChangeClasses == {"CLASS_2_LOW_RISK_CHANGE", "CLASS_3_HIGH_RISK_CHANGE"}
InlineClasses == {"CLASS_0_INFORMATION", "CLASS_1_READ_ONLY"}
Roles == {"viewer", "operator", "approver", "admin"}

(* Shape of the bodies (InvocationCreate, TargetSpec) and declarations that *)
(* pass the import rules: a change class declares approval.                *)
ASSUME RequestAssumption ==
  /\ Bound \cup Registered \cup Administered \subseteq Tools
  /\ \A b \in Bodies :
       /\ b.tool \in Tools /\ b.roles \subseteq Roles
       /\ b.ref \in BOOLEAN /\ b.justified \in BOOLEAN
  /\ \A t \in Bound :
       /\ Definition[t].required_roles \subseteq Roles
       /\ Definition[t].approval \in BOOLEAN
       /\ Definition[t].class \in ChangeClasses => Definition[t].approval
  /\ MaxChanges \in Nat /\ Invalid # Faulty /\ None \notin Requests \cup Inventory

VARIABLES
  lifecycle,  \* tool_registration.lifecycle_state, "ABSENT" without a row
  retired,    \* assets of the inventory that are no longer ACTIVE
  pc,         \* where each request is
  body,       \* what it posted
  reason,     \* the decision's reason so far, None while no gate refused
  draft,      \* the row its transaction has inserted and not committed
  rows,       \* rows[r]: the committed row created by request r
  returned,   \* the invocation create() returned: whose row, and its state then
  answer,     \* what the client received
  changes     \* how many changes of tools and assets there were

vars == <<lifecycle, retired, pc, body, reason, draft, rows, returned, answer, changes>>

kind(b) == IF b.asset # None THEN "ASSET"
           ELSE IF b.ref THEN "EXTERNAL_REF" ELSE "NONE"

(* build_envelope: what the digest is taken over.                          *)
Envelope(b) == [tool |-> b.tool, input |-> b.input, asset |-> b.asset, ref |-> b.ref]

(* _REFUSAL_ERRORS                                                         *)
RefusalError(why) ==
  CASE why = "SCHEMA_INVALID" -> "ToolInputError"
    [] why \in {"TARGET_INVALID", "TARGET_OUT_OF_SCOPE", "TARGET_RETIRED"} ->
         "InvalidTargetError"
    [] why \in {"TOOL_DISABLED", "TOOL_RETIRED"} -> "ToolDisabledError"
    [] why = "ROLE_INSUFFICIENT" -> "ToolAuthorizationError"
    [] why = "CAPABILITY_NOT_BOUND" -> "ToolNotFoundError"
    [] why = "PROHIBITED_CAPABILITY" -> "ProhibitedCapabilityError"
    [] why = "INTERNAL_ERROR" -> "PolicyEngineFailureError"
    [] OTHER -> "ToolPolicyDeniedError"

RefusalReasons ==
  {"SCHEMA_INVALID", "TARGET_INVALID", "TARGET_OUT_OF_SCOPE", "TARGET_RETIRED",
   "TOOL_DISABLED", "TOOL_RETIRED", "ROLE_INSUFFICIENT", "CAPABILITY_NOT_BOUND",
   "PROHIBITED_CAPABILITY", "INTERNAL_ERROR", "ENVIRONMENT_RESTRICTED"}

(* effective_roles: ROLE_IMPLICATIONS                                      *)
effective_roles(held) ==
  held \cup (IF held # {} THEN {"viewer"} ELSE {})
       \cup (IF "admin" \in held THEN Roles ELSE {})

-----------------------------------------------------------------------------
(* The gates, in order                                                     *)

(* Mutant of Prerequisites: the schema is checked before the prohibition.  *)
PrerequisitesSchemaFirst(b, state) ==
  IF b.tool \notin Bound THEN "CAPABILITY_NOT_BOUND"
  ELSE IF state = "RETIRED" THEN "TOOL_RETIRED"
  ELSE IF state = "DISABLED" THEN "TOOL_DISABLED"
  ELSE IF b.input = Faulty THEN "INTERNAL_ERROR"
  ELSE IF b.input = Invalid THEN "SCHEMA_INVALID"
  ELSE IF Definition[b.tool].prohibited THEN "PROHIBITED_CAPABILITY"
  ELSE None

(* Gates 1 to 4.                                                           *)
Prerequisites(b, state) ==
  IF b.tool \notin Bound THEN "CAPABILITY_NOT_BOUND"
  ELSE IF state = "RETIRED" THEN "TOOL_RETIRED"
  ELSE IF state = "DISABLED" THEN "TOOL_DISABLED"
  ELSE IF Definition[b.tool].prohibited THEN "PROHIBITED_CAPABILITY"
  ELSE IF b.input = Faulty THEN "INTERNAL_ERROR"
  ELSE IF b.input = Invalid THEN "SCHEMA_INVALID"
  ELSE None

(* Gate 5.                                                                 *)
check_target(b) ==
  LET d == Definition[b.tool] IN
  IF kind(b) # d.target_type THEN "TARGET_INVALID"
  ELSE IF d.target_type # "ASSET" THEN None
  ELSE IF b.asset \notin Inventory THEN "TARGET_INVALID"
  ELSE IF b.asset \in retired THEN "TARGET_RETIRED"
  ELSE IF AssetType[b.asset] \notin d.target_asset_types THEN "TARGET_OUT_OF_SCOPE"
  ELSE None

(* Gates 5 to 8; gates 1 to 4 are evaluated again on the same context and  *)
(* pass again.  Gate 8 never denies.                                       *)
Evaluate(b) ==
  LET d == Definition[b.tool] IN
  IF check_target(b) # None THEN check_target(b)
  ELSE IF ~(d.required_roles \subseteq effective_roles(b.roles))
    THEN "ROLE_INSUFFICIENT"
  ELSE IF ~d.environment_allowed THEN "ENVIRONMENT_RESTRICTED"
  ELSE "ALLOWED"

-----------------------------------------------------------------------------
(* The row                                                                 *)

(* The columns copied from the declaration; an unbound tool has none.      *)
policy(t) == IF t \in Bound
               THEN [class |-> Definition[t].class, approval |-> Definition[t].approval]
               ELSE [class |-> "PROHIBITED", approval |-> FALSE]

(* _persist and _advance.                                                  *)
Accepted(b) ==
  [key |-> b.key, digest |-> Envelope(b), class |-> policy(b.tool).class,
   approval |-> policy(b.tool).approval, decision |-> "ALLOW", reason |-> "ALLOWED",
   kind |-> kind(b), asset |-> b.asset, ref |-> b.ref,
   state |-> IF policy(b.tool).approval THEN "AWAITING_APPROVAL" ELSE "READY"]

(* Mutant of Rejected: a refusal keeps the idempotency key it came with.   *)
RejectedKeepsKey(b, why) ==
  [key |-> b.key, digest |-> None, class |-> policy(b.tool).class,
   approval |-> policy(b.tool).approval, decision |-> "DENY", reason |-> why,
   kind |-> kind(b), asset |-> b.asset, ref |-> b.ref, state |-> "REJECTED"]

(* _reject: no key, no envelope.                                           *)
Rejected(b, why) ==
  [key |-> None, digest |-> None, class |-> policy(b.tool).class,
   approval |-> policy(b.tool).approval, decision |-> "DENY", reason |-> why,
   kind |-> kind(b), asset |-> b.asset, ref |-> b.ref, state |-> "REJECTED"]

NewRow(r) == IF reason[r] = "ALLOWED" THEN Accepted(body[r])
             ELSE Rejected(body[r], reason[r])

(* The CHECK constraints of tool_invocation a request can run into, and    *)
(* the foreign key on asset.                                               *)
Storable(row) ==
  /\ (row.kind = "ASSET") <=> (row.asset # None)
  /\ (row.kind = "EXTERNAL_REF") <=> row.ref
  /\ row.class \in ChangeClasses => row.approval
  /\ row.class \in ChangeClasses /\ row.decision = "ALLOW" => row.key # None
  /\ row.asset # None => row.asset \in Inventory

(* Those whose committed row holds the key (uq_tool_invocation_idem).      *)
Holders(key) ==
  {q \in Requests : /\ key # None /\ rows[q] # None
                    /\ rows[q].key = key /\ rows[q].state # "SUPERSEDED"}

(* Mutant of Claimants: the key has no unique index.                       *)
ClaimantsUnindexed(key) == {}

(* Open transactions that have inserted the key: the index makes others    *)
(* wait for them.                                                          *)
Claimants(key) ==
  {q \in Requests : key # None /\ draft[q] # None /\ draft[q].key = key}

-----------------------------------------------------------------------------
RowStates == {"AWAITING_APPROVAL", "READY", "EXECUTING", "CANCELLED", "REJECTED"}
Row ==
  [key : {b.key : b \in Bodies} \cup {None},
   digest : {Envelope(b) : b \in Bodies} \cup {None},
   class : {policy(t).class : t \in Tools}, approval : BOOLEAN,
   decision : GateDecision, reason : RefusalReasons \cup {"ALLOWED"},
   kind : {"NONE", "ASSET", "EXTERNAL_REF"},
   asset : {b.asset : b \in Bodies}, ref : BOOLEAN, state : RowStates]
AnswerClasses ==
  {RefusalError(why) : why \in RefusalReasons}
  \cup {"Invocation", "IdempotencyConflictError", "ValidationError",
        "IntegrityError", "lost"}
ASSUME NoneAssumption == None \notin Row /\ None \notin RefusalReasons

TypeOK ==
  /\ lifecycle \in [Tools -> ToolLifecycle \cup {"ABSENT"}]
  /\ retired \subseteq Inventory /\ changes \in 0..MaxChanges
  /\ pc \in [Requests -> {"new", "resolve", "key", "insert", "commit", "respond",
                          "inline", "answered"}]
  /\ body \in [Requests -> Bodies \cup {None}]
  /\ reason \in [Requests -> RefusalReasons \cup {"ALLOWED", None}]
  /\ draft \in [Requests -> Row \cup {None}]
  /\ rows \in [Requests -> Row \cup {None}]
  /\ \A r \in Requests :
       /\ draft[r] # None => Storable(draft[r])
       /\ rows[r] # None => Storable(rows[r])
       /\ returned[r] = None \/ returned[r] \in [row : Requests, state : RowStates]
       /\ answer[r] = None
            \/ answer[r] \in [class : AnswerClasses, row : Requests \cup {None}]
       /\ answer[r] # None <=> pc[r] = "answered"
       /\ draft[r] # None => pc[r] = "commit"

Init ==
  /\ lifecycle = [t \in Tools |-> IF t \in Registered THEN "ACTIVE" ELSE "ABSENT"]
  /\ retired = {} /\ changes = 0
  /\ pc = [r \in Requests |-> "new"]
  /\ body = [r \in Requests |-> None]
  /\ reason = [r \in Requests |-> None]
  /\ draft = [r \in Requests |-> None]
  /\ rows = [r \in Requests |-> None]
  /\ returned = [r \in Requests |-> None]
  /\ answer = [r \in Requests |-> None]

Goto(r, l) == pc' = [pc EXCEPT ![r] = l]

Reply(r, class, row) ==
  /\ Goto(r, "answered")
  /\ answer' = [answer EXCEPT ![r] = [class |-> class, row |-> row]]

(* The registration is read and gates 1 to 4 are evaluated.  A name without *)
(* a row is answered at once and leaves no record.                         *)
Receive(r) ==
  /\ pc[r] = "new"
  /\ \E b \in Bodies :
       /\ body' = [body EXCEPT ![r] = b]
       /\ IF lifecycle[b.tool] = "ABSENT"
            THEN Reply(r, "ToolNotFoundError", None) /\ UNCHANGED reason
            ELSE LET why == Prerequisites(b, lifecycle[b.tool]) IN
                 /\ reason' = [reason EXCEPT ![r] = why]
                 /\ Goto(r, IF why = None THEN "resolve" ELSE "insert")
                 /\ UNCHANGED answer
  /\ UNCHANGED <<lifecycle, retired, draft, rows, returned, changes>>

(* _resolve_target, and evaluate() over what it found.                     *)
ResolveTarget(r) ==
  /\ pc[r] = "resolve"
  /\ reason' = [reason EXCEPT ![r] = Evaluate(body[r])]
  /\ Goto(r, IF reason'[r] = "ALLOWED" THEN "key" ELSE "insert")
  /\ UNCHANGED <<lifecycle, retired, body, draft, rows, returned, answer, changes>>

SameRequest(r, q) == rows[q].digest = Envelope(body[r])

(* _existing_for_key: nothing, the original, or a conflict.                *)
LookUpKey(r) ==
  LET holders == Holders(body[r].key) IN
  /\ pc[r] = "key"
  /\ \/ /\ holders = {}
        /\ Goto(r, "insert")
        /\ UNCHANGED <<returned, answer>>
     \/ \E q \in holders :
          /\ SameRequest(r, q)
          /\ returned' = [returned EXCEPT ![r] = [row |-> q, state |-> rows[q].state]]
          /\ Goto(r, "commit")
          /\ UNCHANGED answer
     \/ \E q \in holders :
          /\ ~SameRequest(r, q)
          /\ Reply(r, "IdempotencyConflictError", None)
          /\ UNCHANGED returned
  /\ UNCHANGED <<lifecycle, retired, body, reason, draft, rows, changes>>

(* The INSERT with the transitions that follow it, all in one transaction. *)
Insert(r) ==
  LET row == NewRow(r) IN
  /\ pc[r] = "insert" /\ Storable(row)
  /\ Holders(row.key) = {} /\ Claimants(row.key) = {}
  /\ draft' = [draft EXCEPT ![r] = row]
  /\ returned' = [returned EXCEPT ![r] = [row |-> r, state |-> row.state]]
  /\ Goto(r, "commit")
  /\ UNCHANGED <<lifecycle, retired, body, reason, rows, answer, changes>>

(* A constraint refuses the row; create() does not handle IntegrityError.  *)
InsertFails(r) ==
  LET row == NewRow(r) IN
  /\ pc[r] = "insert"
  /\ ~Storable(row) \/ Holders(row.key) # {}
  /\ Reply(r, "IntegrityError", None)
  /\ UNCHANGED <<lifecycle, retired, body, reason, draft, rows, returned, changes>>

Commit(r) ==
  /\ pc[r] = "commit"
  /\ rows' = IF draft[r] = None THEN rows ELSE [rows EXCEPT ![r] = draft[r]]
  /\ draft' = [draft EXCEPT ![r] = None]
  /\ Goto(r, "respond")
  /\ UNCHANGED <<lifecycle, retired, body, reason, returned, answer, changes>>

(* After the commit: the refusal is raised, the justification is asked for, *)
(* an inline tool that was READY is run, and the caller is answered.       *)
Respond(r) ==
  LET class == rows[returned[r].row].class IN
  /\ pc[r] = "respond"
  /\ \/ /\ reason[r] # "ALLOWED"
        /\ Reply(r, RefusalError(reason[r]), None)
     \/ /\ reason[r] = "ALLOWED" /\ class \in ChangeClasses /\ ~body[r].justified
        /\ Reply(r, "ValidationError", None)
     \/ /\ reason[r] = "ALLOWED" /\ (class \in ChangeClasses => body[r].justified)
        /\ IF class \in InlineClasses /\ returned[r].state = "READY"
             THEN Goto(r, "inline") /\ UNCHANGED answer
             ELSE Reply(r, "Invocation", returned[r].row)
  /\ UNCHANGED <<lifecycle, retired, body, reason, draft, rows, returned, changes>>

(* run_inline: the claim succeeds only while the row is READY.             *)
RunInline(r) ==
  LET q == returned[r].row IN
  /\ pc[r] = "inline"
  /\ rows' = IF rows[q].state = "READY"
               THEN [rows EXCEPT ![q].state = "EXECUTING"] ELSE rows
  /\ Reply(r, "Invocation", q)
  /\ UNCHANGED <<lifecycle, retired, body, reason, draft, returned, changes>>

(* Mutant of Lose: the session of a cancelled request is left open.        *)
LoseLeavesSession(r) ==
  /\ pc[r] \notin {"new", "answered"}
  /\ Reply(r, "lost", None)
  /\ UNCHANGED <<lifecycle, retired, body, reason, draft, rows, returned, changes>>

(* The connection, the task or the process is lost: an open transaction is *)
(* rolled back, a committed one stays, and the client learns neither.      *)
Lose(r) ==
  /\ pc[r] \notin {"new", "answered"}
  /\ draft' = [draft EXCEPT ![r] = None]
  /\ Reply(r, "lost", None)
  /\ UNCHANGED <<lifecycle, retired, body, reason, rows, returned, changes>>

-----------------------------------------------------------------------------
(* Everyone else                                                           *)

CountChange == changes < MaxChanges /\ changes' = changes + 1

(* disable and enable, and the retirement of what a deploy dropped.        *)
SwitchTool(t) ==
  /\ CountChange
  /\ \E to \in ToolLifecycle :
       /\ <<lifecycle[t], to>> \in {<<"ACTIVE", "DISABLED">>, <<"DISABLED", "ACTIVE">>,
                                   <<"ACTIVE", "RETIRED">>}
       /\ lifecycle' = [lifecycle EXCEPT ![t] = to]
  /\ UNCHANGED <<retired, pc, body, reason, draft, rows, returned, answer>>

RetireAsset(a) ==
  /\ CountChange
  /\ a \notin retired
  /\ retired' = retired \cup {a}
  /\ UNCHANGED <<lifecycle, pc, body, reason, draft, rows, returned, answer>>

MoveRow(r, from, to) ==
  /\ rows[r] # None /\ rows[r].state \in from
  /\ rows' = [rows EXCEPT ![r].state = to]
  /\ UNCHANGED <<lifecycle, retired, pc, body, reason, draft, returned, answer, changes>>

Approve(r) == MoveRow(r, {"AWAITING_APPROVAL"}, "READY")
Cancel(r) == MoveRow(r, {"AWAITING_APPROVAL", "READY"}, "CANCELLED")
Claim(r) == MoveRow(r, {"READY"}, "EXECUTING")

Step(r) == \/ ResolveTarget(r) \/ LookUpKey(r) \/ Insert(r) \/ InsertFails(r)
           \/ Commit(r) \/ Respond(r) \/ RunInline(r)

Next ==
  \/ \E r \in Requests : \/ Receive(r) \/ Step(r) \/ Lose(r)
                         \/ Approve(r) \/ Cancel(r) \/ Claim(r)
  \/ \E t \in Administered : SwitchTool(t)
  \/ \E a \in Inventory : RetireAsset(a)

Spec == Init /\ [][Next]_vars

(* Every statement a request has begun is bounded by the database.         *)
FairSpec == Spec /\ \A r \in Requests : WF_vars(Step(r))

-----------------------------------------------------------------------------
(* Properties                                                              *)

Answered(r, class) == answer[r] # None /\ answer[r].class = class

(* An idempotency key means one request for ever: however many retries race *)
(* and whatever is lost, at most one accepted row holds it, and whoever is *)
(* given an invocation under a key asked for exactly what that row records *)
(* (_existing_for_key, uq_tool_invocation_idem).                           *)
KeyMeansOneRequest ==
  /\ \A p, q \in Requests :
       rows[p] # None /\ rows[q] # None /\ rows[p].key = rows[q].key /\ rows[p].key # None
         => p = q
  /\ \A r \in Requests : Answered(r, "Invocation") =>
       rows[answer[r].row] # None /\ rows[answer[r].row].digest = Envelope(body[r])

(* The strengthening under which KeyMeansOneRequest is inductive.          *)
Domains ==
  /\ DOMAIN pc = Requests /\ DOMAIN body = Requests /\ DOMAIN reason = Requests
  /\ DOMAIN draft = Requests /\ DOMAIN rows = Requests
  /\ DOMAIN returned = Requests /\ DOMAIN answer = Requests

(* Posted bodies are bodies, and rows are rows: none is SUPERSEDED.        *)
Columns ==
  \A r \in Requests :
    /\ pc[r] # "new" => body[r] \in Bodies
    /\ rows[r] \in Row \cup {None} /\ draft[r] \in Row \cup {None}

(* How far a request is decides what it has written.                       *)
Progress ==
  \A r \in Requests :
    /\ draft[r] # None => pc[r] = "commit" /\ rows[r] = None
    /\ pc[r] \in {"new", "resolve", "key", "insert"} => rows[r] = None
    /\ answer[r] # None => pc[r] = "answered"
    /\ pc[r] = "key" => reason[r] = "ALLOWED"
    /\ pc[r] = "insert" => reason[r] \in RefusalReasons \cup {"ALLOWED"}
    /\ draft[r] # None => draft[r] = NewRow(r)

(* A key is in at most one row, committed or not.                          *)
KeysDiffer ==
  \A p, q \in Requests :
    \A x \in {rows[p], draft[p]}, y \in {rows[q], draft[q]} :
      x # None /\ y # None /\ x.key = y.key /\ x.key # None => p = q

(* What create() is about to return records what was asked for.            *)
ReturnsWhatWasAsked ==
  \A r \in Requests :
    LET q == returned[r].row IN
    /\ pc[r] = "commit" /\ reason[r] = "ALLOWED" /\ draft[r] = None =>
         q \in Requests /\ rows[q] # None /\ rows[q].digest = Envelope(body[r])
    /\ pc[r] = "commit" /\ reason[r] = "ALLOWED" /\ draft[r] # None => q = r
    /\ pc[r] \in {"respond", "inline"} /\ (reason[r] = "ALLOWED" \/ pc[r] = "inline") =>
         q \in Requests /\ rows[q] # None /\ rows[q].digest = Envelope(body[r])

AnswersWhatWasAsked ==
  \A r \in Requests : Answered(r, "Invocation") =>
    /\ answer[r].row \in Requests /\ rows[answer[r].row] # None
    /\ rows[answer[r].row].digest = Envelope(body[r])

IInv == Domains /\ Columns /\ Progress /\ KeysDiffer
        /\ ReturnsWhatWasAsked /\ AnswersWhatWasAsked

(* A refusal, a failure or a lost attempt does not burn a key: a conflict  *)
(* is answered only when an accepted request holds the key for something   *)
(* else (_reject: "the caller should be able to fix their request").       *)
ConflictMeansAccepted ==
  \A r \in Requests :
    Answered(r, "IdempotencyConflictError") \/
    (Answered(r, "IntegrityError") /\ Storable(NewRow(r)))
      => \E q \in Holders(body[r].key) :
           rows[q].decision = "ALLOW"
           /\ (Answered(r, "IdempotencyConflictError") => ~SameRequest(r, q))

Forbidden(b) == b.tool \in Bound /\ Definition[b.tool].prohibited

(* Can a row record this target? One at most, and an asset of the inventory. *)
Recordable(b) == b.asset # None => ~b.ref /\ b.asset \in Inventory

(* What a prohibited tool may answer to a body: neither the roles nor the  *)
(* input appear here, and the target only in whether a row can record it.  *)
ProhibitionAnswers(b) ==
  {"lost"} \cup
    IF b.tool \notin Registered THEN {"ToolNotFoundError"}
    ELSE IF Recordable(b) THEN {"ProhibitedCapabilityError", "ToolDisabledError"}
    ELSE {"IntegrityError"}

(* A prohibited tool answers everyone alike, whatever their roles and their *)
(* input: by its prohibition or its being out of service, or, for a target *)
(* that no row can record, by the constraint that refuses the row; and what *)
(* is recorded of it is the first of these (gate 3 before gates 4 to 6,    *)
(* _reject).                                                               *)
ProhibitionIsUniform ==
  \A r \in Requests : pc[r] # "new" /\ Forbidden(body[r]) =>
    /\ answer[r] # None => answer[r].class \in ProhibitionAnswers(body[r])
    /\ rows[r] # None =>
         rows[r].reason \in {"PROHIBITED_CAPABILITY", "TOOL_DISABLED", "TOOL_RETIRED"}

(* No request waits for ever, though the unique index makes it wait for    *)
(* another's transaction, which may be lost.                               *)
EveryRequestIsAnswered ==
  \A r \in Requests : pc[r] # "new" ~> answer[r] # None

(* _existing_for_key: "the caller is retrying a request whose response they *)
(* lost, so return the original".                                          *)
ReplayReturnsOriginal ==
  \A r, q \in Requests :
    Answered(r, "IntegrityError") /\ reason[r] = "ALLOWED" /\ q \in Holders(body[r].key)
      => ~SameRequest(r, q)

(* tool-framework.md: "A denied request still creates an invocation row, in *)
(* REJECTED".                                                              *)
RefusalIsRecorded ==
  \A r \in Requests :
    reason[r] \in RefusalReasons /\ answer[r] # None =>
      answer[r].class = "lost" \/ rows[r] # None

(* invocation.py:92-97: a prohibition has an error class of its own, and    *)
(* everyone "receive[s] this identical answer". A target that no row can   *)
(* record fails the INSERT of the refusal, and the caller gets that error. *)
ProhibitionIsSaid ==
  \A r \in Requests :
    answer[r] # None /\ reason[r] = "PROHIBITED_CAPABILITY" =>
      answer[r].class \in {"lost", "ProhibitedCapabilityError"}

=============================================================================
