---------------------------- MODULE AssetMentions ----------------------------
(***************************************************************************)
(* Links from the text of a document version to the assets it names:       *)
(* services/knowledge/mentions.py and its routes, composed with the        *)
(* requests of CmdbIdentity that register, free and retire meanwhile.      *)
(*                                                                         *)
(* A scan is one READ COMMITTED transaction: it reads what earlier scans   *)
(* recorded (BeginScan), asks for the owners of each chunk's words, one    *)
(* query per chunk (ScanChunk), and inserts its rows (CommitScan). Nothing *)
(* but the rows read at the start keeps two scans apart: the table has no  *)
(* unique index.                                                           *)
(***************************************************************************)
EXTENDS CmdbIdentity

CONSTANTS
    Texts,      \* the version's chunks in order, each a sequence of words
    Unfit,      \* words too short, or of digits only, to name an asset
    Associations, \* the chunk and asset a person may associate
    Recollections \* the mentions the system may start from

VARIABLES
    mentions,   \* knowledge_asset_mention rows, told apart by the request they are by
    owned       \* history: the owners each word has had during the scans going on

allvars == <<vars, mentions, owned>>

Chunks == DOMAIN Texts

ASSUME TextsAssumption == Texts \in Seq(Seq(Spelling))

-----------------------------------------------------------------------------
(* Candidates *)

MENTIONABLE_NAMESPACES ==
    {"serial", "smbios:uuid", "mac", "proxmox:uuid", "docker:container-id", "hostname", "fqdn"}

\* candidates: a word under every mentionable namespace's own normaliser.
Candidates ==
    [c \in Chunks |->
        {[ns |-> ns, val |-> normalise([ns |-> ns, val |-> Texts[c][i]])] :
            ns \in MENTIONABLE_NAMESPACES,
            i \in {j \in DOMAIN Texts[c] : Texts[c][j].core \notin Unfit}}]

Words == UNION {Candidates[c] : c \in Chunks}

\* MentionCandidate.surface: the first word of the chunk with this normal form.
Surface(c, key) ==
    LET spelt == {i \in DOMAIN Texts[c] :
                     normalise([ns |-> key.ns, val |-> Texts[c][i]]) = key.val}
    IN  Texts[c][CHOOSE i \in spelt : \A j \in spelt : i <= j]

\* Mutant: a retired identifier still identifies.
EverOwners(key) ==
    {identifiers[i].asset : i \in {n \in DOMAIN identifiers : KeyOf(identifiers[n]) = key}}

\* _match: whoever holds the value now; not whether the asset itself is live.
Owners(key) ==
    {identifiers[i].asset : i \in {n \in LiveIdentifiers : KeyOf(identifiers[n]) = key}}

\* One owner resolves a mention, more are recorded as ambiguous.
Match(c, key, r) ==
    LET owners == Owners(key)
    IN  [chunk |-> c, text |-> Surface(c, key), ns |-> key.ns, source |-> "IDENTIFIER_MATCH",
         asset |-> IF \E a \in owners : owners = {a} THEN CHOOSE a \in owners : TRUE ELSE NULL,
         candidates |-> owners, by |-> r]

Explicit(c, a, r) ==
    [chunk |-> c, text |-> NULL, ns |-> NULL, source |-> "EXPLICIT", asset |-> a,
     candidates |-> {a}, by |-> r]

\* CHECK resolution_matches_asset and ambiguous_has_candidates.
MentionChecks(m) == m.asset = NULL <=> Cardinality(m.candidates) > 1

-----------------------------------------------------------------------------
(* Scans *)

Matched == {m \in mentions : m.source = "IDENTIFIER_MATCH"}
KeyOfMention(m) == [ns |-> m.ns, val |-> normalise([ns |-> m.ns, val |-> m.text])]

\* The version has not been scanned twice at once before.
ASSUME RecollectionsAssumption ==
    \A recorded \in Recollections : \A m, n \in recorded :
        /\ m.by \notin Requests
        /\ m.source = "IDENTIFIER_MATCH" /\ n.source = "IDENTIFIER_MATCH" /\ m.chunk = n.chunk
           /\ KeyOfMention(m) = KeyOfMention(n) => m = n

\* Mutant: the key is the text as it was written.
RecordedAsSpelt == {<<m.chunk, [ns |-> m.ns, val |-> m.text]>> : m \in Matched}

\* _existing_keys, by the normalised value.
Recorded == {<<m.chunk, KeyOfMention(m)>> : m \in Matched}

\* Who holds what the version's words name.
Holding(key) ==
    {identifiers[i].asset : i \in {n \in LiveIdentifiers : KeyOf(identifiers[n]) = key}}
Holdings == {[key |-> k, owners |-> Holding(k)] : k \in Words}

Scanning == {r \in Requests : req[r].at = "scanning"}

Scanned(r) == req[r].at = "done" /\ req[r].body.op = "SCAN"

\* link_version reads the chunks and what is recorded. The body remembers what
\* was so when the scan began.
BeginScan(r) ==
    /\ req[r].at = "idle"
    /\ req' = [req EXCEPT ![r].at = "scanning",
                  ![r].body = [op |-> "SCAN", after |-> {q \in Requests : Scanned(q)},
                               owned |-> {k \in Words : Holder(k)}],
                  ![r].seen = [chunk |-> 1, known |-> Recorded, rows |-> {}]]
    /\ owned' = owned \cup Holdings
    /\ UNCHANGED <<Rows, clock, mentions>>

\* Mutant: what one chunk mentions is not mentioned again in the next.
NewInVersion(seen) ==
    {k \in Candidates[seen.chunk] : Owners(k) # {} /\ \A c \in Chunks : <<c, k>> \notin seen.known}

\* A chunk's candidates that somebody holds and nobody has recorded.
New(seen) == {k \in Candidates[seen.chunk] : Owners(k) # {} /\ <<seen.chunk, k>> \notin seen.known}

ScanChunk(r) ==
    LET seen == req[r].seen
        new  == New(seen)
    IN  /\ req[r].at = "scanning" /\ seen.chunk \in Chunks
        /\ req' = [req EXCEPT ![r].seen =
                      [chunk |-> seen.chunk + 1,
                       known |-> seen.known \cup {<<seen.chunk, k>> : k \in new},
                       rows  |-> seen.rows \cup {Match(seen.chunk, k, r) : k \in new}]]
        /\ UNCHANGED <<Rows, clock, mentions, owned>>

CommitScan(r) ==
    LET rows == req[r].seen.rows
    IN  /\ req[r].at = "scanning" /\ req[r].seen.chunk \notin Chunks
        /\ IF \A m \in rows : MentionChecks(m)
           THEN mentions' = mentions \cup rows /\ Answer(r, Named("SCANNED", 0))
           ELSE UNCHANGED mentions /\ Answer(r, Named("ERROR", 0))
        /\ owned' = IF Scanning = {r} THEN {} ELSE owned
        /\ UNCHANGED <<Rows, clock>>

-----------------------------------------------------------------------------
(* Explicit associations *)

\* associate reads the asset, and refuses one that is retired or merged.
ReadAssociation(r) ==
    /\ req[r].at = "idle"
    /\ \E link \in Associations :
          /\ link.asset \in DOMAIN assets
          /\ IF assets[link.asset].life \in TERMINAL_LIFECYCLE_STATES THEN Refuse(r)
             ELSE req' = [req EXCEPT ![r].at = "associating",
                             ![r].body = [op |-> "ASSOCIATE", link |-> link]]
    /\ UNCHANGED <<Rows, clock, mentions, owned>>

CommitAssociation(r) ==
    /\ req[r].at = "associating"
    /\ mentions' = mentions \cup {Explicit(req[r].body.link.chunk, req[r].body.link.asset, r)}
    /\ Answer(r, Named("ASSOCIATED", req[r].body.link.asset))
    /\ UNCHANGED <<Rows, clock, owned>>

-----------------------------------------------------------------------------
MInit ==
    /\ Init
    /\ mentions \in Recollections
    /\ owned = {}

\* A request of the CMDB: what it changes may change who a word names.
Administer ==
    /\ Next
    /\ owned' = IF Scanning = {} THEN {} ELSE owned \cup Holdings'
    /\ UNCHANGED mentions

Linking ==
    \E r \in Requests :
        BeginScan(r) \/ ScanChunk(r) \/ CommitScan(r) \/ ReadAssociation(r) \/ CommitAssociation(r)

MNext == Administer \/ Linking

MSpec == MInit /\ [][MNext]_allvars

-----------------------------------------------------------------------------
(* Properties *)

\* A mention that a scan is about to record names the exact set of assets that
\* held the written value together at some moment of the scan: one of them
\* resolves it, several leave it unresolved, and an asset rid of the value
\* before is not among them, however identifiers change hands between two
\* chunks. (mentions.py: "an exact match either holds or it does not")
MatchesAreExact ==
    \A r \in Scanning : \A m \in req[r].seen.rows :
        /\ KeyOfMention(m) \in Candidates[m.chunk]
        /\ [key |-> KeyOfMention(m), owners |-> m.candidates] \in owned
        /\ m.asset # NULL => m.candidates = {m.asset}

\* Scanning a version again records nothing again: of two rows for one chunk
\* and one identifier, neither's scan began after the other's had ended.
\* (link_version, _existing_keys)
RescanAddsNothing ==
    \A m, n \in Matched :
        m # n /\ m.chunk = n.chunk /\ KeyOfMention(m) = KeyOfMention(n) =>
            /\ m.by \in Requests /\ n.by \in Requests
            /\ m.by \notin req[n.by].body.after /\ n.by \notin req[m.by].body.after

\* What a chunk names has a mention when a scan of it is done: every identifier
\* that somebody held when the scan began and that was not freed since, under
\* each namespace it is registered in. (link_version)
NothingOverlooked ==
    \A r \in Requests : Scanned(r) =>
        \A c \in Chunks : \A k \in Candidates[c] \cap req[r].body.owned :
            \/ \E m \in Matched : m.chunk = c /\ KeyOfMention(m) = k
            \/ \E i \in DOMAIN identifiers : KeyOf(identifiers[i]) = k /\ ~identifiers[i].live

-----------------------------------------------------------------------------
(* What it does not keep *)

\* mentions.py:338-339: a value reassigned to another machine stops linking to the
\* old one; so a scan throughout which one asset alone held the value leaves the
\* chunk linked to that asset. What an earlier scan recorded of the value, in the
\* former holder's name, makes this scan pass it over (mentions.py:182).
ReassignedValueMovesOn ==
    \A r \in Scanning : req[r].seen.chunk \notin Chunks =>
        \A c \in Chunks : \A k \in Candidates[c] :
            LET held == {h.owners : h \in {o \in owned : o.key = k}}
            IN  \A a \in DOMAIN assets : held = {{a}} =>
                    \E m \in Matched \cup req[r].seen.rows :
                        m.chunk = c /\ KeyOfMention(m) = k /\ m.candidates = {a}

\* knowledge_search.py:450-451: re-running is safe and idempotent, also while the
\* first run is still going.
OneMentionEach ==
    \A m, n \in Matched :
        m.chunk = n.chunk /\ KeyOfMention(m) = KeyOfMention(n) => m = n
=============================================================================
