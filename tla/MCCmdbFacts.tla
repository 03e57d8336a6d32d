---------------------------- MODULE MCCmdbFacts ----------------------------
(* TLC instances of CmdbFacts: a scanner, a note typed by hand and a model *)
(* speak about one predicate, two operators judge, and the system starts   *)
(* from nothing, from one observation or from one verified observation.    *)
EXTENDS CmdbFacts, TLC

CONSTANTS low, high, long, longer, ada, bob

Rendering == [v \in {low, high, long, longer} |->
                IF v = longer THEN long ELSE v]

Speakers == {"scan", "note", "model", ada, bob}

Say(src, stype, v) == [op |-> "ASSERT", src |-> src, stype |-> stype, value |-> v]
Desire(p, v) == [op |-> "DESIRE", by |-> p, value |-> v]
Judge(op, id, p) == [op |-> op, fact |-> id, by |-> p]
Retire == [op |-> "RETIRE"]

Observed == Claim("OBSERVED_STATE", "scan", "LIVE_DISCOVERY", low, "DISCOVERED", NULL, 1, 0)
Verified == [Observed EXCEPT !.status = "VERIFIED", !.vby = ada]

Past(rows, atts) == [facts |-> rows, attestations |-> atts]
Starts == {Past(<<>>, <<>>), Past(<<Observed>>, <<>>),
           Past(<<Verified>>, <<Attestation(1, "VERIFY", "DISCOVERED", "VERIFIED", ada)>>)}

Calls ==
  {Say("scan", "LIVE_DISCOVERY", low), Say("scan", "LIVE_DISCOVERY", high),
   Say("scan", "AI_INFERENCE", high), Say("note", "MANUAL_ENTRY", high),
   Say("model", "AI_INFERENCE", low), Desire(ada, low), Desire(bob, high),
   Judge("VERIFY", 1, ada), Judge("VERIFY", 1, bob), Judge("VERIFY", 2, bob),
   Judge("REVOKE", 1, ada), Judge("REVOKE", 2, bob), Retire}

Interchangeable == Permutations(Requests)
=============================================================================
