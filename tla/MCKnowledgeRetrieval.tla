------------------------ MODULE MCKnowledgeRetrieval ------------------------
(***************************************************************************)
(* Three passages of two sources, two of them equally near, matched by the *)
(* text in the opposite order.                                             *)
(***************************************************************************)
EXTENDS KnowledgeRetrieval

Passages  == 1 .. 3
Owner     == <<"runbooks", "runbooks", "vendor">>
Distances == <<2, 1, 2>>
Scores    == <<1, 1, 2>>

Clearances == [viewer |-> {"INTERNAL"}, admin |-> {"INTERNAL", "CONFIDENTIAL"}]

Setting(fallback, exactMax, lexicalLimit) ==
  [k |-> 2, overfetch |-> 2, cap |-> 3, fallback |-> fallback,
   exactMax |-> exactMax, lexicalLimit |-> lexicalLimit, rrfK |-> 1]

\* The population fits the ceiling or outgrows it; no ranking at all, under a
\* ceiling that the largest k exceeds by more than one.
Settings == {Setting(TRUE, 2, 1), Setting(FALSE, 1, 2)}

Claim(kind, cites) == [kind |-> kind, cites |-> cites, fact |-> FALSE, status |-> FALSE]

\* One honest as long as it finds two passages, one that reports a fact without
\* its status.
SomeDrafts == { << Claim("SOURCED", {1}), Claim("INFERENCE", {2}), Claim("INFERENCE", {}) >>,
                << [Claim("CMDB_FACT", {1}) EXCEPT !.fact = TRUE] >> }
=============================================================================
