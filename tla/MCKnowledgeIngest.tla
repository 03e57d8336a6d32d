------------------------- MODULE MCKnowledgeIngest -------------------------
(***************************************************************************)
(* Three ingests of one reference. Two contents re-encode one text; two    *)
(* different texts carry the same match, so that a ruling about one can be *)
(* mistaken for a ruling about the other.                                  *)
(***************************************************************************)
EXTENDS KnowledgeIngest, TLC

Body(raw, text, secrets) ==
  [raw |-> raw, text |-> text, secrets |-> secrets, valid |-> TRUE, fits |-> TRUE]

Plain == { Body("lf", "draft", {}), Body("crlf", "draft", {}),
           Body("final", "final", {}) }

Keyed == { Body("key1", "key1", {"k"}), Body("key2", "key2", {"k"}) }

\* One submission of a type that is not accepted, one whose chunk is too long.
Unusable == { [Body("exe", "exe", {}) EXCEPT !.valid = FALSE],
              [Body("wide", "wide", {}) EXCEPT !.fits = FALSE] }

TextsAndKeys == Plain \cup Keyed \cup Unusable

Interchangeable == Permutations(Requests)
=============================================================================
