------------------------- MODULE MCDocumentChunking -------------------------
(***************************************************************************)
(* Documents of up to five lines. The sizes keep the order of the source's  *)
(* (overlap < minimum < target < ceiling), and the long line is over the   *)
(* ceiling, so that every branch of the chunker is taken.                  *)
(***************************************************************************)
EXTENDS DocumentChunking

Text(len)    == [kind |-> "text", len |-> len, tag |-> "plain", title |-> ""]
Hit(len)     == [kind |-> "text", len |-> len, tag |-> "hit", title |-> ""]
Heading(depth, title) ==
  [kind |-> "heading", len |-> depth + 2, tag |-> depth, title |-> title]
Fence(mark)  == [kind |-> "fence", len |-> 3, tag |-> mark, title |-> ""]

MCLines == { Text(2), Text(21), Hit(7), Heading(1, "A"), Heading(2, "B"),
             Heading(2, ""), Fence("backticks"), Fence("tildes"), Blank }
=============================================================================
