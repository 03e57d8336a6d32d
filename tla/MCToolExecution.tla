--------------------------- MODULE MCToolExecution ---------------------------
(* TLC instances of ToolExecution: the tasks are model values, symmetric   *)
(* within their kind.                                                      *)
EXTENDS ToolExecution, TLC

TaskSymmetry == Permutations(Workers) \cup Permutations(Callers)
=============================================================================
