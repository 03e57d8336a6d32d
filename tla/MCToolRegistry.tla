--------------------------- MODULE MCToolRegistry ---------------------------
(* TLC instances of ToolRegistry: the builds a deployment goes through.    *)
EXTENDS ToolRegistry

CONSTANTS echo, restart, c1, c2

On(h) == [hash |-> h, lifecycle_default |-> "ACTIVE"]

First == [t \in {echo, restart} |-> On(c1)]
Without == [t \in {echo} |-> On(c1)]
Edited == [t \in {echo, restart} |-> IF t = restart THEN On(c2) ELSE On(c1)]
DefaultOff == [t \in {echo} |-> [hash |-> c1, lifecycle_default |-> "DISABLED"]]

Deploys == {First, Without, Edited}
=============================================================================
