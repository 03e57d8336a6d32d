--------------------------- MODULE MCToolApproval ---------------------------
(* TLC instances of ToolApproval.  Three subjects; ann submits twice, the  *)
(* requester tries to approve, zed holds no approver role.                 *)
EXTENDS ToolApproval

CONSTANTS r1, r2, r3, r4, ann, bob, req, zed

Pair == [r \in {r1, r2, r3, r4} |->
           CASE r \in {r1, r2} -> ann [] r = r3 -> bob [] OTHER -> req]
Mixed == [r \in {r1, r2, r3} |->
            CASE r = r1 -> ann [] r = r2 -> bob [] OTHER -> zed]
=============================================================================
