------------------------ MODULE MCInvocationRequest ------------------------
(* TLC instances of InvocationRequest: an inventory of two hosts, a        *)
(* catalogue with one tool per treatment, and bodies for each gate.        *)
EXTENDS InvocationRequest

CONSTANTS info, restart, inspect, wipe, ghost, unknown,
          h1, sw, lost, ok, other, k1, k2

Catalogue ==
  [t \in {info, restart, inspect, wipe} |->
    [class |-> CASE t = info -> "CLASS_0_INFORMATION"
                 [] t = inspect -> "CLASS_1_READ_ONLY"
                 [] OTHER -> "CLASS_2_LOW_RISK_CHANGE",
     approval |-> t \in {restart, wipe},
     prohibited |-> t = wipe,
     target_type |-> CASE t = info -> "NONE"
                       [] t = inspect -> "EXTERNAL_REF"
                       [] OTHER -> "ASSET",
     target_asset_types |-> {"host"},
     required_roles |-> IF t \in {restart, wipe} THEN {"operator"} ELSE {"viewer"},
     environment_allowed |-> t # inspect]]

Sites == [a \in {h1, sw} |-> IF a = h1 THEN "host" ELSE "switch"]

Ask(t, i, a, x, k, who) ==
  [tool |-> t, input |-> i, asset |-> a, ref |-> x, key |-> k, justified |-> TRUE,
   roles |-> {who}]

Change == Ask(restart, ok, h1, FALSE, k1, "operator")

(* Changes under one key, answered in every way.                           *)
Keyed == {Change, [Change EXCEPT !.input = other], [Change EXCEPT !.input = Invalid],
          [Change EXCEPT !.roles = {"approver"}],
          Ask(info, ok, None, FALSE, k1, "viewer")}

(* One body for each gate and each constraint.                             *)
Refused == {Ask(wipe, Invalid, h1, FALSE, None, "viewer"),
            Ask(wipe, ok, lost, FALSE, None, "admin"),
            Ask(wipe, Faulty, h1, TRUE, None, "operator"),
            Ask(ghost, ok, None, FALSE, None, "viewer"),
            Ask(unknown, ok, None, FALSE, None, "viewer"),
            Ask(info, Faulty, None, FALSE, None, "viewer"),
            Ask(inspect, ok, None, TRUE, None, "viewer"),
            Ask(restart, ok, sw, FALSE, k2, "admin"),
            [Change EXCEPT !.key = None],
            [Change EXCEPT !.justified = FALSE]}

Posts == Keyed \cup Refused
Retries == {Change}
Elsewhere == {[Change EXCEPT !.asset = lost], Ask(wipe, ok, lost, FALSE, None, "admin")}
=============================================================================
