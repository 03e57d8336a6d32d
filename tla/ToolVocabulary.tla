--------------------------- MODULE ToolVocabulary ---------------------------
(***************************************************************************)
(* The closed vocabulary of the tool execution framework                   *)
(* (models/tool_vocabulary.py): the invocation states, which of them are   *)
(* terminal or in flight, and the few enumerations the other modules share.*)
(* Constant-level: no state, no assumptions.                               *)
(***************************************************************************)

(* The members of InvocationState.                                         *)
InvocationState ==
  {"REQUESTED", "REJECTED", "AUTHORIZED", "AWAITING_APPROVAL", "APPROVED",
   "DENIED", "READY", "EXECUTING", "EXECUTED", "VALIDATING", "SUCCEEDED",
   "VALIDATION_FAILED", "FAILED", "TIMED_OUT", "EXECUTION_INDETERMINATE",
   "EXPIRED", "CANCELLED", "SUPERSEDED"}

(* "States from which nothing further happens."                            *)
TERMINAL_STATES ==
  {"REJECTED", "DENIED", "EXPIRED", "CANCELLED", "FAILED", "TIMED_OUT",
   "EXECUTION_INDETERMINATE", "SUCCEEDED", "VALIDATION_FAILED", "SUPERSEDED"}

(* The two states that carry an executor lease.                            *)
IN_FLIGHT_STATES == {"EXECUTING", "VALIDATING"}

(* The moves transition() lets through; it raises on any other before it   *)
(* writes. Whatever is not terminal may be superseded.                     *)
LEGAL_TRANSITIONS ==
  ({"REQUESTED"} \X {"REJECTED", "AUTHORIZED"})
  \cup ({"AUTHORIZED"} \X {"AWAITING_APPROVAL", "READY"})
  \cup ({"AWAITING_APPROVAL"} \X {"APPROVED", "DENIED", "EXPIRED", "CANCELLED"})
  \cup ({"APPROVED"} \X {"READY"})
  \cup ({"READY"} \X {"EXECUTING", "EXPIRED", "CANCELLED"})
  \cup ({"EXECUTING"} \X {"EXECUTED", "EXPIRED", "FAILED", "TIMED_OUT",
                          "EXECUTION_INDETERMINATE"})
  \cup ({"EXECUTED"} \X {"SUCCEEDED", "VALIDATING"})
  \cup ({"VALIDATING"} \X {"SUCCEEDED", "VALIDATION_FAILED"})
  \cup ((InvocationState \ TERMINAL_STATES) \X {"SUPERSEDED"})

is_legal_transition(source, target) == <<source, target>> \in LEGAL_TRANSITIONS

(* GateDecision and ToolLifecycle.                                         *)
GateDecision == {"ALLOW", "DENY"}
ToolLifecycle == {"ACTIVE", "DISABLED", "RETIRED"}
=============================================================================
