------------------------- MODULE InvocationLifecycle -------------------------
(***************************************************************************)
(* What the framework promises about one invocation row, with no worker,   *)
(* lease, lock or clock in sight: which committed states follow which, and *)
(* when the target may be touched.  ToolExecution implements it.           *)
(*                                                                         *)
(* A transaction may close several rows at once (a reap, a sweep), so the  *)
(* closing actions range over sets of invocations.                         *)
(***************************************************************************)
EXTENDS ToolVocabulary

CONSTANT Invocations

VARIABLES
  state,    \* committed state, "NONE" before the request is recorded
  touched   \* an adapter call was made for this invocation

lifecycleVars == <<state, touched>>

LInit ==
  /\ state = [i \in Invocations |-> "NONE"]
  /\ touched = [i \in Invocations |-> FALSE]

(* Close every row of S as s.                                              *)
Close(S, s) ==
  /\ state' = [i \in Invocations |-> IF i \in S THEN s ELSE state[i]]
  /\ UNCHANGED touched

(* The policy gates refuse a request, park it for approval or queue it.    *)
Open(i) ==
  /\ state[i] = "NONE"
  /\ \E s \in {"REJECTED", "AWAITING_APPROVAL", "READY"} : Close({i}, s)

Decide(i) ==
  /\ state[i] = "AWAITING_APPROVAL"
  /\ \E s \in {"READY", "DENIED"} : Close({i}, s)

Withdraw(i) ==
  /\ state[i] \in {"AWAITING_APPROVAL", "READY"}
  /\ Close({i}, "CANCELLED")

(* Approval windows that ran out.                                          *)
Lapse(S) ==
  /\ \A i \in S : state[i] \in {"AWAITING_APPROVAL", "READY"}
  /\ Close(S, "EXPIRED")

Take(i) ==
  /\ state[i] = "READY"
  /\ Close({i}, "EXECUTING")

(* The target may be touched only while the row says EXECUTING.            *)
Touch(i) ==
  /\ state[i] = "EXECUTING"
  /\ touched' = [touched EXCEPT ![i] = TRUE]
  /\ UNCHANGED state

(* A refusal after the claim claims that nothing was attempted.            *)
Refuse(i) ==
  /\ state[i] = "EXECUTING" /\ ~touched[i]
  /\ Close({i}, "EXPIRED")

(* A known outcome is recorded only for something that was attempted.      *)
Finish(i) ==
  /\ state[i] = "EXECUTING" /\ touched[i]
  /\ \E s \in {"SUCCEEDED", "FAILED", "TIMED_OUT", "VALIDATION_FAILED"} :
       Close({i}, s)

(* Workers that are gone.                                                  *)
Lose(S) ==
  /\ \A i \in S : state[i] = "EXECUTING"
  /\ Close(S, "EXECUTION_INDETERMINATE")

LNext ==
  \/ \E i \in Invocations :
       \/ Open(i) \/ Decide(i) \/ Withdraw(i) \/ Take(i) \/ Touch(i)
       \/ Refuse(i) \/ Finish(i)
  \/ \E S \in SUBSET Invocations : Lapse(S) \/ Lose(S)

LSpec == LInit /\ [][LNext]_lifecycleVars
=============================================================================
