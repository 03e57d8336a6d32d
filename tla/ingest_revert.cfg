SPECIFICATION Spec
CONSTANTS
  Requests = {r1, r2, r3}
  Contents <- Plain
  Sensitivities = {"INTERNAL", "CONFIDENTIAL"}
  MaxDispositions = 1
INVARIANTS LoneAttemptIsClosed
CHECK_DEADLOCK FALSE
