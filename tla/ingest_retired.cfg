SPECIFICATION Spec
CONSTANTS
  Requests = {r1, r2}
  Contents <- Plain
  Sensitivities = {"INTERNAL", "CONFIDENTIAL"}
  MaxDispositions = 1
INVARIANTS RetiredIsNotRetrievable
CHECK_DEADLOCK FALSE
