\* Two background workers compete for one change-class invocation of a
\* validated, retrying tool that may leave service.
CONSTANTS
  N = 1
  Workers = {w1, w2}
  Callers = {}
  ApprovalRequired = {1}
  ValidationRequired = {1}
  Retryable = {1}
  MaxAttempts = 2
  ReapEvery = 2
  DispatchLimit = 1
  ReapLimit = 1
  SweepLimit = 1
  MaxFaults = 1
  MaxAdmin = 2
  None = None
SPECIFICATION Spec
SYMMETRY TaskSymmetry
INVARIANTS
  DispatchOwnsRow
  ActsAtMostOnce
  GateExplainsOutcome
  BarredNeverCalled
