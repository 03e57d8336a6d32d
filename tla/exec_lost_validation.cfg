\* A worker is lost after the adapter reported success.
CONSTANTS
  N = 1
  Workers = {w1}
  Callers = {}
  ApprovalRequired = {1}
  ValidationRequired = {1}
  Retryable = {}
  MaxAttempts = 1
  ReapEvery = 1
  DispatchLimit = 1
  ReapLimit = 1
  SweepLimit = 1
  MaxFaults = 1
  MaxAdmin = 0
  None = None
SPECIFICATION Spec
INVARIANTS
  IndeterminateMeansUnreported
