\* One inline request, no faults: what its elapsed wait leaves behind.
CONSTANTS
  N = 1
  Workers = {w1}
  Callers = {c1}
  ApprovalRequired = {}
  ValidationRequired = {}
  Retryable = {}
  MaxAttempts = 1
  ReapEvery = 1
  DispatchLimit = 1
  ReapLimit = 1
  SweepLimit = 1
  MaxFaults = 0
  MaxAdmin = 0
  None = None
SPECIFICATION Spec
INVARIANTS
  LiveLeaseIsWorked
