\* One worker, an inline request and one queued change under fairness.
CONSTANTS
  N = 2
  Workers = {w1}
  Callers = {c1}
  ApprovalRequired = {2}
  ValidationRequired = {}
  Retryable = {}
  MaxAttempts = 1
  ReapEvery = 1
  DispatchLimit = 1
  ReapLimit = 1
  SweepLimit = 1
  MaxFaults = 1
  MaxAdmin = 0
  None = None
SPECIFICATION FairSpec
INVARIANTS
  IInv
PROPERTIES
  ImplementsLifecycle
  SweepSparesFresh
  EveryRequestCloses
