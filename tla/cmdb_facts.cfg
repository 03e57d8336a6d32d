\* Three calls out of thirteen overlap on one predicate of one asset.
SPECIFICATION Spec
CONSTANTS
  NULL = NULL
  Requests = {r1, r2, r3}
  Bodies <- Calls
  Names <- Speakers
  Histories <- Starts
  Summary <- Rendering
  low = low
  high = high
  long = long
  longer = longer
  ada = ada
  bob = bob
SYMMETRY Interchangeable
INVARIANTS
  AuthorityIsAttested
  LineageIsAChain
  EchoIsNoCorroboration
CHECK_DEADLOCK FALSE
