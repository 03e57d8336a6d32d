\* Two requests of any kind and their retries.
CONSTANTS
  info = info  restart = restart  inspect = inspect  wipe = wipe
  ghost = ghost  unknown = unknown
  h1 = h1  sw = sw  lost = lost  ok = ok  other = other  k1 = k1  k2 = k2
  Requests = {r1, r2}
  Bodies <- Posts
  Tools = {info, restart, inspect, wipe, ghost, unknown}
  Definition <- Catalogue
  Registered = {info, restart, inspect, wipe, ghost}
  AssetType <- Sites
  Invalid = Invalid
  Faulty = Faulty
  Administered = {restart}
  MaxChanges = 1
  None = None
SPECIFICATION FairSpec
CHECK_DEADLOCK FALSE
INVARIANTS
  KeyMeansOneRequest
  ConflictMeansAccepted
  ProhibitionIsUniform
PROPERTIES
  EveryRequestIsAnswered
