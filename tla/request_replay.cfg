\* The same change is posted twice at once.
CONSTANTS
  info = info  restart = restart  inspect = inspect  wipe = wipe
  ghost = ghost  unknown = unknown
  h1 = h1  sw = sw  lost = lost  ok = ok  other = other  k1 = k1  k2 = k2
  Requests = {r1, r2}
  Bodies <- Retries
  Tools = {info, restart, inspect, wipe, ghost, unknown}
  Definition <- Catalogue
  Registered = {info, restart, inspect, wipe, ghost}
  AssetType <- Sites
  Invalid = Invalid
  Faulty = Faulty
  Administered = {restart}
  MaxChanges = 0
  None = None
SPECIFICATION Spec
CHECK_DEADLOCK FALSE
INVARIANTS
  ReplayReturnsOriginal
