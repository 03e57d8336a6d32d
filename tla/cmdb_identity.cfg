\* Three requests out of seventeen calls, scans and associations overlap on two
\* devices and the cable between them.
SPECIFICATION MSpec
CONSTANTS
  NULL = NULL
  Requests = {r1, r2, r3}
  Bodies <- Calls
  Inventories <- Starts
  Texts <- Document
  Unfit = {num}
  Associations <- Links
  Recollections <- Unscanned
  Cores = {sn, other, mac, name, num}
  sn = sn
  other = other
  mac = mac
  name = name
  num = num
SYMMETRY Interchangeable
INVARIANTS
  SameIdentitySameAsset
  OneLinkOneEdge
  MatchesAreExact
  RescanAddsNothing
  NothingOverlooked
PROPERTY
  RetiredIsFinal
CHECK_DEADLOCK FALSE
