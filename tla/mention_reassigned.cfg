SPECIFICATION MSpec
CONSTANTS
  NULL = NULL
  Unfit = {num}
  Associations <- Links
  Cores = {sn, other, mac, name, num}
  sn = sn
  other = other
  mac = mac
  name = name
  num = num

  Inventories <- Inventory
  Texts <- Memo
  Bodies <- Reassigning
  Recollections <- ScannedBefore
  Requests = {r1, r2, r3}
INVARIANT ReassignedValueMovesOn
CHECK_DEADLOCK FALSE
