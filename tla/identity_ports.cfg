\* A second link between two devices, on another port.
SPECIFICATION MSpec
CONSTANTS
  NULL = NULL
  Unfit = {num}
  Associations <- Links
  Cores = {sn, other, mac, name, num}
  sn = sn
  other = other
  mac = mac
  name = name
  num = num

  Inventories <- Starts
  Texts <- Memo
  Bodies <- Cabling
  Recollections <- Unscanned
  Requests = {r1, r2}
PROPERTY ParallelLinksCoexist
CHECK_DEADLOCK FALSE
