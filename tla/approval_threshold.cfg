\* Two approvers decide at the same time; both are needed.
CONSTANTS
  r1 = r1  r2 = r2  r3 = r3  r4 = r4 
  ann = ann  bob = bob  req = req  zed = zed
  Requests = {r1, r2, r3}
  Subjects = {ann, bob, zed}
  SubjectOf <- Mixed
  Requester = zed
  Authorised = {ann, bob}
  SelfPermitted = FALSE
  MinApprovals = 2
  None = None
SPECIFICATION Spec
CHECK_DEADLOCK FALSE
INVARIANTS
  ThresholdMovesOn
