\* Two approvals are needed; ann double-submits, bob decides, and the
\* requester tries to approve the request.
CONSTANTS
  r1 = r1  r2 = r2  r3 = r3  r4 = r4
  ann = ann  bob = bob  req = req  zed = zed
  Requests = {r1, r2, r3, r4}
  Subjects = {ann, bob, req}
  SubjectOf <- Pair
  Requester = req
  Authorised = {ann, bob, req}
  SelfPermitted = FALSE
  MinApprovals = 2
  None = None
SPECIFICATION Spec
CHECK_DEADLOCK FALSE
INVARIANTS
  ReadyIsApproved
  DenialIsFinal
  CounterNeverAhead
  GateAgreesWithQuorum
