\* One process started twice, the database out of reach the second time.
CONSTANTS
  echo = echo  restart = restart  c1 = c1  c2 = c2
  Tools = {echo, restart}
  Contracts = {c1, c2}
  Builds <- Deploys
  Processes = {p1}
  Requests = {}
  Admins = {ann}
  Reasons = {incident}
  MaxOutages = 1
  MaxStarts = 2
  Absent = Absent
SPECIFICATION Spec
CHECK_DEADLOCK FALSE
INVARIANTS
  NothingBeforeReconciliation
