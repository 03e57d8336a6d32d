\* Two processes, three builds (a tool removed, a contract edited in place),
\* two administrative requests and one outage.
CONSTANTS
  echo = echo  restart = restart  c1 = c1  c2 = c2
  Tools = {echo, restart}
  Contracts = {c1, c2}
  Builds <- Deploys
  Processes = {p1, p2}
  Requests = {r1, r2}
  Admins = {ann}
  Reasons = {incident}
  MaxOutages = 1
  MaxStarts = 3
  Absent = Absent
SPECIFICATION Spec
CHECK_DEADLOCK FALSE
INVARIANTS
  DriftNeverServed
PROPERTIES
  OnlyEnableRevives
  AcknowledgedDisable
