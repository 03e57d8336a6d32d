\* A tool, disabled or not, is removed from the code and brought back; the database
\* never fails. TLC reports the first property that fails; each fails alone.
CONSTANTS
  echo = echo  restart = restart  c1 = c1  c2 = c2
  Tools = {echo, restart}
  Contracts = {c1, c2}
  Builds <- Deploys
  Processes = {p1}
  Requests = {r1}
  Admins = {ann}
  Reasons = {incident}
  MaxOutages = 0
  MaxStarts = 3
  Absent = Absent
SPECIFICATION Spec
CHECK_DEADLOCK FALSE
PROPERTIES
  RemovalRetires
  RestoredByDeploy
