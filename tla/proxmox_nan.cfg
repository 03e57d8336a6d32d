SPECIFICATION Spec
CONSTANTS
  Nodes = {"PVE", "pve2"}
  Fold <- Folded
  Machines = {m1, m2}
  Vmids = {"100", "101"}
  ThisInstance = "lab"
  Targets <- Assets
  RequestTimeout = 7
  ToolTimeout <- Timeouts
  MaxAttempts = 2
  MaxChanges = 1
SYMMETRY Alike
INVARIANT DegradesToUnknown
CHECK_DEADLOCK FALSE
