SPECIFICATION Spec
CONSTANTS
  Nodes = {"PVE", "pve2"}
  Fold <- Folded
  Machines = {m1, m2}
  Vmids = {"100", "101"}
  ThisInstance = "lab"
  Targets <- Assets
  RequestTimeout = 7
  ToolTimeout <- Timeouts
  MaxAttempts = 2
  MaxChanges = 2
SYMMETRY Alike
INVARIANTS AnswersAreAboutTheTarget InventoriesAreWhole OnlyTheUnreachableIsRetried
CHECK_DEADLOCK FALSE
