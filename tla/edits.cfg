SPECIFICATION Spec
CONSTANTS
  Names = {g1}
  Pools = {p1, p2}
  PortStart = 6000
  PortEnd = 6001
  UserSpecs <- EditSpecs
  Budget <- MCBudget
  Lagging = {}
  Resyncs = FALSE
  Old = g1
  Apart = FALSE
  Creates = 1
  Deletes = 1
  Edits = 1
  Kills = 0
  Faults = 0
  Restarts = 0
  Nodes = 0
  PoolLosses = 0
CHECK_DEADLOCK FALSE
INVARIANTS
  PrefixFreeHere
  QuietConverged

  
