SPECIFICATION WarmSpec
CONSTANTS
  Names = {g1}
  Pools = {p1}
  PortStart = 6000
  PortEnd = 6002
  UserSpecs <- OneSpec
  Budget <- MCBudget
  Lagging = {}
  Resyncs = TRUE
  Old = g1
  Apart = TRUE
  Creates = 1
  Deletes = 1
  Edits = 0
  Kills = 1
  Faults = 1
  Restarts = 1
  Nodes = 1
  PoolLosses = 1
CHECK_DEADLOCK FALSE
INVARIANTS
  QuietBuilt
  PortAdvertised
PROPERTIES
  RuleAfterVmc
