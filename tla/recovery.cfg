SPECIFICATION FairSpec
CONSTANTS
  Names = {g1}
  Pools = {p1}
  PortStart = 6000
  PortEnd = 6001
  UserSpecs <- OneSpec
  Budget <- MCBudget
  Lagging = {}
  Resyncs = TRUE
  Old = g1
  Apart = FALSE
  Creates = 1
  Deletes = 1
  Edits = 0
  Kills = 0
  Faults = 1
  Restarts = 0
  Nodes = 0
  PoolLosses = 0
CHECK_DEADLOCK FALSE
PROPERTIES
  DeletionCompletes
  ProvisioningCompletes
