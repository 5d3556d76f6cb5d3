SPECIFICATION Spec
CONSTANTS
  Names = {g1}
  Pools = {p1}
  PortStart = 6000
  PortEnd = 6001
  UserSpecs <- OneSpec
  Budget <- MCBudget
  Lagging = {"sgc", "lbc", "vmc", "sec", "secdel"}
  Resyncs = FALSE
  Old = g1
  Apart = FALSE
  Creates = 2
  Deletes = 1
  Edits = 0
  Kills = 0
  Faults = 0
  Restarts = 0
  Nodes = 0
  PoolLosses = 0
CHECK_DEADLOCK FALSE
INVARIANTS
  OwnerChain
  RulesOwned
  PrefixesOwned
  IpConfigsOwned
  ReadyComplete
  QuietConverged
PROPERTIES
  KeyStable
