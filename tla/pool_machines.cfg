SPECIFICATION FairSpec
CONSTANTS
  Vms = {v1, v2}
  Configs = {c1, c2}
  PoolSize = 2
  Kinds = {"vmss", "vms"}
  c1 = c1
  c2 = c2
  Egresses <- MCEgresses
  Capacity = 2
  Addrs = {1}
  Budget <- MCBudget
  Joins = 1
  Leaves = 1
  Edits = 2
  Deletes = 1
  Faults = 1
  Crashes = 1
  Total = 4
CHECK_DEADLOCK FALSE
INVARIANTS
  MachinesServed
  NothingLeft
  BackendShared
  StatusAfterLoop
PROPERTIES
  Settles
