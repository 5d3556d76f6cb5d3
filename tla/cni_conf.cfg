SPECIFICATION FairSpec
CONSTANTS
  Files = {1, 2}
  Lists = {1}
  Contents <- MCContents
  Main = "calico"
  MaxNodeq = 2
  Flags = {"true", "false"}
  Budget <- MCBudget
  Writes = 3
  Edits = 1
  Faults = 1
  Crashes = 1
  Stops = 1
  Reimages = 1
  Total = 4
INVARIANTS
  PluginPlaced
  UntaintedHasConf
PROPERTIES
  ConfCurrent
  TaintGone
