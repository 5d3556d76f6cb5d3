SPECIFICATION FairSpec
CONSTANTS
  Slots = {1, 2}
  MaxUid = 4
  Wants = {1, 2, 4}
  Addressed = {1, 2}
  Budget <- MCBudget
  Failures = 2
  Kills = 1
  Agains = 1
  Reboots = 1
  Forces = 1
  Unreadies = 1
  Lags = 1
  Total = 2
CHECK_DEADLOCK FALSE
INVARIANTS
  EndpointMatches
  
PROPERTIES
  PodsConnected
  EndpointsGone
