SPECIFICATION FairSpec
CONSTANTS
  Budget <- MCBudget
  Gws = {g1, g2}
  Pods = {}
  WgPorts = {1}
  VmIPs = {1, 2}
  PodIPs = {}
  Calm = {"create", "ready", "rotate", "move", "reboot"}
  LateStatus = FALSE
  LateSecrets = TRUE
  Resyncs = TRUE
  Creates = 2
  Deletes = 1
  Vips = 1
  Rotates = 1
  Moves = 1
  NPods = 0
  Faults = 1
  Restarts = 1
  Reboots = 1
  Total = 2
PROPERTIES
  ServedUnlessStray
  LinksGone
  ChainsGone
