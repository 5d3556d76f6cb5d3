SPECIFICATION WarmSpec
CONSTANTS
  Budget <- MCBudget
  Gws = {g1, g2}
  Pods = {e1}
  WgPorts = {1, 2}
  VmIPs = {1, 2}
  PodIPs = {1}
  Calm = {"vip", "delete", "restart", "reboot"}
  LateStatus = TRUE
  LateSecrets = FALSE
  Resyncs = FALSE
  Creates = 0
  Deletes = 1
  Vips = 0
  Rotates = 0
  Moves = 0
  NPods = 2
  Faults = 1
  Restarts = 0
  Reboots = 0
  Total = 1
PROPERTIES
  PodsServed
  PeersGone
  SweepSpares
