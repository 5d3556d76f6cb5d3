SPECIFICATION Spec
CONSTANTS
  Bits = 3
  Gw = 5
  Linked <- MCLinked
  Excepted <- MCExcepted
  Excluded <- MCExcluded
  MaxFaults = 1
 
INVARIANT IngressReturns
 
CHECK_DEADLOCK FALSE
