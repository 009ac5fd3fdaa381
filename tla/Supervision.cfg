SPECIFICATION Spec
CONSTANTS
  p1 = p1
  p2 = p2
  x = x
  y = y
  z = z
  Stored <- MCStored
  PortsOf <- Sharing
  MaxStart = 2
INVARIANTS TypeOK WholeOrNothing OneProcessPerProxy WebFailureLeavesNone
PROPERTIES EndsForCause FreshStartServes
CHECK_DEADLOCK FALSE
