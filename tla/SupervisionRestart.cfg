SPECIFICATION Spec
CONSTANTS
  p1 = p1
  p2 = p2
  x = x
  y = y
  z = z
  Stored <- MCStored
  PortsOf <- Disjoint
  MaxStart = 2
PROPERTY RestartServes
CHECK_DEADLOCK FALSE
