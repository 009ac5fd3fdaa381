SPECIFICATION Spec
CONSTANTS
  Sock = 3
  MaxLine = 3
  Garbled <- MCGarbled
INVARIANT TypeOK
PROPERTIES BothWaysArePipes EndsTogether
CHECK_DEADLOCK FALSE
