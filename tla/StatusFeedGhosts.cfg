SPECIFICATION Spec
CONSTANTS
  s1 = s1
  s2 = s2
  n1 = n1
  n2 = n2
  Session = {s1, s2}
  Name = {n1, n2}
  Habits <- OwnOrAny
  MaxPending = 2
INVARIANTS
  NoGhostWorkers

CHECK_DEADLOCK FALSE
