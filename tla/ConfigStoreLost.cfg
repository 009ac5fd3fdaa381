SPECIFICATION Spec
CONSTANTS
  Request = {r1, r2}
  Name = {a, b}
  Found <- AnyList
  Threads = 2
  MaxCrash = 0
INVARIANTS
  CreatedIsStored

SYMMETRY StoreSymmetry
CHECK_DEADLOCK FALSE
