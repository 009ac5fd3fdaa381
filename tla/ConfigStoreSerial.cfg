SPECIFICATION Spec
CONSTANTS
  Request = {r1, r2, r3}
  Name = {a, b}
  Found <- AnyList
  Threads = 1
  MaxCrash = 2
INVARIANTS
  TypeOK
  TableIsStored
PROPERTIES
  NoDuplicateProxy
SYMMETRY StoreSymmetry
CHECK_DEADLOCK FALSE
