SPECIFICATION Spec
CONSTANTS
  Miner = {m1}
  MainJob = {a}
  FeeJob = {f1, f2}
  DevJob = {f1}
  Cap = 1
  Limit = 2
  Cut = 1
  Calls = {}
  MaxSend = 4
  MaxQueue = 2
  MaxShare = 1
  MaxPipe = 1
INVARIANTS
  ListsAreTails
  FeeSharesAreEarned
PROPERTIES
  NoRecentFeeShareToMain
CHECK_DEADLOCK FALSE
