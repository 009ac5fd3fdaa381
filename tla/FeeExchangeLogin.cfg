SPECIFICATION Spec
CONSTANTS
  Miner = {m1}
  MainJob = {a}
  FeeJob = {f}
  DevJob = {}
  Cap = 1
  Limit = 1
  Cut = 1
  Calls <- EveryCall
  MaxSend = 1
  MaxQueue = 1
  MaxShare = 2
  MaxPipe = 2
INVARIANTS
  TypeOK
  FeeSharesInOrder
  NoMainShareAstray
  NoOnlineReportAfterEnd
CHECK_DEADLOCK FALSE
