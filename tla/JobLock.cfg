SPECIFICATION Spec
CONSTANTS
  Miner = {m1, m2}
  Sock = 1
  FeeSock = 1
  Cap = 1
  MaxJob = 2
INVARIANTS
  TypeOK
  HandedJobIsNewest
PROPERTIES
  FeeTaskGetsLock
  SharesDrain
  SessionReturns
  BoardSpec
