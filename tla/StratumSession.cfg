SPECIFICATION Spec
CONSTANTS
  Modes <- MCModes
  MaxReq = 4
  MaxPipe = 2
INVARIANTS TypeOK AnswersMatchRequests PraisedSharesWereSent ReportedOnlineIsAnswered
PROPERTY CountersResetOnlyAsLogin
CHECK_DEADLOCK FALSE
