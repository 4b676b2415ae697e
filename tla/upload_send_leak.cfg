SPECIFICATION Spec
CONSTANTS
  short = short
  long = long
  Missions = {short, long}
  NoMission = NoMission
  MaxSize = 2
  Size <- MCSize
  Workers = {w1}
  MaxJobs = 2
  MaxLoss = 0
  MaxRetries = 0
  SendMayFail = TRUE
  FcMayReject = FALSE
  PollMayTimeOut = FALSE
  PollMayRace = FALSE
CHECK_DEADLOCK FALSE
INVARIANT NoAbandonedTransfer
