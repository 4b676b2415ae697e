SPECIFICATION Spec
CONSTANTS
  short = short
  long = long
  Missions = {short, long}
  NoMission = NoMission
  MaxSize = 2
  Size <- MCSize
  Workers = {w1, w2}
  MaxJobs = 3
  MaxLoss = 0
  MaxRetries = 0
  SendMayFail = FALSE
  FcMayReject = TRUE
  PollMayTimeOut = TRUE
  PollMayRace = TRUE
CHECK_DEADLOCK FALSE
SYMMETRY MCSymmetry
INVARIANTS TypeOK NoAbandonedTransfer
