SPECIFICATION FairSpec
CONSTANTS
  short = short
  long = long
  Missions = {short, long}
  NoMission = NoMission
  MaxSize = 2
  Size <- MCSize
  Workers = {w1}
  MaxJobs = 3
  MaxLoss = 2
  MaxRetries = 3
  SendMayFail = TRUE
  FcMayReject = TRUE
  PollMayTimeOut = TRUE
  PollMayRace = FALSE
CHECK_DEADLOCK FALSE
INVARIANTS OkMeansOnFC NoNeedlessTimeout
PROPERTIES CacheFollowsFC EveryCallReturns
