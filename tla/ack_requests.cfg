SPECIFICATION FairSpec
CONSTANTS
  r1 = r1
  r2 = r2
  r3 = r3
  id1 = id1
  id2 = id2
  id3 = id3
  NoAck = NoAck
  Requests = {r1, r2, r3}
  StepIds = {id1, id2, id3}
  StepOf <- MCOwnIds
  ToolOf <- MCModes
  Awaits = {r1, r2}
  SendMayFail = TRUE
  WaitMayExpire = TRUE
CHECK_DEADLOCK FALSE
INVARIANTS TypeOK DecidedByOwnCommand NoLostResult NoLostWakeup NothingLeftBehind
PROPERTIES EveryRequestAnswers ClientsAreServed
