SPECIFICATION Spec
CONSTANTS
  r1 = r1
  r2 = r2
  r3 = r3
  id1 = id1
  id2 = id2
  id3 = id3
  NoAck = NoAck
  Requests = {r1, r2}
  StepIds = {id1}
  StepOf <- MCOneId
  ToolOf <- MCOther
  Awaits = {r1, r2}
  SendMayFail = FALSE
  WaitMayExpire = FALSE
CHECK_DEADLOCK FALSE
INVARIANT DecidedByOwnCommand
