SPECIFICATION FairSpec
CONSTANTS
  Kinds = {"attitude", "position"}
  MaxAttempts = 1
  RtlAfter = 2
  MaxKeys = 2
CHECK_DEADLOCK FALSE
INVARIANTS TypeOK NoReplyIsMissed
PROPERTIES FailsafeFires RetryEnds
