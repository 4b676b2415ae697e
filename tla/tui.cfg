SPECIFICATION FairSpec
CONSTANTS
  Length = 1
  MaxKeys = 3
  MaxFaults = 1
CHECK_DEADLOCK FALSE
INVARIANTS TypeOK OnlyFixupCrosses SnapshotBehindOverride ResumesWhatFcHas
PROPERTIES EveryoneIsServed ResumeEnds
