SPECIFICATION FairSpec
CONSTANTS
  w1 = w1
  w2 = w2
  Workers = {w1, w2}
  MaxSize = 2
CHECK_DEADLOCK FALSE
INVARIANTS TypeOK LocksAreOrdered SnapshotInSyncUntilUpload OverrideHasSnapshot UploadingIsHeld
PROPERTY OverrideEnds
