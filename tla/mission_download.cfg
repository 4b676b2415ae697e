SPECIFICATION FairSpec
CONSTANTS
  MaxSize = 3
  MaxJobs = 2
  MaxFrames = 2
CHECK_DEADLOCK FALSE
INVARIANTS TypeOK MirrorIsOfFC CountIsServed
PROPERTY DownloadCompletes
