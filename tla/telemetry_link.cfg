SPECIFICATION FairSpec
CONSTANTS
  Clients = {c1}
  Stale = 2
  Lag = 2
CHECK_DEADLOCK FALSE
INVARIANTS TypeOK NoPinWithoutLink StartsWithoutTelemetry GatesReadThisLink
PROPERTIES SilenceIsShown LinkIsOpened
