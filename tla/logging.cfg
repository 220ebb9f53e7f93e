\* Logging is switched on three times, over any number of daemon restarts.
CONSTANTS
  FrameRate = 2
  Rates <- MCRates
  MaxSwitches = 3
SPECIFICATION FairSpec
INVARIANTS
  LoggerFollowsLoop
  ClosedLogsKept
PROPERTIES
  LoggerStopEnds
