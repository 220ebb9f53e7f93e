\* Logging off at the start of a run and switched on while it lasts.
CONSTANTS
  FrameRate = 2
  Rates = {0, 1}
  MaxSwitches = 2
SPECIFICATION Spec
INVARIANTS
  LoggerNotNull
