\* A rate that never changes: the throw alone is enough.
CONSTANTS
  FrameRate = 2
  Rates = {1}
  MaxSwitches = 1
SPECIFICATION FairSpec
PROPERTIES
  ThrowReported
