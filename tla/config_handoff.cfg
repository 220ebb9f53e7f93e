\* Channels are set three times and capture twice while the camera goes on and off.
CONSTANTS
  MaxVersion = 3
  MaxCapture = 2
SPECIFICATION FairSpec
INVARIANTS
  NoLostConfig
PROPERTIES
  ImplementsRegister
  ConfigApplied
