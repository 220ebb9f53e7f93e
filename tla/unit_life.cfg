\* One camera; two settings written, sound or broken; systemd may give up after two starts.
SPECIFICATION FairSpec
CONSTANTS
  Cameras = {0}
  None = None
  Sound <- MCSound
  Broken <- MCBroken
  Burst = 2
  MaxWrites = 2
INVARIANTS
  ConfigFollows
  FailureHasCause
PROPERTIES
  ImplementsStore
  GetsReady
  HeldPowersOff
