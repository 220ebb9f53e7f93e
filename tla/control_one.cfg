\* One camera, any number of commands, at most two of them waiting.
CONSTANTS
  Cameras = {0}
  LoggingCameras = {0}
  RemoteWrites <- MCAll
  QueueBound = 2
SPECIFICATION Spec
INVARIANTS
  IInv
  LampSteady
  StatusTruthful
PROPERTIES
  FailureDarkens
  StatusShown
