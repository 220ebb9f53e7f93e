\* One camera that is turned on and off and blinks, beside one that is turned on.
CONSTANTS
  Cameras = {0, 1}
  LoggingCameras = {0}
  RemoteWrites <- MCBeside
  QueueBound = 1
SPECIFICATION FairSpec
INVARIANTS
  ErrorFlagExact
  CleanStop
PROPERTIES
  ImplementsLifecycle
  StopHonoured
  BlinkJoinEnds
  FailureReported
  SignalStops
