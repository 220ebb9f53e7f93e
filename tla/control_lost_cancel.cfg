\* The claim of controller.cpp:168-170 that CameraOff cancels the pipeline task.
CONSTANTS
  Cameras = {0}
  LoggingCameras = {}
  RemoteWrites <- MCPower
  QueueBound = 1
SPECIFICATION FairSpec
PROPERTIES
  CameraOffCompletes
