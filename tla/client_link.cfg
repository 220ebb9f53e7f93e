\* Two cameras, two Deadeye objects, three datagrams.
SPECIFICATION Spec
CONSTANTS
  Cameras = {"A0", "A1"}
  Instances = {"i1", "i2"}
  None = None
  Setups <- MCSetups
  TargetSize = 300
  MaxSent = 3
INVARIANTS
  LagIsStrays
  OwnLatest
  FieldsAgree
  DeathHasCause
  LinkReaches
\* With its last datagram received and the thread ended, nothing is left to do.
CHECK_DEADLOCK FALSE
