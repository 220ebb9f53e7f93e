\* Three or four frames of a run, over one or two logs.
CONSTANTS
  Undefined = Undefined
  NoFrame = NoFrame
  White = 0
  MaxLogged = 3
  Setups <- MCSetups
  ErrorText <- MCErrorText
SPECIFICATION FairSpec
INVARIANTS
  StreamFits
  PictureIntact
  SerialsCountPictures
  TargetIsLargest
  LogSpacing
  NothingLost
  LogsNumbered
  ImageExplainsTarget
PROPERTIES
  QueueServed
\* The run ends when it is cancelled or throws.
CHECK_DEADLOCK FALSE
