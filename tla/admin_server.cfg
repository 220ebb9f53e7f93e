\* Two cameras, one of three values of which one is unreadable, two updates and one connection event on the way.
SPECIFICATION FairSpec
CONSTANTS
  Cameras = {"A0", "A1"}
  Values <- MCValues
  Broken = {"bad"}
  None = None
  MaxPending = 2
  MaxEvents = 1
INVARIANTS
  ViewFollows
  BrowsersFollow
PROPERTIES
  CamerasShown
