--------------------------- MODULE MCCameraControl ---------------------------
(***************************************************************************)
(* CameraControl for TLC.  Cameras are numbers because the controller      *)
(* visits them in order, so no symmetry is used.                           *)
(***************************************************************************)
EXTENDS CameraControl

Asks(keys) == keys \X {TRUE}
Power      == Asks({"CameraOn", "CameraOff"})

\* What clients write: every command, with the write of the admin server
\* that clears the entry of a camera's opposite state; the cameras' power
\* alone; or power and blinking for camera 0 beside a camera that is turned
\* on.
MCAll    == [c \in Cameras |-> Asks(Commands) \cup {<<"CameraOff", FALSE>>}]
MCPower  == [c \in Cameras |-> Power]
MCBeside == [c \in Cameras |-> IF c = 0 THEN Power \cup Asks({"LightsBlink"})
                               ELSE Asks({"CameraOn"})]
==============================================================================
