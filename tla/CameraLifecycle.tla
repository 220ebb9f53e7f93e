--------------------------- MODULE CameraLifecycle ---------------------------
(***************************************************************************)
(* What the daemon promises about one set of cameras, whatever happens in  *)
(* between: a camera that is turned on has exactly one pipeline worker,    *)
(* the worker ends normally only after it was asked to, and a worker that  *)
(* crashed is always reported, by leaving its camera in error for good.    *)
(* CameraControl is shown to implement this specification.                 *)
(***************************************************************************)

CONSTANT Cameras

VARIABLES
  mode,    \* what the camera is: "off", "on", "stopping" or "error"
  worker   \* its pipeline worker: "idle", "busy", "ended" or "crashed"

vars == <<mode, worker>>

Init ==
  /\ mode   = [c \in Cameras |-> "off"]
  /\ worker = [c \in Cameras |-> "idle"]

\* An off camera is turned on: a worker is created for it.
TurnOn(c) ==
  /\ mode[c] = "off"
  /\ worker[c] = "idle"
  /\ mode'   = [mode EXCEPT ![c] = "on"]
  /\ worker' = [worker EXCEPT ![c] = "busy"]

\* An on camera is asked to stop; its worker may have crashed already.
AskToStop(c) ==
  /\ mode[c] = "on"
  /\ mode' = [mode EXCEPT ![c] = "stopping"]
  /\ UNCHANGED worker

\* The worker obeys: never before it is asked.
Finish(c) ==
  /\ mode[c] = "stopping"
  /\ worker[c] = "busy"
  /\ worker' = [worker EXCEPT ![c] = "ended"]
  /\ UNCHANGED mode

\* The worker crashes, asked to stop or not.
Crash(c) ==
  /\ mode[c] \in {"on", "stopping"}
  /\ worker[c] = "busy"
  /\ worker' = [worker EXCEPT ![c] = "crashed"]
  /\ UNCHANGED mode

\* The stopping camera collects its worker, and with it how it ended.
Reap(c) ==
  /\ mode[c] = "stopping"
  /\ \/ worker[c] = "ended"   /\ mode' = [mode EXCEPT ![c] = "off"]
     \/ worker[c] = "crashed" /\ mode' = [mode EXCEPT ![c] = "error"]
  /\ worker' = [worker EXCEPT ![c] = "idle"]

Next ==
  \E c \in Cameras :
    TurnOn(c) \/ AskToStop(c) \/ Finish(c) \/ Crash(c) \/ Reap(c)

Spec == Init /\ [][Next]_vars
==============================================================================
