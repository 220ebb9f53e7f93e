---------------------------- MODULE CameraControl ----------------------------
(***************************************************************************)
(* The control plane of the Deadeye daemon: the controller thread          *)
(* (controller.cpp), the Camera and Lights state machines it drives        *)
(* (camera.cpp, lights.cpp), and the two kinds of thread they start with   *)
(* std::async, the pipeline task and the blink task.                       *)
(*                                                                         *)
(* One controller thread serves every camera.  Inside a handler it can     *)
(* block twice: joining the blink task of the lights (CancelTask) and      *)
(* joining the pipeline task of the camera (pipeline_future_.get()).       *)
(* The variable call says where in a handler it is; every other thread     *)
(* may step between any two of the controller's steps.                     *)
(*                                                                         *)
(* A state of either machine is named after the NetworkTables entry that   *)
(* reports it, and that entry is also the command that asks for it.        *)
(***************************************************************************)
EXTENDS Naturals, Sequences

CONSTANTS
  Cameras,         \* cameras with an active pipeline
  LoggingCameras,  \* those whose pipeline config has log.fps > 0
  RemoteWrites,    \* camera -> what clients write: <<command entry, value>>
  QueueBound       \* bound on notifications waiting in the poller

ASSUME CamerasAssumption ==
  /\ Cameras # {} /\ Cameras \subseteq 0..4
  /\ LoggingCameras \subseteq Cameras

ASSUME ClientAssumption ==
  /\ RemoteWrites \in
       [Cameras -> SUBSET ({"CameraOff", "CameraOn", "LightsOff", "LightsOn",
                            "LightsBlink"} \X BOOLEAN)]
  /\ QueueBound \in Nat

CameraStates == {"CameraOff", "CameraOn", "CameraError"}
LightsStates == {"LightsOff", "LightsOn", "LightsBlink"}
Commands     == {"CameraOff", "CameraOn"} \cup LightsStates
Keys         == CameraStates \cup LightsStates

\* A notification: a remote client changed a control entry.
Entries == [cam : Cameras, key : Commands, value : BOOLEAN]

\* Where the controller is inside a handler, and the event it is handling;
\* "CameraError" stands for the rest of the transition into the error state.
Ready == [at |-> "ready"]
Calls == [at    : {"lights", "blinkJoin", "camera", "launched", "taskJoin"},
          cam   : Cameras,
          event : Commands \cup {"CameraError"}]

VARIABLES
  nt,          \* the control entries whose value is true
  queue,       \* notifications waiting in the poller
  quit,        \* set by the signal handler
  phase,       \* what the controller's main loop is doing
  batch,       \* entries returned by the last poll, not yet dispatched
  todo,        \* cameras still to visit in an error scan or a shutdown
  call,        \* Ready, or the position inside a handler
  cam,         \* state of each Camera machine
  lights,      \* state of each Lights machine
  isOn,        \* Lights::on_
  logging,     \* Runner::logging_enabled_
  task,        \* the pipeline task behind pipeline_future_
  cancel,      \* Runner::cancel_
  hasError,    \* Camera::has_error_
  blink,       \* the blink task behind task_future_
  cancelBlink, \* Lights::cancel_task_
  led          \* the lamp itself

remoteVars     == <<nt, queue, quit>>
controllerVars == <<phase, batch, todo, call>>
lightsVars     == <<lights, isOn, blink, cancelBlink, led>>
cameraVars     == <<cam, logging, task, cancel, hasError>>
vars == <<remoteVars, controllerVars, lightsVars, cameraVars>>

RemoteType ==
  /\ nt \subseteq Cameras \X Keys
  /\ queue \in Seq(Entries)
  /\ quit \in BOOLEAN

ControllerType ==
  /\ phase \in {"poll", "errors", "events", "shutdown", "lightsOut",
                "stopped", "aborted", "exited"}
  /\ batch \in Seq(Entries)
  /\ todo \subseteq Cameras
  /\ call \in {Ready} \cup Calls

LightsType ==
  /\ lights \in [Cameras -> LightsStates]
  /\ isOn \in [Cameras -> BOOLEAN]
  /\ blink \in [Cameras -> {"none", "spawned", "lit", "dark", "done"}]
  /\ cancelBlink \in [Cameras -> BOOLEAN]
  /\ led \in [Cameras -> BOOLEAN]

CameraType ==
  /\ cam \in [Cameras -> CameraStates]
  /\ logging \in [Cameras -> BOOLEAN]
  /\ task \in [Cameras -> {"none", "spawned", "running", "stuck", "throwing",
                           "done", "failed"}]
  /\ cancel \in [Cameras -> BOOLEAN]
  /\ hasError \in [Cameras -> BOOLEAN]

\* Every variable keeps the range the code gives it.
TypeOK == RemoteType /\ ControllerType /\ LightsType /\ CameraType

\* The daemon after Controller::Initialize and after Run has started the
\* machines: Off::entry of the camera has called Runner::Stop().
Init ==
  /\ nt = Cameras \X {"CameraOff", "LightsOff"}
  /\ queue = <<>>
  /\ quit = FALSE
  /\ phase = "poll"
  /\ batch = <<>>
  /\ todo = {}
  /\ call = Ready
  /\ cam = [c \in Cameras |-> "CameraOff"]
  /\ lights = [c \in Cameras |-> "LightsOff"]
  /\ isOn = [c \in Cameras |-> FALSE]
  /\ logging = [c \in Cameras |-> FALSE]
  /\ task = [c \in Cameras |-> "none"]
  /\ cancel = [c \in Cameras |-> TRUE]
  /\ hasError = [c \in Cameras |-> FALSE]
  /\ blink = [c \in Cameras |-> "none"]
  /\ cancelBlink = [c \in Cameras |-> FALSE]
  /\ led = [c \in Cameras |-> FALSE]

------------------------------------------------------------------------------
(* The environment: remote clients and signals.                            *)

Polling == phase \in {"poll", "errors", "events"}

\* A robot or dashboard writes a command entry and the update arrives.  The
\* admin server asks for a state by writing true to its entry and then false
\* to the entry of the opposite one.
RemoteWrite(c, k, v) ==
  /\ Polling
  /\ <<k, v>> \in RemoteWrites[c]
  /\ Len(queue) < QueueBound
  /\ nt' = IF v THEN nt \cup {<<c, k>>} ELSE nt \ {<<c, k>>}
  /\ queue' = Append(queue, [cam |-> c, key |-> k, value |-> v])
  /\ UNCHANGED <<quit, controllerVars, lightsVars, cameraVars>>

Signal ==
  /\ ~quit
  /\ quit' = TRUE
  /\ UNCHANGED <<nt, queue, controllerVars, lightsVars, cameraVars>>

------------------------------------------------------------------------------
(* The controller's main loop.                                             *)

\* PollEntryListener returns the waiting entries, or none after a timeout.
Poll ==
  /\ phase = "poll" /\ ~quit
  /\ phase' = "errors"
  /\ batch' = queue
  /\ queue' = <<>>
  /\ todo' = Cameras
  /\ UNCHANGED <<nt, quit, call, lightsVars, cameraVars>>

\* A signal is seen after the poll; the entries it returned are dropped.
PollQuit ==
  /\ phase = "poll" /\ quit
  /\ phase' = "shutdown"
  /\ queue' = <<>>
  /\ todo' = Cameras
  /\ UNCHANGED <<nt, quit, batch, call, lightsVars, cameraVars>>

\* No entry and no timeout: NetworkTables failed, Run throws to main.
PollError ==
  /\ phase = "poll" /\ ~quit /\ queue = <<>>
  /\ phase' = "aborted"
  /\ UNCHANGED <<remoteVars, batch, todo, call, lightsVars, cameraVars>>

\* std::exit destroys the static futures, which joins their tasks.
ExitAfterAbort ==
  /\ phase = "aborted"
  /\ \A c \in Cameras : /\ task[c] \in {"none", "done", "failed"}
                        /\ blink[c] \in {"none", "done"}
  /\ phase' = "exited"
  /\ UNCHANGED <<remoteVars, batch, todo, call, lightsVars, cameraVars>>

\* The lowest camera still to visit.
First(c) == c \in todo /\ \A d \in todo : c <= d

\* Where dispatch(CameraOn()) and dispatch(CameraOff()) lead: a transition,
\* which begins with the lights, nothing, or the reset of a status entry.
\* (Mutant: the error state ignores CameraOn and leaves its entry set.)
DispatchCameraOn_Ignored(c) ==
  /\ call' = IF cam[c] = "CameraOff"
             THEN [at |-> "lights", cam |-> c, event |-> "CameraOn"]
             ELSE call
  /\ UNCHANGED nt

DispatchCameraOn(c) ==
  \/ /\ cam[c] = "CameraOff"
     /\ call' = [at |-> "lights", cam |-> c, event |-> "CameraOn"]
     /\ UNCHANGED nt
  \/ /\ cam[c] = "CameraOn"
     /\ UNCHANGED <<call, nt>>
  \/ /\ cam[c] = "CameraError"
     /\ nt' = nt \ {<<c, "CameraOn">>}
     /\ UNCHANGED call

\* (Mutants: the camera leaves On without turning its lights off; Off resets
\* the entry like the error state does.)
DispatchCameraOff_LightsKept(c) ==
  /\ call' = IF cam[c] = "CameraOn"
             THEN [at |-> "camera", cam |-> c, event |-> "CameraOff"]
             ELSE call
  /\ UNCHANGED nt

DispatchCameraOff_Reset(c) ==
  \/ /\ cam[c] = "CameraOn"
     /\ call' = [at |-> "lights", cam |-> c, event |-> "CameraOff"]
     /\ UNCHANGED nt
  \/ /\ cam[c] \in {"CameraOff", "CameraError"}
     /\ nt' = nt \ {<<c, "CameraOff">>}
     /\ UNCHANGED call

DispatchCameraOff(c) ==
  \/ /\ cam[c] = "CameraOn"
     /\ call' = [at |-> "lights", cam |-> c, event |-> "CameraOff"]
     /\ UNCHANGED nt
  \/ /\ cam[c] = "CameraOff"
     /\ UNCHANGED <<call, nt>>
  \/ /\ cam[c] = "CameraError"
     /\ nt' = nt \ {<<c, "CameraOff">>}
     /\ UNCHANGED call

\* (Mutant: the scan forgets to act on the flag.)
ScanCamera_Blind(c) ==
  /\ phase = "errors" /\ call = Ready /\ First(c)
  /\ todo' = todo \ {c}
  /\ UNCHANGED <<remoteVars, phase, batch, call, lightsVars, cameraVars>>

\* The error scan at the head of each round.
ScanCamera(c) ==
  /\ phase = "errors" /\ call = Ready /\ First(c)
  /\ todo' = todo \ {c}
  /\ IF hasError[c] THEN DispatchCameraOff(c) ELSE UNCHANGED <<call, nt>>
  /\ UNCHANGED <<queue, quit, phase, batch, lightsVars, cameraVars>>

ScanDone ==
  /\ phase = "errors" /\ call = Ready /\ todo = {}
  /\ phase' = "events"
  /\ UNCHANGED <<remoteVars, batch, todo, call, lightsVars, cameraVars>>

\* One entry of the batch; entries set to false are notifications too, but
\* ask for nothing.
HandleEntry ==
  /\ phase = "events" /\ call = Ready /\ batch # <<>>
  /\ batch' = Tail(batch)
  /\ LET e == Head(batch) IN
       \/ /\ ~e.value
          /\ UNCHANGED <<call, nt>>
       \/ /\ e.value /\ e.key = "CameraOn"
          /\ DispatchCameraOn(e.cam)
       \/ /\ e.value /\ e.key = "CameraOff"
          /\ DispatchCameraOff(e.cam)
       \/ /\ e.value /\ e.key \in LightsStates
          /\ call' = [at |-> "lights", cam |-> e.cam, event |-> e.key]
          /\ UNCHANGED nt
  /\ UNCHANGED <<queue, quit, phase, todo, lightsVars, cameraVars>>

EventsDone ==
  /\ phase = "events" /\ call = Ready /\ batch = <<>>
  /\ phase' = "poll"
  /\ UNCHANGED <<remoteVars, batch, todo, call, lightsVars, cameraVars>>

\* ShutDown: CameraOff, then LightsOff, camera by camera.
ShutDownCamera(c) ==
  /\ phase = "shutdown" /\ call = Ready /\ First(c)
  /\ phase' = "lightsOut"
  /\ DispatchCameraOff(c)
  /\ UNCHANGED <<queue, quit, batch, todo, lightsVars, cameraVars>>

\* (Mutants: the lights are left alone; the camera is visited for ever.)
ShutDownLights_Skipped(c) ==
  /\ phase = "lightsOut" /\ call = Ready /\ First(c)
  /\ phase' = "shutdown"
  /\ todo' = todo \ {c}
  /\ UNCHANGED <<remoteVars, batch, call, lightsVars, cameraVars>>

ShutDownLights_Again(c) ==
  /\ phase = "lightsOut" /\ call = Ready /\ First(c)
  /\ phase' = "shutdown"
  /\ call' = [at |-> "lights", cam |-> c, event |-> "LightsOff"]
  /\ UNCHANGED <<remoteVars, batch, todo, lightsVars, cameraVars>>

ShutDownLights(c) ==
  /\ phase = "lightsOut" /\ call = Ready /\ First(c)
  /\ phase' = "shutdown"
  /\ todo' = todo \ {c}
  /\ call' = [at |-> "lights", cam |-> c, event |-> "LightsOff"]
  /\ UNCHANGED <<remoteVars, batch, lightsVars, cameraVars>>

ShutDownDone ==
  /\ phase = "shutdown" /\ call = Ready /\ todo = {}
  /\ phase' = "stopped"
  /\ UNCHANGED <<remoteVars, batch, todo, call, lightsVars, cameraVars>>

------------------------------------------------------------------------------
(* The Lights machine.  A camera handler begins with a lights event and    *)
(* resumes when the machine has reacted to it.                             *)

LightsEvent(event) ==
  CASE event \in LightsStates                -> event
    [] event = "CameraOn"                    -> "LightsOn"
    [] event \in {"CameraOff", "CameraError"} -> "LightsOff"

Resume ==
  call' = IF call.event \in {"CameraOn", "CameraOff"}
          THEN [call EXCEPT !.at = "camera"]
          ELSE Ready

\* exit() of one state and the part of entry() of the next that reports it.
Report(c, from, to) == nt' = (nt \ {<<c, from>>}) \cup {<<c, to>>}

\* Runner::SetLoggingEnabled.
SetLoggingEnabled(c, enabled) ==
  logging' = [logging EXCEPT ![c] = enabled /\ c \in LoggingCameras]

\* Off or Blinking to On, and On or Blinking to Off: the lamp and on_.
EnterSteady(c, to) ==
  /\ Report(c, lights[c], to)
  /\ lights' = [lights EXCEPT ![c] = to]
  /\ led'    = [led EXCEPT ![c] = (to = "LightsOn")]
  /\ isOn'   = [isOn EXCEPT ![c] = (to = "LightsOn")]

\* On and Off pass the event to the camera, which reacts only when it is on.
LightsSwitch(c) ==
  LET event == LightsEvent(call.event) IN
  /\ call.at = "lights" /\ call.cam = c
  /\ <<lights[c], event>> \in {<<"LightsOff", "LightsOn">>,
                               <<"LightsOn", "LightsOff">>}
  /\ IF cam[c] = "CameraOn"
     THEN SetLoggingEnabled(c, event = "LightsOn")
     ELSE UNCHANGED logging
  /\ EnterSteady(c, event)
  /\ Resume
  /\ UNCHANGED <<queue, quit, phase, batch, todo, blink, cancelBlink,
                 cam, task, cancel, hasError>>

\* On or Off to Blinking: the blink task is started.
LightsStartBlink(c) ==
  /\ call.at = "lights" /\ call.cam = c
  /\ LightsEvent(call.event) = "LightsBlink"
  /\ lights[c] # "LightsBlink"
  /\ Report(c, lights[c], "LightsBlink")
  /\ lights' = [lights EXCEPT ![c] = "LightsBlink"]
  /\ cancelBlink' = [cancelBlink EXCEPT ![c] = FALSE]
  /\ blink' = [blink EXCEPT ![c] = "spawned"]
  /\ Resume
  /\ UNCHANGED <<queue, quit, phase, batch, todo, isOn, led, cameraVars>>

\* (Mutant: the flag is never raised.)
LightsCancelBlink_NoFlag(c) ==
  /\ call.at = "lights" /\ call.cam = c
  /\ lights[c] = "LightsBlink"
  /\ LightsEvent(call.event) # "LightsBlink"
  /\ call' = [call EXCEPT !.at = "blinkJoin"]
  /\ UNCHANGED <<remoteVars, phase, batch, todo, lightsVars, cameraVars>>

\* Blinking::CancelTask up to the join.
LightsCancelBlink(c) ==
  /\ call.at = "lights" /\ call.cam = c
  /\ lights[c] = "LightsBlink"
  /\ LightsEvent(call.event) # "LightsBlink"
  /\ cancelBlink' = [cancelBlink EXCEPT ![c] = TRUE]
  /\ call' = [call EXCEPT !.at = "blinkJoin"]
  /\ UNCHANGED <<remoteVars, phase, batch, todo, lights, isOn, blink, led,
                 cameraVars>>

\* (Mutant: the future is not waited for.)
LightsJoinBlink_NoWait(c) ==
  /\ call.at = "blinkJoin" /\ call.cam = c
  /\ EnterSteady(c, LightsEvent(call.event))
  /\ Resume
  /\ UNCHANGED <<queue, quit, phase, batch, todo, blink, cancelBlink,
                 cameraVars>>

\* The join returns and the lights leave Blinking; the camera is not told.
LightsJoinBlink(c) ==
  /\ call.at = "blinkJoin" /\ call.cam = c
  /\ blink[c] = "done"
  /\ blink' = [blink EXCEPT ![c] = "none"]
  /\ EnterSteady(c, LightsEvent(call.event))
  /\ Resume
  /\ UNCHANGED <<queue, quit, phase, batch, todo, cancelBlink, cameraVars>>

\* The machine is in the state it is asked for.
LightsIgnore(c) ==
  /\ call.at = "lights" /\ call.cam = c
  /\ LightsEvent(call.event) = lights[c]
  /\ Resume
  /\ UNCHANGED <<remoteVars, phase, batch, todo, lightsVars, cameraVars>>

LightsStep(c) ==
  \/ LightsSwitch(c) \/ LightsStartBlink(c) \/ LightsCancelBlink(c)
  \/ LightsJoinBlink(c) \/ LightsIgnore(c)

------------------------------------------------------------------------------
(* The Camera machine, after its lights have reacted.                      *)

\* Off::exit and On::entry up to std::async, which starts the task.
CameraLaunch(c) ==
  /\ call.at = "camera" /\ call.cam = c /\ call.event = "CameraOn"
  /\ Report(c, "CameraOff", "CameraOn")
  /\ cam' = [cam EXCEPT ![c] = "CameraOn"]
  /\ hasError' = [hasError EXCEPT ![c] = FALSE]
  /\ task' = [task EXCEPT ![c] = "spawned"]
  /\ call' = [call EXCEPT !.at = "launched"]
  /\ UNCHANGED <<queue, quit, phase, batch, todo, lightsVars, logging, cancel>>

\* The rest of On::entry, racing the new task.
CameraEnableLogging(c) ==
  /\ call.at = "launched" /\ call.cam = c
  /\ SetLoggingEnabled(c, TRUE)
  /\ call' = Ready
  /\ UNCHANGED <<remoteVars, phase, batch, todo, lightsVars, cam, task,
                 cancel, hasError>>

\* (Mutant: Off::entry trusts the lights to have stopped the logging.)
CameraStop_LoggingKept(c) ==
  /\ call.at = "camera" /\ call.cam = c /\ call.event = "CameraOff"
  /\ Report(c, "CameraOn", "CameraOff")
  /\ cam' = [cam EXCEPT ![c] = "CameraOff"]
  /\ cancel' = [cancel EXCEPT ![c] = TRUE]
  /\ call' = [call EXCEPT !.at = "taskJoin"]
  /\ UNCHANGED <<queue, quit, phase, batch, todo, lightsVars, logging, task,
                 hasError>>

\* On::exit and Off::entry up to the join: Runner::Stop() is called.
CameraStop(c) ==
  /\ call.at = "camera" /\ call.cam = c /\ call.event = "CameraOff"
  /\ Report(c, "CameraOn", "CameraOff")
  /\ cam' = [cam EXCEPT ![c] = "CameraOff"]
  /\ SetLoggingEnabled(c, FALSE)
  /\ cancel' = [cancel EXCEPT ![c] = TRUE]
  /\ call' = [call EXCEPT !.at = "taskJoin"]
  /\ UNCHANGED <<queue, quit, phase, batch, todo, lightsVars, task, hasError>>

\* pipeline_future_.get() returns: the camera is off.
CameraJoin(c) ==
  /\ call.at = "taskJoin" /\ call.cam = c
  /\ task[c] \in {"none", "done"}
  /\ task' = [task EXCEPT ![c] = "none"]
  /\ call' = Ready
  /\ UNCHANGED <<remoteVars, phase, batch, todo, lightsVars, cam, logging,
                 cancel, hasError>>

\* (Mutant: the error flag survives the error it reported.)
CameraJoinFailed_FlagKept(c) ==
  /\ call.at = "taskJoin" /\ call.cam = c
  /\ task[c] = "failed"
  /\ task' = [task EXCEPT ![c] = "none"]
  /\ cam' = [cam EXCEPT ![c] = "CameraError"]
  /\ Report(c, "CameraOff", "CameraError")
  /\ call' = [at |-> "lights", cam |-> c, event |-> "CameraError"]
  /\ UNCHANGED <<queue, quit, phase, batch, todo, lightsVars, logging, cancel,
                 hasError>>

\* pipeline_future_.get() throws: Off is left for Error, whose entry turns
\* the lights off.
CameraJoinFailed(c) ==
  /\ call.at = "taskJoin" /\ call.cam = c
  /\ task[c] = "failed"
  /\ task' = [task EXCEPT ![c] = "none"]
  /\ hasError' = [hasError EXCEPT ![c] = FALSE]
  /\ cam' = [cam EXCEPT ![c] = "CameraError"]
  /\ Report(c, "CameraOff", "CameraError")
  /\ call' = [at |-> "lights", cam |-> c, event |-> "CameraError"]
  /\ UNCHANGED <<queue, quit, phase, batch, todo, lightsVars, logging, cancel>>

CameraStep(c) ==
  \/ CameraLaunch(c) \/ CameraEnableLogging(c) \/ CameraStop(c)
  \/ CameraJoin(c) \/ CameraJoinFailed(c)

------------------------------------------------------------------------------
(* The pipeline task: the lambda in On::entry around Runner::Run.          *)

taskFrame == <<remoteVars, controllerVars, lightsVars, cam, logging>>

\* (Mutant: a cancel flag left over from the last stop is not cleared.)
TaskStart_CancelKept(c) ==
  /\ task[c] = "spawned"
  /\ task' = [task EXCEPT ![c] = "running"]
  /\ UNCHANGED <<taskFrame, cancel, hasError>>

\* Run begins by clearing the cancel flag.
TaskStart(c) ==
  /\ task[c] = "spawned"
  /\ task' = [task EXCEPT ![c] = "running"]
  /\ cancel' = [cancel EXCEPT ![c] = FALSE]
  /\ UNCHANGED <<taskFrame, hasError>>

\* (Mutant: the loop consumes the flag and goes on.)
TaskFinish_Forgotten(c) ==
  /\ task[c] = "running" /\ cancel[c]
  /\ cancel' = [cancel EXCEPT ![c] = FALSE]
  /\ UNCHANGED <<taskFrame, task, hasError>>

\* The loop sees the cancel flag and Run returns.
TaskFinish(c) ==
  /\ task[c] = "running" /\ cancel[c]
  /\ task' = [task EXCEPT ![c] = "done"]
  /\ UNCHANGED <<taskFrame, cancel, hasError>>

\* Run hangs in the future of its frame logger: an exception destroys the
\* logger while it runs, or it is started twice, and nobody cancels it.
TaskStick(c) ==
  /\ task[c] = "running" /\ c \in LoggingCameras
  /\ task' = [task EXCEPT ![c] = "stuck"]
  /\ UNCHANGED <<taskFrame, cancel, hasError>>

\* Run throws and the handler in the lambda sets the error flag ...
TaskThrow(c) ==
  /\ task[c] = "running"
  /\ task' = [task EXCEPT ![c] = "throwing"]
  /\ hasError' = [hasError EXCEPT ![c] = TRUE]
  /\ UNCHANGED <<taskFrame, cancel>>

\* ... before the rethrown exception reaches the future.
TaskRethrow(c) ==
  /\ task[c] = "throwing"
  /\ task' = [task EXCEPT ![c] = "failed"]
  /\ UNCHANGED <<taskFrame, cancel, hasError>>

------------------------------------------------------------------------------
(* The blink task: the lambda in Blinking::entry.                          *)

\* The lamp is lit at the start and every other period after a dark one.
BlinkOn(c) ==
  /\ \/ blink[c] = "spawned"
     \/ blink[c] = "dark" /\ ~cancelBlink[c]
  /\ blink' = [blink EXCEPT ![c] = "lit"]
  /\ led' = [led EXCEPT ![c] = TRUE]
  /\ UNCHANGED <<remoteVars, controllerVars, lights, isOn, cancelBlink,
                 cameraVars>>

BlinkOff(c) ==
  /\ blink[c] = "lit" /\ ~cancelBlink[c]
  /\ blink' = [blink EXCEPT ![c] = "dark"]
  /\ led' = [led EXCEPT ![c] = FALSE]
  /\ UNCHANGED <<remoteVars, controllerVars, lights, isOn, cancelBlink,
                 cameraVars>>

\* The flag is looked at after each sleep, and ends the task as it is.
BlinkEnd(c) ==
  /\ blink[c] \in {"lit", "dark"} /\ cancelBlink[c]
  /\ blink' = [blink EXCEPT ![c] = "done"]
  /\ UNCHANGED <<remoteVars, controllerVars, lights, isOn, cancelBlink, led,
                 cameraVars>>

BlinkStep(c) == BlinkOn(c) \/ BlinkOff(c) \/ BlinkEnd(c)

------------------------------------------------------------------------------
Remote ==
  \/ \E c \in Cameras : \E k \in Commands, v \in BOOLEAN :
       RemoteWrite(c, k, v)
  \/ Signal

MainLoop ==
  \/ Poll \/ PollQuit \/ PollError \/ ExitAfterAbort
  \/ \E c \in Cameras : ScanCamera(c)
  \/ ScanDone \/ HandleEntry \/ EventsDone
  \/ \E c \in Cameras : ShutDownCamera(c) \/ ShutDownLights(c)
  \/ ShutDownDone

Controller ==
  \/ MainLoop
  \/ \E c \in Cameras : LightsStep(c) \/ CameraStep(c)

Tasks ==
  \E c \in Cameras :
    \/ TaskStart(c) \/ TaskFinish(c) \/ TaskStick(c)
    \/ TaskThrow(c) \/ TaskRethrow(c) \/ BlinkStep(c)

\* Run has returned, the process is gone, or the frame logger a stuck task
\* waits for goes on polling its queue (full_frame.cpp:21-24).
Terminated ==
  /\ phase \in {"stopped", "exited"} \/ \E c \in Cameras : task[c] = "stuck"
  /\ UNCHANGED vars

Next == Remote \/ Controller \/ Tasks \/ Terminated

Spec == Init /\ [][Next]_vars

\* The operating system schedules every thread.  Nothing makes a client
\* write, a signal arrive, a pipeline throw or a frame logger hang.
Fairness ==
  /\ WF_vars(Controller)
  /\ \A c \in Cameras :
       /\ WF_vars(TaskStart(c))
       /\ WF_vars(TaskFinish(c))
       /\ WF_vars(TaskRethrow(c))
       /\ WF_vars(BlinkStep(c))

FairSpec == Spec /\ Fairness

------------------------------------------------------------------------------
(* Safety.                                                                 *)

InHandler(c) == call # Ready /\ call.cam = c
AtTaskJoin(c) == call # Ready /\ call.at = "taskJoin" /\ call.cam = c

\* has_error_ says exactly that the current pipeline task has thrown: no
\* error is left over for the next task, and the error scan, which turns
\* every camera with an error off, always finds the camera on
\* (controller.cpp:168-175, camera.cpp:27,33,78).
ErrorFlagExact ==
  \A c \in Cameras :
    /\ hasError[c] <=> task[c] \in {"throwing", "failed"}
    /\ hasError[c] => cam[c] = "CameraOn" \/ AtTaskJoin(c)

\* A lamp is steady when the lights machine is: the blink task, which also
\* drives the lamp, is gone before On or Off is entered, and a lamp left lit
\* by its last half period is put out again (lights.cpp:32-37,77-98,107-112).
LampSteady ==
  \A c \in Cameras :
    lights[c] # "LightsBlink" =>
      /\ blink[c] = "none"
      /\ led[c] = isOn[c]
      /\ isOn[c] <=> lights[c] = "LightsOn"

\* No status entry claims a state its machine is not in, whatever clients
\* write and clear, unless the command it also stands for is still waiting
\* for the controller; and the entry of the state the machine is in is set,
\* unless it is one that clients clear (camera.cpp:25-121,
\* lights.cpp:32-123).
Waiting(c, k) ==
  LET e == [cam |-> c, key |-> k, value |-> TRUE]
      In(s) == \E i \in DOMAIN s : s[i] = e
  IN  In(queue) \/ In(batch)

StatusTruthful ==
  Polling => \A c \in Cameras :
    /\ \A k \in {cam[c], lights[c]} :
         <<c, k>> \in nt \/ <<k, FALSE>> \in RemoteWrites[c]
    /\ call = Ready =>
         \A k \in Keys \ {cam[c], lights[c]} : <<c, k>> \in nt => Waiting(c, k)

\* Frames are logged only for a camera that is on and configured to log:
\* the flag never survives the camera, whatever the lights did
\* (camera.cpp:37,47-55,69, runner.cpp:47-49).
LoggingOwned ==
  \A c \in Cameras :
    logging[c] => cam[c] = "CameraOn" /\ c \in LoggingCameras

\* When Run returns after a signal nothing is left behind: every task has
\* been joined, every lamp is out and every error was taken note of
\* (controller.cpp:157-161,458-493).
CleanStop ==
  phase = "stopped" =>
    \A c \in Cameras :
      /\ task[c] = "none" /\ blink[c] = "none"
      /\ cam[c] # "CameraOn" /\ ~led[c] /\ ~hasError[c]

------------------------------------------------------------------------------
(* The inductive invariant behind them.                                    *)

\* Where a handler is tells what its camera and its lights already are: the
\* controller is the only thread that moves either machine.
HandlerInv ==
  call # Ready =>
    /\ call.event = "CameraOn" =>
         cam[call.cam] = IF call.at = "launched" THEN "CameraOn" ELSE "CameraOff"
    /\ call.event = "CameraOff" =>
         cam[call.cam] = IF call.at = "taskJoin" THEN "CameraOff" ELSE "CameraOn"
    /\ call.event = "CameraError" =>
         /\ call.at = "lights"
         /\ cam[call.cam] = "CameraError" /\ lights[call.cam] = "LightsOff"
    /\ call.at = "camera" => call.event \in {"CameraOn", "CameraOff"}
    /\ call.at = "launched" => call.event = "CameraOn"
    /\ call.at = "taskJoin" => call.event = "CameraOff"
    /\ call.at = "blinkJoin" =>
         lights[call.cam] = "LightsBlink" /\ call.event # "LightsBlink"
    /\ call.event = "CameraOff" /\ call.at \in {"camera", "taskJoin"} =>
         lights[call.cam] = "LightsOff"

\* A pipeline task exists while its camera is on or being stopped; it has
\* ended normally only in the latter case, because Run clears a cancel flag
\* left over from an earlier stop before its loop looks at it.
TaskInv ==
  \A c \in Cameras :
    /\ task[c] = "none" <=> cam[c] # "CameraOn" /\ ~AtTaskJoin(c)
    /\ task[c] = "done" => AtTaskJoin(c)
    /\ cam[c] = "CameraOn" /\ task[c] = "running" => ~cancel[c]

BlinkInv ==
  \A c \in Cameras : blink[c] # "none" <=> lights[c] = "LightsBlink"

\* Everything an action needs to know to preserve the safety properties.
IInv ==
  /\ TypeOK /\ HandlerInv /\ TaskInv /\ BlinkInv
  /\ ErrorFlagExact /\ LampSteady /\ LoggingOwned

------------------------------------------------------------------------------
(* What a step may never do.                                               *)

\* When a pipeline failure puts a camera into error its lights have already
\* been turned off and no blink task can light the lamp again, even if the
\* lights were blinking when it failed (camera.cpp:41-45,101-105).
FailureDarkens ==
  [][\A c \in Cameras :
       cam[c] # "CameraError" /\ cam'[c] = "CameraError" =>
         lights'[c] = "LightsOff" /\ blink'[c] = "none" /\ ~led'[c]]_vars

\* The daemon's own steps never take the entry of the state a machine is in:
\* they leave it set whenever they change the state, and only a client's write
\* can clear it in between (camera.cpp:25-121, lights.cpp:32-123).
StatusShown ==
  [][\A c \in Cameras :
       /\ \/ <<c, cam'[c]>> \in nt'
          \/ cam'[c] = cam[c] /\ (<<c, cam[c]>> \in nt => Len(queue') > Len(queue))
       /\ \/ <<c, lights'[c]>> \in nt'
          \/ lights'[c] = lights[c]
             /\ (<<c, lights[c]>> \in nt => Len(queue') > Len(queue))]_vars

------------------------------------------------------------------------------
(* The abstract specification it implements.                               *)

\* A camera is stopping while the controller waits for its task.
ModeOf(c) ==
  IF AtTaskJoin(c) THEN "stopping"
  ELSE [CameraOff |-> "off", CameraOn |-> "on", CameraError |-> "error"][cam[c]]

WorkerOf(c) ==
  CASE task[c] = "none"                   -> "idle"
    [] task[c] = "done"                   -> "ended"
    [] task[c] \in {"throwing", "failed"} -> "crashed"
    [] OTHER                              -> "busy"

mode   == [c \in Cameras |-> ModeOf(c)]
worker == [c \in Cameras |-> WorkerOf(c)]

Lifecycle == INSTANCE CameraLifecycle WITH mode <- mode, worker <- worker

\* The daemon implements CameraLifecycle: one pipeline task per camera that
\* is on, which ends only when asked or by throwing, and a throw always ends
\* in the error state, which is never left (camera.cpp:25-121).
ImplementsLifecycle == Lifecycle!Spec

------------------------------------------------------------------------------
(* Liveness.                                                               *)

\* A stop nobody will answer: the pipeline task was still to clear the
\* cancel flag when Runner::Stop() set it, or it is stuck in its logger.
Unanswered(c) ==
  AtTaskJoin(c) /\ (task[c] = "stuck" \/ (task[c] = "running" /\ ~cancel[c]))

\* A stop that finds the task past its start is honoured, unless the task
\* gets stuck, and the controller gets back to its other cameras.
StopHonoured ==
  \A c \in Cameras :
    (AtTaskJoin(c) /\ task[c] # "spawned" /\ ~Unanswered(c))
      ~> (~AtTaskJoin(c) \/ task[c] = "stuck")

\* Waiting for the blink task always ends: it polls its flag every half
\* period (lights.cpp:60-70,77-87).
BlinkJoinEnds ==
  (call # Ready /\ call.at = "blinkJoin") ~>
    (call = Ready \/ call.at # "blinkJoin")

\* A pipeline that throws is reported: its camera ends in the error state,
\* unless the daemon gave up or waits for a camera that does not answer
\* (controller.cpp:168-175).
FailureReported ==
  \A c \in Cameras :
    hasError[c] ~> \/ cam[c] = "CameraError"
                   \/ phase \in {"aborted", "exited"}
                   \/ \E d \in Cameras : Unanswered(d)

\* After a signal Run returns, and nothing but an unanswered stop prevents it
\* (controller.cpp:157-161).
SignalStops ==
  quit ~> \/ phase \in {"stopped", "aborted", "exited"}
          \/ \E c \in Cameras : Unanswered(c)

\* A camera told to turn off while it is on gets there: the comment at
\* controller.cpp:168-170 has CameraOff cancel the pipeline task.
CameraOffCompletes ==
  \A c \in Cameras : AtTaskJoin(c) ~> ~AtTaskJoin(c)
==============================================================================
