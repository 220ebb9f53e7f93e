------------------------- MODULE CameraStatus_proofs -------------------------
(***************************************************************************)
(* More theorems about CameraControl: a stop leaves nothing behind,        *)
(* and the status entries are truthful whatever clients write and clear.   *)
(***************************************************************************)
EXTENDS CameraControl_proofs

USE DEF CameraStates, LightsStates, Commands, Keys, Ready, Calls,
        remoteVars, controllerVars, lightsVars, cameraVars, taskFrame, vars

\* The controller is idle, or handles an event of a camera.
LEMMA CallFacts ==
  ASSUME TypeOK
  PROVE  call = Ready \/ (call \in Calls /\ call # Ready /\ call.cam \in Cameras)
BY DEF TypeOK, ControllerType

\* The steps that matter here.
Background ==
  UNCHANGED <<nt, queue, batch, phase, todo, call, cam, lights>>

LEMMA Steps ==
  ASSUME [Next]_vars
  PROVE  \/ Background
         \/ Poll \/ PollQuit \/ PollError \/ ExitAfterAbort
         \/ ScanDone \/ HandleEntry \/ EventsDone \/ ShutDownDone
         \/ \E c \in Cameras :
              \/ \E k \in Commands, v \in BOOLEAN : RemoteWrite(c, k, v)
              \/ ScanCamera(c) \/ ShutDownCamera(c) \/ ShutDownLights(c)
              \/ LightsStep(c) \/ CameraStep(c)
<1>1. ASSUME NEW c \in Cameras,
             TaskStart(c) \/ TaskFinish(c) \/ TaskStick(c) \/ TaskThrow(c) \/ TaskRethrow(c)
      PROVE  Background
  BY <1>1 DEF TaskStart, TaskFinish, TaskStick, TaskThrow, TaskRethrow, Background
<1>2. ASSUME NEW c \in Cameras, BlinkStep(c) PROVE Background
  BY <1>2 DEF BlinkStep, BlinkOn, BlinkOff, BlinkEnd, Background
<1>3. CASE Signal \/ Terminated \/ UNCHANGED vars
  BY <1>3 DEF Signal, Terminated, Background
<1> QED
  BY <1>1, <1>2, <1>3 DEF Next, Remote, Controller, MainLoop, Tasks

\* What a lights handler does: it starts waiting for the blink task, or leaves
\* the lights as they were asked for and the status entries accordingly.
LEMMA LightsFacts ==
  ASSUME IInv, NEW c \in Cameras, LightsStep(c)
  PROVE  /\ call \in Calls /\ call.cam = c
         /\ UNCHANGED <<queue, phase, batch, todo, cam>>
         /\ lights' \in [Cameras -> LightsStates]
         /\ \A d \in Cameras \ {c} : lights'[d] = lights[d]
         /\ \/ /\ call' = [call EXCEPT !.at = "blinkJoin"]
               /\ UNCHANGED <<lights, nt>>
            \/ /\ Resume /\ lights'[c] = LightsEvent(call.event)
               /\ \/ nt' = nt /\ lights' = lights
                  \/ Report(c, lights[c], lights'[c])
<1> USE DEF IInv, TypeOK, ControllerType, LightsType
<1>0. call \in Calls /\ call.cam = c
  BY DEF LightsStep, LightsSwitch, LightsStartBlink, LightsCancelBlink,
     LightsJoinBlink, LightsIgnore
<1>1. CASE LightsSwitch(c)
  BY <1>0, <1>1 DEF LightsSwitch, EnterSteady, LightsEvent
<1>2. CASE LightsStartBlink(c)
  BY <1>0, <1>2 DEF LightsStartBlink, LightsEvent
<1>3. CASE LightsCancelBlink(c)
  BY <1>0, <1>3 DEF LightsCancelBlink
<1>4. CASE LightsJoinBlink(c)
  <2>1. LightsEvent(call.event) \in LightsStates
    BY <1>0 DEF LightsEvent
  <2> QED
    BY <1>0, <1>4, <2>1 DEF LightsJoinBlink, EnterSteady
<1>5. CASE LightsIgnore(c)
  BY <1>0, <1>5 DEF LightsIgnore
<1> QED
  BY <1>1, <1>2, <1>3, <1>4, <1>5 DEF LightsStep

\* What a camera handler does after its lights have reacted.
LEMMA CameraFacts ==
  ASSUME IInv, NEW c \in Cameras, CameraStep(c)
  PROVE  /\ call \in Calls /\ call.cam = c
         /\ UNCHANGED <<queue, phase, batch, todo, lights>>
         /\ cam' \in [Cameras -> CameraStates]
         /\ \A d \in Cameras \ {c} : cam'[d] = cam[d]
         /\ \/ /\ call.event = "CameraOn" /\ cam'[c] = "CameraOn"
               /\ call' = Ready \/ (call' \in Calls /\ call'.event = "CameraOn"
                                                 /\ call'.cam = c)
               /\ \/ nt' = nt /\ cam[c] = "CameraOn"
                  \/ cam[c] = "CameraOff" /\ Report(c, "CameraOff", "CameraOn")
            \/ /\ call.event = "CameraOff" /\ cam'[c] = "CameraOff"
               /\ call' = Ready \/ (call' \in Calls /\ call'.event = "CameraOff"
                                                 /\ call'.cam = c)
               /\ \/ nt' = nt /\ cam[c] = "CameraOff"
                  \/ cam[c] = "CameraOn" /\ Report(c, "CameraOn", "CameraOff")
            \/ /\ call.event = "CameraOff" /\ cam'[c] = "CameraError"
               /\ call' = [at |-> "lights", cam |-> c, event |-> "CameraError"]
               /\ cam[c] = "CameraOff" /\ Report(c, "CameraOff", "CameraError")
<1> USE DEF IInv, TypeOK, ControllerType, CameraType, HandlerInv
<1>0. call \in Calls /\ call.cam = c /\ call # Ready
  <2>1. call.at \in {"camera", "launched", "taskJoin"} /\ call.cam = c
    BY DEF CameraStep, CameraLaunch, CameraEnableLogging, CameraStop, CameraJoin,
       CameraJoinFailed
  <2>2. call # Ready
    BY <2>1
  <2> QED
    BY <2>1, <2>2, CallFacts
<1>1. CASE CameraLaunch(c)
  BY <1>0, <1>1 DEF CameraLaunch
<1>2. CASE CameraEnableLogging(c)
  BY <1>0, <1>2 DEF CameraEnableLogging, SetLoggingEnabled
<1>3. CASE CameraStop(c)
  BY <1>0, <1>3 DEF CameraStop, SetLoggingEnabled
<1>4. CASE CameraJoin(c)
  BY <1>0, <1>4 DEF CameraJoin
<1>5. CASE CameraJoinFailed(c)
  BY <1>0, <1>5 DEF CameraJoinFailed
<1> QED
  BY <1>1, <1>2, <1>3, <1>4, <1>5 DEF CameraStep

------------------------------------------------------------------------------
(* Stopping.                                                               *)

\* What has been turned off by a stop, and what the handler of the moment is
\* about to turn off.
StopInv ==
  /\ phase \in {"poll", "stopped", "aborted", "exited"} => call = Ready
  /\ phase = "stopped" => todo = {}
  /\ phase \in {"shutdown", "lightsOut", "stopped"} =>
       \A c \in Cameras \ todo :
         cam[c] # "CameraOn" /\ (InHandler(c) \/ lights[c] = "LightsOff")
  /\ phase = "shutdown" /\ call # Ready =>
       call.event = "LightsOff" /\ call.cam \notin todo
  /\ phase = "lightsOut" /\ call # Ready =>
       First(call.cam) /\ call.event \in {"CameraOff", "CameraError"}
  /\ phase = "lightsOut" /\ call = Ready =>
       \A c \in Cameras : First(c) => cam[c] # "CameraOn"

LEMMA FirstIsOne ==
  ASSUME NEW c \in Cameras, NEW d \in Cameras, First(c), First(d)
  PROVE  c = d
<1>1. c \in 0..4 /\ d \in 0..4
  BY CamerasAssumption
<1> QED
  BY <1>1 DEF First

\* Turning a camera off begins with its lights, if it is on at all.
LEMMA OffFacts ==
  ASSUME NEW c \in Cameras, DispatchCameraOff(c)
  PROVE  \/ /\ cam[c] = "CameraOn" /\ nt' = nt
            /\ call' = [at |-> "lights", cam |-> c, event |-> "CameraOff"]
         \/ /\ cam[c] # "CameraOn" /\ call' = call
            /\ nt' = nt \/ (cam[c] = "CameraError" /\ nt' = nt \ {<<c, "CameraOff">>})
BY DEF DispatchCameraOff

LEMMA StopStep ==
  ASSUME IInv, StopInv, [Next]_vars
  PROVE  StopInv'
<1> USE DEF StopInv, InHandler
<1>1. CASE Background
  BY <1>1 DEF Background, First
<1>2. CASE Poll \/ ScanDone \/ HandleEntry \/ EventsDone
  BY <1>2 DEF Poll, ScanDone, HandleEntry, EventsDone
<1>3. CASE PollQuit
  BY <1>3 DEF PollQuit
<1>4. CASE PollError \/ ExitAfterAbort
  BY <1>4 DEF PollError, ExitAfterAbort
<1>5. CASE ShutDownDone
  BY <1>5 DEF ShutDownDone
<1>6. ASSUME NEW c \in Cameras, ScanCamera(c) PROVE StopInv'
  BY <1>6 DEF ScanCamera
<1>7. ASSUME NEW c \in Cameras, NEW k \in Commands, NEW v \in BOOLEAN,
             RemoteWrite(c, k, v)
      PROVE  StopInv'
  BY <1>7 DEF RemoteWrite, Polling, First
<1>8. ASSUME NEW c \in Cameras, ShutDownCamera(c) PROVE StopInv'
  <2>1. /\ phase = "shutdown" /\ phase' = "lightsOut" /\ call = Ready
        /\ UNCHANGED <<todo, cam, lights>> /\ First(c) /\ DispatchCameraOff(c)
    BY <1>8 DEF ShutDownCamera
  <2>2. \A d \in Cameras \ todo : cam[d] # "CameraOn" /\ lights[d] = "LightsOff"
    BY <2>1
  <2>3. First(c)'
    BY <2>1 DEF First
  <2>4. CASE call' = [at |-> "lights", cam |-> c, event |-> "CameraOff"]
    <3>1. call' # Ready /\ call'.cam = c /\ call'.event = "CameraOff"
      BY <2>4
    <3> QED
      BY <2>1, <2>2, <2>3, <3>1
  <2>5. CASE cam[c] # "CameraOn" /\ call' = call
    <3>1. \A d \in Cameras : First(d)' => d = c
      BY <2>1, FirstIsOne DEF First
    <3> QED
      BY <2>1, <2>2, <2>5, <3>1
  <2> QED
    BY <2>1, <2>4, <2>5, OffFacts
<1>9. ASSUME NEW c \in Cameras, ShutDownLights(c) PROVE StopInv'
  <2>1. /\ phase = "lightsOut" /\ phase' = "shutdown" /\ call = Ready
        /\ UNCHANGED <<cam, lights>> /\ First(c) /\ todo' = todo \ {c}
        /\ call' = [at |-> "lights", cam |-> c, event |-> "LightsOff"]
    BY <1>9 DEF ShutDownLights
  <2>2. call' # Ready /\ call'.cam = c /\ call'.event = "LightsOff"
    BY <2>1
  <2>3. cam[c] # "CameraOn"
    BY <2>1
  <2>4. \A d \in Cameras \ todo : cam[d] # "CameraOn" /\ lights[d] = "LightsOff"
    BY <2>1
  <2> QED
    BY <2>1, <2>2, <2>3, <2>4
<1>10. ASSUME NEW c \in Cameras, LightsStep(c) PROVE StopInv'
  <2>1. /\ call \in Calls /\ call.cam = c /\ call # Ready
        /\ UNCHANGED <<phase, todo, cam>>
        /\ \A d \in Cameras \ {c} : lights'[d] = lights[d]
    BY <1>10, LightsFacts
  <2>2. First(c)' <=> First(c)
    BY <2>1 DEF First
  <2>3. CASE /\ call' = [call EXCEPT !.at = "blinkJoin"] /\ lights' = lights
    <3>1. call' # Ready /\ call'.cam = c /\ call'.event = call.event
      BY <2>1, <2>3
    <3> QED
      BY <2>1, <2>2, <2>3, <3>1
  <2>4. CASE Resume /\ lights'[c] = LightsEvent(call.event)
    <3>1. \/ /\ call' # Ready /\ call'.cam = c /\ call'.event = call.event
             /\ call.event \in {"CameraOn", "CameraOff"}
          \/ call' = Ready /\ call.event \notin {"CameraOn", "CameraOff"}
      BY <2>1, <2>4 DEF Resume
    <3>2. CASE phase = "shutdown"
      <4>1. call.event = "LightsOff" /\ c \notin todo
        BY <2>1, <3>2
      <4>2. call' = Ready /\ lights'[c] = "LightsOff"
        BY <2>4, <3>1, <4>1 DEF LightsEvent
      <4>3. \A d \in Cameras \ todo :
              cam[d] # "CameraOn" /\ (d # c => lights[d] = "LightsOff")
        BY <2>1, <3>2
      <4> QED
        BY <2>1, <3>2, <4>1, <4>2, <4>3
    <3>3. CASE phase = "lightsOut"
      <4>1. First(c) /\ call.event \in {"CameraOff", "CameraError"} /\ c \in todo
        BY <2>1, <3>3 DEF First
      <4>2. \A d \in Cameras \ todo : cam[d] # "CameraOn" /\ lights'[d] = "LightsOff"
        BY <2>1, <3>3, <4>1
      <4>3. call' = Ready => cam[c] # "CameraOn"
        BY <2>1, <3>1, <4>1 DEF IInv, HandlerInv
      <4>4. \A d \in Cameras : First(d)' => d = c
        BY <2>1, <4>1, FirstIsOne DEF First
      <4>5. call' # Ready =>
              /\ call'.event \in {"CameraOff", "CameraError"} /\ First(call.cam)'
        <5> SUFFICES ASSUME call' # Ready
                     PROVE  call'.event = "CameraOff" /\ First(call.cam)'
          OBVIOUS
        <5>1. call'.cam = c /\ call'.event = "CameraOff"
          BY <2>1, <3>1, <4>1
        <5>2. First(call.cam)'
          BY <2>2, <4>1, <5>1 DEF First
        <5> QED
          BY <5>1, <5>2
      <4> QED
        BY <2>1, <3>3, <4>2, <4>3, <4>4, <4>5
    <3>4. CASE phase \notin {"shutdown", "lightsOut"}
      BY <2>1, <3>4
    <3> QED
      BY <3>2, <3>3, <3>4
  <2> QED
    BY <1>10, <2>3, <2>4, LightsFacts
<1>11. ASSUME NEW c \in Cameras, CameraStep(c) PROVE StopInv'
  <2>1. /\ call \in Calls /\ call.cam = c /\ call # Ready
        /\ UNCHANGED <<phase, todo, lights>>
        /\ \A d \in Cameras \ {c} : cam'[d] = cam[d]
        /\ call.event \in {"CameraOn", "CameraOff"}
        /\ call.event = "CameraOff" =>
             /\ cam'[c] # "CameraOn"
             /\ \/ call' = Ready
                \/ /\ call' # Ready /\ call'.cam = c
                   /\ call'.event \in {"CameraOff", "CameraError"}
    BY <1>11, CameraFacts
  <2>2. CASE phase = "lightsOut"
    <3>1. First(c) /\ call.event = "CameraOff" /\ c \in todo
      BY <2>1, <2>2 DEF First
    <3>2. \A d \in Cameras \ todo : cam'[d] # "CameraOn" /\ lights'[d] = "LightsOff"
      BY <2>1, <2>2, <3>1
    <3>3. \A d \in Cameras : First(d)' => d = c
      BY <2>1, <3>1, FirstIsOne DEF First
    <3>4. First(c)'
      BY <2>1, <3>1 DEF First
    <3> QED
      BY <2>1, <2>2, <3>1, <3>2, <3>3, <3>4
  <2>3. CASE phase # "lightsOut"
    <3>1. phase \notin {"shutdown", "stopped", "poll", "aborted", "exited"}
      BY <2>1
    <3> QED
      BY <2>1, <2>3, <3>1
  <2> QED
    BY <2>2, <2>3
<1> QED
  BY <1>1, <1>2, <1>3, <1>4, <1>5, <1>6, <1>7, <1>8, <1>9, <1>10, <1>11, Steps

\* When Run returns after a signal, every task has been joined, every lamp is
\* out and every error was taken note of, for any cameras in any state
\* (controller.cpp:157-161,458-493).
THEOREM StopIsClean == Spec => []CleanStop
<1>1. Init => StopInv
  BY DEF Init, StopInv
<1>2. IInv /\ StopInv /\ [Next]_vars => StopInv'
  BY StopStep
<1>3. IInv /\ StopInv => CleanStop
  <2> SUFFICES ASSUME IInv, StopInv, phase = "stopped", NEW c \in Cameras
               PROVE  /\ task[c] = "none" /\ blink[c] = "none"
                      /\ cam[c] # "CameraOn" /\ ~led[c] /\ ~hasError[c]
    BY DEF CleanStop
  <2>1. call = Ready /\ cam[c] # "CameraOn" /\ lights[c] = "LightsOff"
    BY DEF StopInv, InHandler
  <2>2. task[c] = "none" /\ ~hasError[c]
    BY <2>1 DEF IInv, TaskInv, ErrorFlagExact, AtTaskJoin
  <2>3. blink[c] = "none"
    BY <2>1 DEF IInv, BlinkInv, TypeOK, LightsType
  <2>4. ~led[c]
    <3>1. led[c] = isOn[c] /\ (isOn[c] <=> lights[c] = "LightsOn")
      BY <2>1, Zenon DEF IInv, LampSteady
    <3>2. lights[c] # "LightsOn"
      BY <2>1
    <3> QED
      BY <3>1, <3>2, Zenon
  <2> QED
    BY <2>1, <2>2, <2>3, <2>4
<1> QED
  BY <1>1, <1>2, <1>3, Inductive, PTL DEF Spec

------------------------------------------------------------------------------
(* Status entries.                                                         *)

Holds(s, e) == \E i \in DOMAIN s : s[i] = e

\* What a client asks for by setting an entry.
Asked(c, k) == [cam |-> c, key |-> k, value |-> TRUE]

LEMMA WaitingFacts ==
  ASSUME NEW c, NEW k
  PROVE  Waiting(c, k) <=> Holds(queue, Asked(c, k)) \/ Holds(batch, Asked(c, k))
BY DEF Waiting, Holds, Asked

LEMMA HoldsAppend ==
  ASSUME NEW S, NEW s \in Seq(S), NEW e \in S
  PROVE  /\ Holds(Append(s, e), e)
         /\ \A x : Holds(s, x) => Holds(Append(s, e), x)
BY DEF Holds

LEMMA HoldsTail ==
  ASSUME NEW S, NEW s \in Seq(S), s # <<>>, NEW x, Holds(s, x)
  PROVE  x = Head(s) \/ Holds(Tail(s), x)
<1>1. PICK i \in DOMAIN s : s[i] = x
  BY DEF Holds
<1>2. CASE i = 1
  BY <1>1, <1>2
<1>3. CASE i # 1
  <2>1. i - 1 \in DOMAIN Tail(s) /\ Tail(s)[i - 1] = s[i]
    BY <1>1, <1>3
  <2> QED
    BY <1>1, <2>1 DEF Holds
<1> QED
  BY <1>2, <1>3

\* The command whose handler the controller is in.
Handling(c, k) == call # Ready /\ call.cam = c /\ call.event = k

\* What the status entries of one camera say.
Truthful(c) ==
  /\ \A k \in {cam[c], lights[c]} :
       <<c, k>> \in nt \/ <<k, FALSE>> \in RemoteWrites[c]
  /\ \A k \in Keys \ {cam[c], lights[c]} :
       <<c, k>> \in nt => Waiting(c, k) \/ Handling(c, k)

StatusInv ==
  Polling => /\ phase = "poll" => batch = <<>>
             /\ \A c \in Cameras : Truthful(c)

\* Entries that are neither read nor written stay as truthful as they were.
LEMMA TruthfulKept ==
  ASSUME NEW c \in Cameras, Truthful(c), cam'[c] = cam[c], lights'[c] = lights[c],
         \A k \in Keys : <<c, k>> \in nt' <=> <<c, k>> \in nt,
         \A k \in Keys : Waiting(c, k) => Waiting(c, k)',
         \A k \in Keys : Handling(c, k) => Handling(c, k)',
         cam[c] \in Keys, lights[c] \in Keys
  PROVE  Truthful(c)'
BY DEF Truthful

LEMMA StateFacts ==
  ASSUME TypeOK, NEW c \in Cameras
  PROVE  cam[c] \in CameraStates /\ lights[c] \in LightsStates
BY DEF TypeOK, CameraType, LightsType

\* A lights handler.
LEMMA StatusLights ==
  ASSUME IInv, StatusInv, NEW c \in Cameras, LightsStep(c)
  PROVE  StatusInv'
<1>1. /\ call \in Calls /\ call.cam = c /\ call # Ready
      /\ UNCHANGED <<queue, phase, batch, todo, cam>>
      /\ \A d \in Cameras \ {c} : lights'[d] = lights[d]
      /\ lights' \in [Cameras -> LightsStates]
  BY LightsFacts
<1> SUFFICES ASSUME Polling, \A d \in Cameras : Truthful(d),
                    NEW d \in Cameras
             PROVE  Truthful(d)'
  BY <1>1 DEF StatusInv, Polling
<1>2. \A x, k : Waiting(x, k)' <=> Waiting(x, k)
  BY <1>1 DEF Waiting
<1>3. cam[d] \in CameraStates /\ lights[d] \in LightsStates
  BY StateFacts DEF IInv
<1>4. \/ call' = [call EXCEPT !.at = "blinkJoin"] /\ UNCHANGED <<lights, nt>>
      \/ /\ Resume /\ lights'[c] = LightsEvent(call.event)
         /\ \/ nt' = nt /\ lights' = lights
            \/ Report(c, lights[c], lights'[c])
  BY LightsFacts
<1>5. CASE d # c
  <2>1. \A k \in Keys : <<d, k>> \in nt' <=> <<d, k>> \in nt
    BY <1>4, <1>5 DEF Report
  <2>2. \A k \in Keys : ~Handling(d, k)
    BY <1>1, <1>5 DEF Handling
  <2> QED
    BY <1>1, <1>2, <1>3, <1>5, <2>1, <2>2, TruthfulKept
<1>6. CASE d = c
  <2>1. CASE call' = [call EXCEPT !.at = "blinkJoin"] /\ UNCHANGED <<lights, nt>>
    <3>1. \A k \in Keys : Handling(c, k) => Handling(c, k)'
      BY <1>1, <2>1 DEF Handling
    <3> QED
      BY <1>1, <1>2, <1>3, <1>6, <2>1, <3>1, TruthfulKept
  <2>2. CASE /\ Resume /\ lights'[c] = LightsEvent(call.event)
             /\ \/ nt' = nt /\ lights' = lights
                \/ Report(c, lights[c], lights'[c])
    <3>1. ASSUME NEW k \in Keys, Handling(c, k), ~Handling(c, k)'
          PROVE  k \in {cam[c], lights'[c]}
      <4>1. call' = Ready /\ call.event = k /\ k \notin {"CameraOn", "CameraOff"}
        BY <1>1, <2>2, <3>1 DEF Handling, Resume
      <4>2. CASE k = "CameraError"
        BY <1>1, <4>1, <4>2 DEF IInv, HandlerInv
      <4>3. CASE k \in LightsStates
        BY <2>2, <4>1, <4>3 DEF LightsEvent
      <4> QED
        BY <4>1, <4>2, <4>3
    <3>2. lights'[c] \in LightsStates
      BY <1>1
    <3>3. ASSUME NEW k \in {cam'[c], lights'[c]}
          PROVE  <<c, k>> \in nt' \/ <<k, FALSE>> \in RemoteWrites[c]
      BY <1>1, <1>3, <1>6, <2>2, <3>3 DEF Report, Truthful
    <3>4. ASSUME NEW k \in Keys \ {cam'[c], lights'[c]}, <<c, k>> \in nt'
          PROVE  Waiting(c, k)' \/ Handling(c, k)'
      <4>1. <<c, k>> \in nt /\ k \notin {cam[c], lights[c]}
        BY <1>1, <2>2, <3>4 DEF Report
      <4>2. Waiting(c, k) \/ Handling(c, k)
        BY <1>6, <4>1 DEF Truthful
      <4> QED
        BY <1>1, <1>2, <3>1, <3>4, <4>2
    <3> QED
      BY <1>6, <3>3, <3>4 DEF Truthful
  <2> QED
    BY <1>4, <2>1, <2>2
<1> QED
  BY <1>5, <1>6

\* The rest of a camera handler.
LEMMA StatusCamera ==
  ASSUME IInv, StatusInv, NEW c \in Cameras, CameraStep(c)
  PROVE  StatusInv'
<1>1. /\ call \in Calls /\ call.cam = c /\ call # Ready
      /\ UNCHANGED <<queue, phase, batch, todo, lights>>
      /\ \A d \in Cameras \ {c} : cam'[d] = cam[d]
      /\ cam' \in [Cameras -> CameraStates]
  BY CameraFacts
<1> SUFFICES ASSUME Polling, \A d \in Cameras : Truthful(d),
                    NEW d \in Cameras
             PROVE  Truthful(d)'
  BY <1>1 DEF StatusInv, Polling
<1>2. \A x, k : Waiting(x, k)' <=> Waiting(x, k)
  BY <1>1 DEF Waiting
<1>3. cam[d] \in CameraStates /\ lights[d] \in LightsStates
  BY StateFacts DEF IInv
<1>4. /\ (nt' = nt /\ cam'[c] = cam[c]) \/ Report(c, cam[c], cam'[c])
      /\ cam'[c] \in CameraStates
      /\ \/ cam'[c] = call.event
         \/ call.event = "CameraOff" /\ cam[c] = "CameraOff" /\ cam'[c] = "CameraError"
      /\ call' = Ready \/ (call' \in Calls /\ call' # Ready /\ call'.cam = c)
      /\ call' # Ready => call'.event \in {call.event, "CameraError"}
      /\ call' # Ready /\ call'.event # call.event => cam'[c] = "CameraError"
  BY <1>1, CameraFacts
<1>5. CASE d # c
  <2>1. \A k \in Keys : <<d, k>> \in nt' <=> <<d, k>> \in nt
    BY <1>4, <1>5 DEF Report
  <2>2. \A k \in Keys : ~Handling(d, k)
    BY <1>1, <1>5 DEF Handling
  <2> QED
    BY <1>1, <1>2, <1>3, <1>5, <2>1, <2>2, TruthfulKept
<1>6. CASE d = c
  <2>1. ASSUME NEW k \in {cam'[c], lights'[c]}
        PROVE  <<c, k>> \in nt' \/ <<k, FALSE>> \in RemoteWrites[c]
    BY <1>1, <1>3, <1>4, <1>6, <2>1 DEF Report, Truthful
  <2>2. ASSUME NEW k \in Keys \ {cam'[c], lights'[c]}, <<c, k>> \in nt'
        PROVE  Waiting(c, k)' \/ Handling(c, k)'
    <3>1. <<c, k>> \in nt /\ k \notin {cam[c], lights[c]}
      BY <1>1, <1>4, <2>2 DEF Report
    <3>2. Waiting(c, k) \/ Handling(c, k)
      BY <1>6, <3>1 DEF Truthful
    <3>3. ~Handling(c, k)
      BY <1>4, <2>2, <3>1 DEF Handling
    <3> QED
      BY <1>2, <3>2, <3>3
  <2> QED
    BY <1>6, <2>1, <2>2 DEF Truthful
<1> QED
  BY <1>5, <1>6

\* An event that is dispatched: it is handled, has been, or is forgotten.
LEMMA StatusDispatch ==
  ASSUME IInv, NEW c \in Cameras, Truthful(c), call = Ready,
         UNCHANGED <<cam, lights>>,
         \A d \in Cameras : \A k : <<d, k>> \in nt' => <<d, k>> \in nt,
         \A k \in {cam[c], lights[c]} : <<c, k>> \in nt => <<c, k>> \in nt',
         \A k \in Keys \ {cam[c], lights[c]} :
           <<c, k>> \in nt' /\ Waiting(c, k) => Waiting(c, k)' \/ Handling(c, k)'
  PROVE  Truthful(c)'
<1>1. ASSUME NEW k \in Keys \ {cam[c], lights[c]}, <<c, k>> \in nt'
      PROVE  Waiting(c, k)' \/ Handling(c, k)'
  <2>1. Waiting(c, k) \/ Handling(c, k)
    BY <1>1 DEF Truthful
  <2>2. ~Handling(c, k)
    BY DEF Handling
  <2> QED
    BY <1>1, <2>1, <2>2
<1> QED
  BY <1>1 DEF Truthful

LEMMA OnFacts ==
  ASSUME NEW c \in Cameras, DispatchCameraOn(c)
  PROVE  \/ /\ cam[c] = "CameraOff" /\ nt' = nt
            /\ call' = [at |-> "lights", cam |-> c, event |-> "CameraOn"]
         \/ cam[c] = "CameraOn" /\ nt' = nt
         \/ cam[c] = "CameraError" /\ nt' = nt \ {<<c, "CameraOn">>}
BY DEF DispatchCameraOn

LEMMA StatusEntry ==
  ASSUME IInv, StatusInv, HandleEntry
  PROVE  StatusInv'
<1> DEFINE e == Head(batch)
<1>1. /\ phase = "events" /\ call = Ready /\ batch # <<>> /\ batch' = Tail(batch)
      /\ UNCHANGED <<queue, phase, cam, lights>>
  BY DEF HandleEntry
<1>2. batch \in Seq(Entries) /\ e \in Entries
  <2>1. batch \in Seq(Entries)
    BY DEF IInv, TypeOK, ControllerType
  <2> QED
    BY <1>1, <2>1, HeadTail
<1>3. \/ ~e.value /\ nt' = nt
      \/ e.value /\ e.key = "CameraOn" /\ DispatchCameraOn(e.cam)
      \/ e.value /\ e.key = "CameraOff" /\ DispatchCameraOff(e.cam)
      \/ /\ e.value /\ e.key \in LightsStates /\ nt' = nt
         /\ call' = [at |-> "lights", cam |-> e.cam, event |-> e.key]
  BY DEF HandleEntry
<1>4. e.cam \in Cameras /\ e.value \in BOOLEAN
      /\ \A c, k : e = Asked(c, k) => e.cam = c /\ e.key = k /\ e.value
  BY <1>2 DEF Entries, Asked
<1> HIDE DEF e
<1> SUFFICES ASSUME NEW c \in Cameras, Truthful(c)
             PROVE  Truthful(c)'
  BY <1>1 DEF StatusInv, Polling
<1>5. cam[c] \in CameraStates /\ lights[c] \in LightsStates
      /\ cam[e.cam] \in CameraStates
  BY <1>4, StateFacts DEF IInv
<1>6. \/ nt' = nt
      \/ /\ cam[e.cam] = "CameraError"
         /\ nt' \in {nt \ {<<e.cam, "CameraOn">>}, nt \ {<<e.cam, "CameraOff">>}}
  BY <1>3, <1>4, OnFacts, OffFacts
<1>7. \A d \in Cameras : \A k : <<d, k>> \in nt' => <<d, k>> \in nt
  BY <1>6
<1>8. \A k \in {cam[c], lights[c]} : <<c, k>> \in nt => <<c, k>> \in nt'
  BY <1>5, <1>6
<1>9. ASSUME NEW k \in Keys \ {cam[c], lights[c]}, <<c, k>> \in nt', Waiting(c, k)
      PROVE  Waiting(c, k)' \/ Handling(c, k)'
  <2>1. CASE Holds(queue, Asked(c, k)) \/ Holds(Tail(batch), Asked(c, k))
    BY <1>1, <2>1 DEF Waiting, Holds, Asked
  <2>2. CASE e = Asked(c, k)
    <3>1. e.cam = c /\ e.key = k /\ e.value
      BY <1>4, <2>2
    <3>2. CASE k = "CameraOn"
      <4>1. DispatchCameraOn(c)
        BY <1>3, <3>1, <3>2
      <4>2. call' = [at |-> "lights", cam |-> c, event |-> "CameraOn"]
        BY <1>9, <3>2, <4>1, OnFacts
      <4> QED
        BY <3>2, <4>2 DEF Handling
    <3>3. CASE k = "CameraOff"
      <4>1. DispatchCameraOff(c)
        BY <1>3, <3>1, <3>3
      <4>2. cam[c] # "CameraOff" /\ <<c, "CameraOff">> \in nt'
        BY <1>9, <3>3
      <4>3. call' = [at |-> "lights", cam |-> c, event |-> "CameraOff"]
        BY <4>1, <4>2, <1>5 DEF DispatchCameraOff
      <4> QED
        BY <3>3, <4>3 DEF Handling
    <3>4. CASE k \notin {"CameraOn", "CameraOff"}
      <4>1. call' = [at |-> "lights", cam |-> c, event |-> k]
        BY <1>3, <3>1, <3>4
      <4> QED
        BY <4>1 DEF Handling
    <3> QED
      BY <3>2, <3>3, <3>4
  <2>3. Holds(batch, Asked(c, k)) => e = Asked(c, k) \/ Holds(Tail(batch), Asked(c, k))
    BY <1>1, <1>2, HoldsTail DEF e
  <2> QED
    BY <1>9, <2>1, <2>2, <2>3, WaitingFacts
<1> QED
  BY <1>1, <1>7, <1>8, <1>9, StatusDispatch

\* A client asks for a state, or clears an entry.
LEMMA StatusWrite ==
  ASSUME IInv, StatusInv, NEW c \in Cameras, NEW k \in Commands, NEW v \in BOOLEAN,
         RemoteWrite(c, k, v)
  PROVE  StatusInv'
<1> DEFINE e == [cam |-> c, key |-> k, value |-> v]
<1>1. /\ nt' = IF v THEN nt \cup {<<c, k>>} ELSE nt \ {<<c, k>>}
      /\ queue' = Append(queue, e)
      /\ UNCHANGED <<phase, batch, call, cam, lights>> /\ Polling
      /\ <<k, v>> \in RemoteWrites[c]
  BY DEF RemoteWrite
<1>2. queue \in Seq(Entries) /\ e \in Entries
  BY DEF IInv, TypeOK, RemoteType, Entries
<1>3. v => e = Asked(c, k)
  BY DEF Asked
<1> HIDE DEF e
<1>4. Holds(queue', e) /\ \A x : Holds(queue, x) => Holds(queue', x)
  BY <1>1, <1>2, HoldsAppend
<1>5. ASSUME NEW d \in Cameras, NEW j \in Keys,
             Waiting(d, j) \/ (v /\ <<d, j>> = <<c, k>>)
      PROVE  Waiting(d, j)'
  <2>1. Holds(queue', Asked(d, j)) \/ Holds(batch', Asked(d, j))
    BY <1>1, <1>3, <1>4, <1>5, WaitingFacts
  <2> QED
    BY <2>1 DEF Waiting, Holds, Asked
<1>6. ASSUME NEW d \in Cameras PROVE Truthful(d)'
  <2>1. Truthful(d)
    BY <1>1 DEF StatusInv
  <2>2. ASSUME NEW j \in {cam'[d], lights'[d]}
        PROVE  <<d, j>> \in nt' \/ <<j, FALSE>> \in RemoteWrites[d]
    <3>1. <<d, j>> \in nt \/ <<j, FALSE>> \in RemoteWrites[d]
      BY <1>1, <2>1, <2>2 DEF Truthful
    <3>2. CASE v \/ <<d, j>> # <<c, k>>
      BY <1>1, <3>1, <3>2
    <3>3. CASE v = FALSE /\ <<d, j>> = <<c, k>>
      BY <1>1, <3>3
    <3> QED
      BY <3>2, <3>3
  <2>3. ASSUME NEW j \in Keys \ {cam'[d], lights'[d]}, <<d, j>> \in nt'
        PROVE  Waiting(d, j)' \/ Handling(d, j)'
    <3>1. <<d, j>> \in nt \/ (v /\ <<d, j>> = <<c, k>>)
      BY <1>1, <2>3
    <3>2. <<d, j>> \in nt => Waiting(d, j) \/ Handling(d, j)
      BY <1>1, <2>1, <2>3 DEF Truthful
    <3> QED
      BY <1>1, <1>5, <2>3, <3>1, <3>2 DEF Handling
  <2> QED
    BY <2>2, <2>3 DEF Truthful
<1> QED
  BY <1>1, <1>6 DEF StatusInv, Polling

LEMMA StatusStep ==
  ASSUME IInv, StopInv, StatusInv, [Next]_vars
  PROVE  StatusInv'
<1>0. ASSUME UNCHANGED <<nt, queue, batch, call, cam, lights>>, NEW c \in Cameras,
             Truthful(c)
      PROVE  Truthful(c)'
  BY <1>0 DEF Truthful, Waiting, Handling
<1>1. CASE Background
  BY <1>0, <1>1 DEF Background, StatusInv, Polling
<1>2. CASE Poll
  <2>1. /\ phase = "poll" /\ phase' = "errors" /\ batch' = queue /\ batch = <<>>
        /\ UNCHANGED <<nt, call, cam, lights>>
    BY <1>2 DEF Poll, StatusInv, Polling
  <2>2. ASSUME NEW c \in Cameras, NEW k, Waiting(c, k) PROVE Waiting(c, k)'
    <3>1. ~Holds(batch, Asked(c, k))
      BY <2>1 DEF Holds
    <3>2. Holds(batch', Asked(c, k))
      BY <2>1, <2>2, <3>1, WaitingFacts
    <3> QED
      BY <3>2 DEF Waiting, Holds, Asked
  <2>3. \A c \in Cameras : Truthful(c)
    BY <2>1 DEF StatusInv, Polling
  <2>4. ASSUME NEW c \in Cameras PROVE Truthful(c)'
    BY <2>1, <2>2, <2>3 DEF Truthful, Handling
  <2> QED
    BY <2>1, <2>4 DEF StatusInv
<1>3. CASE PollQuit \/ PollError \/ ExitAfterAbort \/ ShutDownDone
  BY <1>3 DEF PollQuit, PollError, ExitAfterAbort, ShutDownDone, StatusInv, Polling
<1>4. CASE ScanDone \/ EventsDone
  <2>1. /\ UNCHANGED <<nt, queue, batch, call, cam, lights>> /\ Polling
        /\ phase' = "poll" => batch = <<>>
    BY <1>4 DEF ScanDone, EventsDone, Polling
  <2> QED
    BY <1>0, <2>1 DEF StatusInv
<1>5. CASE HandleEntry
  BY <1>5, StatusEntry
<1>6. ASSUME NEW c \in Cameras, ScanCamera(c) PROVE StatusInv'
  <2>1. /\ phase = "errors" /\ call = Ready
        /\ UNCHANGED <<phase, queue, batch, cam, lights>>
        /\ UNCHANGED <<call, nt>> \/ DispatchCameraOff(c)
    BY <1>6 DEF ScanCamera
  <2>2. \A d \in Cameras : Truthful(d)
    BY <2>1 DEF StatusInv, Polling
  <2>3. nt' = nt \/ (cam[c] = "CameraError" /\ nt' = nt \ {<<c, "CameraOff">>})
    BY <2>1, OffFacts
  <2>4. ASSUME NEW d \in Cameras PROVE Truthful(d)'
    <3>1. cam[d] \in CameraStates /\ lights[d] \in LightsStates
      BY StateFacts DEF IInv
    <3>2. \A x \in Cameras : \A k : <<x, k>> \in nt' => <<x, k>> \in nt
      BY <2>3
    <3>3. \A k \in {cam[d], lights[d]} : <<d, k>> \in nt => <<d, k>> \in nt'
      BY <2>3, <3>1
    <3>4. \A k \in Keys : Waiting(d, k) => Waiting(d, k)'
      BY <2>1 DEF Waiting
    <3> QED
      BY <2>1, <2>2, <3>2, <3>3, <3>4, StatusDispatch
  <2> QED
    BY <2>1, <2>4 DEF StatusInv, Polling
<1>7. ASSUME NEW c \in Cameras, ShutDownCamera(c) \/ ShutDownLights(c)
      PROVE  StatusInv'
  BY <1>7 DEF ShutDownCamera, ShutDownLights, StatusInv, Polling
<1> QED
  BY <1>1, <1>2, <1>3, <1>4, <1>5, <1>6, <1>7, Steps, StatusLights, StatusCamera,
     StatusWrite

\* While the daemon polls, no entry claims a state its machine is not in but
\* for commands still waiting, and the entry of the state it is in is set but
\* for one that clients clear, whatever they write
\* (camera.cpp:25-121, lights.cpp:32-123).
THEOREM StatusIsTruthful == Spec => []StatusTruthful
<1>1. Init => IInv /\ StopInv /\ StatusInv
  <2> SUFFICES ASSUME Init PROVE IInv /\ StopInv /\ StatusInv
    OBVIOUS
  <2>1. IInv
    <3>1. TypeOK
      BY InitTypes
    <3>2. HandlerInv /\ TaskInv /\ BlinkInv
      BY DEF Init, HandlerInv, TaskInv, BlinkInv, AtTaskJoin
    <3>3. ErrorFlagExact /\ LampSteady /\ LoggingOwned
      BY DEF Init, ErrorFlagExact, LampSteady, LoggingOwned
    <3> QED
      BY <3>1, <3>2, <3>3 DEF IInv
  <2>2. StopInv
    BY DEF Init, StopInv
  <2>3. StatusInv
    BY DEF Init, StatusInv, Truthful
  <2> QED
    BY <2>1, <2>2, <2>3
<1>2. IInv /\ StopInv /\ StatusInv /\ [Next]_vars => StopInv' /\ StatusInv'
  BY StopStep, StatusStep
<1>3. IInv /\ StopInv /\ StatusInv => StatusTruthful
  BY DEF StatusInv, StatusTruthful, Truthful, Handling
<1> QED
  BY <1>1, <1>2, <1>3, Inductive, PTL DEF Spec

\* What StatusShown asks of the entry of one state.
Shown(c, from, to) ==
  \/ <<c, to>> \in nt'
  \/ to = from /\ (<<c, from>> \in nt => Len(queue') > Len(queue))

LEMMA ShownKept ==
  ASSUME NEW c, NEW k, <<c, k>> \in nt => <<c, k>> \in nt'
  PROVE  Shown(c, k, k)
BY DEF Shown

LEMMA ShownStep ==
  ASSUME IInv, [Next]_vars, NEW c \in Cameras
  PROVE  Shown(c, cam[c], cam'[c]) /\ Shown(c, lights[c], lights'[c])
<1>0. cam[c] \in CameraStates /\ lights[c] \in LightsStates
  BY StateFacts DEF IInv
<1>1. CASE UNCHANGED <<nt, cam, lights>>
  BY <1>1, ShownKept
<1>2. CASE Background
  BY <1>1, <1>2 DEF Background
<1>3. CASE \/ Poll \/ PollQuit \/ PollError \/ ExitAfterAbort
           \/ ScanDone \/ EventsDone \/ ShutDownDone
  BY <1>1, <1>3 DEF Poll, PollQuit, PollError, ExitAfterAbort, ScanDone,
     EventsDone, ShutDownDone
<1>4. ASSUME UNCHANGED <<cam, lights>>, NEW d \in Cameras,
             UNCHANGED nt \/ DispatchCameraOn(d) \/ DispatchCameraOff(d)
      PROVE  Shown(c, cam[c], cam'[c]) /\ Shown(c, lights[c], lights'[c])
  <2>1. \/ nt' = nt
        \/ /\ cam[d] = "CameraError"
           /\ nt' \in {nt \ {<<d, "CameraOn">>}, nt \ {<<d, "CameraOff">>}}
    BY <1>4, OnFacts, OffFacts
  <2>2. \A k \in {cam[c], lights[c]} : <<c, k>> \in nt => <<c, k>> \in nt'
    BY <1>0, <2>1
  <2> QED
    BY <1>4, <2>2, ShownKept
<1>5. CASE HandleEntry
  <2>1. Head(batch) \in Entries
    <3>1. batch \in Seq(Entries) /\ batch # <<>>
      BY <1>5 DEF IInv, TypeOK, ControllerType, HandleEntry
    <3> QED
      BY <3>1, HeadTail
  <2>2. /\ Head(batch).cam \in Cameras /\ UNCHANGED <<cam, lights>>
        /\ \/ UNCHANGED nt
           \/ DispatchCameraOn(Head(batch).cam) \/ DispatchCameraOff(Head(batch).cam)
    BY <1>5, <2>1 DEF HandleEntry, Entries
  <2> QED
    BY <1>4, <2>2
<1>6. ASSUME NEW d \in Cameras, ScanCamera(d) \/ ShutDownCamera(d) \/ ShutDownLights(d)
      PROVE  Shown(c, cam[c], cam'[c]) /\ Shown(c, lights[c], lights'[c])
  <2>1. UNCHANGED <<cam, lights>> /\ (UNCHANGED nt \/ DispatchCameraOff(d))
    BY <1>6 DEF ScanCamera, ShutDownCamera, ShutDownLights
  <2> QED
    BY <1>4, <2>1
<1>7. ASSUME NEW d \in Cameras, NEW k \in Commands, NEW v \in BOOLEAN,
             RemoteWrite(d, k, v)
      PROVE  Shown(c, cam[c], cam'[c]) /\ Shown(c, lights[c], lights'[c])
  <2>1. UNCHANGED <<cam, lights>> /\ Len(queue') > Len(queue)
    <3>1. queue \in Seq(Entries)
      BY DEF IInv, TypeOK, RemoteType
    <3>2. Len(queue') = Len(queue) + 1 /\ Len(queue) \in Nat
      BY <1>7, <3>1 DEF RemoteWrite
    <3> QED
      BY <1>7, <3>2 DEF RemoteWrite
  <2> QED
    BY <2>1 DEF Shown
<1>8. ASSUME NEW d \in Cameras, LightsStep(d)
      PROVE  Shown(c, cam[c], cam'[c]) /\ Shown(c, lights[c], lights'[c])
  <2>1. /\ cam' = cam /\ lights' \in [Cameras -> LightsStates]
        /\ \A x \in Cameras \ {d} : lights'[x] = lights[x]
        /\ UNCHANGED <<lights, nt>> \/ Report(d, lights[d], lights'[d])
    BY <1>8, LightsFacts
  <2>2. lights[d] \in LightsStates
    BY StateFacts DEF IInv
  <2> QED
    BY <1>0, <1>1, <2>1, <2>2 DEF Shown, Report
<1>9. ASSUME NEW d \in Cameras, CameraStep(d)
      PROVE  Shown(c, cam[c], cam'[c]) /\ Shown(c, lights[c], lights'[c])
  <2>1. /\ lights' = lights /\ cam' \in [Cameras -> CameraStates]
        /\ \A x \in Cameras \ {d} : cam'[x] = cam[x]
        /\ (nt' = nt /\ cam'[d] = cam[d]) \/ Report(d, cam[d], cam'[d])
    BY <1>9, CameraFacts
  <2>2. cam[d] \in CameraStates
    BY StateFacts DEF IInv
  <2> QED
    BY <1>0, <1>1, <2>1, <2>2 DEF Shown, Report
<1> QED
  BY <1>2, <1>3, <1>5, <1>6, <1>7, <1>8, <1>9, Steps

\* The daemon never takes the entry of the state a machine is in, for any
\* cameras and any commands (camera.cpp:25-121, lights.cpp:32-123).
THEOREM StatusIsShown == Spec => StatusShown
<1>1. IInv /\ [Next]_vars => [\A c \in Cameras :
        Shown(c, cam[c], cam'[c]) /\ Shown(c, lights[c], lights'[c])]_vars
  BY ShownStep
<1>2. (\A c \in Cameras :
         Shown(c, cam[c], cam'[c]) /\ Shown(c, lights[c], lights'[c])) =>
        \A c \in Cameras :
          /\ \/ <<c, cam'[c]>> \in nt'
             \/ cam'[c] = cam[c] /\ (<<c, cam[c]>> \in nt => Len(queue') > Len(queue))
          /\ \/ <<c, lights'[c]>> \in nt'
             \/ lights'[c] = lights[c]
                /\ (<<c, lights[c]>> \in nt => Len(queue') > Len(queue))
  BY DEF Shown
<1> QED
  BY <1>1, <1>2, Inductive, PTL DEF Spec, StatusShown
==============================================================================
