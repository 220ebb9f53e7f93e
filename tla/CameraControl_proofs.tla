------------------------- MODULE CameraControl_proofs -------------------------
(***************************************************************************)
(* Theorems about CameraControl, for every set of cameras, every bound on  *)
(* the poller's queue and every choice of what clients write.              *)
(***************************************************************************)
EXTENDS CameraControl, TLAPS

\* What the controller takes from a batch is an entry, and leaves a batch.
LEMMA HeadTail ==
  ASSUME NEW S, NEW s \in Seq(S), s # <<>>
  PROVE  Head(s) \in S /\ Tail(s) \in Seq(S)
OBVIOUS

LEMMA EmptySeq == ASSUME NEW S PROVE <<>> \in Seq(S)
OBVIOUS

USE DEF CameraStates, LightsStates, Commands, Keys, Entries, Ready, Calls,
        remoteVars, controllerVars, lightsVars, cameraVars, taskFrame, vars

(***************************************************************************)
(* Every variable keeps its type, one group of variables at a time.        *)
(***************************************************************************)
LEMMA RemoteTypeStep == TypeOK /\ [Next]_vars => RemoteType'
<1> SUFFICES ASSUME TypeOK, [Next]_vars PROVE RemoteType'
  OBVIOUS
<1> USE DEF TypeOK, RemoteType
<1>1. ASSUME NEW c \in Cameras, NEW k \in Commands, NEW v \in BOOLEAN,
             RemoteWrite(c, k, v)
      PROVE  RemoteType'
  BY <1>1 DEF RemoteWrite, RemoteType
<1>2. CASE Signal \/ Terminated \/ UNCHANGED vars
  BY <1>2 DEF Signal, Terminated
<1>3. CASE Poll \/ PollQuit \/ PollError \/ ExitAfterAbort
  BY <1>3, EmptySeq DEF Poll, PollQuit, PollError, ExitAfterAbort, RemoteType
<1>4. ASSUME NEW c \in Cameras, ScanCamera(c) PROVE RemoteType'
  BY <1>4 DEF ScanCamera, DispatchCameraOff
<1>5. CASE ScanDone \/ EventsDone \/ ShutDownDone
  BY <1>5 DEF ScanDone, EventsDone, ShutDownDone
<1>6. CASE HandleEntry
  <2>1. Head(batch) \in Entries /\ Tail(batch) \in Seq(Entries)
    <3>1. batch \in Seq(Entries) /\ batch # <<>>
      BY <1>6 DEF HandleEntry, ControllerType
    <3> HIDE DEF Entries
    <3> QED BY <3>1, HeadTail
  <2> QED BY <1>6, <2>1 DEF HandleEntry, DispatchCameraOn, DispatchCameraOff
<1>7. ASSUME NEW c \in Cameras, ShutDownCamera(c) \/ ShutDownLights(c)
      PROVE  RemoteType'
  BY <1>7 DEF ShutDownCamera, ShutDownLights, DispatchCameraOff
<1>8. ASSUME NEW c \in Cameras, LightsStep(c) PROVE RemoteType'
  <2> USE DEF Resume, Report, EnterSteady, SetLoggingEnabled, LightsEvent,
              ControllerType, LightsType
  <2>1. CASE LightsSwitch(c)
    BY <2>1 DEF LightsSwitch
  <2>2. CASE LightsStartBlink(c)
    BY <2>2 DEF LightsStartBlink
  <2>3. CASE LightsCancelBlink(c)
    BY <2>3 DEF LightsCancelBlink
  <2>4. CASE LightsJoinBlink(c)
    BY <2>4 DEF LightsJoinBlink
  <2>5. CASE LightsIgnore(c)
    BY <2>5 DEF LightsIgnore
  <2> QED BY <1>8, <2>1, <2>2, <2>3, <2>4, <2>5 DEF LightsStep
<1>9. ASSUME NEW c \in Cameras, CameraStep(c) PROVE RemoteType'
  <2> USE DEF Report, SetLoggingEnabled, ControllerType
  <2>1. CASE CameraLaunch(c) \/ CameraEnableLogging(c)
    BY <2>1 DEF CameraLaunch, CameraEnableLogging
  <2>2. CASE CameraStop(c)
    BY <2>2 DEF CameraStop
  <2>3. CASE CameraJoin(c) \/ CameraJoinFailed(c)
    BY <2>3 DEF CameraJoin, CameraJoinFailed
  <2> QED BY <1>9, <2>1, <2>2, <2>3 DEF CameraStep
<1>10. ASSUME NEW c \in Cameras,
              \/ TaskStart(c) \/ TaskFinish(c) \/ TaskStick(c) \/ TaskThrow(c) \/ TaskRethrow(c)
              \/ BlinkStep(c)
       PROVE  RemoteType'
  BY <1>10 DEF TaskStart, TaskFinish, TaskStick, TaskThrow, TaskRethrow,
               BlinkStep, BlinkOn, BlinkOff, BlinkEnd
<1> QED
  BY <1>1, <1>2, <1>3, <1>4, <1>5, <1>6, <1>7, <1>8, <1>9, <1>10
  DEF Next, Remote, Controller, MainLoop, Tasks

LEMMA ControllerTypeStep == TypeOK /\ [Next]_vars => ControllerType'
<1> SUFFICES ASSUME TypeOK, [Next]_vars PROVE ControllerType'
  OBVIOUS
<1> USE DEF TypeOK, ControllerType
<1>1. ASSUME NEW c \in Cameras, NEW k \in Commands, NEW v \in BOOLEAN,
             RemoteWrite(c, k, v)
      PROVE  ControllerType'
  BY <1>1 DEF RemoteWrite, RemoteType
<1>2. CASE Signal \/ Terminated \/ UNCHANGED vars
  BY <1>2 DEF Signal, Terminated
<1>3. CASE Poll \/ PollQuit \/ PollError \/ ExitAfterAbort
  BY <1>3, EmptySeq DEF Poll, PollQuit, PollError, ExitAfterAbort, RemoteType
<1>4. ASSUME NEW c \in Cameras, ScanCamera(c) PROVE ControllerType'
  BY <1>4 DEF ScanCamera, DispatchCameraOff
<1>5. CASE ScanDone \/ EventsDone \/ ShutDownDone
  BY <1>5 DEF ScanDone, EventsDone, ShutDownDone
<1>6. CASE HandleEntry
  <2>1. Head(batch) \in Entries /\ Tail(batch) \in Seq(Entries)
    <3>1. batch \in Seq(Entries) /\ batch # <<>>
      BY <1>6 DEF HandleEntry, ControllerType
    <3> HIDE DEF Entries
    <3> QED BY <3>1, HeadTail
  <2> QED BY <1>6, <2>1 DEF HandleEntry, DispatchCameraOn, DispatchCameraOff
<1>7. ASSUME NEW c \in Cameras, ShutDownCamera(c) \/ ShutDownLights(c)
      PROVE  ControllerType'
  BY <1>7 DEF ShutDownCamera, ShutDownLights, DispatchCameraOff
<1>8. ASSUME NEW c \in Cameras, LightsStep(c) PROVE ControllerType'
  <2> USE DEF Resume, Report, EnterSteady, SetLoggingEnabled, LightsEvent,
              ControllerType, LightsType
  <2>1. CASE LightsSwitch(c)
    BY <2>1 DEF LightsSwitch
  <2>2. CASE LightsStartBlink(c)
    BY <2>2 DEF LightsStartBlink
  <2>3. CASE LightsCancelBlink(c)
    BY <2>3 DEF LightsCancelBlink
  <2>4. CASE LightsJoinBlink(c)
    BY <2>4 DEF LightsJoinBlink
  <2>5. CASE LightsIgnore(c)
    BY <2>5 DEF LightsIgnore
  <2> QED BY <1>8, <2>1, <2>2, <2>3, <2>4, <2>5 DEF LightsStep
<1>9. ASSUME NEW c \in Cameras, CameraStep(c) PROVE ControllerType'
  <2> USE DEF Report, SetLoggingEnabled, ControllerType
  <2>1. CASE CameraLaunch(c) \/ CameraEnableLogging(c)
    BY <2>1 DEF CameraLaunch, CameraEnableLogging
  <2>2. CASE CameraStop(c)
    BY <2>2 DEF CameraStop
  <2>3. CASE CameraJoin(c) \/ CameraJoinFailed(c)
    BY <2>3 DEF CameraJoin, CameraJoinFailed
  <2> QED BY <1>9, <2>1, <2>2, <2>3 DEF CameraStep
<1>10. ASSUME NEW c \in Cameras,
              \/ TaskStart(c) \/ TaskFinish(c) \/ TaskStick(c) \/ TaskThrow(c) \/ TaskRethrow(c)
              \/ BlinkStep(c)
       PROVE  ControllerType'
  BY <1>10 DEF TaskStart, TaskFinish, TaskStick, TaskThrow, TaskRethrow,
               BlinkStep, BlinkOn, BlinkOff, BlinkEnd
<1> HIDE DEF TypeOK, ControllerType, Commands
<1> QED
  BY <1>1, <1>2, <1>3, <1>4, <1>5, <1>6, <1>7, <1>8, <1>9, <1>10
  DEF Next, Remote, Controller, MainLoop, Tasks

LEMMA LightsTypeStep == TypeOK /\ [Next]_vars => LightsType'
<1> SUFFICES ASSUME TypeOK, [Next]_vars PROVE LightsType'
  OBVIOUS
<1> USE DEF TypeOK, LightsType
<1>1. ASSUME NEW c \in Cameras, NEW k \in Commands, NEW v \in BOOLEAN,
             RemoteWrite(c, k, v)
      PROVE  LightsType'
  BY <1>1 DEF RemoteWrite, RemoteType
<1>2. CASE Signal \/ Terminated \/ UNCHANGED vars
  BY <1>2 DEF Signal, Terminated
<1>3. CASE Poll \/ PollQuit \/ PollError \/ ExitAfterAbort
  BY <1>3, EmptySeq DEF Poll, PollQuit, PollError, ExitAfterAbort, RemoteType
<1>4. ASSUME NEW c \in Cameras, ScanCamera(c) PROVE LightsType'
  BY <1>4 DEF ScanCamera, DispatchCameraOff
<1>5. CASE ScanDone \/ EventsDone \/ ShutDownDone
  BY <1>5 DEF ScanDone, EventsDone, ShutDownDone
<1>6. CASE HandleEntry
  <2>1. Head(batch) \in Entries /\ Tail(batch) \in Seq(Entries)
    <3>1. batch \in Seq(Entries) /\ batch # <<>>
      BY <1>6 DEF HandleEntry, ControllerType
    <3> HIDE DEF Entries
    <3> QED BY <3>1, HeadTail
  <2> QED BY <1>6, <2>1 DEF HandleEntry, DispatchCameraOn, DispatchCameraOff
<1>7. ASSUME NEW c \in Cameras, ShutDownCamera(c) \/ ShutDownLights(c)
      PROVE  LightsType'
  BY <1>7 DEF ShutDownCamera, ShutDownLights, DispatchCameraOff
<1>8. ASSUME NEW c \in Cameras, LightsStep(c) PROVE LightsType'
  <2> USE DEF Resume, Report, EnterSteady, SetLoggingEnabled, LightsEvent,
              ControllerType, LightsType
  <2>1. CASE LightsSwitch(c)
    BY <2>1 DEF LightsSwitch
  <2>2. CASE LightsStartBlink(c)
    BY <2>2 DEF LightsStartBlink
  <2>3. CASE LightsCancelBlink(c)
    BY <2>3 DEF LightsCancelBlink
  <2>4. CASE LightsJoinBlink(c)
    BY <2>4 DEF LightsJoinBlink
  <2>5. CASE LightsIgnore(c)
    BY <2>5 DEF LightsIgnore
  <2> QED BY <1>8, <2>1, <2>2, <2>3, <2>4, <2>5 DEF LightsStep
<1>9. ASSUME NEW c \in Cameras, CameraStep(c) PROVE LightsType'
  <2> USE DEF Report, SetLoggingEnabled, ControllerType
  <2>1. CASE CameraLaunch(c) \/ CameraEnableLogging(c)
    BY <2>1 DEF CameraLaunch, CameraEnableLogging
  <2>2. CASE CameraStop(c)
    BY <2>2 DEF CameraStop
  <2>3. CASE CameraJoin(c) \/ CameraJoinFailed(c)
    BY <2>3 DEF CameraJoin, CameraJoinFailed
  <2> QED BY <1>9, <2>1, <2>2, <2>3 DEF CameraStep
<1>10. ASSUME NEW c \in Cameras,
              \/ TaskStart(c) \/ TaskFinish(c) \/ TaskStick(c) \/ TaskThrow(c) \/ TaskRethrow(c)
              \/ BlinkStep(c)
       PROVE  LightsType'
  BY <1>10 DEF TaskStart, TaskFinish, TaskStick, TaskThrow, TaskRethrow,
               BlinkStep, BlinkOn, BlinkOff, BlinkEnd
<1> QED
  BY <1>1, <1>2, <1>3, <1>4, <1>5, <1>6, <1>7, <1>8, <1>9, <1>10
  DEF Next, Remote, Controller, MainLoop, Tasks

LEMMA CameraTypeStep == TypeOK /\ [Next]_vars => CameraType'
<1> SUFFICES ASSUME TypeOK, [Next]_vars PROVE CameraType'
  OBVIOUS
<1> USE DEF TypeOK, CameraType
<1>1. ASSUME NEW c \in Cameras, NEW k \in Commands, NEW v \in BOOLEAN,
             RemoteWrite(c, k, v)
      PROVE  CameraType'
  BY <1>1 DEF RemoteWrite, RemoteType
<1>2. CASE Signal \/ Terminated \/ UNCHANGED vars
  BY <1>2 DEF Signal, Terminated
<1>3. CASE Poll \/ PollQuit \/ PollError \/ ExitAfterAbort
  BY <1>3, EmptySeq DEF Poll, PollQuit, PollError, ExitAfterAbort, RemoteType
<1>4. ASSUME NEW c \in Cameras, ScanCamera(c) PROVE CameraType'
  BY <1>4 DEF ScanCamera, DispatchCameraOff
<1>5. CASE ScanDone \/ EventsDone \/ ShutDownDone
  BY <1>5 DEF ScanDone, EventsDone, ShutDownDone
<1>6. CASE HandleEntry
  <2>1. Head(batch) \in Entries /\ Tail(batch) \in Seq(Entries)
    <3>1. batch \in Seq(Entries) /\ batch # <<>>
      BY <1>6 DEF HandleEntry, ControllerType
    <3> HIDE DEF Entries
    <3> QED BY <3>1, HeadTail
  <2> QED BY <1>6, <2>1 DEF HandleEntry, DispatchCameraOn, DispatchCameraOff
<1>7. ASSUME NEW c \in Cameras, ShutDownCamera(c) \/ ShutDownLights(c)
      PROVE  CameraType'
  BY <1>7 DEF ShutDownCamera, ShutDownLights, DispatchCameraOff
<1>8. ASSUME NEW c \in Cameras, LightsStep(c) PROVE CameraType'
  <2> USE DEF Resume, Report, EnterSteady, SetLoggingEnabled, LightsEvent,
              ControllerType, LightsType
  <2>1. CASE LightsSwitch(c)
    BY <2>1 DEF LightsSwitch
  <2>2. CASE LightsStartBlink(c)
    BY <2>2 DEF LightsStartBlink
  <2>3. CASE LightsCancelBlink(c)
    BY <2>3 DEF LightsCancelBlink
  <2>4. CASE LightsJoinBlink(c)
    BY <2>4 DEF LightsJoinBlink
  <2>5. CASE LightsIgnore(c)
    BY <2>5 DEF LightsIgnore
  <2> QED BY <1>8, <2>1, <2>2, <2>3, <2>4, <2>5 DEF LightsStep
<1>9. ASSUME NEW c \in Cameras, CameraStep(c) PROVE CameraType'
  <2> USE DEF Report, SetLoggingEnabled, ControllerType
  <2>1. CASE CameraLaunch(c) \/ CameraEnableLogging(c)
    BY <2>1 DEF CameraLaunch, CameraEnableLogging
  <2>2. CASE CameraStop(c)
    BY <2>2 DEF CameraStop
  <2>3. CASE CameraJoin(c) \/ CameraJoinFailed(c)
    BY <2>3 DEF CameraJoin, CameraJoinFailed
  <2> QED BY <1>9, <2>1, <2>2, <2>3 DEF CameraStep
<1>10. ASSUME NEW c \in Cameras,
              \/ TaskStart(c) \/ TaskFinish(c) \/ TaskStick(c) \/ TaskThrow(c) \/ TaskRethrow(c)
              \/ BlinkStep(c)
       PROVE  CameraType'
  BY <1>10 DEF TaskStart, TaskFinish, TaskStick, TaskThrow, TaskRethrow,
               BlinkStep, BlinkOn, BlinkOff, BlinkEnd
<1> QED
  BY <1>1, <1>2, <1>3, <1>4, <1>5, <1>6, <1>7, <1>8, <1>9, <1>10
  DEF Next, Remote, Controller, MainLoop, Tasks

LEMMA InitTypes == Init => TypeOK
<1> SUFFICES ASSUME Init PROVE TypeOK
  OBVIOUS
<1> USE DEF Init
<1>1. RemoteType
  <2>1. nt \subseteq Cameras \X Keys
    OBVIOUS
  <2> QED BY <2>1, EmptySeq DEF RemoteType
<1>2. ControllerType
  BY DEF ControllerType
<1>3. LightsType
  BY DEF LightsType
<1>4. CameraType
  BY DEF CameraType
<1> QED BY <1>1, <1>2, <1>3, <1>4 DEF TypeOK

LEMMA TypeStep == TypeOK /\ [Next]_vars => TypeOK'
  BY RemoteTypeStep, ControllerTypeStep, LightsTypeStep, CameraTypeStep DEF TypeOK

\* Every variable keeps the range the code gives it, in every reachable state.
THEOREM TypeCorrect == Spec => []TypeOK
  BY InitTypes, TypeStep, PTL DEF Spec

(***************************************************************************)
(* The inductive invariant.  What a step can do to the machines: nothing,  *)
(* begin a handler, or one step of a handler, a task or a blink task.      *)
(***************************************************************************)
BeginHandler(c) ==
  /\ call = Ready
  /\ \E e \in Commands :
       /\ call' = [at |-> "lights", cam |-> c, event |-> e]
       /\ e = "CameraOn" => cam[c] = "CameraOff"
       /\ e = "CameraOff" => cam[c] = "CameraOn"
  /\ UNCHANGED <<lightsVars, cameraVars>>

TaskStep(c) ==
  TaskStart(c) \/ TaskFinish(c) \/ TaskStick(c) \/ TaskThrow(c) \/ TaskRethrow(c)

LEMMA StepCases ==
  ASSUME TypeOK, [Next]_vars
  PROVE  \/ UNCHANGED <<call, lightsVars, cameraVars>>
         \/ \E c \in Cameras : \/ BeginHandler(c)
                               \/ LightsStep(c) \/ CameraStep(c)
                               \/ TaskStep(c) \/ BlinkStep(c)
<1> DEFINE Goal == \/ UNCHANGED <<call, lightsVars, cameraVars>>
                   \/ \E c \in Cameras : BeginHandler(c)
<1>1. ASSUME NEW c \in Cameras, ScanCamera(c) PROVE Goal
  BY <1>1 DEF ScanCamera, DispatchCameraOff, BeginHandler
<1>2. ASSUME NEW c \in Cameras, ShutDownCamera(c) \/ ShutDownLights(c) PROVE Goal
  BY <1>2 DEF ShutDownCamera, ShutDownLights, DispatchCameraOff, BeginHandler
<1>3. CASE HandleEntry
  <2>1. Head(batch) \in Entries
    <3>1. batch \in Seq(Entries) /\ batch # <<>>
      BY <1>3 DEF HandleEntry, TypeOK, ControllerType
    <3> HIDE DEF Entries
    <3> QED BY <3>1, HeadTail
  <2> QED
    BY <1>3, <2>1
    DEF HandleEntry, DispatchCameraOn, DispatchCameraOff, BeginHandler
<1>4. ASSUME NEW c \in Cameras, NEW k \in Commands, NEW v \in BOOLEAN,
             RemoteWrite(c, k, v)
      PROVE  Goal
  BY <1>4 DEF RemoteWrite
<1>5. CASE \/ Signal \/ Poll \/ PollQuit \/ PollError \/ ExitAfterAbort
           \/ ScanDone \/ EventsDone \/ ShutDownDone
           \/ Terminated \/ UNCHANGED vars
  BY <1>5 DEF Signal, Poll, PollQuit, PollError, ExitAfterAbort, ScanDone,
              EventsDone, ShutDownDone, Terminated
<1> QED
  BY <1>1, <1>2, <1>3, <1>4, <1>5
  DEF Next, Remote, Controller, MainLoop, Tasks, TaskStep

\* The controller alone moves the machines, one handler at a time.
LEMMA HandlerInvStep ==
  ASSUME IInv, [Next]_vars PROVE HandlerInv'
<1> USE DEF IInv, TypeOK, ControllerType, LightsType, CameraType, HandlerInv
<1>1. CASE UNCHANGED <<call, lightsVars, cameraVars>>
  BY <1>1
<1>2. ASSUME NEW c \in Cameras, BeginHandler(c) PROVE HandlerInv'
  BY <1>2 DEF BeginHandler
<1>3. ASSUME NEW c \in Cameras, LightsStep(c) PROVE HandlerInv'
  <2>1. CASE LightsSwitch(c)
    BY <2>1 DEF LightsSwitch, EnterSteady, Report, Resume,
       SetLoggingEnabled, LightsEvent
  <2>2. CASE LightsStartBlink(c)
    BY <2>2 DEF LightsStartBlink, Report, Resume, LightsEvent
  <2>3. CASE LightsCancelBlink(c)
    BY <2>3 DEF LightsCancelBlink, LightsEvent
  <2>4. CASE LightsJoinBlink(c)
    BY <2>4 DEF LightsJoinBlink, EnterSteady, Report, Resume, LightsEvent
  <2>5. CASE LightsIgnore(c)
    BY <2>5 DEF LightsIgnore, Resume, LightsEvent
  <2> QED BY <1>3, <2>1, <2>2, <2>3, <2>4, <2>5 DEF LightsStep
<1>4. ASSUME NEW c \in Cameras, CameraStep(c) PROVE HandlerInv'
  <2>1. CASE CameraLaunch(c)
    BY <2>1 DEF CameraLaunch
  <2>2. CASE CameraEnableLogging(c)
    BY <2>2 DEF CameraEnableLogging, SetLoggingEnabled
  <2>3. CASE CameraStop(c)
    BY <2>3 DEF CameraStop, SetLoggingEnabled
  <2>4. CASE CameraJoin(c)
    BY <2>4 DEF CameraJoin
  <2>5. CASE CameraJoinFailed(c)
    BY <2>5 DEF CameraJoinFailed
  <2> QED BY <1>4, <2>1, <2>2, <2>3, <2>4, <2>5 DEF CameraStep
<1>5. ASSUME NEW c \in Cameras, TaskStep(c) PROVE HandlerInv'
  BY <1>5 DEF TaskStep, TaskStart, TaskFinish, TaskStick, TaskThrow, TaskRethrow
<1>6. ASSUME NEW c \in Cameras, BlinkStep(c) PROVE HandlerInv'
  BY <1>6 DEF BlinkStep, BlinkOn, BlinkOff, BlinkEnd
<1> QED
  BY <1>1, <1>2, <1>3, <1>4, <1>5, <1>6, StepCases

\* A pipeline task is created by CameraLaunch and collected by a join.
LEMMA TaskInvStep ==
  ASSUME IInv, [Next]_vars PROVE TaskInv'
<1> USE DEF IInv, TypeOK, ControllerType, LightsType, CameraType, TaskInv,
        HandlerInv, AtTaskJoin
<1>1. CASE UNCHANGED <<call, lightsVars, cameraVars>>
  BY <1>1
<1>2. ASSUME NEW c \in Cameras, BeginHandler(c) PROVE TaskInv'
  BY <1>2 DEF BeginHandler
<1>3. ASSUME NEW c \in Cameras, LightsStep(c) PROVE TaskInv'
  <2>1. CASE LightsSwitch(c)
    BY <2>1 DEF LightsSwitch, EnterSteady, Report, Resume,
       SetLoggingEnabled, LightsEvent
  <2>2. CASE LightsStartBlink(c)
    BY <2>2 DEF LightsStartBlink, Report, Resume, LightsEvent
  <2>3. CASE LightsCancelBlink(c)
    BY <2>3 DEF LightsCancelBlink, LightsEvent
  <2>4. CASE LightsJoinBlink(c)
    BY <2>4 DEF LightsJoinBlink, EnterSteady, Report, Resume, LightsEvent
  <2>5. CASE LightsIgnore(c)
    BY <2>5 DEF LightsIgnore, Resume, LightsEvent
  <2> QED BY <1>3, <2>1, <2>2, <2>3, <2>4, <2>5 DEF LightsStep
<1>4. ASSUME NEW c \in Cameras, CameraStep(c) PROVE TaskInv'
  <2>1. CASE CameraLaunch(c)
    BY <2>1 DEF CameraLaunch
  <2>2. CASE CameraEnableLogging(c)
    BY <2>2 DEF CameraEnableLogging, SetLoggingEnabled
  <2>3. CASE CameraStop(c)
    BY <2>3 DEF CameraStop, SetLoggingEnabled
  <2>4. CASE CameraJoin(c)
    BY <2>4 DEF CameraJoin
  <2>5. CASE CameraJoinFailed(c)
    BY <2>5 DEF CameraJoinFailed
  <2> QED BY <1>4, <2>1, <2>2, <2>3, <2>4, <2>5 DEF CameraStep
<1>5. ASSUME NEW c \in Cameras, TaskStep(c) PROVE TaskInv'
  <2>1. CASE TaskStart(c)
    BY <2>1 DEF TaskStart
  <2>2. CASE TaskFinish(c)
    BY <2>2 DEF TaskFinish
  <2>3. CASE TaskThrow(c)
    BY <2>3 DEF TaskThrow
  <2>4. CASE TaskRethrow(c)
    BY <2>4 DEF TaskRethrow
  <2>5. CASE TaskStick(c)
    BY <2>5 DEF TaskStick
  <2> QED BY <1>5, <2>1, <2>2, <2>3, <2>4, <2>5 DEF TaskStep
<1>6. ASSUME NEW c \in Cameras, BlinkStep(c) PROVE TaskInv'
  BY <1>6 DEF BlinkStep, BlinkOn, BlinkOff, BlinkEnd
<1> QED
  BY <1>1, <1>2, <1>3, <1>4, <1>5, <1>6, StepCases

\* A blink task is created with the state Blinking and joined on leaving it.
LEMMA BlinkInvStep ==
  ASSUME IInv, [Next]_vars PROVE BlinkInv'
<1> USE DEF IInv, TypeOK, ControllerType, LightsType, CameraType, BlinkInv,
        HandlerInv
<1>1. CASE UNCHANGED <<call, lightsVars, cameraVars>>
  BY <1>1
<1>2. ASSUME NEW c \in Cameras, BeginHandler(c) PROVE BlinkInv'
  BY <1>2 DEF BeginHandler
<1>3. ASSUME NEW c \in Cameras, LightsStep(c) PROVE BlinkInv'
  <2>1. CASE LightsSwitch(c)
    BY <2>1 DEF LightsSwitch, EnterSteady, Report, Resume,
       SetLoggingEnabled, LightsEvent
  <2>2. CASE LightsStartBlink(c)
    BY <2>2 DEF LightsStartBlink, Report, Resume, LightsEvent
  <2>3. CASE LightsCancelBlink(c)
    BY <2>3 DEF LightsCancelBlink, LightsEvent
  <2>4. CASE LightsJoinBlink(c)
    BY <2>4 DEF LightsJoinBlink, EnterSteady, Report, Resume, LightsEvent
  <2>5. CASE LightsIgnore(c)
    BY <2>5 DEF LightsIgnore, Resume, LightsEvent
  <2> QED BY <1>3, <2>1, <2>2, <2>3, <2>4, <2>5 DEF LightsStep
<1>4. ASSUME NEW c \in Cameras, CameraStep(c) PROVE BlinkInv'
  BY <1>4 DEF CameraStep, CameraLaunch, CameraEnableLogging, CameraStop,
     CameraJoin, CameraJoinFailed, SetLoggingEnabled
<1>5. ASSUME NEW c \in Cameras, TaskStep(c) PROVE BlinkInv'
  BY <1>5 DEF TaskStep, TaskStart, TaskFinish, TaskStick, TaskThrow, TaskRethrow
<1>6. ASSUME NEW c \in Cameras, BlinkStep(c) PROVE BlinkInv'
  BY <1>6 DEF BlinkStep, BlinkOn, BlinkOff, BlinkEnd
<1> QED
  BY <1>1, <1>2, <1>3, <1>4, <1>5, <1>6, StepCases

\* The flag is set by the throwing task, cleared by the join that sees it.
LEMMA ErrorFlagExactStep ==
  ASSUME IInv, [Next]_vars PROVE ErrorFlagExact'
<1> USE DEF IInv, TypeOK, ControllerType, LightsType, CameraType,
        ErrorFlagExact, TaskInv, HandlerInv, AtTaskJoin
<1>1. CASE UNCHANGED <<call, lightsVars, cameraVars>>
  BY <1>1
<1>2. ASSUME NEW c \in Cameras, BeginHandler(c) PROVE ErrorFlagExact'
  BY <1>2 DEF BeginHandler
<1>3. ASSUME NEW c \in Cameras, LightsStep(c) PROVE ErrorFlagExact'
  <2>1. CASE LightsSwitch(c)
    BY <2>1 DEF LightsSwitch, EnterSteady, Report, Resume,
       SetLoggingEnabled, LightsEvent
  <2>2. CASE LightsStartBlink(c)
    BY <2>2 DEF LightsStartBlink, Report, Resume, LightsEvent
  <2>3. CASE LightsCancelBlink(c)
    BY <2>3 DEF LightsCancelBlink, LightsEvent
  <2>4. CASE LightsJoinBlink(c)
    BY <2>4 DEF LightsJoinBlink, EnterSteady, Report, Resume, LightsEvent
  <2>5. CASE LightsIgnore(c)
    BY <2>5 DEF LightsIgnore, Resume, LightsEvent
  <2> QED BY <1>3, <2>1, <2>2, <2>3, <2>4, <2>5 DEF LightsStep
<1>4. ASSUME NEW c \in Cameras, CameraStep(c) PROVE ErrorFlagExact'
  <2>1. CASE CameraLaunch(c)
    BY <2>1 DEF CameraLaunch
  <2>2. CASE CameraEnableLogging(c)
    BY <2>2 DEF CameraEnableLogging, SetLoggingEnabled
  <2>3. CASE CameraStop(c)
    BY <2>3 DEF CameraStop, SetLoggingEnabled
  <2>4. CASE CameraJoin(c)
    BY <2>4 DEF CameraJoin
  <2>5. CASE CameraJoinFailed(c)
    BY <2>5 DEF CameraJoinFailed
  <2> QED BY <1>4, <2>1, <2>2, <2>3, <2>4, <2>5 DEF CameraStep
<1>5. ASSUME NEW c \in Cameras, TaskStep(c) PROVE ErrorFlagExact'
  <2>1. CASE TaskStart(c)
    BY <2>1 DEF TaskStart
  <2>2. CASE TaskFinish(c)
    BY <2>2 DEF TaskFinish
  <2>3. CASE TaskThrow(c)
    BY <2>3 DEF TaskThrow
  <2>4. CASE TaskRethrow(c)
    BY <2>4 DEF TaskRethrow
  <2>5. CASE TaskStick(c)
    BY <2>5 DEF TaskStick
  <2> QED BY <1>5, <2>1, <2>2, <2>3, <2>4, <2>5 DEF TaskStep
<1>6. ASSUME NEW c \in Cameras, BlinkStep(c) PROVE ErrorFlagExact'
  BY <1>6 DEF BlinkStep, BlinkOn, BlinkOff, BlinkEnd
<1> QED
  BY <1>1, <1>2, <1>3, <1>4, <1>5, <1>6, StepCases

\* Nothing but the blink task lights a lamp that is not switched on.
LEMMA LampSteadyStep ==
  ASSUME IInv, [Next]_vars PROVE LampSteady'
<1> USE DEF IInv, TypeOK, ControllerType, LightsType, CameraType,
        LampSteady, BlinkInv, HandlerInv
<1>1. CASE UNCHANGED <<call, lightsVars, cameraVars>>
  BY <1>1
<1>2. ASSUME NEW c \in Cameras, BeginHandler(c) PROVE LampSteady'
  BY <1>2 DEF BeginHandler
<1>3. ASSUME NEW c \in Cameras, LightsStep(c) PROVE LampSteady'
  <2>1. CASE LightsSwitch(c)
    <3> DEFINE to == LightsEvent(call.event)
    <3>1. EnterSteady(c, to) /\ to \in LightsStates
      BY <2>1 DEF LightsSwitch, LightsEvent
    <3>2. blink'[c] = "none" /\ \A d \in Cameras \ {c} : blink'[d] = blink[d]
      BY <2>1 DEF LightsSwitch, LightsEvent
    <3>3. lights'[c] = to /\ led'[c] = (to = "LightsOn") /\ isOn'[c] = (to = "LightsOn")
      BY <3>1 DEF EnterSteady
    <3>4. \A d \in Cameras \ {c} :
            lights'[d] = lights[d] /\ led'[d] = led[d] /\ isOn'[d] = isOn[d]
      BY <3>1 DEF EnterSteady
    <3> HIDE DEF to
    <3> SUFFICES ASSUME NEW d \in Cameras, lights'[d] # "LightsBlink"
                 PROVE  /\ blink'[d] = "none"
                        /\ led'[d] = isOn'[d]
                        /\ isOn'[d] <=> lights'[d] = "LightsOn"
      BY Zenon DEF LampSteady
    <3>5. CASE d = c
      BY <3>2, <3>3, <3>5, Zenon
    <3>6. CASE d # c
      <4>1. lights'[d] = lights[d] /\ led'[d] = led[d] /\ isOn'[d] = isOn[d]
        BY <3>4, <3>6, Zenon
      <4>2. blink'[d] = blink[d]
        BY <3>2, <3>6, Zenon
      <4>3. lights[d] # "LightsBlink" =>
              /\ blink[d] = "none" /\ led[d] = isOn[d]
              /\ isOn[d] <=> lights[d] = "LightsOn"
        BY Zenon
      <4> HIDE DEF LampSteady, IInv
      <4> QED BY <4>1, <4>2, <4>3, Zenon
    <3> QED BY <3>5, <3>6
  <2>2. CASE LightsStartBlink(c)
    BY <2>2 DEF LightsStartBlink, Report, Resume, LightsEvent
  <2>3. CASE LightsCancelBlink(c)
    BY <2>3 DEF LightsCancelBlink, LightsEvent
  <2>4. CASE LightsJoinBlink(c)
    <3> DEFINE to == LightsEvent(call.event)
    <3>1. EnterSteady(c, to) /\ to \in LightsStates
      BY <2>4 DEF LightsJoinBlink, LightsEvent
    <3>2. blink'[c] = "none" /\ \A d \in Cameras \ {c} : blink'[d] = blink[d]
      BY <2>4 DEF LightsJoinBlink
    <3>3. lights'[c] = to /\ led'[c] = (to = "LightsOn") /\ isOn'[c] = (to = "LightsOn")
      BY <3>1 DEF EnterSteady
    <3>4. \A d \in Cameras \ {c} :
            lights'[d] = lights[d] /\ led'[d] = led[d] /\ isOn'[d] = isOn[d]
      BY <3>1 DEF EnterSteady
    <3> HIDE DEF to
    <3> SUFFICES ASSUME NEW d \in Cameras, lights'[d] # "LightsBlink"
                 PROVE  /\ blink'[d] = "none"
                        /\ led'[d] = isOn'[d]
                        /\ isOn'[d] <=> lights'[d] = "LightsOn"
      BY Zenon DEF LampSteady
    <3>5. CASE d = c
      BY <3>2, <3>3, <3>5, Zenon
    <3>6. CASE d # c
      <4>1. lights'[d] = lights[d] /\ led'[d] = led[d] /\ isOn'[d] = isOn[d]
        BY <3>4, <3>6, Zenon
      <4>2. blink'[d] = blink[d]
        BY <3>2, <3>6, Zenon
      <4>3. lights[d] # "LightsBlink" =>
              /\ blink[d] = "none" /\ led[d] = isOn[d]
              /\ isOn[d] <=> lights[d] = "LightsOn"
        BY Zenon
      <4> HIDE DEF LampSteady, IInv
      <4> QED BY <4>1, <4>2, <4>3, Zenon
    <3> QED BY <3>5, <3>6
  <2>5. CASE LightsIgnore(c)
    BY <2>5 DEF LightsIgnore, Resume, LightsEvent
  <2> QED BY <1>3, <2>1, <2>2, <2>3, <2>4, <2>5 DEF LightsStep
<1>4. ASSUME NEW c \in Cameras, CameraStep(c) PROVE LampSteady'
  BY <1>4 DEF CameraStep, CameraLaunch, CameraEnableLogging, CameraStop,
     CameraJoin, CameraJoinFailed, SetLoggingEnabled
<1>5. ASSUME NEW c \in Cameras, TaskStep(c) PROVE LampSteady'
  BY <1>5 DEF TaskStep, TaskStart, TaskFinish, TaskStick, TaskThrow, TaskRethrow
<1>6. ASSUME NEW c \in Cameras, BlinkStep(c) PROVE LampSteady'
  BY <1>6 DEF BlinkStep, BlinkOn, BlinkOff, BlinkEnd
<1> QED
  BY <1>1, <1>2, <1>3, <1>4, <1>5, <1>6, StepCases

\* The flag is raised for a camera that is on, lowered as it leaves On.
LEMMA LoggingOwnedStep ==
  ASSUME IInv, [Next]_vars PROVE LoggingOwned'
<1> USE DEF IInv, TypeOK, ControllerType, LightsType, CameraType,
        LoggingOwned, HandlerInv
<1>1. CASE UNCHANGED <<call, lightsVars, cameraVars>>
  BY <1>1
<1>2. ASSUME NEW c \in Cameras, BeginHandler(c) PROVE LoggingOwned'
  BY <1>2 DEF BeginHandler
<1>3. ASSUME NEW c \in Cameras, LightsStep(c) PROVE LoggingOwned'
  <2>1. CASE LightsSwitch(c)
    BY <2>1 DEF LightsSwitch, EnterSteady, Report, Resume,
       SetLoggingEnabled, LightsEvent
  <2>2. CASE LightsStartBlink(c)
    BY <2>2 DEF LightsStartBlink, Report, Resume, LightsEvent
  <2>3. CASE LightsCancelBlink(c)
    BY <2>3 DEF LightsCancelBlink, LightsEvent
  <2>4. CASE LightsJoinBlink(c)
    BY <2>4 DEF LightsJoinBlink, EnterSteady, Report, Resume, LightsEvent
  <2>5. CASE LightsIgnore(c)
    BY <2>5 DEF LightsIgnore, Resume, LightsEvent
  <2> QED BY <1>3, <2>1, <2>2, <2>3, <2>4, <2>5 DEF LightsStep
<1>4. ASSUME NEW c \in Cameras, CameraStep(c) PROVE LoggingOwned'
  <2>1. CASE CameraLaunch(c)
    BY <2>1 DEF CameraLaunch
  <2>2. CASE CameraEnableLogging(c)
    BY <2>2 DEF CameraEnableLogging, SetLoggingEnabled
  <2>3. CASE CameraStop(c)
    BY <2>3, ZenonT(40) DEF CameraStop, SetLoggingEnabled
  <2>4. CASE CameraJoin(c)
    BY <2>4 DEF CameraJoin
  <2>5. CASE CameraJoinFailed(c)
    BY <2>5 DEF CameraJoinFailed
  <2> QED BY <1>4, <2>1, <2>2, <2>3, <2>4, <2>5 DEF CameraStep
<1>5. ASSUME NEW c \in Cameras, TaskStep(c) PROVE LoggingOwned'
  BY <1>5 DEF TaskStep, TaskStart, TaskFinish, TaskStick, TaskThrow, TaskRethrow
<1>6. ASSUME NEW c \in Cameras, BlinkStep(c) PROVE LoggingOwned'
  BY <1>6 DEF BlinkStep, BlinkOn, BlinkOff, BlinkEnd
<1> QED
  BY <1>1, <1>2, <1>3, <1>4, <1>5, <1>6, StepCases

\* The strengthening of the safety properties that every step preserves.
THEOREM Inductive == Spec => []IInv
<1>1. Init => IInv
  <2> SUFFICES ASSUME Init PROVE IInv
    OBVIOUS
  <2>1. TypeOK
    BY InitTypes
  <2>2. HandlerInv /\ TaskInv /\ BlinkInv
    BY DEF Init, HandlerInv, TaskInv, BlinkInv, AtTaskJoin
  <2>3. ErrorFlagExact /\ LampSteady /\ LoggingOwned
    BY DEF Init, ErrorFlagExact, LampSteady, LoggingOwned
  <2> QED BY <2>1, <2>2, <2>3 DEF IInv
<1>2. IInv /\ [Next]_vars => IInv'
  <2>1. IInv /\ [Next]_vars => TypeOK'
    BY TypeStep DEF IInv
  <2> QED
    BY <2>1, HandlerInvStep, TaskInvStep, BlinkInvStep, ErrorFlagExactStep,
       LampSteadyStep, LoggingOwnedStep DEF IInv
<1> QED
  BY <1>1, <1>2, PTL DEF Spec

(***************************************************************************)
(* What follows from it.                                                   *)
(***************************************************************************)

\* has_error_ is exact: the error scan never acts on a stale error.
THEOREM ErrorFlagIsExact == Spec => []ErrorFlagExact
<1>1. IInv => ErrorFlagExact
  BY DEF IInv
<1> QED BY <1>1, Inductive, PTL

\* A lamp is driven by the lights machine or by its blink task, never both.
THEOREM LampIsSteady == Spec => []LampSteady
<1>1. IInv => LampSteady
  BY DEF IInv
<1> QED BY <1>1, Inductive, PTL

\* Logging is enabled only for cameras that are on and configured for it.
THEOREM LoggingIsOwned == Spec => []LoggingOwned
<1>1. IInv => LoggingOwned
  BY DEF IInv
<1> QED BY <1>1, Inductive, PTL

\* The only step into the error state is the failed join, which waits in a
\* handler that has already put the lights out.
THEOREM FailuresDarken == Spec => FailureDarkens
<1> DEFINE Dark(c) == lights'[c] = "LightsOff" /\ blink'[c] = "none" /\ ~led'[c]
           Fails(c) == cam[c] # "CameraError" /\ cam'[c] = "CameraError"
<1>1. ASSUME IInv, IInv', [Next]_vars, NEW c \in Cameras, Fails(c)
      PROVE  Dark(c)
  <2>1. \E d \in Cameras : CameraJoinFailed(d)
    BY <1>1, StepCases, ZenonT(40)
    DEF IInv, TypeOK, CameraType, BeginHandler, LightsStep, LightsSwitch,
        LightsStartBlink, LightsCancelBlink, LightsJoinBlink, LightsIgnore,
        CameraStep, CameraLaunch, CameraEnableLogging, CameraStop, CameraJoin,
        TaskStep, TaskStart, TaskFinish, TaskStick, TaskThrow, TaskRethrow,
        BlinkStep, BlinkOn, BlinkOff, BlinkEnd
  <2>2. lights'[c] = "LightsOff"
    BY <1>1, <2>1
    DEF CameraJoinFailed, IInv, HandlerInv, TypeOK, CameraType, ControllerType
  <2> QED BY <1>1, <2>2 DEF IInv, LampSteady
<1>2. IInv /\ IInv' /\ [Next]_vars => \A c \in Cameras : Fails(c) => Dark(c)
  BY <1>1
<1> QED BY <1>2, Inductive, PTL DEF Spec, FailureDarkens

(***************************************************************************)
(* CameraControl implements CameraLifecycle.                               *)
(***************************************************************************)

\* A step that moves no camera, no task and no join is a stutter.
LEMMA Stutters ==
  ASSUME UNCHANGED <<cam, task>>, \A c \in Cameras : AtTaskJoin(c)' <=> AtTaskJoin(c)
  PROVE  mode' = mode /\ worker' = worker
<1>1. \A c \in Cameras : ModeOf(c)' = ModeOf(c) /\ WorkerOf(c)' = WorkerOf(c)
  BY DEF ModeOf, WorkerOf
<1> QED BY <1>1 DEF mode, worker

\* Changing one camera's mode, or one camera's worker, changes no other.
LEMMA ModeUpdate ==
  ASSUME NEW c \in Cameras, \A d \in Cameras \ {c} : ModeOf(d)' = ModeOf(d)
  PROVE  mode' = [mode EXCEPT ![c] = ModeOf(c)']
BY DEF mode

LEMMA WorkerUpdate ==
  ASSUME NEW c \in Cameras, \A d \in Cameras \ {c} : WorkerOf(d)' = WorkerOf(d)
  PROVE  worker' = [worker EXCEPT ![c] = WorkerOf(c)']
BY DEF worker

LEMMA LifecycleInit == Init => Lifecycle!Init
<1> SUFFICES ASSUME Init PROVE Lifecycle!Init
  OBVIOUS
<1>1. \A c \in Cameras : ModeOf(c) = "off" /\ WorkerOf(c) = "idle"
  BY DEF Init, ModeOf, WorkerOf, AtTaskJoin
<1> QED BY <1>1 DEF mode, worker, Lifecycle!Init

LEMMA LifecycleStep ==
  IInv /\ [Next]_vars => [Lifecycle!Next]_(Lifecycle!vars)
<1> SUFFICES ASSUME IInv, [Next]_vars
             PROVE  Lifecycle!Next \/ (mode' = mode /\ worker' = worker)
  BY DEF Lifecycle!vars
<1> USE DEF IInv, TypeOK, ControllerType, CameraType, AtTaskJoin
<1>1. CASE UNCHANGED <<call, lightsVars, cameraVars>>
  BY <1>1, Stutters
<1>2. ASSUME NEW c \in Cameras, BeginHandler(c) \/ LightsStep(c) \/ BlinkStep(c)
      PROVE  mode' = mode /\ worker' = worker
  BY <1>2, Stutters
  DEF BeginHandler, LightsStep, LightsSwitch, LightsStartBlink,
      LightsCancelBlink, LightsJoinBlink, LightsIgnore, Resume,
      BlinkStep, BlinkOn, BlinkOff, BlinkEnd
<1>3. ASSUME NEW c \in Cameras, CameraStep(c)
      PROVE  Lifecycle!Next \/ (mode' = mode /\ worker' = worker)
  <2> USE DEF HandlerInv, TaskInv
  <2>1. CASE CameraLaunch(c)
    <3>1. ModeOf(c) = "off" /\ ModeOf(c)' = "on"
      BY <2>1 DEF CameraLaunch, ModeOf
    <3>2. WorkerOf(c) = "idle" /\ WorkerOf(c)' = "busy"
      BY <2>1 DEF CameraLaunch, WorkerOf
    <3>3. \A d \in Cameras \ {c} : ModeOf(d)' = ModeOf(d) /\ WorkerOf(d)' = WorkerOf(d)
      BY <2>1 DEF CameraLaunch, ModeOf, WorkerOf
    <3>4. mode[c] = ModeOf(c) /\ worker[c] = WorkerOf(c)
      BY DEF mode, worker
    <3>5. Lifecycle!TurnOn(c)
      BY <3>1, <3>2, <3>3, <3>4, ModeUpdate, WorkerUpdate DEF Lifecycle!TurnOn
    <3> QED BY <3>5 DEF Lifecycle!Next
  <2>2. CASE CameraEnableLogging(c)
    BY <2>2, Stutters DEF CameraEnableLogging
  <2>3. CASE CameraStop(c)
    <3>1. ModeOf(c) = "on" /\ ModeOf(c)' = "stopping"
      BY <2>3 DEF CameraStop, ModeOf
    <3>2. \A d \in Cameras \ {c} : ModeOf(d)' = ModeOf(d)
      BY <2>3 DEF CameraStop, ModeOf
    <3>3. mode[c] = ModeOf(c) /\ worker' = worker
      BY <2>3 DEF CameraStop, mode, worker, WorkerOf
    <3>4. Lifecycle!AskToStop(c)
      BY <3>1, <3>2, <3>3, ModeUpdate DEF Lifecycle!AskToStop
    <3> QED BY <3>4 DEF Lifecycle!Next
  <2>4. CASE CameraJoin(c)
    <3>1. ModeOf(c) = "stopping" /\ ModeOf(c)' = "off"
      BY <2>4 DEF CameraJoin, ModeOf
    <3>2. WorkerOf(c) = "ended" /\ WorkerOf(c)' = "idle"
      BY <2>4 DEF CameraJoin, WorkerOf
    <3>3. \A d \in Cameras \ {c} : ModeOf(d)' = ModeOf(d) /\ WorkerOf(d)' = WorkerOf(d)
      BY <2>4 DEF CameraJoin, ModeOf, WorkerOf
    <3>4. mode[c] = ModeOf(c) /\ worker[c] = WorkerOf(c)
      BY DEF mode, worker
    <3>5. Lifecycle!Reap(c)
      BY <3>1, <3>2, <3>3, <3>4, ModeUpdate, WorkerUpdate DEF Lifecycle!Reap
    <3> QED BY <3>5 DEF Lifecycle!Next
  <2>5. CASE CameraJoinFailed(c)
    <3>1. ModeOf(c) = "stopping" /\ ModeOf(c)' = "error"
      BY <2>5 DEF CameraJoinFailed, ModeOf
    <3>2. WorkerOf(c) = "crashed" /\ WorkerOf(c)' = "idle"
      BY <2>5 DEF CameraJoinFailed, WorkerOf
    <3>3. \A d \in Cameras \ {c} : ModeOf(d)' = ModeOf(d) /\ WorkerOf(d)' = WorkerOf(d)
      BY <2>5 DEF CameraJoinFailed, ModeOf, WorkerOf
    <3>4. mode[c] = ModeOf(c) /\ worker[c] = WorkerOf(c)
      BY DEF mode, worker
    <3>5. Lifecycle!Reap(c)
      BY <3>1, <3>2, <3>3, <3>4, ModeUpdate, WorkerUpdate DEF Lifecycle!Reap
    <3> QED BY <3>5 DEF Lifecycle!Next
  <2> QED BY <1>3, <2>1, <2>2, <2>3, <2>4, <2>5 DEF CameraStep
<1>4. ASSUME NEW c \in Cameras, TaskStep(c)
      PROVE  Lifecycle!Next \/ (mode' = mode /\ worker' = worker)
  <2> USE DEF mode, worker, ModeOf, WorkerOf, TaskInv
  <2>1. CASE TaskStart(c) \/ TaskStick(c) \/ TaskRethrow(c)
    BY <2>1 DEF TaskStart, TaskStick, TaskRethrow
  <2>2. CASE TaskFinish(c)
    <3>1. Lifecycle!Finish(c)
      BY <2>2 DEF TaskFinish, Lifecycle!Finish
    <3> QED BY <3>1 DEF Lifecycle!Next
  <2>3. CASE TaskThrow(c)
    <3>1. ModeOf(c) \in {"on", "stopping"} /\ mode' = mode
      BY <2>3 DEF TaskThrow
    <3>2. WorkerOf(c) = "busy" /\ WorkerOf(c)' = "crashed"
      BY <2>3 DEF TaskThrow
    <3>3. \A d \in Cameras \ {c} : WorkerOf(d)' = WorkerOf(d)
      BY <2>3 DEF TaskThrow
    <3>4. mode[c] = ModeOf(c) /\ worker[c] = WorkerOf(c)
      OBVIOUS
    <3> HIDE DEF mode, worker, ModeOf, WorkerOf, TaskInv
    <3>5. Lifecycle!Crash(c)
      BY <3>1, <3>2, <3>3, <3>4, WorkerUpdate DEF Lifecycle!Crash
    <3> QED BY <3>5 DEF Lifecycle!Next
  <2> QED BY <1>4, <2>1, <2>2, <2>3 DEF TaskStep
<1> QED
  BY <1>1, <1>2, <1>3, <1>4, StepCases

\* The daemon keeps the promise stated by CameraLifecycle.
THEOREM LifecycleRefinement == Spec => ImplementsLifecycle
BY LifecycleInit, LifecycleStep, Inductive, PTL
   DEF Spec, ImplementsLifecycle, Lifecycle!Spec
==============================================================================
