------------------------- MODULE FrameLogging_proofs -------------------------
(***************************************************************************)
(* FrameLogging keeps its inductive invariant for any frame rate, any set  *)
(* of log rates and any bound.                                             *)
(***************************************************************************)
EXTENDS FrameLogging, TLAPS

USE DEF control, flags, loop, task, saved, vars

\* The daemon starts in the invariant.
LEMMA InitInv == Init => IInv
<1> SUFFICES ASSUME Init PROVE IInv
  OBVIOUS
<1> USE DEF Init
<1>1. TypeOK
  BY RateAssumption DEF TypeOK
<1>2. RunInv /\ TaskInv /\ SequenceInv
  BY DEF RunInv, TaskInv, SequenceInv, Live
<1>3. LoggerFollowsLoop /\ ClosedLogsKept /\ EntryCurrent /\ CounterInRange
  BY DEF LoggerFollowsLoop, ClosedLogsKept, EntryCurrent, CounterInRange, Live
<1> QED BY <1>1, <1>2, <1>3 DEF IInv

\* Every step keeps the ranges.  The interval needs the assumption on the
\* rates: a rate that was not zero divides the frame rate.
LEMMA TypeStep == TypeOK /\ [Next]_vars => TypeOK'
<1> SUFFICES ASSUME TypeOK, [Next]_vars PROVE TypeOK'
  OBVIOUS
<1> USE RateAssumption DEF TypeOK
<1>1. CASE Client
  <2>1. CASE CameraOn
    BY <2>1 DEF CameraOn
  <2>2. CASE CameraOff
    BY <2>2 DEF CameraOff, SetLoggingEnabled
  <2>3. CASE LightsOn
    BY <2>3 DEF LightsOn, SetLoggingEnabled
  <2>4. CASE LightsOff
    BY <2>4 DEF LightsOff, SetLoggingEnabled
  <2>5. ASSUME NEW fps \in Rates, ConfigLog(fps) PROVE TypeOK'
    BY <2>5 DEF ConfigLog
  <2> QED BY <1>1, <2>1, <2>2, <2>3, <2>4, <2>5 DEF Client
<1>2. CASE Controller
  <2>1. CASE CameraEntered
    BY <2>1 DEF CameraEntered, SetLoggingEnabled
  <2>2. CASE RunnerStop
    BY <2>2 DEF RunnerStop
  <2>3. CASE Join
    BY <2>3 DEF Join
  <2> QED BY <1>2, <2>1, <2>2, <2>3 DEF Controller
<1>3. CASE Prepare
  <2>1. CASE Begin
    BY <2>1 DEF Begin
  <2>3. CASE MakeLogger
    BY <2>3 DEF MakeLogger
  <2>4. CASE NoLogger
    BY <2>4 DEF NoLogger
  <2>2. CASE DivideRate
    <3>1. rate \in Nat
      BY RateAssumption
    <3>2. rate # 0 => FrameRate \div rate \in Nat
      BY <3>1, RateAssumption
    <3> QED BY <2>2, <3>2 DEF DivideRate
  <2> QED BY <1>3, <2>1, <2>2, <2>3, <2>4 DEF Prepare
<1>4. CASE RunLoop
  <2>1. CASE Cancelled
    BY <2>1 DEF Cancelled
  <2>8. CASE Proceed
    BY <2>8 DEF Proceed
  <2>9. CASE PollFlag
    BY <2>9 DEF PollFlag
  <2>10. CASE LastStopEnds
    BY <2>10 DEF LastStopEnds
  <2>2. CASE StartLogger
    BY <2>2 DEF StartLogger
  <2>3. CASE StopLogger
    BY <2>3 DEF StopLogger
  <2>4. CASE StopEnds
    BY <2>4 DEF StopEnds, Store
  <2>5. CASE Frame
    BY <2>5 DEF Frame
  <2>6. CASE Return
    BY <2>6 DEF Return, Store, Destroy
  <2>7. CASE Unwind
    BY <2>7 DEF Unwind, Destroy
  <2> QED
    BY <1>4, <2>1, <2>2, <2>3, <2>4, <2>5, <2>6, <2>7, <2>8, <2>9, <2>10
       DEF RunLoop
<1>5. CASE Throw
  BY <1>5 DEF Throw
<1>6. CASE LoggerStart
  BY <1>6 DEF LoggerStart
<1>7. CASE LoggerEnd
  BY <1>7 DEF LoggerEnd
<1>8. CASE Restart
  BY <1>8 DEF Restart
<1>10. CASE Save
  BY <1>10 DEF Save
<1>9. CASE UNCHANGED vars
  BY <1>9
<1> QED
  BY <1>1, <1>2, <1>3, <1>4, <1>5, <1>6, <1>7, <1>8, <1>9,
     <1>10
     DEF Next, Logger

\* The rest of the invariant, one step per action.
LEMMA InvStep == IInv /\ [Next]_vars => IInv'
<1> SUFFICES ASSUME IInv, [Next]_vars PROVE IInv'
  OBVIOUS
<1>0. TypeOK'
  BY TypeStep DEF IInv
<1> USE RateAssumption
<1> USE DEF IInv, TypeOK, RunInv, TaskInv, SequenceInv, LoggerFollowsLoop,
            ClosedLogsKept, EntryCurrent, CounterInRange, Live
<1>1. CASE Client
  BY <1>0, <1>1 DEF Client, CameraOn, CameraOff, LightsOn, LightsOff, ConfigLog,
                    SetLoggingEnabled
<1>2. CASE Controller
  BY <1>0, <1>2 DEF Controller, CameraEntered, RunnerStop, Join,
                    SetLoggingEnabled
<1>3. CASE Prepare
  <2>1. CASE Begin
    BY <1>0, <2>1 DEF Begin
  <2>2. CASE MakeLogger
    BY <1>0, <2>2 DEF MakeLogger
  <2>3. CASE NoLogger
    BY <1>0, <2>3 DEF NoLogger
  <2>4. CASE DivideRate
    BY <1>0, <2>4 DEF DivideRate
  <2> QED BY <1>3, <2>1, <2>2, <2>3, <2>4 DEF Prepare
<1>4. CASE RunLoop
  <2>1. CASE Cancelled
    BY <1>0, <2>1 DEF Cancelled
  <2>2. CASE Proceed
    BY <1>0, <2>2 DEF Proceed
  <2>9. CASE PollFlag
    BY <1>0, <2>9 DEF PollFlag
  <2>10. CASE LastStopEnds
    BY <1>0, <2>10 DEF LastStopEnds
  <2>3. CASE StartLogger
    BY <1>0, <2>3, ZenonT(40) DEF StartLogger
  <2>4. CASE StopLogger
    BY <1>0, <2>4 DEF StopLogger
  <2>5. CASE StopEnds
    BY <1>0, <2>5 DEF StopEnds, Store
  <2>6. CASE Frame
    BY <1>0, <2>6 DEF Frame
  <2>7. CASE Return
    BY <1>0, <2>7 DEF Return, Store, Destroy
  <2>8. CASE Unwind
    BY <1>0, <2>8 DEF Unwind, Destroy
  <2> QED
    BY <1>4, <2>1, <2>2, <2>3, <2>4, <2>5, <2>6, <2>7, <2>8, <2>9, <2>10
       DEF RunLoop
<1>5. CASE Throw
  BY <1>0, <1>5 DEF Throw
<1>6. CASE Logger
  <2>1. CASE LoggerStart
    <3> USE <1>0, <2>1 DEF LoggerStart
    <3>1. pc \notin {"off", "begin"} /\ (\A n \in kept : n < sequence)
      OBVIOUS
    <3>2. RunInv' /\ TaskInv'
      OBVIOUS
    <3>3. SequenceInv'
      BY <3>1
    <3>4. LoggerFollowsLoop' /\ ClosedLogsKept' /\ EntryCurrent'
      BY <3>1
    <3>5. CounterInRange'
      OBVIOUS
    <3> QED BY <3>2, <3>3, <3>4, <3>5
  <2>2. CASE LoggerEnd
    BY <1>0, <2>2 DEF LoggerEnd
  <2> QED BY <1>6, <2>1, <2>2 DEF Logger
<1>7. CASE Restart
  BY <1>0, <1>7 DEF Restart
<1>8. CASE Save
  BY <1>0, <1>8 DEF Save, Alive
<1>9. CASE UNCHANGED vars
  BY <1>0, <1>9
<1> QED BY <1>1, <1>2, <1>3, <1>4, <1>5, <1>6, <1>7, <1>8, <1>9 DEF Next

\* The invariant holds in every state of the frame logging of a camera.
THEOREM Inductive == Spec => []IInv
BY InitInv, InvStep, PTL DEF Spec

\* Every variable keeps its range (runner.cpp:56-163, frame_logger.h:43-60).
THEOREM TypeCorrect == Spec => []TypeOK
<1>1. IInv => TypeOK
  BY DEF IInv
<1> QED BY <1>1, Inductive, PTL

\* Between two frames the logging task runs exactly if Run believes it does
\* (runner.cpp:113-121, frame_logger.h:43-60).
THEOREM LoggersFollow == Spec => []LoggerFollowsLoop
<1>1. IInv => LoggerFollowsLoop
  BY DEF IInv
<1> QED BY <1>1, Inductive, PTL

\* A log that was ended is never overwritten, over any number of runs,
\* failures and restarts, unless the daemon has died before ntcore saved the
\* number that follows it (frame_logger_base.cpp:28-29, runner.cpp:61,
\* state.cpp:53-59).
THEOREM LogsAreKept == Spec => []ClosedLogsKept
<1>1. IInv => ClosedLogsKept
  BY DEF IInv
<1> QED BY <1>1, Inductive, PTL

\* With no log open the NetworkTables entry has the next number: a save of
\* that moment knows of every log that was ended (runner.cpp:104,117-120).
THEOREM EntryIsCurrent == Spec => []EntryCurrent
<1>1. IInv => EntryCurrent
  BY DEF IInv
<1> QED BY <1>1, Inductive, PTL

\* log_counter stays within its interval for every pair of rates with a log
\* rate of at most the frame rate (runner.cpp:77-89,157-161).
THEOREM CounterIsBounded == Spec => []CounterInRange
<1>1. IInv => CounterInRange
  BY DEF IInv
<1> QED BY <1>1, Inductive, PTL
==============================================================================
