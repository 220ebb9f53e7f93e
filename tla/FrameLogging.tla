----------------------------- MODULE FrameLogging -----------------------------
(***************************************************************************)
(* Frame logging of one camera: the pipeline thread in Runner::Run, the    *)
(* FrameLogger it owns with its logging task, the controller thread that   *)
(* switches logging, and the sequence number of the logs.  The number is    *)
(* kept in a NetworkTables entry, of which ntcore saves a copy now and     *)
(* then; only the copy outlives the daemon.                                *)
(*                                                                         *)
(* A frame log is abstracted to its number; its frames and the queue they  *)
(* travel in are left out.  log_config_ is abstracted to its rate, a       *)
(* member that both threads use without a lock.                            *)
(***************************************************************************)
EXTENDS Integers

CONSTANTS
  FrameRate,   \* capture_config_.frame_rate
  Rates,       \* the log rates that can be configured; 0 turns logging off
  MaxSwitches  \* bound on how often logging is switched on

ASSUME RateAssumption ==
  FrameRate \in Nat \ {0} /\ Rates \subseteq Nat /\ MaxSwitches \in Nat

VARIABLES
  camera,   \* where the controller thread is with this camera
  switches, \* how often logging was switched on
  rate,     \* log_config_.fps
  enabled,  \* logging_enabled_
  cancel,   \* Runner's cancel_
  pc,       \* where the pipeline thread is in Run
  logging,  \* Run's local copy of the flag
  made,     \* frame_logger is not null
  interval, \* log_interval
  counter,  \* log_counter; -1 stands for every negative value
  lcancel,  \* FrameLogger's cancel_
  logger,   \* the logging task
  log,      \* number of the log it writes
  sequence, \* state.frame_logger.sequence of this run
  entry,    \* the state entry in NetworkTables
  stored,   \* the copy of it that outlives the daemon
  kept,     \* history: numbers of the logs that were ended, and the entry set
  safe      \* history: those of them that the copy knows of

control == <<camera, switches>>
flags   == <<rate, enabled, cancel>>
loop    == <<logging, made, interval, counter>>
task    == <<lcancel, logger, log>>
saved   == <<entry, stored, kept, safe>>
vars    == <<control, flags, pc, loop, task, sequence, saved>>

\* Every variable keeps the range the code gives it.
TypeOK ==
  /\ camera \in {"off", "entering", "on", "clearing", "joining", "error"}
  /\ switches \in Nat /\ rate \in Rates
  /\ enabled \in BOOLEAN /\ cancel \in BOOLEAN
  /\ pc \in {"off", "begin", "make", "divide", "top", "poll", "reread",
             "waiting", "frame", "last", "store", "unwinding", "ended",
             "failed", "stuck", "crashed"}
  /\ logging \in BOOLEAN /\ made \in BOOLEAN
  /\ interval \in Nat /\ counter \in Nat \cup {-1}
  /\ lcancel \in BOOLEAN /\ logger \in {"none", "spawned", "open", "done"}
  /\ log \in Nat /\ sequence \in Nat /\ entry \in Nat /\ stored \in Nat
  /\ kept \subseteq Nat /\ safe \subseteq Nat

\* The daemon starts with the camera off.
Init ==
  /\ camera = "off" /\ enabled = FALSE /\ cancel = TRUE /\ pc = "off"
  /\ logging = FALSE /\ made = FALSE /\ interval = 0 /\ counter = 0
  /\ lcancel = FALSE /\ logger = "none" /\ log = 0 /\ sequence = 1
  /\ rate \in Rates
  /\ switches = 0 /\ entry = 1 /\ stored = 1 /\ kept = {} /\ safe = {}

\* The logging task runs.
Live == logger \in {"spawned", "open"}

------------------------------------------------------------------------------
(* The controller thread.                                                  *)

Alive == pc # "crashed"

SetLoggingEnabled(on) == enabled' = (on /\ rate > 0)

\* camera::On::entry starts the pipeline task and then asks for logging.
CameraOn ==
  /\ camera = "off" /\ switches < MaxSwitches
  /\ camera' = "entering" /\ pc' = "begin"
  /\ UNCHANGED <<switches, flags, loop, task, sequence, saved>>

CameraEntered ==
  /\ Alive /\ camera = "entering"
  /\ SetLoggingEnabled(TRUE)
  /\ camera' = "on" /\ switches' = switches + 1
  /\ UNCHANGED <<rate, cancel, pc, loop, task, sequence, saved>>

LightsOn ==
  /\ Alive /\ camera = "on" /\ switches < MaxSwitches
  /\ SetLoggingEnabled(TRUE)
  /\ switches' = switches + 1
  /\ UNCHANGED <<camera, rate, cancel, pc, loop, task, sequence, saved>>

LightsOff ==
  /\ Alive /\ camera = "on"
  /\ SetLoggingEnabled(FALSE)
  /\ UNCHANGED <<control, rate, cancel, pc, loop, task, sequence, saved>>

\* A pipeline configuration carries the log configuration.
ConfigLog(fps) ==
  /\ Alive /\ camera \in {"off", "on", "error"} /\ fps # rate
  /\ rate' = fps
  /\ UNCHANGED <<control, enabled, cancel, pc, loop, task, sequence, saved>>

\* CameraOff, sent by a client, by the error scan or by the shutdown.
CameraOff ==
  /\ Alive /\ camera = "on"
  /\ SetLoggingEnabled(FALSE)
  /\ camera' = "clearing"
  /\ UNCHANGED <<switches, rate, cancel, pc, loop, task, sequence, saved>>

RunnerStop ==
  /\ Alive /\ camera = "clearing"
  /\ cancel' = TRUE
  /\ camera' = "joining"
  /\ UNCHANGED <<switches, rate, enabled, pc, loop, task, sequence, saved>>

Join ==
  /\ camera = "joining" /\ pc \in {"ended", "failed"}
  /\ camera' = IF pc = "failed" THEN "error" ELSE "off"
  /\ pc' = "off"
  /\ UNCHANGED <<switches, flags, loop, task, sequence, saved>>

------------------------------------------------------------------------------
(* The pipeline thread: Runner::Run.                                       *)

\* (Mutant: every run counts its logs from one.)
Begin_NotLoaded ==
  /\ pc = "begin"
  /\ cancel' = FALSE /\ sequence' = 1
  /\ logging' = FALSE /\ made' = FALSE /\ interval' = 0 /\ counter' = 0
  /\ lcancel' = FALSE /\ logger' = "none" /\ log' = 0
  /\ pc' = "make"
  /\ UNCHANGED <<control, rate, enabled, saved>>

\* The start of Run, up to the test of the log rate.
Begin ==
  /\ pc = "begin"
  /\ cancel' = FALSE /\ sequence' = entry
  /\ logging' = FALSE /\ made' = FALSE /\ interval' = 0 /\ counter' = 0
  /\ lcancel' = FALSE /\ logger' = "none" /\ log' = 0
  /\ pc' = "make"
  /\ UNCHANGED <<control, rate, enabled, saved>>

MakeLogger ==
  /\ pc = "make" /\ rate > 0
  /\ made' = TRUE
  /\ pc' = "divide"
  /\ UNCHANGED <<control, flags, logging, interval, counter, task, sequence,
                 saved>>

\* The rate is read again: if it has become 0 the division traps.
DivideRate ==
  /\ pc = "divide"
  /\ IF rate = 0
     THEN pc' = "crashed" /\ UNCHANGED <<interval, counter>>
     ELSE /\ interval' = FrameRate \div rate
          /\ counter' = FrameRate \div rate
          /\ pc' = "top"
  /\ UNCHANGED <<control, flags, logging, made, task, sequence, saved>>

NoLogger ==
  /\ pc = "make" /\ rate = 0
  /\ pc' = "top"
  /\ UNCHANGED <<control, flags, loop, task, sequence, saved>>

\* The head of the loop.  A cancelled run stops its logger if the rate, of
\* this moment, says that it has one.
Cancelled ==
  /\ pc = "top" /\ cancel
  /\ pc' = IF rate = 0 THEN "store" ELSE IF made THEN "last" ELSE "crashed"
  /\ lcancel' = (lcancel \/ (rate > 0 /\ made))
  /\ UNCHANGED <<control, flags, loop, logger, log, sequence, saved>>

Proceed ==
  /\ pc = "top" /\ ~cancel
  /\ pc' = "poll"
  /\ UNCHANGED <<control, flags, loop, task, sequence, saved>>

\* The flag is compared with its local copy ...
PollFlag ==
  /\ pc = "poll"
  /\ pc' = IF enabled = logging THEN "frame" ELSE "reread"
  /\ UNCHANGED <<control, flags, loop, task, sequence, saved>>

\* ... and read again.  FrameLogger::Run starts a task; its assignment to
\* future_ waits for a task that still runs, which nobody has cancelled.
StartLogger ==
  /\ pc = "reread" /\ enabled
  /\ logging' = TRUE
  /\ CASE ~made         -> pc' = "crashed" /\ UNCHANGED <<lcancel, logger>>
       [] made /\ Live  -> pc' = "stuck" /\ UNCHANGED <<lcancel, logger>>
       [] made /\ ~Live -> /\ pc' = "frame"
                           /\ lcancel' = FALSE /\ logger' = "spawned"
  /\ UNCHANGED <<control, flags, made, interval, counter, log, sequence,
                 saved>>

\* FrameLogger::Stop cancels the task, if there is one, and waits for it.
StopLogger ==
  /\ pc = "reread" /\ ~enabled
  /\ logging' = FALSE
  /\ pc' = IF made THEN "waiting" ELSE "crashed"
  /\ lcancel' = (lcancel \/ made)
  /\ UNCHANGED <<control, flags, made, interval, counter, logger, log, sequence,
                 saved>>

\* state.Store(): the number of the next log.  It sets the entry and no more.
Store ==
  /\ entry' = sequence
  /\ kept' = IF logger = "done" THEN kept \cup {log} ELSE kept
  /\ UNCHANGED <<stored, safe>>

\* (Mutant: Stop does not wait for the task.)
StopEnds_NoWait ==
  /\ pc = "waiting"
  /\ Store
  /\ pc' = "frame"
  /\ UNCHANGED <<control, flags, loop, task, sequence>>

StopEnds ==
  /\ pc = "waiting" /\ ~Live
  /\ Store
  /\ pc' = "frame"
  /\ UNCHANGED <<control, flags, loop, task, sequence>>

\* A frame is processed and, every log_interval frames, logged.
Frame ==
  /\ pc = "frame"
  /\ counter' = CASE ~logging                -> counter
                  [] logging /\ counter = 1   -> interval
                  [] logging /\ counter = -1  -> -1
                  [] OTHER                    -> counter - 1
  /\ pc' = "top"
  /\ UNCHANGED <<control, flags, logging, made, interval, task, sequence,
                 saved>>

\* The capture or the pipeline throws.
Throw ==
  /\ pc \in {"make", "frame"}
  /\ pc' = "unwinding"
  /\ UNCHANGED <<control, flags, loop, task, sequence, saved>>

LastStopEnds ==
  /\ pc = "last" /\ ~Live
  /\ pc' = "store"
  /\ UNCHANGED <<control, flags, loop, task, sequence, saved>>

\* The destructor of frame_logger destroys the queue and then waits in that
\* of future_: with a task that still runs this is undefined or for ever.
Destroy(to) == IF Live THEN pc' \in {"stuck", "crashed"} ELSE pc' = to

Return ==
  /\ pc = "store"
  /\ Store
  /\ Destroy("ended")
  /\ UNCHANGED <<control, flags, loop, task, sequence>>

Unwind ==
  /\ pc = "unwinding"
  /\ Destroy("failed")
  /\ UNCHANGED <<control, flags, loop, task, sequence, saved>>

------------------------------------------------------------------------------
(* The logging task: FrameLoggerBase::Run and RunLoop.                     *)

\* (Mutant: the task clears the cancel flag it was started with.)
LoggerStart_Clears ==
  /\ Alive /\ logger = "spawned"
  /\ log' = sequence /\ sequence' = sequence + 1
  /\ logger' = "open" /\ lcancel' = FALSE
  /\ UNCHANGED <<control, flags, pc, loop, saved>>

LoggerStart ==
  /\ Alive /\ logger = "spawned"
  /\ log' = sequence /\ sequence' = sequence + 1
  /\ logger' = "open"
  /\ UNCHANGED <<control, flags, pc, loop, lcancel, saved>>

LoggerEnd ==
  /\ Alive /\ logger = "open" /\ lcancel
  /\ logger' = "done"
  /\ UNCHANGED <<control, flags, pc, loop, lcancel, log, sequence, saved>>

------------------------------------------------------------------------------
\* ntcore saves the persistent entries, or the robot's server hears of them.
Save ==
  /\ Alive /\ entry # stored
  /\ stored' = entry /\ safe' = kept
  /\ UNCHANGED <<control, flags, pc, loop, task, sequence, entry, kept>>

\* The daemon dies, or has died, and is started again: of what it stored, the
\* copy is left.
Restart ==
  /\ camera' = "off" /\ enabled' = FALSE /\ cancel' = TRUE /\ pc' = "off"
  /\ logging' = FALSE /\ made' = FALSE /\ interval' = 0 /\ counter' = 0
  /\ lcancel' = FALSE /\ logger' = "none" /\ log' = 0 /\ sequence' = 1
  /\ entry' = stored /\ kept' = safe
  /\ UNCHANGED <<switches, rate, stored, safe>>

Client ==
  \/ CameraOn \/ CameraOff \/ LightsOn \/ LightsOff
  \/ \E fps \in Rates : ConfigLog(fps)

Controller == CameraEntered \/ RunnerStop \/ Join

Prepare == Begin \/ MakeLogger \/ DivideRate \/ NoLogger

RunLoop ==
  \/ Cancelled \/ Proceed \/ PollFlag \/ StartLogger \/ StopLogger \/ StopEnds
  \/ Frame \/ LastStopEnds \/ Return \/ Unwind

Logger == LoggerStart \/ LoggerEnd

Next ==
  \/ Client \/ Controller \/ Prepare \/ RunLoop \/ Throw \/ Logger
  \/ Save \/ Restart

Spec == Init /\ [][Next]_vars

\* The threads are scheduled.  Nothing makes a client act, a pipeline throw
\* or a daemon die.
FairSpec ==
  Spec /\ WF_vars(Controller) /\ WF_vars(Prepare \/ RunLoop) /\ WF_vars(Logger)

------------------------------------------------------------------------------
(* Safety.                                                                 *)

\* Between two frames the logging task runs exactly if the loop believes it
\* does, although it is started, cancelled and awaited by a flag that is
\* read twice and a task that starts late (runner.cpp:113-121,
\* frame_logger.h:43-60).
LoggerFollowsLoop ==
  pc \in {"top", "poll", "frame"} => (logging <=> Live) /\ (Live => ~lcancel)

\* No log that was ended is overwritten by a later one, whatever runs,
\* failures and deaths of the daemon lie between, but for one window: a log
\* that ended after ntcore's last save may be, once the daemon has died
\* (frame_logger_base.cpp:28-29, runner.cpp:61,104,119, state.cpp:53-59).
ClosedLogsKept == logger = "open" => log \notin kept

\* As long as no log is open the entry has the number of the next log, so that
\* a daemon that dies after the next save reuses none (runner.cpp:104,117-120).
EntryCurrent ==
  pc \in {"top", "poll", "frame", "ended", "failed"} /\ ~Live =>
    entry = sequence

\* A frame is logged every log_interval frames: the counter never leaves its
\* range, unless the log rate is above the frame rate
\* (runner.cpp:77-89,157-161).
CounterInRange ==
  pc \in {"top", "frame"} /\ made /\ interval > 0 => counter \in 1..interval

\* The inductive invariant: where Run is says whether it has a logger and
\* whether the logging task runs; the entry lies between the logs that were
\* ended and the next one, and its copy between those the copy knows of and
\* the entry.
RunInv ==
  /\ camera \in {"off", "error"} => pc = "off"
  /\ pc = "off" => camera \in {"off", "error"}
  /\ made \/ pc \notin {"divide", "waiting", "last"}
  /\ pc = "make" => ~made
  /\ pc \in {"poll", "reread", "waiting"} /\ made /\ interval > 0 =>
       counter \in 1..interval
  /\ Live => made

TaskInv ==
  /\ pc \in {"off", "begin", "ended", "failed"} => ~Live
  /\ pc \in {"make", "divide"} => logger = "none" /\ ~logging
  /\ pc \in {"reread", "unwinding"} =>
       (logging <=> Live) /\ (Live => ~lcancel)
  /\ pc \in {"waiting", "last"} => lcancel
  /\ pc = "waiting" => ~logging
  /\ logger = "none" => log = 0

SequenceInv ==
  /\ safe \subseteq kept /\ stored <= entry
  /\ \A n \in kept : n < entry
  /\ \A n \in safe : n < stored
  /\ pc \notin {"off", "begin"} => entry <= sequence
  /\ logger \in {"open", "done"} => log < sequence
  /\ logger = "open" => \A n \in kept : n < log
  /\ logger = "spawned" => entry = sequence
  /\ pc \in {"make", "divide", "reread", "unwinding"} /\ ~Live =>
       entry = sequence

IInv ==
  /\ TypeOK /\ RunInv /\ TaskInv /\ SequenceInv
  /\ LoggerFollowsLoop /\ ClosedLogsKept /\ EntryCurrent /\ CounterInRange

------------------------------------------------------------------------------
(* Liveness and disagreements.                                             *)

\* Turning logging off never stops the pipeline: FrameLogger::Stop ends even
\* if the task has not started yet (frame_logger.h:43-60).
LoggerStopEnds == (pc = "waiting") ~> (pc # "waiting")

\* "The On state receiving CameraOff event will cancel pipeline task, catch
\* exception and transition to Error state" (controller.cpp:169-170): a
\* throw of the pipeline reaches has_error_ and the scan.
ThrowReported == (pc = "unwinding") ~> (pc \in {"failed", "off"})

\* The frame_logger that Run uses is never null: the diagnostic that says it
\* may be is turned off for the whole of Run (runner.cpp:51-52).
LoggerNotNull == pc = "reread" \/ (pc = "top" /\ cancel /\ rate > 0) => made
==============================================================================
