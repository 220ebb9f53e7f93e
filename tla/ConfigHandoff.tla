---------------------------- MODULE ConfigHandoff ----------------------------
(***************************************************************************)
(* How configuration reaches a running pipeline: the controller thread     *)
(* stores it in the camera's Runner (Runner::Configure) and the pipeline   *)
(* thread picks it up between two frames (Runner::Run).                    *)
(*                                                                         *)
(* Pipeline and stream configuration each go through a channel: a value    *)
(* behind a mutex and an atomic flag that says it is new.  The capture     *)
(* configuration is a plain member that both threads use without a lock.   *)
(*                                                                         *)
(* A configuration is abstracted to its version, the number of times it    *)
(* was set.  Copying one is not atomic: a value has two parts.             *)
(***************************************************************************)
EXTENDS Naturals

CONSTANTS
  MaxVersion,  \* bound on how often a pipeline or stream config is set
  MaxCapture   \* bound on how often the capture config is set

ASSUME VersionAssumption == MaxVersion \in Nat /\ MaxCapture \in Nat

Channels == {"pipeline", "stream"}
Parts    == {"first", "second"}
Whole(n) == [p \in Parts |-> n]

VARIABLES
  value,      \* pipeline_config_ and stream_config_
  ready,      \* pipeline_config_ready_ and stream_config_ready_
  owner,      \* who holds the mutex of each
  sent,       \* version of the last Configure call of each
  conf,       \* where the controller is in Configure
  capture,    \* capture_config_
  run,        \* where the pipeline thread is in Run
  applied,    \* what the pipeline and the streamer were last configured with
  configured, \* those configured since this run began
  sized,      \* capture version the pipeline and the streamer were set up for
  opened,     \* capture version the capture device was opened with
  area        \* capture version frame_area was computed from

channelVars == <<value, ready, owner>>
controlVars == <<sent, conf, capture>>
captureVars == <<sized, opened, area>>
vars == <<channelVars, controlVars, run, applied, configured, captureVars>>

\* Where a thread is, and the channel it is busy with.
Of(where, ch) == [at |-> where, ch |-> ch]
At(where)     == Of(where, "none")

ConfStates ==
  {At("idle"), At("capture")}
    \cup [at : {"locked", "half", "written", "announced"}, ch : Channels]
RunStates ==
  {At("off"), At("begin"), At("load"), At("open"), At("top"), At("frame")}
    \cup [at : {"look", "cleared", "holding"}, ch : Channels]

\* Every variable keeps the range the code gives it.
TypeOK ==
  /\ value \in [Channels -> [Parts -> Nat]]
  /\ ready \in [Channels -> BOOLEAN]
  /\ owner \in [Channels -> {"nobody", "controller", "runner"}]
  /\ sent \in [Channels -> Nat]
  /\ conf \in ConfStates
  /\ capture \in Nat
  /\ run \in RunStates
  /\ applied \in [Channels -> [Parts -> Nat]]
  /\ configured \subseteq Channels
  /\ sized \in Nat /\ opened \in Nat /\ area \in Nat

\* Camera::Initialize has configured the Runner; no task runs yet.
Init ==
  /\ value = [ch \in Channels |-> Whole(1)]
  /\ ready = [ch \in Channels |-> TRUE]
  /\ owner = [ch \in Channels |-> "nobody"]
  /\ sent = [ch \in Channels |-> 1]
  /\ conf = At("idle")
  /\ capture = 1
  /\ run = At("off")
  /\ applied = [ch \in Channels |-> Whole(0)]
  /\ configured = {}
  /\ sized = 0 /\ opened = 0 /\ area = 0

------------------------------------------------------------------------------
(* The controller thread: the three Runner::Configure.                     *)

confFrame == <<run, applied, configured, captureVars>>

\* (Mutant: the value is written without the mutex.)
BeginConfigure_Unlocked(ch) ==
  /\ conf = At("idle") /\ sent[ch] < MaxVersion
  /\ sent' = [sent EXCEPT ![ch] = @ + 1]
  /\ conf' = Of("locked", ch)
  /\ UNCHANGED <<channelVars, capture, confFrame>>

\* WriteAccess takes the mutex.
BeginConfigure(ch) ==
  /\ conf = At("idle") /\ sent[ch] < MaxVersion
  /\ owner[ch] = "nobody"
  /\ owner' = [owner EXCEPT ![ch] = "controller"]
  /\ sent' = [sent EXCEPT ![ch] = @ + 1]
  /\ conf' = Of("locked", ch)
  /\ UNCHANGED <<value, ready, capture, confFrame>>

\* *value = config, one part and then the other.
WriteFirst(ch) ==
  /\ conf = Of("locked", ch)
  /\ value' = [value EXCEPT ![ch] = [@ EXCEPT !["first"] = sent[ch]]]
  /\ conf' = Of("half", ch)
  /\ UNCHANGED <<ready, owner, sent, capture, confFrame>>

WriteSecond(ch) ==
  /\ conf = Of("half", ch)
  /\ value' = [value EXCEPT ![ch] = [@ EXCEPT !["second"] = sent[ch]]]
  /\ conf' = Of("written", ch)
  /\ UNCHANGED <<ready, owner, sent, capture, confFrame>>

\* (Mutant: the flag is not raised.)
Announce_Silent(ch) ==
  /\ conf = Of("written", ch)
  /\ conf' = Of("announced", ch)
  /\ UNCHANGED <<channelVars, sent, capture, confFrame>>

\* The flag is raised before the mutex is released.
Announce(ch) ==
  /\ conf = Of("written", ch)
  /\ ready' = [ready EXCEPT ![ch] = TRUE]
  /\ conf' = Of("announced", ch)
  /\ UNCHANGED <<value, owner, sent, capture, confFrame>>

EndConfigure(ch) ==
  /\ conf = Of("announced", ch)
  /\ owner' = [owner EXCEPT ![ch] = "nobody"]
  /\ conf' = At("idle")
  /\ UNCHANGED <<value, ready, sent, capture, confFrame>>

\* capture_config_ = config, while the pipeline thread may be reading it.
BeginCapture ==
  /\ conf = At("idle") /\ capture < MaxCapture
  /\ conf' = At("capture")
  /\ UNCHANGED <<channelVars, sent, capture, confFrame>>

EndCapture ==
  /\ conf = At("capture")
  /\ capture' = capture + 1
  /\ conf' = At("idle")
  /\ UNCHANGED <<channelVars, sent, confFrame>>

\* What an unlocked read of the member can return: during an assignment the
\* old value, the new one or a mixture, which is the version 0.
Readable ==
  IF conf = At("capture") THEN {capture, capture + 1, 0} ELSE {capture}

------------------------------------------------------------------------------
(* The pipeline thread: Runner::Run.                                       *)

\* On::entry starts the task.  It runs on the thread that configures, so never
\* in the middle of a Configure.
Launch ==
  /\ run = At("off") /\ conf = At("idle")
  /\ run' = At("begin")
  /\ configured' = {}
  /\ UNCHANGED <<channelVars, controlVars, applied, captureVars>>

\* Both flags are raised: the streamer of this run is a new one.
BeginRun ==
  /\ run = At("begin")
  /\ ready' = [ch \in Channels |-> TRUE]
  /\ run' = At("load")
  /\ UNCHANGED <<value, owner, controlVars, applied, configured, captureVars>>

\* Pipeline, streamer and frame logger are set up for the capture config ...
LoadCapture ==
  /\ run = At("load")
  /\ sized' \in Readable
  /\ run' = At("open")
  /\ UNCHANGED <<channelVars, controlVars, applied, configured, opened, area>>

\* ... and the capture device is opened with it.
OpenCapture ==
  /\ run = At("open")
  /\ opened' \in Readable
  /\ run' = At("top")
  /\ UNCHANGED <<channelVars, controlVars, applied, configured, sized, area>>

\* The head of the loop: a run that is not cancelled looks for configuration.
Proceed ==
  /\ run = At("top")
  /\ run' = Of("look", "pipeline")
  /\ UNCHANGED <<channelVars, controlVars, applied, configured, captureVars>>

\* What follows the look at a channel.
After(ch) == IF ch = "pipeline" THEN Of("look", "stream") ELSE At("frame")

NothingNew(ch) ==
  /\ run = Of("look", ch) /\ ~ready[ch]
  /\ run' = After(ch)
  /\ UNCHANGED <<channelVars, controlVars, applied, configured, captureVars>>

\* The flag is cleared before the value is looked at.
ClearReady(ch) ==
  /\ run = Of("look", ch) /\ ready[ch]
  /\ ready' = [ready EXCEPT ![ch] = FALSE]
  /\ run' = Of("cleared", ch)
  /\ UNCHANGED <<value, owner, controlVars, applied, configured, captureVars>>

\* ReadAccess takes the mutex.
Hold(ch) ==
  /\ run = Of("cleared", ch)
  /\ owner[ch] = "nobody"
  /\ owner' = [owner EXCEPT ![ch] = "runner"]
  /\ run' = Of("holding", ch)
  /\ UNCHANGED <<value, ready, controlVars, applied, configured, captureVars>>

\* The pipeline or the streamer is configured.  frame_area of a pipeline's
\* filter is computed from the capture configuration of this moment.
Apply(ch) ==
  /\ run = Of("holding", ch)
  /\ applied' = [applied EXCEPT ![ch] = value[ch]]
  /\ configured' = configured \cup {ch}
  /\ area' \in IF ch = "pipeline" THEN Readable ELSE {area}
  /\ owner' = [owner EXCEPT ![ch] = "nobody"]
  /\ run' = After(ch)
  /\ UNCHANGED <<value, ready, controlVars, sized, opened>>

\* (Mutant: the flags are cleared when a frame has used the configuration.)
Frame_ClearsReady ==
  /\ run = At("frame")
  /\ ready' = [ch \in Channels |-> FALSE]
  /\ run' = At("top")
  /\ UNCHANGED <<value, owner, controlVars, applied, configured, captureVars>>

\* A frame is grabbed and processed.
Frame ==
  /\ run = At("frame")
  /\ run' = At("top")
  /\ UNCHANGED <<channelVars, controlVars, applied, configured, captureVars>>

\* The run is cancelled at the head of the loop, or a frame throws.
Leave ==
  /\ run \in {At("top"), At("frame")}
  /\ run' = At("off")
  /\ UNCHANGED <<channelVars, controlVars, applied, configured, captureVars>>

------------------------------------------------------------------------------
Configure ==
  \/ \E ch \in Channels : BeginConfigure(ch)
  \/ BeginCapture

Controller ==
  \/ \E ch \in Channels :
       WriteFirst(ch) \/ WriteSecond(ch) \/ Announce(ch) \/ EndConfigure(ch)
  \/ EndCapture

Loop ==
  \/ BeginRun \/ LoadCapture \/ OpenCapture \/ Proceed \/ Frame
  \/ \E ch \in Channels :
       NothingNew(ch) \/ ClearReady(ch) \/ Hold(ch) \/ Apply(ch)

Next == Configure \/ Controller \/ Launch \/ Loop \/ Leave

Spec == Init /\ [][Next]_vars

\* Both threads are scheduled.  Nothing makes a client configure anything,
\* start a camera or stop it.
FairSpec == Spec /\ WF_vars(Controller) /\ WF_vars(Loop)

------------------------------------------------------------------------------
(* Safety.                                                                 *)

Writing(ch) == conf.ch = ch
Taking(ch)  == run \in {Of("cleared", ch), Of("holding", ch)}
InLoop      == run \notin {At("off"), At("begin"), At("load"), At("open")}

\* No configuration is applied in part: the pipeline never mixes the values
\* of two versions (runner.cpp:34-45,124-141).
NoTornConfig ==
  \A ch \in Channels : applied[ch]["first"] = applied[ch]["second"]

\* No configuration is lost between the flag, the mutex and the copy: a
\* running pipeline has the last version that was set, or the flag is up, or
\* one of the two threads is about to see to it (runner.cpp:34-45,124-141).
NoLostConfig ==
  InLoop => \A ch \in Channels :
    ready[ch] \/ Taking(ch) \/ Writing(ch) \/ applied[ch] = Whole(sent[ch])

\* No frame is processed before this run has configured its pipeline and
\* its streamer, even if nothing has changed since the last run
\* (runner.cpp:58-59,73-74,124-148).
FramesConfigured == run = At("frame") => configured = Channels

\* The inductive invariant: a mutex is held by the thread that is between
\* taking and releasing it, a value is torn only in the hands of its writer,
\* and the flag stays up from the start of a run until it is looked at.
OwnerInv ==
  \A ch \in Channels :
    /\ Writing(ch) <=> owner[ch] = "controller"
    /\ run = Of("holding", ch) <=> owner[ch] = "runner"

ValueAt(ch) ==
  value[ch] =
    CASE conf = Of("locked", ch) -> Whole(sent[ch] - 1)
      [] conf = Of("half", ch)   ->
           [Whole(sent[ch] - 1) EXCEPT !["first"] = sent[ch]]
      [] OTHER                   -> Whole(sent[ch])

ValueInv == \A ch \in Channels : ValueAt(ch)

FlagInv ==
  \A ch \in Channels :
    /\ sent[ch] >= 1
    /\ conf = Of("announced", ch) =>
         ready[ch] \/ Taking(ch) \/ ~InLoop \/ applied[ch] = Whole(sent[ch])
    /\ run \in {At("load"), At("open")} => ready[ch]
    /\ InLoop => ready[ch] \/ Taking(ch) \/ ch \in configured
    /\ run.ch = "stream" => "pipeline" \in configured

\* The version that was set last counts from the moment its flag is raised; a
\* channel whose flag is down has it, unless it is just being taken over.
Announced(ch) ==
  IF conf \in {Of("locked", ch), Of("half", ch), Of("written", ch)}
    THEN sent[ch] - 1 ELSE sent[ch]

LatestInv ==
  InLoop => \A ch \in Channels :
    ready[ch] \/ Taking(ch) \/ applied[ch] = Whole(Announced(ch))

IInv ==
  /\ TypeOK /\ OwnerInv /\ ValueInv /\ FlagInv /\ LatestInv
  /\ NoTornConfig /\ NoLostConfig /\ FramesConfigured

------------------------------------------------------------------------------
(* The register behind the hand-off.                                       *)

\* The version this run was configured with last; 0 is a mixture, or none.
UsedVersion(ch) ==
  IF ch \in configured /\ applied[ch]["first"] = applied[ch]["second"]
    THEN applied[ch]["first"] ELSE 0

\* The channels Run has seen to since the head of its loop.
SeenTo ==
  CASE run.ch = "stream"  -> {"pipeline"}
    [] run = At("frame")  -> Channels
    [] OTHER              -> {}

Register == INSTANCE ConfigRegister WITH
  on     <- run # At("off"),
  latest <- [ch \in Channels |-> Announced(ch)],
  used   <- [ch \in Channels |-> UsedVersion(ch)],
  seen   <- SeenTo

\* Value, mutex and flag of a channel are together one register: setting a
\* configuration and taking it over each happen in one moment, before every
\* frame the latest one is taken, and what is taken is whole
\* (runner.cpp:34-45,58-59,124-148).
ImplementsRegister == Register!Spec

------------------------------------------------------------------------------
(* Liveness and a disagreement.                                            *)

\* A version that was set reaches the pipeline, unless the camera is turned
\* off first; a later version may overtake it (runner.cpp:124-141).
ConfigApplied ==
  \A ch \in Channels : \A n \in 1..MaxVersion :
    (sent[ch] = n) ~> (applied[ch]["second"] >= n \/ run = At("off"))

\* The frames of a run are those of the capture configuration it was set up
\* for: Configure for capture settings "only takes effect after pipeline
\* restart" (abstract_pipeline.cpp:22-25).  A run whose frame area is that of
\* the size its device was opened with keeps it.  What an unlocked read during
\* an assignment returns is set aside.
CaptureFixed ==
  [][InLoop /\ "pipeline" \in configured /\ conf # At("capture")
       /\ opened = sized /\ area = sized => area' = area]_vars
==============================================================================
