# Deadeye in TLA+

Deadeye is a vision system for FRC robots.  A daemon on a small board runs up
to five cameras, finds targets in their frames and sends them to the robot; the
robot, a web page and an admin server control it through NetworkTables.  This
directory holds a model of it: TLA+ modules translated from the source, TLC
configurations that check them on small instances, and proofs that TLAPS checks
for all instances.  Line numbers refer to files under `src/`; `runner.cpp` and
the like are in `src/daemon/src`.

## 1. Inventory

| Component | State it keeps | Operations | Talks to |
|---|---|---|---|
| Controller (`controller.cpp`) | poller, `quit` | poll entries, scan errors, dispatch commands and configuration, shut down | every Camera and Lights machine, by direct call, on one thread |
| Camera machine (`hardware/camera.cpp`) | state, `has_error_`, the pipeline task's future, status entries | CameraOn, CameraOff, LightsOn, LightsOff, Config* | Lights machine, Runner; starts and joins the pipeline task |
| Lights machine (`hardware/lights.cpp`) | state, `cancel_`, the blink task's future, status entries | LightsOn, LightsOff, LightsBlink | LED drive; Camera machine (logging follows the lights) |
| Runner (`pipeline/runner.cpp`) | `cancel_`, `logging_enabled_`, capture and log configuration, pipeline and stream configuration with their flags | Configure, SetLoggingEnabled, Run, Stop | pipeline, streamer, link, frame logger |
| Frame logger (`log/frame_logger.h`, `log/`) | `cancel_`, task, queue | Run, Log, Stop | files; the persistent sequence number (`state.cpp`) |
| Pipelines, filters (`pipeline/`) | configuration, serial number, contours | Configure, ProcessFrame | OpenCV |
| Streamer (`pipeline/streamer.cpp`) | stream configuration | Configure, Process | cscore |
| Link (`link/`) | UDP socket | Send | the client's link |
| Java client (`src/client`) | link thread, handlers, latest target data | constructor, receive, getTargetData, setEnabled | NetworkTables, UDP |
| Admin server (`src/admin`) | units, refresh flags | socket.io handlers, background thread | NetworkTables, browsers |
| Shutdown button (`shutdown.cpp`) | a count of samples | sample, power off | GPIO |
| Configuration (`config/`) | JSON in NetworkTables, defaults | read, complete, write back | Controller, persist file |
| Web page, installation | - | - | admin server; systemd |

What is hard about it:

* **Threads.** One controller thread serves all cameras and blocks in a
  handler until a task has ended.  Every camera has a pipeline task, while it
  blinks a blink task, and while it logs a logging task.  They share atomic
  flags without a lock between a test and what follows.
* **Failure.** A pipeline may throw at any frame; the exception crosses two
  threads (`has_error_`, then the future) and two machines.  Destructors of
  futures wait.
* **Status entries are commands.** The entry `On` of a camera is written by
  clients to turn it on and by the daemon to say that it is on; the admin
  server writes the opposite entry, too, and clears it.
* **Configuration** is replaced while the pipeline uses it.
* **Restart.** systemd starts the daemon again (`Restart=on-failure`); only the
  sequence number of the frame logs and the settings in NetworkTables survive,
  as far as they were saved, also those an older version or a careless client
  wrote.
* **Shared pixels.** A frame, a file's source and the streamer's picture may be
  one `cv::Mat`; the log queue has clones (`frame_logger.h:52`).
* **UDP.** Target data is lost and reordered, and one receiving thread with one
  buffer serves all cameras of a robot program.
* **Three kinds of threads** in the admin server: two of pynetworktables' and
  the green threads of eventlet.

What makes each correct, in brief: the controller never waits for ever and
misses no failure; a camera has a pipeline task exactly while it is on; lamp and
logging follow the machines; a configuration arrives whole and is not lost; a
frame log whose number was saved is never overwritten; target data goes to the
camera it came from.  The hazards behind these, each at its line, are listed in
`PROJECT.json`.

## 2. Modules

| Module | Models | Role |
|---|---|---|
| `CameraControl` | `controller.cpp`, `hardware/*`, the start and end of `Runner::Run`, `deadeye.h` | the control plane of the daemon, all cameras |
| `CameraLifecycle` | what the daemon promises a client about a camera | abstract specification of `CameraControl` |
| `ConfigHandoff` | `Runner::Configure` against `Runner::Run` | how configuration reaches a running pipeline |
| `ConfigRegister` | what the hand-off promises: a register that is set and taken in single steps | abstract specification of `ConfigHandoff` |
| `FrameLogging` | the rest of `Runner::Run`'s control, `frame_logger.h`, `frame_logger_base.cpp`, `state.cpp` | one camera's logging, with restarts |
| `FramePath` | one run's frames: `capture/*`, `pipeline/*`, `streamer.cpp`, the queue of `frame_logger.h`, `full_frame.cpp`, `four_up.cpp` | the data path of the daemon |
| `ClientLink` | `link/*`, UDP, `Link.java`, `Deadeye.java`, the JSON adapters | target data on its way to the robot program |
| `UnitLife` | start-up in `controller.cpp`, `config/*_config.cpp`, `shutdown.cpp`, the systemd units | a unit through restarts and power cuts |
| `SettingsStore` | what a unit promises about the settings it keeps | abstract specification of `UnitLife` |
| `AdminServer` | `api.py`, `models.py`, `nt_connection.py` | the admin server between NetworkTables and browsers |
| `CameraControl_proofs`, `CameraStatus_proofs`, `ConfigHandoff_proofs`, `FrameLogging_proofs`, `FramePath_proofs`, `ClientLink_proofs`, `UnitLife_proofs`, `AdminServer_proofs` | | theorems |
| `MC*` | | definitions for TLC |

The modules meet in what one leaves to another: `CameraControl` has only the
first and last statements of `Run`, and takes `TaskThrow` and `TaskStick` from
nowhere; `FrameLogging` and `FramePath` say when they happen.  `FramePath`
begins a run with its configurations read, as `ConfigHandoff` shows it always
does, and starts and stops logs at will, as `FrameLogging` does at an order of
its own.  `ClientLink` takes target data from `FramePath`'s pipelines as
given; `UnitLife` ends where the main loop of `CameraControl` begins.

Three modules are refinements, by `INSTANCE ... WITH` and a property that is
the abstract specification:

* `CameraControl` of `CameraLifecycle`: a camera's machine and its task are the
  two variables of the abstract specification.
* `ConfigHandoff` of `ConfigRegister`: the latest version of a channel is the
  one whose flag was raised last (`Announced`), the version used is the one
  applied in this run (`UsedVersion`), and a channel has been seen to from its
  look, or the copy under its mutex, until the next frame (`SeenTo`).  Setting
  a version is the step that raises the flag; writing, locking and clearing
  are stutters.
* `UnitLife` of `SettingsStore`: the store is the table while a server has it
  and the persist file otherwise (`Current`), and what is saved is the file, or
  the robot's table (`Kept`).  The end of a process that was the server is the
  loss of what was not saved; the start that reads the file is a stutter.

### CameraControl

State and code: `cam` and `lights` are the tinyfsm states; `phase` is where the
main loop is and `call` where the controller thread is inside a dispatch, so
that every other thread can act between two statements of a handler that
matter; `task` is the pipeline task with its future, `blink` the blink task
with its own; `cancel`, `hasError`, `logging`, `cancelBlink` and `isOn` are the
members of those names, `led` the lamp; `nt` holds the status entries that are
true, `queue` what the poller will return and `batch` what it has returned.

One operator stands for one statement group of a handler: for example
`CameraStop` is `On::exit` and the head of `Off::entry`, `CameraJoin` and
`CameraJoinFailed` are `pipeline_future_.get()`.  A dispatch that calls another
machine (`LightsEvent`, `LightsStep`, `Resume`) is followed into it and back,
as the calls nest in the code.  The blink task's test of its flag and the
change of the lamp that follows are one step; a pause of the task before the
change is covered by a pause before the test, because nothing else drives the
lamp while the task lives.

`RemoteWrites` says which key and value pairs clients write: robot programs set
entries (`Deadeye.java:276-307`), the admin server sets one and clears its
opposite (`models.py:65-72,146-153`).  The poller reports both, and the
controller acts on what was set.

Abstractions: a client's write is accepted at any time and may repeat a value
(NetworkTables reports only changes: the model has more behaviours than the
code, not fewer); whether a camera is configured to log is fixed
(`LoggingCameras`) and becomes live in `FrameLogging`; `capture->Grab` returns.
A task of a logging camera may also get stuck (`TaskStick`): the two ways in
which it hangs in its frame logger are the subject of `FrameLogging`, and the
liveness properties here say what holds as long as that does not happen.

### ConfigHandoff

A configuration is its version.  A value behind a mutex has two parts, written
one after the other and read when the reader holds the mutex, so that a torn
value would be visible.  `conf` and `run` are the places of the controller and
of the pipeline thread; a run is launched only between two configurations, since
one thread does both.  The capture configuration has no lock: a read during its
assignment returns the old value, the new one, or 0, a mixture.

### FrameLogging

`pc` is the place in `Runner::Run`; the two reads of `logging_enabled_`
(`runner.cpp:113-114`) and the three of the log rate (79, 84, 103) are
separate steps, because the controller can change both in between.  A null
dereference and a division by zero lead to `"crashed"`, a wait that nobody will
end to `"stuck"`; destroying a frame logger whose task runs is undefined (its
queue goes first) and may do either.  `PipelineState::Store` only sets an entry
(`Store`, `entry`); what a daemon that dies leaves behind is the copy that
ntcore's server saves every now and then, or that has reached the robot's
(`Save`, `stored`).  `Restart` starts the daemon again from any state, with the
copy.  `kept` and `safe` are histories: the logs that have ended, and those that
had when the copy was made.  After a restart between `Store` and `Save` the
number is used again and its log overwritten, as in the code.

### FramePath

A picture is a set of shapes, each with a hue and the measures OpenCV would give
its contour; `MaskFrame`, `Passes` and `GeometricContoursFilter` are the
operators of `pipeline_ops.h`, with the NaN of 0/0 as `Undefined`, which every
comparison fails.  Sizes are pairs of pixels: `Border`, `TopBottom`, `Ratio` and
`Canvas` follow the streamer's arithmetic.  What a `cv::Mat` shares is explicit:
`shared` says that the streamer's `output_` has the pixels of the frame, and
drawing on it then changes the frame and, for an image file, the source of all
later frames; an entry of the log queue is a clone made after that. The end of
`Run`, returning or throwing, destroys the logger with its queue (`EndRun`).
`sent`, `queue`, `logged` and `written` are the target data, the logger's queue,
and histories of what went into it and came out.  A device is its type: a file
repeats its picture, a camera delivers any scene, a read that fails leaves the
last frame (cscore) or an empty one, which throws.  `CheckMount` and `CheckDir`
decide once whether the logger writes or discards.

Left out: opening a device, its properties, lines drawn by the streamer, the
text of a four-up image.

### ClientLink

`run[c]` is a pipeline run with the `Link` it built from the entry at its start;
`net` the datagrams on their way, delivered in any order or never.  The client
is `cache` (which object has which camera), `thread` and `buffer`, the order of
arrivals being kept in `arrivals`.  `stage` splits the constructor of `Deadeye`
where the receiving thread can come in between: after registration, after the
thread's start, after the adapter is there.  Payloads are sequences of numbers
in the order of the code of each side (`DumpMinArea`, `ReadMinArea`, ...), so
that a field read at another place than it was written at shows.  `Cut` is the
client's buffer of 512 bytes.  A link entry has an address that is well formed,
invalid or garbled, and may be disabled: `Adopted` is what the client makes of
it.  A constructor that finds no address of its own, or another one in use,
throws (`Refused`).  Left out: an `IOException` of `receive()`, datagrams
shorter than the two letters of an id, and a target data listener that throws.

### UnitLife

`mode` is the unit's role in NetworkTables; `table` what is in it, `file` the
persist file of the unit's own server, `live` what the controller has.  A JSON
object is the set of its keys and the number of its write; `Readable...` are
the constructors and `from_json` of each configuration: which keys they need
(`at`) and which they do not (`value`, `contains`).  `pc` follows the
constructor of `Controller`: server or client, the barrier that a listener
fulfils, defaults, reading, listening.  A daemon that fails is started again by
systemd until it gives up; a power cut loses `table`, `live` and the process.
The button is sampled once a second.

### AdminServer

`hub` is the place of the background thread; handlers run only where it sleeps
or waits (`Idle`), because both are green threads of one thread.  The listeners
of pynetworktables run in threads of their own and may come at any place.  A
setter's two statements, the entry and the model, are two steps
(`SetEntry`, `SetModel`).  `stale` and `lost` are histories of the windows in
which an update is missed, so that the properties hold outside them and only
there.  Settings that are empty or no JSON (`Broken`) are ignored by the
listener, and a camera that has one when it is read is left out of its unit
(`SkipCamera`).  Left out: a browser that connects after the connection was lost
adds another connection listener (`nt_connection.py:14,44-51`), which does what
the first does, again.

## 3. Runs

Passing runs (checked exhaustively):

| Run | Instance | Shows |
|---|---|---|
| `control_one` | 1 camera, 5 commands and the clearing of `Off`, 2 waiting | the inductive invariant, `LampSteady`, `StatusTruthful`, `StatusShown`, `FailureDarkens` |
| `control_two` | 2 cameras, one on/off/blink and logging, one turned on, fair | `ErrorFlagExact`, `CleanStop`, refinement of `CameraLifecycle`, `StopHonoured`, `BlinkJoinEnds`, `FailureReported`, `SignalStops` |
| `config_handoff` | 3 versions of each channel, 2 of capture, fair | `NoLostConfig`, refinement of `ConfigRegister` (no configuration is torn, none is used before it is set, no frame passes over the latest), `ConfigApplied` |
| `logging` | 3 enablings, rates off, below and above the frame rate, any number of saves and restarts, fair | `LoggerFollowsLoop`, `ClosedLogsKept`, `LoggerStopEnds` |
| `frame_path` | 6 set-ups of capture, pipeline and log rate, 3 or 4 frames, 1 or 2 logs, fair | `StreamFits`, `PictureIntact`, `SerialsCountPictures`, `TargetIsLargest`, `LogSpacing`, `NothingLost`, `LogsNumbered`, `ImageExplainsTarget`, `QueueServed` |
| `client_link` | 2 cameras, 2 `Deadeye` objects, 3 datagrams, 5 set-ups, 4 entries others write | `LagIsStrays`, `OwnLatest`, `FieldsAgree`, `DeathHasCause`, `LinkReaches` |
| `unit_life` | 1 camera, 2 settings written, 2 starts before systemd may give up, fair | `ConfigFollows`, `FailureHasCause`, refinement of `SettingsStore`, `GetsReady`, `HeldPowersOff` |
| `admin_server` | 2 cameras, 3 settings, 1 of them unreadable, 2 updates and 1 connection event on the way, fair | `ViewFollows`, `BrowsersFollow`, `CamerasShown` |

Runs that find a disagreement between the source and what it says of itself
(`findings` in `PROJECT.json` quote the lines):

| Run | The source says | TLC shows |
|---|---|---|
| `control_lost_cancel` | CameraOff cancels the pipeline task (`controller.cpp:169`) | a `Stop` that comes before the task's first statement is overwritten by `cancel_ = false`; the controller waits for ever |
| `config_capture` | capture settings take effect after a restart of the pipeline (`abstract_pipeline.cpp:22`) | the frame area of the filters follows with the next pipeline configuration, between two frames of one run |
| `logging_throw` | an exception leads to the Error state (`controller.cpp:170`) | a pipeline that throws while it logs hangs in the destructor of its logger |
| `logging_null` | null dereference is not an issue in `Run` (`runner.cpp:52`) | rate 0 at the start, a positive one later: a null `frame_logger` is used |

What the passing properties except, because the code does:

* `StatusTruthful`: the entry of the state a machine is in is cleared when a
  client clears it, and stays so until the machine changes; a claim of another
  state is there only while its command waits.
* `ClosedLogsKept`: a log that ended after ntcore's last save is overwritten
  once the daemon has died (`state.cpp:53-59`).
* `NothingLost`: the frames that are queued when `Run` ends are lost
  (`frame_logger.h:62-67`).
* `PictureIntact`: after a mask was streamed for frames of the stream's own
  size, the picture is the mask (`streamer.cpp:81`), for a file from then on.
* `SerialsCountPictures`: cscore's last picture is sent again under a new
  number after a timeout (`usb_cscore.cpp:48-51`).
* `ImageExplainsTarget`: not after the pipeline was configured anew, since a
  four-up image keeps the thresholds the run began with (`four_up.cpp:25`).
* `OwnLatest`: the latest is the one that arrived last, and an older datagram
  that was overtaken on its way replaces a newer one; one with an unknown id
  delays all that follow by one, for good (`Link.java:73-81`; `LagIsStrays`).
* `LinkReaches`: a camera that was on before the client made the link its own
  does not send to it until it is turned on again (`link.cpp:23`), and a
  disabled entry whose address is well formed is left disabled.
* `ConfigFollows`: a setting written between reading and listening is missed
  until it is written again (`controller.cpp:102-110`).
* `GetsReady`: not if the connection is lost again before its listener is
  removed, or a client broke a setting, which then survives every restart.
* `ViewFollows`, `BrowsersFollow`, `CamerasShown`: an update between reading
  and listening (`models.py:51-55`), one on its way while a browser sets the
  same camera, one between a broadcast and the reset of its flag
  (`api.py:136-139`); settings that cannot be read; a background thread that has
  ended is not started again.

Further things seen while modelling, which no run states: the first
`getTargetData` returns the object made in the constructor, though its comment
says null; the documentation's "three seconds" of the shutdown button are
three samples a second apart, so a release between two of them goes unseen.

Bounds.  One camera shows every interleaving of its own threads; two show that
one camera's handler, error or shutdown does not disturb the other's, which is
all that couples them, since cameras share nothing but the controller thread.
`QueueBound` 2 lets a command arrive while another is handled and a third
waits.  Three versions let one overtake another that is being applied.  Three
enablings let a log be ended, a second be opened in the same run, and a third
after a failure or restart.  Three or four frames at an interval of 1 and 2 and
two logs let a frame be left in the queue between logs; the six set-ups of
`MCFramePath` have each pipeline, each kind of capture, sizes the streamer
must shrink, pad or leave, a disk that fails its check, and a log rate above the
frame rate.  Three datagrams are enough for one to be lost or overtaken and for
a stray one to delay two others.  Two settings written let the second come while the first is on its
way, read or being saved, and two starts let a daemon fail, start again and be
given up.  Two updates on the way let one be overtaken by a browser's setting
and by another update.  The proofs below need none of these bounds.  Model
values are not used for cameras: their order matters in the scan and in
`ShutDown`, and in the other modules the instances give them different parts,
so there is no symmetry to exploit.

Every property has a mutant in the modules (`X_Name` next to `X`): a plausible
bug in the mapped code that makes TLC find the property violated.

Fairness.  Weak fairness of each thread: the controller, each pipeline task,
each blink task, each logging task are threads of a preemptive scheduler, and
none of them waits for a lock that is held for ever.  Nothing is assumed of
clients, signals, pipeline failures, restarts, or of a task getting stuck.
Polling is fair because `PollEntryListener` has a timeout (`controller.cpp`).
In `UnitLife` the constructor and the sampling loop run, and the robot's server
is there to be connected to as long as the start needs it (`Connect`); power
cuts, clients and the button are free.  In `AdminServer` a setter that has
begun goes on, and the background thread has *strong* fairness: handlers may
come again and again where it sleeps, but eventlet's hub runs every green
thread whose timer has expired before it waits for further events.

Deadlock is checked in every run but two.  `Terminated` is the one step of a
daemon that has stopped; a daemon whose task hangs in its frame logger goes on
too, since the logger polls its queue.  In `ConfigHandoff` and `FrameLogging`
the camera can always be started again, or the daemon restarted; a unit can
always lose its power, and browsers can always ask again.  `frame_path` ends
with its run, and in `client_link` nothing is left to do when the datagrams are
used up: both say so in their cfg.

## 4. Proofs

All are safety, for every value of the constants, from the named assumptions of
each module (any cameras, any queue bound; any number of versions; any positive
frame rate and set of log rates; any sizes, scenes and settings of a frame path;
any objects, kinds and datagrams; any updates).  For `UnitLife` clients may
write any keys by mistake, and otherwise what `SoundAssumption` says: complete
settings, or those of an older version, whose pipelines may lack the filter, the
log, or fields of the log that have defaults.

* `CameraControl_proofs`: `Inductive` (`IInv`), from which `TypeCorrect`,
  `ErrorFlagIsExact`, `LampIsSteady`, `LoggingIsOwned`, the action property
  `FailuresDarken`, and `LifecycleRefinement`, that it implements
  `CameraLifecycle`.  None of these properties is inductive: that the error flag
  is exact needs to know what the controller is doing between `get()` and
  clearing it, and that the lamp is steady needs where the blink task is when
  its future is waited for.  `IInv` therefore relates the place in a handler to
  the states of its machines and of its tasks, camera by camera.
* `CameraStatus_proofs`: `StopIsClean`, from what the shutdown loop has already
  visited; `StatusIsTruthful` and the action property `StatusIsShown`, from what
  the entries are at each place of a handler and which commands still wait: for
  any writes of clients, those that clear an entry included.
* `ConfigHandoff_proofs`: `IInv` says who holds a mutex (`OwnerInv`), what the
  value is while a writer has it (`ValueInv`), and when the flag must be up
  (`FlagInv`); `NoLostConfig` follows, that no configuration is torn
  (`ConfigsAreWhole`) and that no frame is processed without one
  (`FramesAreConfigured`).  The argument turns on the order of `Run`: the flag
  is cleared *before* the mutex is taken, so a version set in between raises it
  again.  `RegisterRefinement` is the refinement of `ConfigRegister`.  It needs
  to know that a channel whose flag is down, and which is not just being taken
  over, has the latest version already (`LatestInv`): then to pass it by is to
  take it; and that a value under the reader's mutex is whole and announced.
* `FrameLogging_proofs`: `IInv` says at which places there is a logger, at which
  its task runs, that the entry is above every log that was kept and the copy
  above every log that had ended when it was made, and that neither is above the
  next number; `LoggerFollowsLoop`, `ClosedLogsKept`, `EntryCurrent` and
  `CounterInRange` follow.
* `FramePath_proofs`: `IInv` keeps, for each place of the loop, whose pixels the
  frame and `output_` have (`PixelInv`), what was found in them (`FrameInv`),
  how far `log_counter` is from the last logged frame (`SpacingInv`), and which
  entries of `logged` are written and which queued (`QueueInv`, `NumberInv`).
  Seven properties follow.  That the filter returns the largest contour rests
  on lemmas about the sorted sequence it makes.  The eighth, that a four-up
  image shows the contours of its target (`ImagesExplain`), needs where a
  target's contours were found (`FoundInv`, `ContoursInv`) and what a
  streamed mask does to a picture: it leaves white shapes, and none where all
  was white before, so that a picture equal to the one delivered has not been
  spoilt in between (`FadeInv`).
* `ClientLink_proofs`: `IInv` relates the buffer to the arrivals nobody handled
  and what an object holds to an arrival its adapter could read (`DataInv`,
  `ClientInv`); `FieldsAgree` follows from lemmas that each adapter inverts the
  daemon's `Dump`, for lists by the arithmetic of their indices.
* `UnitLife_proofs`: `IInv` says that the server has every setting at least as
  new as its file (`TableInv`) and that what the controller has, or the last
  notification of an entry, is what the table has (`FollowInv`).
  `FailuresExplained` also needs that every entry is there when it is read
  (`PresentInv`), and that as long as no client made a mistake every setting in
  the table, in the file or on its way can be read (`FormInv`): by lemmas that
  a default of the daemon's own (`DefaultIsReadable`) and what a client writes
  (`SoundIsReadable`) has every key `from_json` needs.  `StoreRefinement` is the
  refinement of `SettingsStore`: an entry changes only by a write with a new
  number, a default where there is nothing, or the return of all entries to what
  was saved last.
* `AdminServer_proofs`: `IInv` says the same of units and their updates
  (`FollowInv`, with the camera a browser is setting apart), and that only
  between a broadcast and its reset the flag may be up for units that were
  shown (`ShownInv`).

The inductive invariant of `CameraControl` is an invariant of a run; those of
the other modules were checked by TLC on the instances above before they were
proved, and are not checked again in every run.

Every safety property that a run checks, invariant, action property or
refinement, is a theorem.  Only model-checked is all liveness
(`StopHonoured`, `FailureReported`, `SignalStops`, `BlinkJoinEnds`,
`ConfigApplied`, `LoggerStopEnds`, `QueueServed`, `GetsReady`, `HeldPowersOff`,
`CamerasShown`), because the prover does not handle fairness.

## 5. Not modelled, and why

* Image processing, device drivers, GStreamer, cscore's MJPEG server, lines and
  text drawn over pictures: other people's code, entered by its results.
* `NullPipeline`, which stands in for a camera that is not configured: it has
  no state, and such a camera is not among `Cameras`.
* A camera's switches in the admin server (pairs of entries, each with a
  listener that takes the other's part), the contents of its link entry, the
  upload of images and the routes of the page: plain assignments beside the
  threads that `AdminServer` has; the entries themselves are `CameraControl`'s.
* In the Java client the accessors of settings, which are single reads and
  writes of entries, and the call of target data listeners.
* Field values of configurations where no control depends on them.
* The client logger and the daemon's log: formatting and output.
* The web page: presentation; what it sends is a client's write.
* Ansible, Docker and Nix files, but for the systemd units in `UnitLife`.

What could come next: the admin's switches against the daemon's status entries
as one composed system, and an abstract specification of the frame log.
