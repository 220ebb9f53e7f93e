------------------------------- MODULE FramePath -------------------------------
(***************************************************************************)
(* What happens to the frames of one run of a pipeline: Runner::Run after  *)
(* its configurations were read, with the capture device, the pipeline, the *)
(* streamer, the queue to the frame logger and the images it writes.       *)
(*                                                                         *)
(* A picture is the set of shapes in it; a shape has a hue and, as a       *)
(* contour, an area, the area of its bounding box, a solidity and an       *)
(* aspect ratio (in hundredths; Undefined is the NaN of 0/0).  A cv::Mat   *)
(* shares its pixels when it is assigned: `shared' says that the           *)
(* streamer's output_ has those of the frame, which for a file are those   *)
(* of the source.  How configurations reach Run is ConfigHandoff's, when   *)
(* logs start and stop FrameLogging's subject.                             *)
(***************************************************************************)
EXTENDS Integers, Sequences, FiniteSets

CONSTANTS
  Setups,    \* what a run may be like: its capture, pipeline, log
             \* configuration and disk; the scenes the camera may see, the
             \* pipeline configurations (hue, area, solidity, aspect) and
             \* streams clients may set; bounds on its frames and logs
  White,     \* the hue of a white pixel
  ErrorText, \* the shapes of "ERROR LOADING"
  Undefined, \* not a number
  NoFrame,   \* an empty cv::Mat
  MaxLogged  \* bound on the frames a run can log

Views == {"none", "original", "mask"}
Outlines == {"none", "filter", "all"}

\* A picture has finitely many shapes; the areas are those of its contours.
Shapes ==
  [id : Nat, hue : Int, area : Nat, box : Nat,
   solidity : Int \cup {Undefined}, aspect : Int]

IsPicture(p) == IsFiniteSet(p) /\ p \subseteq Shapes

ASSUME SetupAssumption ==
  /\ White \in Int
  /\ IsPicture(ErrorText)
  /\ \A s \in Setups :
       /\ s.size \in (Nat \ {0}) \X (Nat \ {0})
       /\ s.fps \in Nat /\ s.rate \in Nat
       /\ s.frames \in Nat /\ s.logs \in Nat
       /\ s.rate \in 1..s.fps => s.frames <= MaxLogged * (s.fps \div s.rate)
       /\ s.streams \subseteq Views \X Outlines
       /\ \A scene \in s.scenes : IsPicture(scene)
       /\ s.image # NoFrame => IsPicture(s.image)

VARIABLES
  setup,    \* what the run was started with
  config,   \* the pipeline configuration in force
  start,    \* pipeline_config_ when the frame logger was made
  view, outline, \* the stream configuration in force (outline: contour)
  pc,       \* where Run is in its loop
  src,      \* ImageFile::src_
  frame,    \* the frame
  found,    \* filter_contours_output_, largest first
  serial,   \* sn
  sent,     \* the last target data sent
  output,   \* the size of the streamer's output_
  shared,   \* output_ has the pixels of frame
  logging, counter, \* Run's logging and log_counter
  queue,    \* the frame logger's queue
  log, number, \* the log being written, frame_count_
  written,  \* the images, in the order they were written
  shot,     \* history: the picture the device delivered last
  delivered, \* history: how many pictures the device delivered
  masked,   \* history: the mask was streamed in this run
  logged    \* history: the entries given to the queue

given   == <<setup, start>>
configs == <<config, view, outline>>
pixels  == <<src, frame, shared>>
data    == <<found, serial, sent>>
logger  == <<logging, counter, queue, log, number, written, logged>>
shots   == <<shot, delivered>>
vars    == <<given, configs, pc, pixels, data, output, logger, shots, masked>>

kStreamSize == <<320, 240>>

------------------------------------------------------------------------------
(* Pipelines: from a picture to its target.                                *)

Within(x, bounds) == bounds[1] <= x /\ x <= bounds[2]

\* cvtColor and inRange: the shapes of the configured hues, in white.
MaskFrame(picture, c) ==
  {[s EXCEPT !.hue = White] : s \in {t \in picture : Within(t.hue, c.hue)}}

FrameArea(size) == size[1] * size[2]

\* A filter with its default bounds is skipped; no comparison with NaN holds.
Passes(s, c, size) ==
  /\ c.area = <<0, 100>> \/
       (/\ c.area[1] * FrameArea(size) <= 100 * s.box
        /\ 100 * s.box <= c.area[2] * FrameArea(size))
  /\ c.solidity = <<0, 100>> \/
       (s.solidity # Undefined /\ Within(s.solidity, c.solidity))
  /\ c.aspect = <<0, 2000>> \/ Within(s.aspect, c.aspect)

\* The orders std::sort may leave the contours in.
Descending(S) ==
  {q \in [1..Cardinality(S) -> S] :
     /\ {q[i] : i \in DOMAIN q} = S
     /\ \A i, j \in DOMAIN q : i < j => q[i].area >= q[j].area}

\* (Mutant: the smallest contour first.)
GeometricContoursFilter_Ascending(picture, c, size) ==
  LET S == {s \in picture : Passes(s, c, size)}
  IN  {q \in [1..Cardinality(S) -> S] :
         /\ {q[i] : i \in DOMAIN q} = S
         /\ \A i, j \in DOMAIN q : i < j => q[i].area <= q[j].area}

GeometricContoursFilter(picture, c, size) ==
  Descending({s \in picture : Passes(s, c, size)})

\* The target is the first contour's bounding box, or rotated rectangle.
FirstTarget(contours) == IF contours = <<>> THEN <<>> ELSE <<contours[1]>>

\* All pipelines but the target list send one target.
ProcessContours(contours) ==
  [valid |-> contours # <<>>,
   targets |-> IF setup.pipeline = "list" THEN contours
               ELSE FirstTarget(contours)]

------------------------------------------------------------------------------
(* The streamer's geometry.                                                *)

Ratio(size, w, h) == size[1] * h = size[2] * w

\* (Mutant: wide pictures get no border.)
TopBottom_None(size) == 0

TopBottom(size) == IF Ratio(size, 16, 9) THEN size[2] \div 6 ELSE 0
LeftRight(size) == IF Ratio(size, 9, 16) THEN (size[1] * 2) \div 3 ELSE 0
FrameTopBottom(size) == IF Ratio(size, 9, 16) THEN 1 ELSE 2
Resize(size) == size[1] # kStreamSize[1]

Border(size, tb, lr) == <<size[1] + 2 * lr, size[2] + 2 * tb>>

\* What Process has made of output_ before it draws and fits it.
Canvas(size) ==
  CASE view = "original" -> size
    [] view = "mask" -> Border(size, FrameTopBottom(size), 2)
    [] view = "none" ->
         Border(IF outline # "none" THEN size ELSE output,
                FrameTopBottom(size), 2)

Fitted(size) ==
  IF Resize(size) THEN kStreamSize
  ELSE Border(Canvas(size), TopBottom(size), LeftRight(size))

\* (Mutant: both must be set for a stream.)
StreamEnabled_Always == TRUE

StreamEnabled == ~(view = "none" /\ outline = "none")

------------------------------------------------------------------------------
(* The frame logger's disk.                                                *)

\* Mounted as configured, a directory, and the unit's directory in it there
\* or made.
CheckMount(s) == s.disk.root # "absent" /\ s.disk.root # "file"
                   /\ s.disk.mounted = s.mount
CheckDir(s) ==
  /\ s.disk.root = "dir"
  /\ s.disk.unit = "dir" \/ (s.disk.unit = "absent" /\ s.disk.writable)

Interval(s) == IF s.rate > 0 THEN s.fps \div s.rate ELSE 0
Enabled(s) == s.rate > 0 /\ CheckMount(s) /\ CheckDir(s)

------------------------------------------------------------------------------
(* Run up to its loop.  An image that cannot be read is replaced by a      *)
(* message in white.                                                       *)

LoadSource(s) ==
  CASE s.type # "file"                          -> NoFrame
    [] s.type = "file" /\ s.image = NoFrame     -> ErrorText
    [] s.type = "file" /\ s.image # NoFrame     -> s.image

Init ==
  /\ setup \in Setups /\ config \in setup.configs /\ start = config
  /\ view = "none" /\ outline = "none"
  /\ pc = "top"
  /\ src = LoadSource(setup) /\ frame = NoFrame
  /\ found = <<>> /\ serial = 0
  /\ sent = [serial |-> -1, valid |-> FALSE, targets |-> <<>>]
  /\ output = <<0, 0>> /\ shared = FALSE
  /\ logging = FALSE /\ counter = Interval(setup)
  /\ queue = <<>> /\ log = 0 /\ number = 1 /\ written = <<>>
  /\ shot = NoFrame /\ delivered = 0 /\ masked = FALSE /\ logged = <<>>

------------------------------------------------------------------------------
(* The head of the loop.                                                   *)

PipelineConfigured(c) ==
  /\ pc = "top" /\ c # config
  /\ config' = c
  /\ UNCHANGED <<given, view, outline, pc, pixels, data, output, logger, shots,
                 masked>>

StreamConfigured(v, o) ==
  /\ pc = "top" /\ <<v, o>> # <<view, outline>>
  /\ view' = v /\ outline' = o
  /\ UNCHANGED <<given, config, pc, pixels, data, output, logger, shots, masked>>

\* (Mutant: the frames of a log are numbered on from those of the last.)
StartLog_NumberKept ==
  /\ pc = "top" /\ ~logging /\ setup.rate > 0 /\ log < setup.logs
  /\ logging' = TRUE /\ log' = log + 1
  /\ UNCHANGED <<given, configs, pc, pixels, data, output, counter, queue,
                 number, written, logged, shots, masked>>

\* A logging task with a new log; it finds the queue as the last left it.
StartLog ==
  /\ pc = "top" /\ ~logging /\ setup.rate > 0 /\ log < setup.logs
  /\ logging' = TRUE /\ log' = log + 1 /\ number' = 1
  /\ UNCHANGED <<given, configs, pc, pixels, data, output, counter, queue,
                 written, logged, shots, masked>>

\* (Mutant: a frame that cannot be logged any more is dropped.)
StopLog_Drops ==
  /\ pc = "top" /\ logging
  /\ logging' = FALSE /\ queue' = SubSeq(queue, 2, Len(queue))
  /\ UNCHANGED <<given, configs, pc, pixels, data, output, counter, log, number,
                 written, logged, shots, masked>>

\* Stop waits for the task, which writes no more than the image it is at.
StopLog ==
  /\ pc = "top" /\ logging
  /\ logging' = FALSE
  /\ UNCHANGED <<given, configs, pc, pixels, data, output, counter, queue, log,
                 number, written, logged, shots, masked>>

\* The frame logger is destroyed with Run's locals, and its queue with it.
\* (Should its task still run, the destructor waits: FrameLogging's subject.)
EndRun(to) ==
  /\ pc' = to /\ logging' = FALSE /\ queue' = <<>>
  /\ UNCHANGED <<given, configs, pixels, data, output, counter, log, number,
                 written, logged, shots, masked>>

\* The run is cancelled.
Cancel == pc = "top" /\ EndRun("ended")

------------------------------------------------------------------------------
(* capture->Grab(frame).                                                   *)

Delivered(picture, from) ==
  /\ pc = "top" /\ serial < setup.frames
  /\ pc' = "grabbed" /\ frame' = picture /\ shot' = from
  /\ delivered' = delivered + 1

\* ImageFile: frame shares the pixels of the source.
GrabFile ==
  /\ setup.type = "file"
  /\ Delivered(src, LoadSource(setup))
  /\ UNCHANGED <<given, configs, src, shared, data, output, logger, masked>>

\* VideoCapture::read and GrabFrame copy into the frame's pixels; a Jetson
\* camera's YUV format makes it allocate new ones.
GrabCamera(scene) ==
  /\ setup.type # "file"
  /\ Delivered(scene, scene)
  /\ shared' = (shared /\ setup.type # "jetson")
  /\ UNCHANGED <<given, configs, src, data, output, logger, masked>>

\* (Mutant: a read that fails leaves the last frame.)
ReadFails_Kept ==
  /\ pc = "top" /\ serial < setup.frames /\ setup.type \in {"test", "jetson"}
  /\ pc' = "grabbed"
  /\ UNCHANGED <<given, configs, pixels, data, output, logger, shots, masked>>

\* VideoCapture::read: no frame, and the frame is released.
ReadFails ==
  /\ pc = "top" /\ serial < setup.frames /\ setup.type \in {"test", "jetson"}
  /\ pc' = "grabbed" /\ frame' = NoFrame /\ shared' = FALSE
  /\ UNCHANGED <<given, configs, src, data, output, logger, shots, masked>>

\* CvSink::GrabFrame: time-out or error, and the frame stays what it was.
SinkFails ==
  /\ pc = "top" /\ serial < setup.frames /\ setup.type = "usb"
  /\ pc' = "grabbed"
  /\ UNCHANGED <<given, configs, pixels, data, output, logger, shots, masked>>

------------------------------------------------------------------------------
(* A grabbed frame.                                                        *)

\* OpenCV throws for an empty frame, which ends Run.
Throw == pc = "grabbed" /\ frame = NoFrame /\ EndRun("thrown")

\* (Mutant: the contours of the last frame are not cleared.)
Process_NotCleared ==
  /\ pc = "grabbed" /\ frame # NoFrame
  /\ \E order \in GeometricContoursFilter(MaskFrame(frame, config), config,
                                          setup.size) :
       LET target == ProcessContours(order \o found)
       IN  /\ found' = order \o found
           /\ sent' = [serial |-> serial, valid |-> target.valid,
                       targets |-> target.targets]
  /\ serial' = serial + 1
  /\ pc' = "processed"
  /\ UNCHANGED <<given, configs, pixels, output, logger, shots, masked>>

\* ProcessFrame, the serial number and Link::Send.
Process ==
  /\ pc = "grabbed" /\ frame # NoFrame
  /\ \E order \in GeometricContoursFilter(MaskFrame(frame, config), config,
                                          setup.size) :
       LET target == ProcessContours(order)
       IN  /\ found' = order
           /\ sent' = [serial |-> serial, valid |-> target.valid,
                       targets |-> target.targets]
  /\ serial' = serial + 1
  /\ pc' = "processed"
  /\ UNCHANGED <<given, configs, pixels, output, logger, shots, masked>>

------------------------------------------------------------------------------
(* Streaming and logging it.                                               *)

\* Plain pictures that need no border and no new size are not copied.
Shares(size) ==
  /\ view = "original" /\ outline = "none"
  /\ ~Resize(size) /\ TopBottom(size) = 0 /\ LeftRight(size) = 0

\* Streamer::Process.  The mask is converted into the pixels output_ has; if
\* they are still the frame's, frame and file become the mask.
Stream ==
  /\ pc = "processed" /\ StreamEnabled
  /\ LET spoils == view = "mask" /\ shared
         mask   == MaskFrame(frame, config)
     IN  /\ frame' = IF spoils THEN mask ELSE frame
         /\ src' = IF spoils /\ setup.type = "file" THEN mask ELSE src
  /\ output' = Fitted(setup.size)
  /\ shared' = Shares(setup.size)
  /\ masked' = (masked \/ view = "mask")
  /\ pc' = "streamed"
  /\ UNCHANGED <<given, configs, data, logger, shots>>

NoStream ==
  /\ pc = "processed" /\ ~StreamEnabled
  /\ pc' = "streamed"
  /\ UNCHANGED <<given, configs, pixels, data, output, logger, shots, masked>>

Entry == [picture |-> frame, found |-> found, serial |-> sent.serial,
          config |-> config, log |-> log, shot |-> shot, masked |-> masked]

\* (Mutant: the counter is set to one frame less.)
Log_Early ==
  /\ pc = "streamed" /\ logging /\ counter = 1
  /\ counter' = IF Interval(setup) = 1 THEN 1 ELSE Interval(setup) - 1
  /\ queue' = Append(queue, Entry) /\ logged' = Append(logged, Entry)
  /\ pc' = "top"
  /\ UNCHANGED <<given, configs, pixels, data, output, logging, log, number,
                 written, shots, masked>>

\* Every log_interval frames a copy goes to the logger's queue.
Log ==
  /\ pc = "streamed" /\ logging /\ counter = 1
  /\ counter' = Interval(setup)
  /\ queue' = Append(queue, Entry) /\ logged' = Append(logged, Entry)
  /\ pc' = "top"
  /\ UNCHANGED <<given, configs, pixels, data, output, logging, log, number,
                 written, shots, masked>>

NoLog ==
  /\ pc = "streamed" /\ ~(logging /\ counter = 1)
  /\ counter' = IF logging THEN counter - 1 ELSE counter
  /\ pc' = "top"
  /\ UNCHANGED <<given, configs, pixels, data, output, logging, queue, log,
                 number, written, logged, shots, masked>>

------------------------------------------------------------------------------
(* The logging task.                                                       *)

\* Whether the file could be written or not, the frame and the image number
\* are used up.
Write(contours) ==
  /\ logging /\ queue # <<>> /\ Enabled(setup)
  /\ queue' = Tail(queue)
  /\ number' = number + 1
  /\ written' = Append(written,
       [entry |-> Head(queue), log |-> log, number |-> number,
        contours |-> contours])
  /\ UNCHANGED <<given, configs, pc, pixels, data, output, logging, counter,
                 log, logged, shots, masked>>

WriteFullFrame == ~setup.four_up /\ Write({})

\* FourUp finds the contours again, with the configuration of the start of
\* the run.
WriteFourUp ==
  setup.four_up /\ Write(MaskFrame(Head(queue).picture, start))

\* (Mutant: a logger that must not write does not look into its queue.)
Discard_NotTaken == FALSE /\ UNCHANGED vars

\* A logger that must not write throws its frames away.
Discard ==
  /\ logging /\ queue # <<>> /\ ~Enabled(setup)
  /\ queue' = Tail(queue)
  /\ UNCHANGED <<given, configs, pc, pixels, data, output, logging, counter,
                 log, number, written, logged, shots, masked>>

Logger == WriteFullFrame \/ WriteFourUp \/ Discard

------------------------------------------------------------------------------
Configure ==
  \/ \E c \in setup.configs : PipelineConfigured(c)
  \/ \E s \in setup.streams : StreamConfigured(s[1], s[2])
  \/ StartLog \/ StopLog \/ Cancel

Grab == GrabFile \/ ReadFails \/ SinkFails \/ \E p \in setup.scenes : GrabCamera(p)

Body == Throw \/ Process \/ Stream \/ NoStream \/ Log \/ NoLog

Next == Configure \/ Grab \/ Body \/ Logger

Spec == Init /\ [][Next]_vars

\* The logging task is a thread of its own and is scheduled.
FairSpec == Spec /\ WF_vars(Logger)

------------------------------------------------------------------------------
(* Safety.                                                                 *)

IsSequence(s) == s \in Seq({s[i] : i \in DOMAIN s})

\* Every variable keeps the range the code gives it.
TypeOK ==
  /\ setup \in Setups
  /\ view \in Views /\ outline \in Outlines
  /\ pc \in {"top", "grabbed", "processed", "streamed", "thrown", "ended"}
  /\ serial \in Nat /\ delivered \in Nat /\ shared \in BOOLEAN
  /\ logging \in BOOLEAN /\ masked \in BOOLEAN
  /\ counter \in Int /\ counter <= Interval(setup)
  /\ IF setup.rate = 0 THEN ~logging ELSE Interval(setup) > 0 => counter > 0
  /\ log \in Nat /\ number \in Nat \ {0}
  /\ IsSequence(queue) /\ IsSequence(logged) /\ IsSequence(written)

Supported(size) == Ratio(size, 4, 3) \/ Ratio(size, 16, 9) \/ Ratio(size, 9, 16)

\* What is streamed has the stream's size, up to the white frame around a
\* mask or an empty picture: output_ keeps the last picture, and a border
\* that is put around it again would let it grow (streamer.cpp:66-114,
\* runner.cpp:136-137,154).
StreamFits ==
  Supported(setup.size) =>
    output \in {<<0, 0>>, kStreamSize, Border(kStreamSize, 2, 2)}

\* The pixels that are processed, streamed and logged are those the device
\* delivered, although frame, source and the streamer's output share them,
\* except after a mask was streamed for frames of the stream's size
\* (streamer.cpp:81,84, image_file.cpp:29, frame_logger.h:52).
SpoiltAs(picture, from, mask) ==
  picture # from =>
    /\ mask /\ setup.type # "jetson"
    /\ ~Resize(setup.size)
    /\ Supported(setup.size) => setup.size = kStreamSize

PictureIntact ==
  /\ pc \in {"grabbed", "processed", "streamed"} /\ frame # NoFrame =>
       SpoiltAs(frame, shot, masked)
  /\ \A i \in DOMAIN logged :
       SpoiltAs(logged[i].picture, logged[i].shot, logged[i].masked)

\* Serial numbers count the pictures a device delivered: no read that failed
\* makes target data, except with cscore, where the last picture is sent
\* again under a new number (runner.cpp:144-152, usb_cscore.cpp:48-51).
SerialsCountPictures ==
  pc = "top" => /\ serial >= delivered
                /\ setup.type # "usb" => serial = delivered

\* A target is sent exactly if some contour of the picture passes the filters
\* in force, and then no contour that passes is larger
\* (abstract_pipeline.cpp:39-54, pipeline_ops.h:26-79).
TargetIsLargest ==
  pc = "processed" /\ frame = shot =>
    LET passing == {s \in MaskFrame(shot, config) :
                      Passes(s, config, setup.size)}
    IN  /\ sent.valid <=> passing # {}
        /\ sent.valid =>
             /\ sent.targets[1] \in passing
             /\ \A s \in passing : s.area <= sent.targets[1].area

\* Within a log every log_interval-th frame is logged, and over a pause no
\* more than that; at a log rate above the frame rate the interval is 0 and
\* nothing is logged at all (runner.cpp:84-89,157-161).
LogSpacing ==
  \A i \in DOMAIN logged :
    /\ Interval(setup) > 0
    /\ logged[i].serial >= Interval(setup) - 1
    /\ i > 1 =>
         LET gap == logged[i].serial - logged[i - 1].serial
         IN  /\ gap >= Interval(setup)
             /\ logged[i].log = logged[i - 1].log => gap = Interval(setup)

Images  == [i \in DOMAIN written |-> written[i].entry]
RunOver == pc \in {"ended", "thrown"}

\* While the run lasts, every frame given to the logger is written, or its
\* writing failed, or it is queued: once, and in the order of the frames, over
\* any number of logs.  Its end loses those still queued, which are the last:
\* no frame is missing before one that was written (frame_logger.h:50-67,
\* full_frame.cpp:21-40, four_up.cpp:42-115).
NothingLost ==
  Enabled(setup) =>
    IF RunOver THEN Images = SubSeq(logged, 1, Len(written))
    ELSE logged = Images \o queue

\* The images of a log are numbered from 1 on, those of frames that an
\* earlier log left in the queue first (full_frame.cpp:18-39).
LogsNumbered ==
  \A i \in DOMAIN written :
    LET earlier == {j \in 1..(i - 1) : written[j].log = written[i].log}
    IN  /\ written[i].number = 1 + Cardinality(earlier)
        /\ written[i].entry.log <= written[i].log
        /\ \A j \in earlier : written[j].entry.log <= written[i].entry.log

\* A four-up image shows contours that contain those its target was found
\* in, unless the pipeline was configured anew since the run began or the
\* picture was spoilt (four_up.cpp:25-27,53-56,73-81).
ImageExplainsTarget ==
  \A i \in DOMAIN written :
    LET entry == written[i].entry
    IN  setup.four_up /\ entry.config = start /\ entry.picture = entry.shot =>
          \A k \in DOMAIN entry.found : entry.found[k] \in written[i].contours

------------------------------------------------------------------------------
(* The inductive invariant behind them.                                    *)

\* The frames that have been through the whole loop.
Done == IF pc \in {"processed", "streamed"} THEN serial - 1 ELSE serial

\* Where Run is in its loop tells which pictures have been counted; a read
\* that fails without cscore leaves no frame behind.
SerialInv ==
  /\ pc \in {"top", "processed", "streamed"} =>
       serial >= delivered /\ (setup.type # "usb" => serial = delivered)
  /\ pc = "grabbed" /\ frame # NoFrame =>
       /\ serial + 1 >= delivered
       /\ setup.type # "usb" => serial + 1 = delivered
  /\ pc \in {"processed", "streamed"} => sent.serial = serial - 1 /\ serial > 0

\* Only a plain stream of the stream's size leaves shared pixels behind, and
\* only a mask streamed over them spoils frame and file.
PixelInv ==
  /\ shared =>
       /\ ~Resize(setup.size)
       /\ Supported(setup.size) => setup.size = kStreamSize
  /\ shared /\ setup.type = "jetson" => pc \in {"top", "streamed", "ended"}
  /\ setup.type = "file" => SpoiltAs(src, LoadSource(setup), masked)
  /\ frame # NoFrame \/ pc \in {"processed", "streamed"} =>
       SpoiltAs(frame, shot, masked)
  /\ \A i \in DOMAIN logged :
       SpoiltAs(logged[i].picture, logged[i].shot, logged[i].masked)

\* What is processed, streamed and logged is a picture.
FrameInv ==
  /\ setup.type = "file" => IsPicture(src)
  /\ frame # NoFrame \/ pc \in {"processed", "streamed"} => IsPicture(frame)

\* The counter and the frames done since the last entry make up an interval,
\* or more after a pause.
SpacingInv ==
  LET last == logged[Len(logged)]
  IN  /\ logged = <<>> => counter + Done >= Interval(setup)
      /\ logged # <<>> =>
           /\ counter + Done >= Interval(setup) + last.serial + 1
           /\ logging /\ last.log = log =>
                counter + Done = Interval(setup) + last.serial + 1
      /\ \A i \in DOMAIN logged : logged[i].serial \in Nat
      /\ LogSpacing

\* What was logged is what was written, and then what is queued or, at the
\* end, was lost with the queue.
QueueInv ==
  /\ RunOver => ~logging /\ queue = <<>>
  /\ \A i \in DOMAIN logged : logged[i].log \in 0..log
  /\ \A i, j \in DOMAIN logged : i <= j => logged[i].log <= logged[j].log
  /\ Enabled(setup) =>
       /\ Len(logged) >= Len(written) + Len(queue)
       /\ ~RunOver => Len(logged) = Len(written) + Len(queue)
       /\ \A i \in DOMAIN written : written[i].entry = logged[i]
       /\ \A i \in DOMAIN queue : queue[i] = logged[Len(written) + i]

NumberInv ==
  /\ \A i \in DOMAIN written : written[i].log \in 0..log
  /\ number = 1 + Cardinality({i \in DOMAIN written : written[i].log = log})
  /\ LogsNumbered

\* A spoilt picture is a mask of the one that was delivered, perhaps of one
\* that was spoilt before: it is white, and there is nothing in it if all that
\* was delivered was white.
Faded(picture, from) ==
  picture # from =>
    /\ \A s \in picture : s.hue = White
    /\ (\A s \in from : s.hue = White) => picture = {}

FadeInv ==
  /\ setup.type = "file" => Faded(src, LoadSource(setup))
  /\ frame # NoFrame \/ pc \in {"processed", "streamed"} =>
       /\ Faded(frame, shot)
       /\ setup.type = "file" => shot = LoadSource(setup)

\* The contours of a target are found again in its picture, as long as that is
\* the one the device delivered.
FoundIn(contours, picture, c) ==
  \A k \in DOMAIN contours : contours[k] \in MaskFrame(picture, c)

FoundInv ==
  /\ pc = "processed" \/ (pc = "streamed" /\ frame = shot) =>
       FoundIn(found, frame, config)
  /\ \A i \in DOMAIN logged :
       logged[i].picture = logged[i].shot =>
         FoundIn(logged[i].found, logged[i].picture, logged[i].config)

ContoursInv ==
  \A i \in DOMAIN written :
    /\ Enabled(setup)
    /\ setup.four_up =>
         written[i].contours = MaskFrame(written[i].entry.picture, start)

\* Everything an action needs to know to preserve the safety properties.
IInv ==
  /\ TypeOK /\ StreamFits /\ SerialInv /\ PixelInv /\ FrameInv
  /\ SpacingInv /\ QueueInv /\ NumberInv /\ TargetIsLargest
  /\ FadeInv /\ FoundInv /\ ContoursInv

------------------------------------------------------------------------------
(* Liveness.                                                               *)

\* The queue has no bound, but every frame in it is taken out while its log
\* is open, also if writing fails (frame_logger.h:50-54).
QueueServed ==
  \A k \in 1..MaxLogged :
    (logging /\ k <= Len(logged) /\ Len(logged) - Len(queue) < k)
      ~> (~logging \/ Len(logged) - Len(queue) >= k)
==============================================================================
