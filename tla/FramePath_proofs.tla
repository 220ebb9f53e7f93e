--------------------------- MODULE FramePath_proofs ---------------------------
(***************************************************************************)
(* Proofs about FramePath, for any set of setups: any capture size, frame  *)
(* and log rates, scenes and configurations, and runs of any length.  The  *)
(* inductive invariant IInv is taken part by part, each part with one step *)
(* for the actions that can disturb it.                                    *)
(***************************************************************************)
EXTENDS FramePath, TLAPS, SequenceTheorems, FiniteSetTheorems, FunctionTheorems

------------------------------------------------------------------------------
(* Sequences of anything.                                                  *)

\* A sequence over some set is one over its elements.
LEMMA SeqIsSequence ==
  ASSUME NEW S, NEW s \in Seq(S)
  PROVE  IsSequence(s)
<1>1. \A i \in 1..Len(s) : s[i] \in {s[k] : k \in DOMAIN s}
  BY LenProperties
<1>2. SubSeq(s, 1, Len(s)) \in Seq({s[k] : k \in DOMAIN s})
  BY <1>1, LenProperties, SubSeqProperties
<1> QED
  BY <1>2, SubSeqFull DEF IsSequence

\* Appending keeps the elements a sequence has and adds one at its end.
LEMMA AppendIsSequence ==
  ASSUME NEW s, NEW e, IsSequence(s)
  PROVE  /\ IsSequence(Append(s, e)) /\ Len(s) \in Nat
         /\ Len(Append(s, e)) = Len(s) + 1
         /\ DOMAIN s = 1..Len(s)
         /\ DOMAIN Append(s, e) = 1..(Len(s) + 1)
         /\ \A i \in 1..Len(s) : Append(s, e)[i] = s[i]
         /\ Append(s, e)[Len(s) + 1] = e
<1> DEFINE T == {s[i] : i \in DOMAIN s} \cup {e}
<1>1. s \in Seq(T)
  BY SeqMonotonic DEF IsSequence
<1>2. Append(s, e) \in Seq(T)
  BY <1>1, AppendProperties
<1>3. IsSequence(Append(s, e))
  BY <1>2, SeqIsSequence
<1>4. Len(s) \in Nat /\ DOMAIN s = 1..Len(s)
  BY <1>1, LenProperties
<1>5. /\ Len(Append(s, e)) = Len(s) + 1
      /\ \A i \in 1..Len(s) : Append(s, e)[i] = s[i]
      /\ Append(s, e)[Len(s) + 1] = e
  BY <1>1, AppendProperties
<1>6. DOMAIN Append(s, e) = 1..Len(Append(s, e))
  BY <1>2, LenProperties
<1> HIDE DEF T
<1> QED
  BY <1>3, <1>4, <1>5, <1>6

\* Taking the head off shifts the elements by one.
LEMMA TailIsSequence ==
  ASSUME NEW s, IsSequence(s), s # <<>>
  PROVE  /\ IsSequence(Tail(s)) /\ Len(s) \in Nat \ {0}
         /\ Len(Tail(s)) = Len(s) - 1
         /\ DOMAIN s = 1..Len(s)
         /\ DOMAIN Tail(s) = 1..(Len(s) - 1)
         /\ \A i \in 1..(Len(s) - 1) : Tail(s)[i] = s[i + 1]
         /\ Head(s) = s[1]
<1>1. s \in Seq({s[i] : i \in DOMAIN s})
  BY DEF IsSequence
<1>2. Tail(s) \in Seq({s[i] : i \in DOMAIN s})
  BY <1>1, HeadTailProperties
<1>3. IsSequence(Tail(s))
  BY <1>2, SeqIsSequence
<1>4. Len(s) \in Nat \ {0} /\ DOMAIN s = 1..Len(s)
  BY <1>1, LenProperties, EmptySeq
<1>5. Len(Tail(s)) = Len(s) - 1
  BY <1>1, HeadTailProperties
<1>6. \A i \in 1..(Len(s) - 1) : Tail(s)[i] = s[i + 1]
  BY <1>1, <1>5, HeadTailProperties
<1>7. DOMAIN Tail(s) = 1..Len(Tail(s))
  BY <1>2, LenProperties
<1>8. Head(s) = s[1]
  OBVIOUS
<1> QED
  BY <1>3, <1>4, <1>5, <1>6, <1>7, <1>8

------------------------------------------------------------------------------
(* Types.                                                                  *)

LEMMA IntervalIsNat ==
  ASSUME NEW s \in Setups
  PROVE  Interval(s) \in Nat /\ s.rate \in Nat
<1>1. s.fps \in Nat /\ s.rate \in Nat
  BY SetupAssumption
<1>2. ASSUME NEW a \in Nat, NEW b \in Nat \ {0} PROVE a \div b \in Nat
  OBVIOUS
<1> QED
  BY <1>1, <1>2 DEF Interval

USE DEF vars, given, configs, pixels, data, logger, shots

LEMMA TypeInit == Init => TypeOK
<1> SUFFICES ASSUME Init PROVE TypeOK
  OBVIOUS
<1>1. Interval(setup) \in Nat /\ setup.rate \in Nat
  BY IntervalIsNat DEF Init
<1>2. IsSequence(<<>>)
  BY SeqIsSequence, EmptySeq
<1>3. shared \in BOOLEAN /\ logging \in BOOLEAN /\ masked \in BOOLEAN
  BY DEF Init
<1>4. view \in Views /\ outline \in Outlines
  BY DEF Init, Views, Outlines
<1>5. counter = Interval(setup) /\ ~logging
  BY DEF Init
<1> QED
  BY <1>1, <1>2, <1>3, <1>4, <1>5 DEF Init, TypeOK

LEMMA TypeStep ==
  ASSUME TypeOK, [Next]_vars, SetupAssumption
  PROVE  TypeOK'
<1>1. Interval(setup) \in Nat /\ setup.rate \in Nat
  BY IntervalIsNat DEF TypeOK
<1>2. CASE UNCHANGED vars
  BY <1>2 DEF TypeOK
<1>3. CASE Configure
  <2>1. ASSUME NEW c \in setup.configs, PipelineConfigured(c) PROVE TypeOK'
    BY <2>1 DEF TypeOK, PipelineConfigured
  <2>2. ASSUME NEW s \in setup.streams, StreamConfigured(s[1], s[2])
        PROVE  TypeOK'
    <3>1. s[1] \in Views /\ s[2] \in Outlines
      BY SetupAssumption DEF TypeOK
    <3> QED
      BY <2>2, <3>1 DEF TypeOK, StreamConfigured
  <2>3. CASE StartLog
    BY <1>1, <2>3 DEF TypeOK, StartLog
  <2>4. CASE StopLog
    BY <1>1, <2>4 DEF TypeOK, StopLog
  <2>5. CASE Cancel
    BY <1>1, <2>5, SeqIsSequence, EmptySeq DEF TypeOK, Cancel, EndRun
  <2> QED
    BY <1>3, <2>1, <2>2, <2>3, <2>4, <2>5 DEF Configure
<1>4. CASE Grab
  <2>1. shared' \in BOOLEAN
    BY <1>4 DEF TypeOK, Grab, GrabFile, GrabCamera, ReadFails, SinkFails
  <2>2. delivered' \in Nat
    BY <1>4 DEF TypeOK, Grab, GrabFile, GrabCamera, ReadFails, SinkFails, Delivered
  <2> QED
    BY <1>4, <2>1, <2>2
       DEF TypeOK, Grab, GrabFile, GrabCamera, ReadFails, SinkFails, Delivered
<1>5. CASE Throw \/ Process \/ Stream \/ NoStream
  <2>1. shared' \in BOOLEAN /\ masked' \in BOOLEAN
    BY <1>5 DEF TypeOK, Throw, EndRun, Process, Stream, NoStream, Shares
  <2>2. CASE Throw
    BY <1>1, <2>2, SeqIsSequence, EmptySeq DEF TypeOK, Throw, EndRun
  <2>3. CASE Process
    BY <2>1, <2>3 DEF TypeOK, Process
  <2>4. CASE Stream \/ NoStream
    BY <2>1, <2>4 DEF TypeOK, Stream, NoStream
  <2> QED
    BY <1>5, <2>2, <2>3, <2>4
<1>6. CASE Log
  <2>1. IsSequence(queue)' /\ IsSequence(logged)'
    BY <1>6, AppendIsSequence DEF TypeOK, Log
  <2> QED
    BY <1>1, <1>6, <2>1 DEF TypeOK, Log
<1>7. CASE NoLog
  BY <1>1, <1>7 DEF TypeOK, NoLog
<1>8. CASE Logger
  <2>1. ASSUME NEW contours, Write(contours) PROVE TypeOK'
    <3>1. IsSequence(queue)'
      BY <2>1, TailIsSequence DEF TypeOK, Write
    <3>2. IsSequence(written)'
      BY <2>1, AppendIsSequence DEF TypeOK, Write
    <3> QED
      BY <2>1, <3>1, <3>2 DEF TypeOK, Write
  <2>2. CASE Discard
    BY <2>2, TailIsSequence DEF TypeOK, Discard
  <2> QED
    BY <1>8, <2>1, <2>2 DEF Logger, WriteFullFrame, WriteFourUp
<1> QED
  BY <1>2, <1>3, <1>4, <1>5, <1>6, <1>7, <1>8 DEF Next, Body

------------------------------------------------------------------------------
(* Serial numbers.                                                         *)

LEMMA SerialStep ==
  ASSUME TypeOK, SerialInv, [Next]_vars
  PROVE  SerialInv'
<1>1. CASE UNCHANGED vars
  BY <1>1 DEF SerialInv
<1>2. CASE Configure
  BY <1>2 DEF SerialInv, Configure, PipelineConfigured, StreamConfigured,
              StartLog, StopLog, Cancel, EndRun
<1>3. CASE GrabFile
  BY <1>3 DEF TypeOK, SerialInv, GrabFile, Delivered
<1>4. ASSUME NEW p, GrabCamera(p) PROVE SerialInv'
  BY <1>4 DEF TypeOK, SerialInv, GrabCamera, Delivered
<1>5. CASE ReadFails \/ SinkFails
  BY <1>5 DEF TypeOK, SerialInv, ReadFails, SinkFails
<1>6. CASE Throw
  BY <1>6 DEF SerialInv, Throw, EndRun
<1>7. CASE Process
  <2>1. sent'.serial = serial
    BY <1>7 DEF Process
  <2> QED
    BY <1>7, <2>1 DEF TypeOK, SerialInv, Process
<1>8. CASE Stream \/ NoStream \/ Log \/ NoLog
  BY <1>8 DEF SerialInv, Stream, NoStream, Log, NoLog
<1>9. CASE Logger
  BY <1>9 DEF SerialInv, Logger, WriteFullFrame, WriteFourUp, Write, Discard
<1> QED
  BY <1>1, <1>2, <1>3, <1>4, <1>5, <1>6, <1>7, <1>8, <1>9 DEF Next, Grab, Body

------------------------------------------------------------------------------
(* Pixels and the streamer's geometry.                                     *)

\* The sizes that need no new width have one of two heights, and only the
\* stream's own needs no border.
LEMMA SupportedSizes ==
  ASSUME NEW size \in (Nat \ {0}) \X (Nat \ {0}), ~Resize(size)
  PROVE  /\ size[1] = 320 /\ ~Ratio(size, 9, 16)
         /\ Ratio(size, 4, 3) => size = <<320, 240>>
         /\ Ratio(size, 16, 9) => size = <<320, 180>>
<1>1. size = <<size[1], size[2]>> /\ size[1] \in Nat /\ size[2] \in Nat
  OBVIOUS
<1>2. size[1] = 320
  BY DEF Resize, kStreamSize
<1> QED
  BY <1>1, <1>2 DEF Ratio

LEMMA StreamFitsStep ==
  ASSUME TypeOK, StreamFits, [Next]_vars
  PROVE  StreamFits'
<1>1. setup.size \in (Nat \ {0}) \X (Nat \ {0})
  BY SetupAssumption DEF TypeOK
<1>2. CASE Stream
  <2> SUFFICES ASSUME Supported(setup.size)
               PROVE  output' \in {<<0, 0>>, kStreamSize, Border(kStreamSize, 2, 2)}
    BY <1>2 DEF StreamFits, Stream
  <2>1. output' = Fitted(setup.size)
    BY <1>2 DEF Stream
  <2>2. CASE Resize(setup.size)
    BY <2>1, <2>2 DEF Fitted
  <2>3. CASE ~Resize(setup.size) /\ Ratio(setup.size, 4, 3)
    <3>1. setup.size = <<320, 240>>
      BY <1>1, <2>3, SupportedSizes
    <3>2. TopBottom(setup.size) = 0 /\ LeftRight(setup.size) = 0
          /\ FrameTopBottom(setup.size) = 2
      BY <3>1 DEF TopBottom, LeftRight, FrameTopBottom, Ratio
    <3>3. Canvas(setup.size) \in {<<320, 240>>, <<324, 244>>}
      BY <1>2, <3>1, <3>2 DEF TypeOK, Canvas, Border, Stream, StreamEnabled, Views
    <3> QED
      BY <2>1, <2>3, <3>2, <3>3 DEF Fitted, Border, kStreamSize
  <2>4. CASE ~Resize(setup.size) /\ Ratio(setup.size, 16, 9)
    <3>1. setup.size = <<320, 180>>
      BY <1>1, <2>4, SupportedSizes
    <3>2. TopBottom(setup.size) = 30 /\ LeftRight(setup.size) = 0
          /\ FrameTopBottom(setup.size) = 2
      BY <3>1 DEF TopBottom, LeftRight, FrameTopBottom, Ratio
    <3>3. Canvas(setup.size) \in {<<320, 180>>, <<324, 184>>}
      BY <1>2, <3>1, <3>2 DEF TypeOK, Canvas, Border, Stream, StreamEnabled, Views
    <3> QED
      BY <2>1, <2>4, <3>2, <3>3 DEF Fitted, Border, kStreamSize
  <2> QED
    BY <1>1, <2>2, <2>3, <2>4, SupportedSizes DEF Supported
<1>3. CASE ~Stream
  <2>1. output' = output /\ setup' = setup
    BY <1>3 DEF Next, Configure, PipelineConfigured, StreamConfigured,
         StartLog, StopLog, Cancel, EndRun, Grab, GrabFile, GrabCamera, ReadFails,
         SinkFails, Delivered, Body, Throw, EndRun, Process, NoStream, Log, NoLog,
         Logger, WriteFullFrame, WriteFourUp, Write, Discard
  <2> QED
    BY <2>1 DEF StreamFits
<1> QED
  BY <1>2, <1>3

LEMMA PixelStep ==
  ASSUME TypeOK, PixelInv, [Next]_vars
  PROVE  PixelInv'
<1> USE DEF PixelInv, SpoiltAs
<1>1. CASE UNCHANGED vars
  BY <1>1
<1>2. CASE Configure
  BY <1>2 DEF Configure, PipelineConfigured, StreamConfigured, StartLog, StopLog,
              Cancel, EndRun
<1>3. CASE GrabFile
  BY <1>3 DEF GrabFile, Delivered
<1>4. ASSUME NEW p, GrabCamera(p) PROVE PixelInv'
  BY <1>4 DEF GrabCamera, Delivered
<1>5. CASE ReadFails \/ SinkFails
  BY <1>5 DEF ReadFails, SinkFails
<1>6. CASE Throw
  BY <1>6 DEF Throw, EndRun
<1>7. CASE Process
  BY <1>7 DEF Process
<1>8. CASE Stream
  <2>1. Shares(setup.size) =>
          /\ ~Resize(setup.size)
          /\ Supported(setup.size) => setup.size = kStreamSize
    <3> SUFFICES ASSUME Shares(setup.size), Supported(setup.size)
                 PROVE  setup.size = kStreamSize
      BY DEF Shares
    <3>1. setup.size \in (Nat \ {0}) \X (Nat \ {0})
      BY SetupAssumption DEF TypeOK
    <3>2. setup.size \in {<<320, 240>>, <<320, 180>>}
      BY <3>1, SupportedSizes DEF Shares, Supported
    <3>3. setup.size # <<320, 180>>
      BY DEF Shares, TopBottom, Ratio
    <3> QED
      BY <3>2, <3>3 DEF kStreamSize
  <2>2. shared' = Shares(setup.size) /\ pc' = "streamed" /\ pc = "processed"
    BY <1>8 DEF Stream
  <2>3. SpoiltAs(frame', shot', masked') /\ setup' = setup /\ logged' = logged
    BY <1>8 DEF Stream
  <2>4. setup.type = "file" => SpoiltAs(src', LoadSource(setup), masked')
    BY <1>8 DEF Stream
  <2> QED
    BY <2>1, <2>2, <2>3, <2>4
<1>9. CASE NoStream \/ NoLog
  BY <1>9 DEF NoStream, NoLog
<1>10. CASE Log
  <2>1. /\ DOMAIN logged' = 1..(Len(logged) + 1) /\ DOMAIN logged = 1..Len(logged)
        /\ Len(logged) \in Nat
        /\ \A i \in 1..Len(logged) : logged'[i] = logged[i]
        /\ logged'[Len(logged) + 1] = Entry
    BY <1>10, AppendIsSequence DEF TypeOK, Log
  <2>2. SpoiltAs(Entry.picture, Entry.shot, Entry.masked)
    BY <1>10 DEF Entry, Log
  <2>3. \A i \in DOMAIN logged' :
          SpoiltAs(logged'[i].picture, logged'[i].shot, logged'[i].masked)
    BY <2>1, <2>2
  <2> QED
    BY <1>10, <2>3 DEF Log
<1>11. CASE Logger
  BY <1>11 DEF Logger, WriteFullFrame, WriteFourUp, Write, Discard
<1> QED
  BY <1>1, <1>2, <1>3, <1>4, <1>5, <1>6, <1>7, <1>8, <1>9, <1>10, <1>11
     DEF Next, Grab, Body

------------------------------------------------------------------------------
(* Pictures and targets.                                                   *)

LEMMA MaskIsPicture ==
  ASSUME NEW picture, NEW c, IsPicture(picture)
  PROVE  IsPicture(MaskFrame(picture, c))
<1> DEFINE T == {t \in picture : Within(t.hue, c.hue)}
           f == [t \in T |-> [t EXCEPT !.hue = White]]
<1>1. IsFiniteSet(T)
  BY FS_Subset DEF IsPicture
<1>2. f \in Surjection(T, MaskFrame(picture, c))
  BY DEF Surjection, MaskFrame
<1>3. IsFiniteSet(MaskFrame(picture, c))
  BY <1>1, <1>2, FS_Surjection
<1>4. ASSUME NEW s \in MaskFrame(picture, c)
      PROVE  s \in Shapes
  <2>1. PICK t \in picture : s = [t EXCEPT !.hue = White]
    BY DEF MaskFrame
  <2>2. t \in Shapes /\ White \in Int
    BY SetupAssumption DEF IsPicture
  <2> QED
    BY <2>1, <2>2 DEF Shapes
<1> QED
  BY <1>3, <1>4 DEF IsPicture

LEMMA FrameStep ==
  ASSUME TypeOK, FrameInv, [Next]_vars
  PROVE  FrameInv'
<1> USE DEF FrameInv
<1>1. CASE UNCHANGED vars
  BY <1>1
<1>2. CASE Configure
  BY <1>2 DEF Configure, PipelineConfigured, StreamConfigured, StartLog, StopLog,
              Cancel, EndRun
<1>3. CASE GrabFile
  BY <1>3 DEF GrabFile, Delivered
<1>4. ASSUME NEW p \in setup.scenes, GrabCamera(p) PROVE FrameInv'
  BY <1>4, SetupAssumption DEF TypeOK, GrabCamera, Delivered
<1>5. CASE ReadFails \/ SinkFails
  BY <1>5 DEF ReadFails, SinkFails
<1>6. CASE Throw \/ Process
  BY <1>6 DEF Throw, EndRun, Process
<1>7. CASE Stream
  <2>1. IsPicture(frame) /\ IsPicture(MaskFrame(frame, config))
    BY <1>7, MaskIsPicture DEF Stream
  <2>2. IsPicture(frame') /\ setup' = setup
    BY <1>7, <2>1 DEF Stream
  <2>3. setup.type = "file" => IsPicture(src')
    BY <1>7, <2>1 DEF Stream
  <2> QED
    BY <2>2, <2>3
<1>8. CASE NoStream \/ Log \/ NoLog
  BY <1>8 DEF NoStream, Log, NoLog
<1>9. CASE Logger
  BY <1>9 DEF Logger, WriteFullFrame, WriteFourUp, Write, Discard
<1> QED
  BY <1>1, <1>2, <1>3, <1>4, <1>5, <1>6, <1>7, <1>8, <1>9 DEF Next, Grab, Body

\* Contours sorted by descending area: all of them, and none is larger than
\* the first.
LEMMA SortedContours ==
  ASSUME NEW S, IsPicture(S), NEW order \in Descending(S)
  PROVE  /\ order = <<>> <=> S = {}
         /\ order # <<>> => order[1] \in S /\ \A s \in S : order[1].area >= s.area
<1>1. Cardinality(S) \in Nat
  BY FS_CardinalityType DEF IsPicture
<1>2. /\ order \in [1..Cardinality(S) -> S]
      /\ {order[i] : i \in DOMAIN order} = S
      /\ \A i, j \in DOMAIN order : i < j => order[i].area >= order[j].area
  BY DEF Descending
<1>3. order \in Seq(S) /\ Len(order) = Cardinality(S)
  BY <1>1, <1>2
<1>4. order = <<>> <=> Cardinality(S) = 0
  BY <1>3, EmptySeq
<1>5. order = <<>> <=> S = {}
  BY <1>4, FS_EmptySet DEF IsPicture
<1>6. ASSUME order # <<>>, NEW s \in S
      PROVE  order[1] \in S /\ order[1].area >= s.area
  <2>1. 1 \in DOMAIN order /\ DOMAIN order = 1..Cardinality(S)
    BY <1>1, <1>2, <1>4, <1>6
  <2>2. PICK i \in DOMAIN order : order[i] = s
    BY <1>2
  <2>3. order[1].area \in Nat /\ s.area \in Nat
    BY <1>2, <2>1 DEF IsPicture, Shapes
  <2>4. i = 1 \/ 1 < i
    BY <1>1, <2>1
  <2> QED
    BY <1>2, <2>1, <2>2, <2>3, <2>4
<1>7. order # <<>> => order[1] \in S
  BY <1>5, <1>6
<1> QED
  BY <1>5, <1>6, <1>7

LEMMA TargetStep ==
  ASSUME TypeOK, FrameInv, TargetIsLargest, [Next]_vars
  PROVE  TargetIsLargest'
<1>1. CASE Process
  <2> DEFINE S == {s \in MaskFrame(frame, config) : Passes(s, config, setup.size)}
  <2>1. PICK order \in Descending(S) :
          sent' = [serial |-> serial, valid |-> ProcessContours(order).valid,
                   targets |-> ProcessContours(order).targets]
    BY <1>1 DEF Process, GeometricContoursFilter
  <2>2. IsPicture(S)
    <3>1. IsPicture(MaskFrame(frame, config))
      BY <1>1, MaskIsPicture DEF Process, FrameInv
    <3> QED
      BY <3>1, FS_Subset DEF IsPicture
  <2>3. /\ order = <<>> <=> S = {}
        /\ order # <<>> => order[1] \in S /\ \A s \in S : order[1].area >= s.area
    BY <2>2, SortedContours
  <2>4. sent'.valid = (order # <<>>)
    BY <2>1 DEF ProcessContours
  <2>5. order # <<>> => sent'.targets[1] = order[1]
    BY <2>1 DEF ProcessContours, FirstTarget
  <2>6. \A s \in S : s.area \in Nat
    BY <2>2 DEF IsPicture, Shapes
  <2>7. /\ sent'.valid <=> S # {}
        /\ sent'.valid => /\ sent'.targets[1] \in S
                          /\ \A s \in S : s.area <= sent'.targets[1].area
    BY <2>3, <2>4, <2>5, <2>6
  <2>8. setup' = setup /\ config' = config /\ frame' = frame /\ shot' = shot
    BY <1>1 DEF Process
  <2> QED
    BY <2>7, <2>8 DEF TargetIsLargest
<1>2. CASE ~Process
  <2>1. pc' = "processed" =>
          pc = "processed" /\ UNCHANGED <<setup, config, frame, shot, sent>>
    BY <1>2 DEF Next, Configure, PipelineConfigured, StreamConfigured,
         StartLog, StopLog, Cancel, EndRun, Grab, GrabFile, GrabCamera, ReadFails,
         SinkFails, Delivered, Body, Throw, EndRun, Stream, NoStream, Log, NoLog,
         Logger, WriteFullFrame, WriteFourUp, Write, Discard
  <2> QED
    BY <2>1 DEF TargetIsLargest
<1> QED
  BY <1>1, <1>2

------------------------------------------------------------------------------
(* The logger's counter, queue and images.                                 *)

LEMMA SpacingStep ==
  ASSUME TypeOK, SerialInv, QueueInv, SpacingInv, [Next]_vars
  PROVE  SpacingInv'
<1> DEFINE n == Len(logged)
<1>1. /\ n \in Nat /\ DOMAIN logged = 1..n /\ Interval(setup) \in Nat
      /\ logged = <<>> <=> n = 0
      /\ logged # <<>> => n \in DOMAIN logged
  <2>1. logged \in Seq({logged[i] : i \in DOMAIN logged})
    BY DEF TypeOK, IsSequence
  <2>2. n \in Nat /\ DOMAIN logged = 1..n /\ (logged = <<>> <=> n = 0)
    BY <2>1, LenProperties, EmptySeq
  <2> QED
    BY <2>2, IntervalIsNat DEF TypeOK
<1>2. CASE Log
  <2>1. /\ logged' = Append(logged, Entry) /\ setup' = setup /\ log' = log
        /\ counter = 1 /\ Interval(setup) > 0 /\ counter' = Interval(setup) /\ logging /\ logging'
        /\ serial' = serial
    BY <1>1, <1>2 DEF Log, TypeOK
  <2>2. /\ n' = n + 1 /\ DOMAIN logged' = 1..(n + 1)
        /\ \A i \in 1..n : logged'[i] = logged[i]
        /\ logged'[n + 1] = Entry
    BY <2>1, AppendIsSequence DEF TypeOK
  <2>3. Done = serial - 1 /\ Done' = serial /\ serial \in Nat \ {0}
    BY <1>2 DEF Log, Done, SerialInv, TypeOK
  <2>4. Entry.serial = serial - 1 /\ Entry.log = log
    BY <1>2 DEF Entry, Log, SerialInv
  <2>5. logged' # <<>>
    BY <2>1, AppendIsSequence DEF TypeOK
  <2>6. Interval(setup') = Interval(setup)
    BY <2>1
  <2>7. n = 0 => serial >= Interval(setup)
    BY <1>1, <2>1, <2>3 DEF SpacingInv
  <2>8. n > 0 => /\ serial >= Interval(setup) + logged[n].serial + 1
                 /\ logged[n].log = log =>
                      serial = Interval(setup) + logged[n].serial + 1
                 /\ logged[n].serial \in Nat
    <3> SUFFICES ASSUME n > 0
                 PROVE  /\ serial >= Interval(setup) + logged[n].serial + 1
                        /\ logged[n].log = log =>
                             serial = Interval(setup) + logged[n].serial + 1
                        /\ logged[n].serial \in Nat
      OBVIOUS
    <3>0. logged # <<>>
      BY <1>1
    <3>1. /\ counter + Done >= Interval(setup) + logged[n].serial + 1
          /\ logged[n].log = log =>
               counter + Done = Interval(setup) + logged[n].serial + 1
      <4>1. counter + Done >= Interval(setup) + logged[n].serial + 1
        BY <3>0 DEF SpacingInv
      <4>2. logging /\ logged[n].log = log =>
               counter + Done = Interval(setup) + logged[n].serial + 1
        BY <3>0, Zenon DEF SpacingInv
      <4> QED
        BY <2>1, <4>1, <4>2
    <3>2. counter + Done = serial
      BY <2>1, <2>3
    <3>3. logged[n].serial \in Nat
      BY <1>1 DEF SpacingInv
    <3> QED
      BY <3>1, <3>2, <3>3
  <2>9. \A i \in 1..n : logged[i].serial \in Nat
    BY <1>1 DEF SpacingInv
  <2>10. ASSUME NEW i \in 1..(n + 1)
         PROVE  /\ logged'[i].serial \in Nat
                /\ Interval(setup) > 0
                /\ logged'[i].serial >= Interval(setup) - 1
                /\ i > 1 =>
                     /\ logged'[i].serial - logged'[i - 1].serial >= Interval(setup)
                     /\ logged'[i].log = logged'[i - 1].log =>
                          logged'[i].serial - logged'[i - 1].serial = Interval(setup)
    <3>1. CASE i <= n
      <4>1. i \in 1..n /\ (i > 1 => i - 1 \in 1..n)
        BY <1>1, <3>1
      <4> QED
        BY <1>1, <2>1, <2>2, <2>9, <4>1 DEF SpacingInv, LogSpacing
    <3>2. CASE i = n + 1
      <4>1. logged'[i].serial = serial - 1 /\ logged'[i].log = log
        BY <2>2, <2>4, <3>2
      <4>2. i > 1 => n > 0 /\ logged'[i - 1] = logged[n]
        BY <1>1, <2>2, <3>2
      <4> QED
        <5>1. Interval(setup) > 0
          BY <2>1
        <5> QED
          BY <1>1, <2>3, <2>7, <2>8, <3>2, <4>1, <4>2, <5>1, SMTT(20)
    <3> QED
      BY <1>1, <3>1, <3>2
  <2>11. LogSpacing'
    BY <2>2, <2>6, <2>10 DEF LogSpacing
  <2>12. counter' + Done' = Interval(setup) + serial
    BY <2>1, <2>3
  <2>13. logged'[Len(logged')].serial = serial - 1
    BY <2>2, <2>4
  <2>14. counter' + Done' = Interval(setup') + logged'[Len(logged')].serial + 1
    BY <1>1, <2>3, <2>6, <2>12, <2>13
  <2>15. counter' + Done' >= Interval(setup') + logged'[Len(logged')].serial + 1
    <3>1. counter' + Done' \in Int
      BY <1>1, <2>3, <2>12
    <3> QED
      BY <2>14, <3>1
  <2>16. \A i \in DOMAIN logged' : logged'[i].serial \in Nat
    BY <2>2, <2>10
  <2> QED
    BY <2>5, <2>11, <2>14, <2>15, <2>16 DEF SpacingInv
<1>3. CASE ~Log
  <2>1. logged' = logged /\ setup' = setup
    BY <1>3 DEF Next, Configure, PipelineConfigured, StreamConfigured,
         StartLog, StopLog, Cancel, EndRun, Grab, GrabFile, GrabCamera, ReadFails,
         SinkFails, Delivered, Body, Throw, EndRun, Process, Stream, NoStream, NoLog,
         Logger, WriteFullFrame, WriteFourUp, Write, Discard
  <2>2. CASE NoLog
    <3>1. Done = serial - 1 /\ Done' = serial /\ serial \in Nat /\ counter \in Int
      BY <1>1, <2>2 DEF NoLog, Done, TypeOK
    <3>2. /\ logging' = logging /\ log' = log
          /\ counter' = IF logging THEN counter - 1 ELSE counter
      BY <2>2 DEF NoLog
    <3>3. logging => counter' + Done' = counter + Done
      BY <3>1, <3>2
    <3>4. counter' + Done' >= counter + Done
      BY <3>1, <3>2
    <3>5. logged # <<>> => logged[n].serial \in Nat
      BY <1>1 DEF SpacingInv
    <3>6. counter' \in Int /\ Done' \in Int /\ Done \in Int
      BY <3>1, <3>2
    <3>7. LogSpacing'
      BY <2>1 DEF SpacingInv, LogSpacing
    <3> QED
      BY <1>1, <2>1, <3>1, <3>2, <3>3, <3>4, <3>5, <3>6, <3>7 DEF SpacingInv
  <2>3. CASE ~NoLog
    <3>1. counter' = counter /\ Done' = Done
      BY <1>3, <2>3 DEF TypeOK, Done, Next, Configure, PipelineConfigured,
         StreamConfigured, StartLog, StopLog, Cancel, EndRun, Grab, GrabFile, GrabCamera,
         ReadFails, SinkFails, Delivered, Body, Throw, EndRun, Process, Stream, NoStream,
         Logger, WriteFullFrame, WriteFourUp, Write, Discard
    <3>2. \/ logging' => logging /\ log' = log
          \/ log' = log + 1
      BY <1>3, <2>3 DEF Next, Configure, PipelineConfigured,
         StreamConfigured, StartLog, StopLog, Cancel, EndRun, Grab, GrabFile, GrabCamera,
         ReadFails, SinkFails, Delivered, Body, Throw, EndRun, Process, Stream, NoStream,
         Logger, WriteFullFrame, WriteFourUp, Write, Discard
    <3>3. logged # <<>> => logged[n].log \in 0..log
      BY <1>1 DEF QueueInv
    <3>4. logged # <<>> /\ logging' /\ logged[n].log = log' => logging /\ log' = log
      BY <3>2, <3>3 DEF TypeOK
    <3>5. LogSpacing'
      BY <2>1 DEF SpacingInv, LogSpacing
    <3> QED
      BY <2>1, <3>1, <3>4, <3>5 DEF SpacingInv
  <2> QED
    BY <2>2, <2>3
<1> QED
  BY <1>2, <1>3

\* Only Log and the logging task touch the entries; the end of the run drops
\* the queue.
LEMMA EntriesKept ==
  ASSUME [Next]_vars, ~Log, ~Logger
  PROVE  /\ UNCHANGED <<setup, start, logged, written>>
         /\ \/ log' = log /\ number' = number
            \/ log' = log + 1 /\ number' = 1
         /\ \/ queue' = queue /\ ~RunOver /\ ~RunOver'
            \/ RunOver' /\ ~logging' /\ queue' = <<>>
            \/ UNCHANGED <<queue, logging, pc>>
<1> USE DEF RunOver
<1>1. CASE UNCHANGED vars
  BY <1>1
<1>2. CASE Configure
  <2>1. CASE Cancel
    BY <2>1 DEF Cancel, EndRun
  <2>2. CASE ~Cancel
    BY <1>2, <2>2 DEF Configure, PipelineConfigured, StreamConfigured, StartLog,
                      StopLog
  <2> QED
    BY <2>1, <2>2
<1>3. CASE Grab
  BY <1>3 DEF Grab, GrabFile, GrabCamera, ReadFails, SinkFails, Delivered
<1>4. CASE Throw
  BY <1>4 DEF Throw, EndRun
<1>5. CASE Process \/ Stream \/ NoStream \/ NoLog
  BY <1>5 DEF Process, Stream, NoStream, NoLog
<1> QED
  BY <1>1, <1>2, <1>3, <1>4, <1>5 DEF Next, Body

LEMMA SequenceFacts ==
  ASSUME NEW s, IsSequence(s)
  PROVE  Len(s) \in Nat /\ DOMAIN s = 1..Len(s) /\ (s = <<>> <=> Len(s) = 0)
<1>1. s \in Seq({s[i] : i \in DOMAIN s})
  BY DEF IsSequence
<1> QED
  BY <1>1, LenProperties, EmptySeq

LEMMA QueueStep ==
  ASSUME TypeOK, QueueInv, [Next]_vars
  PROVE  QueueInv'
<1>1. /\ Len(logged) \in Nat /\ DOMAIN logged = 1..Len(logged)
      /\ Len(written) \in Nat /\ DOMAIN written = 1..Len(written)
      /\ Len(queue) \in Nat /\ DOMAIN queue = 1..Len(queue)
      /\ queue = <<>> <=> Len(queue) = 0
  BY SequenceFacts DEF TypeOK
<1>2. CASE Log
  <2>1. /\ logged' = Append(logged, Entry) /\ queue' = Append(queue, Entry)
        /\ setup' = setup /\ log' = log /\ written' = written
        /\ ~RunOver /\ ~RunOver'
    BY <1>2 DEF Log, RunOver
  <2>2. /\ Len(logged') = Len(logged) + 1 /\ DOMAIN logged' = 1..(Len(logged) + 1)
        /\ \A i \in 1..Len(logged) : logged'[i] = logged[i]
        /\ logged'[Len(logged) + 1] = Entry
    BY <2>1, AppendIsSequence DEF TypeOK
  <2>3. /\ Len(queue') = Len(queue) + 1 /\ DOMAIN queue' = 1..(Len(queue) + 1)
        /\ \A i \in 1..Len(queue) : queue'[i] = queue[i]
        /\ queue'[Len(queue) + 1] = Entry
    BY <2>1, AppendIsSequence DEF TypeOK
  <2>4. Entry.log = log
    BY DEF Entry
  <2>5. ASSUME NEW i \in DOMAIN logged' PROVE logged'[i].log \in 0..log
    <3>1. CASE i \in 1..Len(logged)
      BY <1>1, <2>2, <3>1 DEF QueueInv
    <3>2. CASE i = Len(logged) + 1
      BY <2>2, <2>4, <3>2 DEF TypeOK
    <3> QED
      BY <1>1, <2>2, <3>1, <3>2
  <2>6. ASSUME NEW i \in DOMAIN logged', NEW j \in DOMAIN logged', i <= j
        PROVE  logged'[i].log <= logged'[j].log
    <3>1. CASE j \in 1..Len(logged)
      <4>1. i \in 1..Len(logged)
        BY <1>1, <2>2, <2>6, <3>1
      <4> QED
        BY <1>1, <2>2, <2>6, <3>1, <4>1 DEF QueueInv
    <3>2. CASE j = Len(logged) + 1
      BY <2>2, <2>4, <2>5, <3>2 DEF TypeOK
    <3> QED
      BY <1>1, <2>2, <3>1, <3>2
  <2>7. ASSUME Enabled(setup)
        PROVE  /\ Len(logged') = Len(written') + Len(queue')
               /\ \A i \in DOMAIN written' : written'[i].entry = logged'[i]
               /\ \A i \in DOMAIN queue' : queue'[i] = logged'[Len(written') + i]
    <3>1. Len(logged) = Len(written) + Len(queue)
      BY <2>1, <2>7 DEF QueueInv
    <3>2. ASSUME NEW i \in DOMAIN written PROVE written[i].entry = logged'[i]
      BY <1>1, <2>2, <2>7, <3>1 DEF QueueInv
    <3>3. ASSUME NEW i \in DOMAIN queue'
          PROVE  queue'[i] = logged'[Len(written) + i]
      <4>1. CASE i = Len(queue) + 1
        BY <1>1, <2>2, <2>3, <3>1, <4>1
      <4>2. CASE i \in 1..Len(queue)
        <5>1. Len(written) + i \in 1..Len(logged)
          BY <1>1, <3>1, <4>2
        <5> QED
          BY <1>1, <2>2, <2>3, <2>7, <4>2, <5>1 DEF QueueInv
      <4> QED
        BY <1>1, <2>3, <4>1, <4>2
    <3>4. Len(logged') = Len(written) + Len(queue')
      BY <1>1, <2>2, <2>3, <3>1
    <3> QED
      BY <2>1, <3>2, <3>3, <3>4
  <2>8. Enabled(setup) => Len(logged') >= Len(written') + Len(queue')
    <3>1. Len(logged') \in Nat
      BY <1>1, <2>2
    <3> QED
      BY <2>7, <3>1
  <2> QED
    BY <2>1, <2>5, <2>6, <2>7, <2>8 DEF QueueInv
<1>3. ASSUME NEW contours, Write(contours) PROVE QueueInv'
  <2>1. /\ queue' = Tail(queue) /\ logged' = logged /\ setup' = setup
        /\ log' = log /\ queue # <<>> /\ ~RunOver /\ ~RunOver'
        /\ written' = Append(written,
             [entry |-> Head(queue), log |-> log, number |-> number,
              contours |-> contours])
    BY <1>3 DEF Write, QueueInv, RunOver
  <2>2. /\ Len(queue') = Len(queue) - 1 /\ DOMAIN queue' = 1..(Len(queue) - 1)
        /\ \A i \in 1..(Len(queue) - 1) : queue'[i] = queue[i + 1]
        /\ Head(queue) = queue[1]
    BY <2>1, TailIsSequence DEF TypeOK
  <2>3. /\ Len(written') = Len(written) + 1
        /\ DOMAIN written' = 1..(Len(written) + 1)
        /\ \A i \in 1..Len(written) : written'[i] = written[i]
        /\ written'[Len(written) + 1].entry = queue[1]
    <3> DEFINE image == [entry |-> Head(queue), log |-> log, number |-> number,
                         contours |-> contours]
    <3>1. image.entry = queue[1] /\ written' = Append(written, image)
      BY <2>1, <2>2
    <3> HIDE DEF image
    <3> QED
      BY <3>1, AppendIsSequence DEF TypeOK
  <2>4. ASSUME Enabled(setup)
        PROVE  /\ Len(logged) = Len(written') + Len(queue')
               /\ \A i \in DOMAIN written' : written'[i].entry = logged[i]
               /\ \A i \in DOMAIN queue' : queue'[i] = logged[Len(written') + i]
    <3>1. /\ Len(logged) = Len(written) + Len(queue)
          /\ \A i \in 1..Len(written) : written[i].entry = logged[i]
          /\ \A i \in 1..Len(queue) : queue[i] = logged[Len(written) + i]
      BY <1>1, <2>1, <2>4 DEF QueueInv
    <3>2. written'[Len(written) + 1].entry = logged[Len(written) + 1]
      <4>1. 1 \in 1..Len(queue)
        <5>1. Len(queue) # 0
          BY <1>1, <2>1, Zenon
        <5> QED
          BY <1>1, <5>1
      <4> QED
        BY <2>3, <3>1, <4>1
    <3>3. ASSUME NEW i \in 1..(Len(queue) - 1)
          PROVE  queue'[i] = logged[Len(written) + 1 + i]
      BY <1>1, <2>2, <3>1, <3>3
    <3> QED
      BY <1>1, <2>2, <2>3, <3>1, <3>2, <3>3, SMTT(20)
  <2> QED
    BY <1>1, <2>1, <2>4 DEF QueueInv
<1>4. CASE Discard
  BY <1>4 DEF Discard, QueueInv, RunOver
<1>5. CASE ~Log /\ ~Logger
  <2>1. UNCHANGED <<setup, logged, written>> /\ log' \in Nat /\ log' >= log
    BY <1>5, EntriesKept DEF TypeOK
  <2>2. \A i \in DOMAIN logged' : logged'[i].log \in 0..log'
    BY <2>1 DEF QueueInv, TypeOK
  <2>3. \/ queue' = queue /\ ~RunOver /\ ~RunOver'
        \/ RunOver' /\ ~logging' /\ queue' = <<>>
        \/ UNCHANGED <<queue, logging, pc>>
    BY <1>5, EntriesKept
  <2>4. CASE queue' = queue /\ RunOver' = RunOver /\ (RunOver => ~logging')
    <3> QED
      BY <2>1, <2>2, <2>4 DEF QueueInv
  <2>5. CASE RunOver' /\ ~logging' /\ queue' = <<>>
    <3>1. Len(queue') = 0 /\ DOMAIN queue' = {}
      BY <2>5
    <3>2. Enabled(setup) => Len(logged) >= Len(written) + Len(queue')
      <4>1. Enabled(setup) => Len(logged) >= Len(written) + Len(queue)
        BY DEF QueueInv
      <4> QED
        BY <1>1, <3>1, <4>1
    <3> QED
      BY <2>1, <2>2, <2>5, <3>1, <3>2 DEF QueueInv
  <2> QED
    BY <2>3, <2>4, <2>5 DEF RunOver, QueueInv
<1> QED
  BY <1>2, <1>3, <1>4, <1>5 DEF Logger, WriteFullFrame, WriteFourUp

LEMMA NumberStep ==
  ASSUME TypeOK, QueueInv, NumberInv, [Next]_vars
  PROVE  NumberInv'
<1> DEFINE Of(l) == {i \in DOMAIN written : written[i].log = l}
<1>1. /\ Len(written) \in Nat /\ DOMAIN written = 1..Len(written)
      /\ Len(queue) \in Nat /\ DOMAIN queue = 1..Len(queue)
      /\ queue = <<>> <=> Len(queue) = 0
      /\ Len(logged) \in Nat /\ DOMAIN logged = 1..Len(logged)
  BY SequenceFacts DEF TypeOK
<1>2. ASSUME NEW contours, Write(contours) PROVE NumberInv'
  <2> DEFINE k == Len(written) + 1
  <2>1. /\ log' = log /\ number' = number + 1 /\ queue # <<>> /\ Enabled(setup)
        /\ ~RunOver
        /\ written' = Append(written,
             [entry |-> Head(queue), log |-> log, number |-> number,
              contours |-> contours])
    BY <1>2 DEF Write, QueueInv
  <2>2. /\ DOMAIN written' = 1..k /\ k \in Nat
        /\ \A i \in 1..(k - 1) : written'[i] = written[i]
        /\ written'[k].log = log /\ written'[k].number = number
        /\ written'[k].entry = queue[1]
    <3> DEFINE image == [entry |-> Head(queue), log |-> log, number |-> number,
                         contours |-> contours]
    <3>1. Head(queue) = queue[1]
      BY <2>1, TailIsSequence DEF TypeOK
    <3>2. /\ image.entry = queue[1] /\ image.log = log /\ image.number = number
          /\ written' = Append(written, image)
      BY <2>1, <3>1
    <3> HIDE DEF image
    <3>3. /\ DOMAIN written' = 1..k /\ written'[k] = image
          /\ \A i \in 1..Len(written) : written'[i] = written[i]
      BY <3>2, AppendIsSequence DEF TypeOK
    <3>4. k - 1 = Len(written) /\ k \in Nat
      BY <1>1
    <3> QED
      BY <3>2, <3>3, <3>4
  <2>3. IsFiniteSet(Of(log)) /\ k \notin Of(log)
    <3>1. IsFiniteSet(1..Len(written))
      BY <1>1, FS_Interval
    <3> QED
      BY <1>1, <3>1, FS_Subset
  <2>4. {i \in DOMAIN written' : written'[i].log = log} = Of(log) \cup {k}
    BY <1>1, <2>2
  <2>5. number' = 1 + Cardinality({i \in DOMAIN written' : written'[i].log = log'})
    <3>1. Cardinality(Of(log) \cup {k}) = Cardinality(Of(log)) + 1
      BY <2>3, FS_AddElement
    <3>2. Cardinality(Of(log)) \in Nat /\ number = 1 + Cardinality(Of(log))
      BY <2>3, FS_CardinalityType DEF NumberInv
    <3>3. number' = 1 + Cardinality(Of(log) \cup {k})
      BY <2>1, <3>1, <3>2
    <3> QED
      BY <2>1, <2>4, <3>3
  <2>6. ASSUME NEW i \in DOMAIN written' PROVE written'[i].log \in 0..log'
    <3>1. CASE i = k
      BY <2>1, <2>2, <3>1 DEF TypeOK
    <3>2. CASE i # k
      <4>1. i \in DOMAIN written /\ written'[i] = written[i]
        BY <1>1, <2>2, <3>2
      <4> QED
        BY <2>1, <4>1 DEF NumberInv
    <3> QED
      BY <3>1, <3>2
  <2>7. ASSUME NEW i \in DOMAIN written'
        PROVE  LET earlier == {j \in 1..(i - 1) : written'[j].log = written'[i].log}
               IN  /\ written'[i].number = 1 + Cardinality(earlier)
                   /\ written'[i].entry.log <= written'[i].log
                   /\ \A j \in earlier :
                        written'[j].entry.log <= written'[i].entry.log
    <3> DEFINE earlier == {j \in 1..(i - 1) : written'[j].log = written'[i].log}
    <3>1. CASE i = k
      <4>1. earlier = Of(log)
        BY <1>1, <2>2, <3>1
      <4>2. queue[1] = logged[k] /\ k \in 1..Len(logged)
        <5>1. 1 \in DOMAIN queue /\ Len(queue) > 0
          <6>1. Len(queue) # 0
            BY <1>1, <2>1, Zenon
          <6> QED
            BY <1>1, <6>1
        <5>2. /\ Len(logged) = Len(written) + Len(queue)
              /\ queue[1] = logged[Len(written) + 1]
          BY <2>1, <5>1 DEF QueueInv
        <5> QED
          BY <1>1, <5>1, <5>2
      <4>3. queue[1].log <= log
        <5>1. logged[k].log \in 0..log
          BY <1>1, <4>2 DEF QueueInv
        <5> QED
          BY <4>2, <5>1 DEF TypeOK
      <4>4. ASSUME NEW j \in earlier
            PROVE  written'[j].entry.log <= written'[i].entry.log
        <5>1. j \in 1..(k - 1)
          BY <3>1
        <5>2. j \in DOMAIN written /\ j <= k /\ j \in DOMAIN logged
          BY <1>1, <4>2, <5>1
        <5>3. written[j].entry = logged[j]
          BY <2>1, <5>2 DEF QueueInv
        <5>4. logged[j].log <= logged[k].log
          BY <1>1, <4>2, <5>2 DEF QueueInv
        <5> QED
          BY <2>2, <3>1, <4>2, <5>1, <5>3, <5>4
      <4>5. number = 1 + Cardinality(Of(log))
        BY DEF NumberInv
      <4> QED
        BY <2>2, <3>1, <4>1, <4>3, <4>4, <4>5
    <3>2. CASE i # k
      <4>1. i \in DOMAIN written /\ written'[i] = written[i]
        BY <1>1, <2>2, <3>2
      <4>2. \A j \in 1..(i - 1) : written'[j] = written[j]
        BY <1>1, <2>2, <4>1
      <4>3. earlier = {j \in 1..(i - 1) : written[j].log = written[i].log}
        BY <4>1, <4>2
      <4> QED
        BY <4>1, <4>2, <4>3 DEF NumberInv, LogsNumbered
    <3> QED
      BY <3>1, <3>2
  <2> QED
    BY <2>5, <2>6, <2>7 DEF NumberInv, LogsNumbered
<1>3. CASE written' = written /\ log' = log /\ number' = number
  BY <1>3 DEF NumberInv, LogsNumbered
<1>4. CASE written' = written /\ log' = log + 1 /\ number' = 1
  <2>1. {i \in DOMAIN written : written[i].log = log + 1} = {}
    BY DEF NumberInv, TypeOK
  <2>2. \A i \in DOMAIN written : written[i].log \in 0..(log + 1)
    BY DEF NumberInv, TypeOK
  <2> QED
    BY <1>4, <2>1, <2>2, FS_EmptySet, SMTT(20) DEF NumberInv, LogsNumbered
<1>5. CASE ~Log /\ ~Logger
  BY <1>3, <1>4, <1>5, EntriesKept
<1>6. CASE Log \/ Discard
  BY <1>3, <1>6 DEF Log, Discard
<1> QED
  BY <1>2, <1>5, <1>6 DEF Logger, WriteFullFrame, WriteFourUp

------------------------------------------------------------------------------
(* Spoilt pictures and the contours found in them.                         *)

LEMMA MaskIsWhite ==
  ASSUME NEW picture, NEW c, IsPicture(picture), NEW s \in MaskFrame(picture, c)
  PROVE  s.hue = White
<1>1. PICK t \in picture : s = [t EXCEPT !.hue = White]
  BY DEF MaskFrame
<1>2. t \in Shapes
  BY DEF IsPicture
<1> QED
  BY <1>1, <1>2 DEF Shapes

\* A white picture is its own mask, or there is nothing white in the mask.
LEMMA WhiteMask ==
  ASSUME NEW picture, NEW c, IsPicture(picture),
         \A s \in picture : s.hue = White
  PROVE  MaskFrame(picture, c) \in {picture, {}}
<1>1. ASSUME NEW s \in picture PROVE [s EXCEPT !.hue = White] = s
  <2>1. s \in Shapes /\ s.hue = White
    BY DEF IsPicture
  <2> QED
    BY <2>1 DEF Shapes
<1>2. MaskFrame(picture, c) =
        {[s EXCEPT !.hue = White] : s \in {t \in picture : Within(White, c.hue)}}
  <2>1. {t \in picture : Within(t.hue, c.hue)} = {t \in picture : Within(White, c.hue)}
    OBVIOUS
  <2> QED
    BY <2>1, Zenon DEF MaskFrame
<1>3. CASE Within(White, c.hue)
  <2>1. MaskFrame(picture, c) = {[s EXCEPT !.hue = White] : s \in picture}
    BY <1>2, <1>3
  <2> QED
    BY <1>1, <2>1
<1>4. CASE ~Within(White, c.hue)
  BY <1>2, <1>4
<1> QED
  BY <1>3, <1>4

\* The mask of a picture that may be spoilt is spoilt, unless it is what was
\* delivered, and then the picture was not.
LEMMA FadedMask ==
  ASSUME NEW picture, NEW from, NEW c, IsPicture(picture), Faded(picture, from)
  PROVE  /\ Faded(MaskFrame(picture, c), from)
         /\ MaskFrame(picture, c) = from => picture = from
<1> DEFINE mask == MaskFrame(picture, c)
<1>1. \A s \in mask : s.hue = White
  BY MaskIsWhite
<1>2. picture = {} => mask = {}
  BY DEF MaskFrame
<1>3. ASSUME \A s \in from : s.hue = White PROVE mask \in {from, {}}
  <2>1. CASE picture = from
    BY <1>3, <2>1, WhiteMask
  <2>2. CASE picture # from
    BY <1>2, <1>3, <2>2 DEF Faded
  <2> QED
    BY <2>1, <2>2
<1>4. ASSUME mask = from, picture # from PROVE FALSE
  <2>1. \A s \in from : s.hue = White
    BY <1>1, <1>4
  <2>2. picture = {}
    BY <1>4, <2>1 DEF Faded
  <2> QED
    BY <1>2, <1>4, <2>2
<1> HIDE DEF mask
<1>5. Faded(mask, from)
  BY <1>1, <1>3 DEF Faded
<1> QED
  BY <1>4, <1>5 DEF mask

LEMMA FadeStep ==
  ASSUME TypeOK, FrameInv, FadeInv, [Next]_vars
  PROVE  FadeInv'
<1> USE DEF FadeInv
<1>1. CASE UNCHANGED vars
  BY <1>1 DEF vars, given, pixels, shots, Faded
<1>2. CASE Configure
  BY <1>2 DEF Configure, PipelineConfigured, StreamConfigured, StartLog, StopLog,
              Cancel, EndRun
<1>3. CASE GrabFile
  BY <1>3 DEF GrabFile, Delivered
<1>4. ASSUME NEW p, GrabCamera(p) PROVE FadeInv'
  <2>1. Faded(p, p)
    BY DEF Faded
  <2> QED
    BY <1>4, <2>1 DEF GrabCamera, Delivered
<1>5. CASE ReadFails \/ SinkFails
  BY <1>5 DEF ReadFails, SinkFails
<1>6. CASE Throw \/ Process
  BY <1>6 DEF Throw, EndRun, Process
<1>7. CASE Stream
  <2>1. IsPicture(frame) /\ Faded(frame, shot)
    BY <1>7 DEF Stream, FrameInv
  <2>2. Faded(MaskFrame(frame, config), shot)
    BY <2>1, FadedMask
  <2>3. /\ frame' \in {frame, MaskFrame(frame, config)}
        /\ src' = src \/ (setup.type = "file" /\ src' = MaskFrame(frame, config))
        /\ setup' = setup /\ shot' = shot /\ pc = "processed"
    BY <1>7 DEF Stream
  <2> QED
    BY <2>1, <2>2, <2>3
<1>8. CASE NoStream \/ Log \/ NoLog
  BY <1>8 DEF NoStream, Log, NoLog
<1>9. CASE Logger
  BY <1>9 DEF Logger, WriteFullFrame, WriteFourUp, Write, Discard
<1> QED
  BY <1>1, <1>2, <1>3, <1>4, <1>5, <1>6, <1>7, <1>8, <1>9 DEF Next, Grab, Body

LEMMA FoundStep ==
  ASSUME TypeOK, FrameInv, FadeInv, FoundInv, [Next]_vars
  PROVE  FoundInv'
<1>1. CASE Process
  <2> DEFINE S == {s \in MaskFrame(frame, config) : Passes(s, config, setup.size)}
  <2>1. PICK order \in Descending(S) : found' = order
    BY <1>1 DEF Process, GeometricContoursFilter
  <2>2. \A k \in DOMAIN order : order[k] \in S
    BY DEF Descending
  <2>3. UNCHANGED <<frame, config, logged>> /\ pc' = "processed"
    BY <1>1 DEF Process
  <2>4. FoundIn(found', frame, config)
    BY <2>1, <2>2 DEF FoundIn
  <2> QED
    BY <2>3, <2>4 DEF FoundInv
<1>2. CASE Stream
  <2>1. IsPicture(frame) /\ Faded(frame, shot) /\ FoundIn(found, frame, config)
    BY <1>2 DEF Stream, FrameInv, FadeInv, FoundInv
  <2>2. /\ frame' \in {frame, MaskFrame(frame, config)}
        /\ UNCHANGED <<config, found, shot, logged>> /\ pc' = "streamed"
    BY <1>2 DEF Stream
  <2>3. frame' = shot => frame' = frame
    BY <2>1, <2>2, FadedMask
  <2> QED
    BY <2>1, <2>2, <2>3 DEF FoundInv
<1>3. CASE NoStream
  BY <1>3 DEF NoStream, FoundInv
<1>4. CASE Log
  <2>1. /\ DOMAIN logged' = 1..(Len(logged) + 1) /\ DOMAIN logged = 1..Len(logged)
        /\ Len(logged) \in Nat
        /\ \A i \in 1..Len(logged) : logged'[i] = logged[i]
        /\ logged'[Len(logged) + 1] = Entry
    BY <1>4, AppendIsSequence DEF TypeOK, Log
  <2>2. Entry.picture = Entry.shot =>
          FoundIn(Entry.found, Entry.picture, Entry.config)
    BY <1>4 DEF Entry, Log, FoundInv
  <2>3. \A i \in DOMAIN logged' :
          logged'[i].picture = logged'[i].shot =>
            FoundIn(logged'[i].found, logged'[i].picture, logged'[i].config)
    <3> SUFFICES ASSUME NEW i \in DOMAIN logged'
                 PROVE  logged'[i].picture = logged'[i].shot =>
                          FoundIn(logged'[i].found, logged'[i].picture,
                                  logged'[i].config)
      OBVIOUS
    <3>1. i = Len(logged) + 1 \/ i \in 1..Len(logged)
      BY <2>1
    <3> QED
      BY <2>1, <2>2, <3>1 DEF FoundInv
  <2>4. pc' = "top"
    BY <1>4 DEF Log
  <2> QED
    BY <2>3, <2>4 DEF FoundInv
<1>5. CASE Logger
  BY <1>5 DEF Logger, WriteFullFrame, WriteFourUp, Write, Discard, FoundInv
<1>6. CASE ~Process /\ ~Stream /\ ~NoStream /\ ~Log /\ ~Logger
  <2>1. /\ logged' = logged
        /\ \/ UNCHANGED <<pc, found, frame, config, shot>>
           \/ pc' \notin {"processed", "streamed"}
    BY <1>6, Zenon DEF Next, Configure, PipelineConfigured, StreamConfigured,
       StartLog, StopLog, Cancel, EndRun, Grab, GrabFile, GrabCamera, ReadFails, SinkFails,
       Delivered, Body, Throw, NoLog, vars, configs, pixels, data, logger, shots
  <2> QED
    BY <2>1 DEF FoundInv
<1> QED
  BY <1>1, <1>2, <1>3, <1>4, <1>5, <1>6

LEMMA ContoursStep ==
  ASSUME TypeOK, ContoursInv, [Next]_vars
  PROVE  ContoursInv'
<1>1. ASSUME NEW contours, Write(contours),
             setup.four_up => contours = MaskFrame(Head(queue).picture, start)
      PROVE  ContoursInv'
  <2> DEFINE image == [entry |-> Head(queue), log |-> log, number |-> number,
                       contours |-> contours]
  <2>1. /\ written' = Append(written, image) /\ Enabled(setup)
        /\ setup' = setup /\ start' = start
    BY <1>1 DEF Write, given
  <2>2. image.contours = contours /\ image.entry = Head(queue)
    OBVIOUS
  <2> HIDE DEF image
  <2>3. /\ DOMAIN written' = 1..(Len(written) + 1)
        /\ DOMAIN written = 1..Len(written) /\ Len(written) \in Nat
        /\ \A i \in 1..Len(written) : written'[i] = written[i]
        /\ written'[Len(written) + 1] = image
    BY <2>1, AppendIsSequence DEF TypeOK
  <2>4. ASSUME NEW i \in DOMAIN written', setup.four_up
        PROVE  written'[i].contours = MaskFrame(written'[i].entry.picture, start)
    <3>1. i = Len(written) + 1 \/ i \in 1..Len(written)
      BY <2>3
    <3> QED
      BY <1>1, <2>2, <2>3, <2>4, <3>1 DEF ContoursInv
  <2> QED
    BY <2>1, <2>4 DEF ContoursInv
<1>2. CASE WriteFullFrame \/ WriteFourUp
  BY <1>1, <1>2 DEF WriteFullFrame, WriteFourUp
<1>3. CASE UNCHANGED <<written, setup, start>>
  BY <1>3 DEF ContoursInv
<1>4. CASE Log \/ Discard
  BY <1>3, <1>4 DEF Log, Discard
<1> QED
  BY <1>2, <1>3, <1>4, EntriesKept DEF Logger

------------------------------------------------------------------------------
(* The theorems.                                                           *)

LEMMA IInvInit == Init => IInv
<1> SUFFICES ASSUME Init PROVE IInv
  OBVIOUS
<1>1. TypeOK
  BY TypeInit
<1>2. StreamFits /\ SerialInv /\ TargetIsLargest
  BY DEF Init, StreamFits, SerialInv, TargetIsLargest
<1>3. PixelInv
  BY DEF Init, PixelInv, SpoiltAs
<1>4. FrameInv
  BY SetupAssumption DEF Init, FrameInv, LoadSource
<1>5. counter + Done >= Interval(setup)
  BY IntervalIsNat DEF Init, Done
<1>6. SpacingInv
  BY <1>5 DEF Init, SpacingInv, LogSpacing
<1>7. Len(logged) = 0 /\ Len(written) = 0 /\ Len(queue) = 0
  BY DEF Init
<1>8. QueueInv
  BY <1>7 DEF Init, QueueInv
<1>9. {i \in DOMAIN written : written[i].log = log} = {}
  BY DEF Init
<1>10. NumberInv
  BY <1>9, FS_EmptySet DEF Init, NumberInv, LogsNumbered
<1>11. FadeInv /\ FoundInv /\ ContoursInv
  BY DEF Init, FadeInv, Faded, FoundInv, ContoursInv
<1> QED
  BY <1>1, <1>2, <1>3, <1>4, <1>6, <1>8, <1>10, <1>11 DEF IInv

LEMMA IInvStep == IInv /\ [Next]_vars => IInv'
BY TypeStep, SerialStep, StreamFitsStep, PixelStep, FrameStep, TargetStep,
   SpacingStep, QueueStep, NumberStep, FadeStep, FoundStep, ContoursStep,
   SetupAssumption DEF IInv

\* The inductive invariant of the frame path holds throughout, for captures
\* of any size and logs at any rate up to the frame rate (runner.cpp:65-163).
THEOREM Inductive == Spec => []IInv
<1>1. IInv /\ UNCHANGED vars => IInv'
  BY IInvStep
<1> QED
  BY IInvInit, IInvStep, PTL DEF Spec

\* What is streamed has the stream's size, for every capture size of a
\* supported ratio and however streams are set (streamer.cpp:28-51,66-114).
THEOREM StreamsFit == Spec => []StreamFits
BY Inductive, PTL DEF IInv

\* Frames and entries show what the device delivered, but for the mask that
\* is converted into shared pixels (streamer.cpp:81-84).
THEOREM PicturesIntact == Spec => []PictureIntact
<1>1. IInv => PictureIntact
  BY DEF IInv, PixelInv, PictureIntact
<1> QED
  BY <1>1, Inductive, PTL

\* Every picture is counted once, and only cscore's time-outs are counted
\* besides (runner.cpp:144-152, usb_cscore.cpp:45-54).
THEOREM SerialsCount == Spec => []SerialsCountPictures
<1>1. IInv => SerialsCountPictures
  BY DEF IInv, SerialInv, SerialsCountPictures
<1> QED
  BY <1>1, Inductive, PTL

\* A target is sent exactly if a contour passes the filters, and it is a
\* largest one, whatever order std::sort leaves equal areas in
\* (pipeline_ops.h:26-79).
THEOREM TargetsAreLargest == Spec => []TargetIsLargest
BY Inductive, PTL DEF IInv

\* Entries of a log are log_interval frames apart, over pauses at least that
\* (runner.cpp:84-89,157-161).
THEOREM LogsAreSpaced == Spec => []LogSpacing
BY Inductive, PTL DEF IInv, SpacingInv

\* The queue neither loses, repeats nor reorders frames, over any number of
\* logs, and the end of the run loses only what is queued then
\* (frame_logger.h:50-67, full_frame.cpp:21-40).
THEOREM NothingIsLost == Spec => []NothingLost
<1>1. ASSUME IInv, Enabled(setup), ~RunOver
      PROVE  logged = Images \o queue
  <2> DEFINE T == {logged[i] : i \in DOMAIN logged}
  <2>1. /\ Len(logged) \in Nat /\ DOMAIN logged = 1..Len(logged)
        /\ Len(written) \in Nat /\ DOMAIN written = 1..Len(written)
        /\ Len(queue) \in Nat /\ DOMAIN queue = 1..Len(queue)
    BY <1>1, SequenceFacts DEF IInv, TypeOK
  <2>2. /\ Len(logged) = Len(written) + Len(queue)
        /\ \A i \in DOMAIN written : written[i].entry = logged[i]
        /\ \A i \in DOMAIN queue : queue[i] = logged[Len(written) + i]
    BY <1>1 DEF IInv, QueueInv
  <2>3. logged \in Seq(T)
    BY <1>1 DEF IInv, TypeOK, IsSequence
  <2>4. /\ Images \in Seq(T) /\ Len(Images) = Len(written)
        /\ \A i \in DOMAIN written : Images[i] = written[i].entry
    <3>1. \A i \in 1..Len(written) : Images[i] \in T
      BY <2>1, <2>2 DEF Images
    <3> QED
      BY <2>1, <3>1 DEF Images
  <2>5. queue \in Seq(T)
    <3>1. \A i \in 1..Len(queue) : queue[i] \in T
      BY <2>1, <2>2
    <3>2. queue \in Seq({queue[i] : i \in DOMAIN queue})
      BY <1>1 DEF IInv, TypeOK, IsSequence
    <3>3. {queue[i] : i \in DOMAIN queue} \subseteq T
      BY <2>1, <3>1
    <3> QED
      BY <3>2, <3>3, SeqMonotonic
  <2> HIDE DEF T
  <2>6. \A i \in 1..Len(logged) : (Images \o queue)[i] = logged[i]
    <3> SUFFICES ASSUME NEW i \in 1..Len(logged)
                 PROVE  (Images \o queue)[i] = logged[i]
      OBVIOUS
    <3>1. (Images \o queue)[i] = IF i <= Len(Images) THEN Images[i]
                                  ELSE queue[i - Len(Images)]
      BY <2>2, <2>4, <2>5, ConcatProperties
    <3>2. CASE i <= Len(written)
      BY <2>1, <2>2, <2>4, <3>1, <3>2
    <3>3. CASE i > Len(written)
      <4>1. i - Len(written) \in DOMAIN queue
        BY <2>1, <2>2, <3>3
      <4>2. queue[i - Len(written)] = logged[Len(written) + (i - Len(written))]
        BY <2>2, <4>1
      <4>3. Len(written) + (i - Len(written)) = i /\ ~(i <= Len(Images))
        BY <2>1, <2>4, <3>3
      <4> QED
        BY <2>4, <3>1, <4>2, <4>3
    <3>4. i <= Len(written) \/ i > Len(written)
      BY <2>1
    <3> QED
      BY <3>2, <3>3, <3>4
  <2>7. /\ Images \o queue \in Seq(T)
        /\ Len(Images \o queue) = Len(logged)
    BY <2>2, <2>4, <2>5, ConcatProperties
  <2>8. logged = Images \o queue
    BY <2>3, <2>6, <2>7, SeqEqual
  <2> QED
    BY <2>8
<1>2. ASSUME IInv, Enabled(setup), RunOver
      PROVE  Images = SubSeq(logged, 1, Len(written))
  <2> DEFINE T == {logged[i] : i \in DOMAIN logged}
             m == Len(written)
  <2>1. /\ Len(logged) \in Nat /\ DOMAIN logged = 1..Len(logged)
        /\ m \in Nat /\ DOMAIN written = 1..m
        /\ Len(queue) \in Nat
    BY <1>2, SequenceFacts DEF IInv, TypeOK
  <2>2. m <= Len(logged) /\ \A i \in 1..m : written[i].entry = logged[i]
    BY <1>2, <2>1 DEF IInv, QueueInv
  <2>3. logged \in Seq(T)
    BY <1>2 DEF IInv, TypeOK, IsSequence
  <2>4. Images = [i \in 1..m |-> logged[i]]
    BY <2>1, <2>2 DEF Images
  <2> HIDE DEF T, m
  <2>5. SubSeq(logged, 1, m) = [i \in 1..m |-> logged[i]]
    BY <2>1, <2>2, <2>3
  <2> QED
    BY <2>4, <2>5 DEF m
<1>3. IInv => NothingLost
  BY <1>1, <1>2 DEF NothingLost
<1> QED
  BY <1>3, Inductive, PTL

\* The images of every log are numbered from 1 on (full_frame.cpp:18-39).
THEOREM LogsAreNumbered == Spec => []LogsNumbered
BY Inductive, PTL DEF IInv, NumberInv

\* A four-up image shows the contours its target was found in, for any
\* pictures, configurations and streams, as long as the picture is the one the
\* device delivered and the configuration that of the start of the run
\* (four_up.cpp:25-27,53-56,73-81).
THEOREM ImagesExplain == Spec => []ImageExplainsTarget
<1>1. ASSUME IInv, setup.four_up, NEW i \in DOMAIN written,
             written[i].entry.config = start,
             written[i].entry.picture = written[i].entry.shot,
             NEW k \in DOMAIN written[i].entry.found
      PROVE  written[i].entry.found[k] \in written[i].contours
  <2>1. /\ Enabled(setup)
        /\ written[i].contours = MaskFrame(written[i].entry.picture, start)
    BY <1>1 DEF IInv, ContoursInv
  <2>2. i \in DOMAIN logged /\ logged[i] = written[i].entry
    <3>1. /\ Len(logged) \in Nat /\ DOMAIN logged = 1..Len(logged)
          /\ Len(written) \in Nat /\ DOMAIN written = 1..Len(written)
          /\ Len(queue) \in Nat
      BY <1>1, SequenceFacts DEF IInv, TypeOK
    <3>2. Len(logged) >= Len(written) + Len(queue) /\ written[i].entry = logged[i]
      BY <1>1, <2>1 DEF IInv, QueueInv
    <3> QED
      BY <3>1, <3>2
  <2>3. FoundIn(logged[i].found, logged[i].picture, logged[i].config)
    BY <1>1, <2>2 DEF IInv, FoundInv
  <2> QED
    BY <1>1, <2>1, <2>2, <2>3 DEF FoundIn
<1>2. IInv => ImageExplainsTarget
  BY <1>1 DEF ImageExplainsTarget
<1> QED
  BY <1>2, Inductive, PTL
==============================================================================
