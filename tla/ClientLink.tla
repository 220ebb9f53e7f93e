----------------------------- MODULE ClientLink -----------------------------
(***************************************************************************)
(* Target data on its way from the cameras to a robot program: the link    *)
(* of a pipeline run (link.cpp), the wire formats of the four kinds of     *)
(* target data (files named ..._target_data.cpp), UDP, and the Java client that receives *)
(* them (Link.java, Deadeye.java and the JSON adapters of its target data  *)
(* classes).                                                               *)
(*                                                                         *)
(* A datagram is the camera id followed by the JSON payload.  The client   *)
(* has one receiving thread and one buffer for all its cameras; the buffer *)
(* is modelled as the positions, in the order of arrival, of the payloads  *)
(* it holds.  JSON is modelled by the numbers of its "d" array, in the     *)
(* order in which they are written and read.                               *)
(***************************************************************************)
EXTENDS Integers, Sequences, Bags

CONSTANTS
  Cameras,        \* the cameras, by id
  Instances,      \* the Deadeye objects the robot program creates
  None,           \* null
  Setups,         \* what runs: see SetupsAssumption
  TargetSize,     \* bytes of one target of a list in JSON
  MaxSent         \* bound: datagrams sent

Kinds     == {"upright", "latency", "minarea", "list"}
Classes   == {"upright", "minarea", "list"}
Me        == "client"
Addresses == {Me, "other", "invalid", "garbled"} \* garbled: not JSON at all
Configs   == [address : Addresses, enabled : BOOLEAN]

\* A setup says which pipeline a camera runs and what it may find, how the
\* robot program names and reads its cameras, and what else is written into
\* the link entry.
ASSUME SetupsAssumption ==
  /\ None \notin Instances
  /\ \A s \in Setups :
       /\ s.kind \in [Cameras -> Kinds]
       /\ s.camera \in [Instances -> Cameras]
       /\ s.class \in [Instances -> Classes]
       /\ s.lower \subseteq Instances
       /\ s.edits \subseteq Configs
  /\ MaxSent \in Nat

VARIABLES
  setup,     \* the setup
  entry,     \* the link configuration in NetworkTables
  mine,      \* history: it is what this client made of it
  run,       \* camera -> its pipeline run: on, and the link it was given
  fresh,     \* history: the cameras turned on since the entry last changed
  sent,      \* datagrams sent
  net,       \* datagrams on their way to this client
  linked,    \* Deadeye.link has been created
  stage,     \* instance -> how far its constructor is
  cache,     \* Link.deadeyeCache: camera id -> instance
  thread,    \* the receiving thread
  buffer,    \* Link.buffer
  arrivals,  \* history: the datagrams received, in order
  strays,    \* history: how many of them nobody handled
  data,      \* instance -> Deadeye.targetData
  taken      \* history: instance -> the arrival its caller last got

daemon == <<entry, mine, run, fresh>>
client == <<linked, stage, cache>>
inbox  == <<buffer, arrivals, strays>>
vars   == <<setup, daemon, sent, net, client, thread, inbox, data, taken>>

------------------------------------------------------------------------------
(* Target data of a picture, on the wire: a rectangle [x, y, w, h], a      *)
(* rotated one, or a list of rectangles [rects].                           *)

Center(r) == << (r.x + r.x + r.w) \div 2, (r.y + r.y + r.h) \div 2 >>

DumpUpright(r) ==
  <<r.x, r.y, r.x + r.w, r.y + r.h, Center(r)[1], Center(r)[2]>>

\* LatencyTargetData adds its keys "l" and "ts" and leaves the array as it is.
DumpLatency(r) == DumpUpright(r)

\* (Mutant: width before height, as everywhere else.)
DumpMinArea_WidthFirst(r) ==
  <<r.angle, r.center[1], r.center[2], r.width, r.height,
    r.corners[1][1], r.corners[1][2], r.corners[2][1], r.corners[2][2],
    r.corners[3][1], r.corners[3][2], r.corners[4][1], r.corners[4][2]>>

\* RotatedRect: height before width, then the four corners.
DumpMinArea(r) ==
  <<r.angle, r.center[1], r.center[2], r.height, r.width,
    r.corners[1][1], r.corners[1][2], r.corners[2][1], r.corners[2][2],
    r.corners[3][1], r.corners[3][2], r.corners[4][1], r.corners[4][2]>>

MAX_SERIALIZED_SIZE == 1000

SerializedSize(targets) == TargetSize * Len(targets)

\* A list that is too long is replaced by an invalid one with an error target.
TooBig(targets) == SerializedSize(targets) > MAX_SERIALIZED_SIZE

DumpList(targets) ==
  IF TooBig(targets) THEN << <<-1, -1, -1, -1, -1>> >>
  ELSE [i \in DOMAIN targets |->
          LET t == targets[i] IN <<t.x, t.y, t.w, t.h, t.area>>]

Dump(kind, target) ==
  CASE kind = "upright" -> DumpUpright(target)
    [] kind = "latency" -> DumpLatency(target)
    [] kind = "minarea" -> DumpMinArea(target)
    [] kind = "list"    -> DumpList(target.rects)

------------------------------------------------------------------------------
(* The JSON adapters.  Any array they do not expect, by its length or the  *)
(* type of its elements, throws.                                           *)

Kind(p) == setup.kind[p.id]

\* The client receives into 512 bytes, two of which are the id.
Cut(p) ==
  /\ Kind(p) = "list" /\ ~TooBig(p.target.rects)
  /\ SerializedSize(p.target.rects) > 510

\* (Mutant: keys it does not know are not skipped.)
Readable_AllKeys(class, p) == ~Cut(p) /\ class = Kind(p)

Readable(class, p) ==
  ~Cut(p) /\ class = IF Kind(p) = "latency" THEN "upright" ELSE Kind(p)

ReadUpright(d) ==
  [topLeft |-> <<d[1], d[2]>>, bottomRight |-> <<d[3], d[4]>>,
   center |-> <<d[5], d[6]>>]

ReadMinArea(d) ==
  [angle |-> d[1], center |-> <<d[2], d[3]>>, width |-> d[5], height |-> d[4],
   corners |-> << <<d[6], d[7]>>, <<d[8], d[9]>>, <<d[10], d[11]>>,
                  <<d[12], d[13]>> >>]

ReadList(d) ==
  [i \in DOMAIN d |->
     [topLeft |-> <<d[i][1], d[i][2]>>,
      bottomRight |-> <<d[i][1] + d[i][3], d[i][2] + d[i][4]>>,
      area |-> d[i][5]]]

Read(class, p) ==
  LET d == Dump(Kind(p), p.target)
  IN  CASE class = "upright" -> ReadUpright(d)
        [] class = "minarea" -> ReadMinArea(d)
        [] class = "list"    -> ReadList(d)

------------------------------------------------------------------------------
(* The daemon.                                                             *)

Off == [on |-> FALSE, link |-> [address |-> "other", enabled |-> FALSE]]

\* Link::Init sets a default address, which may be this client's.
Init ==
  /\ setup \in Setups
  /\ entry \in [address : {Me, "other"}, enabled : {TRUE}] /\ mine = FALSE
  /\ run = [c \in Cameras |-> Off] /\ fresh = {}
  /\ sent = 0 /\ net = EmptyBag
  /\ linked = FALSE /\ stage = [i \in Instances |-> "none"]
  /\ cache = [c \in Cameras |-> None]
  /\ thread = "new" /\ buffer = <<>> /\ arrivals = <<>> /\ strays = 0
  /\ data = [i \in Instances |-> None] /\ taken = [i \in Instances |-> 0]

\* An operator, or another client, sets the link entry.
SetEntry(e) ==
  /\ entry # e
  /\ entry' = e /\ mine' = FALSE /\ fresh' = {}
  /\ UNCHANGED <<setup, run, sent, net, client, thread, inbox, data, taken>>

\* The constructor of Link, at the start of Runner::Run.  An entry that does
\* not parse makes it throw, and the run is over before its first frame.
StartRun(c) ==
  /\ ~run[c].on /\ entry.address # "garbled"
  /\ run' = [run EXCEPT ![c] = [on |-> TRUE, link |-> entry]]
  /\ fresh' = fresh \cup {c}
  /\ UNCHANGED <<setup, entry, mine, sent, net, client, thread, inbox, data,
                 taken>>

EndRun(c) ==
  /\ run[c].on
  /\ run' = [run EXCEPT ![c] = Off]
  /\ UNCHANGED <<setup, entry, mine, fresh, sent, net, client, thread, inbox,
                 data, taken>>

\* Link::Send: only what goes to this client is followed on.  A datagram that
\* is lost is one that is never received.
Send(c, target) ==
  /\ run[c].on /\ run[c].link.enabled /\ sent < MaxSent
  /\ sent' = sent + 1
  /\ net' = IF run[c].link.address # Me THEN net
            ELSE net (+) SetToBag({[id |-> c, target |-> target]})
  /\ UNCHANGED <<setup, daemon, client, thread, inbox, data, taken>>

------------------------------------------------------------------------------
(* The constructor of Deadeye.                                             *)

\* (Mutant: an address that is one is kept, whoever it belongs to.)
Adopted_Kept ==
  IF entry.address \in {"invalid", "garbled"}
    THEN [address |-> Me, enabled |-> TRUE] ELSE entry

\* The constructor of Link makes the entry its own: one that cannot be read,
\* or an address that is no address, makes it fall back to the default, which
\* is enabled.
Adopted ==
  [address |-> Me,
   enabled |-> entry.enabled \/ entry.address \in {"invalid", "garbled"}]

\* The constructor throws before it has registered anything: there is no
\* site-local address to make a link of, or the link that there is has another
\* address than the one supplied.
Refused(i) ==
  /\ stage[i] = "none"
  /\ stage' = [stage EXCEPT ![i] = "failed"]
  /\ UNCHANGED <<setup, daemon, sent, net, linked, cache, thread, inbox, data,
                 taken>>

\* The first instance creates the link.  It is registered under the id it
\* was given, and no datagram begins with a lower-case id.
Register(i) ==
  /\ stage[i] = "none"
  /\ stage' = [stage EXCEPT ![i] = "registered"]
  /\ linked' = TRUE
  /\ entry' = IF linked THEN entry ELSE Adopted
  /\ mine' = (mine \/ ~linked)
  /\ fresh' = IF entry' = entry THEN fresh ELSE {}
  /\ cache' = IF i \in setup.lower THEN cache
              ELSE [cache EXCEPT ![setup.camera[i]] = i]
  /\ UNCHANGED <<setup, run, sent, net, thread, inbox, data, taken>>

\* link.start(), unless it is alive; a thread that has ended cannot be
\* started again, and the constructor throws.
Start(i) ==
  /\ stage[i] = "registered"
  /\ stage' = [stage EXCEPT ![i] = IF thread = "dead" THEN "failed"
                                   ELSE "started"]
  /\ thread' = IF thread = "new" THEN "started" ELSE thread
  /\ UNCHANGED <<setup, daemon, sent, net, linked, cache, inbox, data, taken>>

\* The target data is made first and its adapter set last.
Finish(i) ==
  /\ stage[i] = "started"
  /\ stage' = [stage EXCEPT ![i] = "ready"]
  /\ data' = [data EXCEPT ![i] = [at |-> 0]]
  /\ UNCHANGED <<setup, daemon, sent, net, linked, cache, thread, inbox, taken>>

------------------------------------------------------------------------------
(* The receiving thread.                                                   *)

\* The socket is opened, or its port is in use and the thread ends.
Bind ==
  /\ thread = "started"
  /\ thread' \in {"running", "dead"}
  /\ UNCHANGED <<setup, daemon, sent, net, client, inbox, data, taken>>

Payload(m) ==
  [id |-> m.id, target |-> m.target, handler |-> cache[m.id],
   early |-> cache[m.id] # None /\ stage[cache[m.id]] # "ready"]

\* receive(): the payload is appended to the buffer before the handler of its
\* id is looked up.
Received(m) ==
  /\ thread = "running"
  /\ net' = net (-) SetToBag({m})
  /\ arrivals' = Append(arrivals, Payload(m))
  /\ UNCHANGED <<setup, daemon, sent, client, taken>>

Backlog == Append(buffer, Len(arrivals) + 1)

\* (Mutant: a payload that nobody handles is taken out again.)
Unrecognized_Dropped(m) ==
  /\ Received(m) /\ cache[m.id] = None
  /\ strays' = strays + 1
  /\ UNCHANGED <<buffer, thread, data>>

\* No handler: the payload stays in the buffer.
Unrecognized(m) ==
  /\ Received(m) /\ cache[m.id] = None
  /\ strays' = strays + 1
  /\ buffer' = Backlog
  /\ UNCHANGED <<thread, data>>

\* The handler's constructor has not set its adapter: the thread ends with a
\* NullPointerException.
NoAdapter(m) ==
  /\ Received(m) /\ cache[m.id] # None /\ stage[cache[m.id]] # "ready"
  /\ thread' = "dead" /\ buffer' = Backlog
  /\ UNCHANGED <<strays, data>>

\* (Mutant: what is decoded is what arrived, and it stays in the buffer.)
Handle_NotConsumed(m) ==
  LET i == cache[m.id] IN
  /\ Received(m) /\ i # None /\ stage[i] = "ready"
  /\ LET head == arrivals'[Head(Backlog)] IN
       /\ Readable(setup.class[i], head)
       /\ data' = [data EXCEPT ![i] =
                     [at |-> Head(Backlog),
                      value |-> Read(setup.class[i], head)]]
  /\ buffer' = Backlog
  /\ UNCHANGED <<thread, strays>>

\* handleTargetData: the payload at the head of the buffer is decoded.
Handle(m) ==
  LET i == cache[m.id] IN
  /\ Received(m) /\ i # None /\ stage[i] = "ready"
  /\ LET head == arrivals'[Head(Backlog)] IN
       /\ Readable(setup.class[i], head)
       /\ data' = [data EXCEPT ![i] =
                     [at |-> Head(Backlog),
                      value |-> Read(setup.class[i], head)]]
  /\ buffer' = Tail(Backlog)
  /\ UNCHANGED <<thread, strays>>

\* A payload that was cut off ends the thread with an IOException, one of
\* another kind with a JsonDataException.
Undecodable(m) ==
  LET i == cache[m.id] IN
  /\ Received(m) /\ i # None /\ stage[i] = "ready"
  /\ ~Readable(setup.class[i], arrivals'[Head(Backlog)])
  /\ thread' = "dead" /\ buffer' = Backlog
  /\ UNCHANGED <<strays, data>>

\* getTargetData: getAndSet(null).  The first call returns the object the
\* constructor made.
GetTargetData(i) ==
  /\ stage[i] = "ready" /\ data[i] # None
  /\ taken' = [taken EXCEPT ![i] = data[i].at]
  /\ data' = [data EXCEPT ![i] = None]
  /\ UNCHANGED <<setup, daemon, sent, net, client, thread, inbox>>

------------------------------------------------------------------------------
Daemon ==
  \/ \E e \in setup.edits : SetEntry(e)
  \/ \E c \in Cameras :
       \/ StartRun(c) \/ EndRun(c)
       \/ \E t \in setup.targets[c] : Send(c, t)

Constructor(i) == Refused(i) \/ Register(i) \/ Start(i) \/ Finish(i)

Receiver ==
  \/ Bind
  \/ \E m \in BagToSet(net) : Unrecognized(m) \/ NoAdapter(m) \/ Handle(m) \/ Undecodable(m)

Next ==
  \/ Daemon \/ Receiver
  \/ \E i \in Instances : Constructor(i) \/ GetTargetData(i)

Spec == Init /\ [][Next]_vars

------------------------------------------------------------------------------
(* Safety.                                                                 *)

Stages == {"none", "registered", "started", "ready", "failed"}

Targets  == UNION {s.targets[c] : s \in Setups, c \in Cameras}
Payloads == [id : Cameras, target : Targets, handler : Instances \cup {None},
             early : BOOLEAN]

\* Every variable keeps the range the code gives it.
TypeOK ==
  /\ setup \in Setups
  /\ entry \in Configs /\ mine \in BOOLEAN
  /\ run \in [Cameras -> [on : BOOLEAN, link : Configs]]
  /\ fresh \subseteq Cameras /\ sent \in Nat
  /\ \A m \in DOMAIN net : m \in [id : Cameras, target : Targets]
  /\ linked \in BOOLEAN /\ stage \in [Instances -> Stages]
  /\ cache \in [Cameras -> Instances \cup {None}]
  /\ thread \in {"new", "started", "running", "dead"}
  /\ buffer \in Seq(Nat) /\ arrivals \in Seq(Payloads)
  /\ strays \in 0..Len(arrivals)
  /\ \A i \in Instances : taken[i] \in 0..(Len(arrivals) - strays)

\* An instance holds nothing before its constructor is done, and then the
\* object the constructor made or a payload as old as there were strays.
DataInv ==
  /\ DOMAIN data = Instances
  /\ \A i \in Instances :
       data[i] # None =>
         /\ stage[i] = "ready"
         /\ data[i].at \in 0..(Len(arrivals) - strays)
         /\ data[i].at # 0 => Readable(setup.class[i], arrivals[data[i].at])

\* A camera's handler is an instance for this camera, before the thread has
\* opened its socket nothing has arrived, and no constructor gets beyond
\* start() without a thread.
ClientInv ==
  /\ \A c \in Cameras : cache[c] # None => setup.camera[cache[c]] = c
  /\ thread \in {"new", "started"} => arrivals = <<>> /\ buffer = <<>>
  /\ thread = "new" =>
       \A i \in Instances : stage[i] \in {"none", "registered", "failed"}

\* The buffer holds exactly the last datagrams received, one for each that
\* nobody handled: every stray datagram delays all cameras by one, for good
\* (Link.java:66-75).
LagIsStrays ==
  thread = "running" =>
    buffer = [k \in 1..strays |-> Len(arrivals) - strays + k]

\* As long as every datagram found a handler, an instance holds that datagram
\* of its own camera which arrived last; if one was overtaken on its way, that
\* is not the one sent last: serial numbers are not compared (Link.java:72-81,
\* Deadeye.java:239-243).
OwnLatest ==
  thread = "running" /\ strays = 0 =>
    \A i \in Instances :
      data[i] # None /\ data[i].at # 0 =>
        /\ arrivals[data[i].at].handler = i
        /\ arrivals[data[i].at].id = setup.camera[i]
        /\ \A k \in DOMAIN arrivals : arrivals[k].handler = i => k <= data[i].at

\* getTargetData never returns the same target data twice, and never older
\* data after newer, strays or not (Deadeye.java:239-258).
NeverTwice ==
  \A i \in Instances :
    data[i] # None /\ data[i].at # 0 => data[i].at > taken[i]

\* What an adapter reads is what the pipeline found: the order of the numbers
\* on the wire is the same on both sides, and a list that is too long for a
\* datagram is read as an error (min_area_target_data.cpp:34-57,
\* target_list_target_data.cpp:34-51, MinAreaRectTargetData.java:149-209).
Meaning(p) ==
  LET t == p.target
  IN  CASE Kind(p) \in {"upright", "latency"} ->
             [topLeft |-> <<t.x, t.y>>, bottomRight |-> <<t.x + t.w, t.y + t.h>>,
              center |-> <<Center(t)[1], Center(t)[2]>>]
        [] Kind(p) = "minarea" ->
             [angle |-> t.angle, center |-> <<t.center[1], t.center[2]>>,
              width |-> t.width, height |-> t.height,
              corners |-> << <<t.corners[1][1], t.corners[1][2]>>,
                             <<t.corners[2][1], t.corners[2][2]>>,
                             <<t.corners[3][1], t.corners[3][2]>>,
                             <<t.corners[4][1], t.corners[4][2]>> >>]
        [] Kind(p) = "list" ->
             IF TooBig(t.rects)
               THEN <<[topLeft |-> <<-1, -1>>, bottomRight |-> <<-2, -2>>,
                       area |-> -1]>>
               ELSE [k \in DOMAIN t.rects |->
                       LET r == t.rects[k]
                       IN  [topLeft |-> <<r.x, r.y>>,
                            bottomRight |-> <<r.x + r.w, r.y + r.h>>,
                            area |-> r.area]]

FieldsAgree ==
  \A i \in Instances :
    data[i] # None /\ data[i].at # 0 =>
      data[i].value = Meaning(arrivals[data[i].at])

\* What ends the receiving thread, while receive() itself fails for no
\* datagram: a port in use, a datagram that came before the constructor of its
\* handler was done, or, at the head of the buffer, as many datagrams back as
\* there were strays, a payload that was cut off or is of a kind the instance
\* does not read (Link.java:67-87).
Suits(class, kind) == class = IF kind = "latency" THEN "upright" ELSE kind

DeathHasCause ==
  thread = "dead" =>
    \/ arrivals = <<>>
    \/ LET last == arrivals[Len(arrivals)]
           head == arrivals[Len(arrivals) - strays]
       IN  last.early \/ Cut(head) \/ ~Suits(setup.class[last.handler], Kind(head))

\* Once the client has made the link entry its own, and while nobody else
\* changes it, every camera turned on from then on has a link to this client
\* that sends, if the entry is enabled: a disabled one whose address is well
\* formed is left disabled.
\* A camera that was on before does not, until it is turned on again
\* (link.cpp:22-38,53-61, Link.java:34-61, LinkConfig.java:34-62).
LinkReaches ==
  mine /\ entry.enabled =>
    \A c \in fresh : run[c].on => run[c].link = [address |-> Me, enabled |-> TRUE]

\* What the client made of the entry has its address, and a camera turned on
\* since the entry last changed has the entry as it is, whosever it is.
EntryInv ==
  /\ mine => linked /\ entry.address = Me
  /\ \A c \in fresh : run[c].on => run[c].link = entry

\* The invariant the proofs are by induction on.
IInv ==
  /\ TypeOK /\ DataInv /\ ClientInv /\ EntryInv /\ LinkReaches
  /\ LagIsStrays /\ OwnLatest /\ NeverTwice /\ FieldsAgree /\ DeathHasCause
==============================================================================
