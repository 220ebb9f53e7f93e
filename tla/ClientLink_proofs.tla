--------------------------- MODULE ClientLink_proofs ---------------------------
(***************************************************************************)
(* Proofs about ClientLink, for any cameras, any Deadeye objects and any   *)
(* number of datagrams, lost, reordered or stray.                          *)
(***************************************************************************)
EXTENDS ClientLink, TLAPS, SequenceTheorems

USE DEF vars, daemon, client, inbox

------------------------------------------------------------------------------
(* The buffer.                                                             *)

LEMMA AppendFacts ==
  ASSUME NEW S, NEW s \in Seq(S), NEW e \in S
  PROVE  /\ Append(s, e) \in Seq(S) /\ Len(s) \in Nat
         /\ Len(Append(s, e)) = Len(s) + 1
         /\ DOMAIN s = 1..Len(s) /\ DOMAIN Append(s, e) = 1..(Len(s) + 1)
         /\ \A i \in 1..Len(s) : Append(s, e)[i] = s[i]
         /\ Append(s, e)[Len(s) + 1] = e
<1>1. Append(s, e) \in Seq(S)
  BY AppendProperties
<1> QED
  BY <1>1, AppendProperties, LenProperties

\* A run of consecutive numbers from a + 1 on.
Run(a, n) == [k \in 1..n |-> a + k]

LEMMA RunFacts ==
  ASSUME NEW a \in Nat, NEW n \in Nat
  PROVE  /\ Run(a, n) \in Seq(Nat) /\ Len(Run(a, n)) = n
         /\ Append(Run(a, n), a + n + 1) = Run(a, n + 1)
         /\ Head(Run(a, n + 1)) = a + 1
         /\ Tail(Run(a, n + 1)) = Run(a + 1, n)
<1>1. ASSUME NEW b \in Nat, NEW m \in Nat
      PROVE  /\ Run(b, m) \in Seq(Nat) /\ Len(Run(b, m)) = m
             /\ \A i \in 1..m : Run(b, m)[i] = b + i
  BY DEF Run
<1>2. /\ Run(a, n) \in Seq(Nat) /\ Len(Run(a, n)) = n
      /\ \A i \in 1..n : Run(a, n)[i] = a + i
  BY <1>1
<1>3. /\ Run(a, n + 1) \in Seq(Nat) /\ Len(Run(a, n + 1)) = n + 1
      /\ \A i \in 1..(n + 1) : Run(a, n + 1)[i] = a + i
  BY <1>1
<1>4. /\ Run(a + 1, n) \in Seq(Nat) /\ Len(Run(a + 1, n)) = n
      /\ \A i \in 1..n : Run(a + 1, n)[i] = a + 1 + i
  BY <1>1
<1>5. Append(Run(a, n), a + n + 1) = Run(a, n + 1)
  <2> DEFINE s == Append(Run(a, n), a + n + 1)
  <2>1. /\ s \in Seq(Nat) /\ Len(s) = n + 1
        /\ \A i \in 1..n : s[i] = a + i
        /\ s[n + 1] = a + n + 1
    BY <1>2, AppendFacts
  <2>2. \A i \in 1..(n + 1) : s[i] = Run(a, n + 1)[i]
    BY <1>3, <2>1
  <2> HIDE DEF s
  <2>3. s = Run(a, n + 1)
    BY <1>3, <2>1, <2>2, SeqEqual
  <2> QED
    BY <2>3 DEF s
<1>6. Run(a, n + 1) # <<>> /\ Run(a, n + 1)[1] = a + 1
  BY <1>3, EmptySeq
<1>7. Tail(Run(a, n + 1)) = Run(a + 1, n)
  <2> DEFINE s == Tail(Run(a, n + 1))
  <2>1. /\ s \in Seq(Nat) /\ Len(s) = n
        /\ \A i \in 1..n : s[i] = Run(a, n + 1)[i + 1]
    BY <1>3, <1>6, HeadTailProperties
  <2>2. \A i \in 1..n : s[i] = Run(a + 1, n)[i]
    BY <1>3, <1>4, <2>1
  <2> HIDE DEF s
  <2>3. s = Run(a + 1, n)
    BY <1>4, <2>1, <2>2, SeqEqual
  <2> QED
    BY <2>3 DEF s
<1>8. Head(Run(a, n + 1)) = Run(a, n + 1)[1]
  OBVIOUS
<1> QED
  BY <1>2, <1>5, <1>6, <1>7, <1>8

\* While the thread runs, the next payload to be decoded is as many places
\* behind as there were strays.
LEMMA BacklogFacts ==
  ASSUME TypeOK, LagIsStrays, thread = "running"
  PROVE  /\ Backlog = Run(Len(arrivals) - strays, strays + 1)
         /\ Head(Backlog) = Len(arrivals) + 1 - strays
         /\ Tail(Backlog) = Run(Len(arrivals) + 1 - strays, strays)
         /\ Len(arrivals) \in Nat /\ strays \in 0..Len(arrivals)
<1>1. Len(arrivals) \in Nat /\ strays \in Nat /\ Len(arrivals) - strays \in Nat
      /\ strays \in 0..Len(arrivals)
  BY LenProperties DEF TypeOK
<1>2. buffer = Run(Len(arrivals) - strays, strays)
  BY DEF LagIsStrays, Run
<1>3. Backlog = Append(Run(Len(arrivals) - strays, strays),
                       (Len(arrivals) - strays) + strays + 1)
  BY <1>1, <1>2 DEF Backlog
<1> DEFINE a == Len(arrivals) - strays
<1>4. a \in Nat /\ strays \in Nat /\ a + 1 = Len(arrivals) + 1 - strays
  BY <1>1
<1>5. Backlog = Append(Run(a, strays), a + strays + 1)
  BY <1>3
<1> HIDE DEF a
<1>6. /\ Backlog = Run(a, strays + 1) /\ Head(Backlog) = a + 1
      /\ Tail(Backlog) = Run(a + 1, strays)
  BY <1>4, <1>5, RunFacts
<1> QED
  BY <1>1, <1>4, <1>6 DEF a

------------------------------------------------------------------------------
(* The steps.                                                              *)

\* What the receiving thread does with a datagram.
Receives(m) == Unrecognized(m) \/ NoAdapter(m) \/ Handle(m) \/ Undecodable(m)

LEMMA StepCases ==
  ASSUME [Next]_vars
  PROVE  \/ UNCHANGED vars \/ Daemon \/ Bind
         \/ \E i \in Instances : Constructor(i) \/ GetTargetData(i)
         \/ \E m \in DOMAIN net : Receives(m)
BY DEF Next, Receiver, Receives, BagToSet

LEMMA BagFacts ==
  ASSUME NEW m
  PROVE  /\ DOMAIN (net (+) SetToBag({m})) = DOMAIN net \cup {m}
         /\ DOMAIN (net (-) SetToBag({m})) \subseteq DOMAIN net
BY DEF (+), (-), SetToBag

\* A datagram that arrives is appended to the arrivals.
LEMMA Arrival ==
  ASSUME TypeOK, NEW m \in DOMAIN net, Received(m)
  PROVE  /\ m.id \in Cameras /\ Payload(m) \in Payloads
         /\ arrivals' \in Seq(Payloads) /\ Len(arrivals) \in Nat
         /\ Len(arrivals') = Len(arrivals) + 1
         /\ DOMAIN arrivals = 1..Len(arrivals)
         /\ DOMAIN arrivals' = 1..(Len(arrivals) + 1)
         /\ \A k \in 1..Len(arrivals) : arrivals'[k] = arrivals[k]
         /\ arrivals'[Len(arrivals) + 1] = Payload(m)
         /\ \A n \in DOMAIN net' : n \in [id : Cameras, target : Targets]
<1>1. m \in [id : Cameras, target : Targets]
  BY DEF TypeOK
<1>2. Payload(m) \in Payloads
  <2>1. cache[m.id] \in Instances \cup {None}
    BY <1>1 DEF TypeOK
  <2>2. (cache[m.id] # None /\ stage[cache[m.id]] # "ready") \in BOOLEAN
    OBVIOUS
  <2> QED
    BY <1>1, <2>1, <2>2 DEF Payload, Payloads
<1>3. arrivals' = Append(arrivals, Payload(m)) /\ arrivals \in Seq(Payloads)
  BY DEF Received, TypeOK
<1>4. \A n \in DOMAIN net' : n \in [id : Cameras, target : Targets]
  BY BagFacts DEF Received, TypeOK
<1> QED
  BY <1>1, <1>2, <1>3, <1>4, AppendFacts

\* What a handler makes of it: it decodes the payload that is as far behind
\* as there were strays.
LEMMA Decoding ==
  ASSUME TypeOK, LagIsStrays, NEW m \in DOMAIN net, Handle(m)
  PROVE  LET i == cache[m.id]
             h == Len(arrivals) + 1 - strays
         IN  /\ i \in Instances /\ stage[i] = "ready" /\ h \in 1..(Len(arrivals) + 1)
             /\ Readable(setup.class[i], arrivals'[h])
             /\ data' = [data EXCEPT ![i] =
                           [at |-> h, value |-> Read(setup.class[i], arrivals'[h])]]
             /\ buffer' = Run(h, strays) /\ strays' = strays
             /\ thread = "running" /\ thread' = "running"
<1>1. thread = "running" /\ Received(m) /\ cache[m.id] # None
  BY DEF Handle, Received
<1>2. cache[m.id] \in Instances
  BY <1>1, Arrival DEF TypeOK
<1>3. /\ Head(Backlog) = Len(arrivals) + 1 - strays
      /\ Tail(Backlog) = Run(Len(arrivals) + 1 - strays, strays)
      /\ Len(arrivals) \in Nat /\ strays \in 0..Len(arrivals)
  BY <1>1, BacklogFacts
<1>4. Len(arrivals) + 1 - strays \in 1..(Len(arrivals) + 1)
  BY <1>3
<1> QED
  BY <1>1, <1>2, <1>3, <1>4 DEF Handle

\* The datagrams that are not decoded.
LEMMA Undecoded ==
  ASSUME TypeOK, LagIsStrays, NEW m \in DOMAIN net, Receives(m), ~Handle(m)
  PROVE  /\ data' = data /\ buffer' = Run(Len(arrivals) - strays, strays + 1)
         /\ \/ strays' = strays + 1 /\ thread' = thread /\ cache[m.id] = None
            \/ strays' = strays /\ thread' = "dead" /\ cache[m.id] # None
<1>1. thread = "running"
  BY DEF Receives, Unrecognized, NoAdapter, Undecodable, Received
<1>2. Backlog = Run(Len(arrivals) - strays, strays + 1)
  BY <1>1, BacklogFacts
<1> QED
  BY <1>1, <1>2 DEF Receives, Unrecognized, NoAdapter, Undecodable

LEMMA ReceivesFacts ==
  ASSUME NEW m, Receives(m)
  PROVE  /\ Received(m) /\ thread = "running"
         /\ UNCHANGED <<setup, entry, mine, run, fresh, sent, linked, stage, cache,
                        taken>>
BY DEF Receives, Unrecognized, NoAdapter, Handle, Undecodable, Received

LEMMA TypeInit == Init => TypeOK
<1> SUFFICES ASSUME Init PROVE TypeOK
  OBVIOUS
<1>1. run \in [Cameras -> [on : BOOLEAN, link : Configs]] /\ entry \in Configs
  BY DEF Init, Off, Configs, Addresses, Me
<1>2. DOMAIN net = {}
  BY DEF Init, EmptyBag, SetToBag
<1>3. /\ buffer \in Seq(Nat) /\ arrivals \in Seq(Payloads) /\ Len(arrivals) = 0
  BY EmptySeq DEF Init
<1>4. stage \in [Instances -> Stages] /\ cache \in [Cameras -> Instances \cup {None}]
  BY DEF Init, Stages
<1>5. strays \in 0..Len(arrivals) /\ \A i \in Instances : taken[i] \in 0..(Len(arrivals) - strays)
  BY <1>3 DEF Init
<1>6. /\ setup \in Setups /\ mine \in BOOLEAN /\ fresh \subseteq Cameras
      /\ sent \in Nat /\ linked \in BOOLEAN
      /\ thread \in {"new", "started", "running", "dead"}
  BY DEF Init
<1> QED
  BY <1>1, <1>2, <1>3, <1>4, <1>5, <1>6 DEF TypeOK

LEMMA TypeStep ==
  ASSUME TypeOK, DataInv, LagIsStrays, [Next]_vars
  PROVE  TypeOK'
<1>1. CASE UNCHANGED vars
  BY <1>1 DEF TypeOK
<1>2. CASE Daemon
  <2>1. ASSUME NEW e \in setup.edits, SetEntry(e) PROVE TypeOK'
    BY <2>1, SetupsAssumption DEF TypeOK, SetEntry
  <2>2. ASSUME NEW c \in Cameras, StartRun(c) PROVE TypeOK'
    BY <2>2 DEF TypeOK, StartRun
  <2>3. ASSUME NEW c \in Cameras, EndRun(c) PROVE TypeOK'
    BY <2>3 DEF TypeOK, EndRun, Off, Configs, Addresses
  <2>4. ASSUME NEW c \in Cameras, NEW t \in setup.targets[c], Send(c, t)
        PROVE  TypeOK'
    <3>1. [id |-> c, target |-> t] \in [id : Cameras, target : Targets]
      BY DEF TypeOK, Targets
    <3>2. \A m \in DOMAIN net' : m \in [id : Cameras, target : Targets]
      <4>1. \/ net' = net
            \/ net' = net (+) SetToBag({[id |-> c, target |-> t]})
        BY <2>4 DEF Send
      <4>2. DOMAIN net' \subseteq DOMAIN net \cup {[id |-> c, target |-> t]}
        BY <4>1, BagFacts
      <4> QED
        BY <3>1, <4>2 DEF TypeOK
    <3>3. sent' \in Nat
      BY <2>4 DEF TypeOK, Send
    <3>4. UNCHANGED <<setup, daemon, client, thread, inbox, data, taken>>
      BY <2>4 DEF Send
    <3> QED
      BY <3>2, <3>3, <3>4 DEF TypeOK
  <2> QED
    BY <1>2, <2>1, <2>2, <2>3, <2>4 DEF Daemon
<1>3. CASE Bind
  BY <1>3 DEF TypeOK, Bind
<1>4. ASSUME NEW i \in Instances, Register(i) PROVE TypeOK'
  <2>1. entry' \in Configs
    BY <1>4 DEF TypeOK, Register, Adopted, Configs, Addresses
  <2>2. mine' \in BOOLEAN /\ fresh' \subseteq Cameras
    BY <1>4 DEF TypeOK, Register
  <2>3. cache' \in [Cameras -> Instances \cup {None}]
    BY <1>4, SetupsAssumption DEF TypeOK, Register
  <2> QED
    BY <1>4, <2>1, <2>2, <2>3 DEF TypeOK, Register, Stages
<1>5. ASSUME NEW i \in Instances, Refused(i) \/ Start(i) \/ Finish(i)
      PROVE  TypeOK'
  BY <1>5 DEF TypeOK, Start, Finish, Refused, Stages
<1>6. ASSUME NEW i \in Instances, GetTargetData(i) PROVE TypeOK'
  BY <1>6 DEF TypeOK, GetTargetData, DataInv
<1>7. ASSUME NEW m \in DOMAIN net, Receives(m) PROVE TypeOK'
  <2>1. /\ Received(m) /\ thread = "running"
        /\ UNCHANGED <<setup, entry, mine, run, fresh, sent, linked, stage, cache,
                       taken>>
    BY <1>7, ReceivesFacts
  <2>2. /\ arrivals' \in Seq(Payloads) /\ Len(arrivals') = Len(arrivals) + 1
        /\ Len(arrivals) \in Nat
        /\ \A n \in DOMAIN net' : n \in [id : Cameras, target : Targets]
    BY <2>1, Arrival
  <2>3. /\ buffer' \in Seq(Nat) /\ strays' \in {strays, strays + 1}
        /\ thread' \in {"running", "dead"}
    <3>1. strays \in Nat /\ Len(arrivals) - strays \in Nat
          /\ strays + 1 \in Nat /\ Len(arrivals) + 1 - strays \in Nat
      BY <2>2 DEF TypeOK
    <3>2. CASE Handle(m)
      BY <3>1, <3>2, Decoding, RunFacts, ZenonT(40)
    <3>3. CASE ~Handle(m)
      BY <1>7, <2>1, <3>1, <3>3, Undecoded, RunFacts
    <3> QED
      BY <3>2, <3>3
  <2>4. strays' \in 0..Len(arrivals')
    BY <2>2, <2>3 DEF TypeOK
  <2>5. \A i \in Instances : taken'[i] \in 0..(Len(arrivals') - strays')
    BY <2>1, <2>2, <2>3 DEF TypeOK
  <2> QED
    BY <2>1, <2>2, <2>3, <2>4, <2>5 DEF TypeOK
<1> QED
  BY <1>1, <1>2, <1>3, <1>4, <1>5, <1>6, <1>7, StepCases DEF Constructor

------------------------------------------------------------------------------
(* The link entry.                                                         *)

LEMMA LinkStep ==
  ASSUME TypeOK, EntryInv, [Next]_vars
  PROVE  EntryInv'
<1> USE DEF EntryInv
<1>1. CASE UNCHANGED vars
  BY <1>1
<1>2. CASE Daemon
  <2>1. ASSUME NEW e \in setup.edits, SetEntry(e) PROVE EntryInv'
    BY <2>1 DEF SetEntry
  <2>2. ASSUME NEW c \in Cameras, StartRun(c) PROVE EntryInv'
    BY <2>2 DEF TypeOK, StartRun
  <2>3. ASSUME NEW c \in Cameras, EndRun(c) PROVE EntryInv'
    BY <2>3 DEF TypeOK, EndRun, Off
  <2>4. ASSUME NEW c \in Cameras, NEW t \in setup.targets[c], Send(c, t)
        PROVE  EntryInv'
    BY <2>4 DEF Send
  <2> QED
    BY <1>2, <2>1, <2>2, <2>3, <2>4 DEF Daemon
<1>3. CASE Bind
  BY <1>3 DEF Bind
<1>4. ASSUME NEW i \in Instances, Register(i) PROVE EntryInv'
  <2>1. linked' /\ run' = run
    BY <1>4 DEF Register
  <2>2. (entry' = entry /\ fresh' = fresh) \/ fresh' = {}
    BY <1>4 DEF Register
  <2>3. mine' => entry'.address = Me
    BY <1>4 DEF TypeOK, Register, Adopted
  <2> QED
    BY <2>1, <2>2, <2>3
<1>5. ASSUME NEW i \in Instances,
             Refused(i) \/ Start(i) \/ Finish(i) \/ GetTargetData(i)
      PROVE  EntryInv'
  BY <1>5 DEF Refused, Start, Finish, GetTargetData
<1>6. ASSUME NEW m \in DOMAIN net, Receives(m) PROVE EntryInv'
  BY <1>6, ReceivesFacts
<1> QED
  BY <1>1, <1>2, <1>3, <1>4, <1>5, <1>6, StepCases DEF Constructor

\* An enabled entry with this client's address is all there is to send by.
LEMMA EntryReaches ==
  ASSUME TypeOK, EntryInv
  PROVE  LinkReaches
<1>1. ASSUME mine, entry.enabled
      PROVE  entry = [address |-> Me, enabled |-> TRUE]
  BY <1>1 DEF TypeOK, EntryInv, Configs
<1> QED
  BY <1>1 DEF EntryInv, LinkReaches

------------------------------------------------------------------------------
(* Handlers and the buffer.                                                *)

LEMMA ClientStep ==
  ASSUME TypeOK, ClientInv, [Next]_vars
  PROVE  ClientInv'
<1> USE DEF ClientInv
<1>1. CASE UNCHANGED vars
  BY <1>1
<1>2. CASE Daemon
  BY <1>2 DEF Daemon, SetEntry, StartRun, EndRun, Send
<1>3. CASE Bind
  BY <1>3 DEF Bind
<1>4. ASSUME NEW i \in Instances, Register(i) PROVE ClientInv'
  <2>1. \A c \in Cameras : cache'[c] # None => setup'.camera[cache'[c]] = c
    BY <1>4 DEF TypeOK, Register
  <2>2. thread' = "new" => \A j \in Instances : stage'[j] \in {"none", "registered", "failed"}
    BY <1>4 DEF TypeOK, Register
  <2> QED
    BY <1>4, <2>1, <2>2 DEF Register
<1>5. ASSUME NEW i \in Instances, Refused(i) \/ Start(i) PROVE ClientInv'
  BY <1>5 DEF TypeOK, Refused, Start
<1>6. ASSUME NEW i \in Instances, Finish(i) PROVE ClientInv'
  BY <1>6 DEF TypeOK, Finish
<1>7. ASSUME NEW i \in Instances, GetTargetData(i) PROVE ClientInv'
  BY <1>7 DEF GetTargetData
<1>8. ASSUME NEW m \in DOMAIN net, Receives(m) PROVE ClientInv'
  <2>1. thread' \in {"running", "dead"} /\ thread = "running"
    BY <1>8 DEF Receives, Unrecognized, NoAdapter, Handle, Undecodable, Received
  <2> QED
    BY <1>8, <2>1, ReceivesFacts
<1> QED
  BY <1>1, <1>2, <1>3, <1>4, <1>5, <1>6, <1>7, <1>8, StepCases DEF Constructor

LEMMA LagStep ==
  ASSUME TypeOK, ClientInv, LagIsStrays, [Next]_vars
  PROVE  LagIsStrays'
<1>1. CASE UNCHANGED vars
  BY <1>1 DEF LagIsStrays
<1>2. CASE Daemon
  BY <1>2 DEF LagIsStrays, Daemon, SetEntry, StartRun, EndRun, Send
<1>3. CASE Bind
  <2>1. buffer' = <<>> /\ arrivals' = <<>> /\ strays' = strays
    BY <1>3 DEF Bind, ClientInv
  <2>2. Len(arrivals) = 0 /\ strays = 0
    BY <1>3 DEF Bind, ClientInv, TypeOK
  <2> QED
    BY <2>1, <2>2 DEF LagIsStrays
<1>4. ASSUME NEW i \in Instances, Constructor(i) \/ GetTargetData(i)
      PROVE  LagIsStrays'
  <2>1. UNCHANGED inbox /\ (thread' = "running" => thread = "running")
    BY <1>4 DEF Constructor, Refused, Register, Start, Finish, GetTargetData
  <2> QED
    BY <2>1 DEF LagIsStrays
<1>5. ASSUME NEW m \in DOMAIN net, Receives(m), thread' = "running"
      PROVE  buffer' = Run(Len(arrivals') - strays', strays')
  <2>1. Len(arrivals') = Len(arrivals) + 1 /\ Len(arrivals) \in Nat
    BY <1>5, ReceivesFacts, Arrival
  <2>2. CASE Handle(m)
    <3>1. buffer' = Run(Len(arrivals) + 1 - strays, strays) /\ strays' = strays
      BY <2>2, Decoding
    <3>2. Len(arrivals') - strays' = Len(arrivals) + 1 - strays
      BY <2>1, <3>1 DEF TypeOK
    <3> QED
      BY <3>1, <3>2
  <2>3. CASE ~Handle(m)
    <3>1. /\ buffer' = Run(Len(arrivals) - strays, strays + 1)
          /\ strays' = strays + 1
      BY <1>5, <2>3, Undecoded
    <3>2. Len(arrivals') - strays' = Len(arrivals) - strays
      BY <2>1, <3>1 DEF TypeOK
    <3> QED
      BY <3>1, <3>2
  <2> QED
    BY <2>2, <2>3
<1> QED
  BY <1>1, <1>2, <1>3, <1>4, <1>5, StepCases DEF LagIsStrays, Run

------------------------------------------------------------------------------
(* What an instance holds.                                                 *)

\* An adapter reads what the pipeline found.
LEMMA ReadsMeaning ==
  ASSUME NEW class, NEW p, Kind(p) \in Kinds, Readable(class, p)
  PROVE  Read(class, p) = Meaning(p)
<1> DEFINE t == p.target
<1>1. CASE Kind(p) \in {"upright", "latency"}
  <2>1. class = "upright"
    BY <1>1 DEF Readable
  <2>2. Dump(Kind(p), t) = DumpUpright(t)
    BY <1>1 DEF Dump, DumpLatency
  <2>3. Read(class, p) = ReadUpright(DumpUpright(t))
    BY <2>1, <2>2 DEF Read
  <2> QED
    BY <1>1, <2>3 DEF ReadUpright, DumpUpright, Meaning
<1>2. CASE Kind(p) = "minarea"
  <2>1. class = "minarea"
    BY <1>2 DEF Readable
  <2>2. Dump(Kind(p), t) = DumpMinArea(t)
    BY <1>2 DEF Dump
  <2>3. Read(class, p) = ReadMinArea(DumpMinArea(t))
    BY <2>1, <2>2 DEF Read
  <2> QED
    BY <1>2, <2>3 DEF ReadMinArea, DumpMinArea, Meaning
<1>3. CASE Kind(p) = "list"
  <2>1. class = "list"
    BY <1>3 DEF Readable
  <2>2. Dump(Kind(p), t) = DumpList(t.rects)
    BY <1>3 DEF Dump
  <2>3. Read(class, p) = ReadList(DumpList(t.rects))
    BY <2>1, <2>2 DEF Read
  <2>4. CASE TooBig(t.rects)
    <3>1. DumpList(t.rects) = << <<-1, -1, -1, -1, -1>> >>
      BY <2>4 DEF DumpList
    <3>2. ReadList(<< <<-1, -1, -1, -1, -1>> >>) =
            <<[topLeft |-> <<-1, -1>>, bottomRight |-> <<-2, -2>>, area |-> -1]>>
      BY DEF ReadList
    <3> QED
      BY <1>3, <2>3, <2>4, <3>1, <3>2 DEF Meaning
  <2>5. CASE ~TooBig(t.rects)
    <3>1. DumpList(t.rects) =
            [k \in DOMAIN t.rects |->
               <<t.rects[k].x, t.rects[k].y, t.rects[k].w, t.rects[k].h,
                 t.rects[k].area>>]
      BY <2>5 DEF DumpList
    <3> DEFINE d == DumpList(t.rects)
    <3>2. /\ DOMAIN d = DOMAIN t.rects
          /\ \A k \in DOMAIN d :
               /\ d[k][1] = t.rects[k].x /\ d[k][2] = t.rects[k].y
               /\ d[k][3] = t.rects[k].w /\ d[k][4] = t.rects[k].h
               /\ d[k][5] = t.rects[k].area
      <4>1. DOMAIN d = DOMAIN t.rects
        BY <3>1
      <4>2. ASSUME NEW k \in DOMAIN t.rects
            PROVE  d[k] = <<t.rects[k].x, t.rects[k].y, t.rects[k].w, t.rects[k].h,
                            t.rects[k].area>>
        BY <3>1
      <4> HIDE DEF d
      <4> QED
        BY <4>1, <4>2
    <3> HIDE DEF d
    <3>3. ReadList(d) =
            [k \in DOMAIN t.rects |->
               [topLeft |-> <<t.rects[k].x, t.rects[k].y>>,
                bottomRight |-> <<t.rects[k].x + t.rects[k].w,
                                  t.rects[k].y + t.rects[k].h>>,
                area |-> t.rects[k].area]]
      BY <3>2 DEF ReadList
    <3> QED
      BY <1>3, <2>3, <2>5, <3>3 DEF Meaning, d
  <2> QED
    BY <2>4, <2>5
<1> QED
  BY <1>1, <1>2, <1>3 DEF Kinds

\* What holds of the data of one instance.
DataOf(i) ==
  data[i] # None =>
    /\ stage[i] = "ready"
    /\ data[i].at \in 0..(Len(arrivals) - strays)
    /\ data[i].at # 0 =>
         /\ Readable(setup.class[i], arrivals[data[i].at])
         /\ data[i].at > taken[i]
         /\ data[i].value = Meaning(arrivals[data[i].at])

LEMMA DataParts ==
  /\ DataInv /\ NeverTwice /\ FieldsAgree
  <=> DOMAIN data = Instances /\ \A i \in Instances : DataOf(i)
BY DEF DataInv, NeverTwice, FieldsAgree, DataOf

\* Data that is left alone is as good as before.
LEMMA DataKept ==
  ASSUME TypeOK, NEW i \in Instances, DataOf(i), setup' = setup,
         data'[i] = data[i], taken'[i] = taken[i],
         stage[i] = "ready" => stage'[i] = "ready",
         Len(arrivals') - strays' >= Len(arrivals) - strays,
         Len(arrivals') \in Nat, strays' \in Nat,
         \A k \in 1..Len(arrivals) : arrivals'[k] = arrivals[k]
  PROVE  DataOf(i)'
<1> SUFFICES ASSUME data[i] # None PROVE DataOf(i)'
  BY DEF DataOf
<1>1. Len(arrivals) \in Nat /\ strays \in 0..Len(arrivals)
  BY LenProperties DEF TypeOK
<1>2. data[i].at \in 0..(Len(arrivals) - strays) /\ stage[i] = "ready"
  BY DEF DataOf
<1>3. data'[i].at \in 0..(Len(arrivals') - strays')
  BY <1>1, <1>2
<1>4. ASSUME data[i].at # 0
      PROVE  /\ arrivals'[data'[i].at] = arrivals[data[i].at]
             /\ Readable(setup.class[i], arrivals[data[i].at])
             /\ data[i].at > taken[i]
             /\ data[i].value = Meaning(arrivals[data[i].at])
  <2>1. data[i].at \in 1..Len(arrivals)
    BY <1>1, <1>2, <1>4
  <2>2. arrivals'[data'[i].at] = arrivals[data[i].at]
    BY <2>1
  <2> QED
    BY <1>4, <2>2 DEF DataOf
<1>5. ASSUME data'[i].at # 0
      PROVE  /\ Readable(setup.class[i], arrivals[data[i].at])'
             /\ Meaning(arrivals[data[i].at])' = Meaning(arrivals[data[i].at])
  <2>1. data[i].at # 0 /\ arrivals'[data'[i].at] = arrivals[data[i].at]
    BY <1>4, <1>5
  <2>2. Readable(setup.class[i], arrivals[data[i].at])'
    BY <1>4, <2>1 DEF Readable, Cut, Kind
  <2>3. Meaning(arrivals[data[i].at])' = Meaning(arrivals[data[i].at])
    BY <2>1 DEF Meaning, Kind
  <2> QED
    BY <2>2, <2>3
<1> QED
  BY <1>2, <1>3, <1>4, <1>5 DEF DataOf

\* Whatever happens, an instance holds nothing, the object its constructor
\* made, or what it held, except when a datagram is handled.
LEMMA QuietStep ==
  ASSUME TypeOK, DataInv, [Next]_vars,
         \A m \in DOMAIN net : ~Receives(m)
  PROVE  /\ setup' = setup /\ UNCHANGED <<arrivals, strays>>
         /\ DOMAIN data' = Instances
         /\ \A j \in Instances :
              /\ stage[j] = "ready" => stage'[j] = "ready"
              /\ \/ data'[j] = data[j] /\ taken'[j] = taken[j]
                 \/ data'[j] = None
                 \/ data'[j] = [at |-> 0] /\ stage'[j] = "ready"
<1>1. CASE UNCHANGED vars
  BY <1>1 DEF DataInv
<1>2. CASE Daemon
  BY <1>2 DEF DataInv, Daemon, SetEntry, StartRun, EndRun, Send
<1>3. CASE Bind
  BY <1>3 DEF DataInv, Bind
<1>4. ASSUME NEW i \in Instances, Refused(i) \/ Register(i) \/ Start(i)
      PROVE  /\ UNCHANGED <<setup, arrivals, strays, data, taken>>
             /\ \A j \in Instances : stage[j] = "ready" => stage'[j] = "ready"
  BY <1>4 DEF TypeOK, Refused, Register, Start
<1>5. ASSUME NEW i \in Instances, Finish(i)
      PROVE  /\ UNCHANGED <<setup, arrivals, strays, taken>>
             /\ DOMAIN data' = Instances
             /\ \A j \in Instances :
                  /\ stage[j] = "ready" => stage'[j] = "ready"
                  /\ \/ data'[j] = data[j]
                     \/ data'[j] = [at |-> 0] /\ stage'[j] = "ready"
  BY <1>5 DEF TypeOK, DataInv, Finish
<1>6. ASSUME NEW i \in Instances, GetTargetData(i)
      PROVE  /\ UNCHANGED <<setup, arrivals, strays, stage>>
             /\ DOMAIN data' = Instances
             /\ \A j \in Instances :
                  \/ data'[j] = data[j] /\ taken'[j] = taken[j]
                  \/ data'[j] = None
  <2>1. DOMAIN data' = Instances
    BY <1>6 DEF DataInv, GetTargetData
  <2>2. data'[i] = None
    BY <1>6 DEF DataInv, GetTargetData
  <2>3. \A j \in Instances : j # i => data'[j] = data[j] /\ taken'[j] = taken[j]
    BY <1>6 DEF DataInv, GetTargetData
  <2> QED
    BY <1>6, <2>1, <2>2, <2>3 DEF GetTargetData
<1> QED
  BY <1>1, <1>2, <1>3, <1>4, <1>5, <1>6, StepCases DEF Constructor, DataInv

LEMMA DataStep ==
  ASSUME TypeOK, DataInv, LagIsStrays, NeverTwice, FieldsAgree, [Next]_vars
  PROVE  DataInv' /\ NeverTwice' /\ FieldsAgree'
<1>1. DOMAIN data = Instances /\ \A i \in Instances : DataOf(i)
  BY DataParts
<1>2. Len(arrivals) \in Nat /\ strays \in 0..Len(arrivals)
  BY LenProperties DEF TypeOK
<1>3. CASE \A m \in DOMAIN net : ~Receives(m)
  <2>1. /\ setup' = setup /\ UNCHANGED <<arrivals, strays>>
        /\ DOMAIN data' = Instances
    BY <1>3, QuietStep
  <2>2. ASSUME NEW j \in Instances PROVE DataOf(j)'
    <3>1. /\ stage[j] = "ready" => stage'[j] = "ready"
          /\ \/ data'[j] = data[j] /\ taken'[j] = taken[j]
             \/ data'[j] = None
             \/ data'[j] = [at |-> 0] /\ stage'[j] = "ready"
      BY <1>3, QuietStep
    <3>2. CASE data'[j] = data[j] /\ taken'[j] = taken[j]
      <4>1. DataOf(j) /\ Len(arrivals') - strays' >= Len(arrivals) - strays
            /\ Len(arrivals') \in Nat /\ strays' \in Nat
        BY <1>1, <1>2, <2>1
      <4>2. \A k \in 1..Len(arrivals) : arrivals'[k] = arrivals[k]
        BY <2>1
      <4> QED
        BY <2>1, <3>1, <3>2, <4>1, <4>2, DataKept
    <3>3. CASE data'[j] = None
      BY <3>3 DEF DataOf
    <3>4. CASE data'[j] = [at |-> 0] /\ stage'[j] = "ready"
      <4>1. 0 \in 0..(Len(arrivals') - strays')
        BY <1>2, <2>1
      <4> QED
        BY <3>4, <4>1 DEF DataOf
    <3> QED
      BY <3>1, <3>2, <3>3, <3>4
  <2> QED
    BY <2>1, <2>2 DEF DataInv, NeverTwice, FieldsAgree, DataOf
<1>4. ASSUME NEW m \in DOMAIN net, Receives(m)
      PROVE  DOMAIN data' = Instances /\ \A i \in Instances : DataOf(i)'
  <2>1. /\ Received(m) /\ thread = "running" /\ setup' = setup
        /\ stage' = stage /\ taken' = taken
    BY <1>4, ReceivesFacts
  <2>2. /\ Len(arrivals') = Len(arrivals) + 1
        /\ \A k \in 1..Len(arrivals) : arrivals'[k] = arrivals[k]
        /\ arrivals' \in Seq(Payloads) /\ DOMAIN arrivals' = 1..(Len(arrivals) + 1)
    BY <2>1, Arrival
  <2>3. strays' \in {strays, strays + 1}
    BY <1>4, Decoding, Undecoded
  <2>4. /\ Len(arrivals') - strays' >= Len(arrivals) - strays
        /\ Len(arrivals') \in Nat /\ strays' \in Nat
    BY <1>2, <2>2, <2>3
  <2>5. ASSUME NEW j \in Instances, data'[j] = data[j] PROVE DataOf(j)'
    BY <1>1, <2>1, <2>2, <2>4, <2>5, DataKept
  <2>6. CASE ~Handle(m)
    <3>1. data' = data
      BY <1>4, <2>6, Undecoded
    <3> QED
      BY <1>1, <2>5, <3>1
  <2>7. CASE Handle(m)
    <3>1. PICK i \in Instances, h \in 1..(Len(arrivals) + 1) :
            /\ h = Len(arrivals) + 1 - strays
            /\ stage[i] = "ready" /\ Readable(setup.class[i], arrivals'[h])
            /\ data' = [data EXCEPT ![i] =
                          [at |-> h, value |-> Read(setup.class[i], arrivals'[h])]]
            /\ strays' = strays
      BY <2>7, Decoding
    <3>2. /\ data'[i].at = h
          /\ data'[i].value = Read(setup.class[i], arrivals'[h])
          /\ \A j \in Instances : j # i => data'[j] = data[j]
          /\ DOMAIN data' = Instances
      BY <1>1, <3>1
    <3>3. h \in 0..(Len(arrivals') - strays') /\ h # 0
      BY <1>2, <2>2, <3>1
    <3>4. h > taken'[i]
      <4>1. taken[i] \in 0..(Len(arrivals) - strays)
        BY <3>1 DEF TypeOK
      <4> QED
        BY <1>2, <2>1, <3>1, <4>1
    <3>5. Kind(arrivals'[h]) \in Kinds
      <4>1. arrivals'[h] \in Payloads
        BY <2>2, <3>1, ElementOfSeq
      <4>2. setup.kind \in [Cameras -> Kinds] /\ arrivals'[h].id \in Cameras
        BY <4>1, SetupsAssumption DEF TypeOK, Payloads
      <4> QED
        BY <4>2 DEF Kind
    <3>6. Read(setup.class[i], arrivals'[h]) = Meaning(arrivals'[h])
      BY <3>1, <3>5, ReadsMeaning
    <3>7. data'[i].value = Meaning(arrivals[data[i].at])'
      <4>1. data'[i].value = Meaning(arrivals'[h])
        BY <3>2, <3>6
      <4> QED
        BY <2>1, <3>2, <4>1 DEF Meaning, Kind
    <3>8. Readable(setup.class[i], arrivals[data[i].at])'
      BY <2>1, <3>1, <3>2 DEF Readable, Cut, Kind
    <3>9. DataOf(i)'
      BY <2>1, <3>1, <3>2, <3>3, <3>4, <3>7, <3>8 DEF DataOf
    <3> QED
      BY <2>5, <3>2, <3>9
  <2> QED
    BY <2>6, <2>7
<1>5. ASSUME NEW m \in DOMAIN net, Receives(m)
      PROVE  DataInv' /\ NeverTwice' /\ FieldsAgree'
  <2>1. DOMAIN data' = Instances /\ \A i \in Instances : DataOf(i)'
    BY <1>4, <1>5
  <2> QED
    BY <2>1 DEF DataInv, NeverTwice, FieldsAgree, DataOf
<1> QED
  BY <1>3, <1>5

------------------------------------------------------------------------------
(* The latest data of its own camera.                                      *)

LEMMA OwnStep ==
  ASSUME TypeOK, DataInv, ClientInv, LagIsStrays, OwnLatest, [Next]_vars
  PROVE  OwnLatest'
<1> SUFFICES ASSUME thread' = "running", strays' = 0,
                    NEW j \in Instances, data'[j] # None, data'[j].at # 0
             PROVE  /\ arrivals'[data'[j].at].handler = j
                    /\ arrivals'[data'[j].at].id = setup'.camera[j]
                    /\ \A k \in DOMAIN arrivals' :
                         arrivals'[k].handler = j => k <= data'[j].at
  BY DEF OwnLatest
<1>1. Len(arrivals) \in Nat /\ strays \in 0..Len(arrivals)
      /\ DOMAIN arrivals = 1..Len(arrivals)
  BY LenProperties DEF TypeOK
<1>2. ASSUME data[j] # None, data[j].at # 0
      PROVE  data[j].at \in 1..(Len(arrivals) - strays)
  BY <1>1, <1>2 DEF DataInv
<1>3. ASSUME thread = "running", strays = 0, data[j] # None, data[j].at # 0
      PROVE  /\ arrivals[data[j].at].handler = j
             /\ arrivals[data[j].at].id = setup.camera[j]
             /\ \A k \in DOMAIN arrivals : arrivals[k].handler = j => k <= data[j].at
  BY <1>3 DEF OwnLatest
<1>4. CASE \A m \in DOMAIN net : ~Receives(m)
  <2>1. /\ setup' = setup /\ arrivals' = arrivals /\ strays = 0
        /\ data'[j] = data[j]
    BY <1>4, QuietStep
  <2>2. CASE thread = "running"
    BY <1>3, <2>1, <2>2
  <2>3. CASE thread # "running"
    <3>1. Bind
      BY <1>4, <2>3, StepCases DEF Daemon, SetEntry, StartRun, EndRun, Send,
         Constructor, Refused, Register, Start, Finish, GetTargetData
    <3>2. Len(arrivals) = 0
      BY <3>1 DEF Bind, ClientInv
    <3> QED
      BY <1>1, <1>2, <2>1, <3>2
  <2> QED
    BY <2>2, <2>3
<1>5. ASSUME NEW m \in DOMAIN net, Receives(m)
      PROVE  /\ arrivals'[data'[j].at].handler = j
             /\ arrivals'[data'[j].at].id = setup'.camera[j]
             /\ \A k \in DOMAIN arrivals' :
                  arrivals'[k].handler = j => k <= data'[j].at
  <2>1. /\ Received(m) /\ thread = "running" /\ setup' = setup /\ cache' = cache
        /\ m.id \in Cameras /\ DOMAIN arrivals' = 1..(Len(arrivals) + 1)
        /\ \A k \in 1..Len(arrivals) : arrivals'[k] = arrivals[k]
        /\ arrivals'[Len(arrivals) + 1].handler = cache[m.id]
        /\ arrivals'[Len(arrivals) + 1].id = m.id
    <3>1. /\ Received(m) /\ thread = "running" /\ setup' = setup /\ cache' = cache
      BY <1>5, ReceivesFacts
    <3>2. /\ m.id \in Cameras /\ DOMAIN arrivals' = 1..(Len(arrivals) + 1)
          /\ \A k \in 1..Len(arrivals) : arrivals'[k] = arrivals[k]
          /\ arrivals'[Len(arrivals) + 1] = Payload(m)
      BY <3>1, Arrival
    <3>3. Payload(m).handler = cache[m.id] /\ Payload(m).id = m.id
      BY DEF Payload
    <3> QED
      BY <3>1, <3>2, <3>3
  <2>2. Handle(m)
    <3>1. CASE ~Handle(m)
      BY <1>1, <1>5, <3>1, Undecoded
    <3> QED
      BY <3>1
  <2>3. PICK i \in Instances, h \in 1..(Len(arrivals) + 1) :
          /\ i = cache[m.id] /\ h = Len(arrivals) + 1 - strays
          /\ data' = [data EXCEPT ![i] =
                        [at |-> h, value |-> Read(setup.class[i], arrivals'[h])]]
          /\ strays' = strays
    BY <2>2, Decoding
  <2>4. h = Len(arrivals) + 1 /\ strays = 0
    BY <1>1, <2>3
  <2>5. CASE j = i
    <3>1. data'[j].at = h
      BY <2>3, <2>5 DEF DataInv
    <3>2. i # None /\ setup.camera[i] = m.id
      BY <2>1, <2>3, SetupsAssumption DEF ClientInv
    <3>3. \A k \in DOMAIN arrivals' : k <= h
      BY <1>1, <2>1, <2>4
    <3> QED
      BY <2>1, <2>3, <2>4, <2>5, <3>1, <3>2, <3>3
  <2>6. CASE j # i
    <3>1. data'[j] = data[j]
      BY <2>3, <2>6 DEF DataInv
    <3>2. data[j].at \in 1..Len(arrivals)
      BY <1>1, <1>2, <2>4, <3>1
    <3>3. /\ arrivals[data[j].at].handler = j
          /\ arrivals[data[j].at].id = setup.camera[j]
          /\ \A k \in 1..Len(arrivals) : arrivals[k].handler = j => k <= data[j].at
      BY <1>1, <1>3, <2>1, <2>4, <3>1
    <3>4. ASSUME NEW k \in DOMAIN arrivals', arrivals'[k].handler = j
          PROVE  k <= data[j].at
      <4>1. k # Len(arrivals) + 1
        BY <2>1, <2>3, <2>6, <3>4
      <4>2. k \in 1..Len(arrivals)
        BY <1>1, <2>1, <4>1
      <4> QED
        BY <2>1, <3>3, <3>4, <4>2
    <3> QED
      BY <2>1, <3>1, <3>2, <3>3, <3>4
  <2> QED
    BY <2>5, <2>6
<1> QED
  BY <1>4, <1>5

------------------------------------------------------------------------------
(* The end of the thread.                                                  *)

\* Why the thread may have ended with the datagram received last.
LastIsCause ==
  LET last == arrivals[Len(arrivals)]
      head == arrivals[Len(arrivals) - strays]
  IN  last.early \/ Cut(head) \/ ~Suits(setup.class[last.handler], Kind(head))

LEMMA DeathStep ==
  ASSUME TypeOK, ClientInv, LagIsStrays, DeathHasCause, [Next]_vars
  PROVE  DeathHasCause'
<1>1. DeathHasCause <=>
        (thread = "dead" => arrivals = <<>> \/ LastIsCause)
  BY DEF DeathHasCause, LastIsCause
<1>2. CASE \A m \in DOMAIN net : ~Receives(m)
  <2>1. UNCHANGED <<setup, arrivals, strays>>
    BY <1>2, StepCases DEF Daemon, SetEntry, StartRun, EndRun, Send, Bind,
       Constructor, Refused, Register, Start, Finish, GetTargetData
  <2>2. CASE Bind
    BY <2>2 DEF Bind, ClientInv, DeathHasCause
  <2>3. CASE ~Bind
    <3>1. thread' = "dead" => thread = "dead"
      BY <1>2, <2>3, StepCases DEF Daemon, SetEntry, StartRun, EndRun, Send,
         Constructor, Refused, Register, Start, Finish, GetTargetData
    <3>2. LastIsCause' <=> LastIsCause
      BY <2>1 DEF LastIsCause, Cut, Kind
    <3> QED
      BY <1>1, <2>1, <3>1, <3>2 DEF DeathHasCause, LastIsCause
  <2> QED
    BY <2>2, <2>3
<1>3. ASSUME NEW m \in DOMAIN net, Receives(m), thread' = "dead"
      PROVE  LastIsCause'
  <2>1. /\ Received(m) /\ thread = "running" /\ setup' = setup
        /\ Len(arrivals) \in Nat /\ Len(arrivals') = Len(arrivals) + 1
        /\ arrivals'[Len(arrivals')] = Payload(m)
    BY <1>3, ReceivesFacts, Arrival
  <2>2. NoAdapter(m) \/ Undecodable(m)
    BY <1>3, <2>1 DEF Receives, Unrecognized, Handle
  <2>3. strays' = strays /\ Payload(m).handler = cache[m.id]
    BY <2>2 DEF NoAdapter, Undecodable, Payload
  <2>4. CASE NoAdapter(m)
    <3>1. Payload(m).early
      BY <2>4 DEF NoAdapter, Payload
    <3> QED
      BY <2>1, <3>1 DEF LastIsCause
  <2>5. CASE Undecodable(m)
    <3>1. Head(Backlog) = Len(arrivals') - strays'
      BY <2>1, <2>3, BacklogFacts
    <3> DEFINE head == arrivals'[Head(Backlog)]
    <3>2. ~Readable(setup.class[cache[m.id]], head)
      BY <2>5 DEF Undecodable
    <3>3. Cut(head) \/ ~Suits(setup.class[cache[m.id]], Kind(head))
      BY <3>2 DEF Readable, Suits
    <3> QED
      BY <2>1, <2>3, <3>1, <3>3 DEF LastIsCause, Cut, Kind
  <2> QED
    BY <2>2, <2>4, <2>5
<1>4. CASE \E m \in DOMAIN net : Receives(m)
  BY <1>3, <1>4 DEF DeathHasCause, LastIsCause
<1> QED
  BY <1>2, <1>4

------------------------------------------------------------------------------
(* The theorems.                                                           *)

LEMMA IInvInit == Init => IInv
<1> SUFFICES ASSUME Init PROVE IInv
  OBVIOUS
<1>1. TypeOK
  BY TypeInit
<1>2. DataInv /\ OwnLatest /\ NeverTwice /\ FieldsAgree
  BY DEF Init, DataInv, OwnLatest, NeverTwice, FieldsAgree
<1>3. ClientInv /\ EntryInv /\ DeathHasCause /\ LagIsStrays
  BY DEF Init, ClientInv, EntryInv, DeathHasCause, LagIsStrays
<1> QED
  BY <1>1, <1>2, <1>3, EntryReaches DEF IInv

LEMMA IInvStep == IInv /\ [Next]_vars => IInv'
<1> SUFFICES ASSUME IInv, [Next]_vars PROVE IInv'
  OBVIOUS
<1> USE DEF IInv
<1>1. TypeOK'
  BY TypeStep
<1>2. DataInv' /\ NeverTwice' /\ FieldsAgree'
  BY DataStep
<1>3. ClientInv' /\ LagIsStrays'
  BY ClientStep, LagStep
<1>4. EntryInv'
  BY LinkStep
<1>7. LinkReaches'
  BY <1>1, <1>4, EntryReaches, PTL
<1>5. OwnLatest'
  BY OwnStep
<1>6. DeathHasCause'
  BY DeathStep
<1> QED
  BY <1>1, <1>2, <1>3, <1>4, <1>5, <1>6, <1>7

\* The inductive invariant of the link and its client: types, the buffer as a
\* run of consecutive arrivals, and what every instance holds (Link.java:34-87,
\* Deadeye.java:43-66,239-258).
THEOREM Inductive == Spec => []IInv
<1> QED
  BY IInvInit, IInvStep, PTL DEF Spec

\* The receiver is behind by exactly the datagrams nobody handled, however
\* many cameras and objects there are (Link.java:66-75).
THEOREM StraysDelay == Spec => []LagIsStrays
<1>1. IInv => LagIsStrays
  BY DEF IInv
<1> QED
  BY <1>1, Inductive, PTL

\* Without strays, an object holds the data of its own camera that arrived
\* last (Link.java:72-81, Deadeye.java:239-243).
THEOREM HoldsOwnLatest == Spec => []OwnLatest
<1>1. IInv => OwnLatest
  BY DEF IInv
<1> QED
  BY <1>1, Inductive, PTL

\* getTargetData returns data in the order of its arrival and none twice
\* (Deadeye.java:239-258).
THEOREM DataInOrder == Spec => []NeverTwice
<1>1. IInv => NeverTwice
  BY DEF IInv
<1> QED
  BY <1>1, Inductive, PTL

\* The Java adapters read the fields the daemon wrote, for every target and
\* list of targets (the files named ..._target_data.cpp and their adapters).
THEOREM FormatsAgree == Spec => []FieldsAgree
<1>1. IInv => FieldsAgree
  BY DEF IInv
<1> QED
  BY <1>1, Inductive, PTL

\* The receiving thread ends for one of the four reasons only, which names the
\* payload that was decoded, however far it lags behind
\* (Link.java:60-87).
THEOREM DeathExplained == Spec => []DeathHasCause
<1>1. IInv => DeathHasCause
  BY DEF IInv
<1> QED
  BY <1>1, Inductive, PTL

\* A run that began after the client wrote the link entry sends to the client,
\* if the entry is enabled (link.cpp:22-38,53-61, Link.java:34-61).
THEOREM RunsReachClient == Spec => []LinkReaches
<1>1. IInv => LinkReaches
  BY DEF IInv
<1> QED
  BY <1>1, Inductive, PTL
==============================================================================
