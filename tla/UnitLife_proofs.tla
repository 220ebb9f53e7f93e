--------------------------- MODULE UnitLife_proofs ---------------------------
(***************************************************************************)
(* Proofs about UnitLife, for any cameras, any JSON that clients write and *)
(* any number of starts, power cuts and settings.                          *)
(***************************************************************************)
EXTENDS UnitLife, TLAPS, SequenceTheorems

USE DEF vars, daemon, settings, shutdown

------------------------------------------------------------------------------
(* The steps.                                                              *)

\* The steps that leave the settings, and the daemon, alone.
Idle ==
  \/ GiveUp \/ StartClient \/ Connect \/ Disconnect \/ Press \/ Release
  \/ Sample \/ LineFails \/ Refused \/ Boot

LEMMA ClientCases ==
  ASSUME [Next]_vars
  PROVE  \/ UNCHANGED vars \/ Idle
         \/ Launch \/ StartServer \/ Connected \/ StartPoller
         \/ \E c \in Cameras : InitializeNetworkTables(c)
         \/ \E c \in Cameras : InitializeCamera(c)
         \/ Update \/ Save \/ Dark
         \/ \E e \in Entries : \E keys \in Sound[e[2]] \cup Broken[e[2]] :
              Write(e, keys)
BY DEF Next, Constructor, Shutdown, Environment, Clients, Idle, PowerOff, PowerCut

LEMMA StepCases ==
  ASSUME [Next]_vars
  PROVE  \/ UNCHANGED vars \/ Idle
         \/ Launch \/ StartServer \/ Connected \/ StartPoller
         \/ \E c \in Cameras : InitializeNetworkTables(c)
         \/ \E c \in Cameras : InitializeCamera(c)
         \/ Update \/ Save \/ Dark
         \/ \E e \in Entries : \E keys \in SUBSET Keys : Write(e, keys)
<1>1. \A e \in Entries : Sound[e[2]] \cup Broken[e[2]] \subseteq SUBSET Keys
  BY FormsAssumption DEF Entries
<1> QED
  BY <1>1, ClientCases

LEMMA IdleFacts ==
  ASSUME Idle
  PROVE  /\ UNCHANGED <<mode, live, pending, missed, table, file, writes, broken>>
         /\ todo' = todo
BY DEF Idle, GiveUp, StartClient, Connect, Disconnect, Called, Press, Release,
   Sample, LineFails, Refused, Boot

LEMMA BoundFacts == Burst \in Nat /\ Burst > 0 /\ MaxWrites \in Nat
BY FormsAssumption

LEMMA DefaultFacts ==
  ASSUME NEW e \in Entries
  PROVE  Default(e) \in Json /\ Default(e) # None /\ Default(e).n = 0
<1>1. Complete(e) \subseteq Keys
  BY DEF Complete, Entries, Kinds, Keys
<1>2. Default(e) \in [n : Nat, keys : SUBSET Keys] /\ Default(e).n = 0
  BY <1>1 DEF Default
<1>3. 0 \in 0..MaxWrites
  BY FormsAssumption
<1> QED
  BY <1>1, <1>2, <1>3, FormsAssumption DEF Default, Json

LEMMA WrittenFacts ==
  ASSUME writes \in 0..MaxWrites, writes < MaxWrites, NEW keys \in SUBSET Keys
  PROVE  /\ [n |-> writes + 1, keys |-> keys] \in Json
         /\ [n |-> writes + 1, keys |-> keys] # None
<1>1. writes + 1 \in 0..MaxWrites /\ writes + 1 \in Nat
  BY FormsAssumption
<1>2. [n |-> writes + 1, keys |-> keys] \in [n : Nat, keys : SUBSET Keys]
  BY <1>1
<1> QED
  BY <1>1, <1>2, FormsAssumption DEF Json

LEMMA AppendShape ==
  ASSUME NEW S, NEW s \in Seq(S), NEW x
  PROVE  /\ Len(s) \in Nat /\ DOMAIN s = 1..Len(s)
         /\ DOMAIN Append(s, x) = 1..(Len(s) + 1)
         /\ \A k \in 1..Len(s) : Append(s, x)[k] = s[k]
         /\ Append(s, x)[Len(s) + 1] = x
<1>1. s \in Seq(S \cup {x}) /\ x \in S \cup {x}
  OBVIOUS
<1> QED
  BY <1>1, AppendProperties, LenProperties

------------------------------------------------------------------------------
(* Types.                                                                  *)

LEMMA IInvInit == Init => IInv
<1> SUFFICES ASSUME Init PROVE IInv
  OBVIOUS
<1>1. /\ calls \in 0..2 /\ starts \in 0..Burst /\ writes \in 0..MaxWrites
      /\ count \in 0..3 /\ count \in {0, 1, 2}
  BY FormsAssumption DEF Init
<1>2. \A e \in Entries : table[e] = None /\ file[e] = None
  BY DEF Init, NoEntries
<1>3. TypeOK
  BY <1>1, <1>2 DEF Init, TypeOK, PCs
<1>4. StartInv
  BY <1>1 DEF Init, StartInv
<1>5. TableInv
  <2>1. \A e \in Persistent : file[e] = None
    BY <1>2 DEF Persistent
  <2> QED
    BY <1>2, <2>1 DEF Init, TableInv, NoEntries
<1>6. FollowInv
  BY DEF Init, FollowInv, NoEntries, AfterRead
<1>7. PresentInv /\ FormInv /\ FailureHasCause
  <2>1. DOMAIN pending = {}
    BY DEF Init
  <2> QED
    BY <1>2, <2>1 DEF Init, PresentInv, FormInv, FailureHasCause
<1> QED
  BY <1>3, <1>4, <1>5, <1>6, <1>7 DEF IInv

\* The variables that count, or say where the daemon and the button are.
CountersOK ==
  /\ mode \in {"server", "client"} /\ power \in {"on", "off"}
  /\ pc \in PCs /\ todo \subseteq Cameras
  /\ calls \in {0, 1, 2} /\ count \in {0, 1, 2, 3} /\ starts \in 0..Burst
  /\ button \in {"watching", "asking", "disabled", "exited"}

LEMMA SwitchesStep ==
  ASSUME TypeOK, [Next]_vars
  PROVE  up' \in BOOLEAN /\ pressed' \in BOOLEAN
<1>1. up \in BOOLEAN /\ pressed \in BOOLEAN
  BY DEF TypeOK
<1>2. CASE up' = up /\ pressed' = pressed
  BY <1>1, <1>2
<1>3. CASE Idle
  <2>1. CASE GiveUp \/ StartClient \/ Sample \/ LineFails \/ Refused \/ Boot
    BY <1>2, <2>1 DEF GiveUp, StartClient, Sample, LineFails, Refused, Boot
  <2>2. CASE Connect
    BY <1>1, <2>2, Zenon DEF Connect, Called
  <2>3. CASE Disconnect
    BY <1>1, <2>3, Zenon DEF Disconnect, Called
  <2>4. CASE Press
    BY <1>1, <2>4, Zenon DEF Press
  <2>5. CASE Release
    BY <1>1, <2>5, Zenon DEF Release
  <2> QED
    BY <1>3, <2>1, <2>2, <2>3, <2>4, <2>5 DEF Idle
<1>4. CASE Launch
  BY <1>1, <1>4, Zenon DEF Launch
<1>5. CASE Dark
  BY <1>1, <1>5, Zenon DEF Dark
<1> QED
  BY <1>2, <1>3, <1>4, <1>5, StepCases DEF StartServer, Connected, StartPoller,
     InitializeNetworkTables, InitializeCamera, Update, Save, Write

LEMMA CountersStep ==
  ASSUME TypeOK, StartInv, FollowInv, [Next]_vars
  PROVE  CountersOK' /\ StartInv'
<1>0. CountersOK
  BY DEF TypeOK, CountersOK
<1>b. Burst \in Nat /\ Burst > 0
  BY BoundFacts
<1> USE DEF CountersOK, StartInv
<1>1. CASE UNCHANGED vars
  <2>1. UNCHANGED <<mode, power, pc, todo, calls, starts, count, button, pending>>
    BY <1>1
  <2>2. CountersOK'
    BY <1>0, <2>1
  <2>3. StartInv'
    BY <2>1
  <2> QED
    BY <2>2, <2>3
<1>2. CASE Idle
  <2>1. CASE GiveUp
    BY <1>0, <2>1 DEF GiveUp, PCs
  <2>2. CASE StartClient
    <3>1. calls' = calls /\ pc = "begin"
      BY <2>2 DEF StartClient
    <3> QED
      BY <1>0, <2>2, <3>1 DEF StartClient, PCs
  <2>3. CASE Connect \/ Disconnect
    <3>1. /\ pc = "waiting" /\ calls' = calls + 1
          /\ pc' = IF calls = 0 THEN pc ELSE "failed"
          /\ UNCHANGED <<mode, power, todo, starts, pending, button, count>>
      BY <2>3, Zenon DEF Connect, Disconnect, Called
    <3>2. CountersOK'
      BY <1>0, <3>1 DEF PCs
    <3>3. StartInv'
      BY <1>0, <3>1
    <3> QED
      BY <3>2, <3>3
  <2>4. CASE Press \/ Release \/ LineFails \/ Refused \/ Boot
    <3>1. /\ UNCHANGED <<mode, pc, calls, starts, todo, pending>>
          /\ power' \in {power, "on"}
          /\ \/ UNCHANGED <<count, button>>
             \/ count' = count /\ button' \in {"disabled", "exited"}
             \/ count' = 0 /\ button' = "watching"
      BY <2>4, Zenon DEF Press, Release, LineFails, Refused, Boot
    <3>2. CountersOK'
      BY <1>0, <3>1
    <3>3. StartInv'
      BY <1>0, <3>1
    <3> QED
      BY <3>2, <3>3
  <2>5. CASE Sample
    <3>1. /\ UNCHANGED <<mode, power, pc, calls, starts, todo, pending>>
          /\ button = "watching" /\ count' \in {count + 1, 0}
          /\ button' = IF count' = 3 THEN "asking" ELSE "watching"
      BY <2>5, Zenon DEF Sample
    <3>2. count \in {0, 1, 2}
      BY <3>1
    <3>3. count' \in {0, 1, 2, 3} /\ (button' = "watching" => count' # 3)
          /\ button' \in {"watching", "asking"}
      BY <3>1, <3>2
    <3>4. CountersOK'
      BY <1>0, <3>1, <3>3
    <3>5. StartInv'
      BY <3>1, <3>3
    <3> QED
      BY <3>4, <3>5
  <2> QED
    BY <1>2, <2>1, <2>2, <2>3, <2>4, <2>5 DEF Idle
<1>3. CASE Launch
  <2>1. /\ UNCHANGED <<mode, power, todo, count, button>>
        /\ pc' = "begin" /\ calls' = 0 /\ pending' = <<>>
        /\ starts' = IF starts = Burst THEN Burst ELSE starts + 1
    BY <1>3, Zenon DEF Launch
  <2>2. starts' \in 0..Burst
    <3>1. starts \in 0..Burst
      BY <1>0
    <3>2. starts' = IF starts = Burst THEN Burst ELSE starts + 1
      BY <2>1
    <3> HIDE DEF CountersOK, StartInv
    <3> QED
      BY <1>b, <3>1, <3>2
  <2>3. CountersOK'
    BY <1>0, <2>1, <2>2 DEF PCs
  <2>4. StartInv'
    BY <1>0, <2>1
  <2> QED
    BY <2>3, <2>4
<1>4. CASE StartServer \/ Connected
  BY <1>0, <1>4 DEF StartServer, Connected, PCs
<1>5. CASE StartPoller
  BY <1>0, <1>5 DEF StartPoller, PCs
<1>6. ASSUME NEW c \in Cameras, InitializeNetworkTables(c)
      PROVE  CountersOK' /\ StartInv'
  BY <1>0, <1>6 DEF InitializeNetworkTables, PCs
<1>7. ASSUME NEW c \in Cameras, InitializeCamera(c)
      PROVE  CountersOK' /\ StartInv'
  BY <1>0, <1>7 DEF InitializeCamera, PCs
<1>8. CASE Update
  BY <1>0, <1>8 DEF Update, Handled, PCs
<1>9. CASE Save
  <2>1. UNCHANGED <<mode, power, pc, todo, calls, starts, count, button, pending>>
    BY <1>9, Zenon DEF Save
  <2>2. CountersOK'
    BY <1>0, <2>1
  <2>3. StartInv'
    BY <2>1
  <2> QED
    BY <2>2, <2>3
<1>10. CASE Dark
  <2>1. /\ UNCHANGED <<mode, count, button>>
        /\ power' = "off" /\ pc' = "down" /\ calls' = 0 /\ starts' = 0
        /\ todo' = {} /\ pending' = <<>>
    BY <1>10, Zenon DEF Dark
  <2>2. starts' \in 0..Burst
    BY <2>1, BoundFacts
  <2>3. CountersOK'
    BY <1>0, <2>1, <2>2 DEF PCs
  <2>4. StartInv'
    BY <1>0, <2>1
  <2> QED
    BY <2>3, <2>4
<1>11. ASSUME NEW e \in Entries, NEW keys \in SUBSET Keys, Write(e, keys)
       PROVE  CountersOK' /\ StartInv'
  <2>1. /\ UNCHANGED <<mode, power, todo, pc, calls, starts, count, button>>
        /\ pc = "run" \/ pending' = pending
    BY <1>11, Zenon DEF Write
  <2>2. CountersOK'
    BY <1>0, <2>1
  <2>3. StartInv'
    BY <2>1
  <2> QED
    BY <2>2, <2>3
<1> QED
  BY <1>1, <1>2, <1>3, <1>4, <1>5, <1>6, <1>7, <1>8, <1>9, <1>10, <1>11, StepCases

------------------------------------------------------------------------------
(* Settings.                                                               *)

\* What the table and the file may hold.
Entry(x) == x = None \/ (x \in Json /\ x.n <= writes)

\* What holds of the settings, as far as types and numbers go.
EntriesOK ==
  /\ DOMAIN table = Entries /\ DOMAIN file = Entries
  /\ writes \in 0..MaxWrites
  /\ \A e \in Entries : Entry(table[e]) /\ Entry(file[e])

LEMMA EntriesParts ==
  ASSUME TypeOK, TableInv
  PROVE  EntriesOK
<1>1. /\ writes \in 0..MaxWrites
      /\ \A e \in Entries : /\ table[e] # None => table[e] \in Json
                            /\ file[e] # None => file[e] \in Json
  BY DEF TypeOK
<1>2. /\ DOMAIN table = Entries /\ DOMAIN file = Entries
      /\ \A e \in Entries : /\ table[e] # None => table[e].n <= writes
                            /\ file[e] # None => file[e].n <= writes
  BY DEF TableInv
<1>3. \A e \in Entries : Entry(table[e]) /\ Entry(file[e])
  BY <1>1, <1>2, Zenon DEF Entry
<1> QED
  BY <1>1, <1>2, <1>3 DEF EntriesOK

\* The steps that change the table, the file or the number of writes.
LEMMA SettingsCases ==
  ASSUME [Next]_vars
  PROVE  \/ UNCHANGED <<table, file, writes>>
         \/ Launch \/ StartServer \/ Save \/ Dark
         \/ \E c \in Cameras : InitializeNetworkTables(c)
         \/ \E e \in Entries : \E keys \in SUBSET Keys : Write(e, keys)
BY StepCases, IdleFacts DEF Connected, StartPoller, InitializeCamera, Update

LEMMA EntriesStep ==
  ASSUME TypeOK, TableInv, [Next]_vars
  PROVE  EntriesOK'
<1>0. EntriesOK
  BY EntriesParts
<1>1. CASE UNCHANGED <<table, file, writes>>
  BY <1>0, <1>1 DEF EntriesOK, Entry
<1>2. CASE Launch \/ Dark
  <2>1. UNCHANGED <<file, writes>> /\ table' \in {table, NoEntries}
    BY <1>2 DEF Launch, Dark
  <2>2. DOMAIN table' = Entries
        /\ \A e \in Entries : table'[e] \in {table[e], None}
    BY <1>0, <2>1 DEF EntriesOK, NoEntries
  <2>3. \A e \in Entries : Entry(table'[e]) /\ Entry(file[e])
    BY <1>0, <2>2 DEF EntriesOK, Entry
  <2> QED
    BY <1>0, <2>1, <2>2, <2>3 DEF EntriesOK, Entry
<1>3. CASE StartServer
  BY <1>0, <1>3 DEF StartServer, EntriesOK, Entry
<1>4. CASE Save
  <2>1. UNCHANGED <<table, writes>>
        /\ file' = [e \in Entries |-> IF e \in Persistent THEN table[e] ELSE None]
    BY <1>4 DEF Save
  <2>2. DOMAIN file' = Entries
        /\ \A e \in Entries : file'[e] \in {table[e], None}
    BY <2>1
  <2>3. \A e \in Entries : Entry(table[e]) /\ Entry(file'[e])
    BY <1>0, <2>2 DEF EntriesOK, Entry
  <2> QED
    BY <1>0, <2>1, <2>2, <2>3 DEF EntriesOK, Entry
<1>5. ASSUME NEW c \in Cameras, InitializeNetworkTables(c) PROVE EntriesOK'
  <2>1. /\ UNCHANGED <<file, writes>> /\ DOMAIN table' = Entries
        /\ \A e \in Entries : table'[e] \in {table[e], Default(e)}
    BY <1>5 DEF InitializeNetworkTables, Present
  <2>2. writes \in Nat
    BY <1>0, BoundFacts DEF EntriesOK
  <2>3. \A e \in Entries : Default(e) \in Json /\ Default(e).n <= writes
    BY <2>2, DefaultFacts
  <2> QED
    BY <1>0, <2>1, <2>3 DEF EntriesOK, Entry
<1>6. ASSUME NEW e \in Entries, NEW keys \in SUBSET Keys, Write(e, keys)
      PROVE  EntriesOK'
  <2> DEFINE json == [n |-> writes + 1, keys |-> keys]
  <2>1. /\ writes < MaxWrites /\ writes' = writes + 1 /\ file' = file
        /\ table' = [table EXCEPT ![e] = json]
    BY <1>6 DEF Write
  <2>2. json \in Json /\ json.n = writes + 1
    BY <1>0, <2>1, WrittenFacts DEF EntriesOK
  <2> HIDE DEF json
  <2>3. writes' \in 0..MaxWrites /\ writes \in Nat
    BY <1>0, <2>1, BoundFacts DEF EntriesOK
  <2>4. ASSUME NEW x, Entry(x) PROVE x = None \/ (x \in Json /\ x.n <= writes')
    <3>1. x \in Json => x.n \in Nat
      BY BoundFacts DEF Json
    <3>2. CASE x \in Json /\ x.n <= writes
      <4>1. x.n <= writes'
        BY <2>1, <2>3, <3>1, <3>2
      <4> QED
        BY <3>2, <4>1
    <3> QED
      BY <2>4, <3>2 DEF Entry
  <2>5. \A d \in Entries : table'[d] = IF d = e THEN json ELSE table[d]
    BY <1>0, <2>1 DEF EntriesOK
  <2>6. json \in Json /\ json.n <= writes'
    BY <2>1, <2>2, <2>3
  <2> QED
    BY <1>0, <2>1, <2>3, <2>4, <2>5, <2>6 DEF EntriesOK, Entry
<1> QED
  BY <1>1, <1>2, <1>3, <1>4, <1>5, <1>6, SettingsCases

\* The running server has every setting of its file, or a newer one.
Ahead(e) == file[e] # None => table[e] # None /\ table[e].n >= file[e].n

LEMMA TypeStep ==
  ASSUME IInv, [Next]_vars
  PROVE  TypeOK' /\ StartInv'
<1>1. CountersOK' /\ StartInv' /\ up' \in BOOLEAN /\ pressed' \in BOOLEAN
  BY CountersStep, SwitchesStep DEF IInv
<1>2. EntriesOK'
  BY EntriesStep DEF IInv
<1>3. missed' \subseteq Entries
  <2>1. missed \subseteq Entries
    BY DEF IInv, TypeOK
  <2>2. missed' = missed \/ missed' = {} \/ \E e \in Entries : missed' \subseteq missed \cup {e}
    BY StepCases, IdleFacts DEF Launch, StartServer, Connected, StartPoller,
       InitializeNetworkTables, InitializeCamera, Update, Save, Dark, Write
  <2> QED
    BY <2>1, <2>2
<1>4. broken' \in BOOLEAN
  <2>1. broken \in BOOLEAN
    BY DEF IInv, TypeOK
  <2>2. ASSUME NEW e \in Entries, NEW keys \in SUBSET Keys, Write(e, keys)
        PROVE  broken' \in BOOLEAN
    BY <2>1, <2>2, Zenon DEF Write
  <2>3. ASSUME broken' = broken PROVE broken' \in BOOLEAN
    BY <2>1, <2>3
  <2> QED
    BY <2>2, <2>3, StepCases, IdleFacts DEF Launch, StartServer, Connected,
       StartPoller, InitializeNetworkTables, InitializeCamera, Update, Save, Dark
<1>5. \A e \in Entries : /\ table'[e] # None => table'[e] \in Json
                         /\ file'[e] # None => file'[e] \in Json
  BY <1>2 DEF EntriesOK, Entry
<1>6. writes' \in 0..MaxWrites
  BY <1>2 DEF EntriesOK
<1>7. /\ mode' \in {"server", "client"} /\ power' \in {"on", "off"}
      /\ pc' \in PCs /\ todo' \subseteq Cameras
      /\ calls' \in 0..2 /\ starts' \in 0..Burst /\ count' \in 0..3
      /\ button' \in {"watching", "asking", "disabled", "exited"}
  BY <1>1 DEF CountersOK
<1>8. TypeOK'
  BY <1>1, <1>3, <1>4, <1>5, <1>6, <1>7, Zenon DEF TypeOK
<1> QED
  BY <1>1, <1>8

LEMMA TableStep ==
  ASSUME IInv, [Next]_vars
  PROVE  TableInv'
<1>0. EntriesOK /\ EntriesOK'
  BY EntriesParts, EntriesStep DEF IInv
<1>1. ASSUME mode' = "server", Serving', NEW e \in Persistent
      PROVE  Ahead(e)'
  <2> e \in Entries
    BY DEF Persistent
  <2>1. Entry(table[e]) /\ Entry(file[e]) /\ writes \in Nat
        /\ DOMAIN table = Entries
    BY <1>0, BoundFacts DEF EntriesOK
  <2>2. ASSUME NEW x \in Json PROVE x.n \in Nat
    BY BoundFacts DEF Json
  <2>3. ASSUME Serving, mode = "server" PROVE Ahead(e)
    BY <2>3 DEF IInv, TableInv, Ahead
  <2>4. CASE Launch \/ Dark
    BY <1>1, <2>4 DEF Launch, Dark, Serving
  <2>5. CASE StartServer
    <3>1. table'[e] = file[e] /\ file' = file
      BY <2>5 DEF StartServer
    <3>2. file[e] # None => file[e].n >= file[e].n
      BY <2>1, <2>2 DEF Entry
    <3> QED
      BY <3>1, <3>2 DEF Ahead
  <2>6. CASE Save
    <3>1. table' = table /\ file'[e] = table[e]
      BY <2>6 DEF Save
    <3>2. table[e] # None => table[e].n >= table[e].n
      BY <2>1, <2>2 DEF Entry
    <3> QED
      BY <3>1, <3>2 DEF Ahead
  <2>7. ASSUME NEW c \in Cameras, InitializeNetworkTables(c) PROVE Ahead(e)'
    <3>1. Ahead(e) /\ file' = file
      BY <1>1, <2>3, <2>7 DEF InitializeNetworkTables, Serving
    <3>2. table'[e] = table[e] \/ (table'[e] = Present(e))
      BY <2>7 DEF InitializeNetworkTables
    <3>3. table[e] # None => table'[e] = table[e]
      BY <3>2 DEF Present
    <3> QED
      BY <3>1, <3>3 DEF Ahead
  <2>8. ASSUME NEW d \in Entries, NEW keys \in SUBSET Keys, Write(d, keys)
        PROVE  Ahead(e)'
    <3> DEFINE json == [n |-> writes + 1, keys |-> keys]
    <3>1. /\ Ahead(e) /\ file' = file /\ writes < MaxWrites
          /\ table' = [table EXCEPT ![d] = json]
      BY <1>1, <2>3, <2>8 DEF Write, Serving
    <3>2. json # None /\ json.n = writes + 1
      BY <1>0, <3>1, WrittenFacts DEF EntriesOK
    <3> HIDE DEF json
    <3>3. CASE d = e
      <4>1. table'[e] = json
        BY <2>1, <3>1, <3>3
      <4>2. file[e] # None => file[e].n <= writes /\ file[e].n \in Nat
        BY <2>1, <2>2 DEF Entry
      <4>3. file[e] # None => json.n >= file[e].n
        BY <2>1, <3>2, <4>2
      <4> QED
        BY <3>1, <3>2, <4>1, <4>3 DEF Ahead
    <3>4. CASE d # e
      BY <2>1, <3>1, <3>4 DEF Ahead
    <3> QED
      BY <3>3, <3>4
  <2>9. CASE Connected
    BY <1>1, <2>3, <2>9 DEF Connected, IInv, StartInv
  <2>10. CASE StartPoller \/ Update \/ \E c \in Cameras : InitializeCamera(c)
    <3>1. UNCHANGED <<mode, table, file>> /\ pc \in {"listen", "run", "read"}
      BY <2>10 DEF StartPoller, Update, InitializeCamera
    <3> QED
      BY <1>1, <2>3, <3>1 DEF Serving, Ahead
  <2>11. CASE UNCHANGED vars
    BY <1>1, <2>3, <2>11 DEF Serving, Ahead
  <2>12. CASE Idle
    <3>1. UNCHANGED <<mode, table, file>>
      BY <2>12, IdleFacts
    <3>2. Serving
      <4>1. pc' \notin {"down", "begin", "failed", "given up"}
        BY <1>1, <3>1 DEF Serving
      <4>2. pc' = pc \/ StartClient
        BY <2>12, <4>1 DEF Idle, GiveUp, Connect, Disconnect, Called, Press, Release,
           Sample, LineFails, Refused, Boot
      <4>3. ~StartClient
        BY <1>1, <3>1 DEF StartClient
      <4> QED
        BY <4>1, <4>2, <4>3 DEF Serving
    <3> QED
      BY <1>1, <2>3, <3>1, <3>2 DEF Ahead
  <2> QED
    BY <2>4, <2>5, <2>6, <2>7, <2>8, <2>9, <2>10, <2>11, <2>12, StepCases
<1>2. \A e \in Entries : /\ table'[e] # None => table'[e].n <= writes'
                         /\ file'[e] # None => file'[e].n <= writes'
  BY <1>0 DEF EntriesOK, Entry
<1> QED
  BY <1>0, <1>1, <1>2 DEF TableInv, EntriesOK, Ahead

------------------------------------------------------------------------------
(* The daemon's settings.                                                  *)

Notification == [entry : Entries, json : Json]

\* The entries the controller has to follow.
Bound(e) == AfterRead(e) \/ pc = "run"

LEMMA FollowInit ==
  ASSUME IInv
  PROVE  /\ DOMAIN live = Entries /\ pending \in Seq(Notification)
         /\ \A e \in Entries \ missed : Bound(e) => Follows(e)
BY DEF IInv, FollowInv, Notification, Bound

\* Steps that change nothing the controller has to follow.
LEMMA FollowKept ==
  ASSUME IInv, UNCHANGED <<table, live, pending, missed>>,
         \A e \in Entries : Bound(e)' => Bound(e)
  PROVE  FollowInv'
<1>1. \A e \in Entries : Follows(e)' <=> Follows(e)
  BY DEF Follows
<1> QED
  BY <1>1, FollowInit DEF FollowInv, Notification, Bound

\* The controller handles the notification at the head.
LEMMA UpdateStep ==
  ASSUME IInv, Update
  PROVE  FollowInv'
<1>1. /\ pending # <<>> /\ pending' = Tail(pending) /\ pc = "run"
      /\ UNCHANGED <<table, missed>>
  BY DEF Update
<1>2. /\ DOMAIN live = Entries /\ pending \in Seq(Notification)
      /\ \A e \in Entries \ missed : Follows(e)
  BY <1>1, FollowInit DEF Bound
<1>3. /\ pending' \in Seq(Notification) /\ Len(pending) \in Nat
      /\ Len(pending') = Len(pending) - 1 /\ Len(pending) > 0
      /\ DOMAIN pending = 1..Len(pending) /\ DOMAIN pending' = 1..(Len(pending) - 1)
      /\ \A k \in 1..(Len(pending) - 1) : pending'[k] = pending[k + 1]
      /\ Head(pending) = pending[1]
  BY <1>1, <1>2, HeadTailProperties, LenProperties, EmptySeq
<1>4. \/ pc' \in {"failed", "hung"} /\ live' = live
      \/ /\ pc' = "run"
         /\ live' = [live EXCEPT ![pending[1].entry] =
                       Parsed(pending[1].entry, pending[1].json)]
  BY <1>1, <1>3 DEF Update, Handled
<1>5. DOMAIN live' = Entries
  BY <1>2, <1>4
<1>6. CASE pc' \in {"failed", "hung"}
  BY <1>3, <1>5, <1>6 DEF FollowInv, Notification, AfterRead
<1>7. ASSUME live' = [live EXCEPT ![pending[1].entry] =
                        Parsed(pending[1].entry, pending[1].json)],
             NEW e \in Entries \ missed
      PROVE  Follows(e)'
  <2>1. Follows(e)
    BY <1>2
  <2>2. CASE /\ live[e] = Parsed(e, table[e])
             /\ \A k \in DOMAIN pending : pending[k].entry # e
    <3>1. pending[1].entry # e
      BY <1>3, <2>2
    <3>2. live'[e] = live[e]
      BY <1>2, <1>7, <3>1
    <3>3. \A k \in DOMAIN pending' : pending'[k].entry # e
      BY <1>3, <2>2
    <3>4. live'[e] = Parsed(e, table'[e])
      BY <1>1, <2>2, <3>2
    <3> QED
      BY <3>3, <3>4 DEF Follows, Parsed
  <2>3. ASSUME NEW k \in DOMAIN pending,
               pending[k].entry = e, pending[k].json = table[e],
               \A l \in DOMAIN pending : l > k => pending[l].entry # e
        PROVE  Follows(e)'
    <3>1. CASE k = 1
      <4>1. live'[e] = Parsed(e, table'[e])
        BY <1>1, <1>2, <1>7, <2>3, <3>1
      <4>2. \A l \in DOMAIN pending' : pending'[l].entry # e
        <5> SUFFICES ASSUME NEW l \in DOMAIN pending' PROVE pending'[l].entry # e
          OBVIOUS
        <5>1. l + 1 \in DOMAIN pending /\ l + 1 > k /\ pending'[l] = pending[l + 1]
          BY <1>3, <3>1
        <5> QED
          BY <2>3, <5>1
      <4> QED
        BY <4>1, <4>2 DEF Follows, Parsed
    <3>2. CASE k # 1
      <4> DEFINE j == k - 1
      <4>1. j \in DOMAIN pending' /\ pending'[j] = pending[k]
        BY <1>3, <3>2
      <4>2. \A l \in DOMAIN pending' : l > j => pending'[l].entry # e
        <5> SUFFICES ASSUME NEW l \in DOMAIN pending', l > j
                     PROVE  pending'[l].entry # e
          OBVIOUS
        <5>1. l + 1 \in DOMAIN pending /\ l + 1 > k /\ pending'[l] = pending[l + 1]
          BY <1>3
        <5> QED
          BY <2>3, <5>1
      <4>3. pending'[j].entry = e /\ pending'[j].json = table'[e]
        BY <1>1, <2>3, <4>1
      <4> HIDE DEF j
      <4> QED
        BY <4>1, <4>2, <4>3 DEF Follows
    <3> QED
      BY <3>1, <3>2
  <2> QED
    BY <2>1, <2>2, <2>3 DEF Follows
<1> QED
  BY <1>1, <1>3, <1>4, <1>5, <1>6, <1>7 DEF FollowInv, Notification

\* A client writes an entry, and the listener, if it is there, notifies.
LEMMA WriteStep ==
  ASSUME IInv, NEW d \in Entries, NEW keys \in SUBSET Keys, Write(d, keys)
  PROVE  FollowInv'
<1> DEFINE json == [n |-> writes + 1, keys |-> keys]
<1>1. /\ writes < MaxWrites /\ table' = [table EXCEPT ![d] = json]
      /\ UNCHANGED <<pc, todo, live>>
      /\ pending' = IF pc = "run"
                    THEN Append(pending, [entry |-> d, json |-> json])
                    ELSE pending
      /\ missed' = IF pc = "run" THEN missed \ {d}
                   ELSE IF AfterRead(d) THEN missed \cup {d} ELSE missed
  BY DEF Write
<1>2. EntriesOK /\ json \in Json
  BY <1>1, EntriesParts, WrittenFacts DEF IInv, EntriesOK
<1> HIDE DEF json
<1>3. /\ DOMAIN live = Entries /\ pending \in Seq(Notification)
      /\ \A e \in Entries \ missed : Bound(e) => Follows(e)
  BY FollowInit
<1>4. \A e \in Entries : /\ e # d => table'[e] = table[e]
                         /\ e = d => table'[e] = json
  BY <1>1, <1>2 DEF EntriesOK
<1>5. CASE pc # "run"
  <2>1. pending' = pending
    BY <1>1, <1>5
  <2>2. ASSUME NEW e \in Entries \ missed', Bound(e)' PROVE Follows(e)'
    <3>1. Bound(e) /\ AfterRead(e)
      BY <1>1, <1>5, <2>2 DEF Bound, AfterRead
    <3>2. e # d /\ e \notin missed
      BY <1>1, <1>5, <2>2, <3>1
    <3>3. Follows(e) /\ table'[e] = table[e]
      BY <1>3, <1>4, <3>1, <3>2
    <3> QED
      BY <1>1, <2>1, <3>3 DEF Follows, Parsed
  <2> QED
    BY <1>1, <1>3, <2>1, <2>2 DEF FollowInv, Notification, Bound
<1>6. CASE pc = "run"
  <2> DEFINE new == [entry |-> d, json |-> json]
  <2>1. new \in Notification /\ new.entry = d /\ new.json = json
    BY <1>2 DEF Notification
  <2>2. pending' = Append(pending, new) /\ missed' = missed \ {d}
    BY <1>1, <1>6
  <2> HIDE DEF new
  <2>3. /\ pending' \in Seq(Notification) /\ Len(pending) \in Nat
        /\ DOMAIN pending = 1..Len(pending)
        /\ DOMAIN pending' = 1..(Len(pending) + 1)
        /\ \A k \in 1..Len(pending) : pending'[k] = pending[k]
        /\ pending'[Len(pending) + 1] = new
    <3>1. /\ Append(pending, new) \in Seq(Notification)
          /\ Len(Append(pending, new)) = Len(pending) + 1
          /\ \A k \in 1..Len(pending) : Append(pending, new)[k] = pending[k]
          /\ Append(pending, new)[Len(pending) + 1] = new
      BY <1>3, <2>1, AppendProperties
    <3> QED
      BY <1>3, <2>2, <3>1, LenProperties
  <2>4. Follows(d)'
    <3> DEFINE k == Len(pending) + 1
    <3>1. k \in DOMAIN pending' /\ pending'[k].entry = d /\ pending'[k].json = table'[d]
      BY <1>4, <2>1, <2>3
    <3>2. \A l \in DOMAIN pending' : ~(l > k)
      BY <2>3
    <3> HIDE DEF k
    <3> QED
      BY <3>1, <3>2 DEF Follows
  <2>5. ASSUME NEW e \in Entries \ missed', e # d PROVE Follows(e)'
    <3>1. Follows(e) /\ table'[e] = table[e]
      BY <1>3, <1>4, <1>6, <2>2, <2>5 DEF Bound
    <3>2. CASE /\ live[e] = Parsed(e, table[e])
               /\ \A k \in DOMAIN pending : pending[k].entry # e
      <4>1. \A k \in DOMAIN pending' : pending'[k].entry # e
        BY <2>1, <2>3, <2>5, <3>2
      <4>2. live'[e] = Parsed(e, table'[e])
        BY <1>1, <3>1, <3>2
      <4> QED
        BY <4>1, <4>2 DEF Follows, Parsed
    <3>3. ASSUME NEW k \in DOMAIN pending,
                 pending[k].entry = e, pending[k].json = table[e],
                 \A l \in DOMAIN pending : l > k => pending[l].entry # e
          PROVE  Follows(e)'
      <4>1. k \in DOMAIN pending' /\ pending'[k] = pending[k]
        BY <2>3
      <4>2. \A l \in DOMAIN pending' : l > k => pending'[l].entry # e
        BY <2>1, <2>3, <2>5, <3>3
      <4>3. pending'[k].entry = e /\ pending'[k].json = table'[e]
        BY <3>1, <3>3, <4>1
      <4> QED
        BY <4>1, <4>2, <4>3 DEF Follows
    <3> QED
      BY <3>1, <3>2, <3>3 DEF Follows
  <2> QED
    BY <1>1, <1>3, <2>3, <2>4, <2>5 DEF FollowInv, Notification
<1> QED
  BY <1>5, <1>6

\* A camera's settings are read.
LEMMA ReadStep ==
  ASSUME IInv, NEW c \in Cameras, InitializeCamera(c)
  PROVE  FollowInv'
<1>1. /\ pc = "read" /\ pending = <<>> /\ UNCHANGED <<pending, missed, table>>
  BY DEF InitializeCamera, IInv, StartInv
<1>2. DOMAIN live = Entries /\ pending \in Seq(Notification)
      /\ \A e \in Entries \ missed : Bound(e) => Follows(e)
  BY FollowInit
<1>3. CASE pc' = "failed"
  BY <1>1, <1>2, <1>3 DEF InitializeCamera, FollowInv, Notification, AfterRead
<1>4. CASE pc' # "failed"
  <2>1. /\ live' = [e \in Entries |->
                      IF e[1] = c THEN Parsed(e, table[e]) ELSE live[e]]
        /\ todo' = todo \ {c}
        /\ pc' = IF todo = {c} THEN "listen" ELSE pc
    BY <1>4 DEF InitializeCamera
  <2>2. ASSUME NEW e \in Entries \ missed', Bound(e)' PROVE Follows(e)'
    <3>1. live'[e] = Parsed(e, table[e])
      <4>1. CASE e[1] = c
        BY <2>1, <4>1
      <4>2. CASE e[1] # c
        <5>1. AfterRead(e)
          BY <1>1, <2>1, <2>2, <4>2 DEF Bound, AfterRead
        <5>2. Follows(e) /\ e \notin missed
          BY <1>1, <1>2, <5>1 DEF Bound
        <5>3. live[e] = Parsed(e, table[e])
          BY <1>1, <5>2 DEF Follows
        <5> QED
          BY <2>1, <4>2, <5>3
      <4> QED
        BY <4>1, <4>2
    <3>2. \A k \in DOMAIN pending' : pending'[k].entry # e
      BY <1>1
    <3> QED
      BY <1>1, <3>1, <3>2 DEF Follows, Parsed
  <2> QED
    BY <1>1, <1>2, <2>1, <2>2 DEF FollowInv, Notification, Bound
<1> QED
  BY <1>3, <1>4

LEMMA FollowStep ==
  ASSUME IInv, [Next]_vars
  PROVE  FollowInv'
<1>1. CASE UNCHANGED vars
  BY <1>1, FollowKept DEF Bound, AfterRead
<1>2. CASE Idle
  <2>1. UNCHANGED <<table, live, pending, missed, todo>>
    BY <1>2, IdleFacts
  <2>2. pc' \in {pc, "waiting", "failed", "given up"}
    BY <1>2 DEF Idle, GiveUp, StartClient, Connect, Disconnect, Called, Press, Release,
       Sample, LineFails, Refused, Boot
  <2>3. \A e \in Entries : Bound(e)' => Bound(e)
    BY <2>1, <2>2 DEF Bound, AfterRead
  <2> QED
    BY <2>1, <2>3, FollowKept
<1>3. CASE Launch \/ StartServer \/ Dark
  <2>1. /\ pc' \in {"begin", "defaults", "down"}
        /\ live' \in {live, NoEntries} /\ pending' \in {pending, <<>>}
    BY <1>3 DEF Launch, StartServer, Dark
  <2>2. DOMAIN live' = Entries /\ pending' \in Seq(Notification)
    BY <2>1, FollowInit, EmptySeq DEF NoEntries
  <2> QED
    BY <2>1, <2>2 DEF FollowInv, Notification, AfterRead
<1>4. CASE Connected \/ StartPoller \/ Save
  <2>1. UNCHANGED <<table, live, pending, missed>>
    BY <1>4 DEF Connected, StartPoller, Save
  <2>2. \A e \in Entries : Bound(e)' => Bound(e)
    BY <1>4 DEF Connected, StartPoller, Save, Bound, AfterRead
  <2> QED
    BY <2>1, <2>2, FollowKept
<1>5. ASSUME NEW c \in Cameras, InitializeNetworkTables(c) PROVE FollowInv'
  <2>1. /\ UNCHANGED <<live, pending>>
        /\ pc' = "defaults" \/ (pc' = "read" /\ todo' = Cameras)
    BY <1>5 DEF InitializeNetworkTables
  <2>2. \A e \in Entries : e[1] \in Cameras
    BY DEF Entries
  <2>3. \A e \in Entries : ~Bound(e)'
    BY <2>1, <2>2 DEF Bound, AfterRead
  <2> QED
    BY <2>1, <2>3, FollowInit DEF FollowInv, Notification, Bound
<1> QED
  BY <1>1, <1>2, <1>3, <1>4, <1>5, StepCases, UpdateStep, WriteStep, ReadStep

------------------------------------------------------------------------------
(* The form of the settings.                                               *)

\* What the daemon puts there itself can be read.
LEMMA DefaultIsReadable ==
  ASSUME NEW e \in Entries
  PROVE  Readable(e, Default(e))
<1>1. e[2] \in {"capture", "pipeline", "stream"}
  BY DEF Entries, Kinds
<1>2. Default(e).keys = Complete(e)
  BY DEF Default
<1>3. ReadableCapture(CaptureKeys) /\ ReadableStream(StreamKeys)
  BY DEF ReadableCapture, ReadableStream
<1>4. ReadablePipeline(PipelineKeys)
  BY DEF ReadablePipeline, ReadableFilter, ReadableLog, PipelineKeys
<1> QED
  BY <1>1, <1>2, <1>3, <1>4 DEF Readable, Complete

\* What a client writes can be read, unless it is a mistake.
LEMMA SoundIsReadable ==
  ASSUME NEW e \in Entries, NEW keys \in Sound[e[2]], NEW json, json.keys = keys
  PROVE  Readable(e, json)
<1>1. e[2] \in {"capture", "pipeline", "stream"}
  BY DEF Entries, Kinds
<1> QED
  BY <1>1, SoundAssumption DEF Readable, ReadableCapture, ReadablePipeline,
     ReadableFilter, ReadableLog, ReadableStream

\* A mistake is not forgotten.
LEMMA BrokenStays ==
  ASSUME [Next]_vars, broken
  PROVE  broken'
BY StepCases, IdleFacts DEF Launch, StartServer, Connected, StartPoller,
   InitializeNetworkTables, InitializeCamera, Update, Save, Dark, Write

LEMMA PresentStep ==
  ASSUME IInv, [Next]_vars
  PROVE  PresentInv'
<1>0. /\ PresentInv /\ DOMAIN table = Entries /\ todo \subseteq Cameras
      /\ \A e \in Entries : e[1] \in Cameras
  BY DEF IInv, TableInv, TypeOK, Entries
<1>1. CASE UNCHANGED <<pc, todo, table>>
  BY <1>0, <1>1 DEF PresentInv
<1>2. CASE Idle
  <2>1. UNCHANGED <<todo, table>>
    BY <1>2, IdleFacts
  <2>2. pc' \in {pc, "waiting", "failed", "given up"}
    BY <1>2 DEF Idle, GiveUp, StartClient, Connect, Disconnect, Called, Press,
       Release, Sample, LineFails, Refused, Boot
  <2> QED
    BY <1>0, <2>1, <2>2 DEF PresentInv
<1>3. CASE Launch \/ Dark
  BY <1>3 DEF Launch, Dark, PresentInv
<1>4. CASE StartServer \/ Connected
  BY <1>0, <1>4 DEF StartServer, Connected, PresentInv
<1>5. ASSUME NEW c \in Cameras, InitializeNetworkTables(c) PROVE PresentInv'
  <2>1. /\ pc = "defaults" /\ c \in todo
        /\ todo' = IF todo = {c} THEN Cameras ELSE todo \ {c}
        /\ pc' = IF todo = {c} THEN "read" ELSE pc
    BY <1>5 DEF InitializeNetworkTables
  <2>2. \A e \in Entries : e[1] = c \/ e[1] \notin todo => table'[e] # None
    <3> SUFFICES ASSUME NEW e \in Entries, e[1] = c \/ e[1] \notin todo
                 PROVE  table'[e] # None
      OBVIOUS
    <3>1. Default(e) # None
      BY DefaultFacts
    <3>2. CASE e[1] # c
      <4>1. table'[e] = table[e]
        BY <1>5, <3>2 DEF InitializeNetworkTables
      <4> QED
        BY <1>0, <2>1, <3>2, <4>1 DEF PresentInv
    <3>3. CASE e[1] = c
      <4>1. table'[e] \in {Present(e), Default(e)}
        BY <1>5, <3>3 DEF InitializeNetworkTables
      <4> QED
        BY <3>1, <4>1 DEF Present
    <3> QED
      BY <3>2, <3>3
  <2>3. CASE todo = {c}
    BY <1>0, <2>1, <2>2, <2>3 DEF PresentInv
  <2>4. CASE todo # {c}
    BY <1>0, <2>1, <2>2, <2>4 DEF PresentInv
  <2> QED
    BY <2>3, <2>4
<1>6. ASSUME NEW c \in Cameras, InitializeCamera(c) PROVE PresentInv'
  <2>1. table' = table /\ pc = "read" /\ pc' \in {"read", "failed", "listen"}
    BY <1>6 DEF InitializeCamera
  <2> QED
    BY <1>0, <2>1 DEF PresentInv
<1>7. CASE StartPoller \/ Update
  <2>1. pc' \in {"run", "failed", "hung"}
    BY <1>7 DEF StartPoller, Update, Handled
  <2> QED
    BY <2>1 DEF PresentInv
<1>8. ASSUME NEW d \in Entries, NEW keys \in SUBSET Keys, Write(d, keys)
      PROVE  PresentInv'
  <2>1. /\ UNCHANGED <<pc, todo>>  /\ writes < MaxWrites
        /\ table' = [table EXCEPT ![d] = [n |-> writes + 1, keys |-> keys]]
    BY <1>8 DEF Write
  <2>2. [n |-> writes + 1, keys |-> keys] # None
    BY <2>1, WrittenFacts DEF IInv, TypeOK
  <2>3. \A e \in Entries : table[e] # None => table'[e] # None
    BY <1>0, <2>1, <2>2
  <2> QED
    BY <1>0, <2>1, <2>3 DEF PresentInv
<1> QED
  BY <1>1, <1>2, <1>3, <1>4, <1>5, <1>6, <1>7, <1>8, StepCases DEF Save

\* A setting there is, and can be read.
Legible(e, x) == x # None => Readable(e, x)

LEMMA FormStep ==
  ASSUME IInv, [Next]_vars
  PROVE  FormInv'
<1> SUFFICES ASSUME ~broken'
             PROVE  /\ \A e \in Entries : /\ Legible(e, table'[e])
                                          /\ Legible(e, file'[e])
                    /\ \A k \in DOMAIN pending' :
                         Readable(pending'[k].entry, pending'[k].json)
  BY DEF FormInv, Legible, Readable
<1>0. /\ \A e \in Entries : Legible(e, table[e]) /\ Legible(e, file[e])
      /\ \A k \in DOMAIN pending :
           Readable(pending[k].entry, pending[k].json)
  <2>1. ~broken
    BY BrokenStays
  <2> QED
    BY <2>1 DEF IInv, FormInv, Legible
<1>d. /\ DOMAIN table = Entries /\ \A e \in Entries : Legible(e, None)
      /\ pending \in Seq(Notification)
  BY DEF IInv, TableInv, FollowInv, Legible, Notification
<1>1. CASE UNCHANGED <<table, file, pending>>
  BY <1>0, <1>1
<1>2. CASE Launch \/ Dark
  <2>1. /\ file' = file /\ table' \in {table, NoEntries} /\ DOMAIN pending' = {}
    BY <1>2 DEF Launch, Dark
  <2> QED
    BY <1>0, <1>d, <2>1 DEF NoEntries
<1>3. CASE StartServer
  BY <1>0, <1>3 DEF StartServer
<1>4. CASE Save
  <2>1. /\ UNCHANGED <<table, pending>>
        /\ file' = [e \in Entries |-> IF e \in Persistent THEN table[e] ELSE None]
    BY <1>4 DEF Save
  <2> QED
    BY <1>0, <1>d, <2>1
<1>5. ASSUME NEW c \in Cameras, InitializeNetworkTables(c),
             NEW e \in Entries
      PROVE  Legible(e, table'[e])
  <2>1. table'[e] \in {table[e], Present(e), Default(e)}
    BY <1>5 DEF InitializeNetworkTables
  <2>2. Legible(e, Default(e))
    BY DefaultIsReadable DEF Legible
  <2> QED
    BY <1>0, <2>1, <2>2 DEF Present
<1>6. CASE Update
  <2>1. /\ pending # <<>> /\ pending' = Tail(pending) /\ UNCHANGED <<table, file>>
    BY <1>6 DEF Update
  <2>2. /\ DOMAIN pending' = 1..(Len(pending) - 1)
        /\ \A k \in 1..(Len(pending) - 1) : pending'[k] = pending[k + 1]
        /\ DOMAIN pending = 1..Len(pending) /\ Len(pending) \in Nat
    BY <1>d, <2>1, HeadTailProperties, LenProperties, EmptySeq
  <2>3. \A k \in DOMAIN pending' : k + 1 \in DOMAIN pending /\ pending'[k] = pending[k + 1]
    BY <2>2
  <2> QED
    BY <1>0, <2>1, <2>3
<1>7. ASSUME NEW d \in Entries, NEW keys \in Sound[d[2]] \cup Broken[d[2]],
             Write(d, keys)
      PROVE  /\ \A e \in Entries : Legible(e, table'[e]) /\ Legible(e, file'[e])
             /\ \A k \in DOMAIN pending' :
                  Readable(pending'[k].entry, pending'[k].json)
  <2> DEFINE json == [n |-> writes + 1, keys |-> keys]
             new  == [entry |-> d, json |-> json]
  <2>1. /\ broken' = (broken \/ keys \in Broken[d[2]]) /\ file' = file
        /\ table' = [table EXCEPT ![d] = json]
        /\ pending' = IF pc = "run" THEN Append(pending, new) ELSE pending
    BY <1>7 DEF Write
  <2>2. keys \in Sound[d[2]] /\ json.keys = keys
    BY <2>1
  <2>3. Readable(d, json) /\ new.entry = d /\ new.json = json
    BY <2>2, SoundIsReadable
  <2> HIDE DEF json
  <2>4. \A e \in Entries : Legible(e, table'[e])
    BY <1>0, <1>d, <2>1, <2>3 DEF Legible
  <2>5. \A k \in DOMAIN pending' : pending'[k] = new
                                  \/ (k \in DOMAIN pending /\ pending'[k] = pending[k])
    <3> HIDE DEF new
    <3>1. CASE pending' = pending
      BY <3>1
    <3>2. CASE pending' = Append(pending, new)
      <4>0. /\ Len(pending) \in Nat /\ DOMAIN pending = 1..Len(pending)
            /\ DOMAIN Append(pending, new) = 1..(Len(pending) + 1)
            /\ \A k \in 1..Len(pending) : Append(pending, new)[k] = pending[k]
            /\ Append(pending, new)[Len(pending) + 1] = new
        BY <1>d, AppendShape
      <4>1. /\ DOMAIN pending = 1..Len(pending)
            /\ Len(pending) \in Nat /\ DOMAIN pending' = 1..(Len(pending) + 1)
            /\ \A k \in 1..Len(pending) : pending'[k] = pending[k]
            /\ pending'[Len(pending) + 1] = new
        BY <3>2, <4>0, Zenon
      <4>2. ASSUME NEW k \in DOMAIN pending'
            PROVE  k = Len(pending) + 1 \/ k \in 1..Len(pending)
        BY <4>1
      <4> QED
        BY <4>1, <4>2, Zenon
    <3> QED
      BY <2>1, <3>1, <3>2
  <2> HIDE DEF new
  <2> QED
    BY <1>0, <2>1, <2>3, <2>4, <2>5
<1>8. CASE UNCHANGED vars \/ Idle \/ Connected \/ StartPoller
             \/ \E c \in Cameras : InitializeCamera(c)
  <2>1. UNCHANGED <<table, file, pending>>
    BY <1>8, IdleFacts DEF Connected, StartPoller, InitializeCamera
  <2> QED
    BY <1>1, <2>1
<1>9. \A c \in Cameras : InitializeNetworkTables(c) => UNCHANGED <<file, pending>>
  BY DEF InitializeNetworkTables
<1> QED
  BY <1>0, <1>2, <1>3, <1>4, <1>5, <1>6, <1>7, <1>8, <1>9, ClientCases

\* A daemon that fails has read a setting a client broke, or was called twice.
LEMMA CauseStep ==
  ASSUME IInv, [Next]_vars
  PROVE  FailureHasCause'
<1>0. FailureHasCause /\ StartInv /\ PresentInv /\ FormInv
  BY DEF IInv
<1> DEFINE Failed == {"failed", "given up", "hung"}
<1>1. CASE UNCHANGED <<pc, calls, broken>>
  BY <1>0, <1>1 DEF FailureHasCause
<1>2. CASE Connect \/ Disconnect
  <2>1. /\ pc = "waiting" /\ calls' = calls + 1 /\ broken' = broken
        /\ pc' = IF calls = 0 THEN pc ELSE "failed"
    BY <1>2 DEF Connect, Disconnect, Called
  <2>2. calls \in {0, 1}
    BY <1>0, <2>1 DEF StartInv
  <2> QED
    BY <2>1, <2>2 DEF FailureHasCause
<1>3. CASE GiveUp
  BY <1>0, <1>3 DEF GiveUp, FailureHasCause
<1>4. ASSUME NEW c \in Cameras, InitializeCamera(c) PROVE FailureHasCause'
  <2>1. CASE \A e \in Entries : e[1] = c => Readable(e, table[e])
    <3>1. pc' \notin Failed
      BY <1>4, <2>1 DEF InitializeCamera
    <3> QED
      BY <3>1 DEF FailureHasCause
  <2>2. ASSUME NEW e \in Entries, ~Readable(e, table[e]) PROVE broken'
    <3>1. table[e] # None /\ broken' = broken
      BY <1>0, <1>4 DEF InitializeCamera, PresentInv
    <3> QED
      BY <1>0, <2>2, <3>1 DEF FormInv
  <2> QED
    BY <2>1, <2>2 DEF FailureHasCause
<1>5. CASE Update
  <2>1. /\ pc = "run" /\ broken' = broken /\ pending # <<>>
        /\ pending \in Seq(Notification)
        /\ \/ Readable(Head(pending).entry, Head(pending).json) /\ pc' = pc
           \/ ~Readable(Head(pending).entry, Head(pending).json)
    BY <1>5 DEF Update, Handled, IInv, FollowInv, Notification
  <2>2. Head(pending) = pending[1] /\ 1 \in DOMAIN pending
    <3>1. Len(pending) \in Nat /\ Len(pending) > 0 /\ DOMAIN pending = 1..Len(pending)
      BY <2>1, LenProperties, EmptySeq
    <3> QED
      BY <2>1, <3>1, HeadTailProperties
  <2> QED
    BY <1>0, <2>1, <2>2 DEF FormInv, FailureHasCause
<1>6. ASSUME NEW e \in Entries, NEW keys \in SUBSET Keys, Write(e, keys)
      PROVE  FailureHasCause'
  <2>1. UNCHANGED <<pc, calls>>
    BY <1>6 DEF Write
  <2>2. broken => broken'
    BY BrokenStays
  <2> QED
    BY <1>0, <2>1, <2>2 DEF FailureHasCause
<1>7. CASE Launch \/ Dark \/ StartServer \/ StartClient \/ Connected \/ StartPoller
  <2>1. pc' \notin Failed
    BY <1>7 DEF Launch, Dark, StartServer, StartClient, Connected, StartPoller
  <2> QED
    BY <2>1 DEF FailureHasCause
<1>8. ASSUME NEW c \in Cameras, InitializeNetworkTables(c) PROVE FailureHasCause'
  <2>1. pc' \notin Failed
    BY <1>8 DEF InitializeNetworkTables
  <2> QED
    BY <2>1 DEF FailureHasCause
<1>9. CASE Save \/ Press \/ Release \/ Sample \/ LineFails \/ Refused \/ Boot
  <2>1. UNCHANGED <<pc, calls, broken>>
    BY <1>9 DEF Save, Press, Release, Sample, LineFails, Refused, Boot
  <2> QED
    BY <1>1, <2>1
<1> QED
  BY <1>1, <1>2, <1>3, <1>4, <1>5, <1>6, <1>7, <1>8, <1>9, StepCases DEF Idle

------------------------------------------------------------------------------
(* The theorems.                                                           *)

LEMMA IInvStep == IInv /\ [Next]_vars => IInv'
BY TypeStep, TableStep, FollowStep, PresentStep, FormStep, CauseStep DEF IInv

\* The inductive invariant of a unit: the order of its start, and how its
\* table, its file and the daemon's settings are related (controller.cpp:59-111,
\* 498-599).
THEOREM Inductive == Spec => []IInv
<1> QED
  BY IInvInit, IInvStep, PTL DEF Spec

\* Every variable keeps its range (controller.cpp:59-111, shutdown.cpp:39-55).
THEOREM TypeCorrect == Spec => []TypeOK
<1>1. IInv => TypeOK
  BY DEF IInv
<1> QED
  BY <1>1, Inductive, PTL

\* A daemon fails only for a setting that a client broke or a connection that
\* it lost while it started, never for a setting of an older version or a
\* default of its own (pipeline_config.cpp:20-33, frame_log_config.cpp:24-41,
\* controller.cpp:528-537).
THEOREM FailuresExplained == Spec => []FailureHasCause
<1>1. IInv => FailureHasCause
  BY DEF IInv
<1> QED
  BY <1>1, Inductive, PTL

\* A daemon with nothing left to handle has the settings in NetworkTables,
\* but for those written between its reading and its listening
\* (controller.cpp:96-110,543-547,591-598).
THEOREM ControllerFollows == Spec => []ConfigFollows
<1>1. IInv => ConfigFollows
  <2> SUFFICES ASSUME IInv, pc = "run", pending = <<>>, NEW e \in Entries \ missed
               PROVE  live[e] = Parsed(e, table[e])
    BY DEF ConfigFollows
  <2>1. Follows(e)
    BY FollowInit DEF Bound
  <2> QED
    BY <2>1 DEF Follows
<1> QED
  BY <1>1, Inductive, PTL

------------------------------------------------------------------------------
(* UnitLife implements SettingsStore.                                      *)

now  == [e \in Persistent |-> Age(Current[e])]
kept == [e \in Persistent |-> Age(Kept[e])]

StoreStep == Store!Next \/ UNCHANGED <<mode, writes, now, kept>>

LEMMA StoreInit == Init => Store!Init
<1> SUFFICES ASSUME Init PROVE Store!Init
  OBVIOUS
<1>1. \A e \in Persistent : Current[e] = None /\ Kept[e] = None
  BY DEF Init, Current, Kept, NoEntries, Persistent
<1>2. writes + 1 = 1 /\ (mode = "client") \in BOOLEAN
  BY DEF Init
<1> QED
  BY <1>1, <1>2 DEF Store!Init, Age

\* The age of what is there is never that of nothing.
LEMMA AgeFacts ==
  ASSUME EntriesOK, NEW e \in Entries
  PROVE  /\ Age(table[e]) = 0 <=> table[e] = None
         /\ Age(Default(e)) = 1
<1>1. table[e] # None => table[e].n \in Nat
  BY BoundFacts DEF EntriesOK, Entry, Json
<1>2. Age(table[e]) = 0 <=> table[e] = None
  BY <1>1 DEF Age
<1>3. Age(Default(e)) = 1
  BY DefaultFacts DEF Age
<1> QED
  BY <1>2, <1>3

LEMMA ModeFacts ==
  ASSUME IInv, [Next]_vars
  PROVE  mode' = mode /\ mode \in {"server", "client"}
BY StepCases, IdleFacts DEF IInv, TypeOK, Launch, StartServer, Connected,
   StartPoller, InitializeNetworkTables, InitializeCamera, Update, Save, Dark, Write

\* What depends on the table and the file alone.
LEMMA KeptStays ==
  ASSUME UNCHANGED <<mode, table, file>>
  PROVE  kept' = kept
BY DEF kept, Kept

LEMMA NowStays ==
  ASSUME UNCHANGED <<mode, table, file>>, mode = "server" => (Serving' <=> Serving)
  PROVE  now' = now
BY DEF now, Current

\* While the settings are served, the store is the table, and where the robot
\* serves them nothing more is to be saved.
LEMMA ServingSaves ==
  ASSUME UNCHANGED <<mode, file>>, mode \in {"server", "client"}, Serving, Serving'
  PROVE  /\ now = [e \in Persistent |-> Age(table[e])]
         /\ now' = [e \in Persistent |-> Age(table'[e])]
         /\ kept' = IF mode = "client" THEN now' ELSE kept
BY DEF now, kept, Current, Kept

\* The unit's own server is there when it has read its file.
LEMMA ServingBegins ==
  ASSUME [Next]_vars, mode = "server", ~Serving, Serving'
  PROVE  StartServer
BY StepCases DEF Serving, Idle, GiveUp, StartClient, Connect, Disconnect, Called,
   Press, Release, Sample, LineFails, Refused, Boot, Launch, Connected, StartPoller,
   InitializeNetworkTables, InitializeCamera, Update, Save, Dark, Write

\* A write goes into the table, with a greater age than all before.
LEMMA WriteRefines ==
  ASSUME IInv, NEW e \in Entries, NEW keys \in SUBSET Keys, Write(e, keys)
  PROVE  Store!Next
<1> DEFINE json == [n |-> writes + 1, keys |-> keys]
<1>0. EntriesOK /\ mode \in {"server", "client"}
  BY EntriesParts DEF IInv, TypeOK
<1>1. /\ Serving /\ Serving' /\ UNCHANGED <<mode, file>>
      /\ writes < MaxWrites /\ writes' = writes + 1
      /\ table' = [table EXCEPT ![e] = json]
  BY DEF Write, Serving
<1>2. Age(json) = writes + 1 + 1
  BY <1>0, <1>1, WrittenFacts DEF EntriesOK, Age
<1>3. \A d \in Entries : table'[d] = IF d = e THEN json ELSE table[d]
  BY <1>0, <1>1 DEF EntriesOK
<1>4. /\ now = [d \in Persistent |-> Age(table[d])]
      /\ now' = [d \in Persistent |-> Age(table'[d])]
      /\ kept' = IF mode = "client" THEN now' ELSE kept
  BY <1>0, <1>1, ServingSaves
<1> HIDE DEF json
<1>5. CASE e \in Persistent
  <2>1. now' = [now EXCEPT ![e] = writes + 1 + 1]
    BY <1>2, <1>3, <1>4, <1>5 DEF Persistent
  <2>2. Store!Write(e)
    BY <1>1, <1>4, <2>1 DEF Store!Write, Store!Saving, now, kept
  <2> QED
    BY <1>5, <2>2 DEF Store!Next
<1>6. CASE e \notin Persistent
  <2>1. now' = now
    BY <1>3, <1>4, <1>6 DEF Persistent
  <2>2. kept' = kept
    <3>1. mode = "client" => kept = now
      BY DEF kept, now, Kept, Current
    <3> QED
      BY <1>4, <2>1, <3>1
  <2>3. Store!WriteElsewhere
    BY <1>1, <2>1, <2>2 DEF Store!WriteElsewhere, now, kept
  <2> QED
    BY <2>3 DEF Store!Next
<1> QED
  BY <1>5, <1>6

\* A camera's defaults go where there is nothing.
LEMMA DefaultsRefine ==
  ASSUME IInv, NEW c \in Cameras, InitializeNetworkTables(c)
  PROVE  Store!Next
<1> DEFINE some == {e \in Persistent : e[1] = c}
<1>0. EntriesOK /\ mode \in {"server", "client"}
  BY EntriesParts DEF IInv, TypeOK
<1>1. /\ Serving /\ Serving' /\ UNCHANGED <<mode, file, writes>>
      /\ \A e \in Persistent :
           table'[e] = IF e[1] = c THEN Present(e) ELSE table[e]
  BY DEF InitializeNetworkTables, Serving, Persistent
<1>2. /\ now = [e \in Persistent |-> Age(table[e])]
      /\ now' = [e \in Persistent |-> Age(table'[e])]
      /\ kept' = IF mode = "client" THEN now' ELSE kept
  BY <1>0, <1>1, ServingSaves
<1>3. ASSUME NEW e \in Persistent
      PROVE  now'[e] = IF e \in some /\ now[e] = 0 THEN 1 ELSE now[e]
  <2>1. /\ Age(table[e]) = 0 <=> table[e] = None
        /\ Age(Default(e)) = 1
    BY <1>0, AgeFacts DEF Persistent
  <2> QED
    BY <1>1, <1>2, <2>1 DEF Present
<1>4. now' = [e \in Persistent |-> IF e \in some /\ now[e] = 0 THEN 1 ELSE now[e]]
  BY <1>2, <1>3
<1>5. Store!Fill(some)
  BY <1>1, <1>2, <1>4 DEF Store!Fill, Store!Saving, now, kept
<1>6. some \in SUBSET Persistent
  OBVIOUS
<1> QED
  BY <1>5, <1>6 DEF Store!Next

\* The server saves all that it serves.
LEMMA SaveRefines ==
  ASSUME Save
  PROVE  Store!Next
<1>1. /\ mode = "server" /\ Serving /\ Serving'
      /\ UNCHANGED <<mode, table, writes>>
      /\ \A e \in Persistent : file'[e] = table[e]
  BY DEF Save, Serving, Persistent
<1>2. now' = now /\ kept' = now
  BY <1>1 DEF now, kept, Current, Kept
<1>3. Store!Save
  BY <1>1, <1>2 DEF Store!Save, now, kept
<1> QED
  BY <1>3 DEF Store!Next

\* A unit whose server ends has what its file has.
LEMMA LossRefines ==
  ASSUME UNCHANGED <<mode, file, writes>>, mode = "server", ~Serving'
  PROVE  Store!Next
<1>1. now' = kept /\ kept' = kept
  BY DEF now, kept, Current, Kept
<1>2. Store!Lose
  BY <1>1 DEF Store!Lose, now, kept
<1> QED
  BY <1>2 DEF Store!Next

LEMMA StoreNext ==
  IInv /\ [Next]_vars => [Store!Next]_(Store!vars)
<1> SUFFICES ASSUME IInv, [Next]_vars PROVE StoreStep
  BY DEF StoreStep, Store!vars, now, kept
<1>0. mode' = mode /\ mode \in {"server", "client"}
  BY ModeFacts
<1>1. CASE UNCHANGED <<table, file, writes>>
  <2>1. CASE mode = "server" => (Serving' <=> Serving)
    BY <1>0, <1>1, <2>1, KeptStays, NowStays DEF StoreStep
  <2>2. CASE mode = "server" /\ ~Serving'
    BY <1>0, <1>1, <2>2, LossRefines DEF StoreStep
  <2>3. CASE mode = "server" /\ Serving' /\ ~Serving
    <3>1. table' = file
      BY <2>3, ServingBegins DEF StartServer
    <3>2. now' = now
      BY <1>0, <1>1, <2>3, <3>1 DEF now, Current
    <3> QED
      BY <1>0, <1>1, <3>2, KeptStays DEF StoreStep
  <2> QED
    BY <2>1, <2>2, <2>3
<1>2. CASE Launch \/ Dark
  <2>1. UNCHANGED <<file, writes>> /\ (mode = "server" => ~Serving')
    BY <1>0, <1>2 DEF Launch, Dark, Serving
  <2>2. mode = "client" => table' = table
    BY <1>2 DEF Launch, Dark
  <2> QED
    BY <1>0, <1>1, <2>1, <2>2, LossRefines DEF StoreStep
<1>3. CASE StartServer
  <2>1. /\ mode = "server" /\ ~Serving /\ Serving'
        /\ table' = file /\ UNCHANGED <<file, writes>>
    BY <1>3 DEF StartServer, Serving
  <2>2. now' = now /\ kept' = kept
    BY <1>0, <2>1 DEF now, kept, Current, Kept
  <2> QED
    BY <1>0, <2>1, <2>2 DEF StoreStep
<1>4. CASE Save
  BY <1>4, SaveRefines DEF StoreStep
<1>5. ASSUME NEW c \in Cameras, InitializeNetworkTables(c) PROVE StoreStep
  BY <1>5, DefaultsRefine DEF StoreStep
<1>6. ASSUME NEW e \in Entries, NEW keys \in SUBSET Keys, Write(e, keys)
      PROVE  StoreStep
  BY <1>6, WriteRefines DEF StoreStep
<1> QED
  BY <1>1, <1>2, <1>3, <1>4, <1>5, <1>6, SettingsCases

\* Daemon, NetworkTables server and persist file are one store of settings,
\* over any number of writes, failures, starts and power cuts
\* (controller.cpp:498-538,555-599).
THEOREM StoreRefinement == Spec => ImplementsStore
BY StoreInit, StoreNext, Inductive, PTL DEF Spec, ImplementsStore, Store!Spec
==============================================================================
