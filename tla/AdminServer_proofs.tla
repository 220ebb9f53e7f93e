-------------------------- MODULE AdminServer_proofs --------------------------
(***************************************************************************)
(* Proofs about AdminServer, for any cameras, any settings, and any number *)
(* of updates and connections that the listeners have not been told of.    *)
(***************************************************************************)
EXTENDS AdminServer, TLAPS, SequenceTheorems

USE DEF vars, client, flags, loading

------------------------------------------------------------------------------
(* The steps.                                                              *)

\* The steps that touch neither the settings nor what is shown of them.
Aside ==
  \/ ConnectionMade \/ ConnectionLost \/ ConnectionListener
  \/ HandleConnect \/ HandleMessage \/ HandleLinkRefresh
  \/ Loop \/ NoRefresh \/ EmitLink \/ Wake

LEMMA StepCases ==
  ASSUME [Next]_vars
  PROVE  \/ UNCHANGED vars \/ Aside
         \/ \E c \in Cameras, v \in AllValues : Receive(c, v)
         \/ \E c \in Cameras, v \in AllValues : SetEntry(c, v)
         \/ EntryListener \/ SetModel \/ LoadUnits \/ Listen \/ Loaded
         \/ EmitUnits \/ ClearRefresh
         \/ \E c \in Cameras : ReadCamera(c) \/ SkipCamera(c)
<1>1. \A c \in Cameras : Values[c] \subseteq AllValues
  BY DEF AllValues
<1> QED
  BY <1>1 DEF Next, NetworkTables, Handlers, Background, Aside

LEMMA AsideFacts ==
  ASSUME Aside
  PROVE  /\ UNCHANGED <<table, pending, todo, cur, listening, set, units, shown,
                        stale, lost>>
         /\ refresh_units' = refresh_units \/ refresh_units' = TRUE
         /\ hub' = "clearing" => hub = "clearing"
         /\ hub' = "loading" <=> hub = "loading"
<1> USE DEF Aside, ConnectionMade, ConnectionLost, ConnectionListener,
            HandleConnect, HandleMessage, HandleLinkRefresh, Loop, NoRefresh,
            EmitLink, Wake, At, Idle
<1>1. UNCHANGED <<table, pending, todo, cur, listening, set, units, shown,
                  stale, lost>>
  OBVIOUS
<1>2. refresh_units' = refresh_units \/ refresh_units' = TRUE
  OBVIOUS
<1>3. (hub' = "clearing" => hub = "clearing") /\ (hub' = "loading" <=> hub = "loading")
  OBVIOUS
<1> QED
  BY <1>1, <1>2, <1>3

LEMMA IInvInit == Init => IInv
<1> SUFFICES ASSUME Init PROVE IInv
  OBVIOUS
<1> USE DEF Init, NoUnits
<1>1. events \in Seq({"up", "down"}) /\ pending \in Seq(Cameras \X AllValues)
  OBVIOUS
<1>2. /\ table \in [Cameras -> AllValues \cup {None}]
      /\ units \in [Cameras -> AllValues \cup {None}]
      /\ shown \in [Cameras -> AllValues \cup {None}]
  OBVIOUS
<1>3. TypeOK
  BY <1>1, <1>2 DEF TypeOK, Places
<1>4. UnitsInv /\ FollowInv /\ ShownInv /\ BrowsersFollow
  BY DEF UnitsInv, FollowInv, Follows, IsSetting, IsPending, ShownInv,
     BrowsersFollow
<1> QED
  BY <1>3, <1>4 DEF IInv

------------------------------------------------------------------------------
(* The range of every variable.                                            *)

LEMMA FlagsStep ==
  ASSUME TypeOK, [Next]_vars
  PROVE  /\ nt' \in {"new", "started", "shut"} /\ up' \in BOOLEAN
         /\ running' \in BOOLEAN /\ load_units' \in BOOLEAN
         /\ refresh_units' \in BOOLEAN /\ refresh_link' \in BOOLEAN
         /\ link' \in BOOLEAN /\ asked' \in BOOLEAN /\ lost' \in BOOLEAN
<1> USE DEF TypeOK
<1>1. CASE UNCHANGED vars
  BY <1>1
<1>2. CASE ConnectionMade \/ ConnectionLost
  BY <1>2, ZenonT(40) DEF ConnectionMade, ConnectionLost
<1>3. CASE ConnectionListener
  BY <1>3 DEF ConnectionListener
<1>4. CASE \E c \in Cameras, v \in AllValues : Receive(c, v) \/ SetEntry(c, v)
  BY <1>4 DEF Receive, SetEntry
<1>5. CASE EntryListener
  BY <1>5 DEF EntryListener
<1>6. CASE HandleConnect \/ HandleMessage \/ HandleLinkRefresh \/ SetModel
  BY <1>6, ZenonT(40) DEF HandleConnect, HandleMessage, HandleLinkRefresh, SetModel
<1>7. CASE Loop
  BY <1>7 DEF Loop
<1>8. CASE EmitLink
  BY <1>8 DEF EmitLink
<1>9. CASE LoadUnits \/ Listen \/ Loaded
  BY <1>9, ZenonT(40) DEF LoadUnits, Listen, Loaded
<1>10. CASE EmitUnits \/ ClearRefresh
  BY <1>10 DEF EmitUnits, ClearRefresh
<1>11. CASE NoRefresh \/ Wake
  BY <1>11 DEF NoRefresh, Wake
<1>12. CASE \E c \in Cameras : ReadCamera(c) \/ SkipCamera(c)
  BY <1>12 DEF ReadCamera, SkipCamera
<1> QED
  BY <1>1, <1>2, <1>3, <1>4, <1>5, <1>6, <1>7, <1>8, <1>9, <1>10, <1>11, <1>12,
     StepCases
     DEF Aside

LEMMA QueuesStep ==
  ASSUME TypeOK, [Next]_vars
  PROVE  events' \in Seq({"up", "down"}) /\ pending' \in Seq(Cameras \X AllValues)
<1>1. events \in Seq({"up", "down"}) /\ pending \in Seq(Cameras \X AllValues)
  BY DEF TypeOK
<1>2. CASE UNCHANGED vars \/ Handlers \/ Background
  BY <1>1, <1>2 DEF Handlers, HandleConnect, HandleMessage, HandleLinkRefresh,
     SetModel, SetEntry, Background, Loop, LoadUnits, Listen, Loaded, EmitUnits,
     ClearRefresh, NoRefresh, EmitLink, Wake, ReadCamera, SkipCamera
<1>3. CASE ConnectionMade \/ ConnectionLost
  <2>1. /\ Append(events, "up") \in Seq({"up", "down"})
        /\ Append(events, "down") \in Seq({"up", "down"})
    BY <1>1
  <2> QED
    BY <1>1, <1>3, <2>1 DEF ConnectionMade, ConnectionLost
<1>4. ASSUME NEW c \in Cameras, NEW v \in Values[c], Receive(c, v)
      PROVE  events' \in Seq({"up", "down"}) /\ pending' \in Seq(Cameras \X AllValues)
  <2>1. <<c, v>> \in Cameras \X AllValues
    BY DEF AllValues
  <2>2. Append(pending, <<c, v>>) \in Seq(Cameras \X AllValues)
    BY <1>1, <2>1
  <2> QED
    BY <1>1, <1>4, <2>2 DEF Receive
<1>5. CASE ConnectionListener
  <2>1. events # <<>> => Tail(events) \in Seq({"up", "down"})
    BY <1>1
  <2>2. <<>> \in Seq({"up", "down"})
    OBVIOUS
  <2> QED
    BY <1>1, <1>5, <2>1, <2>2 DEF ConnectionListener
<1>6. CASE EntryListener
  <2>1. pending # <<>> => Tail(pending) \in Seq(Cameras \X AllValues)
    BY <1>1
  <2> QED
    BY <1>1, <1>6, <2>1 DEF EntryListener
<1> QED
  BY <1>2, <1>3, <1>4, <1>5, <1>6 DEF Next, NetworkTables

LEMMA PlacesStep ==
  ASSUME TypeOK, [Next]_vars
  PROVE  /\ hub' \in Places /\ todo' \subseteq Cameras /\ cur' \in todo' \cup {None}
         /\ set' \in (Cameras \X AllValues) \cup {None}
         /\ listening' \subseteq Cameras /\ stale' \subseteq Cameras
         /\ set' # None => hub' \in {"none", "waiting", "asleep", "ended"}
         /\ hub' # "loading" => cur' = None /\ todo' = {}
<1> USE DEF TypeOK, Places, At, Idle
<1>1. CASE UNCHANGED vars
  BY <1>1
<1>2. CASE Aside
  BY <1>2 DEF Aside, ConnectionMade, ConnectionLost, ConnectionListener,
     HandleConnect, HandleMessage, HandleLinkRefresh, Loop, NoRefresh, EmitLink,
     Wake
<1>3. CASE \E c \in Cameras, v \in AllValues : Receive(c, v)
  BY <1>3 DEF Receive
<1>4. CASE \E c \in Cameras, v \in AllValues : SetEntry(c, v)
  BY <1>4 DEF SetEntry
<1>5. CASE EntryListener
  <2>1. Head(pending)[1] \in Cameras
    BY <1>5 DEF EntryListener
  <2> QED
    BY <1>5, <2>1 DEF EntryListener
<1>6. CASE SetModel \/ LoadUnits \/ Loaded \/ EmitUnits \/ ClearRefresh
  BY <1>6 DEF SetModel, LoadUnits, Loaded, EmitUnits, ClearRefresh
<1>7. CASE Listen
  BY <1>7 DEF Listen
<1>8. CASE \E c \in Cameras : ReadCamera(c) \/ SkipCamera(c)
  BY <1>8 DEF ReadCamera, SkipCamera
<1> QED
  BY <1>1, <1>2, <1>3, <1>4, <1>5, <1>6, <1>7, <1>8, StepCases

LEMMA TablesStep ==
  ASSUME TypeOK, [Next]_vars
  PROVE  /\ table' \in [Cameras -> AllValues \cup {None}]
         /\ units' \in [Cameras -> AllValues \cup {None}]
         /\ shown' \in [Cameras -> AllValues \cup {None}]
<1> USE DEF TypeOK
<1>1. CASE UNCHANGED vars \/ Aside
  BY <1>1, AsideFacts
<1>2. CASE \E c \in Cameras, v \in AllValues : Receive(c, v) \/ SetEntry(c, v)
  BY <1>2 DEF Receive, SetEntry
<1>3. CASE EntryListener
  <2>1. Head(pending)[1] \in Cameras /\ Head(pending)[2] \in AllValues
    BY <1>3 DEF EntryListener
  <2> QED
    BY <1>3, <2>1 DEF EntryListener
<1>4. CASE SetModel
  BY <1>4 DEF SetModel
<1>5. CASE LoadUnits \/ Listen \/ Loaded \/ EmitUnits \/ ClearRefresh
  BY <1>5 DEF LoadUnits, Listen, Loaded, EmitUnits, ClearRefresh
<1>6. CASE \E c \in Cameras : ReadCamera(c) \/ SkipCamera(c)
  BY <1>6 DEF ReadCamera, SkipCamera
<1> QED
  BY <1>1, <1>2, <1>3, <1>4, <1>5, <1>6, StepCases

LEMMA TypeStep == TypeOK /\ [Next]_vars => TypeOK'
BY FlagsStep, QueuesStep, PlacesStep, TablesStep DEF TypeOK

------------------------------------------------------------------------------
(* Cameras, listeners and updates.                                         *)

LEMMA UnitsStep ==
  ASSUME TypeOK, UnitsInv, [Next]_vars
  PROVE  UnitsInv'
<1> USE DEF TypeOK, UnitsInv
<1>0. None \notin AllValues
  BY ServerAssumption
<1>1. CASE UNCHANGED vars \/ Aside
  BY <1>1, AsideFacts
<1>2. ASSUME NEW c \in Cameras, NEW v \in AllValues, Receive(c, v) PROVE UnitsInv'
  <2>1. /\ UNCHANGED <<units, listening, todo, cur, set>>
        /\ table' = [table EXCEPT ![c] = v]
        /\ pending' = IF table[c] = None THEN pending ELSE Append(pending, <<c, v>>)
    BY <1>2 DEF Receive
  <2>2. \A d \in Cameras : table[d] # None => table'[d] # None
    BY <1>0, <2>1
  <2>3. ASSUME NEW k \in DOMAIN pending' PROVE table'[pending'[k][1]] # None
    <3>1. CASE pending' = pending
      BY <2>2, <2>3, <3>1
    <3>2. CASE pending' = Append(pending, <<c, v>>)
      <4>1. CASE k = Len(pending) + 1
        BY <1>0, <2>1, <3>2, <4>1
      <4>2. CASE k # Len(pending) + 1
        <5>1. k \in DOMAIN pending /\ pending'[k] = pending[k]
          BY <2>3, <3>2, <4>2
        <5> QED
          BY <2>2, <5>1
      <4> QED
        BY <4>1, <4>2
    <3> QED
      BY <2>1, <3>1, <3>2
  <2> QED
    BY <2>1, <2>2, <2>3
<1>3. ASSUME NEW c \in Cameras, NEW v \in AllValues, SetEntry(c, v) PROVE UnitsInv'
  <2>1. /\ UNCHANGED <<units, listening, todo, cur, pending>>
        /\ table' = [table EXCEPT ![c] = v]
        /\ set' = <<c, v>> /\ units[c] # None
    BY <1>3 DEF SetEntry
  <2>2. \A d \in Cameras : table[d] # None => table'[d] # None
    BY <1>0, <2>1
  <2> QED
    BY <2>1, <2>2
<1>4. CASE EntryListener
  <2>1. /\ pending # <<>> /\ pending' = Tail(pending)
        /\ UNCHANGED <<table, listening, todo, cur, set>>
        /\ units' = units \/
             (/\ Head(pending)[1] \in listening
              /\ units' = [units EXCEPT ![Head(pending)[1]] = Head(pending)[2]])
    BY <1>4 DEF EntryListener
  <2>2. /\ Head(pending)[1] \in Cameras /\ Head(pending)[2] # None
        /\ table[Head(pending)[1]] # None
    BY <1>0, <2>1
  <2>3. \A d \in Cameras : /\ units[d] # None => units'[d] # None
                           /\ units'[d] # None => table'[d] # None
    BY <2>1, <2>2
  <2>4. ASSUME NEW k \in DOMAIN pending' PROVE table'[pending'[k][1]] # None
    <3>1. k + 1 \in DOMAIN pending /\ pending'[k] = pending[k + 1]
      BY <2>1, <2>4
    <3> QED
      BY <2>1, <3>1
  <2> QED
    BY <2>1, <2>3, <2>4
<1>5. CASE SetModel
  <2>1. /\ set[1] \in Cameras /\ set[2] \in AllValues
        /\ units' = [units EXCEPT ![set[1]] = set[2]]
        /\ units[set[1]] # None /\ set' = None
        /\ UNCHANGED <<table, pending, listening, todo, cur>>
    BY <1>5 DEF SetModel
  <2> QED
    BY <1>0, <2>1
<1>6. CASE LoadUnits \/ Loaded \/ EmitUnits \/ ClearRefresh
  BY <1>6 DEF LoadUnits, Loaded, EmitUnits, ClearRefresh
<1>7. CASE Listen
  BY <1>7 DEF Listen
<1>8. CASE \E c \in Cameras : ReadCamera(c) \/ SkipCamera(c)
  BY <1>8 DEF ReadCamera, SkipCamera
<1> QED
  BY <1>1, <1>2, <1>3, <1>4, <1>5, <1>6, <1>7, <1>8, StepCases

------------------------------------------------------------------------------
(* The units follow NetworkTables.                                         *)

LEMMA FollowKept ==
  ASSUME FollowInv, UNCHANGED <<table, pending, set, units, stale>>
  PROVE  FollowInv'
BY DEF FollowInv, Follows, LastPending, IsSetting, IsPending

\* What is appended for a camera is the last for it, and changes nothing for
\* the others.
LEMMA ReceiveStep ==
  ASSUME TypeOK, UnitsInv, FollowInv,
         NEW c \in Cameras, NEW v \in AllValues, Receive(c, v)
  PROVE  FollowInv'
<1>1. /\ UNCHANGED <<units, set>>
      /\ table' = [table EXCEPT ![c] = v]
      /\ pending' = IF table[c] = None THEN pending ELSE Append(pending, <<c, v>>)
      /\ stale' = IF IsSetting(c) THEN stale \cup {c} ELSE stale \ {c}
      /\ table \in [Cameras -> AllValues \cup {None}]
      /\ pending \in Seq(Cameras \X AllValues)
  BY DEF Receive, TypeOK
<1>2. \A d \in Cameras : IsSetting(d)' <=> IsSetting(d)
  BY <1>1 DEF IsSetting
<1>3. ASSUME NEW d \in Cameras \ stale', d # c PROVE Follows(d)'
  <2>1. d \notin stale /\ Follows(d) /\ table'[d] = table[d]
    BY <1>1, <1>3 DEF FollowInv
  <2>2. IsPending(d)' => IsPending(d)
    <3>1. SUFFICES ASSUME NEW k \in DOMAIN pending', pending'[k][1] = d
                   PROVE  IsPending(d)
      BY DEF IsPending
    <3>2. k \in DOMAIN pending /\ pending'[k] = pending[k]
      BY <1>1, <1>3, <3>1
    <3> QED
      BY <3>1, <3>2 DEF IsPending
  <2>3. LastPending(d) => LastPending(d)'
    <3>1. SUFFICES ASSUME NEW k \in DOMAIN pending, pending[k] = <<d, table[d]>>,
                          \A l \in DOMAIN pending : l > k => pending[l][1] # d
                   PROVE  LastPending(d)'
      BY DEF LastPending
    <3>2. k \in DOMAIN pending' /\ pending'[k] = <<d, table'[d]>>
      BY <1>1, <2>1, <3>1
    <3>3. ASSUME NEW l \in DOMAIN pending', l > k PROVE pending'[l][1] # d
      <4>1. CASE l \in DOMAIN pending
        BY <1>1, <3>1, <3>3, <4>1
      <4>2. CASE l \notin DOMAIN pending
        BY <1>1, <1>3, <3>3, <4>2
      <4> QED
        BY <4>1, <4>2
    <3> QED
      BY <3>2, <3>3 DEF LastPending
  <2> QED
    BY <1>1, <1>2, <2>1, <2>2, <2>3 DEF Follows
<1>4. ASSUME c \notin stale' PROVE Follows(c)'
  <2>1. ~IsSetting(c)
    BY <1>1, <1>4
  <2>2. CASE table[c] = None
    <3>1. ~IsPending(c) /\ units[c] = None
      BY <2>2 DEF UnitsInv, IsPending
    <3> QED
      BY <1>1, <1>2, <2>1, <2>2, <3>1 DEF Follows, IsPending
  <2>3. CASE table[c] # None
    <3>1. pending' = Append(pending, <<c, v>>) /\ table'[c] = v
      BY <1>1, <2>3
    <3>2. /\ Len(pending) + 1 \in DOMAIN pending'
          /\ pending'[Len(pending) + 1] = <<c, table'[c]>>
          /\ \A l \in DOMAIN pending' : ~(l > Len(pending) + 1)
      BY <1>1, <3>1
    <3>3. LastPending(c)'
      BY <3>2 DEF LastPending
    <3> QED
      BY <1>2, <2>1, <3>3 DEF Follows
  <2> QED
    BY <2>2, <2>3
<1> QED
  BY <1>3, <1>4 DEF FollowInv

LEMMA SetEntryStep ==
  ASSUME TypeOK, FollowInv,
         NEW c \in Cameras, NEW v \in AllValues, SetEntry(c, v)
  PROVE  FollowInv'
<1>1. /\ UNCHANGED <<units, pending>>
      /\ table' = [table EXCEPT ![c] = v]
      /\ set = None /\ set' = <<c, v>>
      /\ stale' = IF IsPending(c) THEN stale \cup {c} ELSE stale \ {c}
      /\ table \in [Cameras -> AllValues \cup {None}]
  BY DEF SetEntry, Idle, TypeOK
<1>2. <<c, v>> # None
  BY ServerAssumption
<1>3. ASSUME NEW d \in Cameras \ stale', d # c PROVE Follows(d)'
  <2>1. Follows(d) /\ table'[d] = table[d] /\ ~IsSetting(d) /\ ~IsSetting(d)'
    BY <1>1, <1>3 DEF FollowInv, IsSetting
  <2> QED
    BY <1>1, <2>1 DEF Follows, IsPending, LastPending
<1>4. ASSUME c \notin stale' PROVE Follows(c)'
  <2>1. ~IsPending(c) /\ table'[c] = set'[2] /\ IsSetting(c)'
    BY <1>1, <1>2, <1>4 DEF IsSetting
  <2> QED
    BY <1>1, <2>1 DEF Follows, IsPending
<1> QED
  BY <1>3, <1>4 DEF FollowInv

LEMMA SetModelStep ==
  ASSUME TypeOK, FollowInv, SetModel
  PROVE  FollowInv'
<1>1. /\ UNCHANGED <<table, pending, stale>>
      /\ set # None /\ set' = None /\ set[1] \in Cameras
      /\ units' = [units EXCEPT ![set[1]] = set[2]]
      /\ units \in [Cameras -> AllValues \cup {None}]
  BY DEF SetModel, TypeOK
<1>2. ASSUME NEW d \in Cameras \ stale' PROVE Follows(d)'
  <2>1. Follows(d) /\ ~IsSetting(d)'
    BY <1>1, <1>2 DEF FollowInv, IsSetting
  <2>2. CASE d = set[1]
    <3>1. ~IsPending(d) /\ units'[d] = table[d]
      BY <1>1, <2>1, <2>2 DEF Follows, IsSetting
    <3> QED
      BY <1>1, <2>1, <3>1 DEF Follows, IsPending
  <2>3. CASE d # set[1]
    <3>1. ~IsSetting(d) /\ units'[d] = units[d]
      BY <1>1, <2>3 DEF IsSetting
    <3> QED
      BY <1>1, <2>1, <3>1 DEF Follows, IsPending, LastPending
  <2> QED
    BY <2>2, <2>3
<1> QED
  BY <1>2 DEF FollowInv

\* A camera that is not listening becomes stale, unless it is not loaded.
LEMMA ListenerStep ==
  ASSUME TypeOK, UnitsInv, FollowInv, EntryListener
  PROVE  FollowInv'
<1> DEFINE c == Head(pending)[1]
<1>1. /\ pending # <<>> /\ pending' = Tail(pending)
      /\ UNCHANGED <<table, set>>
      /\ pending \in Seq(Cameras \X AllValues)
      /\ units \in [Cameras -> AllValues \cup {None}]
  BY DEF EntryListener, TypeOK
<1>2. /\ c \in Cameras /\ pending[1] = Head(pending) /\ 1 \in DOMAIN pending
      /\ \A k \in DOMAIN pending' :
           k + 1 \in DOMAIN pending /\ k + 1 > 1 /\ pending'[k] = pending[k + 1]
      /\ \A k \in DOMAIN pending : k # 1 =>
           k - 1 \in DOMAIN pending' /\ pending'[k - 1] = pending[k]
      /\ DOMAIN pending \subseteq Nat /\ DOMAIN pending' \subseteq Nat
  BY <1>1
<1>3. \A d \in Cameras : IsSetting(d)' <=> IsSetting(d)
  BY <1>1 DEF IsSetting
<1>4. ASSUME NEW d \in Cameras \ stale' PROVE Follows(d)'
  <2>1. d \notin stale /\ Follows(d)
    BY <1>4 DEF EntryListener, FollowInv
  <2>2. IsPending(d)' => IsPending(d)
    BY <1>2 DEF IsPending
  <2>3. CASE d # c
    <3>1. units'[d] = units[d]
      BY <1>1, <1>2, <2>3 DEF EntryListener
    <3>2. LastPending(d) => LastPending(d)'
      <4>1. SUFFICES ASSUME NEW k \in DOMAIN pending, pending[k] = <<d, table[d]>>,
                            \A l \in DOMAIN pending : l > k => pending[l][1] # d
                     PROVE  LastPending(d)'
        BY DEF LastPending
      <4>2. k # 1
        BY <1>2, <2>3, <4>1
      <4>3. k - 1 \in DOMAIN pending' /\ pending'[k - 1] = <<d, table'[d]>>
        BY <1>1, <1>2, <4>1, <4>2
      <4>4. ASSUME NEW l \in DOMAIN pending', l > k - 1 PROVE pending'[l][1] # d
        <5>1. l + 1 \in DOMAIN pending /\ l + 1 > k /\ pending'[l] = pending[l + 1]
          BY <1>2, <4>4
        <5> QED
          BY <4>1, <5>1
      <4> QED
        BY <4>3, <4>4 DEF LastPending
    <3> QED
      BY <1>1, <1>3, <2>1, <2>2, <3>1, <3>2 DEF Follows
  <2>4. CASE d = c
    <3>1. IsPending(c)
      BY <1>2 DEF IsPending
    <3>2. ~IsSetting(d) /\ LastPending(d)
      BY <2>1, <2>4, <3>1 DEF Follows
    <3>3. PICK k \in DOMAIN pending :
            /\ pending[k] = <<d, table[d]>>
            /\ \A l \in DOMAIN pending : l > k => pending[l][1] # d
      BY <3>2 DEF LastPending
    <3>4. CASE k = 1
      <4>1. ~IsPending(d)'
        <5>1. SUFFICES ASSUME NEW l \in DOMAIN pending', pending'[l][1] = d
                       PROVE  FALSE
          BY DEF IsPending
        <5>2. l + 1 \in DOMAIN pending /\ l + 1 > 1 /\ pending[l + 1][1] = d
          BY <1>2, <5>1
        <5> QED
          BY <3>3, <3>4, <5>2
      <4>2. units'[d] \in {None, table[d]} \/ table[d] \in Broken
        BY <1>1, <1>2, <1>4, <2>1, <2>4, <3>3, <3>4 DEF EntryListener
      <4> QED
        BY <1>1, <1>3, <3>2, <4>1, <4>2 DEF Follows
    <3>5. CASE k # 1
      <4>1. k - 1 \in DOMAIN pending' /\ pending'[k - 1] = <<d, table'[d]>>
        BY <1>1, <1>2, <3>3, <3>5
      <4>2. ASSUME NEW l \in DOMAIN pending', l > k - 1 PROVE pending'[l][1] # d
        <5>1. l + 1 \in DOMAIN pending /\ l + 1 > k /\ pending'[l] = pending[l + 1]
          BY <1>2, <4>2
        <5> QED
          BY <3>3, <5>1
      <4>3. LastPending(d)'
        BY <4>1, <4>2 DEF LastPending
      <4> QED
        BY <1>3, <3>2, <4>3 DEF Follows
    <3> QED
      BY <3>4, <3>5
  <2> QED
    BY <2>3, <2>4
<1> QED
  BY <1>4 DEF FollowInv

LEMMA ReadStep ==
  ASSUME TypeOK, FollowInv, NEW c \in Cameras, ReadCamera(c) \/ SkipCamera(c)
  PROVE  FollowInv'
<1>1. /\ UNCHANGED <<table, pending, set>> /\ set = None
      /\ units' = [units EXCEPT ![c] = units'[c]] /\ units'[c] \in {None, table[c]}
      /\ stale' = IF IsPending(c) THEN stale ELSE stale \ {c}
      /\ units \in [Cameras -> AllValues \cup {None}]
  BY DEF ReadCamera, SkipCamera, At, TypeOK
<1>2. \A d \in Cameras : ~IsSetting(d) /\ ~IsSetting(d)'
  BY <1>1 DEF IsSetting
<1>3. ASSUME NEW d \in Cameras \ stale' PROVE Follows(d)'
  <2>1. CASE d = c /\ ~IsPending(c)
    BY <1>1, <1>2, <2>1 DEF Follows, IsPending
  <2>2. CASE d = c /\ IsPending(c)
    <3>1. LastPending(d)
      BY <1>1, <1>2, <1>3, <2>2 DEF FollowInv, Follows
    <3> QED
      BY <1>1, <1>2, <3>1 DEF Follows, LastPending
  <2>3. CASE d # c
    <3>1. Follows(d) /\ units'[d] = units[d]
      BY <1>1, <1>3, <2>3 DEF FollowInv
    <3> QED
      BY <1>1, <1>2, <3>1 DEF Follows, LastPending, IsPending
  <2> QED
    BY <2>1, <2>2, <2>3
<1> QED
  BY <1>3 DEF FollowInv

LEMMA FollowStep ==
  ASSUME TypeOK, UnitsInv, FollowInv, [Next]_vars
  PROVE  FollowInv'
<1>1. CASE UNCHANGED vars \/ Aside
  BY <1>1, AsideFacts, FollowKept
<1>2. CASE LoadUnits \/ Listen \/ Loaded \/ EmitUnits \/ ClearRefresh
  BY <1>2, FollowKept DEF LoadUnits, Listen, Loaded, EmitUnits, ClearRefresh
<1> QED
  BY <1>1, <1>2, StepCases, ReceiveStep, SetEntryStep, SetModelStep, ListenerStep,
     ReadStep

------------------------------------------------------------------------------
(* The browsers follow the units.                                          *)

LEMMA BrowsersStep ==
  ASSUME TypeOK, ShownInv, BrowsersFollow, [Next]_vars
  PROVE  ShownInv' /\ BrowsersFollow'
<1> USE DEF ShownInv, BrowsersFollow, At
<1>1. CASE UNCHANGED vars
  BY <1>1
<1>2. CASE Aside
  BY <1>2, AsideFacts
<1>3. CASE \E c \in Cameras, v \in AllValues : Receive(c, v)
  BY <1>3 DEF Receive
<1>4. CASE \E c \in Cameras, v \in AllValues : SetEntry(c, v)
  BY <1>4 DEF SetEntry
<1>5. CASE EntryListener
  <2>1. /\ UNCHANGED <<hub, shown>>
        /\ \/ UNCHANGED <<units, refresh_units, lost>>
           \/ refresh_units' = TRUE /\ lost' = (lost \/ hub = "clearing")
    BY <1>5 DEF EntryListener
  <2>2. CASE UNCHANGED <<units, refresh_units, lost>>
    BY <2>1, <2>2
  <2>3. CASE refresh_units' = TRUE /\ lost' = (lost \/ hub = "clearing")
    BY <2>1, <2>3
  <2> QED
    BY <2>1, <2>2, <2>3
<1>6. CASE SetModel
  BY <1>6 DEF SetModel, TypeOK
<1>7. CASE LoadUnits
  BY <1>7 DEF LoadUnits
<1>8. CASE Listen
  BY <1>8 DEF Listen
<1>9. CASE Loaded
  BY <1>9 DEF Loaded
<1>10. CASE EmitUnits
  BY <1>10 DEF EmitUnits
<1>11. CASE ClearRefresh
  BY <1>11 DEF ClearRefresh
<1>12. CASE \E c \in Cameras : ReadCamera(c) \/ SkipCamera(c)
  BY <1>12 DEF ReadCamera, SkipCamera
<1> QED
  BY <1>1, <1>2, <1>3, <1>4, <1>5, <1>6, <1>7, <1>8, <1>9, <1>10, <1>11, <1>12,
     StepCases

------------------------------------------------------------------------------
(* The theorems.                                                           *)

LEMMA IInvStep == IInv /\ [Next]_vars => IInv'
BY TypeStep, UnitsStep, FollowStep, BrowsersStep DEF IInv

\* The invariant holds in every reachable state: what NetworkTables has, what
\* the listeners still have to be told and what was loaded, set and broadcast
\* fit together (api.py, models.py).
THEOREM Inductive == Spec => []IInv
<1>1. Init => IInv
  BY IInvInit
<1>2. IInv /\ [Next]_vars => IInv'
  BY IInvStep
<1> QED
  BY <1>1, <1>2, PTL DEF Spec

\* The units are those of NetworkTables, for any number of cameras, browsers,
\* updates and connections (models.py:44-57,74-93,98-122).
THEOREM UnitsFollow == Spec => []ViewFollows
<1>1. IInv => ViewFollows
  BY DEF IInv, FollowInv, Follows, ViewFollows
<1> QED
  BY <1>1, Inductive, PTL

\* No change of the units is left without a broadcast, but for one that comes
\* between a broadcast and the reset of its flag (api.py:134-139).
THEOREM ChangesAreBroadcast == Spec => []BrowsersFollow
<1>1. IInv => BrowsersFollow
  BY DEF IInv
<1> QED
  BY <1>1, Inductive, PTL
==============================================================================
