----------------------------- MODULE AdminServer -----------------------------
(***************************************************************************)
(* The admin server: its connection to NetworkTables (nt_connection.py),   *)
(* its units of cameras (models.py), and the background thread that        *)
(* broadcasts them to the browsers (api.py).                               *)
(*                                                                         *)
(* Three threads: pynetworktables calls connection listeners from one and  *)
(* entry listeners from another; the handlers of browsers' events and the  *)
(* background thread are green threads of the third, which change places   *)
(* only where one sleeps or waits.                                         *)
(*                                                                         *)
(* A camera has one of its settings here, as this host's copy of           *)
(* NetworkTables has it: each has an entry, updates and an attribute of    *)
(* its own.  Its switches, which are pairs of entries, are left out, and   *)
(* of the link only whether it has been loaded is modelled.                *)
(***************************************************************************)
EXTENDS Naturals, Sequences

CONSTANTS
  Cameras,   \* the cameras there may be
  Values,    \* camera -> what its setting may be
  Broken,    \* the values among them that are empty or not JSON
  None,      \* no entries, no camera, nothing under way
  MaxPending, \* bound: updates the listeners have not been told of
  MaxEvents  \* bound: connections made and lost they have not been told of

AllValues == UNION {Values[c] : c \in Cameras}

ASSUME ServerAssumption ==
  /\ None \notin AllValues \cup Cameras \cup (Cameras \X AllValues)
  /\ Broken \subseteq AllValues
  /\ MaxPending \in Nat /\ MaxEvents \in Nat

VARIABLES
  nt,       \* the NetworkTables client: "new", "started" or "shut" down
  up,       \* it is connected
  events,   \* connections made and lost, for the connection listener
  table,    \* camera -> its setting, or None before it is there
  pending,  \* updates for the entry listeners
  running, load_units, refresh_units, refresh_link, \* Api's flags
  hub,      \* where the background thread is
  todo, cur, \* cameras still to be loaded, and the one being loaded
  set,      \* camera and value of the handler that is setting it
  units,    \* camera -> its setting in Unit.units
  listening, \* the cameras of units that have their listener
  link,     \* Api.link is there
  shown,    \* what was broadcast last
  asked,    \* a browser waits for units
  stale,    \* history: cameras updated between their reading and listening,
            \* or set while an update of theirs was on its way
  lost      \* history: an update came between a broadcast and its flag's reset

flags   == <<running, load_units, refresh_units, refresh_link>>
client  == <<nt, up, events>>
loading == <<todo, cur, listening, link>>
vars    == <<client, table, pending, flags, hub, loading, set, units, shown,
             asked, stale, lost>>

NoUnits == [c \in Cameras |-> None]

Init ==
  /\ nt = "new" /\ up = FALSE /\ events = <<>>
  /\ table = NoUnits /\ pending = <<>>
  /\ running = TRUE /\ load_units = FALSE
  /\ refresh_units = FALSE /\ refresh_link = FALSE
  /\ hub = "none" /\ todo = {} /\ cur = None /\ set = None
  /\ units = NoUnits /\ listening = {} /\ link = FALSE
  /\ shown = NoUnits /\ asked = FALSE /\ stale = {} /\ lost = FALSE

IsPending(c) == \E k \in DOMAIN pending : pending[k][1] = c
IsSetting(c) == set # None /\ set[1] = c

------------------------------------------------------------------------------
(* NetworkTables.                                                          *)

ConnectionMade ==
  /\ nt = "started" /\ ~up /\ Len(events) < MaxEvents
  /\ up' = TRUE /\ events' = Append(events, "up")
  /\ UNCHANGED <<nt, table, pending, flags, hub, loading, set, units, shown,
                 asked, stale, lost>>

ConnectionLost ==
  /\ up /\ Len(events) < MaxEvents
  /\ up' = FALSE /\ events' = Append(events, "down")
  /\ UNCHANGED <<nt, table, pending, flags, hub, loading, set, units, shown,
                 asked, stale, lost>>

\* The daemon or another client changes a camera's setting.  Listeners are
\* told of updates, not of new entries.
Receive(c, v) ==
  /\ up /\ table[c] # v /\ Len(pending) < MaxPending
  /\ table' = [table EXCEPT ![c] = v]
  /\ pending' = IF table[c] = None THEN pending ELSE Append(pending, <<c, v>>)
  /\ stale' = IF IsSetting(c) THEN stale \cup {c} ELSE stale \ {c}
  /\ UNCHANGED <<client, flags, hub, loading, set, units, shown, asked, lost>>

------------------------------------------------------------------------------
(* The listeners.  A connection without a Deadeye table ends the client and *)
(* the background thread; one that is lost changes nothing else.            *)

Deadeye == \E c \in Cameras : table[c] # None

ConnectionListener ==
  /\ events # <<>>
  /\ \/ /\ Head(events) = "down"
        /\ events' = Tail(events)
        /\ UNCHANGED <<nt, up, running, load_units>>
     \/ /\ Head(events) = "up" /\ Deadeye
        /\ events' = Tail(events) /\ running' = TRUE /\ load_units' = TRUE
        /\ UNCHANGED <<nt, up>>
     \/ /\ Head(events) = "up" /\ ~Deadeye
        /\ events' = <<>> /\ nt' = "shut" /\ up' = FALSE /\ running' = FALSE
        /\ UNCHANGED load_units
  /\ UNCHANGED <<table, pending, refresh_units, refresh_link, hub, loading, set,
                 units, shown, asked, stale, lost>>

\* An update of a camera that is just being loaded finds no listener yet; one
\* that cannot be read changes nothing.
EntryListener ==
  /\ pending # <<>>
  /\ pending' = Tail(pending)
  /\ LET c == Head(pending)[1] IN
       \/ /\ c \in listening /\ Head(pending)[2] \in Broken
          /\ UNCHANGED <<units, refresh_units, stale, lost>>
       \/ /\ c \in listening /\ Head(pending)[2] \notin Broken
          /\ units' = [units EXCEPT ![c] = Head(pending)[2]]
          /\ refresh_units' = TRUE
          /\ lost' = (lost \/ hub = "clearing")
          /\ UNCHANGED stale
       \/ /\ c \notin listening
          /\ stale' = IF units[c] = None THEN stale ELSE stale \cup {c}
          /\ UNCHANGED <<units, refresh_units, lost>>
  /\ UNCHANGED <<client, table, running, load_units, refresh_link, hub, loading,
                 set, shown, asked>>

------------------------------------------------------------------------------
(* The handlers of browsers' events.                                       *)

Idle == hub \in {"none", "waiting", "asleep", "ended"} /\ set = None

\* The background thread is started once.
HandleConnect ==
  /\ Idle
  /\ nt' = IF nt = "new" THEN "started" ELSE nt
  /\ hub' = IF hub = "none" THEN "head" ELSE hub
  /\ UNCHANGED <<up, events, table, pending, flags, loading, set, units, shown,
                 asked, stale, lost>>

\* What the page sends when it has been loaded.
HandleMessage ==
  /\ Idle /\ hub # "none"
  /\ refresh_units' = TRUE /\ asked' = TRUE
  /\ UNCHANGED <<client, table, pending, running, load_units, refresh_link, hub,
                 loading, set, units, shown, stale, lost>>

HandleLinkRefresh ==
  /\ Idle /\ hub # "none"
  /\ refresh_link' = TRUE
  /\ UNCHANGED <<client, table, pending, running, load_units, refresh_units, hub,
                 loading, set, units, shown, asked, stale, lost>>

\* Camera.set_capture, set_pipeline and set_stream: first the entry,
SetEntry(c, v) ==
  /\ Idle /\ units[c] # None /\ v \notin Broken
  /\ set' = <<c, v>>
  /\ table' = [table EXCEPT ![c] = v]
  /\ stale' = IF IsPending(c) THEN stale \cup {c} ELSE stale \ {c}
  /\ UNCHANGED <<client, pending, flags, hub, loading, units, shown, asked, lost>>

\* (Mutant: the model is left to the listener, which is not called for what
\* this client writes.)
SetModel_Not ==
  /\ set # None
  /\ set' = None
  /\ refresh_units' = TRUE
  /\ UNCHANGED <<client, table, pending, running, load_units, refresh_link, hub,
                 loading, units, shown, asked, stale, lost>>

\* (Mutant: without the flag.)
SetModel_Silent ==
  /\ set # None
  /\ units' = [units EXCEPT ![set[1]] = set[2]]
  /\ set' = None
  /\ UNCHANGED <<client, table, pending, flags, hub, loading, shown, asked,
                 stale, lost>>

\* then the model.
SetModel ==
  /\ set # None
  /\ units' = [units EXCEPT ![set[1]] = set[2]]
  /\ set' = None
  /\ refresh_units' = TRUE
  /\ UNCHANGED <<client, table, pending, running, load_units, refresh_link, hub,
                 loading, shown, asked, stale, lost>>

------------------------------------------------------------------------------
(* The background thread.                                                  *)

At(place) == hub = place /\ set = None

Loop ==
  /\ At("head")
  /\ hub' = IF ~running THEN "ended" ELSE IF load_units THEN "waiting" ELSE "units"
  /\ load_units' = (load_units /\ ~running)
  /\ UNCHANGED <<client, table, pending, running, refresh_units, refresh_link,
                 loading, set, units, shown, asked, stale, lost>>

\* Unit.init: the cameras that are there.
LoadUnits ==
  /\ At("waiting")
  /\ hub' = "loading" /\ todo' = {c \in Cameras : table[c] # None}
  /\ UNCHANGED <<client, table, pending, flags, cur, listening, link, set, units,
                 shown, asked, stale, lost>>

\* A new Camera is read
ReadCamera(c) ==
  /\ At("loading") /\ cur = None /\ c \in todo /\ table[c] \notin Broken
  /\ cur' = c /\ listening' = listening \ {c}
  /\ units' = [units EXCEPT ![c] = table[c]]
  /\ stale' = IF IsPending(c) THEN stale ELSE stale \ {c}
  /\ UNCHANGED <<client, table, pending, flags, hub, todo, link, set, shown,
                 asked, lost>>

\* or left out of its unit, if it cannot be read,
SkipCamera(c) ==
  /\ At("loading") /\ cur = None /\ c \in todo /\ table[c] \in Broken
  /\ todo' = todo \ {c} /\ listening' = listening \ {c}
  /\ units' = [units EXCEPT ![c] = None]
  /\ stale' = IF IsPending(c) THEN stale ELSE stale \ {c}
  /\ UNCHANGED <<client, table, pending, flags, hub, cur, link, set, shown,
                 asked, lost>>

\* and then listens.
Listen ==
  /\ At("loading") /\ cur # None
  /\ listening' = listening \cup {cur} /\ todo' = todo \ {cur} /\ cur' = None
  /\ UNCHANGED <<client, table, pending, flags, hub, link, set, units, shown,
                 asked, stale, lost>>

\* (Mutant: what was loaded is shown with the next change.)
Loaded_Silent ==
  /\ At("loading") /\ cur = None /\ todo = {}
  /\ hub' = "units" /\ link' = TRUE /\ refresh_link' = TRUE
  /\ UNCHANGED <<client, table, pending, running, load_units, refresh_units,
                 todo, cur, listening, set, units, shown, asked, stale, lost>>

Loaded ==
  /\ At("loading") /\ cur = None /\ todo = {}
  /\ hub' = "units" /\ link' = TRUE
  /\ refresh_units' = TRUE /\ refresh_link' = TRUE
  /\ UNCHANGED <<client, table, pending, running, load_units, todo, cur,
                 listening, set, units, shown, asked, stale, lost>>

EmitUnits ==
  /\ At("units") /\ refresh_units
  /\ hub' = "clearing" /\ shown' = units /\ asked' = FALSE /\ lost' = FALSE
  /\ UNCHANGED <<client, table, pending, flags, loading, set, units, stale>>

ClearRefresh ==
  /\ At("clearing")
  /\ hub' = "link" /\ refresh_units' = FALSE
  /\ UNCHANGED <<client, table, pending, running, load_units, refresh_link,
                 loading, set, units, shown, asked, stale, lost>>

NoRefresh ==
  /\ At("units") /\ ~refresh_units
  /\ hub' = "link"
  /\ UNCHANGED <<client, table, pending, flags, loading, set, units, shown,
                 asked, stale, lost>>

\* A link that is asked for before it was loaded ends the thread with an
\* AttributeError.
EmitLink ==
  /\ At("link")
  /\ IF refresh_link /\ ~link
       THEN hub' = "ended" /\ UNCHANGED refresh_link
       ELSE hub' = "asleep" /\ refresh_link' = FALSE
  /\ UNCHANGED <<client, table, pending, running, load_units, refresh_units,
                 loading, set, units, shown, asked, stale, lost>>

Wake ==
  /\ At("asleep")
  /\ hub' = "head"
  /\ UNCHANGED <<client, table, pending, flags, loading, set, units, shown,
                 asked, stale, lost>>

------------------------------------------------------------------------------
NetworkTables ==
  \/ ConnectionMade \/ ConnectionLost
  \/ \E c \in Cameras : \E v \in Values[c] : Receive(c, v)

Handlers ==
  \/ HandleConnect \/ HandleMessage \/ HandleLinkRefresh \/ SetModel
  \/ \E c \in Cameras : \E v \in Values[c] : SetEntry(c, v)

Background ==
  \/ Loop \/ LoadUnits \/ Listen \/ Loaded
  \/ EmitUnits \/ ClearRefresh \/ NoRefresh \/ EmitLink \/ Wake
  \/ \E c \in Cameras : ReadCamera(c) \/ SkipCamera(c)

Next ==
  NetworkTables \/ ConnectionListener \/ EntryListener \/ Handlers \/ Background

Spec == Init /\ [][Next]_vars

\* A handler that has begun goes on; the background thread gets its turn
\* between handlers, as eventlet's hub runs every green thread that is ready.
FairSpec == Spec /\ WF_vars(SetModel) /\ SF_vars(Background)

------------------------------------------------------------------------------
(* Safety.                                                                 *)

Places == {"none", "head", "waiting", "loading", "units", "clearing", "link",
           "asleep", "ended"}

\* Every variable keeps the range the code gives it; only between a handler's
\* two steps and while units are loaded is anything under way.
TypeOK ==
  /\ nt \in {"new", "started", "shut"} /\ up \in BOOLEAN
  /\ events \in Seq({"up", "down"})
  /\ table \in [Cameras -> AllValues \cup {None}]
  /\ pending \in Seq(Cameras \X AllValues)
  /\ running \in BOOLEAN /\ load_units \in BOOLEAN
  /\ refresh_units \in BOOLEAN /\ refresh_link \in BOOLEAN
  /\ hub \in Places /\ todo \subseteq Cameras /\ cur \in todo \cup {None}
  /\ set \in (Cameras \X AllValues) \cup {None}
  /\ units \in [Cameras -> AllValues \cup {None}]
  /\ listening \subseteq Cameras /\ link \in BOOLEAN
  /\ shown \in [Cameras -> AllValues \cup {None}] /\ asked \in BOOLEAN
  /\ stale \subseteq Cameras /\ lost \in BOOLEAN
  /\ set # None => hub \in {"none", "waiting", "asleep", "ended"}
  /\ hub # "loading" => cur = None /\ todo = {}

\* The units a browser sees and sets are those of NetworkTables once the
\* listeners have been told: what other clients write meanwhile is not
\* missed, nor what a browser sets undone, except for a camera that was
\* updated between its reading and the start of its listener, or set while an
\* update of it was on its way, and for a setting that cannot be read
\* (models.py:44-63,74-93,98-122).
LastPending(c) ==
  \E k \in DOMAIN pending :
    /\ pending[k] = <<c, table[c]>>
    /\ \A l \in DOMAIN pending : l > k => pending[l][1] # c

ViewFollows ==
  \A c \in Cameras \ stale :
    units[c] # None /\ ~IsSetting(c) /\ table[c] \notin Broken =>
      LastPending(c) \/ (units[c] = table[c] /\ ~IsPending(c))

\* What was broadcast last are the units as they are, or the flag is up for
\* the next broadcast, unless an update came in between a broadcast and the
\* reset of its flag (api.py:134-139).
BrowsersFollow ==
  hub # "loading" => shown = units \/ refresh_units \/ lost

\* A camera has its place in units, its listener and its updates only while
\* NetworkTables has its setting.
UnitsInv ==
  /\ \A c \in Cameras : units[c] # None => table[c] # None
  /\ \A c \in listening : units[c] # None
  /\ \A c \in todo : table[c] # None
  /\ cur # None => units[cur] # None
  /\ set # None => units[set[1]] # None
  /\ \A k \in DOMAIN pending : table[pending[k][1]] # None

\* ViewFollows, also for the cameras that are not loaded and the one being set.
Follows(c) ==
  IF IsSetting(c) THEN table[c] = set[2] /\ ~IsPending(c)
  ELSE \/ LastPending(c)
       \/ ~IsPending(c) /\ (units[c] \in {None, table[c]} \/ table[c] \in Broken)

FollowInv == \A c \in Cameras \ stale : Follows(c)

ShownInv == hub = "clearing" => shown = units \/ lost

\* The invariant the proofs are by induction on.
IInv == TypeOK /\ UnitsInv /\ FollowInv /\ ShownInv /\ BrowsersFollow

------------------------------------------------------------------------------
(* Liveness.                                                               *)

\* Cameras that were there when the server connected are displayed, also in a
\* browser that asks for them before or after, unless the server found no
\* Deadeye table, was asked for the link before it had loaded it, or finds
\* their setting unreadable (App/index.jsx:21-27, api.py:111-139).
CamerasShown ==
  \A c \in Cameras :
    ((load_units /\ table[c] # None) \/ (asked /\ units[c] # None)) ~>
      ((shown[c] # None /\ ~asked) \/ ~running \/ (hub = "ended" /\ ~link)
       \/ table[c] \in Broken)
==============================================================================
