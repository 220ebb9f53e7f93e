------------------------------ MODULE UnitLife ------------------------------
(***************************************************************************)
(* The life of a Deadeye unit: its power, the start of the daemon up to    *)
(* its event loop (controller.cpp), the settings it reads from and puts    *)
(* into NetworkTables, their JSON (config/..._config.cpp), what survives a *)
(* restart, and the shutdown button (shutdown.cpp).                        *)
(*                                                                         *)
(* The unit runs the NetworkTables server itself and keeps settings in a   *)
(* file, or it is a client of the robot's server (StartNetworkTables).     *)
(* What a running daemon does with a setting is modelled in ConfigHandoff, *)
(* commands and status entries in CameraControl, the link entry in         *)
(* ClientLink.  A JSON object is modelled by its keys and by the number of *)
(* the write that made it; the daemon's own defaults have number 0.        *)
(***************************************************************************)
EXTENDS Naturals, Sequences

CONSTANTS
  Cameras,      \* the active cameras
  None,         \* no entry
  Sound,        \* kind -> keys that clients write, now or in older versions
  Broken,       \* kind -> keys they write by mistake
  Burst,        \* starts after which systemd may give up
  MaxWrites     \* bound: settings written by clients

Kinds      == {"capture", "pipeline", "stream"}
Entries    == Cameras \X Kinds
Persistent == {e \in Entries : e[2] # "stream"}

\* The keys of the JSON objects; others are ignored.
CaptureKeys  == {"type", "w", "h", "fps", "config"}
FilterKeys   == {"area", "solidity", "aspect"}
StreamKeys   == {"sn", "url", "view", "contour"}
PipelineKeys ==
  {"sn", "hue", "sat", "val", "config", "filter", "log"}
    \cup FilterKeys \cup {"log.type", "log.path", "log.fps", "log.mount"}
Keys == CaptureKeys \cup StreamKeys \cup PipelineKeys

ASSUME FormsAssumption ==
  /\ Sound \in [Kinds -> SUBSET SUBSET Keys]
  /\ Broken \in [Kinds -> SUBSET SUBSET Keys]
  /\ Burst \in Nat \ {0} /\ MaxWrites \in Nat
  /\ None \notin [n : Nat, keys : SUBSET Keys]

\* What clients write is complete, but for the parts of a pipeline's settings
\* that there were not in older versions.
ASSUME SoundAssumption ==
  /\ \A keys \in Sound["capture"] : CaptureKeys \subseteq keys
  /\ \A keys \in Sound["stream"] : StreamKeys \subseteq keys
  /\ \A keys \in Sound["pipeline"] :
       /\ {"sn", "hue", "sat", "val"} \subseteq keys
       /\ "filter" \in keys => FilterKeys \subseteq keys
       /\ "log" \in keys => "log.fps" \in keys

VARIABLES
  mode,      \* "server" or "client"
  power,     \* "on" or "off"
  pc,        \* where the daemon is
  todo,      \* the cameras a loop of the constructor has still to do
  up,        \* this client is connected to the server
  calls,     \* calls of the connection listener
  starts,    \* starts of the daemon since the boot, up to Burst
  table,     \* entry -> its JSON, or None
  file,      \* entry -> what the persist file has
  writes,    \* settings written by clients
  live,      \* entry -> the configuration the camera has, or None
  pending,   \* notifications the controller has not handled
  missed,    \* history: entries written after they were read and before the
             \* listener was there
  broken,    \* history: a client made such a mistake
  pressed,   \* the button
  count,     \* samples in a row that saw it pressed
  button     \* the shutdown daemon

daemon   == <<pc, todo, up, calls, starts, live, pending, missed>>
settings == <<table, file, writes, broken>>
shutdown == <<pressed, count, button>>
vars     == <<mode, power, daemon, settings, shutdown>>

------------------------------------------------------------------------------
(* JSON.  from_json throws for a key it needs and does not find.           *)

ReadableCapture(keys) == CaptureKeys \subseteq keys

ReadableFilter(keys) == FilterKeys \subseteq keys

ReadableLog(keys) == "log.fps" \in keys

\* (Mutant: an entry without a filter, from before there were filters.)
ReadablePipeline_Filter(keys) ==
  /\ {"sn", "hue", "sat", "val", "filter"} \subseteq keys
  /\ ReadableFilter(keys) /\ ("log" \in keys => ReadableLog(keys))

ReadablePipeline(keys) ==
  /\ {"sn", "hue", "sat", "val"} \subseteq keys
  /\ "filter" \in keys => ReadableFilter(keys)
  /\ "log" \in keys => ReadableLog(keys)

ReadableStream(keys) == StreamKeys \subseteq keys

Readable(e, json) ==
  CASE e[2] = "capture"  -> ReadableCapture(json.keys)
    [] e[2] = "pipeline" -> ReadablePipeline(json.keys)
    [] e[2] = "stream"   -> ReadableStream(json.keys)

\* What is not in the object gets its default: these configurations are
\* complete.
Complete(e) ==
  CASE e[2] = "capture"  -> CaptureKeys
    [] e[2] = "pipeline" -> PipelineKeys
    [] e[2] = "stream"   -> StreamKeys

Parsed(e, json) ==
  [n |-> json.n, defaulted |-> Complete(e) \ json.keys]

Default(e) == [n |-> 0, keys |-> Complete(e)]

------------------------------------------------------------------------------
NoEntries == [e \in Entries |-> None]

\* A unit that has never run, or a robot that has never had one.
Init ==
  /\ mode \in {"server", "client"}
  /\ power = "on" /\ pc = "down" /\ todo = {}
  /\ up = FALSE /\ calls = 0 /\ starts = 0
  /\ table = NoEntries /\ file = NoEntries /\ writes = 0
  /\ live = NoEntries /\ pending = <<>> /\ missed = {} /\ broken = FALSE
  /\ pressed = FALSE /\ count = 0 /\ button = "watching"

------------------------------------------------------------------------------
(* The daemon, from its start to its event loop.                           *)

\* systemd starts the daemon, and again when it fails.
Launch ==
  /\ power = "on" /\ pc \in {"down", "failed"}
  /\ pc' = "begin" /\ starts' = IF starts = Burst THEN Burst ELSE starts + 1
  /\ up' = FALSE /\ calls' = 0
  /\ live' = NoEntries /\ pending' = <<>> /\ missed' = {}
  /\ table' = IF mode = "server" THEN NoEntries ELSE table
  /\ UNCHANGED <<mode, power, todo, file, writes, broken, shutdown>>

\* It may give up when the daemon has been started Burst times and fails
\* again: the interval it counts them in is left open.
GiveUp ==
  /\ power = "on" /\ pc = "failed" /\ starts = Burst
  /\ pc' = "given up"
  /\ UNCHANGED <<mode, power, todo, up, calls, starts, live, pending, missed,
                 settings, shutdown>>

\* StartServer reads the persist file.
StartServer ==
  /\ power = "on" /\ pc = "begin" /\ mode = "server"
  /\ pc' = "defaults" /\ todo' = Cameras
  /\ table' = file
  /\ UNCHANGED <<mode, power, up, calls, starts, file, writes, live, pending,
                 missed, broken, shutdown>>

\* (Mutant: the client is started, and may connect, before its listener.)
StartClient_ListenerLate ==
  /\ power = "on" /\ pc = "begin" /\ mode = "client"
  /\ pc' = "waiting" /\ up' \in BOOLEAN
  /\ UNCHANGED <<mode, power, todo, calls, starts, live, pending, missed,
                 settings, shutdown>>

\* AddConnectionListener, then StartClient.
StartClient ==
  /\ power = "on" /\ pc = "begin" /\ mode = "client"
  /\ pc' = "waiting"
  /\ UNCHANGED <<mode, power, todo, up, calls, starts, live, pending, missed,
                 settings, shutdown>>

\* The listener is called for every connection that is made, or lost; the
\* second call fulfils the promise again, which throws in its thread.
Called ==
  /\ calls' = calls + 1
  /\ pc' = IF calls = 0 THEN pc ELSE "failed"
  /\ UNCHANGED <<mode, power, todo, starts, live, pending, missed, settings,
                 shutdown>>

Connect ==
  /\ power = "on" /\ pc = "waiting" /\ ~up
  /\ up' = TRUE /\ Called

Disconnect ==
  /\ power = "on" /\ pc = "waiting" /\ up
  /\ up' = FALSE /\ Called

\* barrier_future.wait() returns and the listener is removed.
Connected ==
  /\ power = "on" /\ pc = "waiting" /\ calls > 0
  /\ pc' = "defaults" /\ todo' = Cameras
  /\ UNCHANGED <<mode, power, up, calls, starts, live, pending, missed,
                 settings, shutdown>>

Present(e) == IF table[e] = None THEN Default(e) ELSE table[e]

\* (Mutant: SetString instead of SetDefaultString.)
InitializeNetworkTables_Set(c) ==
  /\ power = "on" /\ pc = "defaults" /\ c \in todo
  /\ table' = [e \in Entries |-> IF e[1] # c THEN table[e] ELSE Default(e)]
  /\ todo' = IF todo = {c} THEN Cameras ELSE todo \ {c}
  /\ pc' = IF todo = {c} THEN "read" ELSE pc
  /\ UNCHANGED <<mode, power, up, calls, starts, file, writes, live, pending,
                 missed, broken, shutdown>>

\* Persistent settings get their default if they have no value; the stream
\* is set to its default in any case.
InitializeNetworkTables(c) ==
  /\ power = "on" /\ pc = "defaults" /\ c \in todo
  /\ table' = [e \in Entries |->
       CASE e[1] # c                       -> table[e]
         [] e[1] = c /\ e \in Persistent   -> Present(e)
         [] e[1] = c /\ e \notin Persistent -> Default(e)]
  /\ todo' = IF todo = {c} THEN Cameras ELSE todo \ {c}
  /\ pc' = IF todo = {c} THEN "read" ELSE pc
  /\ UNCHANGED <<mode, power, up, calls, starts, file, writes, live, pending,
                 missed, broken, shutdown>>

\* The camera's three settings are read; one that cannot be ends the daemon.
InitializeCamera(c) ==
  /\ power = "on" /\ pc = "read" /\ c \in todo
  /\ IF \A e \in Entries : e[1] = c => Readable(e, table[e])
       THEN /\ live' = [e \in Entries |->
                          IF e[1] = c THEN Parsed(e, table[e]) ELSE live[e]]
            /\ todo' = todo \ {c}
            /\ pc' = IF todo = {c} THEN "listen" ELSE pc
       ELSE /\ pc' = "failed" /\ UNCHANGED <<live, todo>>
  /\ UNCHANGED <<mode, power, up, calls, starts, pending, missed, settings,
                 shutdown>>

\* A listener for updates: what was written before does not reach it.
StartPoller ==
  /\ power = "on" /\ pc = "listen"
  /\ pc' = "run"
  /\ UNCHANGED <<mode, power, todo, up, calls, starts, live, pending, missed,
                 settings, shutdown>>

\* A configuration that cannot be read throws.  The process then ends, or it
\* does not: exit waits for the task of a camera that is on.
Handled(update) ==
  IF Readable(update.entry, update.json)
    THEN /\ live' = [live EXCEPT ![update.entry] =
                                   Parsed(update.entry, update.json)]
         /\ pc' = pc
    ELSE pc' \in {"failed", "hung"} /\ live' = live

\* (Mutant: the last of the notifications is handled, the others dropped.)
Update_LastOnly ==
  /\ power = "on" /\ pc = "run" /\ pending # <<>>
  /\ Handled(pending[Len(pending)])
  /\ pending' = <<>>
  /\ UNCHANGED <<mode, power, todo, up, calls, starts, missed, settings,
                 shutdown>>

\* Run handles a notification.
Update ==
  /\ power = "on" /\ pc = "run" /\ pending # <<>>
  /\ Handled(Head(pending))
  /\ pending' = Tail(pending)
  /\ UNCHANGED <<mode, power, todo, up, calls, starts, missed, settings,
                 shutdown>>

------------------------------------------------------------------------------
(* Clients, the NetworkTables server and its file.                         *)

Serving == mode = "client" \/ pc \notin {"down", "begin", "failed", "given up"}

AfterRead(e) == (pc = "read" /\ e[1] \notin todo) \/ pc = "listen"

Write(e, keys) ==
  LET json == [n |-> writes + 1, keys |-> keys] IN
  /\ Serving /\ writes < MaxWrites
  /\ writes' = writes + 1
  /\ table' = [table EXCEPT ![e] = json]
  /\ broken' = (broken \/ keys \in Broken[e[2]])
  /\ pending' = IF pc = "run" THEN Append(pending, [entry |-> e, json |-> json])
                ELSE pending
  /\ missed' = IF pc = "run" THEN missed \ {e}
               ELSE IF AfterRead(e) THEN missed \cup {e} ELSE missed
  /\ UNCHANGED <<mode, power, pc, todo, up, calls, starts, file, live, shutdown>>

\* The server writes its persistent entries into the file now and then.
Save ==
  /\ power = "on" /\ mode = "server" /\ Serving
  /\ file' = [e \in Entries |-> IF e \in Persistent THEN table[e] ELSE None]
  /\ file' # file
  /\ UNCHANGED <<mode, power, daemon, table, writes, broken, shutdown>>

------------------------------------------------------------------------------
(* The shutdown button.                                                    *)

Press ==
  /\ power = "on" /\ ~pressed /\ pressed' = TRUE
  /\ UNCHANGED <<mode, power, daemon, settings, count, button>>

Release ==
  /\ power = "on" /\ pressed /\ pressed' = FALSE
  /\ UNCHANGED <<mode, power, daemon, settings, count, button>>

\* (Mutant: the button is looked at, but its samples are not counted.)
Sample_Uncounted ==
  /\ power = "on" /\ button = "watching"
  /\ count' = IF pressed THEN 1 ELSE 0
  /\ button' = IF count' = 3 THEN "asking" ELSE "watching"
  /\ UNCHANGED <<mode, power, daemon, settings, pressed>>

\* Once a second.
Sample ==
  /\ power = "on" /\ button = "watching"
  /\ count' = IF pressed THEN count + 1 ELSE 0
  /\ button' = IF count' = 3 THEN "asking" ELSE "watching"
  /\ UNCHANGED <<mode, power, daemon, settings, pressed>>

\* The GPIO line fails: the button is disabled until the next boot.
LineFails ==
  /\ power = "on" /\ button = "watching"
  /\ button' = "disabled"
  /\ UNCHANGED <<mode, power, daemon, settings, pressed, count>>

\* The bus is not there or refuses: do_normal_shutdown returns, main with it,
\* and nothing starts the shutdown daemon again.
Refused ==
  /\ power = "on" /\ button = "asking"
  /\ button' = "exited"
  /\ UNCHANGED <<mode, power, daemon, settings, pressed, count>>

\* The power goes, with all that is in memory.
Dark ==
  /\ power = "on"
  /\ power' = "off" /\ pc' = "down" /\ up' = FALSE /\ calls' = 0 /\ starts' = 0
  /\ todo' = {} /\ live' = NoEntries /\ pending' = <<>> /\ missed' = {}
  /\ table' = IF mode = "server" THEN NoEntries ELSE table
  /\ UNCHANGED <<mode, file, writes, broken, pressed, count, button>>

\* login1 or reboot() switches the unit off.
PowerOff == button = "asking" /\ Dark

\* Somebody else does, or the robot is switched off.
PowerCut == button # "asking" /\ Dark

Boot ==
  /\ power = "off"
  /\ power' = "on" /\ button' = "watching" /\ count' = 0
  /\ UNCHANGED <<mode, daemon, settings, pressed>>

------------------------------------------------------------------------------
Constructor ==
  \/ Launch \/ StartServer \/ StartClient \/ Connected \/ StartPoller
  \/ \E c \in Cameras : InitializeNetworkTables(c) \/ InitializeCamera(c)

Clients == \E e \in Entries : \E keys \in Sound[e[2]] \cup Broken[e[2]] : Write(e, keys)

Shutdown == Sample \/ LineFails \/ Refused \/ PowerOff

Environment ==
  \/ GiveUp \/ Connect \/ Disconnect \/ Save \/ Clients
  \/ Press \/ Release \/ PowerCut \/ Boot

Next == Constructor \/ Update \/ Shutdown \/ Environment

Spec == Init /\ [][Next]_vars

\* systemd starts the daemon, whose only thread runs; the robot's server can
\* be reached in the end; the shutdown daemon takes its samples, and a request
\* to power off is answered in some way.
FairSpec ==
  /\ Spec
  /\ WF_vars(Constructor) /\ WF_vars(Connect) /\ WF_vars(Sample)
  /\ WF_vars(Refused \/ PowerOff)

------------------------------------------------------------------------------
(* Safety.                                                                 *)

PCs == {"down", "begin", "waiting", "defaults", "read", "listen", "run",
        "failed", "given up", "hung"}
Json == [n : 0..MaxWrites, keys : SUBSET Keys]

\* Every variable keeps the range the code gives it.
TypeOK ==
  /\ mode \in {"server", "client"} /\ power \in {"on", "off"}
  /\ pc \in PCs /\ todo \subseteq Cameras
  /\ up \in BOOLEAN /\ calls \in 0..2 /\ starts \in 0..Burst
  /\ \A e \in Entries : table[e] # None => table[e] \in Json
  /\ \A e \in Entries : file[e] # None => file[e] \in Json
  /\ writes \in 0..MaxWrites
  /\ missed \subseteq Entries /\ broken \in BOOLEAN
  /\ pressed \in BOOLEAN /\ count \in 0..3
  /\ button \in {"watching", "asking", "disabled", "exited"}

\* A daemon that has handled its notifications has the settings that are in
\* NetworkTables, those of clients that wrote them before, while or after it
\* started, except for an entry written after it was read and before the
\* listener was there: that one it misses until it is written again
\* (controller.cpp:96-110,543-547,591-598).
ConfigFollows ==
  pc = "run" /\ pending = <<>> =>
    \A e \in Entries \ missed : live[e] = Parsed(e, table[e])

\* The daemon fails only if a client wrote JSON without a key that is needed,
\* or if the connection was lost again before the listener was removed: not
\* for settings of an older version without filter, log or config, nor for
\* the defaults it puts there itself (pipeline_config.cpp:20-33,
\* frame_log_config.cpp:24-41, controller.cpp:528-537).
FailureHasCause ==
  pc \in {"failed", "given up", "hung"} => broken \/ calls = 2

\* The order of the start, and the counters.
StartInv ==
  /\ pc = "begin" => calls = 0
  /\ pc = "waiting" => mode = "client" /\ calls \in {0, 1}
  /\ pc = "listen" => todo = {}
  /\ pc \in {"begin", "waiting", "defaults", "read", "listen"} => pending = <<>>
  /\ button = "watching" => count \in {0, 1, 2}

\* No setting is newer than the last write; while the server runs, it has
\* every setting at least as new as its file.
TableInv ==
  /\ DOMAIN table = Entries /\ DOMAIN file = Entries
  /\ \A e \in Entries :
       /\ table[e] # None => table[e].n <= writes
       /\ file[e] # None => file[e].n <= writes
  /\ mode = "server" /\ Serving =>
       \A e \in Persistent :
         file[e] # None => table[e] # None /\ table[e].n >= file[e].n

\* What the controller has read or been notified of is what the table has.
Follows(e) ==
  \/ /\ live[e] = Parsed(e, table[e])
     /\ \A k \in DOMAIN pending : pending[k].entry # e
  \/ \E k \in DOMAIN pending :
       /\ pending[k].entry = e /\ pending[k].json = table[e]
       /\ \A l \in DOMAIN pending : l > k => pending[l].entry # e

FollowInv ==
  /\ DOMAIN live = Entries
  /\ pending \in Seq([entry : Entries, json : Json])
  /\ \A e \in Entries \ missed :
       AfterRead(e) \/ pc = "run" => Follows(e)

\* Every camera that is done with its defaults has all its entries.
PresentInv ==
  /\ pc = "defaults" => \A e \in Entries : e[1] \notin todo => table[e] # None
  /\ pc = "read" => \A e \in Entries : table[e] # None

\* Unless a client made a mistake, every setting there is can be read: in the
\* table, in the file and on its way to the controller.
FormInv ==
  ~broken =>
    /\ \A e \in Entries :
         /\ table[e] # None => Readable(e, table[e])
         /\ file[e] # None => Readable(e, file[e])
    /\ \A k \in DOMAIN pending : Readable(pending[k].entry, pending[k].json)

\* The invariant the proofs are by induction on.
IInv ==
  /\ TypeOK /\ StartInv /\ TableInv /\ FollowInv
  /\ PresentInv /\ FormInv /\ FailureHasCause

------------------------------------------------------------------------------
(* The store behind the settings.                                          *)

\* The JSON the running server works with, or the one it will start from.
Current == IF mode = "server" /\ ~Serving THEN file ELSE table

\* What comes back after the power was gone.
Kept == IF mode = "server" THEN file ELSE table

Age(json) == IF json = None THEN 0 ELSE json.n + 1

Store == INSTANCE SettingsStore WITH
  Settings <- Persistent,
  through  <- mode = "client",
  last     <- writes + 1,
  current  <- [e \in Persistent |-> Age(Current[e])],
  saved    <- [e \in Persistent |-> Age(Kept[e])]

\* The daemon, the NetworkTables server and the persist file are together one
\* store of settings: however the unit starts, fails and loses its power, a
\* start brings back what was saved last, all of it and unmixed, and defaults
\* go only where there is nothing (controller.cpp:498-538,555-599).
ImplementsStore == Store!Spec

------------------------------------------------------------------------------
(* Liveness.                                                               *)

\* A unit that has power gets to its event loop, unless a connection is lost
\* while it starts or a client breaks a setting (controller.cpp:59-111,
\* 498-538).
GetsReady ==
  (power = "on") ~>
    (pc = "run" \/ power = "off" \/ broken \/ calls = 2)

\* A button that is held turns the unit off, unless its line fails or the
\* request is refused (shutdown.cpp:39-55).
HeldPowersOff ==
  (power = "on" /\ pressed /\ button = "watching") ~>
    (~pressed \/ power = "off" \/ button \in {"disabled", "exited"})
==============================================================================
