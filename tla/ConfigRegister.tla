---------------------------- MODULE ConfigRegister ----------------------------
(***************************************************************************)
(* What the hand-off of configurations promises, as if setting one and     *)
(* taking it over were each a single step: before every frame each channel *)
(* is brought up to date once, to the latest version of that moment, whole *)
(* and in every run anew, and while a frame is processed nothing changes.  *)
(* ConfigHandoff is shown to implement this specification.                 *)
(***************************************************************************)
EXTENDS Naturals

CONSTANT Channels

VARIABLES
  on,      \* the camera is turned on
  latest,  \* channel -> the number of its latest version
  used,    \* channel -> the version this run uses, 0 before it has one
  seen     \* the channels brought up to date for the next frame

vars == <<on, latest, used, seen>>

Nothing == [ch \in Channels |-> 0]

Init ==
  /\ on = FALSE
  /\ latest = [ch \in Channels |-> 1]
  /\ used = Nothing
  /\ seen = {}

\* A client sets a configuration.
Set(ch) ==
  /\ latest' = [latest EXCEPT ![ch] = @ + 1]
  /\ UNCHANGED <<on, used, seen>>

TurnOn ==
  /\ ~on
  /\ on' = TRUE /\ used' = Nothing
  /\ UNCHANGED <<latest, seen>>

\* A channel is brought up to date.
Take(ch) ==
  /\ on /\ ch \notin seen
  /\ used' = [used EXCEPT ![ch] = latest[ch]]
  /\ seen' = seen \cup {ch}
  /\ UNCHANGED <<on, latest>>

\* A frame is processed with what is used.
Frame ==
  /\ on /\ seen = Channels
  /\ seen' = {}
  /\ UNCHANGED <<on, latest, used>>

\* The camera is turned off between frames, or its pipeline throws in one.
TurnOff ==
  /\ on /\ seen \in {{}, Channels}
  /\ on' = FALSE /\ seen' = {}
  /\ UNCHANGED <<latest, used>>

Next ==
  \/ TurnOn \/ Frame \/ TurnOff
  \/ \E ch \in Channels : Set(ch) \/ Take(ch)

Spec == Init /\ [][Next]_vars
==============================================================================
