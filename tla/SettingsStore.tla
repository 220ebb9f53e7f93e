---------------------------- MODULE SettingsStore ----------------------------
(***************************************************************************)
(* What a unit promises about the settings it keeps: they are a store      *)
(* that is written in memory and saved as a whole now and then, or with    *)
(* every write where the robot's server has them.  A failure or a power    *)
(* cut takes it back to what was saved last, all of it at once; a default  *)
(* is filled in only where there is nothing.  Settings are modelled by     *)
(* their age: 0 is none, 1 the default, and each write has a greater one.  *)
(* UnitLife is shown to implement this specification.                      *)
(***************************************************************************)
EXTENDS Naturals

CONSTANT Settings

VARIABLES
  through,  \* every write is saved at once
  last,     \* the age of the last write
  current,  \* setting -> its age
  saved     \* setting -> the age that was saved

vars == <<through, last, current, saved>>

Init ==
  /\ through \in BOOLEAN /\ last = 1
  /\ current = [s \in Settings |-> 0]
  /\ saved = current

Saving == saved' = IF through THEN current' ELSE saved

Write(s) ==
  /\ last' = last + 1
  /\ current' = [current EXCEPT ![s] = last + 1]
  /\ Saving /\ UNCHANGED through

\* Something else is written, which is not kept.
WriteElsewhere ==
  last' = last + 1 /\ UNCHANGED <<through, current, saved>>

Fill(some) ==
  /\ current' = [s \in Settings |->
       IF s \in some /\ current[s] = 0 THEN 1 ELSE current[s]]
  /\ Saving /\ UNCHANGED <<through, last>>

Save == saved' = current /\ UNCHANGED <<through, last, current>>

Lose == current' = saved /\ UNCHANGED <<through, last, saved>>

Next ==
  \/ \E s \in Settings : Write(s)
  \/ \E some \in SUBSET Settings : Fill(some)
  \/ WriteElsewhere \/ Save \/ Lose

Spec == Init /\ [][Next]_vars
==============================================================================
