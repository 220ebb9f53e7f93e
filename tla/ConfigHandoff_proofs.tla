------------------------- MODULE ConfigHandoff_proofs -------------------------
(***************************************************************************)
(* Theorems about ConfigHandoff, however often a configuration is set and  *)
(* however often the camera is turned on and off.                          *)
(***************************************************************************)
EXTENDS ConfigHandoff, TLAPS

USE DEF Channels, Parts, Whole, Of, At, ConfStates, RunStates,
        channelVars, controlVars, captureVars, confFrame, vars

\* The initial state satisfies the invariant.
LEMMA InitInv == Init => IInv
BY DEF Init, IInv, TypeOK, OwnerInv, ValueInv, ValueAt, FlagInv, NoTornConfig,
       NoLostConfig, FramesConfigured, LatestInv, Announced, InLoop, Writing,
       Taking

\* A step is a stutter, a step of the controller or a step of the pipeline
\* thread.
ControllerStep ==
  \/ \E ch \in Channels :
       \/ BeginConfigure(ch) \/ WriteFirst(ch) \/ WriteSecond(ch)
       \/ Announce(ch) \/ EndConfigure(ch)
  \/ BeginCapture \/ EndCapture

RunnerStep ==
  \/ Launch \/ BeginRun \/ LoadCapture \/ OpenCapture \/ Proceed
  \/ Frame \/ Leave
  \/ \E ch \in Channels :
       NothingNew(ch) \/ ClearReady(ch) \/ Hold(ch) \/ Apply(ch)

LEMMA StepCases ==
  [Next]_vars => ControllerStep \/ RunnerStep \/ UNCHANGED vars
BY DEF Next, Configure, Controller, Loop, ControllerStep, RunnerStep

\* An unlocked read returns a version, or the mark of a mixture.
LEMMA ReadableType == TypeOK => Readable \subseteq Nat
BY DEF TypeOK, Readable

\* Positions built for a channel are positions of the two threads.
LEMMA Positions ==
  /\ At("idle") \in ConfStates /\ At("capture") \in ConfStates
  /\ \A at \in {"off", "begin", "load", "open", "top", "frame"} :
       At(at) \in RunStates
  /\ \A ch \in Channels :
       /\ \A at \in {"locked", "half", "written", "announced"} :
            Of(at, ch) \in ConfStates
       /\ \A at \in {"look", "cleared", "holding"} : Of(at, ch) \in RunStates
BY DEF At

LEMMA TypeStep == TypeOK /\ [Next]_vars => TypeOK'
<1> SUFFICES ASSUME TypeOK, [Next]_vars PROVE TypeOK'
  OBVIOUS
<1> USE Positions DEF TypeOK
<1> HIDE DEF ConfStates, RunStates, Of, At, Whole
<1>1. ASSUME ControllerStep PROVE TypeOK'
  <2>1. ASSUME NEW ch \in Channels, BeginConfigure(ch) PROVE TypeOK'
    BY <2>1 DEF BeginConfigure
  <2>2. ASSUME NEW ch \in Channels, WriteFirst(ch) PROVE TypeOK'
    BY <2>2 DEF WriteFirst
  <2>3. ASSUME NEW ch \in Channels, WriteSecond(ch) PROVE TypeOK'
    BY <2>3 DEF WriteSecond
  <2>4. ASSUME NEW ch \in Channels, Announce(ch) PROVE TypeOK'
    BY <2>4 DEF Announce
  <2>5. ASSUME NEW ch \in Channels, EndConfigure(ch) PROVE TypeOK'
    BY <2>5 DEF EndConfigure
  <2>6. CASE BeginCapture
    BY <2>6 DEF BeginCapture
  <2>7. CASE EndCapture
    BY <2>7 DEF EndCapture
  <2> QED
    BY <1>1, <2>1, <2>2, <2>3, <2>4, <2>5, <2>6, <2>7 DEF ControllerStep
<1>2. ASSUME RunnerStep PROVE TypeOK'
  <2>1. CASE Launch \/ BeginRun
    BY <2>1 DEF Launch, BeginRun
  <2>2. CASE LoadCapture \/ OpenCapture
    BY <2>2, ReadableType DEF LoadCapture, OpenCapture
  <2>3. CASE Proceed \/ Frame \/ Leave
    BY <2>3 DEF Proceed, Frame, Leave
  <2>4. ASSUME NEW ch \in Channels, NothingNew(ch) PROVE TypeOK'
    BY <2>4 DEF NothingNew, After
  <2>5. ASSUME NEW ch \in Channels, ClearReady(ch) PROVE TypeOK'
    BY <2>5 DEF ClearReady
  <2>6. ASSUME NEW ch \in Channels, Hold(ch) PROVE TypeOK'
    BY <2>6 DEF Hold
  <2>7. ASSUME NEW ch \in Channels, Apply(ch) PROVE TypeOK'
    BY <2>7, ReadableType DEF Apply, After
  <2> QED
    BY <1>2, <2>1, <2>2, <2>3, <2>4, <2>5, <2>6, <2>7 DEF RunnerStep
<1>3. CASE UNCHANGED vars
  BY <1>3
<1> QED BY <1>1, <1>2, <1>3, StepCases

\* Every step keeps the invariant: the controller's keep the value whole in
\* the eyes of everyone else, the runner's keep what it owes to the flag.
LEMMA InvStep == IInv /\ [Next]_vars => IInv'
<1> SUFFICES ASSUME IInv, [Next]_vars PROVE IInv'
  OBVIOUS
<1>0. TypeOK'
  BY TypeStep DEF IInv
<1> USE DEF IInv, TypeOK, OwnerInv, ValueInv, ValueAt, FlagInv, NoTornConfig,
        NoLostConfig, FramesConfigured, LatestInv, Announced, InLoop, Writing,
        Taking
<1>1. ASSUME ControllerStep PROVE IInv'
  <2>1. ASSUME NEW ch \in Channels, BeginConfigure(ch) PROVE IInv'
    BY <2>1, <1>0 DEF BeginConfigure
  <2>2. ASSUME NEW ch \in Channels, WriteFirst(ch) PROVE IInv'
    <3>1. value[ch] = [p \in Parts |-> sent[ch] - 1] /\ sent[ch] \in Nat
      BY <2>2 DEF WriteFirst
    <3>2. value'[ch] = [[p \in Parts |-> sent'[ch] - 1] EXCEPT !["first"] = sent'[ch]]
      BY <2>2, <3>1 DEF WriteFirst
    <3>3. \A d \in Channels \ {ch} : value'[d] = value[d]
      BY <2>2 DEF WriteFirst
    <3>4. conf = Of("locked", ch) /\ conf' = Of("half", ch) /\ sent' = sent
      BY <2>2 DEF WriteFirst
    <3>5. value'[ch] = [Whole(sent'[ch] - 1) EXCEPT !["first"] = sent'[ch]]
      BY <3>2 DEF Whole
    <3>6. ASSUME NEW d \in Channels, d # ch PROVE value'[d] = Whole(sent'[d])
      <4>1. conf # Of("locked", d) /\ conf # Of("half", d)
        BY <3>4, <3>6 DEF Of
      <4>2. value[d] = Whole(sent[d])
        BY <4>1 DEF ValueInv
      <4> QED BY <4>2, <3>3, <3>4, <3>6
    <3>7. ValueInv'
      <4> SUFFICES ASSUME NEW d \in Channels
                   PROVE  ValueAt(d)'
        BY DEF ValueInv, ValueAt
      <4>1. CASE d = ch
        BY <4>1, <3>4, <3>5 DEF ValueAt, Of
      <4>2. CASE d # ch
        <5>1. conf' # Of("locked", d) /\ conf' # Of("half", d)
          BY <4>2, <3>4
        <5>2. value'[d] = Whole(sent'[d])
          BY <4>2, <3>6
        <5> QED BY <5>1, <5>2
      <4> QED BY <4>1, <4>2
    <3> QED BY <2>2, <3>7, <1>0 DEF WriteFirst
  <2>3. ASSUME NEW ch \in Channels, WriteSecond(ch) PROVE IInv'
    BY <2>3, <1>0, SMTT(20) DEF WriteSecond
  <2>4. ASSUME NEW ch \in Channels, Announce(ch) PROVE IInv'
    BY <2>4, <1>0 DEF Announce
  <2>5. ASSUME NEW ch \in Channels, EndConfigure(ch) PROVE IInv'
    BY <2>5, <1>0 DEF EndConfigure
  <2>6. CASE BeginCapture \/ EndCapture
    BY <2>6, <1>0 DEF BeginCapture, EndCapture
  <2> QED BY <1>1, <2>1, <2>2, <2>3, <2>4, <2>5, <2>6 DEF ControllerStep
<1>2. ASSUME RunnerStep PROVE IInv'
  <2>1. CASE Launch \/ BeginRun \/ LoadCapture \/ OpenCapture
    BY <2>1, <1>0 DEF Launch, BeginRun, LoadCapture, OpenCapture
  <2>2. CASE Proceed \/ Frame \/ Leave
    BY <2>2, <1>0 DEF Proceed, Frame, Leave
  <2>3. ASSUME NEW ch \in Channels, NothingNew(ch) PROVE IInv'
    BY <2>3, <1>0 DEF NothingNew, After
  <2>4. ASSUME NEW ch \in Channels, ClearReady(ch) PROVE IInv'
    BY <2>4, <1>0 DEF ClearReady
  <2>5. ASSUME NEW ch \in Channels, Hold(ch) PROVE IInv'
    BY <2>5, <1>0 DEF Hold
  <2>6. ASSUME NEW ch \in Channels, Apply(ch) PROVE IInv'
    <3>1. value[ch] = Whole(sent[ch]) /\ ~Writing(ch)
      BY <2>6 DEF Apply
    <3>2. NoTornConfig' /\ NoLostConfig' /\ LatestInv'
      BY <2>6, <3>1 DEF Apply, After
    <3>3. OwnerInv' /\ ValueInv'
      BY <2>6 DEF Apply, After
    <3>4. FlagInv' /\ FramesConfigured'
      BY <2>6, <3>1 DEF Apply, After
    <3> HIDE DEF OwnerInv, ValueInv, FlagInv, NoTornConfig, NoLostConfig,
                 FramesConfigured, LatestInv
    <3> QED BY <1>0, <3>2, <3>3, <3>4
  <2> QED BY <1>2, <2>1, <2>2, <2>3, <2>4, <2>5, <2>6 DEF RunnerStep
<1>3. CASE UNCHANGED vars
  BY <1>3, <1>0
<1> QED BY <1>1, <1>2, <1>3, StepCases

\* Owners, values, flags and what is applied fit together in every state.
THEOREM Inductive == Spec => []IInv
BY InitInv, InvStep, PTL DEF Spec

\* Every variable of the hand-off keeps its range.
THEOREM TypeCorrect == Spec => []TypeOK
<1>1. IInv => TypeOK
  BY DEF IInv
<1> QED BY <1>1, Inductive, PTL

\* A configuration is never applied in part.
THEOREM ConfigsAreWhole == Spec => []NoTornConfig
<1>1. IInv => NoTornConfig
  BY DEF IInv
<1> QED BY <1>1, Inductive, PTL

\* No configuration is lost on its way to a running pipeline.
THEOREM ConfigsAreNotLost == Spec => []NoLostConfig
<1>1. IInv => NoLostConfig
  BY DEF IInv
<1> QED BY <1>1, Inductive, PTL

\* Every frame of every run is processed by a configured pipeline.
THEOREM FramesAreConfigured == Spec => []FramesConfigured
<1>1. IInv => FramesConfigured
  BY DEF IInv
<1> QED BY <1>1, Inductive, PTL

(***************************************************************************)
(* ConfigHandoff implements ConfigRegister.                                *)
(***************************************************************************)

on     == run # At("off")
latest == [ch \in Channels |-> Announced(ch)]
used   == [ch \in Channels |-> UsedVersion(ch)]

\* The register changes with the flag of a configuration, with what a run
\* uses, and with where the run is; everything else is a stutter.
RegisterStep ==
  Register!Next \/ UNCHANGED <<on, latest, used, SeenTo>>

LEMMA RegisterInit == Init => Register!Init
BY DEF Init, Register!Init, Register!Nothing, Announced, UsedVersion, SeenTo

\* What a run uses depends on what was applied in it alone ...
LEMMA UsedStays == UNCHANGED <<applied, configured>> => used' = used
BY DEF used, UsedVersion

\* ... and the latest version on the controller alone.
LEMMA LatestStays == UNCHANGED <<sent, conf>> => latest' = latest
BY DEF latest, Announced

\* A version counts when its flag is raised, not before.
LEMMA ControllerRefines == IInv /\ ControllerStep => RegisterStep
<1> SUFFICES ASSUME IInv, ControllerStep PROVE RegisterStep
  OBVIOUS
<1> USE DEF IInv, TypeOK
<1>1. used' = used /\ SeenTo' = SeenTo /\ on' = on
  <2>1. UNCHANGED <<run, applied, configured>>
    BY DEF ControllerStep, BeginConfigure, WriteFirst, WriteSecond, Announce,
           EndConfigure, BeginCapture, EndCapture
  <2> QED BY <2>1, UsedStays DEF SeenTo, on
<1>2. ASSUME NEW ch \in Channels,
             \/ BeginConfigure(ch) \/ WriteFirst(ch) \/ WriteSecond(ch)
             \/ EndConfigure(ch) \/ BeginCapture \/ EndCapture
      PROVE  latest' = latest
  BY <1>2 DEF latest, Announced, BeginConfigure, WriteFirst, WriteSecond,
              EndConfigure, BeginCapture, EndCapture
<1>3. ASSUME NEW ch \in Channels, Announce(ch) PROVE Register!Set(ch)
  <2>1. latest' = [latest EXCEPT ![ch] = @ + 1]
    <3>1. Announced(ch)' = Announced(ch) + 1
      <4>1. Announced(ch) = sent[ch] - 1 /\ Announced(ch)' = sent[ch]
        BY <1>3 DEF Announced, Announce
      <4> QED BY <4>1
    <3>2. \A d \in Channels \ {ch} : Announced(d)' = Announced(d)
      BY <1>3 DEF Announced, Announce
    <3> QED BY <3>1, <3>2, Zenon DEF latest
  <2> QED BY <2>1, <1>1 DEF Register!Set, latest, used, on
<1> QED
  BY <1>1, <1>2, <1>3 DEF ControllerStep, RegisterStep, Register!Next

\* A channel that is looked at has not been seen to since the last frame.
LEMMA Unseen ==
  ASSUME NEW ch \in Channels, run \in {Of(at, ch) : at \in {"look", "holding"}},
         run' = After(ch)
  PROVE  /\ on /\ on' /\ ch \notin SeenTo
         /\ SeenTo' = SeenTo \cup {ch}
BY DEF on, SeenTo, After

\* A channel without news has the latest version in this run already.
LEMMA NothingNewTakes ==
  ASSUME IInv, NEW ch \in Channels, NothingNew(ch)
  PROVE  Register!Take(ch)
<1>1. ch \in configured /\ applied[ch] = Whole(Announced(ch))
  BY DEF NothingNew, IInv, TypeOK, LatestInv, FlagInv, InLoop, Taking
<1>2. used[ch] = latest[ch]
  BY <1>1 DEF used, latest, UsedVersion
<1>3. used' = used /\ latest' = latest
  BY UsedStays, LatestStays DEF NothingNew
<1>4. used' = [used EXCEPT ![ch] = latest[ch]]
  BY <1>2, <1>3 DEF used
<1>5. /\ on /\ on' /\ ch \notin SeenTo
      /\ SeenTo' = SeenTo \cup {ch}
  BY Unseen DEF NothingNew
<1> QED BY <1>3, <1>4, <1>5 DEF Register!Take, on, used, latest

\* What is copied under the mutex is the latest version, and whole.
LEMMA ApplyTakes ==
  ASSUME IInv, NEW ch \in Channels, Apply(ch)
  PROVE  Register!Take(ch)
<1>1. ~Writing(ch)
  BY DEF Apply, IInv, OwnerInv
<1>2. value[ch] = Whole(Announced(ch))
  <2>1. value[ch] = Whole(sent[ch])
    BY <1>1 DEF IInv, ValueInv, ValueAt, Writing
  <2> QED BY <2>1, <1>1 DEF Announced, Writing
<1>3. latest' = latest
  BY LatestStays DEF Apply
<1>4. used' = [used EXCEPT ![ch] = latest[ch]]
  <2>1. applied' = [applied EXCEPT ![ch] = Whole(Announced(ch))]
    BY <1>2 DEF Apply
  <2>2. configured' = configured \cup {ch}
    BY DEF Apply
  <2> QED BY <2>1, <2>2 DEF used, latest, UsedVersion, IInv, TypeOK
<1>5. /\ on /\ on' /\ ch \notin SeenTo
      /\ SeenTo' = SeenTo \cup {ch}
  BY Unseen DEF Apply
<1> QED BY <1>3, <1>4, <1>5 DEF Register!Take, on, used, latest

LEMMA RunnerRefines == IInv /\ RunnerStep => RegisterStep
<1> SUFFICES ASSUME IInv, RunnerStep PROVE RegisterStep
  OBVIOUS
<1>0. latest' = latest
  <2>1. UNCHANGED <<sent, conf>>
    BY DEF RunnerStep, Launch, BeginRun, LoadCapture, OpenCapture, Proceed,
           Frame, Leave, NothingNew, ClearReady, Hold, Apply
  <2> QED BY <2>1, LatestStays
<1>1. CASE Launch
  <2>1. used' = [ch \in Channels |-> 0]
    BY <1>1 DEF Launch, used, UsedVersion
  <2>2. ~on /\ on' /\ SeenTo' = SeenTo
    BY <1>1 DEF Launch, on, SeenTo
  <2>3. Register!TurnOn
    BY <1>0, <2>1, <2>2 DEF Register!TurnOn, Register!Nothing, on, used, latest
  <2> QED BY <2>3 DEF RegisterStep, Register!Next
<1>2. CASE BeginRun \/ LoadCapture \/ OpenCapture \/ Proceed
  <2>1. used' = used
    BY <1>2, UsedStays DEF BeginRun, LoadCapture, OpenCapture, Proceed
  <2>2. on' = on /\ SeenTo' = SeenTo
    BY <1>2 DEF BeginRun, LoadCapture, OpenCapture, Proceed, on, SeenTo
  <2> QED BY <1>0, <2>1, <2>2 DEF RegisterStep
<1>3. CASE Frame
  <2>1. used' = used
    BY <1>3, UsedStays DEF Frame
  <2>2. on /\ on' /\ SeenTo = Channels /\ SeenTo' = {}
    BY <1>3 DEF Frame, on, SeenTo
  <2>3. Register!Frame
    BY <1>0, <2>1, <2>2 DEF Register!Frame, on, used, latest
  <2> QED BY <2>3 DEF RegisterStep, Register!Next
<1>4. CASE Leave
  <2>1. used' = used
    BY <1>4, UsedStays DEF Leave
  <2>2. on /\ ~on' /\ SeenTo \in {{}, Channels} /\ SeenTo' = {}
    BY <1>4 DEF Leave, on, SeenTo
  <2>3. Register!TurnOff
    BY <1>0, <2>1, <2>2 DEF Register!TurnOff, on, used, latest
  <2> QED BY <2>3 DEF RegisterStep, Register!Next
<1>5. ASSUME NEW ch \in Channels, ClearReady(ch) \/ Hold(ch)
      PROVE  RegisterStep
  <2>1. used' = used
    BY <1>5, UsedStays DEF ClearReady, Hold
  <2>2. on' = on /\ SeenTo' = SeenTo
    BY <1>5 DEF ClearReady, Hold, on, SeenTo
  <2> QED BY <1>0, <2>1, <2>2 DEF RegisterStep
<1>6. ASSUME NEW ch \in Channels, NothingNew(ch) \/ Apply(ch)
      PROVE  RegisterStep
  BY <1>6, NothingNewTakes, ApplyTakes DEF RegisterStep, Register!Next
<1> QED BY <1>1, <1>2, <1>3, <1>4, <1>5, <1>6 DEF RunnerStep

LEMMA RegisterNext ==
  IInv /\ [Next]_vars => [Register!Next]_(Register!vars)
<1> SUFFICES ASSUME IInv, [Next]_vars PROVE RegisterStep
  BY DEF RegisterStep, Register!vars, on, used, latest
<1>1. CASE UNCHANGED vars
  BY <1>1 DEF RegisterStep, on, used, latest, SeenTo, Announced, UsedVersion
<1> QED BY <1>1, StepCases, ControllerRefines, RunnerRefines

\* Value, mutex and flag of a channel are together one register, for any
\* number of versions and of runs.
THEOREM RegisterRefinement == Spec => ImplementsRegister
BY RegisterInit, RegisterNext, Inductive, PTL
   DEF Spec, ImplementsRegister, Register!Spec
==============================================================================
