----------------------------- MODULE SystemProofs -----------------------------
(***************************************************************************)
(* The controller together with its trackers behaves as the controller     *)
(* alone expects of its environment, so that what is proved of the         *)
(* controller holds of the system.                                         *)
(***************************************************************************)
EXTENDS System, ControllerStateProofs

LEMMA SystemStep == [SystemNext]_systemVars => [Next]_vars
<1> SUFFICES ASSUME [SystemNext]_systemVars PROVE [Next]_vars
  OBVIOUS
<1>1. ASSUME NEW k \in KCDs,
             \/ \E v \in Versions : Begin(k, v)
             \/ Finish(k) \/ Remove(k)
      PROVE  Next
  BY <1>1 DEF Begin, Finish, Remove, Next, Step
<1>2. ASSUME NEW j \in JobIds, Stop(j) \/ Vanish(j) PROVE Next
  BY <1>2 DEF Stop, Vanish, Next, Step
<1>3. ASSUME NEW j \in JobIds, ReadKcd(j) \/ SeeKcd(j) PROVE UNCHANGED vars
  BY <1>3 DEF ReadKcd, SeeKcd
<1>4. Work => Next
  BY DEF Next, Step
<1>5. QED
  BY <1>1, <1>2, <1>3, <1>4 DEF SystemNext, systemVars

\* Trackers add conditions to when jobs end and rollouts start, and steps that
\* the controller does not see: every behaviour of the controller with its
\* trackers is one of the controller in its environment.
THEOREM SystemImplementsController == SystemSpec => Spec
<1>1. SystemInit => Init
  BY DEF SystemInit
<1>2. QED
  BY <1>1, SystemStep, PTL DEF SystemSpec, Spec

LEMMA AloneIsOpen == Spec => OpenSpec
<1>1. [Next]_vars => [OpenNext]_vars
  BY DEF OpenNext
<1>2. QED
  BY <1>1, PTL DEF Spec, OpenSpec

\* With the trackers it starts too the controller sends confirmations on open
\* channels only, misses none that is mapped, and forgets no start it has
\* heard of (controller.go:139, 193, 359), with any number of workers, bundled
\* updates and failing calls.
THEOREM SystemKeepsPromises ==
    SystemSpec => [](ConfirmChannelOpen /\ ConfirmationComing /\ StartKept)
BY SystemImplementsController, AloneIsOpen, NeverSendsOnClosed,
   ConfirmationNotMissed, StartsKept, PTL

===============================================================================
