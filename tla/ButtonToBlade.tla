---------------------------- MODULE ButtonToBlade ----------------------------
(***************************************************************************)
(* From the button to the blade: the gestures of InputGestures, the bus    *)
(* cycle that reads them and runs the effects of a profile on the last     *)
(* one, the sound loops those effects hold, and the overlays they give to  *)
(* the smart LED engine, which ends them while it renders.                 *)
(*                                                                         *)
(* Only a profile that is loaded and not switched is seen here, so the     *)
(* power states Locked, Faulted and Switching do not occur; a third click  *)
(* and what follows it is ProfileSwitch.  One-shot sounds, volumes,        *)
(* colours and the motion that modulates them are left out; that the       *)
(* motion of a cycle decelerates or overloads the blade is an input.       *)
(***************************************************************************)
EXTENDS InputGestures, SequencesExt

CONSTANT MaxOverlays  \* MAX_OVERLAYS

ASSUME BladeAssumption == MaxOverlays \in Nat \ {0}

Slot == 1 .. MaxOverlays

VARIABLES
  power,     \* PowerStateMachine
  cooldown,  \* of "burst" and "clash", those that came less than their minimum interval ago
  sweep,     \* how far the ignition or retraction is: 1 at the pre-start of the swing, 2 elapsed
  blade,     \* what the effects hold, see BladeType
  overlays   \* the slots of the LED engine

bladeVars == <<power, cooldown, sweep, blade, overlays>>
vars == <<inputVars, bladeVars>>

\* m_enginesStarted of the power effect, whether the swing loops and the base effect are on,
\* m_active of the drag effect (its loop plays) and the slot whose fade flag it shares, or 0.
BladeType ==
  [enginesStarted : BOOLEAN, swing : BOOLEAN, light : BOOLEAN, drag : BOOLEAN, fade : Slot \cup {0}]

\* A drag overlay lasts until it is asked to fade; the others end by themselves.
Overlay == {"free", "timed", "drag", "fading"}

Init ==
  /\ InputInit
  /\ power = "Retracted" /\ sweep = 0 /\ cooldown = {}
  /\ blade = [enginesStarted |-> FALSE, swing |-> FALSE, light |-> FALSE, drag |-> FALSE, fade |-> 0]
  /\ overlays = [s \in Slot |-> "free"]

-----------------------------------------------------------------------------
(* The effects, on a saber s = [power, cooldown, sweep, blade, overlays].  *)

\* pushOverlay(): the first free slot, or none.
FreeSlot(s) ==
  IF \E i \in Slot : s.overlays[i] = "free"
    THEN CHOOSE i \in Slot : s.overlays[i] = "free" /\ \A j \in 1 .. i - 1 : s.overlays[j] # "free"
    ELSE 0

PushOverlay(s, overlay) ==
  [s EXCEPT !.overlays = [i \in Slot |-> IF i = FreeSlot(s) THEN overlay ELSE @[i]]]

\* What a cycle finds in the motion that is left by the filters: the kinetic energy has brought
\* the overload level to 1, or dropped by more than the threshold of a clash.
Motion == [overload : BOOLEAN, drop : BOOLEAN]

IsClick(input, n) == input.gesture = "Click" /\ input.n = n

\* PowerToggleEffect: beginIgnition(), tickIgnition(), beginRetraction(), tickRetraction().
BeginIgnition(s) ==
  [PushOverlay(s, "timed") EXCEPT
     !.power = "Igniting", !.sweep = 0, !.blade.enginesStarted = FALSE]

\* The swing effect plays its three loops, the light effect gives its base to the LED engine;
\* both calls may come again while they are active.
ActivateSwing(b) == [b EXCEPT !.swing = TRUE]
ActivateLight(b) == [b EXCEPT !.light = TRUE]
DeactivateSwing(b) == [b EXCEPT !.swing = FALSE]
DeactivateLight(b) == [b EXCEPT !.light = FALSE]

ActivateEngines(s) ==
  [s EXCEPT !.blade = [ActivateSwing(ActivateLight(@)) EXCEPT !.enginesStarted = TRUE]]

TickIgnition(s) ==
  LET started == IF s.sweep >= 1 /\ ~s.blade.enginesStarted THEN ActivateEngines(s) ELSE s
  IN IF s.sweep = 2 THEN [started EXCEPT !.power = "Ignited"] ELSE started

BeginRetraction(s) ==
  [PushOverlay(s, "timed") EXCEPT
     !.power = "Retracting", !.sweep = 0, !.blade = DeactivateSwing(DeactivateLight(@))]

TickRetraction(s) == IF s.sweep = 2 THEN [s EXCEPT !.power = "Retracted"] ELSE s

PowerToggle(s, input) ==
  CASE s.power = "Igniting" -> TickIgnition(s)
    [] s.power = "Retracting" -> TickRetraction(s)
    [] s.power = "Retracted" /\ IsClick(input, 1) -> BeginIgnition(s)
    [] s.power = "Ignited" /\ IsClick(input, 2) -> BeginRetraction(s)
    [] OTHER -> s

\* DragEffect: without a free slot the drag goes on without an overlay.
BeginDrag(s) ==
  [PushOverlay(s, "drag") EXCEPT !.blade.drag = TRUE, !.blade.fade = FreeSlot(s)]

EndDrag(s) ==
  [s EXCEPT !.blade.drag = FALSE, !.blade.fade = 0,
            !.overlays = [i \in Slot |-> IF i = s.blade.fade THEN "fading" ELSE @[i]]]

Drag(s, input) ==
  CASE ~s.blade.drag /\ s.power = "Ignited" /\ input.gesture = "HoldTick" /\ input.n = 1 ->
         BeginDrag(s)
    [] s.blade.drag /\ (s.power # "Ignited" \/ input.state = "Released") -> EndDrag(s)
    [] OTHER -> s

\* BlasterEffect, KineticImpactEffect and the plasma rupture of the light.
Blaster(s, input) ==
  IF s.power = "Ignited" /\ IsClick(input, 1) THEN PushOverlay(s, "timed") ELSE s

DetectClash(s, motion) == s.power = "Ignited" /\ motion.drop /\ "clash" \notin s.cooldown

KineticImpact(s, motion) ==
  IF DetectClash(s, motion)
    THEN [PushOverlay(s, "timed") EXCEPT !.cooldown = @ \cup {"clash"}]
    ELSE s

Light(s) == IF s.blade.light THEN PushOverlay(s, "timed") ELSE s

\* computeInertialOverload(): a burst, whether the blade is lit or not, that the light is told of.
InertialOverload(s, motion) ==
  IF motion.overload /\ "burst" \notin s.cooldown
    THEN [Light(s) EXCEPT !.cooldown = @ \cup {"burst"}]
    ELSE s

-----------------------------------------------------------------------------
\* Fault: the first event of a cycle stays.
FirstInput == IF queue = <<>> THEN NoInput ELSE Head(queue)

\* drainInputQueue(): of the events that have come up to its last look the last one stays.
LatestInput == IF queue = <<>> THEN NoInput ELSE Last(queue)

Saber ==
  [power |-> power, cooldown |-> cooldown, sweep |-> sweep, blade |-> blade,
   overlays |-> overlays]

\* The effects by priority, each on what the one before has left.
Effects(s, input, motion) ==
  {KineticImpact(shot, motion) : shot \in
    {Blaster(dragged, input) : dragged \in
      {Drag(toggled, input) : toggled \in
        {PowerToggle(lit, input) : lit \in {InertialOverload(s, motion)}}}}}

\* A bus cycle: the effects run on what was drained.
BusCycle ==
  /\ \E after \in UNION {Effects(Saber, LatestInput, motion) : motion \in Motion} :
       /\ power' = after.power /\ cooldown' = after.cooldown /\ sweep' = after.sweep
       /\ blade' = after.blade /\ overlays' = after.overlays
  /\ queue' = <<>>
  /\ UNCHANGED <<buttonVars, adapterVars, timerVars, reported, lost>>

\* nowMs() reaches the next mark of the sequence.
SweepElapses ==
  /\ power \in {"Igniting", "Retracting"} /\ sweep < 2
  /\ sweep' = sweep + 1
  /\ UNCHANGED <<inputVars, power, cooldown, blade, overlays>>

\* The overlays of an ignition, a retraction, a blaster shot, a clash or a burst take their time;
\* a drag overlay looks at its flag in each frame and ends 150 ms after it was set.
TimeOver(overlay) == overlay = "timed"
FadedOut(overlay) == overlay = "fading"

\* renderLoop(): a frame finds an overlay finished and frees its slot.
OverlayEnds(i) ==
  /\ TimeOver(overlays[i]) \/ FadedOut(overlays[i])
  /\ overlays' = [overlays EXCEPT ![i] = "free"]
  /\ UNCHANGED <<inputVars, power, cooldown, sweep, blade>>

\* The minimum interval between two bursts, or two clashes, is over.
CooldownEnds ==
  /\ \E kind \in cooldown : cooldown' = cooldown \ {kind}
  /\ UNCHANGED <<inputVars, power, sweep, blade, overlays>>

BladeNext == BusCycle \/ SweepElapses \/ CooldownEnds \/ \E i \in Slot : OverlayEnds(i)

Next == (InputNext /\ UNCHANGED bladeVars) \/ BladeNext

Spec == Init /\ [][Next]_vars

\* The bus cycles, sweeps elapse and the LED engine renders; motion need not do anything.
FairSpec ==
  /\ Spec /\ InputFairness
  /\ WF_vars(BusCycle) /\ WF_vars(SweepElapses)
  /\ \A i \in Slot : WF_vars(OverlayEnds(i))

-----------------------------------------------------------------------------
TypeOK ==
  /\ InputTypeOK
  /\ power \in {"Retracted", "Igniting", "Ignited", "Retracting"} /\ sweep \in 0 .. 2
  /\ cooldown \subseteq {"burst", "clash"}
  /\ blade \in BladeType /\ overlays \in [Slot -> Overlay]

\* Once the button is left alone, the saber comes to rest: no press waits, the saber is ignited
\* with its loops and its light or retracted without, and no drag is left, unless an event of the
\* button was dropped.
Settles ==
  <>[]~isPressed =>
    <>[](/\ pending = 0
         /\ power \in {"Ignited", "Retracted"}
         /\ blade.swing = (power = "Ignited") /\ blade.light = (power = "Ignited")
         /\ lost \/ (~blade.drag /\ \A i \in Slot : overlays[i] \notin {"drag", "fading"}))
=============================================================================
