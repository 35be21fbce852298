---------------------------- MODULE GestureProofs ----------------------------
(***************************************************************************)
(* Proofs about the button of ButtonToBlade, for every size of the click   *)
(* and hold counters and of the input queue: the events it reports are the *)
(* gestures of GestureStream.  And about the blade it is composed with,    *)
(* for every number of overlay slots: types, and the overlay of a drag.    *)
(***************************************************************************)
EXTENDS ButtonToBlade, WellFoundedInduction, TLAPS

\* What the adapter holds between two critical sections, or between the two events of a
\* release: its state follows the button, a hold is in progress only while the button is
\* held, which leaves no press to be clicked, and there is none before the first press.
GestureInv ==
  /\ isPressed \in BOOLEAN
  /\ current \in IF isPressed THEN {"Pressed", "Held"} ELSE {"Idle", "Released"}
  /\ current # "Held" => holdLevel = 0
  /\ current \in {"Idle", "Held"} => pending = 0
  /\ releasing => current = "Released"

\* A click that is resolved is one of GestureStream, or there was none to resolve.
LEMMA ClickIsShown ==
  ASSUME EmitClick, GestureInv, UNCHANGED <<current, holdLevel>>,
         pending # 0 => current # "Pressed"
  PROVE  Stream!Next \/ UNCHANGED Stream!streamVars
<1>1. CASE pending = 0
  BY <1>1 DEF EmitClick, queueVars, Stream!streamVars
<1>2. CASE pending # 0
  <2>1. current = "Released"
    BY <1>2 DEF GestureInv
  <2>2. Stream!Click
    BY <1>2, <2>1 DEF EmitClick, Push, Event, Stream!Click, Stream!Event
  <2> QED BY <2>2 DEF Stream!Next
<1> QED BY <1>1, <1>2

\* So is a tick while the button is held down.
LEMMA TickIsShown ==
  ASSUME EmitHoldTick, GestureInv, isPressed, pending' = 0
  PROVE  Stream!Next
<1>1. Stream!HoldTick
  BY DEF EmitHoldTick, GestureInv, Push, Event, Increment, Stream!HoldTick, Stream!Event
<1> QED BY <1>1 DEF Stream!Next

\* GestureInv is inductive, and each step of the button is one of GestureStream or shows
\* nothing.
LEMMA GestureStep ==
  GestureInv /\ [Next]_vars => GestureInv' /\ [Stream!Next]_(Stream!streamVars)
<1> SUFFICES ASSUME GestureInv, [Next]_vars
             PROVE  GestureInv' /\ (Stream!Next \/ UNCHANGED Stream!streamVars)
  OBVIOUS
<1> USE DEF buttonVars, adapterVars, timerVars, queueVars
<1>1. CASE OnPressDown
  <2>1. Stream!Press
    BY <1>1 DEF OnPressDown, GestureInv, Push, Event, Increment, Stream!Press, Stream!Event
  <2>2. GestureInv'
    BY <1>1 DEF OnPressDown, GestureInv
  <2> QED BY <2>1, <2>2 DEF Stream!Next
<1>2. CASE OnPressUp
  <2>1. Stream!Release
    BY <1>2 DEF OnPressUp, GestureInv, Push, Event, Stream!Release, Stream!Event
  <2>2. GestureInv'
    BY <1>2 DEF OnPressUp, GestureInv
  <2> QED BY <2>1, <2>2 DEF Stream!Next
<1>3. CASE ClickOnRelease
  <2>1. GestureInv'
    BY <1>3 DEF ClickOnRelease, EmitClick, GestureInv
  <2> QED BY <1>3, <2>1, ClickIsShown DEF ClickOnRelease, GestureInv
<1>4. CASE OnFirstHoldTick
  <2>1. GestureInv'
    BY <1>4 DEF OnFirstHoldTick, EmitHoldTick, GestureInv
  <2> QED BY <1>4, <2>1, TickIsShown DEF OnFirstHoldTick
<1>5. CASE ResolveClick
  <2>1. CASE pending # 0 /\ current = "Pressed"
    BY <1>5, <2>1 DEF ResolveClick, GestureInv, Stream!streamVars
  <2>2. CASE ~(pending # 0 /\ current = "Pressed")
    <3>1. EmitClick /\ UNCHANGED <<isPressed, current, holdLevel, releasing>>
      BY <1>5, <2>2 DEF ResolveClick
    <3>2. GestureInv'
      BY <3>1 DEF EmitClick, GestureInv
    <3> QED BY <2>2, <3>1, <3>2, ClickIsShown
  <2> QED BY <2>1, <2>2
<1>6. CASE ResolveHoldTick
  <2>1. CASE current = "Held"
    <3>1. isPressed /\ pending' = 0 /\ EmitHoldTick
      BY <1>6, <2>1 DEF ResolveHoldTick, GestureInv
    <3>2. GestureInv'
      BY <1>6, <3>1 DEF ResolveHoldTick, EmitHoldTick, GestureInv
    <3> QED BY <3>1, <3>2, TickIsShown
  <2>2. CASE current # "Held"
    BY <1>6, <2>2 DEF ResolveHoldTick, GestureInv, Stream!streamVars
  <2> QED BY <2>1, <2>2
<1>7. CASE ClickTimerExpires \/ HoldTimerExpires
  BY <1>7 DEF ClickTimerExpires, HoldTimerExpires, GestureInv, Stream!streamVars
<1>8. CASE BladeNext
  <2>1. UNCHANGED <<isPressed, current, pending, holdLevel, releasing, reported>>
    BY <1>8 DEF BladeNext, BusCycle, SweepElapses, CooldownEnds, OverlayEnds, inputVars
  <2> QED BY <2>1 DEF GestureInv, Stream!streamVars
<1>9. CASE UNCHANGED vars
  BY <1>9 DEF vars, inputVars, GestureInv, Stream!streamVars
<1> QED BY <1>1, <1>2, <1>3, <1>4, <1>5, <1>6, <1>7, <1>8, <1>9 DEF Next, InputNext, Poll, TimerTask

\* The events that the button reports are presses, releases and the gestures they amount to,
\* each press in at most one, however the poll task, the timers and the bus interleave: the
\* safety part of ImplementsGestures.
THEOREM GesturesImplemented == Spec => Stream!Spec
<1>1. Init => GestureInv /\ Stream!Init
  <2>1. Init => GestureInv
    BY DEF Init, InputInit, GestureInv
  <2>2. ASSUME Init PROVE (current \in {"Pressed", "Held"}) = FALSE
    BY <2>2 DEF Init, InputInit
  <2>3. ASSUME Init PROVE pending = 0 /\ holdLevel = 0 /\ reported = Stream!Event("Idle", "None", 0)
    BY <2>3 DEF Init, InputInit, NoInput, Event, Stream!Event
  <2> QED BY <2>1, <2>2, <2>3 DEF Stream!Init
<1> QED BY <1>1, GestureStep, PTL DEF Spec, Stream!Spec

-----------------------------------------------------------------------------
(* Types.                                                                  *)

\* A saber, as the effects hand it on in a cycle.
SaberType ==
  [power : {"Retracted", "Igniting", "Ignited", "Retracting"}, cooldown : SUBSET {"burst", "clash"},
   sweep : 0 .. 2, blade : BladeType, overlays : [Slot -> Overlay]]

\* pushOverlay() finds the first free slot, if there is one.
LEMMA FreeSlotIs ==
  ASSUME NEW s
  PROVE  /\ FreeSlot(s) \in Slot \cup {0} /\ 0 \notin Slot
         /\ FreeSlot(s) # 0 => s.overlays[FreeSlot(s)] = "free"
<1>0. 0 \notin Slot
  BY BladeAssumption DEF Slot
<1> DEFINE free == {i \in Slot : s.overlays[i] = "free"}
           Before == OpToRel(<, Nat)
<1>1. CASE free = {}
  BY <1>0, <1>1 DEF FreeSlot
<1>2. CASE free # {}
  <2>1. IsWellFoundedOn(Before, Nat) /\ \A x, y \in Nat : y < x => <<y, x>> \in Before
    BY NatLessThanWellFounded DEF OpToRel
  <2>2. free \subseteq Nat /\ Slot \subseteq Nat
    BY BladeAssumption DEF Slot
  <2>3. PICK i \in free : \A j \in free : ~ (<<j, i>> \in Before)
    <3> HIDE DEF Before, free
    <3> QED BY <1>2, <2>1, <2>2, WFMin
  <2>4. \A j \in free : ~ (j < i)
    <3> HIDE DEF Before
    <3> QED BY <2>1, <2>2, <2>3
  <2>5. \A j \in 1 .. i - 1 : j \in Slot /\ j < i
    BY <2>2, BladeAssumption DEF Slot
  <2>6. i \in Slot /\ s.overlays[i] = "free" /\ \A j \in 1 .. i - 1 : s.overlays[j] # "free"
    BY <2>4, <2>5
  <2> HIDE DEF Before, free
  <2>7. /\ \E k \in Slot : s.overlays[k] = "free"
        /\ \E k \in Slot : s.overlays[k] = "free" /\ \A j \in 1 .. k - 1 : s.overlays[j] # "free"
    BY <2>6
  <2> QED BY <1>0, <2>7 DEF FreeSlot
<1> QED BY <1>1, <1>2

\* An overlay goes into a slot of the LED engine or nowhere.
LEMMA PushTyped ==
  ASSUME NEW s \in SaberType, NEW overlay \in Overlay
  PROVE  PushOverlay(s, overlay) \in SaberType
BY DEF PushOverlay, SaberType

\* The parts of a saber may change one by one.
LEMMA BladeParts ==
  ASSUME NEW b \in BladeType, NEW v \in BOOLEAN
  PROVE  /\ [b EXCEPT !.swing = v] \in BladeType /\ [b EXCEPT !.light = v] \in BladeType
         /\ [b EXCEPT !.enginesStarted = v] \in BladeType
         /\ \A f \in Slot \cup {0} : [b EXCEPT !.drag = v, !.fade = f] \in BladeType
BY DEF BladeType

\* A saber keeps its type when one of its parts is replaced by another of the same type.
LEMMA SaberParts ==
  ASSUME NEW s \in SaberType
  PROVE  /\ \A p \in {"Retracted", "Igniting", "Ignited", "Retracting"} :
              /\ [s EXCEPT !.power = p] \in SaberType
              /\ \A b \in BladeType : [s EXCEPT !.power = p, !.sweep = 0, !.blade = b] \in SaberType
         /\ \A b \in BladeType : [s EXCEPT !.blade = b] \in SaberType
<1>1. ASSUME NEW t \in SaberType, NEW p \in {"Retracted", "Igniting", "Ignited", "Retracting"}
      PROVE  [t EXCEPT !.power = p] \in SaberType
  BY DEF SaberType
<1>2. ASSUME NEW t \in SaberType, NEW b \in BladeType
      PROVE  [t EXCEPT !.blade = b] \in SaberType
  BY DEF SaberType
<1>3. ASSUME NEW t \in SaberType PROVE [t EXCEPT !.sweep = 0] \in SaberType
  BY DEF SaberType
<1>4. ASSUME NEW p \in {"Retracted", "Igniting", "Ignited", "Retracting"}, NEW b \in BladeType
      PROVE  [s EXCEPT !.power = p, !.sweep = 0, !.blade = b] \in SaberType
  <2>1. [[[s EXCEPT !.power = p] EXCEPT !.sweep = 0] EXCEPT !.blade = b] \in SaberType
    BY <1>1, <1>2, <1>3
  <2> QED BY <2>1
<1> QED BY <1>1, <1>2, <1>4

\* The power effect keeps the types of the saber,
LEMMA PowerToggleTyped ==
  ASSUME NEW s \in SaberType, NEW input
  PROVE  PowerToggle(s, input) \in SaberType
<1> DEFINE pushed == PushOverlay(s, "timed")
<1>1. pushed \in SaberType /\ s.blade \in BladeType /\ pushed.blade \in BladeType
  <2>1. pushed \in SaberType
    BY PushTyped DEF Overlay
  <2> QED BY <2>1 DEF SaberType
<1> HIDE DEF pushed
<1>part. ASSUME NEW p \in {"Igniting", "Retracting"}, NEW b \in BladeType
      PROVE  [pushed EXCEPT !.power = p, !.sweep = 0, !.blade = b] \in SaberType
  BY <1>1, SaberParts
<1>2. BeginIgnition(s) \in SaberType
  <2> DEFINE b == [pushed.blade EXCEPT !.enginesStarted = FALSE]
  <2>1. BeginIgnition(s) = [pushed EXCEPT !.power = "Igniting", !.sweep = 0, !.blade = b]
    BY DEF BeginIgnition, pushed
  <2>2. b \in BladeType
    BY <1>1, BladeParts
  <2> HIDE DEF b
  <2> QED BY <1>part, <2>1, <2>2
<1>3. BeginRetraction(s) \in SaberType
  <2> DEFINE b == DeactivateSwing(DeactivateLight(pushed.blade))
  <2>1. b \in BladeType
    BY <1>1, BladeParts DEF DeactivateSwing, DeactivateLight
  <2>2. BeginRetraction(s) = [pushed EXCEPT !.power = "Retracting", !.sweep = 0, !.blade = b]
    BY DEF BeginRetraction, pushed
  <2> HIDE DEF b
  <2> QED BY <1>part, <2>1, <2>2
<1>4. TickIgnition(s) \in SaberType
  <2>1. ActivateEngines(s) \in SaberType
    <3>1. ActivateSwing(ActivateLight(s.blade)) \in BladeType
      BY <1>1, BladeParts DEF ActivateSwing, ActivateLight
    <3>2. [ActivateSwing(ActivateLight(s.blade)) EXCEPT !.enginesStarted = TRUE] \in BladeType
      BY <3>1, BladeParts
    <3> QED BY <3>2, SaberParts DEF ActivateEngines
  <2> QED BY <2>1, SaberParts DEF TickIgnition
<1>5. TickRetraction(s) \in SaberType
  BY SaberParts DEF TickRetraction
<1> QED BY <1>2, <1>3, <1>4, <1>5 DEF PowerToggle

\* so does the drag effect,
LEMMA DragTyped ==
  ASSUME NEW s \in SaberType, NEW input
  PROVE  Drag(s, input) \in SaberType
<1>1. BeginDrag(s) \in SaberType
  <2> DEFINE pushed == PushOverlay(s, "drag")
  <2>1. pushed \in SaberType /\ pushed.blade \in BladeType
    <3>1. pushed \in SaberType
      BY PushTyped DEF Overlay
    <3> QED BY <3>1 DEF SaberType
  <2>2. BeginDrag(s) =
          [pushed EXCEPT !.blade = [pushed.blade EXCEPT !.drag = TRUE, !.fade = FreeSlot(s)]]
    BY <2>1 DEF BeginDrag, SaberType
  <2> HIDE DEF pushed
  <2>3. [pushed.blade EXCEPT !.drag = TRUE, !.fade = FreeSlot(s)] \in BladeType
    BY <2>1, BladeParts, FreeSlotIs
  <2> QED BY <2>1, <2>2, <2>3, SaberParts
<1>2. EndDrag(s) \in SaberType
  <2> DEFINE faded == [i \in Slot |-> IF i = s.blade.fade THEN "fading" ELSE s.overlays[i]]
  <2>1. faded \in [Slot -> Overlay] /\ s.blade \in BladeType
    BY DEF SaberType, Overlay
  <2>2. [s.blade EXCEPT !.drag = FALSE, !.fade = 0] \in BladeType
    BY <2>1, BladeParts
  <2>3. EndDrag(s) =
          [s EXCEPT !.blade = [s.blade EXCEPT !.drag = FALSE, !.fade = 0], !.overlays = faded]
    BY <2>1 DEF EndDrag, SaberType
  <2> HIDE DEF faded
  <2> QED BY <2>1, <2>2, <2>3 DEF SaberType
<1> QED BY <1>1, <1>2 DEF Drag

\* and so do the others, one after the other.
LEMMA EffectsTyped ==
  ASSUME NEW s \in SaberType, NEW input, NEW motion, NEW after \in Effects(s, input, motion)
  PROVE  after \in SaberType
<1>1. \A t \in SaberType : PushOverlay(t, "timed") \in SaberType
  BY PushTyped DEF Overlay
<1>2. \A t \in SaberType, kind \in {"burst", "clash"} :
        [t EXCEPT !.cooldown = @ \cup {kind}] \in SaberType
  BY DEF SaberType
<1>3. InertialOverload(s, motion) \in SaberType
  <2>1. Light(s) \in SaberType
    BY <1>1 DEF Light
  <2> QED BY <1>2, <2>1 DEF InertialOverload
<1>4. \A t \in SaberType : Blaster(t, input) \in SaberType
  BY <1>1 DEF Blaster
<1>5. \A t \in SaberType : KineticImpact(t, motion) \in SaberType
  <2>1. ASSUME NEW t \in SaberType
        PROVE  [PushOverlay(t, "timed") EXCEPT !.cooldown = @ \cup {"clash"}] \in SaberType
    BY <1>1, <1>2
  <2> QED BY <2>1 DEF KineticImpact
<1>6. \A t \in SaberType : /\ PowerToggle(t, input) \in SaberType
                           /\ Drag(t, input) \in SaberType
  BY PowerToggleTyped, DragTyped
<1> QED BY <1>3, <1>4, <1>5, <1>6 DEF Effects

\* What the adapter pushes.
Events ==
  [state : {"Idle", "Pressed", "Held", "Released"}, gesture : {"None", "Click", "HoldTick"},
   n : 0 .. CounterSize - 1]

\* TypeOK, and what is queued are events.
TypeInv == TypeOK /\ queue \in Seq(Events)

\* The saber of a typed state, and what a typed saber makes of a state.
LEMMA SaberIs ==
  /\ TypeOK => Saber \in SaberType
  /\ \A s \in SaberType :
       power' = s.power /\ cooldown' = s.cooldown /\ sweep' = s.sweep /\ blade' = s.blade
         /\ overlays' = s.overlays /\ InputTypeOK' => TypeOK'
BY DEF TypeOK, Saber, SaberType

\* An event that is pushed keeps the queue within its depth.
LEMMA PushTypes ==
  ASSUME queue \in Seq(Events), Len(queue) <= QueueDepth, lost \in BOOLEAN,
         NEW event \in Events, Push(event)
  PROVE  queue' \in Seq(Events) /\ Len(queue') <= QueueDepth /\ lost' \in BOOLEAN
<1>1. CASE Len(queue) < QueueDepth
  <2>1. queue' = Append(queue, event) /\ lost' = lost
    BY <1>1 DEF Push
  <2>2. queue' \in Seq(Events) /\ Len(queue') = Len(queue) + 1 /\ Len(queue) \in Nat
    BY <2>1
  <2> QED BY <1>1, <2>1, <2>2, GestureAssumption
<1>2. CASE ~(Len(queue) < QueueDepth)
  BY <1>2 DEF Push
<1> QED BY <1>1, <1>2

\* The counters of the adapter stay 8-bit counters.
LEMMA Counts ==
  /\ 0 \in 0 .. CounterSize - 1
  /\ \A n \in 0 .. CounterSize - 1 : Increment(n) \in 0 .. CounterSize - 1
BY GestureAssumption DEF Increment

\* A step of the button keeps the types.
LEMMA InputTypes ==
  ASSUME InputTypeOK, queue \in Seq(Events), InputNext
  PROVE  InputTypeOK' /\ queue' \in Seq(Events)
<1> DEFINE QueueTyped == queue \in Seq(Events) /\ Len(queue) <= QueueDepth /\ lost \in BOOLEAN
           RestTyped ==
             /\ isPressed \in BOOLEAN /\ fired \in BOOLEAN
             /\ current \in {"Idle", "Pressed", "Held", "Released"}
             /\ pending \in 0 .. CounterSize - 1 /\ holdLevel \in 0 .. CounterSize - 1
             /\ clickResolveOnRelease \in BOOLEAN /\ releasing \in BOOLEAN
             /\ clickTimer \in BOOLEAN /\ holdTimer \in BOOLEAN
             /\ callback \in {"none", "click", "hold"}
<1>1. QueueTyped /\ RestTyped
  BY DEF InputTypeOK
<1>2. SUFFICES QueueTyped' /\ RestTyped'
  BY DEF InputTypeOK
<1>3. ASSUME NEW event \in Events, Push(event) PROVE QueueTyped'
  BY <1>1, <1>3, PushTypes
<1>4. ASSUME UNCHANGED queueVars PROVE QueueTyped'
  BY <1>1, <1>4 DEF queueVars
<1>5. ASSUME EmitClick PROVE QueueTyped' /\ pending' \in 0 .. CounterSize - 1
  <2>1. Event(current, "Click", pending) \in Events
    BY <1>1 DEF Event, Events
  <2> HIDE DEF QueueTyped
  <2> QED BY <1>3, <1>4, <1>5, <2>1, Counts DEF EmitClick
<1>6. ASSUME EmitHoldTick
      PROVE  QueueTyped' /\ holdLevel' \in 0 .. CounterSize - 1 /\ current' = "Held"
  <2>1. holdLevel' \in 0 .. CounterSize - 1 /\ current' = "Held"
    BY <1>1, <1>6, Counts DEF EmitHoldTick
  <2>2. Event("Held", "HoldTick", holdLevel') \in Events
    BY <2>1 DEF Event, Events
  <2>3. PICK event \in Events : event = Event("Held", "HoldTick", holdLevel')
    BY <2>2
  <2>4. Push(event)
    BY <1>6, <2>3 DEF EmitHoldTick
  <2> HIDE DEF QueueTyped
  <2> QED BY <1>3, <2>1, <2>4
<1>7. /\ Event("Pressed", "None", 0) \in Events /\ Event("Released", "None", 0) \in Events
  BY Counts DEF Event, Events
<1> USE Counts DEF buttonVars, adapterVars, timerVars
<1>8. CASE OnPressDown
  <2>1. QueueTyped'
    <3> HIDE DEF QueueTyped
    <3> QED BY <1>3, <1>7, <1>8 DEF OnPressDown
  <2>2. RestTyped'
    BY <1>1, <1>8 DEF OnPressDown
  <2> HIDE DEF QueueTyped, RestTyped
  <2> QED BY <2>1, <2>2
<1>9. CASE OnPressUp
  <2>1. QueueTyped'
    <3> HIDE DEF QueueTyped
    <3> QED BY <1>3, <1>7, <1>9 DEF OnPressUp
  <2>2. RestTyped'
    BY <1>1, <1>9 DEF OnPressUp
  <2> HIDE DEF QueueTyped, RestTyped
  <2> QED BY <2>1, <2>2
<1>10. CASE ClickOnRelease
  <2>1. QueueTyped' /\ pending' \in 0 .. CounterSize - 1
    <3> HIDE DEF QueueTyped
    <3> QED BY <1>5, <1>10 DEF ClickOnRelease
  <2>2. RestTyped'
    BY <1>1, <1>10, <2>1 DEF ClickOnRelease
  <2> HIDE DEF QueueTyped, RestTyped
  <2> QED BY <2>1, <2>2
<1>11. CASE OnFirstHoldTick
  <2>1. QueueTyped' /\ holdLevel' \in 0 .. CounterSize - 1 /\ current' = "Held"
    <3> HIDE DEF QueueTyped
    <3> QED BY <1>6, <1>11 DEF OnFirstHoldTick
  <2>2. RestTyped'
    BY <1>1, <1>11, <2>1 DEF OnFirstHoldTick
  <2> HIDE DEF QueueTyped, RestTyped
  <2> QED BY <2>1, <2>2
<1>12. CASE ClickTimerExpires \/ HoldTimerExpires
  <2>1. QueueTyped'
    <3> HIDE DEF QueueTyped
    <3> QED BY <1>4, <1>12 DEF ClickTimerExpires, HoldTimerExpires
  <2>2. RestTyped'
    BY <1>1, <1>12 DEF ClickTimerExpires, HoldTimerExpires
  <2> HIDE DEF QueueTyped, RestTyped
  <2> QED BY <2>1, <2>2
<1>13. CASE ResolveClick
  <2>1. QueueTyped' /\ pending' \in 0 .. CounterSize - 1
    <3>1. CASE EmitClick
      <4> HIDE DEF QueueTyped
      <4> QED BY <1>5, <3>1
    <3>2. CASE UNCHANGED <<pending, queueVars>>
      BY <1>1, <3>2 DEF queueVars
    <3> QED BY <1>13, <3>1, <3>2 DEF ResolveClick
  <2>2. clickResolveOnRelease' \in BOOLEAN
    BY <1>1, <1>13 DEF ResolveClick
  <2>3. RestTyped'
    BY <1>1, <1>13, <2>1, <2>2 DEF ResolveClick
  <2> HIDE DEF QueueTyped, RestTyped
  <2> QED BY <2>1, <2>3
<1>14. CASE ResolveHoldTick
  <2>1. /\ QueueTyped' /\ holdLevel' \in 0 .. CounterSize - 1
        /\ current' \in {"Idle", "Pressed", "Held", "Released"}
    <3>1. CASE EmitHoldTick
      <4> HIDE DEF QueueTyped
      <4> QED BY <1>6, <3>1
    <3>2. CASE UNCHANGED <<current, holdLevel, queueVars>>
      BY <1>1, <3>2 DEF queueVars
    <3> QED BY <1>14, <3>1, <3>2 DEF ResolveHoldTick
  <2>2. RestTyped'
    BY <1>1, <1>14, <2>1 DEF ResolveHoldTick
  <2> HIDE DEF QueueTyped, RestTyped
  <2> QED BY <2>1, <2>2
<1> HIDE DEF QueueTyped, RestTyped
<1> QED BY <1>8, <1>9, <1>10, <1>11, <1>12, <1>13, <1>14 DEF InputNext, Poll, TimerTask

\* TypeInv is inductive.
LEMMA TypeStep == TypeInv /\ [Next]_vars => TypeInv'
<1> SUFFICES ASSUME TypeInv, [Next]_vars PROVE TypeInv'
  OBVIOUS
<1>inputs. UNCHANGED inputVars => InputTypeOK' /\ queue' \in Seq(Events)
  BY DEF inputVars, buttonVars, adapterVars, timerVars, queueVars, TypeInv, TypeOK, InputTypeOK
<1>1. CASE InputNext /\ UNCHANGED bladeVars
  <2>1. InputTypeOK' /\ queue' \in Seq(Events)
    BY <1>1, InputTypes DEF TypeInv, TypeOK
  <2> QED BY <1>1, <2>1 DEF TypeInv, TypeOK, bladeVars
<1>2. CASE BusCycle
  <2>1. PICK after \in UNION {Effects(Saber, LatestInput, motion) : motion \in Motion} :
          /\ power' = after.power /\ cooldown' = after.cooldown /\ sweep' = after.sweep
          /\ blade' = after.blade /\ overlays' = after.overlays
    BY <1>2 DEF BusCycle
  <2>2. after \in SaberType
    <3>1. PICK motion \in Motion : after \in Effects(Saber, LatestInput, motion)
      OBVIOUS
    <3>2. Saber \in SaberType
      BY SaberIs DEF TypeInv
    <3> QED BY <3>1, <3>2, EffectsTyped
  <2>3. queue' = <<>> /\ <<>> \in Seq(Events) /\ Len(<<>>) <= QueueDepth
    BY <1>2, GestureAssumption DEF BusCycle
  <2>4. InputTypeOK'
    BY <1>2, <2>3 DEF BusCycle, TypeInv, TypeOK, InputTypeOK, buttonVars, adapterVars, timerVars
  <2>5. TypeOK'
    BY <2>1, <2>2, <2>4, SaberIs
  <2> QED BY <2>3, <2>5 DEF TypeInv
<1>3. CASE SweepElapses \/ CooldownEnds
  <2>1. UNCHANGED <<inputVars, power, blade, overlays>>
    BY <1>3 DEF SweepElapses, CooldownEnds
  <2>2. sweep' \in 0 .. 2 /\ cooldown' \subseteq {"burst", "clash"}
    <3>1. sweep \in 0 .. 2 /\ cooldown \subseteq {"burst", "clash"}
      BY DEF TypeInv, TypeOK
    <3>2. CASE SweepElapses
      <4>1. sweep' = sweep + 1 /\ sweep < 2 /\ cooldown' = cooldown
        BY <3>2 DEF SweepElapses
      <4> QED BY <3>1, <4>1
    <3>3. CASE CooldownEnds
      <4>1. sweep' = sweep /\ \E kind \in cooldown : cooldown' = cooldown \ {kind}
        BY <3>3 DEF CooldownEnds
      <4> QED BY <3>1, <4>1
    <3> QED BY <1>3, <3>2, <3>3
  <2> QED BY <1>inputs, <2>1, <2>2 DEF TypeInv, TypeOK
<1>4. ASSUME NEW i \in Slot, OverlayEnds(i) PROVE TypeInv'
  <2>1. UNCHANGED <<inputVars, power, blade, sweep, cooldown>>
    BY <1>4 DEF OverlayEnds
  <2>2. overlays' \in [Slot -> Overlay]
    BY <1>4 DEF OverlayEnds, TypeInv, TypeOK, Overlay
  <2> QED BY <1>inputs, <2>1, <2>2 DEF TypeInv, TypeOK
<1>5. CASE UNCHANGED vars
  BY <1>5, <1>inputs DEF vars, bladeVars, TypeInv, TypeOK
<1> QED BY <1>1, <1>2, <1>3, <1>4, <1>5 DEF Next, BladeNext

\* The first state is typed.
LEMMA TypeInit == Init => TypeInv
<1>1. Init => InputTypeOK /\ queue \in Seq(Events)
  <2>1. <<>> \in Seq(Events) /\ Len(<<>>) = 0
    OBVIOUS
  <2>2. ASSUME Init PROVE queue \in Seq(Events) /\ Len(queue) <= QueueDepth /\ lost \in BOOLEAN
    <3>1. queue = <<>> /\ lost \in BOOLEAN
      BY <2>2 DEF Init, InputInit
    <3> QED BY <2>1, <3>1, GestureAssumption
  <2>3. ASSUME Init
        PROVE  /\ isPressed \in BOOLEAN /\ fired \in BOOLEAN
               /\ current \in {"Idle", "Pressed", "Held", "Released"}
               /\ pending \in 0 .. CounterSize - 1 /\ holdLevel \in 0 .. CounterSize - 1
               /\ clickResolveOnRelease \in BOOLEAN /\ releasing \in BOOLEAN
               /\ clickTimer \in BOOLEAN /\ holdTimer \in BOOLEAN
               /\ callback \in {"none", "click", "hold"}
    BY <2>3, Counts DEF Init, InputInit
  <2> QED BY <2>2, <2>3 DEF InputTypeOK
<1>2. ASSUME Init PROVE overlays \in [Slot -> Overlay] /\ blade \in BladeType
  BY <1>2 DEF Init, Overlay, BladeType
<1>3. ASSUME Init
      PROVE  /\ power \in {"Retracted", "Igniting", "Ignited", "Retracting"} /\ sweep \in 0 .. 2
             /\ cooldown \subseteq {"burst", "clash"}
  BY <1>3 DEF Init
<1> QED BY <1>1, <1>2, <1>3 DEF TypeInv, TypeOK

\* Every variable keeps its type: the counters wrap within eight bits, the queue never holds
\* more than it has room for, and an overlay or a fade names a slot of the LED engine.
THEOREM TypeCorrect == Spec => []TypeOK
<1>1. TypeInv => TypeOK
  BY DEF TypeInv
<1> QED BY <1>1, TypeInit, TypeStep, PTL DEF Spec

-----------------------------------------------------------------------------
(* The overlay of a drag.                                                  *)

\* The overlay that waits for a drag to end is the one that the drag effect will tell: it
\* shares the fade flag of that slot and of no other, and without a drag there is none.
DragHasItsOverlay ==
  /\ \A i \in Slot : overlays[i] = "drag" <=> blade.drag /\ blade.fade = i
  /\ ~blade.drag => blade.fade = 0

\* The same, of a saber between two effects.
Shared(s) ==
  /\ \A i \in Slot : s.overlays[i] = "drag" <=> s.blade.drag /\ s.blade.fade = i
  /\ ~s.blade.drag => s.blade.fade = 0

\* An overlay that ends by itself takes a free slot.
LEMMA PushShares ==
  ASSUME NEW s \in SaberType, Shared(s)
  PROVE  Shared(PushOverlay(s, "timed")) /\ PushOverlay(s, "timed").blade = s.blade
<1> DEFINE after == PushOverlay(s, "timed")
<1>1. /\ after.blade = s.blade
      /\ \A i \in Slot : after.overlays[i] = IF i = FreeSlot(s) THEN "timed" ELSE s.overlays[i]
  BY DEF PushOverlay, SaberType
<1>2. \A i \in Slot : i = FreeSlot(s) => s.overlays[i] # "drag"
  BY FreeSlotIs
<1> HIDE DEF after
<1>3. Shared(after)
  BY <1>1, <1>2 DEF Shared
<1> QED BY <1>1, <1>3 DEF after

\* Only the drag of a saber counts, and the slots that wait for it.
LEMMA SharedBy ==
  ASSUME NEW s, NEW t, Shared(s),
         t.overlays = s.overlays, t.blade.drag = s.blade.drag, t.blade.fade = s.blade.fade
  PROVE  Shared(t)
BY DEF Shared

\* The effects, by priority, leave the drag with its overlay.
LEMMA EffectsShare ==
  ASSUME NEW s \in SaberType, Shared(s), NEW input, NEW motion,
         NEW after \in Effects(s, input, motion)
  PROVE  Shared(after)
<1> DEFINE Kept(t) == t \in SaberType /\ Shared(t)
<1>1. ASSUME NEW t, Kept(t) PROVE Kept(PushOverlay(t, "timed"))
  BY <1>1, PushShares, PushTyped DEF Overlay
<1>2. ASSUME NEW t, Kept(t), NEW kind \in {"burst", "clash"}
      PROVE  Kept([t EXCEPT !.cooldown = @ \cup {kind}])
  <2>1. [t EXCEPT !.cooldown = @ \cup {kind}] \in SaberType
    BY <1>2 DEF SaberType
  <2>2. Shared([t EXCEPT !.cooldown = @ \cup {kind}])
    BY <1>2 DEF SaberType, Shared
  <2> QED BY <2>1, <2>2
<1>3. Kept(InertialOverload(s, motion))
  <2>1. Kept(Light(s))
    BY <1>1 DEF Light
  <2> HIDE DEF Kept
  <2>2. Kept(s)
    BY DEF Kept
  <2> QED BY <1>2, <2>1, <2>2 DEF InertialOverload
<1>4. ASSUME NEW t, Kept(t) PROVE Kept(Blaster(t, input))
  BY <1>1, <1>4 DEF Blaster
<1>5. ASSUME NEW t, Kept(t) PROVE Kept(KineticImpact(t, motion))
  <2> HIDE DEF Kept
  <2>1. Kept([PushOverlay(t, "timed") EXCEPT !.cooldown = @ \cup {"clash"}])
    BY <1>1, <1>2, <1>5
  <2> QED BY <1>5, <2>1 DEF KineticImpact
<1>6. ASSUME NEW t, Kept(t) PROVE Kept(PowerToggle(t, input))
  <2> DEFINE pushed == PushOverlay(t, "timed")
  <2>1. PowerToggle(t, input) \in SaberType
    BY <1>6, PowerToggleTyped
  <2>2. pushed \in SaberType /\ Shared(pushed)
    BY <1>1, <1>6
  <2> HIDE DEF pushed
  <2>3. Shared(BeginIgnition(t))
    <3> DEFINE b == [pushed.blade EXCEPT !.enginesStarted = FALSE]
    <3>1. pushed.blade \in BladeType
      BY <2>2 DEF SaberType
    <3>2. b.drag = pushed.blade.drag /\ b.fade = pushed.blade.fade
      BY <3>1 DEF BladeType
    <3>3. BeginIgnition(t) = [pushed EXCEPT !.power = "Igniting", !.sweep = 0, !.blade = b]
      BY DEF BeginIgnition, pushed
    <3> HIDE DEF b
    <3>4. [pushed EXCEPT !.power = "Igniting", !.sweep = 0, !.blade = b].overlays = pushed.overlays
      BY <2>2 DEF SaberType
    <3>5. [pushed EXCEPT !.power = "Igniting", !.sweep = 0, !.blade = b].blade = b
      BY <2>2 DEF SaberType
    <3> QED BY <2>2, <3>2, <3>3, <3>4, <3>5, SharedBy
  <2>4. Shared(BeginRetraction(t))
    BY <2>2, SharedBy DEF BeginRetraction, DeactivateSwing, DeactivateLight, pushed, SaberType, BladeType
  <2>5. Shared(ActivateEngines(t))
    BY <1>6, SharedBy DEF ActivateEngines, ActivateSwing, ActivateLight, SaberType, BladeType
  <2>6. Shared(TickIgnition(t)) /\ Shared(TickRetraction(t))
    <3>1. \A u : Shared(u) => Shared([u EXCEPT !.power = "Ignited"])
                           /\ Shared([u EXCEPT !.power = "Retracted"])
      BY DEF Shared
    <3> QED BY <1>6, <2>5, <3>1 DEF TickIgnition, TickRetraction
  <2> QED BY <1>6, <2>1, <2>3, <2>4, <2>6 DEF PowerToggle
<1>7. ASSUME NEW t, Kept(t) PROVE Kept(Drag(t, input))
  <2>1. Drag(t, input) \in SaberType
    BY <1>7, DragTyped
  <2>2. CASE ~t.blade.drag
    <3> DEFINE begun == BeginDrag(t)
    <3>1. /\ begun.blade.drag = TRUE /\ begun.blade.fade = FreeSlot(t)
          /\ \A i \in Slot : begun.overlays[i] = IF i = FreeSlot(t) THEN "drag" ELSE t.overlays[i]
      BY <1>7 DEF BeginDrag, PushOverlay, SaberType, BladeType
    <3>2. \A i \in Slot : t.overlays[i] # "drag"
      BY <1>7, <2>2 DEF Shared
    <3> HIDE DEF begun
    <3>3. Shared(begun)
      BY <3>1, <3>2 DEF Shared
    <3> QED BY <1>7, <2>1, <2>2, <3>3 DEF Drag, begun
  <2>3. CASE t.blade.drag
    <3> DEFINE over == EndDrag(t)
    <3>1. /\ over.blade.drag = FALSE /\ over.blade.fade = 0
          /\ \A i \in Slot : over.overlays[i] = IF i = t.blade.fade THEN "fading" ELSE t.overlays[i]
      BY <1>7 DEF EndDrag, SaberType, BladeType
    <3>2. \A i \in Slot : i # t.blade.fade => t.overlays[i] # "drag"
      BY <1>7 DEF Shared
    <3> HIDE DEF over
    <3>3. Shared(over)
      BY <3>1, <3>2 DEF Shared
    <3> QED BY <1>7, <2>1, <2>3, <3>3 DEF Drag, over
  <2> QED BY <2>2, <2>3
<1> HIDE DEF Kept
<1>8. Kept(after)
  BY <1>3, <1>4, <1>5, <1>6, <1>7 DEF Effects
<1> QED BY <1>8 DEF Kept

\* DragHasItsOverlay is inductive.
LEMMA DragStep == TypeInv /\ DragHasItsOverlay /\ [Next]_vars => DragHasItsOverlay'
<1> SUFFICES ASSUME TypeInv, DragHasItsOverlay, [Next]_vars PROVE DragHasItsOverlay'
  OBVIOUS
<1>1. CASE BusCycle
  <2>1. PICK after \in UNION {Effects(Saber, LatestInput, motion) : motion \in Motion} :
          blade' = after.blade /\ overlays' = after.overlays
    BY <1>1 DEF BusCycle
  <2>2. Shared(after)
    <3>1. PICK motion \in Motion : after \in Effects(Saber, LatestInput, motion)
      OBVIOUS
    <3>2. Saber \in SaberType /\ Shared(Saber)
      BY SaberIs DEF TypeInv, DragHasItsOverlay, Shared, Saber
    <3> QED BY <3>1, <3>2, EffectsShare
  <2> QED BY <2>1, <2>2 DEF Shared, DragHasItsOverlay
<1>2. ASSUME NEW i \in Slot, OverlayEnds(i) PROVE DragHasItsOverlay'
  <2>1. /\ blade' = blade /\ overlays[i] # "drag"
        /\ \A j \in Slot : overlays'[j] = IF j = i THEN "free" ELSE overlays[j]
    BY <1>2 DEF OverlayEnds, TimeOver, FadedOut, TypeInv, TypeOK
  <2> QED BY <2>1 DEF DragHasItsOverlay
<1>3. CASE UNCHANGED <<blade, overlays>>
  BY <1>3 DEF DragHasItsOverlay
<1> QED BY <1>1, <1>2, <1>3 DEF Next, BladeNext, SweepElapses, CooldownEnds, bladeVars, vars

\* No overlay is left waiting for a drag that is over, and no drag tells the overlay of
\* something else to fade, whatever the number of slots and of overlays that compete for them.
THEOREM DragHasItsOverlayAlways == Spec => []DragHasItsOverlay
<1>1. Init => TypeInv /\ DragHasItsOverlay
  <2>1. ASSUME Init PROVE DragHasItsOverlay
    BY <2>1, BladeAssumption DEF Init, DragHasItsOverlay, Slot
  <2> QED BY TypeInit, <2>1
<1> QED BY <1>1, TypeStep, DragStep, PTL DEF Spec
=============================================================================
