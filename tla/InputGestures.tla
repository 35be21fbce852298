---------------------------- MODULE InputGestures ----------------------------
(***************************************************************************)
(* The main button: the poll task of GpioButton, the InputAdapter that     *)
(* turns its callbacks and two esp_timers into gestures, and the input     *)
(* queue of the bus.                                                       *)
(*                                                                         *)
(* Time is left out: an armed timer may run out, and a press may become    *)
(* long, at any moment.  A callback of the timer task that was dispatched  *)
(* is not taken back by esp_timer_stop(); it waits for m_stateMutex, which *)
(* each callback of the button holds from its first to its last step.      *)
(***************************************************************************)
EXTENDS Integers, Sequences

CONSTANTS
  CounterSize,  \* values of m_pendingClicks and m_holdLevel, 2^8
  QueueDepth    \* kInputQueueDepth

ASSUME GestureAssumption == CounterSize \in Nat /\ CounterSize > 1 /\ QueueDepth \in Nat \ {0}

VARIABLES
  isPressed, fired,               \* GpioButton: _is_pressed, _long_press_fired
  current, pending, holdLevel,    \* InputAdapter: m_btnState.current, m_pendingClicks, m_holdLevel
  clickResolveOnRelease,
  releasing,                      \* onPressUp() is between its two events, the mutex held
  clickTimer, holdTimer,          \* the timers run
  callback,                       \* the callback the timer task has dispatched, or "none"
  queue,                          \* m_inputQueue
  reported, lost                  \* history: the last event pushed; one was dropped

buttonVars  == <<isPressed, fired>>
adapterVars == <<current, pending, holdLevel, clickResolveOnRelease, releasing>>
timerVars   == <<clickTimer, holdTimer, callback>>
queueVars   == <<queue, reported, lost>>
inputVars   == <<buttonVars, adapterVars, timerVars, queueVars>>

Event(state, gesture, n) == [state |-> state, gesture |-> gesture, n |-> n]
NoInput == Event("Idle", "None", 0)

InputInit ==
  /\ isPressed = FALSE /\ fired = FALSE
  /\ current = "Idle" /\ pending = 0 /\ holdLevel = 0
  /\ clickResolveOnRelease = FALSE /\ releasing = FALSE
  /\ clickTimer = FALSE /\ holdTimer = FALSE /\ callback = "none"
  /\ queue = <<>> /\ reported = NoInput /\ lost = FALSE

-----------------------------------------------------------------------------
\* pushInputEvent(): an event that finds the queue full is dropped.
Push(event) ==
  /\ reported' = event
  /\ IF Len(queue) < QueueDepth
       THEN queue' = Append(queue, event) /\ UNCHANGED lost
       ELSE lost' = TRUE /\ UNCHANGED queue

Increment(n) == (n + 1) % CounterSize

\* emitClickLocked()
EmitClick ==
  /\ pending' = 0
  /\ IF pending # 0 THEN Push(Event(current, "Click", pending)) ELSE UNCHANGED queueVars

\* emitHoldTickLocked()
EmitHoldTick ==
  /\ holdLevel' = Increment(holdLevel)
  /\ current' = "Held"
  /\ Push(Event("Held", "HoldTick", holdLevel'))

-----------------------------------------------------------------------------
(* The poll task: processState() and the callback it calls.  That the      *)
(* button is down or up when it is polled is the user's choice.            *)

OnPressDown ==
  /\ ~isPressed /\ ~releasing
  /\ isPressed' = TRUE /\ fired' = FALSE
  /\ current' = "Pressed"
  /\ pending' = Increment(pending)
  /\ clickTimer' = TRUE
  /\ Push(Event("Pressed", "None", 0))
  /\ UNCHANGED <<holdLevel, clickResolveOnRelease, releasing, holdTimer, callback>>

OnPressUp ==
  /\ isPressed /\ ~releasing
  /\ isPressed' = FALSE
  /\ holdTimer' = FALSE
  /\ holdLevel' = 0
  /\ current' = "Released"
  /\ Push(Event("Released", "None", 0))
  /\ clickResolveOnRelease' = FALSE
  /\ releasing' = clickResolveOnRelease
  /\ UNCHANGED <<fired, pending, clickTimer, callback>>

\* The click that waited for the release follows it in the same critical section.
ClickOnRelease ==
  /\ releasing
  /\ releasing' = FALSE
  /\ EmitClick
  /\ UNCHANGED <<buttonVars, current, holdLevel, clickResolveOnRelease, timerVars>>

OnFirstHoldTick ==
  /\ isPressed /\ ~fired /\ ~releasing
  /\ fired' = TRUE
  /\ clickTimer' = FALSE
  /\ pending' = 0
  /\ clickResolveOnRelease' = FALSE
  /\ EmitHoldTick
  /\ holdTimer' = TRUE
  /\ UNCHANGED <<isPressed, releasing, callback>>

Poll == OnPressDown \/ OnPressUp \/ ClickOnRelease \/ OnFirstHoldTick

-----------------------------------------------------------------------------
(* The timer task dispatches one callback at a time.                       *)

ClickTimerExpires ==
  /\ clickTimer /\ callback = "none"
  /\ clickTimer' = FALSE
  /\ callback' = "click"
  /\ UNCHANGED <<buttonVars, adapterVars, holdTimer, queueVars>>

HoldTimerExpires ==
  /\ holdTimer /\ callback = "none"
  /\ callback' = "hold"
  /\ UNCHANGED <<buttonVars, adapterVars, clickTimer, holdTimer, queueVars>>

\* resolveClickGesture()
ResolveClick ==
  /\ callback = "click" /\ ~releasing
  /\ callback' = "none"
  /\ IF pending # 0 /\ current = "Pressed"
       THEN clickResolveOnRelease' = TRUE /\ UNCHANGED <<pending, queueVars>>
       ELSE EmitClick /\ UNCHANGED clickResolveOnRelease
  /\ UNCHANGED <<buttonVars, current, holdLevel, releasing, clickTimer, holdTimer>>

\* Fault: a tick that was dispatched before the release is reported after it.
LateHoldTick ==
  /\ callback = "hold" /\ ~releasing
  /\ callback' = "none"
  /\ EmitHoldTick
  /\ UNCHANGED <<buttonVars, pending, clickResolveOnRelease, releasing, clickTimer,
                 holdTimer>>

ResolveHoldTick ==
  /\ callback = "hold" /\ ~releasing
  /\ callback' = "none"
  /\ IF current = "Held" THEN EmitHoldTick ELSE UNCHANGED <<current, holdLevel, queueVars>>
  /\ UNCHANGED <<buttonVars, pending, clickResolveOnRelease, releasing, clickTimer,
                 holdTimer>>

TimerTask == ClickTimerExpires \/ HoldTimerExpires \/ ResolveClick \/ ResolveHoldTick

InputNext == Poll \/ TimerTask

\* A callback goes on, timers run out and the timer task is scheduled.  Nobody has to press the
\* button or let it go.
InputFairness == WF_inputVars(ClickOnRelease) /\ WF_inputVars(TimerTask)

-----------------------------------------------------------------------------
InputTypeOK ==
  /\ isPressed \in BOOLEAN /\ fired \in BOOLEAN
  /\ current \in {"Idle", "Pressed", "Held", "Released"}
  /\ pending \in 0 .. CounterSize - 1 /\ holdLevel \in 0 .. CounterSize - 1
  /\ clickResolveOnRelease \in BOOLEAN /\ releasing \in BOOLEAN
  /\ clickTimer \in BOOLEAN /\ holdTimer \in BOOLEAN /\ callback \in {"none", "click", "hold"}
  /\ Len(queue) <= QueueDepth /\ lost \in BOOLEAN

Stream == INSTANCE GestureStream WITH
  down <- current \in {"Pressed", "Held"}, presses <- pending, ticks <- holdLevel,
  reported <- reported

\* Whatever the two tasks interleave, the events reported are a stream of presses, releases and
\* gestures: a click only after the last release and for all presses since the last gesture, the
\* ticks of a hold in sequence and never after it, and no press forgotten once the button is let go.
ImplementsGestures == Stream!FairSpec
=============================================================================
