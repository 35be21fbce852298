---------------------------- MODULE GestureStream ----------------------------
(* What the input adapter promises of one button: the events it reports are   *)
(* presses, releases and the gestures they amount to, each press in at most   *)
(* one gesture.                                                               *)
EXTENDS Integers

CONSTANT CounterSize  \* values of the 8-bit counters for presses and ticks

VARIABLES
  down,      \* the button is reported as pressed
  presses,   \* reported presses that no gesture covers yet
  ticks,     \* level of the hold, 0 if there is none
  reported   \* the last event

streamVars == <<down, presses, ticks, reported>>

Event(state, gesture, n) == [state |-> state, gesture |-> gesture, n |-> n]

Init ==
  /\ down = FALSE /\ presses = 0 /\ ticks = 0
  /\ reported = Event("Idle", "None", 0)

Press ==
  /\ ~down
  /\ down' = TRUE /\ presses' = (presses + 1) % CounterSize /\ ticks' = 0
  /\ reported' = Event("Pressed", "None", 0)

Release ==
  /\ down
  /\ down' = FALSE /\ ticks' = 0
  /\ reported' = Event("Released", "None", 0)
  /\ UNCHANGED presses

\* A click gesture counts all presses since the last gesture, and comes after the last release.
Click ==
  /\ ~down /\ presses # 0
  /\ presses' = 0
  /\ reported' = Event("Released", "Click", presses)
  /\ UNCHANGED <<down, ticks>>

\* The ticks of a hold count from 1 while the button is down; a press that is held, and the
\* presses before it, are not clicks any more.
HoldTick ==
  /\ down
  /\ ticks' = (ticks + 1) % CounterSize
  /\ presses' = 0
  /\ reported' = Event("Held", "HoldTick", ticks')
  /\ UNCHANGED down

Next == Press \/ Release \/ Click \/ HoldTick

Spec == Init /\ [][Next]_streamVars

\* Presses do not wait for ever once the button is let go.
FairSpec == Spec /\ WF_streamVars(Click)
=============================================================================
