-------------------------- MODULE MCButtonToBlade --------------------------
(* Instances of ButtonToBlade for TLC. *)
EXTENDS ButtonToBlade

\* Of what is queued only the last event and the room left matter; a press begins with `fired'
\* FALSE.
BladeView ==
  <<isPressed, isPressed /\ fired, adapterVars, timerVars, reported, lost, bladeVars,
    Len(queue), LatestInput>>
=============================================================================
