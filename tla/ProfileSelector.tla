-------------------------- MODULE ProfileSelector --------------------------
(***************************************************************************)
(* What ProfileManager.hpp promises: a triple click posts a switch, which  *)
(* is ignored while one is pending; each posted switch advances the active *)
(* profile by exactly one; what is saved is the active profile.            *)
(***************************************************************************)
EXTENDS Integers

CONSTANTS
  Profiles,   \* number of profiles
  None        \* nothing saved yet

VARIABLES active, pending, saved

vars == <<active, pending, saved>>

Init ==
  /\ active \in 0 .. Profiles - 1
  /\ pending = FALSE
  /\ saved \in {active, None}

Post ==
  /\ ~pending
  /\ pending' = TRUE
  /\ UNCHANGED <<active, saved>>

Advance ==
  /\ pending
  /\ pending' = FALSE
  /\ active' = (active + 1) % Profiles
  /\ UNCHANGED saved

Save ==
  /\ saved' = active
  /\ UNCHANGED <<active, pending>>

Next == Post \/ Advance \/ Save

Spec == Init /\ [][Next]_vars
=============================================================================
