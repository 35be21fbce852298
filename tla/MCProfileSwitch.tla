-------------------------- MODULE MCProfileSwitch --------------------------
(* Instances of ProfileSwitch for TLC. *)
EXTENDS ProfileSwitch
=============================================================================
