--------------------------- MODULE MCPreloadCache ---------------------------
(* Instances of PreloadCache for TLC. *)
EXTENDS PreloadCache

\* The second of three hums is larger than the others.
LargeSecond == [g \in Generation |-> IF g = 2 THEN 2 ELSE 1]
=============================================================================
