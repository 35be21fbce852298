--------------------------- MODULE MCAudioStream ---------------------------
(* Instances of AudioStream for TLC. *)
EXTENDS AudioStream

\* A loop, of which two can be linked, and a one-shot, both on the card.
CardLoopAndShot == {[memory |-> FALSE, loop |-> TRUE], [memory |-> FALSE, loop |-> FALSE]}

\* Where a sound lies in its ring makes no difference, nor which sample of a loop is next, nor
\* what the free slots still hold: positions are seen relative to the next sample.
Relative(c) ==
  LET from == IF sound[c].loop THEN next[c] ELSE 0
  IN <<[i \in 0 .. Available(write[c], read[c]) - 1 |->
          (ring[c][Advance(read[c], i)] - from) % Length],
       IF sound[c].loop THEN (pos[c] - from) % Length ELSE pos[c], next[c] - from,
       {[s EXCEPT !.write = Available(@, read[c])] : s \in snap[c]}>>

StreamView ==
  <<[c \in Channel |->
       IF state[c] = "Closing" /\ \A r \in Reader : \A f \in refill[r] : f.ch # c
         THEN <<>> ELSE <<Relative(c), eof[c], cut[c]>>],
    state, sound, group, committed, mpc, mixed, rpc, served, refill,
    [r \in Reader |-> IF rpc[r] = "wait" THEN {} ELSE exhausted[r]],
    taskVars, heard, failures>>
=============================================================================
