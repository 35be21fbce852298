------------------------- MODULE MCAudioController -------------------------
(* Instances of AudioController for TLC. *)
EXTENDS AudioController, TLC

CONSTANTS bus, manager

\* The effects of a set are built and destroyed by profile_ctrl and run by the bus.
EffectCalls ==
  bus     :> {"play", "playLinked", "setVolume", "stop", "playOneShot"} @@
  manager :> {"acquireVoice", "release"}

Symmetry == Permutations(Handle) \cup Permutations(Channel)

\* A generation is read only to be compared, and how far a command is behind is its age, so
\* states that differ in the counters alone behave alike.  The volume of a free slot is stored
\* before it is read.
Contents(c) == IF c = None THEN None
  ELSE <<c.type, [i \in DOMAIN c.parts |->
         <<c.parts[i].voice, c.parts[i].volume, c.parts[i].age, c.parts[i].last>>]>>

CounterlessView ==
  <<inUse, releasePending, channel, [s \in Slot |-> IF inUse[s] THEN volume[s] ELSE 0],
    [i \in DOMAIN queue |-> Contents(queue[i])],
    [h \in Handle |-> IF held[h] = None THEN None ELSE held[h].slot],
    pc, using, [t \in Task |-> Contents(command[t])], tuning,
    wpc, Contents(job), at, started, applied, engineVars, current, tuned, strayed>>
=============================================================================
