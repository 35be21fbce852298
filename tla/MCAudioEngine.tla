--------------------------- MODULE MCAudioEngine ---------------------------
(* Instances of AudioEngine for TLC. *)
EXTENDS AudioEngine
CONSTANTS c1, c2

\* Every public method is used, by two tasks that interfere with each other.
AllCalls == [c \in Callers |-> IF c = c1 THEN {"prepare", "play", "playLinked"}
                                         ELSE {"prepare", "startGroup", "stop"}]

\* One task plays linked pairs, the other stops channels.
PlayAndStop == [c \in Callers |-> IF c = c1 THEN {"playLinked"} ELSE {"stop"}]

\* One task plays single sounds and starts whatever is prepared, the other stops channels.
PlayOne == [c \in Callers |-> IF c = c1 THEN {"play", "playLinked"} ELSE {"stop", "startGroup"}]

\* The member list of a free request is dead: startGroup() rewrites it before it commits.
LiveView == <<statusVars, dataVars, inUse, committed, [r \in inUse |-> members[r]],
              pc, locals, mixVars, readVars, histVars>>
=============================================================================
