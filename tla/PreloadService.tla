--------------------------- MODULE PreloadService ---------------------------
(***************************************************************************)
(* What PsramAudioCache.hpp promises its callers: every request is one     *)
(* generation, the newest one has an outcome that is decided once, and     *)
(* preloadStatus() reports it.  A call that is overtaken by a newer        *)
(* request may report anything.                                            *)
(***************************************************************************)
EXTENDS Integers

CONSTANTS
  Watcher,        \* tasks that call preloadStatus()
  MaxGeneration   \* bound: number of requests

VARIABLES
  requested,      \* the newest generation, 0 before the first request
  outcome,        \* of the newest generation
  status, about   \* per watcher: "asked" or the last answer, and the generation asked about

vars == <<requested, outcome, status, about>>

Outcome == {"Pending", "Ready", "Failed"}

Init ==
  /\ requested = 0
  /\ outcome = "Pending"
  /\ status = [w \in Watcher |-> "Pending"]
  /\ about  = [w \in Watcher |-> 0]

Request ==
  /\ requested < MaxGeneration
  /\ requested' = requested + 1
  /\ outcome' = "Pending"
  /\ UNCHANGED <<status, about>>

Decide ==
  /\ requested # 0 /\ outcome = "Pending"
  /\ outcome' \in {"Ready", "Failed"}
  /\ UNCHANGED <<requested, status, about>>

Ask(w) ==
  /\ status[w] # "asked"
  /\ status' = [status EXCEPT ![w] = "asked"]
  /\ about'  = [about EXCEPT ![w] = requested]
  /\ UNCHANGED <<requested, outcome>>

Tell(w) ==
  /\ status[w] = "asked"
  /\ \E answer \in Outcome :
       /\ about[w] = requested => answer = outcome
       /\ status' = [status EXCEPT ![w] = answer]
  /\ UNCHANGED <<requested, outcome, about>>

Next ==
  \/ Request \/ Decide
  \/ \E w \in Watcher : Ask(w) \/ Tell(w)

Spec == Init /\ [][Next]_vars

\* A request that is not superseded is decided in the end.
FairSpec == Spec /\ WF_vars(Decide)
=============================================================================
