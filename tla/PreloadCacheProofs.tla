------------------------- MODULE PreloadCacheProofs -------------------------
(***************************************************************************)
(* Proofs about PreloadCache, for every number of requests, tasks and      *)
(* descriptors and every size of the files.  A generation moves from the   *)
(* request to the job, to the loader and to the counters; JobInv and       *)
(* LoaderInv say where the newest one is and what that means for the file  *)
(* that is registered, AskInv what a task in preloadStatus() has seen.     *)
(***************************************************************************)
EXTENDS PreloadCache, TLAPS

-----------------------------------------------------------------------------
(* Types.                                                                  *)

\* Types are inductive by themselves: Count is the only action that lowers the poll budget,
\* and it looks at it first.
LEMMA TypeInit == Init => TypeOK
<1> SUFFICES ASSUME Init PROVE TypeOK
  OBVIOUS
<1>1. fds \in [Descriptor -> Nat] /\ released \in [Reader -> Nat] /\ about \in [Watcher -> Nat]
  BY DEF Init
<1>2. status \in [Watcher -> {"asked", "seen", "Pending", "Ready", "Failed"}]
  BY DEF Init
<1>3. notified \in BOOLEAN /\ notifying \subseteq Requester /\ lpc \in LoaderPoint
  BY Zenon DEF Init, LoaderPoint
<1>4. fitLeft \in 0 .. MaxFitPolls
  BY CacheAssumption DEF Init
<1> QED BY <1>1, <1>2, <1>3, <1>4 DEF Init, TypeOK

\* TypeOK is inductive by itself.
LEMMA TypeStep == TypeOK /\ [Next]_vars => TypeOK'
<1> SUFFICES ASSUME TypeOK, [Next]_vars PROVE TypeOK'
  OBVIOUS
<1> USE CacheAssumption DEF TypeOK, LoaderPoint, counters, jobVars, loadVars, fileVars, askVars
<1>1. CASE UNCHANGED vars
  BY <1>1 DEF vars
<1>2. ASSUME NEW t \in Requester, Request(t) \/ Notify(t) PROVE TypeOK'
  <2>1. CASE Request(t)
    BY <2>1 DEF Request
  <2>2. CASE Notify(t)
    <3>1. notified' \in BOOLEAN /\ notifying' \subseteq Requester
      BY <2>2, Zenon DEF Notify
    <3> QED BY <2>2, <3>1 DEF Notify
  <2> QED BY <1>2, <2>1, <2>2
<1>3. CASE Wake
  <2>1. notified' \in BOOLEAN /\ lpc' \in LoaderPoint
    BY <1>3, Zenon DEF Wake
  <2> QED BY <1>3, <2>1 DEF Wake
<1>4. CASE Drained
  BY <1>4 DEF Drained, Goto
<1>5. CASE TakeJob
  BY <1>5 DEF TakeJob
<1>6. CASE Unload \/ AwaitClosed \/ Begin
  BY <1>6 DEF Unload, AwaitClosed, Begin, Goto
<1>7. CASE Open \/ CannotOpen \/ Fit \/ Copy \/ CopyFailed
  BY <1>7 DEF Open, CannotOpen, Fit, Copy, CopyFailed, Goto
<1>8. CASE Count
  BY <1>8 DEF Count
<1>9. CASE Register \/ Loaded \/ FailureChecked \/ PublishFailure \/ Publish
  BY <1>9 DEF Register, Loaded, FailureChecked, PublishFailure, Publish, Goto
<1>10. ASSUME NEW w \in Watcher, AskRequested(w) \/ AskCompleted(w) \/ AskFailed(w)
       PROVE  TypeOK'
  BY <1>10 DEF AskRequested, AskCompleted, AskFailed
<1>11. ASSUME NEW r \in Reader, NEW d \in Descriptor, VfsOpen(r, d) \/ VfsClose(r, d)
       PROVE  TypeOK'
  BY <1>11 DEF VfsOpen, VfsClose
<1>12. ASSUME NEW r \in Reader, LetGo(r) PROVE TypeOK'
  BY <1>12 DEF LetGo
<1> QED
  BY <1>1, <1>2, <1>3, <1>4, <1>5, <1>6, <1>7, <1>8, <1>9, <1>10, <1>11, <1>12
  DEF Next, Loader

\* Every variable keeps its type; in particular the poll budget of waitForFit() never wraps.
THEOREM TypeCorrect == Spec => []TypeOK
<1>1. Init => TypeOK BY TypeInit
<1>2. TypeOK /\ [Next]_vars => TypeOK' BY TypeStep
<1> QED BY <1>1, <1>2, PTL DEF Spec

-----------------------------------------------------------------------------
(* Generations.                                                            *)

\* A pending job is always the newest request, and without one the loader has taken it.
JobInv ==
  /\ job # 0 => job = requested /\ current < job
  /\ job = 0 => current = requested

\* The loader is between two jobs.
Between == lpc \in {"idle", "take"}

\* What the counters say of the loader's job, and what is registered as hum.wav meanwhile.
LoaderInv ==
  /\ completed <= current /\ failed <= current
  /\ current = 0 => Between
  /\ lpc \in {"close", "begin", "open", "fit", "count", "copy", "register", "failed", "blame"}
       => hum = 0
  /\ lpc = "loaded" => hum = current
  /\ lpc = "publish" => hum = IF failed = current THEN 0 ELSE current
  /\ ~Between => completed # current
  /\ ~Between /\ lpc # "publish" => failed # current
  /\ current # 0 /\ completed = current => hum = IF failed = current THEN 0 ELSE current

\* What a call of preloadStatus() that got this far has seen of the request it asks about.
AskInv ==
  \A w \in Watcher :
    /\ about[w] <= requested
    /\ status[w] \in {"seen", "Ready", "Failed"} => about[w] # 0 /\ about[w] <= completed
    /\ status[w] = "Ready" /\ about[w] = requested => failed # about[w]
    /\ status[w] = "Failed" /\ about[w] = requested => failed = about[w]

Inv == JobInv /\ LoaderInv /\ AskInv

\* The cache begins with no request, no hum and an idle loader.
LEMMA InvInit == Init => Inv
BY CacheAssumption DEF Init, Inv, JobInv, LoaderInv, AskInv, Between

\* A new request leaves what the loader does alone.
LEMMA RequestStep ==
  ASSUME TypeOK, Inv, NEW t \in Requester, Request(t) \/ Notify(t)
  PROVE  Inv'
<1> USE DEF TypeOK, LoaderPoint, counters, jobVars, loadVars, fileVars, askVars, Inv
<1>1. CASE Request(t)
  <2>1. JobInv'
    BY <1>1 DEF Request, JobInv, LoaderInv
  <2>2. LoaderInv'
    BY <1>1 DEF Request, LoaderInv, Between
  <2>3. AskInv'
    BY <1>1 DEF Request, AskInv, LoaderInv, JobInv
  <2> QED BY <2>1, <2>2, <2>3
<1>2. CASE Notify(t)
  BY <1>2 DEF Notify, JobInv, LoaderInv, AskInv, Between
<1> QED BY <1>1, <1>2

\* The loader: every step from one control point to the next keeps what is known there.  A
\* task that asks is only disturbed by a store to a counter, and only by one that concerns
\* the newest request.
LEMMA LoaderStep ==
  ASSUME TypeOK, Inv, Loader
  PROVE  Inv'
<1> USE DEF TypeOK, LoaderPoint, counters, jobVars, loadVars, fileVars, askVars, Inv
<1>1. CASE Wake \/ Drained
  BY <1>1 DEF Wake, Drained, Goto, JobInv, LoaderInv, AskInv, Between
<1>2. CASE TakeJob
  <2>1. JobInv' /\ AskInv'
    BY <1>2 DEF TakeJob, JobInv, AskInv
  <2>2. LoaderInv'
    BY <1>2 DEF TakeJob, JobInv, LoaderInv, Between
  <2> QED BY <2>1, <2>2
<1>3. CASE Unload \/ AwaitClosed \/ Begin
  BY <1>3 DEF Unload, AwaitClosed, Begin, Goto, JobInv, LoaderInv, AskInv, Between
<1>4. CASE Open \/ CannotOpen \/ Fit \/ Copy \/ CopyFailed
  BY <1>4 DEF Open, CannotOpen, Fit, Copy, CopyFailed, Goto, JobInv, LoaderInv, AskInv, Between
<1>5. CASE Count
  BY <1>5 DEF Count, JobInv, LoaderInv, AskInv, Between
<1>6. CASE Register
  BY <1>6 DEF Register, JobInv, LoaderInv, AskInv, Between
<1>7. CASE Loaded \/ FailureChecked
  BY <1>7 DEF Loaded, FailureChecked, Goto, JobInv, LoaderInv, AskInv, Between
<1>8. CASE PublishFailure
  <2>1. JobInv' /\ LoaderInv'
    BY <1>8 DEF PublishFailure, JobInv, LoaderInv, Between
  <2>2. AskInv'
    BY <1>8 DEF PublishFailure, JobInv, LoaderInv, AskInv, Between
  <2> QED BY <2>1, <2>2
<1>9. CASE Publish
  <2>1. JobInv' /\ LoaderInv'
    BY <1>9 DEF Publish, JobInv, LoaderInv, Between
  <2>2. AskInv'
    BY <1>9 DEF Publish, JobInv, LoaderInv, AskInv, Between
  <2> QED BY <2>1, <2>2
<1> QED BY <1>1, <1>2, <1>3, <1>4, <1>5, <1>6, <1>7, <1>8, <1>9 DEF Loader

\* A task in preloadStatus(): each load adds what it has seen.
LEMMA AskStep ==
  ASSUME TypeOK, Inv, NEW w \in Watcher, AskRequested(w) \/ AskCompleted(w) \/ AskFailed(w)
  PROVE  Inv'
<1> USE DEF TypeOK, LoaderPoint, counters, jobVars, loadVars, fileVars, askVars, Inv
<1>1. JobInv' /\ LoaderInv'
  BY DEF AskRequested, AskCompleted, AskFailed, JobInv, LoaderInv, Between
<1>2. AskInv'
  BY DEF AskRequested, AskCompleted, AskFailed, AskInv
<1> QED BY <1>1, <1>2

\* The invariant is inductive, given the types.
LEMMA InvStep == TypeOK /\ Inv /\ [Next]_vars => Inv'
<1> SUFFICES ASSUME TypeOK, Inv, [Next]_vars PROVE Inv'
  OBVIOUS
<1>1. CASE UNCHANGED vars
  BY <1>1 DEF vars, counters, jobVars, loadVars, fileVars, askVars,
              Inv, JobInv, LoaderInv, AskInv, Between
<1>2. ASSUME NEW r \in Reader, NEW d \in Descriptor, VfsOpen(r, d) \/ VfsClose(r, d)
      PROVE  Inv'
  BY <1>2 DEF VfsOpen, VfsClose, counters, jobVars, loadVars, askVars,
              Inv, JobInv, LoaderInv, AskInv, Between
<1>3. ASSUME NEW r \in Reader, LetGo(r) PROVE Inv'
  BY <1>3 DEF LetGo, counters, jobVars, loadVars, askVars,
              Inv, JobInv, LoaderInv, AskInv, Between
<1> QED BY <1>1, <1>2, <1>3, RequestStep, LoaderStep, AskStep DEF Next

\* So it holds in every state.
LEMMA InvAlways == Spec => [](TypeOK /\ Inv)
<1>1. Init => TypeOK /\ Inv BY TypeInit, InvInit
<1>2. TypeOK /\ Inv /\ [Next]_vars => (TypeOK /\ Inv)' BY TypeStep, InvStep
<1> QED BY <1>1, <1>2, PTL DEF Spec

-----------------------------------------------------------------------------
(* Results.                                                                *)

\* While no newer request has been made, preloadStatus() answers Ready only when hum.wav is
\* the hum of the requested font, and Failed only when there is none.
THEOREM StatusTruthfulAlways == Spec => []StatusTruthful
<1>1. TypeOK /\ Inv => StatusTruthful
  BY DEF TypeOK, Inv, JobInv, LoaderInv, AskInv, StatusTruthful
<1> QED BY <1>1, InvAlways, PTL

\* While no newer request has been made, an answer other than Pending means that the loader
\* has no work and does not touch the card.
THEOREM AnswerMeansQuietAlways == Spec => []AnswerMeansQuiet
<1>1. TypeOK /\ Inv => AnswerMeansQuiet
  BY DEF TypeOK, Inv, JobInv, LoaderInv, AskInv, AnswerMeansQuiet, Between
<1> QED BY <1>1, InvAlways, PTL
-----------------------------------------------------------------------------
(* The service.                                                            *)

\* The outcome of the newest request, and a call between its second and third load, as
\* PreloadService sees them.
OutcomeSeen ==
  IF requested = 0 \/ completed # requested THEN "Pending"
  ELSE IF failed = requested THEN "Failed" ELSE "Ready"

StatusSeen == [w \in Watcher |-> IF status[w] = "seen" THEN "asked" ELSE status[w]]

ServiceSeen == <<requested, OutcomeSeen, StatusSeen, about>>

\* The cache begins as the service does.
LEMMA ServiceInit == Init => Service!Init
BY DEF Init, Service!Init

\* A request is one of the service, with no outcome yet.
LEMMA RequestServed ==
  ASSUME TypeOK, Inv, NEW t \in Requester, Request(t)
  PROVE  Service!Request
<1>1. completed <= requested
  BY DEF TypeOK, Inv, JobInv, LoaderInv
<1> QED BY <1>1 DEF TypeOK, Request, askVars, Service!Request

\* A call that is not overtaken reports the outcome: between its loads the outcome can only
\* have become known, and then it has been seen completed.
LEMMA AskServed ==
  ASSUME TypeOK, Inv, NEW w \in Watcher, AskRequested(w) \/ AskCompleted(w) \/ AskFailed(w)
  PROVE  Service!Ask(w) \/ Service!Tell(w) \/ UNCHANGED ServiceSeen
<1> USE DEF TypeOK, counters
<1>1. CASE AskRequested(w)
  <2>1. StatusSeen' = [StatusSeen EXCEPT ![w] = "asked"]
    BY <1>1 DEF AskRequested, StatusSeen
  <2> QED BY <1>1, <2>1 DEF AskRequested, StatusSeen, Service!Ask
<1>2. CASE AskCompleted(w) /\ status'[w] = "seen"
  <2>1. StatusSeen' = StatusSeen
    BY <1>2 DEF AskCompleted, StatusSeen
  <2> QED BY <1>2, <2>1 DEF AskCompleted, ServiceSeen, OutcomeSeen
<1>3. CASE AskCompleted(w) /\ status'[w] # "seen"
  <2>1. StatusSeen' = [StatusSeen EXCEPT ![w] = "Pending"] /\ StatusSeen[w] = "asked"
    BY <1>3 DEF AskCompleted, StatusSeen
  <2>2. about[w] = requested => OutcomeSeen = "Pending"
    BY <1>3 DEF AskCompleted, OutcomeSeen
  <2> QED BY <1>3, <2>1, <2>2
          DEF AskCompleted, StatusSeen, OutcomeSeen, Service!Tell, Service!Outcome
<1>4. CASE AskFailed(w)
  <2> DEFINE answer == IF failed = about[w] THEN "Failed" ELSE "Ready"
  <2>1. StatusSeen' = [StatusSeen EXCEPT ![w] = answer] /\ StatusSeen[w] = "asked"
    BY <1>4 DEF AskFailed, StatusSeen
  <2>2. about[w] = requested => OutcomeSeen = answer
    BY <1>4 DEF AskFailed, OutcomeSeen, Inv, JobInv, LoaderInv, AskInv
  <2>3. answer \in Service!Outcome
    BY DEF Service!Outcome
  <2> QED BY <1>4, <2>1, <2>2, <2>3
          DEF AskFailed, StatusSeen, OutcomeSeen, Service!Tell
<1> QED BY <1>1, <1>2, <1>3, <1>4

\* Of the loader's steps only the publication of the newest generation decides anything.
LEMMA LoaderServed ==
  ASSUME TypeOK, Inv, Loader
  PROVE  Service!Decide \/ UNCHANGED ServiceSeen
<1> USE DEF counters, askVars
<1>1. CASE Publish /\ current = requested
  <2>1. OutcomeSeen = "Pending" /\ OutcomeSeen' \in {"Ready", "Failed"} /\ requested # 0
    BY <1>1 DEF Publish, OutcomeSeen, TypeOK, Inv, LoaderInv, Between
  <2> QED BY <1>1, <2>1 DEF Publish, OutcomeSeen, Service!Decide
<1>2. CASE Publish /\ current # requested
  <2>1. UNCHANGED OutcomeSeen
    BY <1>2 DEF Publish, OutcomeSeen, TypeOK, Inv, JobInv, LoaderInv
  <2> QED BY <1>2, <2>1 DEF Publish, ServiceSeen, StatusSeen
<1>3. CASE PublishFailure
  <2>1. UNCHANGED OutcomeSeen
    BY <1>3 DEF PublishFailure, OutcomeSeen, TypeOK, Inv, JobInv, LoaderInv, Between
  <2> QED BY <1>3, <2>1 DEF PublishFailure, ServiceSeen, StatusSeen
<1>4. ASSUME Loader, ~Publish, ~PublishFailure PROVE UNCHANGED <<counters, askVars>>
  BY <1>4 DEF Loader, Goto, Wake, TakeJob, Drained, Unload, AwaitClosed, Begin, Open, CannotOpen,
              Fit, Count, Copy, CopyFailed, Register, Loaded, FailureChecked
<1> QED BY <1>1, <1>2, <1>3, <1>4 DEF ServiceSeen, OutcomeSeen, StatusSeen

\* Every step of the cache is one of the service, or changes nothing it shows.
LEMMA ServiceStep == TypeOK /\ Inv /\ [Next]_vars => [Service!Next]_(Service!vars)
<1> SUFFICES ASSUME TypeOK, Inv, [Next]_vars PROVE Service!Next \/ UNCHANGED ServiceSeen
  BY DEF Service!vars, ServiceSeen, OutcomeSeen, StatusSeen
<1>1. ASSUME NEW t \in Requester, Request(t) PROVE Service!Next
  BY <1>1, RequestServed DEF Service!Next
<1>2. CASE Loader
  BY <1>2, LoaderServed DEF Service!Next
<1>3. ASSUME NEW w \in Watcher, AskRequested(w) \/ AskCompleted(w) \/ AskFailed(w)
      PROVE  Service!Next \/ UNCHANGED ServiceSeen
  BY <1>3, AskServed DEF Service!Next
<1>4. ASSUME UNCHANGED <<counters, askVars>> PROVE UNCHANGED ServiceSeen
  BY <1>4 DEF counters, askVars, ServiceSeen, OutcomeSeen, StatusSeen
<1>5. ASSUME NEW t \in Requester, Notify(t) PROVE UNCHANGED <<counters, askVars>>
  BY <1>5 DEF Notify
<1>6. ASSUME NEW r \in Reader, NEW d \in Descriptor, VfsOpen(r, d) \/ VfsClose(r, d)
      PROVE  UNCHANGED <<counters, askVars>>
  BY <1>6 DEF VfsOpen, VfsClose
<1>7. ASSUME NEW r \in Reader, LetGo(r) PROVE UNCHANGED <<counters, askVars>>
  BY <1>7 DEF LetGo
<1>8. ASSUME UNCHANGED vars PROVE UNCHANGED <<counters, askVars>>
  BY <1>8 DEF vars
<1> QED BY <1>1, <1>2, <1>3, <1>4, <1>5, <1>6, <1>7, <1>8 DEF Next

\* Requests, the loader and the three loads of preloadStatus() together provide the service
\* that PsramAudioCache.hpp documents.
THEOREM ServiceImplemented == Spec => ImplementsService
<1>1. Init => Service!Init
  BY ServiceInit
<1>2. TypeOK /\ Inv /\ [Next]_vars => [Service!Next]_(Service!vars)
  BY ServiceStep
<1> QED BY <1>1, <1>2, InvAlways, PTL DEF Spec, ImplementsService, Service!Spec
=============================================================================
