---------------------------- MODULE PreloadCache ----------------------------
(***************************************************************************)
(* The PSRAM cache of a sound font's hum (main/system/PsramAudioCache.cpp) *)
(* and the memory file system that serves it under /mem                    *)
(* (main/system/MemoryVfs.cpp): tasks that request a preload, the loader   *)
(* task, tasks that ask for the outcome, and tasks that open and close     *)
(* /mem/hum.wav.                                                           *)
(*                                                                         *)
(* A request is known by its generation; the buffer it fills bears the     *)
(* same number, and 0 stands for no generation, no job and no buffer.  A   *)
(* buffer is a shared_ptr: it exists as long as something holds it.        *)
(*                                                                         *)
(* One action is one atomic access, or one section under a mutex, with the *)
(* task-local code that follows it.  The card, the content of the files    *)
(* and the fragmentation of the heap are left out: a source file opens or  *)
(* not, a copy succeeds or not, and what is free is what is not held.      *)
(* init() has returned: the loader task exists and /mem is mounted.        *)
(***************************************************************************)
EXTENDS Integers, FiniteSetsExt

CONSTANTS
  Requester,      \* tasks that call requestPreload()
  Watcher,        \* tasks that call preloadStatus()
  Reader,         \* tasks that open and close /mem/hum.wav
  Descriptor,     \* entries of the descriptor table (kMaxFds, 4 in the firmware)
  MaxGeneration,  \* bound: number of requests
  Size,           \* size of the hum that each generation asks for
  Capacity,       \* PSRAM left for hums, the headroom taken off
  MaxFitPolls     \* polls in kFitWaitMs (300 in the firmware)

Generation == 1 .. MaxGeneration

ASSUME CacheAssumption ==
  /\ MaxGeneration \in Nat
  /\ Size \in [Generation -> Nat]
  /\ Capacity \in Nat
  /\ MaxFitPolls \in Nat

VARIABLES
  requested, completed, failed,  \* the three generation counters
  job,                           \* m_pendingJob
  notified,                      \* the loader's task notification
  notifying,                     \* requesters between the job section and the notification
  lpc, current, fitLeft,         \* loader: control point, its job, JobContext::fitWaitLeftMs
  hum,                           \* the buffer registered as hum.wav
  fds,                           \* the buffer each descriptor has open
  released,                      \* the buffer a close has taken out and not yet let go
  status, about                  \* per watcher: progress or answer of preloadStatus(), and
                                 \* the requested generation it read

counters == <<requested, completed, failed>>
jobVars  == <<job, notified, notifying>>
loadVars == <<lpc, current, fitLeft>>
fileVars == <<fds, released>>
askVars  == <<status, about>>
vars == <<counters, jobVars, loadVars, hum, fileVars, askVars>>

Init ==
  /\ requested = 0 /\ completed = 0 /\ failed = 0
  /\ job = 0 /\ notified = FALSE /\ notifying = {}
  /\ lpc = "idle" /\ current = 0 /\ fitLeft = 0
  /\ hum = 0
  /\ fds = [d \in Descriptor |-> 0]
  /\ released = [r \in Reader |-> 0]
  /\ status = [w \in Watcher |-> "Pending"]
  /\ about  = [w \in Watcher |-> 0]

-----------------------------------------------------------------------------
(* requestPreload(), any task.                                             *)

\* Fault: asking again for what was asked last does not count as a new request.
RequestAgain(t) ==
  /\ t \notin notifying
  /\ requested' = IF requested = 0 THEN 1 ELSE requested
  /\ job' = requested'
  /\ notifying' = notifying \cup {t}
  /\ UNCHANGED <<completed, failed, notified, loadVars, hum, fileVars, askVars>>

\* Under m_jobMutex: the new job replaces a pending one.
Request(t) ==
  /\ t \notin notifying
  /\ requested < MaxGeneration
  /\ requested' = requested + 1
  /\ job' = requested + 1
  /\ notifying' = notifying \cup {t}
  /\ UNCHANGED <<completed, failed, notified, loadVars, hum, fileVars, askVars>>

Notify(t) ==
  /\ t \in notifying
  /\ notifying' = notifying \ {t}
  /\ notified' = TRUE
  /\ UNCHANGED <<counters, job, loadVars, hum, fileVars, askVars>>

-----------------------------------------------------------------------------
(* The loader task.                                                        *)

Superseded == requested # current

\* The loader only moves on, or only moves on with a new poll budget.
Goto(point) ==
  /\ lpc' = point
  /\ UNCHANGED <<counters, jobVars, current, fitLeft, hum, fileVars, askVars>>

\* Fault: before it waits it may discard a notification, taken for a left-over of the last
\* job.
WakeOrDiscard ==
  /\ lpc = "idle" /\ notified
  /\ notified' = FALSE
  /\ lpc' \in {"idle", "take"}
  /\ UNCHANGED <<counters, job, notifying, current, fitLeft, hum, fileVars, askVars>>

Wake ==
  /\ lpc = "idle" /\ notified
  /\ notified' = FALSE
  /\ lpc' = "take"
  /\ UNCHANGED <<counters, job, notifying, current, fitLeft, hum, fileVars, askVars>>

TakeJob ==
  /\ lpc = "take" /\ job # 0
  /\ current' = job
  /\ job' = 0
  /\ lpc' = "unload"
  /\ UNCHANGED <<counters, notified, notifying, fitLeft, hum, fileVars, askVars>>

Drained == lpc = "take" /\ job = 0 /\ Goto("idle")

\* Descriptors that have the file open keep its buffer.
Unload ==
  /\ lpc = "unload"
  /\ hum' = 0
  /\ lpc' = "close"
  /\ UNCHANGED <<counters, jobVars, current, fitLeft, fileVars, askVars>>

\* waitForDescriptorsClosed() ends when all are closed and after a second if they are not.
AwaitClosed == lpc = "close" /\ Goto("begin")

Begin ==
  /\ lpc = "begin"
  /\ lpc' = IF Superseded THEN "take" ELSE "open"
  /\ fitLeft' = MaxFitPolls
  /\ UNCHANGED <<counters, jobVars, current, hum, fileVars, askVars>>

\* The path, the file, its size: the first thing that is wrong fails the job.
Open      == lpc = "open" /\ Goto("fit")
CannotOpen == lpc = "open" /\ Goto("failed")

Building == IF lpc \in {"copy", "register"} THEN {current} ELSE {}

\* The buffers that something holds.
Live == ({hum} \cup Building \cup {fds[d] : d \in Descriptor}
          \cup {released[r] : r \in Reader}) \ {0}

Fits == MapThenSumSet(LAMBDA g : Size[g], Live) + Size[current] <= Capacity

\* waitForFit() looks at the largest block: if it is large enough the buffer is allocated.
Fit == lpc = "fit" /\ Goto(IF Fits THEN "copy" ELSE "count")

\* Fault: it polls as long as a descriptor is open.
CountForever ==
  /\ lpc = "count"
  /\ IF (\A d \in Descriptor : fds[d] = 0) \/ Superseded
       THEN lpc' = "failed" /\ UNCHANGED fitLeft
       ELSE lpc' = "fit" /\ fitLeft' = fitLeft - 1
  /\ UNCHANGED <<counters, jobVars, current, hum, fileVars, askVars>>

\* Otherwise it looks at its budget, the open descriptors and the newest request.
Count ==
  /\ lpc = "count"
  /\ IF fitLeft = 0 \/ (\A d \in Descriptor : fds[d] = 0) \/ Superseded
       THEN lpc' = "failed" /\ UNCHANGED fitLeft
       ELSE lpc' = "fit" /\ fitLeft' = fitLeft - 1
  /\ UNCHANGED <<counters, jobVars, current, hum, fileVars, askVars>>

\* copyChunked() checks for a newer request before every chunk.
Copy == lpc = "copy" /\ ~Superseded /\ Goto("register")

\* The request was superseded, the card failed, or the allocation did.
CopyFailed == lpc = "copy" /\ Goto("failed")

\* registerFile() refuses a name that is already registered.
Register ==
  /\ lpc = "register"
  /\ IF hum # 0 THEN lpc' = "failed" /\ UNCHANGED hum
                ELSE lpc' = "loaded" /\ hum' = current
  /\ UNCHANGED <<counters, jobVars, current, fitLeft, fileVars, askVars>>

Loaded == lpc = "loaded" /\ Goto(IF Superseded THEN "take" ELSE "publish")

\* isSuperseded() and the store of m_failedGeneration are apart, so a request may come
\* between them.
FailureChecked == lpc = "failed" /\ Goto(IF Superseded THEN "take" ELSE "blame")

\* Fault: the completion is published before the failure.
PublishFailureLast ==
  /\ lpc = "blame"
  /\ IF completed = current
       THEN failed' = current /\ lpc' = "publish" /\ UNCHANGED completed
       ELSE completed' = current /\ UNCHANGED <<failed, lpc>>
  /\ UNCHANGED <<requested, jobVars, current, fitLeft, hum, fileVars, askVars>>

\* "Warning: must be published before m_completedGeneration".
PublishFailure ==
  /\ lpc = "blame"
  /\ failed' = current
  /\ lpc' = "publish"
  /\ UNCHANGED <<requested, completed, jobVars, current, fitLeft, hum, fileVars, askVars>>

\* Fault: it completes the newest generation, not the one it has worked on.
PublishNewest ==
  /\ lpc = "publish"
  /\ completed' = requested
  /\ lpc' = "take"
  /\ UNCHANGED <<requested, failed, jobVars, current, fitLeft, hum, fileVars, askVars>>

Publish ==
  /\ lpc = "publish"
  /\ completed' = current
  /\ lpc' = "take"
  /\ UNCHANGED <<requested, failed, jobVars, current, fitLeft, hum, fileVars, askVars>>

-----------------------------------------------------------------------------
(* preloadStatus(), any task: three loads.                                 *)

AskRequested(w) ==
  /\ status[w] \notin {"asked", "seen"}
  /\ about' = [about EXCEPT ![w] = requested]
  /\ status' = [status EXCEPT ![w] = "asked"]
  /\ UNCHANGED <<counters, jobVars, loadVars, hum, fileVars>>

AskCompleted(w) ==
  /\ status[w] = "asked"
  /\ status' = [status EXCEPT ![w] =
                  IF about[w] = 0 \/ completed # about[w] THEN "Pending" ELSE "seen"]
  /\ UNCHANGED <<counters, jobVars, loadVars, hum, fileVars, about>>

AskFailed(w) ==
  /\ status[w] = "seen"
  /\ status' = [status EXCEPT ![w] = IF failed = about[w] THEN "Failed" ELSE "Ready"]
  /\ UNCHANGED <<counters, jobVars, loadVars, hum, fileVars, about>>

-----------------------------------------------------------------------------
(* The readers of /mem/hum.wav.                                            *)

\* vfsOpen(): without a registered file or a free descriptor nothing changes.
VfsOpen(r, d) ==
  /\ released[r] = 0
  /\ hum # 0 /\ fds[d] = 0
  /\ fds' = [fds EXCEPT ![d] = hum]
  /\ UNCHANGED <<counters, jobVars, loadVars, hum, released, askVars>>

\* vfsClose() takes the buffer out of the descriptor under the lock ...
VfsClose(r, d) ==
  /\ released[r] = 0
  /\ fds[d] # 0
  /\ released' = [released EXCEPT ![r] = fds[d]]
  /\ fds' = [fds EXCEPT ![d] = 0]
  /\ UNCHANGED <<counters, jobVars, loadVars, hum, askVars>>

\* ... and lets go of it after the lock.
LetGo(r) ==
  /\ released[r] # 0
  /\ released' = [released EXCEPT ![r] = 0]
  /\ UNCHANGED <<counters, jobVars, loadVars, hum, fds, askVars>>

-----------------------------------------------------------------------------
Loader ==
  \/ Wake \/ TakeJob \/ Drained \/ Unload \/ AwaitClosed \/ Begin
  \/ Open \/ CannotOpen \/ Fit \/ Count \/ Copy \/ CopyFailed \/ Register
  \/ Loaded \/ FailureChecked \/ PublishFailure \/ Publish

Next ==
  \/ \E t \in Requester : Request(t) \/ Notify(t)
  \/ Loader
  \/ \E w \in Watcher : AskRequested(w) \/ AskCompleted(w) \/ AskFailed(w)
  \/ \E r \in Reader, d \in Descriptor : VfsOpen(r, d) \/ VfsClose(r, d)
  \/ \E r \in Reader : LetGo(r)

Spec == Init /\ [][Next]_vars

\* The loader task and a task inside requestPreload() are runnable and scheduled.  Nobody
\* has to request, ask, open or close anything.
FairSpec == Spec /\ WF_vars(Loader) /\ \A t \in Requester : WF_vars(Notify(t))

-----------------------------------------------------------------------------
(* Properties.                                                             *)

LoaderPoint == {"idle", "take", "unload", "close", "begin", "open", "fit", "count",
                "copy", "register", "loaded", "failed", "blame", "publish"}

\* Every variable keeps its type; the poll budget is unsigned in the code and must not go
\* below zero.
TypeOK ==
  /\ requested \in Nat /\ completed \in Nat /\ failed \in Nat
  /\ job \in Nat
  /\ notified \in BOOLEAN
  /\ notifying \subseteq Requester
  /\ lpc \in LoaderPoint /\ current \in Nat
  /\ fitLeft \in 0 .. MaxFitPolls
  /\ hum \in Nat
  /\ fds \in [Descriptor -> Nat]
  /\ released \in [Reader -> Nat]
  /\ status \in [Watcher -> {"asked", "seen", "Pending", "Ready", "Failed"}]
  /\ about \in [Watcher -> Nat]

\* As long as nobody has requested another font, preloadStatus() tells the truth: after
\* Ready /mem/hum.wav is the hum of the font that was asked for, never one of an earlier
\* profile, and after Failed there is no hum.wav at all.  The three counters are read one
\* after the other while the loader writes them.
StatusTruthful ==
  \A w \in Watcher :
    requested = about[w] =>
      /\ status[w] = "Ready"  => hum = about[w]
      /\ status[w] = "Failed" => hum = 0

\* As long as nobody has requested another font, an answer other than Pending means that
\* the loader is done: ProfileManager::serviceSave() and MetricsReporter::sdQuiet() take it
\* as leave to use the SD card.
AnswerMeansQuiet ==
  \A w \in Watcher :
    requested = about[w] /\ status[w] \in {"Ready", "Failed"} =>
      job = 0 /\ lpc \in {"idle", "take"}

\* Every request is answered unless another one supersedes it: no notification is lost
\* between the last look for a job and the wait, whatever descriptors stay open.
RequestAnswered ==
  \A g \in Generation : requested = g ~> completed = g \/ requested # g

\* The documented service: the outcome of the newest request is decided once, and a call of
\* preloadStatus() that no request overtakes reports it.
Service == INSTANCE PreloadService WITH
  outcome <- IF requested = 0 \/ completed # requested THEN "Pending"
             ELSE IF failed = requested THEN "Failed" ELSE "Ready",
  status  <- [w \in Watcher |-> IF status[w] = "seen" THEN "asked" ELSE status[w]]

\* Requests, the loader and the three loads of preloadStatus() together provide that service.
ImplementsService == Service!Spec

\* README.md:185: a preload fails because hum.wav is "missing, unreadable or too large for
\* the free PSRAM"; waitForFit() does not give up a request that fits.
GivesUpOnlyIfTooLarge ==
  [][lpc = "count" /\ lpc' = "failed" /\ ~Superseded => ~Fits]_vars
=============================================================================
