---------------------------- MODULE AudioEngine ----------------------------
(***************************************************************************)
(* The channel lifecycle of the audio engine                               *)
(* (components/audio/audio_engine/AudioEngine.cpp over                     *)
(* components/audio/audio_channel/AudioChannel.cpp): caller tasks that     *)
(* play(), prepare(), startGroup() and stop() sounds, the mixer task, and  *)
(* the two reader tasks (PSRAM and SD) that refill and close channels.     *)
(*                                                                         *)
(* One action is one atomic access to shared memory together with the      *)
(* task-local code that follows it.  A compare-and-swap loop whose result  *)
(* depends only on the word it finally swaps is one step; requestStop()    *)
(* remembers the first state it saw and is therefore two.                  *)
(*                                                                         *)
(* The status word of a channel is split over four variables that every    *)
(* action changes together: state, armedFor (ARMED_BIT and the request     *)
(* field), stopBit (STOP_REQUESTED_BIT) and memory (MEMORY_BACKED_BIT).    *)
(* Sample counts and linked groups are left to AudioStream: here a ring    *)
(* may or may not be drained when the mixer looks, and may or may not be   *)
(* below the watermark when a reader does.                                 *)
(*                                                                         *)
(* The engine is running throughout: start() has returned and the          *)
(* destructor has not been called.                                         *)
(***************************************************************************)
EXTENDS Integers, FiniteSets

CONSTANTS
  MaxChannels,  \* Config::max_channels (9 in the firmware)
  MaxRequests,  \* number of start requests (32 in the code)
  Callers,      \* tasks that call the public methods
  MayCall,      \* the public methods each caller uses
  Backing,      \* where the files live: TRUE under /mem/ (PSRAM), FALSE on the SD card
  None          \* no channel / no request / not armed

Goal == {"prepare", "play", "playLinked", "startGroup", "stop"}

ASSUME EngineAssumption ==
  /\ MaxChannels \in Nat \ {0}
  /\ MaxRequests \in Nat \ {0}
  /\ MayCall \in [Callers -> SUBSET Goal]
  /\ Backing \subseteq BOOLEAN
  /\ None \notin Nat

Channel == 0 .. MaxChannels - 1
Request == 0 .. MaxRequests - 1
Reader  == {"mem", "sd"}

State == {"Idle", "Loading", "Ready", "Active", "Stopping", "Closing"}

\* enum class State, in its declaration order.
Rank(s) == CASE s = "Idle" -> 0 [] s = "Loading" -> 1 [] s = "Ready" -> 2
             [] s = "Active" -> 3 [] s = "Stopping" -> 4 [] s = "Closing" -> 5

Refillable == {"Ready", "Active", "Stopping"}
Mixable    == {"Active", "Stopping"}

VARIABLES
  \* one status word per channel
  state, armedFor, stopBit, memory,
  \* owner-only data of a channel: an open file, the end of the file
  file, eof,
  \* start requests shared by callers and mixer
  inUse, committed, members,
  \* callers: control point, call being served, and the locals of the call
  pc, goal, scan, first, second, req, armed, seen,
  \* mixer: control point, requests taken, channels still to visit, cycle snapshots
  mpc, taken, todo, mix, mixEof,
  \* readers: control point and channel worked on
  rpc, at,
  \* history of the sound a channel holds: a startGroup() that returned ESP_OK covers it,
  \* a stop took effect on it; of a request: the channels its last group armed and did not
  \* disarm, as long as they hold that sound; of a stop in progress: its channel still
  \* holds the sound first seen
  promised, stopped, enlisted, onTarget

statusVars == <<state, armedFor, stopBit, memory>>
dataVars   == <<file, eof>>
startVars  == <<inUse, committed, members>>
locals     == <<goal, scan, first, second, req, armed, seen>>
mixVars    == <<mpc, taken, todo, mix, mixEof>>
readVars   == <<rpc, at>>
histVars   == <<promised, stopped, enlisted, onTarget>>
vars == <<statusVars, dataVars, startVars, pc, locals, mixVars, readVars, histVars>>

Least(S) == CHOOSE x \in S : \A y \in S : x <= y

Init ==
  /\ state    = [ch \in Channel |-> "Idle"]
  /\ armedFor = [ch \in Channel |-> None]
  /\ stopBit  = [ch \in Channel |-> FALSE]
  /\ memory   = [ch \in Channel |-> FALSE]
  /\ file     = [ch \in Channel |-> FALSE]
  /\ eof      = [ch \in Channel |-> FALSE]
  /\ inUse = {} /\ committed = {}
  /\ members  = [r \in Request |-> {}]
  /\ pc       = [c \in Callers |-> "idle"]
  /\ goal     = [c \in Callers |-> None]
  /\ scan     = [c \in Callers |-> 0]
  /\ first    = [c \in Callers |-> None]
  /\ second   = [c \in Callers |-> None]
  /\ req      = [c \in Callers |-> None]
  /\ armed    = [c \in Callers |-> {}]
  /\ seen     = [c \in Callers |-> "Idle"]
  /\ mpc = "exchange" /\ taken = {} /\ todo = {}
  /\ mix      = [ch \in Channel |-> "none"]
  /\ mixEof   = [ch \in Channel |-> FALSE]
  /\ rpc      = [r \in Reader |-> "scan"]
  /\ at       = [r \in Reader |-> 0]
  /\ promised = [ch \in Channel |-> FALSE]
  /\ stopped  = [ch \in Channel |-> FALSE]
  /\ enlisted = [r \in Request |-> {}]
  /\ onTarget = [c \in Callers |-> FALSE]

-----------------------------------------------------------------------------
(* Helpers on the status word.                                             *)

\* transition() and every other CAS to a state: the armed bits and the stop bit are
\* dropped, the memory-backed bit is kept.
SetState(ch, s) ==
  /\ state'    = [state EXCEPT ![ch] = s]
  /\ armedFor' = [armedFor EXCEPT ![ch] = None]
  /\ stopBit'  = [stopBit EXCEPT ![ch] = FALSE]
  /\ UNCHANGED memory

\* The channel a stop in progress is about.
Target(c) == IF pc[c] \in {"stop1", "try1"} THEN first[c] ELSE second[c]

\* The history of the sound in channel ch ends with it.
Forget(ch) ==
  /\ promised' = [promised EXCEPT ![ch] = FALSE]
  /\ stopped'  = [stopped EXCEPT ![ch] = FALSE]
  /\ enlisted' = [r \in Request |-> enlisted[r] \ {ch}]
  /\ onTarget' = [c \in Callers |-> onTarget[c] /\ Target(c) # ch]

\* The release store of toStatus(Idle): no bit survives.
StoreIdle(ch) ==
  /\ state'    = [state EXCEPT ![ch] = "Idle"]
  /\ armedFor' = [armedFor EXCEPT ![ch] = None]
  /\ stopBit'  = [stopBit EXCEPT ![ch] = FALSE]
  /\ memory'   = [memory EXCEPT ![ch] = FALSE]
  /\ Forget(ch)

\* Fault: the end-of-file mark is not reset with the file.
ReleaseFileOnly(ch) == file' = [file EXCEPT ![ch] = FALSE] /\ UNCHANGED eof

\* release(): close the file and reset the fields of the sound.
ReleaseData(ch) ==
  /\ file' = [file EXCEPT ![ch] = FALSE]
  /\ eof'  = [eof EXCEPT ![ch] = FALSE]

\* Fault: the mixer starts whatever is armed, for any request.
IsArmed(ch, r) == state[ch] = "Ready" /\ armedFor[ch] # None

IsArmedFor(ch, r) == state[ch] = "Ready" /\ armedFor[ch] = r

OwnerOf(ch) == IF memory[ch] THEN "mem" ELSE "sd"

IsOwnedBy(ch, r) == state[ch] \notin {"Idle", "Loading"} /\ OwnerOf(ch) = r

(***************************************************************************)
(* A read of the file.  A one-shot may reach its end (or a failed read),   *)
(* which closes the file at once; a looping sound wraps and is one whose   *)
(* reads never end.                                                        *)
(***************************************************************************)
ReadFile(ch, ended) ==
  /\ eof'  = [eof EXCEPT ![ch] = ended]
  /\ file' = [file EXCEPT ![ch] = ~ended]

-----------------------------------------------------------------------------
(* Caller tasks: prepare() = claim() + load().                             *)

Goto(c, p) == pc' = [pc EXCEPT ![c] = p]

\* The call returns and its locals are gone.
Return(c) ==
  /\ Goto(c, "idle")
  /\ goal'   = [goal EXCEPT ![c] = None]
  /\ scan'   = [scan EXCEPT ![c] = 0]
  /\ first'  = [first EXCEPT ![c] = None]
  /\ second' = [second EXCEPT ![c] = None]
  /\ req'    = [req EXCEPT ![c] = None]
  /\ armed'  = [armed EXCEPT ![c] = {}]
  /\ seen'   = [seen EXCEPT ![c] = "Idle"]

BeginPrepare(c, g) ==
  /\ pc[c] = "idle" /\ g \in MayCall[c]
  /\ goal' = [goal EXCEPT ![c] = g]
  /\ Goto(c, "claim")
  /\ UNCHANGED <<scan, first, second, req, armed, seen>>
  /\ UNCHANGED <<statusVars, dataVars, startVars, mixVars, readVars, histVars>>

\* claim() of the next channel in index order.
Claim(c) ==
  /\ pc[c] = "claim"
  /\ state[scan[c]] = "Idle"
  /\ SetState(scan[c], "Loading")
  /\ Goto(c, "load")
  /\ UNCHANGED <<locals, dataVars, startVars, mixVars, readVars, histVars>>

\* Fault: the search runs one past the last channel.
SkipBusyPastEnd(c) ==
  /\ pc[c] = "claim" /\ state[scan[c]] # "Idle"
  /\ scan' = [scan EXCEPT ![c] = @ + 1]
  /\ UNCHANGED <<pc, goal, first, second, req, armed, seen>>
  /\ UNCHANGED <<statusVars, dataVars, startVars, mixVars, readVars, histVars>>

SkipBusy(c) ==
  /\ pc[c] = "claim"
  /\ state[scan[c]] # "Idle" /\ scan[c] + 1 \in Channel
  /\ scan' = [scan EXCEPT ![c] = @ + 1]
  /\ UNCHANGED <<pc, goal, first, second, req, armed, seen>>
  /\ UNCHANGED <<statusVars, dataVars, startVars, mixVars, readVars, histVars>>

\* What follows a prepare() that returned INVALID_CHANNEL: playLinked() stops the
\* channel it already prepared, every other call returns.
PrepareFailed(c) ==
  IF first[c] # None
    THEN /\ Goto(c, "stop1")
         /\ scan' = [scan EXCEPT ![c] = 0]
         /\ UNCHANGED <<goal, first, second, req, armed, seen>>
    ELSE Return(c)

NoFreeChannel(c) ==
  /\ pc[c] = "claim"
  /\ state[scan[c]] # "Idle" /\ scan[c] + 1 \notin Channel
  /\ PrepareFailed(c)
  /\ UNCHANGED <<statusVars, dataVars, startVars, mixVars, readVars, histVars>>

\* load() up to the publication: nobody else touches a Loading channel, so only the
\* look at the stop bit counts.  opened: the file opens; it still fails if the header
\* is invalid, the loop is empty, or a stop was requested; otherwise the ring is prefilled.
OpenAndPrefill(c, opened, ended) ==
  LET ch == scan[c] IN
  /\ pc[c] = "load"
  /\ \/ /\ file' = [file EXCEPT ![ch] = opened]
        /\ Goto(c, "abort")
        /\ UNCHANGED eof
     \/ /\ opened /\ ~stopBit[ch]
        /\ ReadFile(ch, ended)
        /\ Goto(c, "publish")
  /\ UNCHANGED <<locals, statusVars, startVars, mixVars, readVars, histVars>>

\* What follows a prepare() that returned channel ch.
Prepared(c, ch) ==
  LET more == goal[c] = "playLinked" /\ first[c] = None IN
  IF goal[c] = "prepare"
    THEN Return(c)
    ELSE /\ IF first[c] = None
              THEN first' = [first EXCEPT ![c] = ch] /\ UNCHANGED second
              ELSE second' = [second EXCEPT ![c] = ch] /\ UNCHANGED first
         /\ scan' = [scan EXCEPT ![c] = 0]
         /\ Goto(c, IF more THEN "claim" ELSE "reserve")
         /\ UNCHANGED <<goal, req, armed, seen>>

\* Fault: the publication is a plain store, which loses a stop that came in between.
PublishStore(c, backed) ==
  LET ch == scan[c] IN
  /\ pc[c] = "publish"
  /\ state'   = [state EXCEPT ![ch] = "Ready"]
  /\ stopBit' = [stopBit EXCEPT ![ch] = FALSE]
  /\ memory'  = [memory EXCEPT ![ch] = backed]
  /\ Prepared(c, ch)
  /\ UNCHANGED <<armedFor, dataVars, startVars, mixVars, readVars, histVars>>

\* The publication CAS from exactly Loading: it fails if a stop was requested.
Publish(c, backed) ==
  LET ch == scan[c] IN
  /\ pc[c] = "publish"
  /\ ~stopBit[ch]
  /\ state'  = [state EXCEPT ![ch] = "Ready"]
  /\ memory' = [memory EXCEPT ![ch] = backed]
  /\ Prepared(c, ch)
  /\ UNCHANGED <<armedFor, stopBit, dataVars, startVars, mixVars, readVars, histVars>>

PublishRefused(c) ==
  /\ pc[c] = "publish"
  /\ stopBit[scan[c]]
  /\ Goto(c, "abort")
  /\ UNCHANGED <<locals, statusVars, dataVars, startVars, mixVars, readVars, histVars>>

\* abortLoad(): release(), then the channel is Idle again.
AbortRelease(c) ==
  /\ pc[c] = "abort"
  /\ ReleaseData(scan[c])
  /\ Goto(c, "free")
  /\ UNCHANGED <<locals, statusVars, startVars, mixVars, readVars, histVars>>

AbortIdle(c) ==
  /\ pc[c] = "free"
  /\ StoreIdle(scan[c])
  /\ PrepareFailed(c)
  /\ UNCHANGED <<dataVars, startVars, mixVars, readVars>>

-----------------------------------------------------------------------------
(* Caller tasks: startGroup().                                             *)

\* startGroup() of any one or two channels, also of ones this caller did not prepare.
BeginStartGroup(c, a, b) ==
  /\ pc[c] = "idle" /\ "startGroup" \in MayCall[c]
  /\ goal'   = [goal EXCEPT ![c] = "startGroup"]
  /\ first'  = [first EXCEPT ![c] = a]
  /\ second' = [second EXCEPT ![c] = b]
  /\ Goto(c, "reserve")
  /\ UNCHANGED <<scan, req, armed, seen>>
  /\ UNCHANGED <<statusVars, dataVars, startVars, mixVars, readVars, histVars>>

Ids(c) == {first[c], second[c]} \ {None}

\* What follows a startGroup() that failed: play() and playLinked() stop what they prepared.
StartFailed(c) ==
  IF goal[c] = "startGroup"
    THEN Return(c)
    ELSE /\ Goto(c, "stop1")
         /\ req'   = [req EXCEPT ![c] = None]
         /\ armed' = [armed EXCEPT ![c] = {}]
         /\ UNCHANGED <<goal, scan, first, second, seen>>

\* An id listed twice (as when the first channel of a linked pair was stopped, freed and
\* claimed again for the second file), or no free request.
RefuseStart(c) ==
  /\ pc[c] = "reserve"
  /\ first[c] = second[c] \/ inUse = Request
  /\ StartFailed(c)
  /\ UNCHANGED <<statusVars, dataVars, startVars, mixVars, readVars, histVars>>

Reserve(c) ==
  LET r == Least(Request \ inUse) IN
  /\ pc[c] = "reserve"
  /\ first[c] # second[c] /\ inUse # Request
  /\ inUse' = inUse \cup {r}
  /\ req'   = [req EXCEPT ![c] = r]
  /\ Goto(c, "arm")
  /\ enlisted' = [enlisted EXCEPT ![r] = {}]
  /\ UNCHANGED <<goal, scan, first, second, armed, seen, committed, members>>
  /\ UNCHANGED <<statusVars, dataVars, mixVars, readVars, promised, stopped, onTarget>>

\* arm() of the next member in index order.
Arm(c) ==
  LET ch == Least(Ids(c) \ armed[c]) IN
  /\ pc[c] = "arm"
  /\ state[ch] = "Ready" /\ armedFor[ch] = None
  /\ armedFor' = [armedFor EXCEPT ![ch] = req[c]]
  /\ armed'    = [armed EXCEPT ![c] = @ \cup {ch}]
  /\ enlisted' = [enlisted EXCEPT ![req[c]] = @ \cup {ch}]
  /\ Goto(c, IF armed[c] \cup {ch} = Ids(c) THEN "members" ELSE "arm")
  /\ UNCHANGED <<goal, scan, first, second, req, seen, state, stopBit, memory>>
  /\ UNCHANGED <<dataVars, startVars, mixVars, readVars, promised, stopped, onTarget>>

ArmRefused(c) ==
  LET ch == Least(Ids(c) \ armed[c]) IN
  /\ pc[c] = "arm"
  /\ ~(state[ch] = "Ready" /\ armedFor[ch] = None)
  /\ Goto(c, IF armed[c] = {} THEN "release" ELSE "undo")
  /\ UNCHANGED <<locals, statusVars, dataVars, startVars, mixVars, readVars, histVars>>

\* disarm() of one channel armed before the refusal.
Disarm(c) ==
  LET ch == Least(armed[c]) IN
  /\ pc[c] = "undo"
  /\ IF IsArmedFor(ch, req[c])
       THEN /\ armedFor' = [armedFor EXCEPT ![ch] = None]
            /\ enlisted' = [enlisted EXCEPT ![req[c]] = @ \ {ch}]
       ELSE UNCHANGED <<armedFor, enlisted>>
  /\ armed'    = [armed EXCEPT ![c] = @ \ {ch}]
  /\ Goto(c, IF armed[c] = {ch} THEN "release" ELSE "undo")
  /\ UNCHANGED <<goal, scan, first, second, req, seen, state, stopBit, memory>>
  /\ UNCHANGED <<dataVars, startVars, mixVars, readVars, promised, stopped, onTarget>>

\* Fault: a startGroup() that fails does not hand its request back.
ReleaseRequestLeaks(c) ==
  /\ pc[c] = "release"
  /\ StartFailed(c)
  /\ UNCHANGED <<inUse, committed, members>>
  /\ UNCHANGED <<statusVars, dataVars, mixVars, readVars, histVars>>

\* The request is handed back unused.
ReleaseRequest(c) ==
  /\ pc[c] = "release"
  /\ inUse' = inUse \ {req[c]}
  /\ StartFailed(c)
  /\ UNCHANGED <<committed, members, statusVars, dataVars, mixVars, readVars, histVars>>

\* Fault: the request is committed with the member list of its last use.
MembersNotWritten(c) ==
  /\ pc[c] = "members"
  /\ Goto(c, "commit")
  /\ UNCHANGED <<locals, statusVars, dataVars, startVars, mixVars, readVars, histVars>>

WriteMembers(c) ==
  /\ pc[c] = "members"
  /\ members' = [members EXCEPT ![req[c]] = Ids(c)]
  /\ Goto(c, "commit")
  /\ UNCHANGED <<locals, inUse, committed, statusVars, dataVars, mixVars, readVars, histVars>>

\* From here on every sound this request armed is promised to the caller.
Commit(c) ==
  /\ pc[c] = "commit"
  /\ committed' = committed \cup {req[c]}
  /\ promised'  = [ch \in Channel |-> promised[ch] \/ ch \in enlisted[req[c]]]
  /\ Return(c)
  /\ UNCHANGED <<inUse, members, statusVars, dataVars, mixVars, readVars>>
  /\ UNCHANGED <<stopped, enlisted, onTarget>>

-----------------------------------------------------------------------------
(* Caller tasks: stop(), also run by play() and playLinked() on failure.   *)

BeginStop(c, ch) ==
  /\ pc[c] = "idle" /\ "stop" \in MayCall[c]
  /\ goal'  = [goal EXCEPT ![c] = "stop"]
  /\ first' = [first EXCEPT ![c] = ch]
  /\ Goto(c, "stop1")
  /\ UNCHANGED <<scan, second, req, armed, seen>>
  /\ UNCHANGED <<statusVars, dataVars, startVars, mixVars, readVars, histVars>>

\* The states requestStop() acts on; in any other it returns.
Stoppable(ch) == state[ch] \in {"Ready", "Active"} \/ (state[ch] = "Loading" /\ ~stopBit[ch])

\* requestStop() returns: playLinked() goes on with its second channel.
StopDone(c) ==
  IF pc[c] \in {"stop1", "try1"} /\ second[c] # None
    THEN Goto(c, "stop2") /\ UNCHANGED locals
    ELSE Return(c)

\* requestStop(): the first load of the status word fixes first_seen.
StopLook(c) ==
  /\ pc[c] \in {"stop1", "stop2"}
  /\ IF Stoppable(Target(c))
       THEN /\ seen' = [seen EXCEPT ![c] = state[Target(c)]]
            /\ onTarget' = [onTarget EXCEPT ![c] = TRUE]
            /\ Goto(c, IF pc[c] = "stop1" THEN "try1" ELSE "try2")
            /\ UNCHANGED <<goal, scan, first, second, req, armed>>
       ELSE StopDone(c) /\ UNCHANGED onTarget
  /\ UNCHANGED <<statusVars, dataVars, startVars, mixVars, readVars, promised, stopped, enlisted>>

\* Fault: a channel that is still loading is closed under its loader.
StopWordClosesLoad(ch) ==
  SetState(ch, IF state[ch] \in {"Loading", "Ready"} THEN "Closing" ELSE "Stopping")

\* Fault: an active channel is closed without a fade.
StopWordHard(ch) ==
  IF state[ch] = "Loading"
    THEN stopBit' = [stopBit EXCEPT ![ch] = TRUE] /\ UNCHANGED <<state, armedFor, memory>>
    ELSE SetState(ch, "Closing")

\* The desired word of a stop: a Loading channel keeps its state and gets the stop bit.
StopWord(ch) ==
  CASE state[ch] = "Loading" ->
         stopBit' = [stopBit EXCEPT ![ch] = TRUE] /\ UNCHANGED <<state, armedFor, memory>>
    [] state[ch] = "Ready"  -> SetState(ch, "Closing")
    [] state[ch] = "Active" -> SetState(ch, "Stopping")

\* A stop writes only to a word that has something to stop, and not to a state lower than
\* the one first seen.
WillStop(c) == Rank(state[Target(c)]) >= Rank(seen[c]) /\ Stoppable(Target(c))

\* The CAS that succeeds, on whatever word the channel then has, or the early return.
StopTry(c) ==
  LET ch == Target(c) IN
  /\ pc[c] \in {"try1", "try2"}
  /\ IF WillStop(c)
       THEN StopWord(ch) /\ stopped' = [stopped EXCEPT ![ch] = TRUE]
       ELSE UNCHANGED <<statusVars, stopped>>
  /\ onTarget' = [onTarget EXCEPT ![c] = FALSE]
  /\ StopDone(c)
  /\ UNCHANGED <<dataVars, startVars, mixVars, readVars, promised, enlisted>>

-----------------------------------------------------------------------------
(* The mixer task: one cycle is exchange, run the requests, mix, repeat.   *)

\* The next taken request, or mixFrames() once all have run.
NextRequest ==
  IF taken' = {} THEN mpc' = "begin" /\ todo' = Channel
                 ELSE mpc' = "run" /\ todo' = {}

\* Fault: the committed requests are cleared and none is taken.
MixExchangeForgets ==
  /\ mpc = "exchange"
  /\ taken' = {} /\ committed' = {}
  /\ NextRequest
  /\ UNCHANGED <<mix, mixEof, inUse, members>>
  /\ UNCHANGED <<statusVars, dataVars, pc, locals, readVars, histVars>>

MixExchange ==
  /\ mpc = "exchange"
  /\ taken' = committed
  /\ committed' = {}
  /\ NextRequest
  /\ UNCHANGED <<mix, mixEof, inUse, members>>
  /\ UNCHANGED <<statusVars, dataVars, pc, locals, readVars, histVars>>

\* Fault: the request is handed back before its members are started.
MixRunFreesEarly ==
  /\ mpc = "run"
  /\ todo'  = members[Least(taken)]
  /\ inUse' = inUse \ {Least(taken)}
  /\ mpc' = "start"
  /\ UNCHANGED <<taken, mix, mixEof, committed, members>>
  /\ UNCHANGED <<statusVars, dataVars, pc, locals, readVars, histVars>>

\* Fault: one member of the group is left out.
MixRunFirstMember ==
  /\ mpc = "run"
  /\ todo' = {Least(members[Least(taken)])}
  /\ mpc' = "start"
  /\ UNCHANGED <<taken, mix, mixEof, startVars>>
  /\ UNCHANGED <<statusVars, dataVars, pc, locals, readVars, histVars>>

\* run_start_request(): read the members of the lowest taken request.
MixRun ==
  /\ mpc = "run"
  /\ todo' = members[Least(taken)]
  /\ mpc' = "start"
  /\ UNCHANGED <<taken, mix, mixEof, startVars>>
  /\ UNCHANGED <<statusVars, dataVars, pc, locals, readVars, histVars>>

\* start(request): only a channel still armed for this very request.
MixStart ==
  LET r  == Least(taken)
      ch == Least(todo) IN
  /\ mpc = "start" /\ todo # {}
  /\ IF IsArmedFor(ch, r) THEN SetState(ch, "Active") ELSE UNCHANGED statusVars
  /\ todo' = todo \ {ch}
  /\ UNCHANGED <<mpc, taken, mix, mixEof, startVars, dataVars, pc, locals, readVars, histVars>>

\* The request is free for the next startGroup().
MixFree ==
  LET r == Least(taken) IN
  /\ mpc = "start" /\ todo = {}
  /\ inUse' = inUse \ {r}
  /\ taken' = taken \ {r}
  /\ NextRequest
  /\ UNCHANGED <<mix, mixEof, committed, members>>
  /\ UNCHANGED <<statusVars, dataVars, pc, locals, readVars, histVars>>

\* beginMixCycle() of the next channel.
MixBegin ==
  LET ch == Least(todo) IN
  /\ mpc = "begin" /\ todo # {}
  /\ mix'    = [mix EXCEPT ![ch] = IF state[ch] \in Mixable THEN state[ch] ELSE "none"]
  /\ mixEof' = [mixEof EXCEPT ![ch] = state[ch] \in Mixable /\ eof[ch]]
  /\ todo'   = todo \ {ch}
  /\ UNCHANGED <<mpc, taken, startVars>>
  /\ UNCHANGED <<statusVars, dataVars, pc, locals, readVars, histVars>>

\* Every channel is snapshotted: mix the samples of the mixed ones.
MixSamples ==
  /\ mpc = "begin" /\ todo = {}
  /\ mpc' = "end"
  /\ todo' = {ch \in Channel : mix[ch] # "none"}
  /\ UNCHANGED <<taken, mix, mixEof, startVars>>
  /\ UNCHANGED <<statusVars, dataVars, pc, locals, readVars, histVars>>

\* transition(): the CAS succeeds only while the channel is still in the from state.
Transition(ch, from, to) ==
  IF state[ch] = from THEN SetState(ch, to) ELSE UNCHANGED statusVars

\* Fault: a stopping channel is closed only at the end of its file.
MixEndDrainedOnly(ended) ==
  LET ch == Least(todo) IN
  /\ mpc = "end" /\ todo # {}
  /\ IF ended /\ mixEof[ch] THEN Transition(ch, mix[ch], "Closing") ELSE UNCHANGED statusVars
  /\ todo'   = todo \ {ch}
  /\ mix'    = [mix EXCEPT ![ch] = "none"]
  /\ mixEof' = [mixEof EXCEPT ![ch] = FALSE]
  /\ UNCHANGED <<mpc, taken, startVars, dataVars, pc, locals, readVars, histVars>>

\* endMixCycle(): ended is "the fade reached 0 or the ring is drained" for a stopping
\* channel and "the ring is drained" for an active one.
MixEnd(ended) ==
  LET ch == Least(todo) IN
  /\ mpc = "end" /\ todo # {}
  /\ CASE ended /\ mix[ch] = "Stopping" -> Transition(ch, "Stopping", "Closing")
       [] ended /\ mix[ch] = "Active" /\ mixEof[ch] -> Transition(ch, "Active", "Closing")
       [] OTHER -> UNCHANGED statusVars
  /\ todo'   = todo \ {ch}
  /\ mix'    = [mix EXCEPT ![ch] = "none"]
  /\ mixEof' = [mixEof EXCEPT ![ch] = FALSE]
  /\ UNCHANGED <<mpc, taken, startVars, dataVars, pc, locals, readVars, histVars>>

\* The I2S write and the notification of both readers end the cycle.
MixWrite ==
  /\ mpc = "end" /\ todo = {}
  /\ mpc' = "exchange"
  /\ UNCHANGED <<taken, todo, mix, mixEof, startVars>>
  /\ UNCHANGED <<statusVars, dataVars, pc, locals, readVars, histVars>>

-----------------------------------------------------------------------------
(***************************************************************************)
(* The reader tasks.  A wake-up runs service_owned_channels(), which looks *)
(* at every channel's status word, closes the closing ones it owns and     *)
(* refills the needy ones it owns; each look is a separate atomic load, so *)
(* the scan is a choice of the channel that is looked at next.             *)
(***************************************************************************)
ReaderAt(r, p, ch) ==
  /\ rpc' = [rpc EXCEPT ![r] = p]
  /\ at'  = [at EXCEPT ![r] = ch]

\* Fault: a reader closes whatever is closing, also what the other reader owns.
CloseReleaseAny(r, ch) ==
  /\ rpc[r] = "scan" /\ state[ch] = "Closing"
  /\ ReleaseData(ch)
  /\ ReaderAt(r, "free", ch)
  /\ UNCHANGED <<statusVars, startVars, pc, locals, mixVars, histVars>>

\* closeIfClosing(): release(), then the channel is Idle again.
CloseRelease(r, ch) ==
  /\ rpc[r] = "scan"
  /\ state[ch] = "Closing" /\ OwnerOf(ch) = r
  /\ ReleaseData(ch)
  /\ ReaderAt(r, "free", ch)
  /\ UNCHANGED <<statusVars, startVars, pc, locals, mixVars, histVars>>

CloseIdle(r) ==
  /\ rpc[r] = "free"
  /\ StoreIdle(at[r])
  /\ ReaderAt(r, "scan", 0)
  /\ UNCHANGED <<dataVars, startVars, pc, locals, mixVars>>

\* find_neediest_channel(): an owned channel below the watermark.
PickRefill(r, ch) ==
  /\ rpc[r] = "scan"
  /\ IsOwnedBy(ch, r) /\ state[ch] \in Refillable /\ ~eof[ch]
  /\ ReaderAt(r, "refill", ch)
  /\ UNCHANGED <<statusVars, dataVars, startVars, pc, locals, mixVars, histVars>>

\* refillBuffer(): nothing to do if the channel started closing, or has no file.
Refill(r, ended) ==
  LET ch == at[r] IN
  /\ rpc[r] = "refill"
  /\ IF state[ch] \in Refillable /\ file[ch]
       THEN ReadFile(ch, ended)
       ELSE UNCHANGED <<file, eof>>
  /\ ReaderAt(r, "scan", 0)
  /\ UNCHANGED <<statusVars, startVars, pc, locals, mixVars, histVars>>

-----------------------------------------------------------------------------
Prepare(c) ==
  \/ Claim(c) \/ SkipBusy(c) \/ NoFreeChannel(c)
  \/ \E opened, ended \in BOOLEAN : OpenAndPrefill(c, opened, ended)
  \/ \E backed \in Backing : Publish(c, backed)
  \/ PublishRefused(c) \/ AbortRelease(c) \/ AbortIdle(c)

StartGroup(c) ==
  \/ RefuseStart(c) \/ Reserve(c) \/ Arm(c) \/ ArmRefused(c) \/ Disarm(c)
  \/ ReleaseRequest(c) \/ WriteMembers(c) \/ Commit(c)

Stop(c) == StopLook(c) \/ StopTry(c)

\* A task that is inside a call goes on with it.
Call(c) == Prepare(c) \/ StartGroup(c) \/ Stop(c)

Begin(c) ==
  \/ \E g \in {"prepare", "play", "playLinked"} : BeginPrepare(c, g)
  \/ \E a \in Channel, b \in Channel \cup {None} : a # b /\ BeginStartGroup(c, a, b)
  \/ \E ch \in Channel : BeginStop(c, ch)

Mixer ==
  \/ MixExchange \/ MixRun \/ MixStart \/ MixFree \/ MixBegin \/ MixSamples
  \/ (\E ended \in BOOLEAN : MixEnd(ended)) \/ MixWrite

Close(r) == (\E ch \in Channel : CloseRelease(r, ch)) \/ CloseIdle(r)

RefillPass(r) ==
  \/ \E ch \in Channel : PickRefill(r, ch)
  \/ \E ended \in BOOLEAN : Refill(r, ended)

Next ==
  \/ \E c \in Callers : Begin(c) \/ Call(c)
  \/ Mixer
  \/ \E r \in Reader : Close(r) \/ RefillPass(r)

Spec == Init /\ [][Next]_vars

(***************************************************************************)
(* Fairness.  The engine tasks and a task inside a call are runnable and   *)
(* FreeRTOS runs them; nobody is obliged to make a call.  A stopping       *)
(* channel loses one fade step per sample it plays or is drained, so it    *)
(* cannot stay both audible and buffered cycle after cycle: strong         *)
(* fairness on the cycle that ends it.  A reader pass looks at every       *)
(* channel before it sleeps again, whatever the others do: strong fairness *)
(* on closing each channel.                                                *)
(***************************************************************************)
FadeEnds(ch) ==
  /\ mpc = "end" /\ todo # {} /\ Least(todo) = ch /\ mix[ch] = "Stopping"
  /\ MixEnd(TRUE)

Fairness ==
  /\ \A c \in Callers : WF_vars(Call(c))
  /\ WF_vars(Mixer)
  /\ \A ch \in Channel : SF_vars(FadeEnds(ch))
  /\ \A r \in Reader :
       /\ \A ch \in Channel : SF_vars(CloseRelease(r, ch))
       /\ WF_vars(CloseIdle(r))
       /\ \A ended \in BOOLEAN : WF_vars(Refill(r, ended))

FairSpec == Spec /\ Fairness

-----------------------------------------------------------------------------
(* Properties.                                                             *)

CallPoint == {"idle", "claim", "load", "publish", "abort", "free", "reserve", "arm", "undo",
              "release", "members", "commit", "stop1", "try1", "stop2", "try2"}

ChannelsTyped ==
  /\ state    \in [Channel -> State]
  /\ armedFor \in [Channel -> Request \cup {None}]
  /\ stopBit  \in [Channel -> BOOLEAN]
  /\ memory   \in [Channel -> BOOLEAN]
  /\ file     \in [Channel -> BOOLEAN]
  /\ eof      \in [Channel -> BOOLEAN]

StartsTyped ==
  /\ inUse \subseteq Request /\ committed \subseteq Request
  /\ members \in [Request -> SUBSET Channel]

CallsTyped ==
  /\ pc     \in [Callers -> CallPoint]
  /\ goal   \in [Callers -> Goal \cup {None}]
  /\ scan   \in [Callers -> Channel]
  /\ first  \in [Callers -> Channel \cup {None}]
  /\ second \in [Callers -> Channel \cup {None}]
  /\ req    \in [Callers -> Request \cup {None}]
  /\ armed  \in [Callers -> SUBSET Channel]
  /\ seen   \in [Callers -> State]

MixerTyped ==
  /\ mpc \in {"exchange", "run", "start", "begin", "end"}
  /\ taken \subseteq Request /\ todo \subseteq Channel
  /\ mix    \in [Channel -> {"none", "Active", "Stopping"}]
  /\ mixEof \in [Channel -> BOOLEAN]

ReadersTyped ==
  /\ rpc \in [Reader -> {"scan", "free", "refill"}]
  /\ at  \in [Reader -> Channel]

HistoryTyped ==
  /\ promised \in [Channel -> BOOLEAN]
  /\ stopped  \in [Channel -> BOOLEAN]
  /\ enlisted \in [Request -> SUBSET Channel]
  /\ onTarget \in [Callers -> BOOLEAN]

\* Every variable has its type, which is what keeps every channel id and request number
\* within the arrays of Impl.
TypeOK ==
  ChannelsTyped /\ StartsTyped /\ CallsTyped /\ MixerTyped /\ ReadersTyped /\ HistoryTyped

\* A caller works on the file and the ring of the channel it claimed until it is Ready
\* or Idle again; a reader does while it refills or closes a channel.
LoadingAt(c, ch) == pc[c] \in {"load", "publish", "abort", "free"} /\ scan[c] = ch
ReadingAt(r, ch) == rpc[r] \in {"free", "refill"} /\ at[r] = ch

\* The tasks in the middle of touching the file or the ring write side of a channel.
Users(ch) == {c \in Callers : LoadingAt(c, ch)} \cup {r \in Reader : ReadingAt(r, ch)}

\* Two callers, two readers, or a caller and a reader never work on the file of one channel
\* at the same time, and whoever does is the owner named by the channel's state: the file
\* has a single owner (AudioChannel.hpp, ownership table).
SingleOwner ==
  /\ \A c, d \in Callers, ch \in Channel : LoadingAt(c, ch) /\ LoadingAt(d, ch) => c = d
  /\ \A c \in Callers, ch \in Channel : LoadingAt(c, ch) => state[ch] = "Loading"
  /\ \A r \in Reader, ch \in Channel : ReadingAt(r, ch) => IsOwnedBy(ch, r)

\* A channel is handed back clean: while it is Idle nobody works on it, its file is closed
\* and no end-of-file mark of the previous sound is left for the next one.
IdleIsClean ==
  \A ch \in Channel : state[ch] = "Idle" => Users(ch) = {} /\ ~file[ch] /\ ~eof[ch]

\* A channel the mixer has snapshotted for this cycle still holds the same sound: no stop,
\* however it interleaves, lets a reader close it before endMixCycle() is done with it.
MixedChannelStays ==
  \A ch \in Channel : mix[ch] # "none" =>
    state[ch] \in Mixable /\ (mix[ch] = "Stopping" => state[ch] = "Stopping")

\* Whoever holds a start request: a caller between reserving and committing it, the
\* committed set, or the mixer.
HeldBy(c, r) == pc[c] \in {"arm", "undo", "release", "members", "commit"} /\ req[c] = r

\* A start request in use is in exactly one hand: its member list is never rewritten while
\* the mixer may read it, none is leaked with its in-use bit set and nobody left to clear it,
\* and a free request is in no hand.
RequestHeldOnce ==
  /\ \A c, d \in Callers, r \in Request : HeldBy(c, r) /\ HeldBy(d, r) => c = d
  /\ \A c \in Callers, r \in Request : HeldBy(c, r) => r \in inUse \ (committed \cup taken)
  /\ committed \cap taken = {} /\ committed \cup taken \subseteq inUse
  /\ \A r \in inUse \ (committed \cup taken) : \E c \in Callers : HeldBy(c, r)

\* No sound is started on behalf of an older request: everything audible was armed by a
\* startGroup() that went through (AudioChannel.hpp, arm(); AudioEngine.hpp, "nothing is
\* started" when startGroup() fails).
StartedWasPromised ==
  \A ch \in Channel : state[ch] \in Mixable => promised[ch]

\* A start the caller was promised is never lost: a promised channel that is still Ready
\* is armed for a committed request that lists it, and the mixer has yet to visit it.
PromiseKept ==
  \A ch \in Channel : promised[ch] /\ state[ch] = "Ready" =>
    /\ armedFor[ch] \in committed \cup taken
    /\ ch \in members[armedFor[ch]]
    /\ mpc = "start" /\ armedFor[ch] = Least(taken) => ch \in todo

\* The members of one startGroup() become audible in the same mixer cycle: while the mixer
\* mixes, no member of a request is playing and another still waits to be started.
GroupStartsTogether ==
  mpc \in {"begin", "end"} =>
    \A r \in Request : \A a, b \in enlisted[r] : ~(state[a] \in Mixable /\ state[b] = "Ready")

\* A stop is never dropped (AudioChannel.hpp, requestStop()): once it has taken effect on a
\* sound, that sound is never published, started or played at its volume again.
StopNotDropped ==
  \A ch \in Channel : stopped[ch] =>
    state[ch] \in {"Stopping", "Closing"} \/ (state[ch] = "Loading" /\ stopBit[ch])

\* A stop that looks at a published sound writes to no other sound (AudioChannel.cpp,
\* requestStop(): "the slot was closed and re-claimed, and the new sound must not be stopped").
StopReachesOnlyItsSound ==
  [][\A c \in Callers :
       pc[c] \in {"try1", "try2"} /\ pc'[c] # pc[c] /\ WillStop(c) /\ seen[c] # "Loading" =>
         onTarget[c]]_vars

\* Every stop ends in a free channel: the load is aborted, or the fade ends and the owning
\* reader closes the file.
StopEndsIdle == \A ch \in Channel : stopped[ch] ~> state[ch] = "Idle"

\* Every promised start happens, unless a stop comes first.
PromiseFulfilled ==
  \A ch \in Channel : promised[ch] /\ state[ch] = "Ready" ~> state[ch] # "Ready"

(***************************************************************************)
(* The documented ownership table and lifecycle are implemented.           *)
(***************************************************************************)
Ownership == INSTANCE ChannelOwnership WITH
  Task  <- Callers \cup Reader,
  phase <- state,
  user  <- [ch \in Channel |-> Users(ch)],
  owner <- [ch \in Channel |-> IF state[ch] \in {"Idle", "Loading"} THEN "none" ELSE OwnerOf(ch)]

\* Every step moves each channel along the documented lifecycle, and only its owner works
\* on its file.
ImplementsOwnership == Ownership!Spec

=============================================================================
