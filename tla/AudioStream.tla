---------------------------- MODULE AudioStream ----------------------------
(***************************************************************************)
(* The samples of an AudioEngine: the ring of each channel between the     *)
(* reader that fills it and the mixer that plays it, the linked groups the *)
(* mixer holds, and the start and end of the three engine tasks.           *)
(*                                                                         *)
(* AudioEngine models claims, arming and stops word by word; here loading  *)
(* a sound, committing a start request and stopping a channel are one step *)
(* each.  A sound is its samples 0 .. Length - 1, and a slot of a ring     *)
(* holds the number of a sample.  Volumes, mixing and statistics are data: *)
(* a fade takes 256 samples, which is one cycle, so a stopping channel has *)
(* faded out or run dry by the end of the first cycle that mixes it.       *)
(*                                                                         *)
(* Any interleaving of the tasks is allowed, more than their priorities    *)
(* leave.  A reader looks at all channels in one step when it closes them  *)
(* and when it looks for the neediest, which may be any that needs more.   *)
(***************************************************************************)
EXTENDS Integers, FiniteSets, FiniteSetsExt

CONSTANTS
  ChannelCount,  \* config.max_channels
  N,             \* RingGeometry::samples
  Frames,        \* frames of a mixer cycle
  Length,        \* samples of a sound
  Sounds,        \* the sounds there are, each [memory, loop]
  MaxFailures    \* bound: reads that fail

ASSUME StreamAssumption ==
  /\ ChannelCount \in Nat \ {0} /\ Length \in Nat \ {0} /\ MaxFailures \in Nat
  /\ N \in Nat /\ Frames \in Nat \ {0} /\ 4 * Frames <= N /\ N % 4 = 0
  /\ Sounds \subseteq [memory : BOOLEAN, loop : BOOLEAN]

Channel == 1 .. ChannelCount
Reader == {"mem", "sd"}
Task == Reader \cup {"mixer"}

VARIABLES
  state,                  \* the state in each status word
  sound,                  \* what the channel plays
  ring, write, read, eof, \* the ring buffer, its indices, and the end mark
  pos,                    \* _file_position, in samples
  group,                  \* linked group id: the members it was started with, or {}
  committed,              \* start requests: their members that are still armed
  mpc, mixed,             \* mixer: control point, the channels not finished in this cycle
  snap,                   \* mixer: what beginMixCycle() saw of each channel
  rpc, served, exhausted, \* readers: control point, masks of service_owned_channels()
  refill,                 \* readers: locals of refillBuffer()
  task, stopSent, running,\* the engine tasks and what stops them: _stop_requested, running
  main, destroying, late, \* who starts and stops the engine, the destructor, a reader's timeout
  next, cut, heard,       \* history: samples played of each sound; its end came too early;
                          \* the channels heard in the cycle that is going to the driver
  failures                \* bound

vars == <<state, sound, ring, write, read, eof, pos, group, committed, mpc, mixed, snap, rpc,
          served, exhausted, refill, task, stopSent, running, main, destroying,
          late, next, cut, heard, failures>>

ringVars  == <<ring, write, eof, pos, cut, failures>>
playVars  == <<read, next>>
mixVars   == <<mpc, mixed, snap, heard>>
readVars  == <<rpc, served, exhausted, refill>>
mainVars  == <<stopSent, running, main, destroying, late>>
taskVars  == <<task, mainVars>>

-----------------------------------------------------------------------------
(* RingGeometry.                                                           *)

Watermark == N \div 2
MaxChunk == N \div 4
Prefill(memory) == IF memory THEN N - 1 ELSE N \div 4

Available(w, r) == (w - r) % N
FreeSpace(w, r) == N - 1 - Available(w, r)
Advance(i, n) == (i + n) % N

Sample(n) == n % Length
NoSound == [memory |-> FALSE, loop |-> FALSE]

\* The position n samples after the start of the sound: a loop starts over.
Position(s, n) == IF s.loop THEN Sample(n) ELSE n

\* AudioChannel() and allocateRing(): an idle channel with an empty ring.
NewChannels ==
  /\ state = [c \in Channel |-> "Idle"]
  /\ sound = [c \in Channel |-> NoSound]
  /\ ring = [c \in Channel |-> [i \in 0 .. N - 1 |-> 0]]
  /\ write = [c \in Channel |-> 0] /\ read = [c \in Channel |-> 0]
  /\ eof = [c \in Channel |-> FALSE] /\ pos = [c \in Channel |-> 0]
  /\ group = [c \in Channel |-> {}] /\ snap = [c \in Channel |-> {}]

Init ==
  /\ NewChannels
  /\ committed = {}
  /\ mpc = "start" /\ mixed = {}
  /\ rpc = [r \in Reader |-> "wait"]
  /\ served = [r \in Reader |-> {}] /\ exhausted = [r \in Reader |-> {}]
  /\ refill = [r \in Reader |-> {}]
  /\ task = [t \in Task |-> "none"] /\ stopSent = {} /\ running = FALSE
  /\ main = "down" /\ destroying = FALSE /\ late = FALSE
  /\ next = [c \in Channel |-> 0] /\ cut = [c \in Channel |-> FALSE]
  /\ heard = {} /\ failures = 0

-----------------------------------------------------------------------------
(* The callers: loading, starting, stopping.                               *)

\* readFromFile(): all that is asked for, less at the end of a one-shot, or less because a
\* read failed, which ends a one-shot, or because the channel is being closed.
ReadFromFile(c, s, p, n) ==
  LET whole == IF s.loop THEN n ELSE Min({n, Length - p})
  IN {[got |-> whole, eof |-> whole < n, failed |-> FALSE]}
     \cup (IF failures < MaxFailures
             THEN [got : 0 .. whole - 1, eof : {~s.loop}, failed : {TRUE}] ELSE {})
     \cup (IF state[c] = "Closing"
             THEN [got : 0 .. whole - 1, eof : {FALSE}, failed : {FALSE}] ELSE {})

\* The samples from p on, put at index w.
Filled(slots, w, p, n) ==
  [i \in 0 .. N - 1 |-> IF (i - w) % N < n THEN Sample(p + ((i - w) % N)) ELSE slots[i]]

\* prepare(): the first idle channel, loaded and prefilled.  Bound: at most one one-shot at a
\* time, beside any number of loops.
Prepare(s) ==
  LET idle == {c \in Channel : state[c] = "Idle"}
      c == Min(idle)
  IN /\ main = "up" /\ idle # {}
     /\ s.loop \/ \A d \in Channel \ idle : sound[d].loop
     /\ \E got \in ReadFromFile(c, s, 0, Prefill(s.memory)) :
          /\ ring' = [ring EXCEPT ![c] = Filled(@, 0, 0, got.got)]
          /\ pos' = [pos EXCEPT ![c] = Position(s, got.got)]
          /\ write' = [write EXCEPT ![c] = got.got]
          /\ eof' = [eof EXCEPT ![c] = got.eof]
          /\ cut' = [cut EXCEPT ![c] = got.eof /\ got.failed]
          /\ failures' = IF got.failed THEN failures + 1 ELSE failures
     /\ read' = [read EXCEPT ![c] = 0]
     /\ next' = [next EXCEPT ![c] = 0]
     /\ sound' = [sound EXCEPT ![c] = s]
     /\ group' = [group EXCEPT ![c] = {}]
     /\ state' = [state EXCEPT ![c] = "Ready"]
     /\ UNCHANGED <<committed, mixVars, readVars, taskVars>>

\* startGroup(): every member is prepared and not armed yet.  The length of the samples is
\* the same, so members drift apart by no more than what they miss; a one-shot is started
\* alone, as play() does.
StartGroup(members) ==
  /\ members # {}
  /\ \A c \in members : state[c] = "Ready" /\ c \notin UNION committed
  /\ Cardinality(members) > 1 => \A c \in members : sound[c].loop
  /\ committed' = committed \cup {members}
  /\ UNCHANGED <<state, sound, group, ringVars, playVars, mixVars, readVars, taskVars>>

\* requestStop(): a channel that is Ready loses its start request with it.
Stop(c) ==
  /\ \/ state[c] = "Ready" /\ state' = [state EXCEPT ![c] = "Closing"]
     \/ state[c] = "Active" /\ state' = [state EXCEPT ![c] = "Stopping"]
  /\ committed' = {members \ {c} : members \in committed} \ {{}}
  /\ UNCHANGED <<sound, group, ringVars, playVars, mixVars, readVars, taskVars>>

-----------------------------------------------------------------------------
(* A mixer cycle.                                                          *)

\* run_start_request() of every committed request; two or more that start are a group.
MixStart ==
  /\ mpc = "start" /\ task["mixer"] = "alive" /\ running
  /\ state' = [c \in Channel |-> IF c \in UNION committed THEN "Active" ELSE state[c]]
  /\ group' = [c \in Channel |->
       IF c \in UNION committed
         THEN LET members == CHOOSE g \in committed : c \in g
              IN IF Cardinality(members) > 1 THEN members ELSE {}
         ELSE group[c]]
  /\ committed' = {}
  /\ mixed' = {c \in Channel : state'[c] \in {"Active", "Stopping"}}
  /\ mpc' = "begin"
  /\ UNCHANGED <<sound, ringVars, playVars, snap, heard, readVars, taskVars>>

\* beginMixCycle(), channel by channel in `mixed': the state and the end mark, then the index.
MixBegin ==
  /\ mpc = "begin" /\ mixed # {}
  /\ LET c == Min(mixed)
     IN /\ snap' = [snap EXCEPT ![c] =
             {[stopping |-> state[c] = "Stopping", eof |-> eof[c], write |-> read[c]]}]
        /\ group' = IF state[c] = "Stopping" THEN [group EXCEPT ![c] = {}] ELSE group
  /\ mpc' = "index"
  /\ UNCHANGED <<state, sound, mixed, committed, ringVars, playVars, heard, readVars, taskVars>>

MixIndex ==
  /\ mpc = "index"
  /\ LET c == Min(mixed)
     IN /\ snap' = [snap EXCEPT ![c] = {[s EXCEPT !.write = write[c]] : s \in @}]
        /\ mixed' = mixed \ {c}
  /\ mpc' = "begin"
  /\ UNCHANGED <<state, sound, group, committed, ringVars, playVars, heard, readVars, taskVars>>

InCycle == {c \in Channel : snap[c] # {}}
Snap(c) == CHOOSE s \in snap[c] : TRUE
Buffered(c) == Available(Snap(c).write, read[c])

\* mixGroup(): the others of the cycle that c is linked with, c included.
Members(c) == {d \in InCycle : group[d] = group[c] /\ ~Snap(d).stopping}

\* Fault: only the members that are short are held.
HeldAlone(c) ==
  /\ group[c] # {} /\ Cardinality(Members(c)) > 1
  /\ Buffered(c) < Frames
  /\ \A d \in Members(c) : ~Snap(d).eof

\* heldChannels(): a group with a member that is short, unless a member is at its end.
Held(c) ==
  /\ group[c] # {} /\ Cardinality(Members(c)) > 1
  /\ \E d \in Members(c) : Buffered(d) < Frames
  /\ \A d \in Members(c) : ~Snap(d).eof

\* Fault: the end mark is looked at again after the frames.
MixFramesMarkAgain ==
  LET consumed == [c \in Channel |->
        IF c \notin InCycle \/ Held(c) THEN 0 ELSE Min({Buffered(c), Frames})]
      done == {c \in InCycle :
        IF Snap(c).stopping THEN state[c] = "Stopping"
        ELSE state[c] = "Active" /\ eof[c] /\ Buffered(c) = consumed[c]}
  IN /\ mpc = "begin" /\ mixed = {}
     /\ group' = [c \in Channel |->
          IF c \in InCycle /\ Cardinality(Members(c)) < 2 THEN {} ELSE group[c]]
     /\ read' = [c \in Channel |-> Advance(read[c], consumed[c])]
     /\ next' = [c \in Channel |-> Position(sound[c], next[c] + consumed[c])]
     /\ state' = [c \in Channel |-> IF c \in done THEN "Closing" ELSE state[c]]
     /\ heard' = {c \in Channel : consumed[c] > 0}
     /\ snap' = [c \in Channel |-> {}]
     /\ mpc' = "notify"
     /\ UNCHANGED <<sound, committed, ringVars, mixed, readVars, taskVars>>

\* The frames, and endMixCycle() of each channel: the frames come from the snapshot alone.  A
\* single remaining member leaves its group; a channel that is not held is played as far as its
\* samples go; a stopping channel is done, and so is a one-shot that was played to its end mark.
MixFrames ==
  LET consumed == [c \in Channel |->
        IF c \notin InCycle \/ Held(c) THEN 0 ELSE Min({Buffered(c), Frames})]
      done == {c \in InCycle :
        IF Snap(c).stopping THEN state[c] = "Stopping"
        ELSE state[c] = "Active" /\ Snap(c).eof /\ Buffered(c) = consumed[c]}
  IN /\ mpc = "begin" /\ mixed = {}
     /\ group' = [c \in Channel |->
          IF c \in InCycle /\ Cardinality(Members(c)) < 2 THEN {} ELSE group[c]]
     /\ read' = [c \in Channel |-> Advance(read[c], consumed[c])]
     /\ next' = [c \in Channel |-> Position(sound[c], next[c] + consumed[c])]
     /\ state' = [c \in Channel |-> IF c \in done THEN "Closing" ELSE state[c]]
     /\ heard' = {c \in Channel : consumed[c] > 0}
     /\ snap' = [c \in Channel |-> {}]
     /\ mpc' = "notify"
     /\ UNCHANGED <<sound, committed, ringVars, mixed, readVars, taskVars>>

\* The frames go to the I2S driver, and both readers are notified.  They wake by themselves as
\* well, so the notification leaves no trace here.
MixNotify ==
  /\ mpc = "notify"
  /\ mpc' = "start"
  /\ heard' = {}
  /\ UNCHANGED <<state, sound, group, committed, ringVars, playVars, mixed, snap, readVars,
                 taskVars>>

MixExit ==
  /\ mpc = "start" /\ task["mixer"] = "alive" /\ ~running
  /\ task' = [task EXCEPT !["mixer"] = "exited"]
  /\ UNCHANGED <<state, sound, group, committed, ringVars, playVars, mixVars, readVars, mainVars>>

Mixer == MixStart \/ MixBegin \/ MixIndex \/ MixFrames \/ MixNotify \/ MixExit

-----------------------------------------------------------------------------
(* A reader pass.                                                          *)

Owned(r, c) == state[c] \notin {"Idle"} /\ sound[c].memory = (r = "mem")

Refillable(c) == state[c] \in {"Ready", "Active", "Stopping"}

NeedsRefill(c) == Refillable(c) /\ ~eof[c] /\ Available(write[c], read[c]) < Watermark

Needy(r, excluded) == {c \in Channel \ excluded : Owned(r, c) /\ NeedsRefill(c)}

Closing(r) == {c \in Channel : Owned(r, c) /\ state[c] = "Closing"}

\* close_owned_channels() and release(): the ring is empty again.
CloseOwned(r) ==
  LET reset(f, v) == [c \in Channel |-> IF c \in Closing(r) THEN v ELSE f[c]]
  IN /\ state' = reset(state, "Idle") /\ group' = reset(group, {})
     /\ write' = reset(write, 0) /\ read' = reset(read, 0)
     /\ eof' = reset(eof, FALSE) /\ pos' = reset(pos, 0)
     /\ sound' = reset(sound, NoSound)
     /\ next' = reset(next, 0) /\ cut' = reset(cut, FALSE)
     /\ UNCHANGED <<ring, failures, committed>>

\* Fault: the channels that got nothing stay excluded.
WakeStillExhausted(r) ==
  /\ rpc[r] = "wait" /\ task[r] = "alive" /\ r \notin stopSent
  /\ Closing(r) \cup Needy(r, {}) # {}
  /\ CloseOwned(r)
  /\ served' = [served EXCEPT ![r] = {}]
  /\ rpc' = [rpc EXCEPT ![r] = "pick"]
  /\ UNCHANGED <<mixVars, exhausted, refill, taskVars>>

\* A reader wakes by a notification or by itself after 10 ms; a pass that finds nothing to do
\* leaves no trace.
Wake(r) ==
  /\ rpc[r] = "wait" /\ task[r] = "alive" /\ r \notin stopSent
  /\ Closing(r) \cup Needy(r, {}) # {}
  /\ CloseOwned(r)
  /\ served' = [served EXCEPT ![r] = {}]
  /\ exhausted' = [exhausted EXCEPT ![r] = {}]
  /\ rpc' = [rpc EXCEPT ![r] = "pick"]
  /\ UNCHANGED <<mixVars, refill, taskVars>>

\* refillBuffer(): how much is read is fixed by the indices, then the file is read.
Pick(r) ==
  /\ rpc[r] = "pick"
  /\ \E c \in Needy(r, exhausted[r] \cup served[r]) :
       LET space == FreeSpace(write[c], read[c])
       IN refill' = [refill EXCEPT ![r] =
            {[ch |-> c, n |-> Min({space, Watermark, MaxChunk}), eof |-> FALSE]}]
  /\ rpc' = [rpc EXCEPT ![r] = "read"]
  /\ UNCHANGED <<state, sound, group, committed, ringVars, playVars, mixVars, served, exhausted,
                 taskVars>>

Refill(r) == CHOOSE f \in refill[r] : TRUE

\* Fault: what was asked for is taken for what was read.
ReadIntoRingAsAsked(r) ==
  /\ rpc[r] = "read"
  /\ LET f == Refill(r)
         c == f.ch
     IN \E got \in ReadFromFile(c, sound[c], pos[c], f.n) :
          /\ ring' = [ring EXCEPT ![c] = Filled(@, write[c], pos[c], got.got)]
          /\ pos' = [pos EXCEPT ![c] = Position(sound[c], @ + got.got)]
          /\ cut' = [cut EXCEPT ![c] = @ \/ (got.eof /\ got.failed)]
          /\ failures' = IF got.failed THEN failures + 1 ELSE failures
          /\ refill' = [refill EXCEPT ![r] = {[f EXCEPT !.eof = got.eof]}]
  /\ rpc' = [rpc EXCEPT ![r] = "publish"]
  /\ UNCHANGED <<state, sound, group, committed, write, eof, playVars, mixVars, served, exhausted,
                 taskVars>>

ReadIntoRing(r) ==
  /\ rpc[r] = "read"
  /\ LET f == Refill(r)
         c == f.ch
     IN \E got \in ReadFromFile(c, sound[c], pos[c], f.n) :
          /\ ring' = [ring EXCEPT ![c] = Filled(@, write[c], pos[c], got.got)]
          /\ pos' = [pos EXCEPT ![c] = Position(sound[c], @ + got.got)]
          /\ cut' = [cut EXCEPT ![c] = @ \/ (got.eof /\ got.failed)]
          /\ failures' = IF got.failed THEN failures + 1 ELSE failures
          /\ refill' = [refill EXCEPT ![r] = {[f EXCEPT !.n = got.got, !.eof = got.eof]}]
  /\ rpc' = [rpc EXCEPT ![r] = "publish"]
  /\ UNCHANGED <<state, sound, group, committed, write, eof, playVars, mixVars, served, exhausted,
                 taskVars>>

\* refillBuffer() returns; a channel that got nothing waits for the next wake.
Refilled(r) ==
  LET f == Refill(r)
  IN /\ served' = [served EXCEPT ![r] = @ \cup {f.ch}]
     /\ exhausted' = IF f.n = 0 THEN [exhausted EXCEPT ![r] = @ \cup {f.ch}] ELSE exhausted
     /\ refill' = [refill EXCEPT ![r] = {}]
     /\ rpc' = [rpc EXCEPT ![r] = "pick"]

PublishIndex(r) ==
  /\ rpc[r] = "publish"
  /\ write' = [write EXCEPT ![Refill(r).ch] = Advance(@, Refill(r).n)]
  /\ IF Refill(r).eof
       THEN rpc' = [rpc EXCEPT ![r] = "mark"] /\ UNCHANGED <<served, exhausted, refill>>
       ELSE Refilled(r)
  /\ UNCHANGED <<state, sound, group, committed, ring, eof, pos, cut, failures, playVars, mixVars,
                 taskVars>>

MarkEnd(r) ==
  /\ rpc[r] = "mark"
  /\ eof' = [eof EXCEPT ![Refill(r).ch] = TRUE]
  /\ Refilled(r)
  /\ UNCHANGED <<state, sound, group, committed, ring, write, pos, cut, failures, playVars,
                 mixVars, taskVars>>

\* Nobody needs more in this pass: another one if this one helped and somebody needs more
\* again, or sleep.
EndPass(r) ==
  /\ rpc[r] = "pick" /\ Needy(r, exhausted[r] \cup served[r]) = {}
  /\ IF served[r] \ exhausted[r] # {} /\ Needy(r, exhausted[r]) # {}
       THEN CloseOwned(r) /\ UNCHANGED rpc
       ELSE /\ rpc' = [rpc EXCEPT ![r] = "wait"]
            /\ UNCHANGED <<state, sound, group, committed, ringVars, playVars>>
  /\ served' = [served EXCEPT ![r] = {}]
  /\ UNCHANGED <<mixVars, exhausted, refill, taskVars>>

ReaderExit(r) ==
  /\ rpc[r] = "wait" /\ task[r] = "alive" /\ r \in stopSent
  /\ task' = [task EXCEPT ![r] = "exited"]
  /\ UNCHANGED <<state, sound, group, committed, ringVars, playVars, mixVars, readVars, mainVars>>

ReaderStep(r) ==
  \/ Wake(r) \/ Pick(r) \/ ReadIntoRing(r) \/ PublishIndex(r) \/ MarkEnd(r) \/ EndPass(r)
  \/ ReaderExit(r)

-----------------------------------------------------------------------------
(* start(), stop_tasks() and the destructor.                               *)

streamVars == <<state, sound, group, committed, ringVars, playVars, mixVars, readVars>>

Start ==
  /\ main = "down" /\ \A t \in Task : task[t] = "none"
  /\ main' = "spawnMem"
  /\ UNCHANGED <<streamVars, task, stopSent, running, destroying, late>>

\* stop_tasks() begins: no further mixer cycle.
StopTasks == running' = FALSE /\ main' = "joinMixer" /\ late' = FALSE

Spawn(t, from, to) ==
  /\ main = from
  /\ \/ /\ task' = [task EXCEPT ![t] = "alive"]
        /\ main' = to
        /\ running' = (t # "mem")
        /\ UNCHANGED late
     \/ StopTasks /\ UNCHANGED task
  /\ UNCHANGED <<streamVars, stopSent, destroying>>

\* The readers exist before the mixer, and `running' is set in between.
SpawnTask ==
  \/ Spawn("mem", "spawnMem", "spawnSd")
  \/ Spawn("sd", "spawnSd", "spawnMixer")
  \/ Spawn("mixer", "spawnMixer", "up")

\* The destructor; no other call is in progress, and nothing plays (a bound: the tear-down does
\* not look at the channels).
Destroy ==
  /\ main = "down" \/ (main = "up" /\ \A c \in Channel : state[c] = "Idle")
  /\ destroying' = TRUE
  /\ StopTasks
  /\ UNCHANGED <<streamVars, task, stopSent>>

\* stop_tasks() returns to a failed start() or to the destructor, which frees the engine or
\* leaks it.
Stopped(joined) ==
  main' = IF ~destroying THEN "down" ELSE IF joined THEN "freed" ELSE "leaked"

\* Fault: the mixer is not waited for.
JoinNoMixer ==
  /\ main = "joinMixer"
  /\ main' = "joinMem" /\ task' = [task EXCEPT !["mixer"] = "none"]
  /\ UNCHANGED <<streamVars, stopSent, running, destroying, late>>

JoinMixer ==
  /\ main = "joinMixer"
  /\ IF task["mixer"] = "alive"
       THEN Stopped(FALSE) /\ UNCHANGED task
       ELSE main' = "joinMem" /\ task' = [task EXCEPT !["mixer"] = "none"]
  /\ UNCHANGED <<streamVars, stopSent, running, destroying, late>>

\* join(true): a stop request, once, if there is a task at all.
AskReader(r, here) ==
  /\ main = here /\ task[r] # "none" /\ r \notin stopSent
  /\ stopSent' = stopSent \cup {r}
  /\ UNCHANGED <<streamVars, task, running, main, destroying, late>>

\* The semaphore of the task, or the timeout.
JoinReader(r, here) ==
  /\ main = here /\ (task[r] = "none" \/ r \in stopSent)
  /\ IF task[r] = "alive"
       THEN late' = TRUE /\ UNCHANGED <<task, stopSent>>
       ELSE /\ task' = [task EXCEPT ![r] = "none"]
            /\ stopSent' = stopSent \ {r}
            /\ UNCHANGED late
  /\ IF r = "mem" THEN main' = "joinSd" ELSE Stopped(~late')
  /\ UNCHANGED <<streamVars, running, destroying>>

StopTask ==
  \/ JoinMixer
  \/ AskReader("mem", "joinMem") \/ JoinReader("mem", "joinMem")
  \/ AskReader("sd", "joinSd") \/ JoinReader("sd", "joinSd")

Call ==
  \/ \E s \in Sounds : Prepare(s)
  \/ \E members \in SUBSET Channel : StartGroup(members)
  \/ \E c \in Channel : Stop(c)

Next ==
  \/ Call \/ Mixer \/ (\E r \in Reader : ReaderStep(r)) \/ Start \/ SpawnTask \/ Destroy \/ StopTask

Spec == Init /\ [][Next]_vars

\* The engine's tasks are scheduled.  Nobody has to call anything.
FairSpec == Spec /\ WF_vars(Mixer) /\ \A r \in Reader : WF_vars(ReaderStep(r))

-----------------------------------------------------------------------------
TypeOK ==
  /\ state \in [Channel -> {"Idle", "Ready", "Active", "Stopping", "Closing"}]
  /\ sound \in [Channel -> Sounds \cup {NoSound}]
  /\ ring \in [Channel -> [0 .. N - 1 -> 0 .. Length - 1]]
  /\ write \in [Channel -> 0 .. N - 1] /\ read \in [Channel -> 0 .. N - 1]
  /\ eof \in [Channel -> BOOLEAN] /\ pos \in [Channel -> 0 .. Length]
  /\ group \in [Channel -> SUBSET Channel] /\ committed \subseteq SUBSET Channel
  /\ mpc \in {"start", "begin", "index", "notify"} /\ mixed \subseteq Channel
  /\ rpc \in [Reader -> {"wait", "pick", "read", "publish", "mark"}]
  /\ task \in [Task -> {"none", "alive", "exited"}] /\ stopSent \subseteq Reader
  /\ next \in [Channel -> 0 .. Length] /\ cut \in [Channel -> BOOLEAN]

\* What waits in a ring are the next samples of its sound in order, from the one after the last
\* played, whatever the reader and the mixer are in the middle of.
InOrder ==
  \A c \in Channel : Refillable(c) =>
    \A i \in 0 .. N - 1 :
      i < Available(write[c], read[c]) => ring[c][Advance(read[c], i)] = Sample(next[c] + i)

\* A sound that ends by itself was played to its last sample, unless reading it failed: the
\* end mark and the index the mixer takes belong together.
PlayedToTheEnd ==
  [][\A c \in Channel : state[c] = "Active" /\ state'[c] = "Closing" =>
       next'[c] = Length \/ cut[c]]_vars

\* Linked sounds stay aligned to the sample, through starved cycles, read failures and stops.
LinkedAligned ==
  \A c, d \in Channel : group[c] # {} /\ group[c] = group[d] => next[c] = next[d]

\* While the engine runs and its readers catch up now and then, a sound that stays audible goes
\* on: no group is held for good, and no channel stays excluded.
GoesOn ==
  (\A r \in Reader : []<>(rpc[r] = "wait")) =>
    \A c \in Channel :
      <>[](main = "up" /\ state[c] = "Active") => []<>(c \in heard)

\* Nobody notifies a task that has ended, and the engine is freed after its last task.
TeardownSafe ==
  /\ mpc = "notify" => \A r \in Reader : task[r] = "alive"
  /\ main = "freed" => \A t \in Task : task[t] = "none"
=============================================================================
