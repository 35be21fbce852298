-------------------------- MODULE AudioController --------------------------
(***************************************************************************)
(* The audio controller (system/audio/AudioController.cpp): tasks hold     *)
(* AudioVoice handles, each to one voice slot, and queue commands for      *)
(* them; the audio_ctrl task executes the commands in order and owns every *)
(* play() and stop() of the engine.  Two things bypass the queue: a volume *)
(* is stored in the slot and written to its channel by the caller, and the *)
(* release of a voice is a flag in the slot that audio_ctrl sweeps after   *)
(* every command.  A command that finds the queue full is dropped.         *)
(*                                                                         *)
(* One action is one access to shared memory and the task-local code that  *)
(* follows it.  Of the engine only what a caller of play(), playLinked(),  *)
(* stop() and setChannelVolume() can tell is kept: each is one step here,  *)
(* AudioEngine has their interleavings.  Voices loop, as the effects play  *)
(* them; one-shots do not.                                                 *)
(*                                                                         *)
(* start() has returned when the behaviour begins and nobody destroys the  *)
(* controller.                                                             *)
(***************************************************************************)
EXTENDS Integers, Sequences, FiniteSets

CONSTANTS
  Task,         \* tasks that call the controller
  Handle,       \* AudioVoice objects
  MaxVoices,    \* kMaxVoices
  QueueDepth,   \* kQueueDepth
  Generations,  \* values of a generation counter, 2^32 in the code
  Channel,      \* channels of the engine
  StartVolume,  \* volumes that voices are played with
  LaterVolume,  \* volumes that setVolume() is called with
  MayCall,      \* methods that each task calls
  None

ASSUME ControllerAssumption ==
  /\ MaxVoices \in Nat \ {0}
  /\ QueueDepth \in Nat \ {0}
  /\ Generations \in Nat /\ Generations > QueueDepth
  /\ None \notin Channel

Volume == {0} \cup StartVolume \cup LaterVolume
Slot == 1 .. MaxVoices
Generation == 0 .. Generations - 1

VARIABLES
  inUse, releasePending, generation, channel, volume,  \* VoiceSlot fields
  queue,                                               \* m_queue
  held,                         \* slot and generation of each handle, None if it is invalid
  pc, using, command, tuning,   \* a call in progress: its control point, the handles it is about,
                                \* the command it builds, the volume it sets
  wpc, job, at, started, applied,  \* worker: control point, command, loop index, its channels,
                                   \* local of bindChannel()
  sounding, target,             \* engine: what a channel is doing, its target volume
  current, tuned, strayed       \* history, see Init

slotVars   == <<inUse, releasePending, generation, channel, volume>>
callVars   == <<pc, using, command, tuning>>
workerVars == <<wpc, job, at, started, applied>>
engineVars == <<sounding, target>>
vars == <<slotVars, queue, held, callVars, workerVars, engineVars, current, tuned, strayed>>

(***************************************************************************)
(* A command names one voice, two for playLinked(), none for a one-shot or *)
(* a release, which audio_ctrl does not look at again.  What it plays is   *)
(* left out.  Two fields are history: the age of a part, which is how      *)
(* often its slot was swept since the command was queued, and whether it   *)
(* is the last command accepted for its voice.                             *)
(***************************************************************************)
Part(h, vol) ==
  [voice |-> held[h].slot, generation |-> held[h].generation, volume |-> vol, age |-> 0,
   last |-> TRUE]

Command(type, parts) == [type |-> type, parts |-> parts]

Names(c, s) == \E i \in DOMAIN c.parts : c.parts[i].voice = s

Init ==
  /\ inUse          = [s \in Slot |-> FALSE]
  /\ releasePending = [s \in Slot |-> FALSE]
  /\ generation     = [s \in Slot |-> 0]
  /\ channel        = [s \in Slot |-> None]
  /\ volume         = [s \in Slot |-> 0]
  /\ queue = <<>>
  /\ held = [h \in Handle |-> None]
  /\ pc      = [t \in Task |-> "idle"]
  /\ using   = [t \in Task |-> {}]
  /\ command = [t \in Task |-> None]
  /\ tuning  = [t \in Task |-> None]
  /\ wpc = "wait" /\ job = None /\ at = 1 /\ started = <<>> /\ applied = 0
  /\ sounding = [c \in Channel |-> "idle"]
  /\ target   = [c \in Channel |-> 0]
  /\ current = [s \in Slot |-> TRUE]   \* the voice plays what it was last asked for
  /\ tuned   = [s \in Slot |-> FALSE]  \* the last volume stored in the slot was setVolume()'s
  /\ strayed = [c \in Channel |-> FALSE]  \* a volume meant for an earlier sound hit the channel

-----------------------------------------------------------------------------
(* The calls of the tasks.  A handle is used by one call at a time.        *)

Available(h) == \A t \in Task : h \notin using[t]

Usable(t, h) == pc[t] = "idle" /\ held[h] # None /\ Available(h)

Supersede(c, new) == \* c is not the last command any more of the voices that new names
  [c EXCEPT !.parts = [i \in DOMAIN c.parts |->
    [c.parts[i] EXCEPT !.last = @ /\ ~Names(new, c.parts[i].voice)]]]

\* enqueue(): a full queue drops the command.
Enqueue(c) ==
  IF Len(queue) < QueueDepth
  THEN /\ queue' = Append([i \in DOMAIN queue |-> Supersede(queue[i], c)], c)
       /\ job' = IF job = None THEN None ELSE Supersede(job, c)
       /\ current' = [s \in Slot |-> current[s] /\ ~Names(c, s)]
  ELSE UNCHANGED <<queue, job, current>>

Return(t) ==
  /\ pc' = [pc EXCEPT ![t] = "idle"]
  /\ using' = [using EXCEPT ![t] = {}]
  /\ command' = [command EXCEPT ![t] = None]
  /\ tuning' = [tuning EXCEPT ![t] = None]

\* acquireVoice() wins a free slot.  It may also miss one that is freed behind its back and
\* return an invalid voice, which changes nothing.
AcquireVoice(t, h, s) ==
  /\ pc[t] = "idle" /\ held[h] = None /\ Available(h)
  /\ ~inUse[s]
  /\ inUse'  = [inUse EXCEPT ![s] = TRUE]
  /\ volume' = [volume EXCEPT ![s] = 0]
  /\ held' = [held EXCEPT ![h] = [slot |-> s, generation |-> generation[s]]]
  /\ tuned' = [tuned EXCEPT ![s] = FALSE]
  /\ UNCHANGED <<releasePending, generation, channel, queue, callVars, workerVars, engineVars,
                 current, strayed>>

StoreVolume(s, vol) ==
  /\ volume' = [volume EXCEPT ![s] = vol]
  /\ tuned' = [tuned EXCEPT ![s] = FALSE]

\* AudioVoice::play() and playLinked() store the volumes, then queue one command.
Play(t, h, vol) ==
  /\ Usable(t, h)
  /\ StoreVolume(held[h].slot, vol)
  /\ using' = [using EXCEPT ![t] = {h}]
  /\ command' = [command EXCEPT ![t] = Command("Play", <<Part(h, vol)>>)]
  /\ pc' = [pc EXCEPT ![t] = "send"]
  /\ UNCHANGED <<inUse, releasePending, generation, channel, queue, held, tuning, workerVars,
                 engineVars, current, strayed>>

PlayLinked(t, h1, h2, vol1, vol2) ==
  /\ Usable(t, h1) /\ Usable(t, h2)
  /\ h1 # h2
  /\ StoreVolume(held[h1].slot, vol1)
  /\ using' = [using EXCEPT ![t] = {h1, h2}]
  /\ command' = [command EXCEPT ![t] =
       Command("Play", <<Part(h1, vol1), Part(h2, vol2)>>)]
  /\ pc' = [pc EXCEPT ![t] = "second"]
  /\ UNCHANGED <<inUse, releasePending, generation, channel, queue, held, tuning, workerVars,
                 engineVars, current, strayed>>

StoreSecondVolume(t) ==
  /\ pc[t] = "second"
  /\ StoreVolume(command[t].parts[2].voice, command[t].parts[2].volume)
  /\ pc' = [pc EXCEPT ![t] = "send"]
  /\ UNCHANGED <<inUse, releasePending, generation, channel, queue, held, using, command,
                 tuning, workerVars, engineVars, current, strayed>>

Send(t) ==
  /\ pc[t] = "send"
  /\ Enqueue(command[t])
  /\ Return(t)
  /\ UNCHANGED <<slotVars, held, wpc, at, started, applied, engineVars, tuned, strayed>>

Stop(t, h) ==
  /\ Usable(t, h)
  /\ Enqueue(Command("Stop", <<Part(h, 0)>>))
  /\ UNCHANGED <<slotVars, held, callVars, wpc, at, started, applied, engineVars, tuned, strayed>>

PlayOneShot(t) ==
  /\ pc[t] = "idle"
  /\ Enqueue(Command("OneShot", <<>>))
  /\ UNCHANGED <<slotVars, held, callVars, wpc, at, started, applied, engineVars, tuned, strayed>>

\* Fault: audio_ctrl is not woken up.
ReleaseQuietly(t, h) ==
  /\ Usable(t, h)
  /\ releasePending' = [releasePending EXCEPT ![held[h].slot] = TRUE]
  /\ held' = [held EXCEPT ![h] = None]
  /\ UNCHANGED <<inUse, generation, channel, volume, queue, callVars, workerVars, engineVars,
                 current, tuned, strayed>>

\* release(): the flag first, then a command that only wakes audio_ctrl up.
Release(t, h) ==
  /\ Usable(t, h)
  /\ releasePending' = [releasePending EXCEPT ![held[h].slot] = TRUE]
  /\ held' = [held EXCEPT ![h] = None]
  /\ using' = [using EXCEPT ![t] = {h}]
  /\ command' = [command EXCEPT ![t] = Command("Release", <<>>)]
  /\ pc' = [pc EXCEPT ![t] = "send"]
  /\ UNCHANGED <<inUse, generation, channel, volume, queue, tuning, workerVars, engineVars,
                 current, tuned, strayed>>

-----------------------------------------------------------------------------
(* setVoiceVolume(): store, load the channel, write its volume.            *)

SetVolume(t, h, vol) ==
  /\ Usable(t, h)
  /\ StoreVolume(held[h].slot, vol)
  /\ using' = [using EXCEPT ![t] = {h}]
  /\ tuning' = [tuning EXCEPT ![t] =
       [voice |-> held[h].slot, volume |-> vol, channel |-> None]]
  /\ pc' = [pc EXCEPT ![t] = "load"]
  /\ UNCHANGED <<inUse, releasePending, generation, channel, queue, held, command, workerVars,
                 engineVars, current, strayed>>

LoadChannel(t) ==
  /\ pc[t] = "load"
  /\ channel[tuning[t].voice] # None
  /\ tuning' = [tuning EXCEPT ![t].channel = channel[tuning[t].voice]]
  /\ pc' = [pc EXCEPT ![t] = "apply"]
  /\ UNCHANGED <<slotVars, queue, held, using, command, workerVars, engineVars, current, tuned,
                 strayed>>

LoadNoChannel(t) ==
  /\ pc[t] = "load"
  /\ channel[tuning[t].voice] = None
  /\ tuned' = [tuned EXCEPT ![tuning[t].voice] = TRUE]
  /\ Return(t)
  /\ UNCHANGED <<slotVars, queue, held, workerVars, engineVars, current, strayed>>

\* setChannelVolume(): the channel may have been stopped, and recycled, since it was loaded.
\* What it does to a channel that plays no loop is lost or is a one-shot's concern.
ApplyVolume(t) ==
  /\ pc[t] = "apply"
  /\ LET c == tuning[t].channel
         s == tuning[t].voice
     IN /\ IF sounding[c] = "loop"
           THEN /\ target' = [target EXCEPT ![c] = tuning[t].volume]
                /\ strayed' = [strayed EXCEPT ![c] = @ \/ channel[s] # c]
           ELSE UNCHANGED <<target, strayed>>
        /\ tuned' = [tuned EXCEPT ![s] = TRUE]
  /\ Return(t)
  /\ UNCHANGED <<slotVars, queue, held, workerVars, sounding, current>>

-----------------------------------------------------------------------------
(* The worker, audio_ctrl: receive, execute, sweep.                        *)

\* Fault: a command is taken for the current owner's whatever its generation.
NotReleased(part) == ~releasePending[part.voice]

OwnsSlot(part) ==
  /\ generation[part.voice] = part.generation
  /\ ~releasePending[part.voice]

Goto(point, i) == wpc' = point /\ at' = i

\* execute() returns, and the sweep follows.
Executed ==
  /\ Goto("sweep", 1)
  /\ job' = None /\ started' = <<>> /\ applied' = 0

Receive ==
  /\ wpc = "wait"
  /\ queue # <<>>
  /\ queue' = Tail(queue)
  /\ LET c == Head(queue)
     IN \/ /\ c.type = "Release"
           /\ Executed
        \/ /\ c.type # "Release"
           /\ Goto(IF c.type = "OneShot" THEN "once" ELSE "check", 1)
           /\ job' = c
           /\ UNCHANGED <<started, applied>>
  /\ UNCHANGED <<slotVars, held, callVars, engineVars, current, tuned, strayed>>

IdleChannels == {c \in Channel : sounding[c] = "idle"}

\* A one-shot takes an idle channel if there is one and its file opens.  Its volume is nobody's
\* concern.
PlayOnce ==
  /\ wpc = "once"
  /\ \/ \E c \in IdleChannels : sounding' = [sounding EXCEPT ![c] = "once"]
     \/ UNCHANGED sounding
  /\ Executed
  /\ UNCHANGED <<slotVars, queue, held, callVars, target, current, tuned, strayed>>

OwnsSlots == \A i \in DOMAIN job.parts : OwnsSlot(job.parts[i])

\* Fault: a play does not stop what the voice was playing.
CheckAndPlay ==
  /\ wpc = "check"
  /\ OwnsSlots
  /\ IF job.type = "Play" THEN Goto("play", 1) ELSE Goto("unbind", 1)
  /\ UNCHANGED <<slotVars, queue, held, callVars, job, started, applied, engineVars, current,
                 tuned, strayed>>

\* Fault: a stop is left to the sweep, like a release.
CheckPlay ==
  /\ wpc = "check"
  /\ OwnsSlots
  /\ IF job.type = "Play" THEN Goto("unbind", 1) /\ UNCHANGED <<job, started, applied>>
                          ELSE Executed
  /\ UNCHANGED <<slotVars, queue, held, callVars, engineVars, current, tuned, strayed>>

\* ownsSlot() for each voice of the command.
Check ==
  /\ wpc = "check"
  /\ OwnsSlots
  /\ Goto("unbind", 1)
  /\ UNCHANGED <<slotVars, queue, held, callVars, job, started, applied, engineVars, current,
                 tuned, strayed>>

\* A voice released before its turn has the whole command skipped.  History: the other voice of
\* a pair then plays what it is to play, unless a later command asks for more.
Skip ==
  /\ wpc = "check"
  /\ ~OwnsSlots
  /\ Executed
  /\ current' = [s \in Slot |->
       \/ current[s]
       \/ \E i, j \in DOMAIN job.parts :
            /\ job.parts[i].voice = s /\ job.parts[i].last
            /\ releasePending[job.parts[j].voice] \/ job.parts[j].age # 0]
  /\ UNCHANGED <<slotVars, queue, held, callVars, engineVars, tuned, strayed>>

\* The engine's stop(): a channel that fades out is not steered any more.
Fade(cs) ==
  /\ sounding' = [c \in Channel |-> IF c \in cs THEN "fading" ELSE sounding[c]]
  /\ target'   = [c \in Channel |-> IF c \in cs THEN 0 ELSE target[c]]
  /\ strayed'  = [c \in Channel |-> strayed[c] /\ c \notin cs]

Stoppable(s) == {c \in Channel : c = channel[s] /\ sounding[c] # "idle"}

\* stopVoiceChannel(): take the channel out of the slot and have the engine fade it out.
StopVoiceChannel(s) ==
  /\ channel' = [channel EXCEPT ![s] = None]
  /\ Fade(Stoppable(s))

Unbind ==
  /\ wpc = "unbind"
  /\ StopVoiceChannel(job.parts[at].voice)
  /\ IF job.type = "Stop" THEN Executed
     ELSE /\ IF at + 1 \in DOMAIN job.parts THEN Goto("unbind", at + 1) ELSE Goto("play", 1)
          /\ UNCHANGED <<job, started, applied>>
  /\ UNCHANGED <<inUse, releasePending, generation, volume, queue, held, callVars, current, tuned>>

\* The engine's play() or playLinked() gives the command a channel for each voice.
PlayVoices ==
  /\ wpc = "play"
  /\ \E cs \in [DOMAIN job.parts -> IdleChannels] :
       /\ \A i, j \in DOMAIN cs : i # j => cs[i] # cs[j]
       /\ started' = cs
       /\ sounding' = [c \in Channel |->
            IF \E i \in DOMAIN cs : cs[i] = c THEN "loop" ELSE sounding[c]]
       /\ target' = [c \in Channel |->
            IF \E i \in DOMAIN cs : cs[i] = c
            THEN job.parts[CHOOSE i \in DOMAIN cs : cs[i] = c].volume ELSE target[c]]
  /\ current' = [s \in Slot |->
       current[s] \/ \E i \in DOMAIN job.parts : job.parts[i].voice = s /\ job.parts[i].last]
  /\ Goto("bind", 1)
  /\ UNCHANGED <<slotVars, queue, held, callVars, job, applied, tuned, strayed>>

\* It fails for want of a channel, a file or a start request; what it prepared it has stopped.
PlayFailed ==
  /\ wpc = "play"
  /\ \E cs \in SUBSET IdleChannels :
       /\ Cardinality(cs) <= Len(job.parts)
       /\ Fade(cs)
  /\ Executed
  /\ UNCHANGED <<slotVars, queue, held, callVars, current, tuned>>

\* bindChannel() for each voice: publish the channel, then apply the volume of the slot until
\* it is still the same afterwards.
Bound == job.parts[at].voice

BindChannel ==
  /\ wpc = "bind"
  /\ channel' = [channel EXCEPT ![Bound] = started[at]]
  /\ Goto("read", at)
  /\ UNCHANGED <<inUse, releasePending, generation, volume, queue, held, callVars, job, started,
                 applied, engineVars, current, tuned, strayed>>

ReadVolume ==
  /\ wpc = "read"
  /\ applied' = volume[Bound]
  /\ Goto("set", at)
  /\ UNCHANGED <<slotVars, queue, held, callVars, job, started, engineVars, current, tuned, strayed>>

ApplyBound ==
  /\ wpc = "set"
  /\ target' = [target EXCEPT ![started[at]] = applied]
  /\ strayed' = [strayed EXCEPT ![started[at]] = FALSE]
  /\ Goto("recheck", at)
  /\ UNCHANGED <<slotVars, queue, held, callVars, job, started, applied, sounding, current,
                 tuned>>

BindAgain ==
  /\ wpc = "recheck"
  /\ volume[Bound] # applied
  /\ applied' = volume[Bound]
  /\ Goto("set", at)
  /\ UNCHANGED <<slotVars, queue, held, callVars, job, started, engineVars, current, tuned, strayed>>

\* Fault: the volume is not looked at again.
BindOnce ==
  /\ wpc = "recheck"
  /\ IF at + 1 \in DOMAIN job.parts
     THEN Goto("bind", at + 1) /\ UNCHANGED <<job, started, applied>>
     ELSE Executed
  /\ UNCHANGED <<slotVars, queue, held, callVars, engineVars, current, tuned, strayed>>

BindDone ==
  /\ wpc = "recheck"
  /\ volume[Bound] = applied
  /\ IF at + 1 \in DOMAIN job.parts
     THEN Goto("bind", at + 1) /\ UNCHANGED <<job, started, applied>>
     ELSE Executed
  /\ UNCHANGED <<slotVars, queue, held, callVars, engineVars, current, tuned, strayed>>

NextGeneration(g) == IF g = Generations - 1 THEN 0 ELSE g + 1

Aged(part, s) == IF part.voice = s THEN [part EXCEPT !.age = @ + 1] ELSE part

AgedQueue(s) ==
  [i \in DOMAIN queue |->
    [queue[i] EXCEPT !.parts = [j \in DOMAIN queue[i].parts |-> Aged(queue[i].parts[j], s)]]]

\* sweepReleasedVoices(): every released slot is stopped and handed back, one after the other.
Sweep ==
  /\ wpc = "sweep"
  /\ IF releasePending[at]
     THEN /\ StopVoiceChannel(at)
          /\ generation' = [generation EXCEPT ![at] = NextGeneration(@)]
          /\ releasePending' = [releasePending EXCEPT ![at] = FALSE]
          /\ inUse' = [inUse EXCEPT ![at] = FALSE]
          /\ queue' = AgedQueue(at)
          /\ current' = [current EXCEPT ![at] = TRUE]
          /\ tuned' = [tuned EXCEPT ![at] = FALSE]
     ELSE UNCHANGED <<inUse, releasePending, generation, channel, engineVars, queue, current,
                      tuned, strayed>>
  /\ IF at < MaxVoices THEN Goto("sweep", at + 1) ELSE Goto("wait", 1)
  /\ UNCHANGED <<volume, held, callVars, job, started, applied>>

-----------------------------------------------------------------------------
\* The engine frees a channel that has faded out, or whose one-shot is over.
SoundEnds(c) ==
  /\ sounding[c] \in {"fading", "once"}
  /\ sounding' = [sounding EXCEPT ![c] = "idle"]
  /\ UNCHANGED <<slotVars, queue, held, callVars, workerVars, target, current, tuned, strayed>>

Worker ==
  \/ Receive \/ PlayOnce \/ Check \/ Skip \/ Unbind \/ PlayVoices \/ PlayFailed
  \/ BindChannel \/ ReadVolume \/ ApplyBound \/ BindAgain \/ BindDone \/ Sweep

Continue(t) == \* the rest of a call in progress
  \/ StoreSecondVolume(t) \/ Send(t) \/ LoadChannel(t) \/ LoadNoChannel(t) \/ ApplyVolume(t)

Call(t) ==
  \E method \in MayCall[t], h \in Handle :
    \/ method = "acquireVoice" /\ \E s \in Slot : AcquireVoice(t, h, s)
    \/ method = "play" /\ \E vol \in StartVolume : Play(t, h, vol)
    \/ method = "playLinked" /\ \E h2 \in Handle, vol1, vol2 \in StartVolume :
                                 PlayLinked(t, h, h2, vol1, vol2)
    \/ method = "setVolume" /\ \E vol \in LaterVolume : SetVolume(t, h, vol)
    \/ method = "stop" /\ Stop(t, h)
    \/ method = "release" /\ Release(t, h)
    \/ method = "playOneShot" /\ PlayOneShot(t)

Next ==
  \/ Worker
  \/ \E t \in Task : Call(t) \/ Continue(t)
  \/ \E c \in Channel : SoundEnds(c)

Spec == Init /\ [][Next]_vars

-----------------------------------------------------------------------------
(* Properties.                                                             *)

PartType ==
  [voice : Slot, generation : Generation, volume : Volume, age : Nat, last : BOOLEAN]

Parts(n) == \* of a command for n voices, which differ
  {parts \in [1 .. n -> PartType] :
     \A i, j \in 1 .. n : i # j => parts[i].voice # parts[j].voice}

CommandType ==
  [type : {"Play"}, parts : Parts(1) \cup Parts(2)]
    \cup [type : {"Stop"}, parts : Parts(1)]
    \cup [type : {"OneShot", "Release"}, parts : Parts(0)]

TuningType == [voice : Slot, volume : Volume, channel : Channel \cup {None}]

ASSUME NoneAssumption == None \notin CommandType \cup TuningType

WorkerPoint == {"wait", "check", "once", "unbind", "play", "bind", "read", "set", "recheck",
                "sweep"}

\* Every variable keeps its type: the queue its depth, a generation its width.
TypeOK ==
  /\ inUse \in [Slot -> BOOLEAN] /\ releasePending \in [Slot -> BOOLEAN]
  /\ generation \in [Slot -> Generation]
  /\ channel \in [Slot -> Channel \cup {None}]
  /\ volume \in [Slot -> Volume]
  /\ queue \in Seq(CommandType) /\ Len(queue) <= QueueDepth
  /\ held \in [Handle -> [slot : Slot, generation : Generation] \cup {None}]
  /\ pc \in [Task -> {"idle", "second", "send", "load", "apply"}]
  /\ using \in [Task -> SUBSET Handle]
  /\ command \in [Task -> CommandType \cup {None}]
  /\ tuning \in [Task -> TuningType \cup {None}]
  /\ wpc \in WorkerPoint /\ job \in CommandType \cup {None} /\ at \in Nat /\ applied \in Volume
  /\ started \in Seq(Channel)
  /\ sounding \in [Channel -> {"idle", "loop", "once", "fading"}]
  /\ target \in [Channel -> Volume]
  /\ current \in [Slot -> BOOLEAN] /\ tuned \in [Slot -> BOOLEAN] /\ strayed \in [Channel -> BOOLEAN]

\* A command acts for the owner that gave it: once ownsSlot() has let it through, its slot has
\* not been swept since it was queued, although the slot may have changed hands while the
\* command waited and the generation may have wrapped around.
CommandReachesItsOwner ==
  wpc \in {"unbind", "play", "bind", "read", "set", "recheck"} =>
    \A i \in DOMAIN job.parts :
      job.parts[i].age = 0 /\ inUse[job.parts[i].voice]

\* The channel in a slot plays a loop for that slot alone, so that a stop or a volume of one
\* voice does not hit another; a slot nobody holds has none.
BoundIsOwn ==
  \A s \in Slot : channel[s] # None =>
    /\ inUse[s]
    /\ sounding[channel[s]] = "loop"
    /\ \A r \in Slot : channel[r] = channel[s] => r = s

\* A looping sound can be stopped: it is in a slot, its own, or audio_ctrl is about to put it
\* there.  A loop in nobody's hands would play for ever.
NoOrphanLoop ==
  /\ BoundIsOwn
  /\ \A c \in Channel : sounding[c] = "loop" =>
       \/ \E s \in Slot : channel[s] = c
       \/ /\ wpc \in {"bind", "read", "set", "recheck"}
          /\ \E i \in DOMAIN started : started[i] = c

\* A voice with no command of its own on the way plays what the last accepted one asked for, if
\* anything: nothing after a stop, and never the sound of an earlier play.
LastCommandObeyed ==
  \A s \in Slot :
    /\ channel[s] # None
    /\ ~releasePending[s]
    /\ ~\E i \in DOMAIN queue : Names(queue[i], s)
    /\ job # None => ~Names(job, s)
    => current[s]

\* Once setVolume() has returned, the channel of the voice has the volume of the slot, however
\* its accesses and those of bindChannel() interleave: the latest volume is not lost.  A channel
\* that was hit by a volume meant for the sound before is excepted.
LatestVolumeWins ==
  \A s \in Slot :
    /\ channel[s] # None
    /\ tuned[s]
    /\ ~strayed[channel[s]]
    /\ wpc \in {"read", "set", "recheck"} => Bound # s
    => target[channel[s]] = volume[s]

\* A released voice is swept: somebody is on the way to it who has not passed it yet, even if
\* the queue was full when it was released.  Otherwise it would play on in a slot nobody holds.
ReleaseIsSeen ==
  \A s \in Slot : releasePending[s] =>
    \/ \E t \in Task : pc[t] = "send" /\ command[t].type = "Release"
    \/ queue # <<>>
    \/ wpc # "wait" /\ (wpc = "sweep" => at <= s)
=============================================================================
