----------------------- MODULE AudioControllerProofs -----------------------
(***************************************************************************)
(* Proofs about the audio controller, for every set of tasks, handles and  *)
(* channels, every number of slots, every depth of the queue and every     *)
(* width of a generation that exceeds it.                                  *)
(*                                                                         *)
(* A handle is used by one call at a time and a held slot is not swept, so *)
(* what a call reads of its slot stays true until it queues its command.   *)
(* From then on the age of each part of the command is bounded by the      *)
(* sweeps that can pass before audio_ctrl reaches it: its place in the     *)
(* queue, and one more for the sweep under way.  That bound is what makes  *)
(* the comparison of generations in ownsSlot() an exact one, and the rest  *)
(* follows the channels and the volumes of the slots it lets through.      *)
(***************************************************************************)
EXTENDS AudioController, SequenceTheorems, TLAPS

-----------------------------------------------------------------------------
(* The inductive invariant.                                                *)

\* A voice in a handle is the handle's alone, and audio_ctrl leaves its slot alone.
HandleInv ==
  /\ \A h \in Handle : held[h] # None =>
       /\ inUse[held[h].slot] /\ ~releasePending[held[h].slot]
       /\ generation[held[h].slot] = held[h].generation
  /\ \A h1, h2 \in Handle :
       held[h1] # None /\ held[h2] # None /\ held[h1].slot = held[h2].slot => h1 = h2
  /\ \A s \in Slot : releasePending[s] => inUse[s]

\* A part of a command that is not queued yet is about a voice that the call still holds.
Fresh(t, part) ==
  /\ \E h \in using[t] : held[h] # None /\ held[h].slot = part.voice
                         /\ held[h].generation = part.generation
  /\ part.age = 0 /\ part.last

CallOf(t) ==
  /\ pc[t] = "idle" => using[t] = {} /\ command[t] = None /\ tuning[t] = None
  /\ pc[t] \in {"second", "send"} => command[t] # None /\ tuning[t] = None
  /\ pc[t] = "second" => command[t].type = "Play" /\ DOMAIN command[t].parts = 1 .. 2
  /\ pc[t] \in {"load", "apply"} => tuning[t] # None /\ command[t] = None
  /\ pc[t] = "apply" => tuning[t].channel # None
  /\ command[t] # None => \A p \in DOMAIN command[t].parts : Fresh(t, command[t].parts[p])
  /\ tuning[t] # None =>
       \E h \in using[t] : held[h] # None /\ held[h].slot = tuning[t].voice

CallInv ==
  /\ \A t, u \in Task : t # u => using[t] \cap using[u] = {}
  /\ \A t \in Task : CallOf(t)

Binding == {"bind", "read", "set", "recheck"}
Admitted == {"unbind", "play"} \cup Binding

\* Where audio_ctrl is in its command.
WorkerInv ==
  /\ wpc \in {"wait", "sweep"} <=> job = None
  /\ wpc = "once" => job.type = "OneShot"
  /\ wpc \in {"check"} \cup Admitted => job.type \in {"Play", "Stop"}
  /\ wpc \in {"play"} \cup Binding => job.type = "Play"
  /\ wpc \in {"unbind"} \cup Binding => at \in DOMAIN job.parts
  /\ wpc = "sweep" => at \in Slot
  /\ wpc \in Binding =>
       /\ DOMAIN started = DOMAIN job.parts
       /\ \A i, j \in DOMAIN started : i # j => started[i] # started[j]

\* The sweep that audio_ctrl is in or comes to next has not passed slot s yet.
SweepAhead(s) == wpc # "wait" /\ (wpc = "sweep" => at <= s)

\* A queued part is exactly as old as its slot's generation says, and not older than the sweeps
\* that its place in the queue allows for; if it has not aged its slot is still taken.
Consistent(part) ==
  /\ \/ generation[part.voice] = part.generation + part.age
     \/ generation[part.voice] = part.generation + part.age - Generations
  /\ part.age = 0 => inUse[part.voice]

InTime(part, i) ==
  /\ Consistent(part)
  /\ part.age + i <= QueueDepth + 1
  /\ SweepAhead(part.voice) => part.age + i <= QueueDepth

AgeInv ==
  /\ \A i \in DOMAIN queue : \A p \in DOMAIN queue[i].parts : InTime(queue[i].parts[p], i)
  /\ job # None => \A p \in DOMAIN job.parts :
       Consistent(job.parts[p]) /\ job.parts[p].age <= QueueDepth
  /\ CommandReachesItsOwner

\* Which slots of the command have their channels: none of those that are stopped already,
\* those of the sounds just started up to the one that is being bound.
Published(p) == p < at \/ (p = at /\ wpc # "bind")

BindingInv ==
  /\ NoOrphanLoop
  /\ wpc = "unbind" =>
       \A p \in DOMAIN job.parts : p < at => channel[job.parts[p].voice] = None
  /\ wpc = "play" => \A p \in DOMAIN job.parts : channel[job.parts[p].voice] = None
  /\ wpc \in Binding => \A p \in DOMAIN job.parts :
       /\ sounding[started[p]] = "loop"
       /\ Published(p) => channel[job.parts[p].voice] = started[p]
       /\ ~Published(p) => channel[job.parts[p].voice] = None
                           /\ \A s \in Slot : channel[s] # started[p]

\* The last command accepted for voice s waits in the queue, or is c.
IsLast(c, s) == \E p \in DOMAIN c.parts : c.parts[p].voice = s /\ c.parts[p].last
LastQueued(s) == \E i \in DOMAIN queue : IsLast(queue[i], s)

\* A part that is not the last for its voice is followed by the one that is; and a voice that
\* does not play what it was last asked for is silent, about to be swept, or has its last
\* command still to come.
LastInv ==
  /\ \A i \in DOMAIN queue : \A p \in DOMAIN queue[i].parts :
       ~queue[i].parts[p].last =>
         \E k \in DOMAIN queue : k > i /\ IsLast(queue[k], queue[i].parts[p].voice)
  /\ job # None => \A p \in DOMAIN job.parts :
       ~job.parts[p].last => LastQueued(job.parts[p].voice)
  /\ \A s \in Slot :
       \/ current[s] \/ releasePending[s] \/ LastQueued(s)
       \/ channel[s] = None /\ ~(wpc \in Binding /\ Names(job, s))
       \/ wpc \in {"check", "unbind", "play"} /\ IsLast(job, s)

\* Nobody on the way will write the volume of slot s to the channel that is in it now.
Settled(s) ==
  \/ tuned[s]
  \/ \E t \in Task : pc[t] = "apply" /\ tuning[t].voice = s /\ tuning[t].channel # channel[s]

\* The worker has yet to write, or to look again at, the volume of slot s.
BeingBound(s) ==
  \/ wpc \in {"read", "set"} /\ Bound = s
  \/ wpc = "recheck" /\ Bound = s /\ target[channel[s]] = applied

Steady(s) ==
  channel[s] # None /\ ~strayed[channel[s]] /\ Settled(s) =>
    target[channel[s]] = volume[s] \/ BeingBound(s)

\* A call that sets a volume has stored it.
VolumeNoted(t) == tuning[t] # None => tuning[t].volume = volume[tuning[t].voice]

VolumeInv == (\A t \in Task : VolumeNoted(t)) /\ (\A s \in Slot : Steady(s))

ControllerInv ==
  /\ TypeOK /\ HandleInv /\ CallInv /\ WorkerInv /\ AgeInv /\ ReleaseIsSeen
  /\ BindingInv /\ LastInv /\ VolumeInv

-----------------------------------------------------------------------------
(* Commands and their parts.                                               *)

Fits(type, n) ==
  \/ type = "Play" /\ n \in {1, 2}
  \/ type = "Stop" /\ n = 1
  \/ type \in {"OneShot", "Release"} /\ n = 0

\* Commands as they are made are commands,
LEMMA CommandMade ==
  ASSUME NEW type, NEW n, Fits(type, n), NEW parts \in Parts(n)
  PROVE  Command(type, parts) \in CommandType
<1>1. CASE type = "Play" /\ n \in {1, 2}
  BY <1>1 DEF Command, CommandType
<1>2. CASE type = "Stop" /\ n = 1
  BY <1>2 DEF Command, CommandType
<1>3. CASE type \in {"OneShot", "Release"} /\ n = 0
  BY <1>3 DEF Command, CommandType
<1> QED BY <1>1, <1>2, <1>3 DEF Fits

\* a command is made of its type and its parts,
LEMMA CommandShape ==
  ASSUME NEW c \in CommandType
  PROVE  /\ c = Command(c.type, c.parts)
         /\ \E n \in {0, 1, 2} : Fits(c.type, n) /\ c.parts \in Parts(n)
<1>1. CASE c \in [type : {"Play"}, parts : Parts(1) \cup Parts(2)]
  BY <1>1 DEF Fits, Command
<1>2. CASE c \in [type : {"Stop"}, parts : Parts(1)]
  BY <1>2 DEF Fits, Command
<1>3. CASE c \in [type : {"OneShot", "Release"}, parts : Parts(0)]
  BY <1>3 DEF Fits, Command
<1> QED BY <1>1, <1>2, <1>3 DEF CommandType

\* and its parts are of different voices, as many as its type takes.
LEMMA CommandFacts ==
  ASSUME NEW c \in CommandType
  PROVE  /\ c.type \in {"Play", "Stop", "OneShot", "Release"}
         /\ c.type = "Play" => DOMAIN c.parts \in {1 .. 1, 1 .. 2}
         /\ c.type = "Stop" => DOMAIN c.parts = 1 .. 1
         /\ c.type \in {"OneShot", "Release"} => DOMAIN c.parts = {}
         /\ \A p \in DOMAIN c.parts : p \in Nat /\ c.parts[p] \in PartType
         /\ \A p, q \in DOMAIN c.parts : p # q => c.parts[p].voice # c.parts[q].voice
<1>1. PICK n \in {0, 1, 2} : Fits(c.type, n) /\ c.parts \in Parts(n)
  BY CommandShape
<1>2. /\ c.parts \in [1 .. n -> PartType]
      /\ \A p, q \in 1 .. n : p # q => c.parts[p].voice # c.parts[q].voice
  BY <1>1 DEF Parts
<1>3. DOMAIN c.parts = 1 .. n
  BY <1>2
<1> QED BY <1>1, <1>2, <1>3 DEF Fits

\* The empty sequence is one of anything.
LEMMA EmptyTyped == \A S : <<>> \in Seq(S) /\ Len(<<>>) = 0
OBVIOUS

\* A command whose parts change only in their history is a command still.
LEMMA SamePartsType ==
  ASSUME NEW c \in CommandType, NEW parts \in [DOMAIN c.parts -> PartType],
         \A p \in DOMAIN c.parts : parts[p].voice = c.parts[p].voice
  PROVE  [c EXCEPT !.parts = parts] \in CommandType
<1>1. PICK n \in {0, 1, 2} : Fits(c.type, n) /\ c.parts \in Parts(n)
  BY CommandShape
<1>2. /\ DOMAIN c.parts = 1 .. n
      /\ \A p, q \in 1 .. n : p # q => c.parts[p].voice # c.parts[q].voice
  BY <1>1 DEF Parts
<1>3. parts \in Parts(n)
  BY <1>2 DEF Parts
<1>4. [c EXCEPT !.parts = parts] = Command(c.type, parts)
  BY CommandShape DEF Command
<1> QED BY <1>1, <1>3, <1>4, CommandMade

\* A newer command takes away that an older one is the last, and nothing else.
LEMMA SupersedeFacts ==
  ASSUME NEW c \in CommandType, NEW new
  PROVE  /\ Supersede(c, new) \in CommandType
         /\ Supersede(c, new).type = c.type
         /\ DOMAIN Supersede(c, new).parts = DOMAIN c.parts
         /\ \A p \in DOMAIN c.parts :
              LET old == c.parts[p]
                  now == Supersede(c, new).parts[p]
              IN /\ now.voice = old.voice /\ now.generation = old.generation
                 /\ now.volume = old.volume /\ now.age = old.age
                 /\ now.last <=> old.last /\ ~Names(new, old.voice)
<1> DEFINE f(p) == [c.parts[p] EXCEPT !.last = @ /\ ~Names(new, c.parts[p].voice)]
<1>1. \A p \in DOMAIN c.parts : c.parts[p] \in PartType
  BY CommandFacts
<1>2. \A p \in DOMAIN c.parts :
        /\ f(p) \in PartType /\ f(p).voice = c.parts[p].voice
        /\ f(p).generation = c.parts[p].generation
        /\ f(p).volume = c.parts[p].volume /\ f(p).age = c.parts[p].age
        /\ f(p).last <=> c.parts[p].last /\ ~Names(new, c.parts[p].voice)
  BY <1>1 DEF PartType
<1>3. Supersede(c, new) = [c EXCEPT !.parts = [p \in DOMAIN c.parts |-> f(p)]]
  BY DEF Supersede
<1> DEFINE parts == [p \in DOMAIN c.parts |-> f(p)]
<1>4. Supersede(c, new) \in CommandType
  <2>1. parts \in [DOMAIN c.parts -> PartType]
    BY <1>2
  <2>2. \A p \in DOMAIN c.parts : parts[p].voice = c.parts[p].voice
    BY <1>2
  <2>3. Supersede(c, new) = [c EXCEPT !.parts = parts]
    BY <1>3
  <2> HIDE DEF parts
  <2> QED BY <2>1, <2>2, <2>3, SamePartsType
<1> HIDE DEF f
<1>5. c = [type |-> c.type, parts |-> c.parts]
  BY CommandShape DEF Command
<1>6. /\ Supersede(c, new).type = c.type
      /\ Supersede(c, new).parts = [p \in DOMAIN c.parts |-> f(p)]
  BY <1>3, <1>5
<1> QED BY <1>2, <1>4, <1>6

\* A command in the queue after slot s was swept.
AgedCommand(c, s) == [c EXCEPT !.parts = [p \in DOMAIN c.parts |-> Aged(c.parts[p], s)]]

\* A sweep makes the parts of the slot older, and changes nothing else,
LEMMA AgedFacts ==
  ASSUME NEW c \in CommandType, NEW s \in Slot
  PROVE  /\ AgedCommand(c, s) \in CommandType /\ AgedCommand(c, s).type = c.type
         /\ DOMAIN AgedCommand(c, s).parts = DOMAIN c.parts
         /\ \A p \in DOMAIN c.parts :
              LET old == c.parts[p]
                  now == AgedCommand(c, s).parts[p]
              IN /\ now.voice = old.voice /\ now.generation = old.generation
                 /\ now.volume = old.volume /\ now.last = old.last
                 /\ now.age = IF old.voice = s THEN old.age + 1 ELSE old.age
<1> DEFINE parts == [p \in DOMAIN c.parts |-> Aged(c.parts[p], s)]
<1>1. \A p \in DOMAIN c.parts : c.parts[p] \in PartType
  BY CommandFacts
<1>2. \A p \in DOMAIN c.parts :
        /\ Aged(c.parts[p], s) \in PartType
        /\ Aged(c.parts[p], s).voice = c.parts[p].voice
        /\ Aged(c.parts[p], s).generation = c.parts[p].generation
        /\ Aged(c.parts[p], s).volume = c.parts[p].volume
        /\ Aged(c.parts[p], s).last = c.parts[p].last
        /\ Aged(c.parts[p], s).age
             = IF c.parts[p].voice = s THEN c.parts[p].age + 1 ELSE c.parts[p].age
  BY <1>1 DEF PartType, Aged
<1>3. /\ parts \in [DOMAIN c.parts -> PartType]
      /\ \A p \in DOMAIN c.parts : parts[p].voice = c.parts[p].voice
  BY <1>2
<1>4. AgedCommand(c, s) = [c EXCEPT !.parts = parts]
  BY DEF AgedCommand
<1>5. c = [type |-> c.type, parts |-> c.parts]
  BY CommandShape DEF Command
<1>6. AgedCommand(c, s).type = c.type /\ AgedCommand(c, s).parts = parts
  BY <1>4, <1>5
<1>7. AgedCommand(c, s) \in CommandType
  <2> HIDE DEF parts
  <2> QED BY <1>3, <1>4, SamePartsType
<1> QED BY <1>2, <1>6, <1>7

\* in all of the queue.
LEMMA AgedQueueFacts ==
  ASSUME queue \in Seq(CommandType), NEW s \in Slot
  PROVE  /\ AgedQueue(s) \in Seq(CommandType) /\ Len(AgedQueue(s)) = Len(queue)
         /\ \A i \in DOMAIN queue :
              /\ DOMAIN AgedQueue(s)[i].parts = DOMAIN queue[i].parts
              /\ \A p \in DOMAIN queue[i].parts :
                   LET old == queue[i].parts[p]
                       now == AgedQueue(s)[i].parts[p]
                   IN /\ now.voice = old.voice /\ now.generation = old.generation
                      /\ now.last = old.last
                      /\ now.age = IF old.voice = s THEN old.age + 1 ELSE old.age
<1>1. \A i \in DOMAIN queue : queue[i] \in CommandType
  OBVIOUS
<1>2. AgedQueue(s) = [i \in DOMAIN queue |-> AgedCommand(queue[i], s)]
  BY DEF AgedQueue, AgedCommand
<1>3. DOMAIN queue = 1 .. Len(queue) /\ Len(queue) \in Nat
  OBVIOUS
<1>4. AgedQueue(s) \in Seq(CommandType) /\ Len(AgedQueue(s)) = Len(queue)
  BY <1>1, <1>2, <1>3, AgedFacts
<1> QED BY <1>1, <1>2, <1>4, AgedFacts

\* What a command does to the queue, if there is room for it.
Accepted(c) ==
  /\ Len(queue) < QueueDepth
  /\ Len(queue') = Len(queue) + 1
  /\ queue'[Len(queue) + 1] = c
  /\ \A i \in DOMAIN queue : queue'[i] = Supersede(queue[i], c)
  /\ job' = IF job = None THEN None ELSE Supersede(job, c)
  /\ current' = [s \in Slot |-> current[s] /\ ~Names(c, s)]

\* A command is accepted at the end of the queue, or the queue is full and nothing happens.
LEMMA EnqueueFacts ==
  ASSUME TypeOK, NEW c \in CommandType, Enqueue(c)
  PROVE  /\ queue' \in Seq(CommandType) /\ Len(queue') <= QueueDepth
         /\ job' \in CommandType \cup {None} /\ (job' = None <=> job = None)
         /\ current' \in [Slot -> BOOLEAN]
         /\ UNCHANGED <<queue, job, current>> \/ Accepted(c)
<1>1. /\ queue \in Seq(CommandType) /\ Len(queue) <= QueueDepth
      /\ job \in CommandType \cup {None} /\ current \in [Slot -> BOOLEAN]
  BY DEF TypeOK
<1>2. CASE Len(queue) < QueueDepth
  <2> DEFINE older == [i \in DOMAIN queue |-> Supersede(queue[i], c)]
  <2>1. older \in Seq(CommandType) /\ Len(older) = Len(queue)
    <3>1. DOMAIN queue = 1 .. Len(queue) /\ Len(queue) \in Nat
      BY <1>1
    <3>2. \A i \in 1 .. Len(queue) : older[i] \in CommandType
      BY <1>1, <3>1, SupersedeFacts
    <3>3. older = [i \in 1 .. Len(queue) |-> older[i]]
      BY <3>1
    <3> HIDE DEF older
    <3> QED BY <3>1, <3>2, <3>3
  <2>2. /\ queue' = Append(older, c)
        /\ job' = IF job = None THEN None ELSE Supersede(job, c)
        /\ current' = [s \in Slot |-> current[s] /\ ~Names(c, s)]
    BY <1>2 DEF Enqueue
  <2>3. \A i \in DOMAIN queue : older[i] = Supersede(queue[i], c)
    OBVIOUS
  <2>4. Accepted(c)
    <3> HIDE DEF older
    <3>1. Len(queue') = Len(queue) + 1 /\ queue'[Len(queue) + 1] = c
      BY <2>1, <2>2
    <3>2. \A i \in DOMAIN queue : queue'[i] = older[i]
      BY <1>1, <2>1, <2>2
    <3> QED BY <1>2, <2>2, <2>3, <3>1, <3>2 DEF Accepted
  <2>5. queue' \in Seq(CommandType) /\ Len(queue') <= QueueDepth
    <3> HIDE DEF older
    <3> QED BY <1>1, <1>2, <2>1, <2>2, ControllerAssumption
  <2>6. job' \in CommandType \cup {None} /\ (job' = None <=> job = None)
    BY <1>1, <2>2, SupersedeFacts, NoneAssumption
  <2>7. current' \in [Slot -> BOOLEAN]
    BY <2>2
  <2> QED BY <2>4, <2>5, <2>6, <2>7
<1>3. CASE ~(Len(queue) < QueueDepth)
  BY <1>1, <1>3 DEF Enqueue
<1> QED BY <1>2, <1>3

-----------------------------------------------------------------------------
(* Types.                                                                  *)

SlotsTyped ==
  /\ inUse \in [Slot -> BOOLEAN] /\ releasePending \in [Slot -> BOOLEAN]
  /\ generation \in [Slot -> Generation]
  /\ channel \in [Slot -> Channel \cup {None}]
  /\ volume \in [Slot -> Volume]
  /\ tuned \in [Slot -> BOOLEAN]

QueueTyped ==
  /\ queue \in Seq(CommandType) /\ Len(queue) <= QueueDepth
  /\ job \in CommandType \cup {None}
  /\ current \in [Slot -> BOOLEAN]

CallsTyped ==
  /\ held \in [Handle -> [slot : Slot, generation : Generation] \cup {None}]
  /\ pc \in [Task -> {"idle", "second", "send", "load", "apply"}]
  /\ using \in [Task -> SUBSET Handle]
  /\ command \in [Task -> CommandType \cup {None}]
  /\ tuning \in [Task -> TuningType \cup {None}]

WorkerTyped ==
  /\ wpc \in WorkerPoint /\ at \in Nat /\ applied \in Volume
  /\ started \in Seq(Channel)

EngineTyped ==
  /\ sounding \in [Channel -> {"idle", "loop", "once", "fading"}]
  /\ target \in [Channel -> Volume]
  /\ strayed \in [Channel -> BOOLEAN]

\* TypeOK, grouped by what the steps change together.
LEMMA TypeParts ==
  TypeOK <=> SlotsTyped /\ QueueTyped /\ CallsTyped /\ WorkerTyped /\ EngineTyped
BY DEF TypeOK, SlotsTyped, QueueTyped, CallsTyped, WorkerTyped, EngineTyped

\* What a call puts into a command names its own handle.
LEMMA PartMade ==
  ASSUME TypeOK, NEW h \in Handle, held[h] # None, NEW vol \in Volume
  PROVE  Part(h, vol) \in PartType /\ Part(h, vol).voice = held[h].slot
         /\ Part(h, vol).generation = held[h].generation /\ Part(h, vol).volume = vol
         /\ Part(h, vol).age = 0 /\ Part(h, vol).last = TRUE
<1>1. held[h] \in [slot : Slot, generation : Generation]
  BY DEF TypeOK
<1> QED BY <1>1 DEF Part, PartType

\* One part, or two of different voices, or none, make the parts of a command.
LEMMA OnePart ==
  ASSUME NEW part \in PartType
  PROVE  <<part>> \in Parts(1) /\ DOMAIN <<part>> = 1 .. 1 /\ <<part>>[1] = part
BY DEF Parts

\* Handles of one pair name different slots, so their parts are of different voices.
LEMMA TwoParts ==
  ASSUME NEW a \in PartType, NEW b \in PartType, a.voice # b.voice
  PROVE  <<a, b>> \in Parts(2) /\ DOMAIN <<a, b>> = 1 .. 2
         /\ <<a, b>>[1] = a /\ <<a, b>>[2] = b
BY DEF Parts

\* One-shots and releases name no voice.
LEMMA NoParts == <<>> \in Parts(0) /\ DOMAIN <<>> = {}
BY DEF Parts

\* So the calls make commands: play() and stop(),
LEMMA MadePlay ==
  ASSUME TypeOK, HandleInv, NEW h \in Handle, held[h] # None, NEW vol \in Volume
  PROVE  /\ Command("Play", <<Part(h, vol)>>) \in CommandType
         /\ Command("Stop", <<Part(h, vol)>>) \in CommandType
BY PartMade, OnePart, CommandMade DEF Fits

\* playLinked(),
LEMMA MadePlayLinked ==
  ASSUME TypeOK, HandleInv, NEW h1 \in Handle, NEW h2 \in Handle, h1 # h2,
         held[h1] # None, held[h2] # None, NEW vol1 \in Volume, NEW vol2 \in Volume
  PROVE  Command("Play", <<Part(h1, vol1), Part(h2, vol2)>>) \in CommandType
<1>1. Part(h1, vol1).voice # Part(h2, vol2).voice
  <2>1. Part(h1, vol1).voice = held[h1].slot /\ Part(h2, vol2).voice = held[h2].slot
    BY PartMade
  <2> QED BY <2>1 DEF HandleInv
<1>2. <<Part(h1, vol1), Part(h2, vol2)>> \in Parts(2)
  BY <1>1, PartMade, TwoParts
<1> QED BY <1>2, CommandMade DEF Fits

\* playOneShot() and release().
LEMMA MadeEmpty ==
  /\ Command("OneShot", <<>>) \in CommandType
  /\ Command("Release", <<>>) \in CommandType
BY NoParts, CommandMade DEF Fits

Calling(t) == \* a call begins
  \/ \E h \in Handle : \/ \E s \in Slot : AcquireVoice(t, h, s)
                       \/ \E vol \in StartVolume : Play(t, h, vol)
                       \/ \E h2 \in Handle, vol1, vol2 \in StartVolume :
                            PlayLinked(t, h, h2, vol1, vol2)
                       \/ \E vol \in LaterVolume : SetVolume(t, h, vol)
                       \/ Stop(t, h)
                       \/ Release(t, h)
  \/ PlayOneShot(t)

\* A call is one of those Calling lists.
LEMMA CallsBegin == ASSUME NEW t \in Task, Call(t) PROVE Calling(t)
BY DEF Call, Calling

\* The types hold after each step.
LEMMA TypeStep ==
  ASSUME TypeOK, HandleInv, CallInv, WorkerInv, [Next]_vars
  PROVE  TypeOK'
<1> USE DEF slotVars, callVars, workerVars, engineVars
<1>0. SlotsTyped /\ QueueTyped /\ CallsTyped /\ WorkerTyped /\ EngineTyped
  BY TypeParts
<1>1. SUFFICES (SlotsTyped /\ QueueTyped /\ CallsTyped /\ WorkerTyped /\ EngineTyped)'
  BY TypeParts, PTL
<1>2. ASSUME NEW t \in Task, NEW h \in Handle, NEW s \in Slot, AcquireVoice(t, h, s)
      PROVE  (SlotsTyped /\ QueueTyped /\ CallsTyped /\ WorkerTyped /\ EngineTyped)'
  <2>1. SlotsTyped'
    BY <1>0, <1>2 DEF AcquireVoice, SlotsTyped, Volume
  <2>2. CallsTyped'
    BY <1>0, <1>2 DEF AcquireVoice, SlotsTyped, CallsTyped
  <2>3. QueueTyped' /\ WorkerTyped' /\ EngineTyped'
    BY <1>0, <1>2 DEF AcquireVoice, QueueTyped, WorkerTyped, EngineTyped
  <2> QED BY <2>1, <2>2, <2>3
<1>3. ASSUME NEW t \in Task, NEW h \in Handle, NEW vol \in StartVolume, Play(t, h, vol)
      PROVE  (SlotsTyped /\ QueueTyped /\ CallsTyped /\ WorkerTyped /\ EngineTyped)'
  <2>1. held[h] # None /\ held[h].slot \in Slot /\ vol \in Volume
    BY <1>0, <1>3 DEF Play, Usable, CallsTyped, Volume
  <2>2. Command("Play", <<Part(h, vol)>>) \in CommandType
    BY <2>1, MadePlay
  <2>3. SlotsTyped'
    BY <1>0, <1>3, <2>1 DEF Play, StoreVolume, SlotsTyped
  <2>4. CallsTyped'
    BY <1>0, <1>3, <2>2 DEF Play, CallsTyped
  <2>5. QueueTyped' /\ WorkerTyped' /\ EngineTyped'
    BY <1>0, <1>3 DEF Play, QueueTyped, WorkerTyped, EngineTyped
  <2> QED BY <2>3, <2>4, <2>5
<1>4. ASSUME NEW t \in Task, NEW h1 \in Handle, NEW h2 \in Handle,
             NEW vol1 \in StartVolume, NEW vol2 \in StartVolume,
             PlayLinked(t, h1, h2, vol1, vol2)
      PROVE  (SlotsTyped /\ QueueTyped /\ CallsTyped /\ WorkerTyped /\ EngineTyped)'
  <2>1. /\ held[h1] # None /\ held[h2] # None /\ h1 # h2
        /\ held[h1].slot \in Slot /\ vol1 \in Volume /\ vol2 \in Volume
    BY <1>0, <1>4 DEF PlayLinked, Usable, CallsTyped, Volume
  <2>2. Command("Play", <<Part(h1, vol1), Part(h2, vol2)>>) \in CommandType
    BY <2>1, MadePlayLinked
  <2>3. SlotsTyped'
    BY <1>0, <1>4, <2>1 DEF PlayLinked, StoreVolume, SlotsTyped
  <2>4. CallsTyped'
    BY <1>0, <1>4, <2>2 DEF PlayLinked, CallsTyped
  <2>5. QueueTyped' /\ WorkerTyped' /\ EngineTyped'
    BY <1>0, <1>4 DEF PlayLinked, QueueTyped, WorkerTyped, EngineTyped
  <2> QED BY <2>3, <2>4, <2>5
<1>5. ASSUME NEW t \in Task, NEW h \in Handle, NEW vol \in LaterVolume, SetVolume(t, h, vol)
      PROVE  (SlotsTyped /\ QueueTyped /\ CallsTyped /\ WorkerTyped /\ EngineTyped)'
  <2>1. held[h] # None /\ held[h].slot \in Slot /\ vol \in Volume
    BY <1>0, <1>5 DEF SetVolume, Usable, CallsTyped, Volume
  <2>2. [voice |-> held[h].slot, volume |-> vol, channel |-> None] \in TuningType
    BY <2>1 DEF TuningType
  <2>3. SlotsTyped'
    BY <1>0, <1>5, <2>1 DEF SetVolume, StoreVolume, SlotsTyped
  <2>4. CallsTyped'
    BY <1>0, <1>5, <2>2 DEF SetVolume, CallsTyped
  <2>5. QueueTyped' /\ WorkerTyped' /\ EngineTyped'
    BY <1>0, <1>5 DEF SetVolume, QueueTyped, WorkerTyped, EngineTyped
  <2> QED BY <2>3, <2>4, <2>5
<1>6. ASSUME NEW t \in Task, NEW h \in Handle, Release(t, h)
      PROVE  (SlotsTyped /\ QueueTyped /\ CallsTyped /\ WorkerTyped /\ EngineTyped)'
  <2>1. SlotsTyped'
    BY <1>0, <1>6 DEF Release, SlotsTyped
  <2>2. CallsTyped'
    BY <1>0, <1>6, MadeEmpty DEF Release, CallsTyped
  <2>3. QueueTyped' /\ WorkerTyped' /\ EngineTyped'
    BY <1>0, <1>6 DEF Release, QueueTyped, WorkerTyped, EngineTyped
  <2> QED BY <2>1, <2>2, <2>3
<1>7. ASSUME NEW t \in Task, (\E h \in Handle : Stop(t, h)) \/ PlayOneShot(t)
      PROVE  (SlotsTyped /\ QueueTyped /\ CallsTyped /\ WorkerTyped /\ EngineTyped)'
  <2>1. PICK c \in CommandType : Enqueue(c)
    <3>1. CASE \E h \in Handle : Stop(t, h)
      <4>1. PICK h \in Handle : Stop(t, h)
        BY <3>1
      <4>2. held[h] # None /\ 0 \in Volume
        BY <4>1 DEF Stop, Usable, Volume
      <4> QED BY <4>1, <4>2, MadePlay DEF Stop
    <3>2. CASE PlayOneShot(t)
      BY <3>2, MadeEmpty DEF PlayOneShot
    <3> QED BY <1>7, <3>1, <3>2
  <2>2. QueueTyped'
    BY <2>1, EnqueueFacts DEF QueueTyped
  <2>3. SlotsTyped' /\ CallsTyped' /\ WorkerTyped' /\ EngineTyped'
    BY <1>0, <1>7 DEF Stop, PlayOneShot, SlotsTyped, CallsTyped, WorkerTyped, EngineTyped
  <2> QED BY <2>2, <2>3
<1>8. ASSUME NEW t \in Task, Send(t)
      PROVE  (SlotsTyped /\ QueueTyped /\ CallsTyped /\ WorkerTyped /\ EngineTyped)'
  <2>1. command[t] \in CommandType
    BY <1>0, <1>8 DEF Send, CallInv, CallOf, CallsTyped
  <2>2. QueueTyped'
    BY <1>8, <2>1, EnqueueFacts DEF Send, QueueTyped
  <2>3. CallsTyped'
    BY <1>0, <1>8 DEF Send, Return, CallsTyped
  <2>4. SlotsTyped' /\ WorkerTyped' /\ EngineTyped'
    BY <1>0, <1>8 DEF Send, SlotsTyped, WorkerTyped, EngineTyped
  <2> QED BY <2>2, <2>3, <2>4
<1>9. ASSUME NEW t \in Task, StoreSecondVolume(t)
      PROVE  (SlotsTyped /\ QueueTyped /\ CallsTyped /\ WorkerTyped /\ EngineTyped)'
  <2>1. command[t] \in CommandType /\ 2 \in DOMAIN command[t].parts
    BY <1>0, <1>9 DEF StoreSecondVolume, CallInv, CallOf, CallsTyped
  <2>2. command[t].parts[2].voice \in Slot /\ command[t].parts[2].volume \in Volume
    BY <2>1, CommandFacts DEF PartType
  <2>3. SlotsTyped'
    BY <1>0, <1>9, <2>2 DEF StoreSecondVolume, StoreVolume, SlotsTyped
  <2>4. CallsTyped'
    BY <1>0, <1>9 DEF StoreSecondVolume, CallsTyped
  <2>5. QueueTyped' /\ WorkerTyped' /\ EngineTyped'
    BY <1>0, <1>9 DEF StoreSecondVolume, QueueTyped, WorkerTyped, EngineTyped
  <2> QED BY <2>3, <2>4, <2>5
<1>10. ASSUME NEW t \in Task, LoadChannel(t) \/ LoadNoChannel(t) \/ ApplyVolume(t)
       PROVE  (SlotsTyped /\ QueueTyped /\ CallsTyped /\ WorkerTyped /\ EngineTyped)'
  <2>1. tuning[t] \in TuningType
    BY <1>0, <1>10 DEF LoadChannel, LoadNoChannel, ApplyVolume, CallInv, CallOf, CallsTyped
  <2>2. /\ tuning[t].voice \in Slot /\ tuning[t].volume \in Volume
        /\ tuning[t].channel \in Channel \cup {None}
    BY <2>1 DEF TuningType
  <2>3. SlotsTyped'
    BY <1>0, <1>10, <2>2 DEF LoadChannel, LoadNoChannel, ApplyVolume, SlotsTyped
  <2>4. CallsTyped'
    <3>1. CASE LoadChannel(t)
      <4>1. [tuning[t] EXCEPT !.channel = channel[tuning[t].voice]] \in TuningType
        BY <1>0, <2>1, <2>2 DEF TuningType, SlotsTyped
      <4>2. tuning' = [tuning EXCEPT ![t] = [tuning[t] EXCEPT
                                               !.channel = channel[tuning[t].voice]]]
        BY <1>0, <3>1 DEF LoadChannel, CallsTyped
      <4> QED BY <1>0, <3>1, <4>1, <4>2 DEF LoadChannel, CallsTyped
    <3>2. CASE LoadNoChannel(t) \/ ApplyVolume(t)
      BY <1>0, <3>2 DEF LoadNoChannel, ApplyVolume, Return, CallsTyped
    <3> QED BY <1>10, <3>1, <3>2
  <2>5. EngineTyped'
    <3>1. CASE ApplyVolume(t)
      BY <1>0, <2>2, <3>1 DEF ApplyVolume, EngineTyped
    <3>2. CASE LoadChannel(t) \/ LoadNoChannel(t)
      BY <1>0, <3>2 DEF LoadChannel, LoadNoChannel, EngineTyped
    <3> QED BY <1>10, <3>1, <3>2
  <2>6. QueueTyped' /\ WorkerTyped'
    BY <1>0, <1>10 DEF LoadChannel, LoadNoChannel, ApplyVolume, QueueTyped, WorkerTyped
  <2> QED BY <2>3, <2>4, <2>5, <2>6
<1>e. Executed => WorkerTyped'
  BY EmptyTyped DEF Executed, Goto, WorkerTyped, WorkerPoint, Volume
<1>11. CASE Receive
  <2>1. /\ Head(queue) \in CommandType /\ Tail(queue) \in Seq(CommandType)
        /\ Len(Tail(queue)) <= QueueDepth
    BY <1>0, <1>11, ControllerAssumption DEF Receive, QueueTyped
  <2>2. QueueTyped'
    BY <1>0, <1>11, <2>1 DEF Receive, Executed, QueueTyped
  <2>3. WorkerTyped'
    BY <1>0, <1>11, <1>e DEF Receive, Goto, WorkerTyped, WorkerPoint
  <2>4. SlotsTyped' /\ CallsTyped' /\ EngineTyped'
    BY <1>0, <1>11 DEF Receive, SlotsTyped, CallsTyped, EngineTyped
  <2> QED BY <2>2, <2>3, <2>4
<1>12. CASE PlayOnce \/ Skip \/ PlayFailed
  <2>1. QueueTyped'
    BY <1>0, <1>12 DEF PlayOnce, Skip, PlayFailed, Executed, QueueTyped
  <2>2. WorkerTyped'
    BY <1>12, <1>e DEF PlayOnce, Skip, PlayFailed
  <2>3. EngineTyped'
    BY <1>0, <1>12 DEF PlayOnce, Skip, PlayFailed, Fade, EngineTyped, Volume
  <2>4. SlotsTyped' /\ CallsTyped'
    BY <1>0, <1>12 DEF PlayOnce, Skip, PlayFailed, SlotsTyped, CallsTyped
  <2> QED BY <2>1, <2>2, <2>3, <2>4
<1>13. job # None => job \in CommandType
  BY <1>0 DEF QueueTyped
<1>14. wpc \in {"unbind"} \cup Binding => at \in DOMAIN job.parts /\ Bound \in Slot
  <2>1. wpc \in {"unbind"} \cup Binding => job \in CommandType /\ at \in DOMAIN job.parts
    BY <1>13 DEF WorkerInv, Binding
  <2> QED BY <2>1, CommandFacts DEF Bound, PartType
<1>15. CASE Check \/ ReadVolume \/ BindAgain \/ BindDone
  <2>1. ReadVolume \/ BindAgain => volume[Bound] \in Volume
    BY <1>0, <1>14 DEF ReadVolume, BindAgain, SlotsTyped, Binding
  <2>2. QueueTyped'
    BY <1>0, <1>15 DEF Check, ReadVolume, BindAgain, BindDone, Executed, QueueTyped
  <2>3. WorkerTyped'
    BY <1>0, <1>15, <1>e, <2>1 DEF Check, ReadVolume, BindAgain, BindDone, Goto, WorkerTyped,
                                   WorkerPoint
  <2>4. SlotsTyped' /\ CallsTyped' /\ EngineTyped'
    BY <1>0, <1>15 DEF Check, ReadVolume, BindAgain, BindDone, SlotsTyped, CallsTyped,
                       EngineTyped
  <2> QED BY <2>2, <2>3, <2>4
<1>16. CASE BindChannel \/ ApplyBound
  <2>1. started[at] \in Channel
    <3>1. at \in DOMAIN started
      BY <1>14, <1>16 DEF WorkerInv, BindChannel, ApplyBound, Binding
    <3> QED BY <1>0, <3>1 DEF WorkerTyped
  <2>2. SlotsTyped'
    BY <1>0, <1>16, <2>1 DEF BindChannel, ApplyBound, SlotsTyped
  <2>3. EngineTyped'
    BY <1>0, <1>16 DEF BindChannel, ApplyBound, EngineTyped, WorkerTyped
  <2>4. WorkerTyped'
    BY <1>0, <1>16 DEF BindChannel, ApplyBound, Goto, WorkerTyped, WorkerPoint
  <2>5. QueueTyped' /\ CallsTyped'
    BY <1>0, <1>16 DEF BindChannel, ApplyBound, QueueTyped, CallsTyped
  <2> QED BY <2>2, <2>3, <2>4, <2>5
<1>17. CASE Unbind
  <2>1. SlotsTyped'
    BY <1>0, <1>17 DEF Unbind, StopVoiceChannel, SlotsTyped
  <2>2. EngineTyped'
    BY <1>0, <1>17 DEF Unbind, StopVoiceChannel, Fade, EngineTyped, Volume
  <2>3. WorkerTyped'
    BY <1>0, <1>17, <1>e DEF Unbind, Goto, WorkerTyped, WorkerPoint
  <2>4. QueueTyped' /\ CallsTyped'
    BY <1>0, <1>17 DEF Unbind, Executed, QueueTyped, CallsTyped
  <2> QED BY <2>1, <2>2, <2>3, <2>4
<1>18. CASE PlayVoices
  <2>1. job \in CommandType
    BY <1>13, <1>18 DEF PlayVoices, WorkerInv
  <2>2. PICK cs \in [DOMAIN job.parts -> IdleChannels] :
          /\ started' = cs
          /\ sounding' = [c \in Channel |->
               IF \E i \in DOMAIN cs : cs[i] = c THEN "loop" ELSE sounding[c]]
          /\ target' = [c \in Channel |->
               IF \E i \in DOMAIN cs : cs[i] = c
               THEN job.parts[CHOOSE i \in DOMAIN cs : cs[i] = c].volume ELSE target[c]]
    BY <1>18 DEF PlayVoices
  <2>3. started' \in Seq(Channel)
    <3>1. \E n \in Nat : DOMAIN job.parts = 1 .. n
      <4>1. DOMAIN job.parts \in {1 .. 1, 1 .. 2}
        BY <1>18, <2>1, CommandFacts DEF PlayVoices, WorkerInv, Binding
      <4> QED BY <4>1
    <3>2. \E n \in Nat : cs \in [1 .. n -> Channel]
      BY <2>2, <3>1 DEF IdleChannels
    <3> QED BY <2>2, <3>2
  <2>4. \A p \in DOMAIN job.parts : job.parts[p].volume \in Volume
    BY <2>1, CommandFacts DEF PartType
  <2>5. target' \in [Channel -> Volume]
    <3> SUFFICES ASSUME NEW c \in Channel
                 PROVE  target'[c] \in Volume
      BY <2>2
    <3>1. CASE \E i \in DOMAIN cs : cs[i] = c
      <4>1. (CHOOSE i \in DOMAIN cs : cs[i] = c) \in DOMAIN job.parts
        BY <2>2, <3>1
      <4> QED BY <2>2, <2>4, <3>1, <4>1
    <3>2. CASE ~\E i \in DOMAIN cs : cs[i] = c
      BY <1>0, <2>2, <3>2 DEF EngineTyped
    <3> QED BY <3>1, <3>2
  <2>6. EngineTyped'
    BY <1>0, <1>18, <2>2, <2>5 DEF PlayVoices, EngineTyped
  <2>7. QueueTyped'
    BY <1>0, <1>18 DEF PlayVoices, QueueTyped
  <2>8. WorkerTyped'
    BY <1>0, <1>18, <2>3 DEF PlayVoices, Goto, WorkerTyped, WorkerPoint
  <2>9. SlotsTyped' /\ CallsTyped'
    BY <1>0, <1>18 DEF PlayVoices, SlotsTyped, CallsTyped
  <2> QED BY <2>6, <2>7, <2>8, <2>9
<1>19. CASE Sweep
  <2>1. /\ SlotsTyped' /\ current' \in [Slot -> BOOLEAN]
    <3>1. \A g \in Generation : NextGeneration(g) \in Generation
      BY ControllerAssumption DEF Generation, NextGeneration
    <3>2. SlotsTyped'
      <4>1. CASE releasePending[at]
        <5>1. /\ inUse' = [inUse EXCEPT ![at] = FALSE]
              /\ releasePending' = [releasePending EXCEPT ![at] = FALSE]
              /\ generation' = [generation EXCEPT ![at] = NextGeneration(generation[at])]
              /\ channel' = [channel EXCEPT ![at] = None]
              /\ tuned' = [tuned EXCEPT ![at] = FALSE] /\ volume' = volume
          BY <1>19, <4>1 DEF Sweep, StopVoiceChannel
        <5>2. generation' \in [Slot -> Generation]
          BY <1>0, <3>1, <5>1 DEF SlotsTyped
        <5> QED BY <1>0, <5>1, <5>2 DEF SlotsTyped
      <4>2. CASE ~releasePending[at]
        BY <1>0, <1>19, <4>2 DEF Sweep, SlotsTyped
      <4> QED BY <4>1, <4>2
    <3> QED BY <1>0, <1>19, <3>2 DEF Sweep, QueueTyped
  <2>2. EngineTyped'
    BY <1>0, <1>19 DEF Sweep, StopVoiceChannel, Fade, EngineTyped, Volume
  <2>3. queue' \in Seq(CommandType) /\ Len(queue') <= QueueDepth
    <3>1. at \in Slot
      BY <1>19 DEF Sweep, WorkerInv
    <3>2. CASE queue' = AgedQueue(at)
      BY <1>0, <3>1, <3>2, AgedQueueFacts DEF QueueTyped
    <3>3. CASE queue' = queue
      BY <1>0, <3>3 DEF QueueTyped
    <3> QED BY <1>19, <3>2, <3>3 DEF Sweep
  <2>4. QueueTyped'
    BY <1>0, <1>19, <2>1, <2>3 DEF Sweep, QueueTyped
  <2>5. WorkerTyped'
    BY <1>0, <1>19 DEF Sweep, Goto, WorkerTyped, WorkerPoint
  <2>6. CallsTyped'
    BY <1>0, <1>19 DEF Sweep, CallsTyped
  <2> QED BY <2>1, <2>2, <2>4, <2>5, <2>6
<1>20. CASE (\E c \in Channel : SoundEnds(c)) \/ UNCHANGED vars
  BY <1>0, <1>20 DEF SoundEnds, vars, SlotsTyped, QueueTyped, CallsTyped, WorkerTyped,
                     EngineTyped
<1>21. ASSUME NEW t \in Task, Calling(t) \/ Continue(t)
       PROVE  (SlotsTyped /\ QueueTyped /\ CallsTyped /\ WorkerTyped /\ EngineTyped)'
  <2> HIDE DEF SlotsTyped, QueueTyped, CallsTyped, WorkerTyped, EngineTyped
  <2>1. CASE Calling(t)
    BY <1>2, <1>3, <1>4, <1>5, <1>6, <1>7, <2>1 DEF Calling
  <2>2. CASE Continue(t)
    BY <1>8, <1>9, <1>10, <2>2 DEF Continue
  <2> QED BY <1>21, <2>1, <2>2
<1> QED
  BY <1>11, <1>12, <1>15, <1>16, <1>17, <1>18, <1>19, <1>20, <1>21, CallsBegin DEF Next, Worker

-----------------------------------------------------------------------------
(* Handles and calls.                                                      *)

\* A handle has a slot of its own, in use, not being released and of its generation.
LEMMA HandleStep ==
  ASSUME TypeOK, HandleInv, CallInv, WorkerInv, [Next]_vars
  PROVE  HandleInv'
<1> USE DEF slotVars, callVars, workerVars, engineVars
<1>1. SlotsTyped /\ CallsTyped
  BY TypeParts
<1>2. ASSUME UNCHANGED <<inUse, releasePending, generation, held>>
      PROVE  HandleInv'
  BY <1>2 DEF HandleInv
<1>3. ASSUME NEW t \in Task, NEW h \in Handle, NEW s \in Slot, AcquireVoice(t, h, s)
      PROVE  HandleInv'
  <2>1. /\ ~inUse[s] /\ ~releasePending[s]
        /\ inUse' = [inUse EXCEPT ![s] = TRUE]
        /\ held' = [held EXCEPT ![h] = [slot |-> s, generation |-> generation[s]]]
        /\ UNCHANGED <<releasePending, generation>>
    BY <1>3 DEF AcquireVoice, HandleInv
  <2>2. \A g \in Handle : g # h => held'[g] = held[g] /\ (held[g] # None => held[g].slot # s)
    BY <1>1, <2>1 DEF HandleInv, CallsTyped
  <2>3. /\ held'[h].slot = s /\ held'[h].generation = generation[s]
        /\ \A r \in Slot : r # s => inUse'[r] = inUse[r]
        /\ inUse'[s] = TRUE
        /\ \A g \in Handle : held[g] # None => held[g].slot \in Slot
    BY <1>1, <2>1 DEF SlotsTyped, CallsTyped
  <2> QED BY <2>1, <2>2, <2>3 DEF HandleInv
<1>4. ASSUME NEW t \in Task, NEW h \in Handle, Release(t, h)
      PROVE  HandleInv'
  <2>1. /\ releasePending' = [releasePending EXCEPT ![held[h].slot] = TRUE]
        /\ held' = [held EXCEPT ![h] = None] /\ held[h] # None
        /\ UNCHANGED <<inUse, generation>>
    BY <1>4 DEF Release, Usable
  <2>2. held[h].slot \in Slot /\ \A g \in Handle : held[g] # None => held[g].slot \in Slot
    BY <1>1, <2>1 DEF CallsTyped
  <2>3. \A g \in Handle : held'[g] # None =>
          g # h /\ held'[g] = held[g] /\ held[g].slot # held[h].slot
    BY <1>1, <2>1 DEF CallsTyped, HandleInv
  <2>4. \A s \in Slot : releasePending'[s] = (releasePending[s] \/ s = held[h].slot)
    BY <1>1, <2>1 DEF SlotsTyped
  <2> QED BY <2>1, <2>2, <2>3, <2>4 DEF HandleInv
<1>5. CASE Sweep
  <2>1. CASE releasePending[at]
    <3>1. /\ inUse' = [inUse EXCEPT ![at] = FALSE]
          /\ releasePending' = [releasePending EXCEPT ![at] = FALSE]
          /\ generation' = [generation EXCEPT ![at] = NextGeneration(generation[at])]
          /\ held' = held
      BY <1>5, <2>1 DEF Sweep
    <3>2. \A g \in Handle : held[g] # None => held[g].slot \in Slot /\ held[g].slot # at
      BY <1>1, <2>1 DEF CallsTyped, HandleInv
    <3>3. \A s \in Slot : /\ s # at => inUse'[s] = inUse[s] /\ generation'[s] = generation[s]
                          /\ releasePending'[s] = (releasePending[s] /\ s # at)
      BY <1>1, <3>1 DEF SlotsTyped
    <3> QED BY <3>1, <3>2, <3>3 DEF HandleInv
  <2>2. CASE ~releasePending[at]
    BY <1>2, <1>5, <2>2 DEF Sweep
  <2> QED BY <2>1, <2>2
<1>6. ASSUME NEW t \in Task, Calling(t)
      PROVE  HandleInv'
  <2>1. CASE \E h \in Handle, s \in Slot : AcquireVoice(t, h, s)
    BY <1>3, <2>1
  <2>2. CASE \E h \in Handle : Release(t, h)
    BY <1>4, <2>2
  <2>3. CASE \/ \E h \in Handle : \/ \E vol \in StartVolume : Play(t, h, vol)
                                  \/ \E h2 \in Handle, vol1, vol2 \in StartVolume :
                                       PlayLinked(t, h, h2, vol1, vol2)
                                  \/ \E vol \in LaterVolume : SetVolume(t, h, vol)
                                  \/ Stop(t, h)
             \/ PlayOneShot(t)
    BY <1>2, <2>3 DEF Play, PlayLinked, SetVolume, Stop, PlayOneShot
  <2> QED BY <1>6, <2>1, <2>2, <2>3 DEF Calling
<1>7. ASSUME NEW t \in Task, Continue(t)
      PROVE  HandleInv'
  BY <1>2, <1>7 DEF Continue, StoreSecondVolume, Send, LoadChannel, LoadNoChannel, ApplyVolume
<1>8. CASE Receive \/ PlayOnce \/ Check \/ Skip \/ Unbind \/ PlayVoices \/ PlayFailed
  BY <1>2, <1>8 DEF Receive, PlayOnce, Check, Skip, Unbind, PlayVoices, PlayFailed
<1>9. CASE BindChannel \/ ReadVolume \/ ApplyBound \/ BindAgain \/ BindDone
  BY <1>2, <1>9 DEF BindChannel, ReadVolume, ApplyBound, BindAgain, BindDone
<1>10. CASE (\E c \in Channel : SoundEnds(c)) \/ UNCHANGED vars
  BY <1>2, <1>10 DEF SoundEnds, vars
<1> QED
  BY <1>5, <1>6, <1>7, <1>8, <1>9, <1>10, CallsBegin DEF Next, Worker

\* A call of t disturbs no other call as long as it keeps off their handles.
LEMMA OtherCalls ==
  ASSUME TypeOK, CallInv, NEW t \in Task, CallOf(t)',
         \A u \in Task \ {t} :
           /\ pc'[u] = pc[u] /\ using'[u] = using[u] /\ command'[u] = command[u]
           /\ tuning'[u] = tuning[u]
           /\ using'[t] \cap using[u] = {}
           /\ \A h \in using[u] : held'[h] = held[h]
  PROVE  CallInv'
<1>1. ASSUME NEW u \in Task \ {t} PROVE CallOf(u)'
  <2>1. CallOf(u)
    BY DEF CallInv
  <2>2. \A part : Fresh(u, part) => Fresh(u, part)'
    BY DEF Fresh
  <2> QED BY <2>1, <2>2 DEF CallOf
<1>2. \A u, v \in Task : u # v => using'[u] \cap using'[v] = {}
  BY DEF CallInv
<1> QED BY <1>1, <1>2 DEF CallInv

\* Calls stand while neither they nor the handles change.
LEMMA CallsUnchanged ==
  ASSUME CallInv, UNCHANGED <<callVars, held>>
  PROVE  CallInv'
BY DEF CallInv, CallOf, Fresh, callVars

\* No two calls use one handle, and a call keeps what it began with.
LEMMA CallStep ==
  ASSUME TypeOK, HandleInv, CallInv, [Next]_vars
  PROVE  CallInv'
<1> USE DEF slotVars, callVars, workerVars, engineVars
<1>1. CallsTyped
  BY TypeParts
<1>2. ASSUME NEW t \in Task, NEW h \in Handle, NEW s \in Slot, AcquireVoice(t, h, s)
      PROVE  CallInv'
  <2>1. \A u \in Task : h \notin using[u]
    BY <1>2 DEF AcquireVoice, Available
  <2>2. /\ \A g \in Handle : g # h => held'[g] = held[g]
        /\ UNCHANGED callVars
    BY <1>1, <1>2 DEF AcquireVoice, CallsTyped
  <2>3. \A u \in Task : using[u] \subseteq Handle /\ \A g \in using[u] : held'[g] = held[g]
    BY <1>1, <2>1, <2>2 DEF CallsTyped
  <2> QED BY <2>2, <2>3 DEF CallInv, CallOf, Fresh
<1>3. ASSUME NEW t \in Task, NEW h \in Handle, NEW vol \in StartVolume, Play(t, h, vol)
      PROVE  CallInv'
  <2> DEFINE a == Part(h, vol)
  <2>1. /\ held[h] # None /\ pc[t] = "idle" /\ \A u \in Task : h \notin using[u]
        /\ using' = [using EXCEPT ![t] = {h}] /\ held' = held /\ tuning' = tuning
        /\ command' = [command EXCEPT ![t] = Command("Play", <<a>>)]
        /\ pc' = [pc EXCEPT ![t] = "send"]
    BY <1>3 DEF Play, Usable, Available
  <2>2. tuning[t] = None
    BY <2>1 DEF CallInv, CallOf
  <2>3. CallOf(t)'
    <3>1. /\ using'[t] = {h} /\ pc'[t] = "send" /\ tuning'[t] = None
          /\ command'[t] = Command("Play", <<a>>)
      BY <1>1, <2>1, <2>2 DEF CallsTyped
    <3>2. command'[t].parts = <<a>> /\ command'[t] # None
      <4>1. vol \in Volume
        BY DEF Volume
      <4>2. Command("Play", <<a>>) \in CommandType
        BY <2>1, <4>1, MadePlay
      <4> QED BY <3>1, <4>2, NoneAssumption DEF Command
    <3>3. /\ a.voice = held[h].slot /\ a.generation = held[h].generation
          /\ a.age = 0 /\ a.last
      BY DEF Part
    <3> HIDE DEF a
    <3>4. \A p \in DOMAIN command'[t].parts : command'[t].parts[p] = a
      BY <3>2
    <3>5. \A p \in DOMAIN command'[t].parts : Fresh(t, command[t].parts[p])'
      BY <2>1, <3>1, <3>3, <3>4 DEF Fresh
    <3> QED BY <3>1, <3>2, <3>5 DEF CallOf
  <2>4. \A u \in Task \ {t} :
          /\ pc'[u] = pc[u] /\ using'[u] = using[u] /\ command'[u] = command[u]
          /\ tuning'[u] = tuning[u]
          /\ using'[t] \cap using[u] = {}
          /\ \A g \in using[u] : held'[g] = held[g]
    BY <1>1, <2>1 DEF CallsTyped
  <2> QED BY <2>3, <2>4, OtherCalls
<1>4. ASSUME NEW t \in Task, NEW h1 \in Handle, NEW h2 \in Handle,
             NEW vol1 \in StartVolume, NEW vol2 \in StartVolume,
             PlayLinked(t, h1, h2, vol1, vol2)
      PROVE  CallInv'
  <2> DEFINE a == Part(h1, vol1)
             b == Part(h2, vol2)
  <2>1. /\ held[h1] # None /\ held[h2] # None /\ h1 # h2 /\ pc[t] = "idle"
        /\ \A u \in Task : h1 \notin using[u] /\ h2 \notin using[u]
        /\ using' = [using EXCEPT ![t] = {h1, h2}] /\ held' = held /\ tuning' = tuning
        /\ command' = [command EXCEPT ![t] = Command("Play", <<a, b>>)]
        /\ pc' = [pc EXCEPT ![t] = "second"]
    BY <1>4 DEF PlayLinked, Usable, Available
  <2>2. tuning[t] = None
    BY <2>1 DEF CallInv, CallOf
  <2>3. CallOf(t)'
    <3>1. /\ using'[t] = {h1, h2} /\ pc'[t] = "second" /\ tuning'[t] = None
          /\ command'[t] = Command("Play", <<a, b>>)
      BY <1>1, <2>1, <2>2 DEF CallsTyped
    <3>2. /\ command'[t].type = "Play" /\ command'[t].parts = <<a, b>>
          /\ command'[t] # None
      <4>1. vol1 \in Volume /\ vol2 \in Volume
        BY DEF Volume
      <4>2. Command("Play", <<a, b>>) \in CommandType
        BY <2>1, <4>1, MadePlayLinked
      <4> QED BY <3>1, <4>2, NoneAssumption DEF Command
    <3>3. /\ a.voice = held[h1].slot /\ a.generation = held[h1].generation
          /\ a.age = 0 /\ a.last
          /\ b.voice = held[h2].slot /\ b.generation = held[h2].generation
          /\ b.age = 0 /\ b.last
      BY DEF Part
    <3> HIDE DEF a, b
    <3>4. /\ DOMAIN command'[t].parts = 1 .. 2
          /\ \A p \in 1 .. 2 : command'[t].parts[p] = a \/ command'[t].parts[p] = b
      BY <3>2
    <3>5. \A p \in DOMAIN command'[t].parts : Fresh(t, command[t].parts[p])'
      BY <2>1, <3>1, <3>3, <3>4 DEF Fresh
    <3> QED BY <3>1, <3>2, <3>4, <3>5 DEF CallOf
  <2>4. \A u \in Task \ {t} :
          /\ pc'[u] = pc[u] /\ using'[u] = using[u] /\ command'[u] = command[u]
          /\ tuning'[u] = tuning[u]
          /\ using'[t] \cap using[u] = {}
          /\ \A g \in using[u] : held'[g] = held[g]
    BY <1>1, <2>1 DEF CallsTyped
  <2> QED BY <2>3, <2>4, OtherCalls
<1>5. ASSUME NEW t \in Task, NEW h \in Handle, NEW vol \in LaterVolume, SetVolume(t, h, vol)
      PROVE  CallInv'
  <2> DEFINE new == [voice |-> held[h].slot, volume |-> vol, channel |-> None]
  <2>1. /\ held[h] # None /\ pc[t] = "idle" /\ \A u \in Task : h \notin using[u]
        /\ using' = [using EXCEPT ![t] = {h}] /\ held' = held /\ command' = command
        /\ tuning' = [tuning EXCEPT ![t] = new]
        /\ pc' = [pc EXCEPT ![t] = "load"]
    BY <1>5 DEF SetVolume, Usable, Available
  <2>2. command[t] = None
    BY <2>1 DEF CallInv, CallOf
  <2>3. CallOf(t)'
    <3>1. /\ using'[t] = {h} /\ pc'[t] = "load" /\ tuning'[t] = new /\ command'[t] = None
      BY <1>1, <2>1, <2>2 DEF CallsTyped
    <3>2. new # None
      <4>1. held[h].slot \in Slot /\ vol \in Volume
        BY <1>1, <2>1 DEF CallsTyped, Volume
      <4>2. new \in TuningType
        BY <4>1 DEF TuningType
      <4> QED BY <4>2, NoneAssumption
    <3> QED BY <2>1, <3>1, <3>2 DEF CallOf
  <2>4. \A u \in Task \ {t} :
          /\ pc'[u] = pc[u] /\ using'[u] = using[u] /\ command'[u] = command[u]
          /\ tuning'[u] = tuning[u]
          /\ using'[t] \cap using[u] = {}
          /\ \A g \in using[u] : held'[g] = held[g]
    BY <1>1, <2>1 DEF CallsTyped
  <2> QED BY <2>3, <2>4, OtherCalls
<1>6. ASSUME NEW t \in Task, NEW h \in Handle, Release(t, h)
      PROVE  CallInv'
  <2>1. /\ pc[t] = "idle" /\ \A u \in Task : h \notin using[u]
        /\ using' = [using EXCEPT ![t] = {h}] /\ tuning' = tuning
        /\ held' = [held EXCEPT ![h] = None]
        /\ command' = [command EXCEPT ![t] = Command("Release", <<>>)]
        /\ pc' = [pc EXCEPT ![t] = "send"]
    BY <1>6 DEF Release, Usable, Available
  <2>2. tuning[t] = None
    BY <2>1 DEF CallInv, CallOf
  <2>3. CallOf(t)'
    <3>1. /\ pc'[t] = "send" /\ tuning'[t] = None
          /\ command'[t] = Command("Release", <<>>)
      BY <1>1, <2>1, <2>2 DEF CallsTyped
    <3>2. command'[t].parts = <<>> /\ command'[t] # None
      BY <3>1, MadeEmpty, NoneAssumption DEF Command
    <3>3. DOMAIN <<>> = {}
      BY NoParts
    <3> QED BY <3>1, <3>2, <3>3 DEF CallOf
  <2>4. \A u \in Task \ {t} :
          /\ pc'[u] = pc[u] /\ using'[u] = using[u] /\ command'[u] = command[u]
          /\ tuning'[u] = tuning[u]
          /\ using'[t] \cap using[u] = {}
          /\ \A g \in using[u] : held'[g] = held[g]
    BY <1>1, <2>1 DEF CallsTyped
  <2> QED BY <2>3, <2>4, OtherCalls
<1>7. ASSUME NEW t \in Task, (\E h \in Handle : Stop(t, h)) \/ PlayOneShot(t)
      PROVE  CallInv'
  BY <1>7, CallsUnchanged DEF Stop, PlayOneShot
<1>8. ASSUME NEW t \in Task, Send(t) \/ LoadNoChannel(t) \/ ApplyVolume(t)
      PROVE  CallInv'
  <2>1. Return(t) /\ held' = held
    BY <1>8 DEF Send, LoadNoChannel, ApplyVolume
  <2>2. /\ pc'[t] = "idle" /\ using'[t] = {} /\ command'[t] = None /\ tuning'[t] = None
        /\ \A u \in Task \ {t} :
             /\ pc'[u] = pc[u] /\ using'[u] = using[u] /\ command'[u] = command[u]
             /\ tuning'[u] = tuning[u]
    BY <1>1, <2>1 DEF Return, CallsTyped
  <2>3. CallOf(t)'
    BY <2>2 DEF CallOf
  <2> QED BY <2>1, <2>2, <2>3, OtherCalls
<1>9. ASSUME NEW t \in Task, StoreSecondVolume(t)
      PROVE  CallInv'
  <2>1. /\ pc[t] = "second" /\ pc'[t] = "send" /\ UNCHANGED <<held, using, command, tuning>>
        /\ \A u \in Task \ {t} : pc'[u] = pc[u]
    BY <1>1, <1>9 DEF StoreSecondVolume, CallsTyped
  <2>2. CallOf(t)'
    BY <2>1 DEF CallInv, CallOf, Fresh
  <2>3. \A u \in Task \ {t} : using'[t] \cap using[u] = {}
    BY <2>1 DEF CallInv
  <2> QED BY <2>1, <2>2, <2>3, OtherCalls
<1>10. ASSUME NEW t \in Task, LoadChannel(t)
       PROVE  CallInv'
  <2>1. /\ pc[t] = "load" /\ pc'[t] = "apply" /\ UNCHANGED <<held, using, command>>
        /\ channel[tuning[t].voice] # None
        /\ tuning' = [tuning EXCEPT ![t] =
             [tuning[t] EXCEPT !.channel = channel[tuning[t].voice]]]
        /\ \A u \in Task \ {t} : pc'[u] = pc[u]
    BY <1>1, <1>10 DEF LoadChannel, CallsTyped
  <2>2. /\ tuning[t] \in TuningType /\ command[t] = None
        /\ \E h \in using[t] : held[h] # None /\ held[h].slot = tuning[t].voice
    BY <1>1, <2>1 DEF CallInv, CallOf, CallsTyped
  <2>3. /\ tuning'[t] = [tuning[t] EXCEPT !.channel = channel[tuning[t].voice]]
        /\ \A u \in Task \ {t} : tuning'[u] = tuning[u]
    BY <1>1, <2>1 DEF CallsTyped
  <2>4. /\ tuning'[t].voice = tuning[t].voice
        /\ tuning'[t].channel = channel[tuning[t].voice]
        /\ tuning'[t] \in TuningType
    <3>1. channel[tuning[t].voice] \in Channel \cup {None}
      BY <2>2 DEF TypeOK, TuningType
    <3> QED BY <2>2, <2>3, <3>1 DEF TuningType
  <2>5. CallOf(t)'
    BY <2>1, <2>2, <2>4, NoneAssumption DEF CallOf
  <2>6. \A u \in Task \ {t} : using'[t] \cap using[u] = {}
    BY <2>1 DEF CallInv
  <2> QED BY <2>1, <2>3, <2>5, <2>6, OtherCalls
<1>11. CASE Receive \/ PlayOnce \/ Check \/ Skip \/ Unbind \/ PlayVoices \/ PlayFailed
  BY <1>11, CallsUnchanged DEF Receive, PlayOnce, Check, Skip, Unbind, PlayVoices, PlayFailed
<1>12. CASE BindChannel \/ ReadVolume \/ ApplyBound \/ BindAgain \/ BindDone \/ Sweep
  BY <1>12, CallsUnchanged DEF BindChannel, ReadVolume, ApplyBound, BindAgain, BindDone, Sweep
<1>13. CASE (\E c \in Channel : SoundEnds(c)) \/ UNCHANGED vars
  BY <1>13, CallsUnchanged DEF SoundEnds, vars
<1>14. ASSUME NEW t \in Task, Calling(t) \/ Continue(t)
       PROVE  CallInv'
  <2>1. CASE Calling(t)
    BY <1>2, <1>3, <1>4, <1>5, <1>6, <1>7, <2>1 DEF Calling
  <2>2. CASE Continue(t)
    BY <1>8, <1>9, <1>10, <2>2 DEF Continue
  <2> QED BY <1>14, <2>1, <2>2
<1> QED
  BY <1>11, <1>12, <1>13, <1>14, CallsBegin DEF Next, Worker

-----------------------------------------------------------------------------
(* What the rest of a step can do to the worker and its queue.             *)

\* A task queues command c, for voices that it still holds.
Sent(c) ==
  /\ Enqueue(c)
  /\ \A p \in DOMAIN c.parts :
       LET part == c.parts[p]
       IN /\ inUse[part.voice] /\ ~releasePending[part.voice]
          /\ generation[part.voice] = part.generation
          /\ part.age = 0 /\ part.last
  /\ UNCHANGED <<slotVars, wpc, at, started, applied, engineVars, tuned, strayed>>

\* A step that leaves the worker and its queue alone: a slot may be taken or released, a
\* channel may become idle.
Aside ==
  /\ UNCHANGED <<generation, channel, queue, workerVars, current>>
  /\ \A s \in Slot : /\ inUse[s] => inUse'[s]
                     /\ releasePending[s] => releasePending'[s]
  /\ \A c \in Channel : sounding'[c] = "loop" <=> sounding[c] = "loop"

\* Whoever enqueues, enqueues a command.
LEMMA Sending ==
  ASSUME TypeOK, HandleInv, CallInv, NEW t \in Task,
         (\E h \in Handle : Stop(t, h)) \/ PlayOneShot(t) \/ Send(t)
  PROVE  \E c \in CommandType : Sent(c)
<1> USE DEF slotVars, callVars, workerVars, engineVars
<1>1. CallsTyped
  BY TypeParts
<1>2. CASE \E h \in Handle : Stop(t, h)
  <2>1. PICK h \in Handle : Stop(t, h)
    BY <1>2
  <2> DEFINE a == Part(h, 0)
             c == Command("Stop", <<a>>)
  <2>2. held[h] # None /\ 0 \in Volume /\ Enqueue(c)
    BY <2>1 DEF Stop, Usable, Volume
  <2>3. c \in CommandType /\ c.parts = <<a>>
    BY <2>2, MadePlay DEF Command
  <2>4. /\ a.voice = held[h].slot /\ a.generation = held[h].generation
        /\ a.age = 0 /\ a.last
    BY DEF Part
  <2>5. UNCHANGED <<slotVars, wpc, at, started, applied, engineVars, tuned, strayed>>
    BY <2>1 DEF Stop
  <2>6. \A p \in DOMAIN c.parts : c.parts[p] = a
    <3> HIDE DEF a, c
    <3> QED BY <2>3
  <2> HIDE DEF a, c
  <2>7. Sent(c)
    BY <2>2, <2>4, <2>5, <2>6 DEF Sent, HandleInv
  <2> QED BY <2>3, <2>7
<1>3. CASE PlayOneShot(t)
  <2>1. Command("OneShot", <<>>).parts = <<>>
    BY DEF Command
  <2>2. Sent(Command("OneShot", <<>>))
    BY <1>3, <2>1, NoParts DEF Sent, PlayOneShot
  <2> QED BY <2>2, MadeEmpty
<1>4. CASE Send(t)
  <2>1. command[t] \in CommandType
    BY <1>1, <1>4 DEF Send, CallInv, CallOf, CallsTyped
  <2>2. \A p \in DOMAIN command[t].parts : Fresh(t, command[t].parts[p])
    BY <1>4 DEF Send, CallInv, CallOf
  <2>3. using[t] \subseteq Handle
    BY <1>1 DEF CallsTyped
  <2>4. Sent(command[t])
    BY <1>4, <2>2, <2>3 DEF Sent, Send, Fresh, HandleInv
  <2> QED BY <2>1, <2>4
<1> QED BY <1>2, <1>3, <1>4

\* A step is the worker's, or sends a command, or does neither.
LEMMA NextKinds ==
  ASSUME TypeOK, HandleInv, CallInv, [Next]_vars
  PROVE  Worker \/ Aside \/ \E c \in CommandType : Sent(c)
<1> USE DEF slotVars, callVars, workerVars, engineVars
<1>1. SlotsTyped /\ EngineTyped
  BY TypeParts
<1>2. ASSUME NEW t \in Task, NEW h \in Handle, NEW s \in Slot, AcquireVoice(t, h, s)
      PROVE  Aside
  BY <1>1, <1>2 DEF AcquireVoice, Aside, SlotsTyped
<1>3. ASSUME NEW t \in Task, NEW h \in Handle, Release(t, h)
      PROVE  Aside
  BY <1>1, <1>3 DEF Release, Aside, SlotsTyped
<1>4. ASSUME NEW t \in Task, NEW h \in Handle,
             \/ \E vol \in StartVolume : Play(t, h, vol)
             \/ \E h2 \in Handle, vol1, vol2 \in StartVolume : PlayLinked(t, h, h2, vol1, vol2)
             \/ \E vol \in LaterVolume : SetVolume(t, h, vol)
      PROVE  Aside
  BY <1>4 DEF Play, PlayLinked, SetVolume, Aside
<1>5. ASSUME NEW t \in Task,
             StoreSecondVolume(t) \/ LoadChannel(t) \/ LoadNoChannel(t) \/ ApplyVolume(t)
      PROVE  Aside
  BY <1>5 DEF StoreSecondVolume, LoadChannel, LoadNoChannel, ApplyVolume, Aside
<1>6. ASSUME NEW c \in Channel, SoundEnds(c)
      PROVE  Aside
  BY <1>1, <1>6 DEF SoundEnds, Aside, EngineTyped
<1>7. CASE UNCHANGED vars
  BY <1>7 DEF vars, Aside
<1>8. ASSUME NEW t \in Task, Calling(t) \/ Continue(t)
      PROVE  Aside \/ \E c \in CommandType : Sent(c)
  <2>1. CASE Calling(t)
    BY <1>2, <1>3, <1>4, <2>1, Sending DEF Calling
  <2>2. CASE Continue(t)
    BY <1>5, <2>2, Sending DEF Continue
  <2> QED BY <1>8, <2>1, <2>2
<1> QED BY <1>6, <1>7, <1>8, CallsBegin DEF Next

\* Where the worker is tells which of its locals are set.
LEMMA WorkerStep ==
  ASSUME TypeOK, HandleInv, CallInv, WorkerInv, [Next]_vars
  PROVE  WorkerInv'
<1> USE DEF slotVars, callVars, workerVars, engineVars
<1>1. job # None => job \in CommandType
  BY DEF TypeOK
<1>2. CASE Aside
  BY <1>2 DEF Aside, WorkerInv
<1>3. ASSUME NEW c \in CommandType, Sent(c)
      PROVE  WorkerInv'
  <2>1. UNCHANGED <<wpc, at, started>>
    BY <1>3 DEF Sent
  <2>2. \/ job' = job
        \/ /\ job # None /\ job' # None
           /\ job'.type = job.type /\ DOMAIN job'.parts = DOMAIN job.parts
    BY <1>1, <1>3, EnqueueFacts, SupersedeFacts DEF Sent, Accepted
  <2> QED BY <2>1, <2>2 DEF WorkerInv
<1>4. 1 \in Slot
  BY ControllerAssumption DEF Slot
<1>5. Executed => WorkerInv'
  BY <1>4 DEF Executed, Goto, WorkerInv, Admitted, Binding
<1>6. job # None =>
        /\ job.type \in {"Play", "Stop"} => 1 \in DOMAIN job.parts
        /\ \A p \in DOMAIN job.parts : p + 1 \in DOMAIN job.parts => p + 1 \in Nat
  BY <1>1, CommandFacts
<1>7. CASE Receive
  <2>1. Head(queue) \in CommandType
    BY <1>7 DEF Receive, TypeOK
  <2>2. CASE Executed
    BY <1>5, <2>2
  <2>3. CASE /\ Head(queue).type # "Release" /\ job' = Head(queue)
             /\ wpc' = (IF Head(queue).type = "OneShot" THEN "once" ELSE "check")
    BY <2>1, <2>3, CommandFacts, NoneAssumption DEF WorkerInv, Admitted, Binding
  <2> QED BY <1>7, <2>2, <2>3 DEF Receive, Goto
<1>8. CASE PlayOnce \/ Skip \/ PlayFailed
  BY <1>5, <1>8 DEF PlayOnce, Skip, PlayFailed
<1>9. CASE Check
  BY <1>6, <1>9 DEF Check, Goto, WorkerInv, Admitted, Binding
<1>10. CASE Unbind
  BY <1>5, <1>10 DEF Unbind, Goto, WorkerInv, Admitted, Binding
<1>11. CASE PlayVoices
  <2>1. PICK cs \in [DOMAIN job.parts -> IdleChannels] :
          (\A i, j \in DOMAIN cs : i # j => cs[i] # cs[j]) /\ started' = cs
    BY <1>11 DEF PlayVoices
  <2>2. wpc = "play" /\ wpc' = "bind" /\ at' = 1 /\ job' = job
    BY <1>11 DEF PlayVoices, Goto
  <2> QED BY <1>6, <2>1, <2>2 DEF WorkerInv, Admitted, Binding
<1>12. CASE BindChannel \/ ReadVolume \/ ApplyBound \/ BindAgain
  BY <1>12 DEF BindChannel, ReadVolume, ApplyBound, BindAgain, Goto, WorkerInv, Admitted, Binding
<1>13. CASE BindDone
  BY <1>5, <1>13 DEF BindDone, Goto, WorkerInv, Admitted, Binding
<1>14. CASE Sweep
  <2>1. /\ wpc = "sweep" /\ job' = job /\ at \in 1 .. MaxVoices
        /\ \/ at < MaxVoices /\ wpc' = "sweep" /\ at' = at + 1
           \/ wpc' = "wait"
    BY <1>14 DEF Sweep, Goto, WorkerInv, Slot
  <2>2. wpc' = "sweep" => at' \in Slot
    BY <2>1, ControllerAssumption DEF Slot
  <2> QED BY <2>1, <2>2 DEF WorkerInv, Admitted, Binding
<1> QED
  BY <1>2, <1>3, <1>7, <1>8, <1>9, <1>10, <1>11, <1>12, <1>13, <1>14, NextKinds DEF Worker

-----------------------------------------------------------------------------
(* Ages.                                                                   *)

\* A part that is let through has not aged: the generations that have passed are too few for
\* the counter to come round to the same value.
LEMMA OwnersAreCurrent ==
  ASSUME TypeOK, NEW part \in PartType, Consistent(part), part.age <= QueueDepth, OwnsSlot(part)
  PROVE  part.age = 0 /\ inUse[part.voice]
<1>1. part.age \in Nat /\ part.generation \in Nat
  BY ControllerAssumption DEF PartType, Generation
<1>2. part.age = 0
  BY <1>1, ControllerAssumption DEF Consistent, OwnsSlot
<1> QED BY <1>2 DEF Consistent

\* The parts of queued commands are parts.
LEMMA PartTyped ==
  ASSUME TypeOK, NEW i \in DOMAIN queue, NEW p \in DOMAIN queue[i].parts
  PROVE  /\ queue[i] \in CommandType
         /\ queue[i].parts[p] \in PartType
         /\ queue[i].parts[p].voice \in Slot /\ queue[i].parts[p].age \in Nat
         /\ queue[i].parts[p].generation \in Generation
<1>1. queue[i] \in CommandType
  BY DEF TypeOK
<1> QED BY <1>1, CommandFacts DEF PartType

\* One sweep of a slot moves its generation on by one, and so it does the age.
LEMMA SweptPart ==
  ASSUME NEW g \in Generation, NEW generation0 \in Generation, NEW age \in Nat,
         age < Generations,
         generation0 = g + age \/ generation0 = g + age - Generations
  PROVE  \/ NextGeneration(generation0) = g + (age + 1)
         \/ NextGeneration(generation0) = g + (age + 1) - Generations
BY ControllerAssumption DEF NextGeneration, Generation

\* A part is as many generations behind as its age, which its place in the queue bounds.
LEMMA AgeStep ==
  ASSUME TypeOK, HandleInv, CallInv, WorkerInv, AgeInv, [Next]_vars, TypeOK'
  PROVE  AgeInv'
<1> USE DEF slotVars, callVars, workerVars, engineVars
<1> DEFINE Queued == \A i \in DOMAIN queue : \A p \in DOMAIN queue[i].parts :
                       InTime(queue[i].parts[p], i)
           Working == job # None => \A p \in DOMAIN job.parts :
                        Consistent(job.parts[p]) /\ job.parts[p].age <= QueueDepth
<1>1. /\ queue \in Seq(CommandType) /\ QueueDepth \in Nat /\ Len(queue) <= QueueDepth
      /\ generation \in [Slot -> Generation] /\ inUse \in [Slot -> BOOLEAN]
  BY ControllerAssumption DEF TypeOK
<1>2. job # None => job \in CommandType
  BY DEF TypeOK
<1>3. CASE Aside
  <2>1. \A part \in PartType : Consistent(part) => Consistent(part)'
    BY <1>3 DEF Aside, Consistent, PartType
  <2>2. Queued'
    BY <1>3, <2>1, PartTyped DEF Aside, InTime, SweepAhead, AgeInv
  <2>3. Working'
    BY <1>2, <1>3, <2>1, CommandFacts DEF Aside, AgeInv
  <2>4. CommandReachesItsOwner'
    <3>1. wpc \in {"unbind", "play", "bind", "read", "set", "recheck"} =>
            job # None /\ \A p \in DOMAIN job.parts : job.parts[p].voice \in Slot
      BY <1>2, CommandFacts DEF WorkerInv, PartType
    <3> QED BY <1>3, <3>1 DEF Aside, CommandReachesItsOwner, AgeInv
  <2> QED BY <2>2, <2>3, <2>4 DEF AgeInv
<1>4. ASSUME NEW c \in CommandType, Sent(c)
      PROVE  AgeInv'
  <2>1. UNCHANGED <<wpc, at, generation, inUse>>
    BY <1>4 DEF Sent
  <2>2. UNCHANGED <<queue, job>> \/ Accepted(c)
    BY <1>4, EnqueueFacts DEF Sent
  <2>3. CASE UNCHANGED <<queue, job>>
    BY <2>1, <2>3 DEF AgeInv, InTime, Consistent, SweepAhead, CommandReachesItsOwner
  <2>4. CASE Accepted(c)
    <3>1. Queued'
      <4> SUFFICES ASSUME NEW i \in DOMAIN queue', NEW p \in DOMAIN queue'[i].parts
                   PROVE  InTime(queue[i].parts[p], i)'
        OBVIOUS
      <4>1. CASE i = Len(queue) + 1
        <5>1. queue'[i] = c /\ Len(queue) < QueueDepth
          BY <2>4, <4>1 DEF Accepted
        <5>2. /\ inUse[c.parts[p].voice] /\ c.parts[p].age = 0
              /\ generation[c.parts[p].voice] = c.parts[p].generation
          BY <1>4, <5>1 DEF Sent
        <5>3. c.parts[p] \in PartType
          BY <5>1, CommandFacts
        <5>4. c.parts[p].generation \in Nat
          BY <5>3, ControllerAssumption DEF PartType, Generation
        <5> QED BY <1>1, <2>1, <4>1, <5>1, <5>2, <5>4 DEF InTime, Consistent, SweepAhead
      <4>2. CASE i # Len(queue) + 1
        <5>1. i \in DOMAIN queue
          BY <1>1, <2>4, <4>2 DEF Accepted, TypeOK
        <5>2. queue'[i] = Supersede(queue[i], c) /\ queue[i] \in CommandType
          BY <1>1, <2>4, <5>1 DEF Accepted
        <5>3. /\ p \in DOMAIN queue[i].parts
              /\ queue'[i].parts[p].voice = queue[i].parts[p].voice
              /\ queue'[i].parts[p].generation = queue[i].parts[p].generation
              /\ queue'[i].parts[p].age = queue[i].parts[p].age
          BY <5>2, SupersedeFacts
        <5>4. InTime(queue[i].parts[p], i)
          BY <5>1, <5>3 DEF AgeInv
        <5> QED BY <2>1, <5>3, <5>4 DEF InTime, Consistent, SweepAhead
      <4> QED BY <4>1, <4>2
    <3>2. job # None => /\ job' # None /\ DOMAIN job'.parts = DOMAIN job.parts
                        /\ \A p \in DOMAIN job.parts :
                             /\ job'.parts[p].voice = job.parts[p].voice
                             /\ job'.parts[p].generation = job.parts[p].generation
                             /\ job'.parts[p].age = job.parts[p].age
      BY <1>2, <1>4, <2>4, EnqueueFacts, SupersedeFacts DEF Sent, Accepted
    <3>3. job = None => job' = None
      BY <2>4 DEF Accepted
    <3>4. Working'
      BY <2>1, <3>2, <3>3 DEF AgeInv, Consistent
    <3>5. CommandReachesItsOwner'
      BY <2>1, <3>2, <3>3 DEF AgeInv, CommandReachesItsOwner, WorkerInv
    <3> QED BY <3>1, <3>4, <3>5 DEF AgeInv
  <2> QED BY <2>2, <2>3, <2>4
<1>5. CASE Receive
  <2>1. /\ wpc = "wait" /\ queue # <<>> /\ queue' = Tail(queue)
        /\ wpc' \in {"sweep", "once", "check"}
        /\ job' = Head(queue) \/ job' = None
        /\ UNCHANGED <<generation, inUse>>
    BY <1>5 DEF Receive, Executed, Goto
  <2>2. Queued'
    <3> SUFFICES ASSUME NEW i \in DOMAIN queue', NEW p \in DOMAIN queue'[i].parts
                 PROVE  InTime(queue[i].parts[p], i)'
      OBVIOUS
    <3>1. i \in Nat /\ i + 1 \in DOMAIN queue /\ queue'[i] = queue[i + 1]
      BY <1>1, <2>1
    <3>2. InTime(queue[i + 1].parts[p], i + 1) /\ queue[i + 1].parts[p].age \in Nat
      BY <3>1, PartTyped DEF AgeInv
    <3> QED BY <1>1, <2>1, <3>1, <3>2 DEF InTime, Consistent
  <2>3. Working'
    <3>1. 1 \in DOMAIN queue /\ Head(queue) = queue[1]
      BY <1>1, <2>1
    <3>2. \A p \in DOMAIN queue[1].parts :
            InTime(queue[1].parts[p], 1) /\ queue[1].parts[p].age \in Nat
      BY <3>1, PartTyped DEF AgeInv
    <3> QED BY <1>1, <2>1, <3>1, <3>2 DEF InTime, Consistent
  <2> QED BY <2>1, <2>2, <2>3 DEF AgeInv, CommandReachesItsOwner
<1>6. \A s \in Slot : 1 <= s
  BY DEF Slot
<1>7. ASSUME UNCHANGED <<generation, inUse, queue>>, wpc \notin {"wait", "sweep"},
             Executed \/ (job' = job /\ wpc' \notin {"wait", "sweep"}),
             wpc' \in Admitted => wpc \in Admitted \/ OwnsSlots
      PROVE  AgeInv'
  <2>1. Queued'
    BY <1>6, <1>7, PartTyped DEF AgeInv, InTime, Consistent, SweepAhead, Executed, Goto
  <2>2. Working'
    BY <1>7 DEF AgeInv, Consistent, Executed
  <2>3. CommandReachesItsOwner'
    <3>1. wpc' \in Admitted => job' = job
      BY <1>7 DEF Executed, Goto, Admitted, Binding
    <3>2. CASE wpc \in Admitted
      BY <1>7, <3>1, <3>2 DEF AgeInv, CommandReachesItsOwner, Admitted, Binding
    <3>3. CASE OwnsSlots
      <4>1. job \in CommandType
        BY <1>2, <1>7 DEF WorkerInv, TypeOK, WorkerPoint
      <4>2. \A p \in DOMAIN job.parts : job.parts[p] \in PartType
        BY <4>1, CommandFacts
      <4>3. \A p \in DOMAIN job.parts :
              /\ Consistent(job.parts[p]) /\ job.parts[p].age <= QueueDepth
              /\ OwnsSlot(job.parts[p])
        BY <3>3, <4>1, NoneAssumption DEF AgeInv, OwnsSlots
      <4>4. \A p \in DOMAIN job.parts : job.parts[p].age = 0 /\ inUse[job.parts[p].voice]
        BY <4>2, <4>3, OwnersAreCurrent
      <4> QED BY <1>7, <3>1, <4>4 DEF CommandReachesItsOwner, Admitted, Binding
    <3>4. CASE wpc' \notin Admitted
      BY <3>4 DEF CommandReachesItsOwner, Admitted, Binding
    <3> QED BY <1>7, <3>2, <3>3, <3>4
  <2> QED BY <2>1, <2>2, <2>3 DEF AgeInv
<1>8. CASE PlayOnce \/ Skip \/ PlayFailed \/ Check
  BY <1>7, <1>8 DEF PlayOnce, Skip, PlayFailed, Check, Executed, Goto, Admitted, Binding
<1>9. CASE Unbind \/ PlayVoices
  BY <1>7, <1>9 DEF Unbind, PlayVoices, Executed, Goto, Admitted, Binding
<1>10. CASE BindChannel \/ ReadVolume \/ ApplyBound \/ BindAgain \/ BindDone
  BY <1>7, <1>10 DEF BindChannel, ReadVolume, ApplyBound, BindAgain, BindDone, Executed, Goto,
                     Admitted, Binding
<1>11. CASE Sweep
  <2>1. /\ wpc = "sweep" /\ at \in Slot /\ job = None /\ job' = None
        /\ \/ wpc' = "sweep" /\ at' = at + 1
           \/ wpc' = "wait" /\ at = MaxVoices
    BY <1>11, ControllerAssumption DEF Sweep, Goto, WorkerInv, Slot
  <2> DEFINE ahead(s) == wpc' # "wait" /\ (wpc' = "sweep" => at' <= s)
  <2>2. SweepAhead(at) /\ \A s \in Slot : ahead(s) => SweepAhead(s) /\ s # at
    BY <2>1 DEF SweepAhead, Slot
  <2>3. CASE releasePending[at]
    <3>1. /\ generation' = [generation EXCEPT ![at] = NextGeneration(generation[at])]
          /\ inUse' = [inUse EXCEPT ![at] = FALSE]
          /\ queue' = AgedQueue(at)
      BY <1>11, <2>3 DEF Sweep
    <3>2. Queued'
      <4> SUFFICES ASSUME NEW i \in DOMAIN queue', NEW p \in DOMAIN queue'[i].parts
                   PROVE  InTime(queue[i].parts[p], i)'
        OBVIOUS
      <4>0. PICK old, now : old = queue[i].parts[p] /\ now = queue'[i].parts[p]
        OBVIOUS
      <4>1. i \in DOMAIN queue /\ i \in Nat
        <5>1. queue' \in Seq(CommandType) /\ Len(queue') = Len(queue)
          BY <1>1, <2>1, <3>1, AgedQueueFacts
        <5> QED BY <1>1, <5>1
      <4>2. /\ p \in DOMAIN queue[i].parts
            /\ now.voice = old.voice /\ now.generation = old.generation
            /\ now.age = IF old.voice = at THEN old.age + 1 ELSE old.age
        BY <1>1, <2>1, <3>1, <4>0, <4>1, AgedQueueFacts
      <4>3. /\ InTime(old, i) /\ old.voice \in Slot /\ old.age \in Nat
            /\ old.generation \in Generation
        BY <4>0, <4>1, <4>2, PartTyped DEF AgeInv
      <4> HIDE DEF ahead
      <4>4. CASE old.voice = at
        <5>1. old.age + i <= QueueDepth /\ Consistent(old)
          BY <2>2, <4>3, <4>4 DEF InTime
        <5>2. old.age < Generations /\ i >= 1
          BY <1>1, <4>1, <4>3, <5>1, ControllerAssumption
        <5>3. generation[at] \in Generation /\ generation'[at] = NextGeneration(generation[at])
          BY <1>1, <2>1, <3>1
        <5>4. \/ generation'[at] = old.generation + (old.age + 1)
              \/ generation'[at] = old.generation + (old.age + 1) - Generations
          BY <4>3, <4>4, <5>1, <5>2, <5>3, SweptPart DEF Consistent
        <5>5. now.age = old.age + 1 /\ now.age # 0 /\ now.age + i <= QueueDepth + 1
          BY <1>1, <4>1, <4>2, <4>3, <4>4, <5>1
        <5>6. now.voice = at /\ now.generation = old.generation /\ ~ahead(at)
          BY <2>1, <2>2, <4>2, <4>4
        <5>7. /\ \/ generation'[now.voice] = now.generation + now.age
                 \/ generation'[now.voice] = now.generation + now.age - Generations
              /\ ~ahead(now.voice)
          BY <5>4, <5>5, <5>6
        <5> QED BY <4>0, <5>5, <5>7 DEF InTime, Consistent, SweepAhead, ahead
      <4>5. CASE old.voice # at
        <5>1. /\ generation'[old.voice] = generation[old.voice]
              /\ inUse'[old.voice] = inUse[old.voice]
          BY <1>1, <3>1, <4>3, <4>5
        <5>2. ahead(old.voice) => SweepAhead(old.voice)
          BY <2>2, <4>3
        <5>3. now.voice = old.voice /\ now.generation = old.generation /\ now.age = old.age
          BY <4>2, <4>5
        <5>4. InTime(old, i)
          BY <4>3
        <5> QED BY <4>0, <5>1, <5>2, <5>3, <5>4 DEF InTime, Consistent, SweepAhead, ahead
      <4> QED BY <4>4, <4>5
    <3> QED BY <2>1, <3>2 DEF AgeInv, CommandReachesItsOwner
  <2>4. CASE ~releasePending[at]
    <3>1. UNCHANGED <<generation, inUse, queue>>
      BY <1>11, <2>4 DEF Sweep
    <3>2. Queued'
      BY <2>1, <2>2, <3>1, PartTyped DEF AgeInv, InTime, Consistent, SweepAhead
    <3> QED BY <2>1, <3>1, <3>2 DEF AgeInv, CommandReachesItsOwner
  <2> QED BY <2>3, <2>4
<1> QED BY <1>3, <1>4, <1>5, <1>8, <1>9, <1>10, <1>11, NextKinds DEF Worker

-----------------------------------------------------------------------------
(* Releases.                                                               *)

\* A released slot has the worker on its way: something to receive, or a sweep to do.
LEMMA ReleaseStep ==
  ASSUME TypeOK, CallInv, WorkerInv, ReleaseIsSeen, [Next]_vars, TypeOK'
  PROVE  ReleaseIsSeen'
<1> USE DEF slotVars, callVars, workerVars, engineVars
<1>1. SlotsTyped /\ QueueTyped /\ CallsTyped
  BY TypeParts
<1>2. ASSUME UNCHANGED <<releasePending, queue, wpc, at>>,
             \A u \in Task : pc[u] = "send" => pc'[u] = "send" /\ command'[u] = command[u]
      PROVE  ReleaseIsSeen'
  BY <1>2 DEF ReleaseIsSeen
<1>3. ASSUME NEW t \in Task, pc[t] # "send", UNCHANGED <<releasePending, queue, wpc, at>>,
             \A u \in Task \ {t} : pc'[u] = pc[u] /\ command'[u] = command[u]
      PROVE  ReleaseIsSeen'
  BY <1>2, <1>3
<1>4. ASSUME NEW t \in Task, NEW h \in Handle,
             \/ \E s \in Slot : AcquireVoice(t, h, s)
             \/ \E vol \in StartVolume : Play(t, h, vol)
             \/ \E h2 \in Handle, vol1, vol2 \in StartVolume : PlayLinked(t, h, h2, vol1, vol2)
             \/ \E vol \in LaterVolume : SetVolume(t, h, vol)
      PROVE  ReleaseIsSeen'
  <2>1. /\ pc[t] # "send" /\ UNCHANGED <<releasePending, queue, wpc, at>>
        /\ \A u \in Task \ {t} : pc'[u] = pc[u] /\ command'[u] = command[u]
    BY <1>1, <1>4 DEF AcquireVoice, Play, PlayLinked, SetVolume, Usable, CallsTyped
  <2> QED BY <1>3, <2>1
<1>5. ASSUME NEW t \in Task, StoreSecondVolume(t) \/ LoadChannel(t) \/ LoadNoChannel(t)
                             \/ ApplyVolume(t)
      PROVE  ReleaseIsSeen'
  <2>1. /\ pc[t] # "send" /\ UNCHANGED <<releasePending, queue, wpc, at>>
        /\ \A u \in Task \ {t} : pc'[u] = pc[u] /\ command'[u] = command[u]
    BY <1>1, <1>5 DEF StoreSecondVolume, LoadChannel, LoadNoChannel, ApplyVolume, Return,
                      CallsTyped
  <2> QED BY <1>3, <2>1
<1>6. ASSUME NEW t \in Task, NEW h \in Handle, Release(t, h)
      PROVE  ReleaseIsSeen'
  <2>1. pc'[t] = "send" /\ command'[t].type = "Release"
    <3>1. pc'[t] = "send" /\ command'[t] = Command("Release", <<>>)
      BY <1>1, <1>6 DEF Release, CallsTyped
    <3> QED BY <3>1 DEF Command
  <2> QED BY <2>1 DEF ReleaseIsSeen
<1>7. ASSUME NEW c, Enqueue(c)
      PROVE  queue' # <<>>
  <2>1. queue \in Seq(CommandType) /\ Len(queue) \in Nat /\ queue' \in Seq(CommandType)
    BY <1>1 DEF QueueTyped, TypeOK
  <2>2. CASE Len(queue) < QueueDepth
    <3> DEFINE older == [i \in DOMAIN queue |-> Supersede(queue[i], c)]
    <3>1. queue' = Append(older, c)
      BY <1>7, <2>2 DEF Enqueue
    <3>2. DOMAIN older = 1 .. Len(queue) /\ Len(older) = Len(queue)
      BY <2>1
    <3> HIDE DEF older
    <3>3. DOMAIN Append(older, c) = 1 .. Len(queue) + 1
      BY <2>1, <3>2
    <3> QED BY <2>1, <3>1, <3>3
  <2>3. CASE ~(Len(queue) < QueueDepth)
    <3>1. queue' = queue /\ Len(queue) # 0
      BY <1>7, <2>1, <2>3, ControllerAssumption DEF Enqueue
    <3> QED BY <3>1, EmptyTyped
  <2> QED BY <2>2, <2>3
<1>8. ASSUME NEW t \in Task, (\E h \in Handle : Stop(t, h)) \/ PlayOneShot(t) \/ Send(t)
      PROVE  ReleaseIsSeen'
  <2>1. queue' # <<>>
    BY <1>7, <1>8 DEF Stop, PlayOneShot, Send
  <2> QED BY <2>1 DEF ReleaseIsSeen
<1>9. ASSUME UNCHANGED releasePending, wpc # "wait", wpc # "sweep",
             Executed \/ wpc' \notin {"wait", "sweep"}
      PROVE  ReleaseIsSeen'
  BY <1>9 DEF ReleaseIsSeen, Executed, Goto, Slot
<1>10. CASE Receive
  BY <1>10 DEF Receive, ReleaseIsSeen, Executed, Goto, Slot
<1>11. CASE PlayOnce \/ Check \/ Skip \/ Unbind \/ PlayVoices \/ PlayFailed
  BY <1>9, <1>11 DEF PlayOnce, Check, Skip, Unbind, PlayVoices, PlayFailed, Goto
<1>12. CASE BindChannel \/ ReadVolume \/ ApplyBound \/ BindAgain \/ BindDone
  BY <1>9, <1>12 DEF BindChannel, ReadVolume, ApplyBound, BindAgain, BindDone, Goto
<1>13. CASE Sweep
  <2>1. /\ wpc = "sweep" /\ at \in Slot /\ UNCHANGED <<pc, command>>
        /\ \/ at < MaxVoices /\ wpc' = "sweep" /\ at' = at + 1
           \/ at = MaxVoices /\ wpc' = "wait"
    BY <1>13, ControllerAssumption DEF Sweep, Goto, WorkerInv, Slot
  <2>2. \A s \in Slot : releasePending'[s] => releasePending[s] /\ s # at
    BY <1>1, <1>13, <2>1 DEF Sweep, SlotsTyped
  <2>3. queue # <<>> => queue' # <<>>
    <3>1. CASE queue' = AgedQueue(at)
      <4>1. queue \in Seq(CommandType)
        BY <1>1 DEF QueueTyped
      <4>2. queue' \in Seq(CommandType) /\ Len(queue') = Len(queue)
        BY <2>1, <3>1, <4>1, AgedQueueFacts
      <4> QED BY <4>1, <4>2
    <3>2. CASE queue' = queue
      BY <3>2
    <3> QED BY <1>13, <3>1, <3>2 DEF Sweep
  <2>4. ASSUME NEW s \in Slot, releasePending'[s]
        PROVE  \/ \E t \in Task : pc'[t] = "send" /\ command'[t].type = "Release"
               \/ queue' # <<>>
               \/ wpc' # "wait" /\ (wpc' = "sweep" => at' <= s)
    <3>1. releasePending[s] /\ s # at
      BY <2>2, <2>4
    <3>2. \/ \E t \in Task : pc[t] = "send" /\ command[t].type = "Release"
          \/ queue # <<>>
          \/ at <= s
      BY <2>1, <3>1 DEF ReleaseIsSeen
    <3>3. at <= s => wpc' = "sweep" /\ at' <= s
      BY <2>1, <3>1, ControllerAssumption DEF Slot
    <3> QED BY <2>1, <2>3, <3>2, <3>3
  <2> QED BY <2>4 DEF ReleaseIsSeen
<1>14. CASE (\E c \in Channel : SoundEnds(c)) \/ UNCHANGED vars
  BY <1>2, <1>14 DEF SoundEnds, vars
<1>15. ASSUME NEW t \in Task, Calling(t) \/ Continue(t)
       PROVE  ReleaseIsSeen'
  <2>1. CASE Calling(t)
    BY <1>4, <1>6, <1>8, <2>1 DEF Calling
  <2>2. CASE Continue(t)
    BY <1>5, <1>8, <2>2 DEF Continue
  <2> QED BY <1>15, <2>1, <2>2
<1> QED
  BY <1>10, <1>11, <1>12, <1>13, <1>14, <1>15, CallsBegin DEF Next, Worker

-----------------------------------------------------------------------------
(* Channels.                                                               *)

\* What is known of the command in execution.
LEMMA JobFacts ==
  ASSUME TypeOK, WorkerInv, wpc \in {"check"} \cup Admitted
  PROVE  /\ job \in CommandType /\ job # None
         /\ \A p \in DOMAIN job.parts : p \in Nat /\ p >= 1 /\ job.parts[p].voice \in Slot
         /\ \A p, q \in DOMAIN job.parts : p # q => job.parts[p].voice # job.parts[q].voice
         /\ 1 \in DOMAIN job.parts
         /\ \A p \in DOMAIN job.parts :
              p + 1 \notin DOMAIN job.parts => \A q \in DOMAIN job.parts : q <= p
<1>1. job \in CommandType /\ job # None /\ job.type \in {"Play", "Stop"}
  BY DEF TypeOK, WorkerInv, Admitted, Binding
<1>2. DOMAIN job.parts \in {1 .. 1, 1 .. 2}
  BY <1>1, CommandFacts
<1>3. \A p \in DOMAIN job.parts : job.parts[p].voice \in Slot
  BY <1>1, CommandFacts DEF PartType
<1>4. \A p, q \in DOMAIN job.parts : p # q => job.parts[p].voice # job.parts[q].voice
  BY <1>1, CommandFacts
<1> HIDE DEF CommandType
<1> QED BY <1>1, <1>2, <1>3, <1>4

\* Stopping a voice silences its own channel and no other voice's.
LEMMA StopVoiceFacts ==
  ASSUME TypeOK, BoundIsOwn, NEW s \in Slot, StopVoiceChannel(s)
  PROVE  /\ \A r \in Slot : channel'[r] = IF r = s THEN None ELSE channel[r]
         /\ \A r \in Slot : r # s /\ channel[r] # None => sounding'[channel[r]] = "loop"
         /\ \A c \in Channel : sounding'[c] = "loop" => sounding[c] = "loop" /\ c # channel[s]
<1>1. /\ channel \in [Slot -> Channel \cup {None}]
      /\ sounding \in [Channel -> {"idle", "loop", "once", "fading"}]
  BY DEF TypeOK
<1>2. /\ channel' = [channel EXCEPT ![s] = None]
      /\ sounding' = [c \in Channel |-> IF c \in Stoppable(s) THEN "fading" ELSE sounding[c]]
  BY DEF StopVoiceChannel, Fade
<1>3. \A c \in Channel : c \in Stoppable(s) <=> c = channel[s] /\ sounding[c] # "idle"
  BY DEF Stoppable
<1>4. \A c \in Channel : sounding'[c] = IF c \in Stoppable(s) THEN "fading" ELSE sounding[c]
  BY <1>2
<1>5. \A r \in Slot : channel[r] # None =>
        channel[r] \in Channel /\ sounding[channel[r]] = "loop" /\ (channel[r] = channel[s] => r = s)
  BY <1>1 DEF BoundIsOwn
<1> QED BY <1>1, <1>2, <1>3, <1>4, <1>5

\* The loops stay as they are in the slots and in the worker's hands.
LEMMA BindingKept ==
  ASSUME TypeOK, WorkerInv, BindingInv, UNCHANGED channel,
         \A c \in Channel : sounding'[c] = "loop" <=> sounding[c] = "loop",
         \A s \in Slot : channel[s] # None => inUse'[s]
  PROVE  /\ BoundIsOwn'
         /\ \A c \in Channel : sounding'[c] = "loop" =>
              (\E s \in Slot : channel'[s] = c) \/ (wpc \in Binding /\ \E i \in DOMAIN started : started[i] = c)
<1>1. channel \in [Slot -> Channel \cup {None}]
  BY DEF TypeOK
<1>2. BoundIsOwn'
  BY <1>1 DEF BindingInv, NoOrphanLoop, BoundIsOwn
<1> QED BY <1>2 DEF BindingInv, NoOrphanLoop, Binding

\* A bound channel belongs to one slot, and a loop to a slot or to the worker's next step.
LEMMA BindingStep ==
  ASSUME TypeOK, HandleInv, CallInv, WorkerInv, AgeInv, BindingInv, [Next]_vars
  PROVE  BindingInv'
<1> USE DEF slotVars, callVars, workerVars, engineVars
<1>1. /\ channel \in [Slot -> Channel \cup {None}]
      /\ sounding \in [Channel -> {"idle", "loop", "once", "fading"}]
      /\ started \in Seq(Channel)
  BY DEF TypeOK
<1>2. BoundIsOwn
  BY DEF BindingInv, NoOrphanLoop
<1>3. \A s \in Slot : channel[s] # None => inUse[s]
  BY <1>2 DEF BoundIsOwn
<1>4. wpc \in Binding => DOMAIN started = DOMAIN job.parts
                         /\ \A p \in DOMAIN started : started[p] \in Channel
  BY <1>1 DEF WorkerInv
<1>5. CASE Aside
  <2>1. UNCHANGED <<wpc, job, at, started, channel>>
    BY <1>5 DEF Aside
  <2>2. /\ \A c \in Channel : sounding'[c] = "loop" <=> sounding[c] = "loop"
        /\ \A s \in Slot : channel[s] # None => inUse'[s]
    BY <1>3, <1>5 DEF Aside
  <2>3. NoOrphanLoop'
    BY <2>1, <2>2, BindingKept DEF NoOrphanLoop, Binding
  <2>4. wpc \in Binding => \A p \in DOMAIN job.parts : sounding'[started[p]] = "loop"
    BY <1>4, <2>2 DEF BindingInv
  <2> QED BY <2>1, <2>3, <2>4 DEF BindingInv, Published
<1>6. ASSUME NEW c \in CommandType, Sent(c)
      PROVE  BindingInv'
  <2>1. UNCHANGED <<wpc, at, started, channel, sounding, inUse>>
    BY <1>6 DEF Sent
  <2>2. wpc \in {"unbind", "play"} \cup Binding =>
          /\ DOMAIN job'.parts = DOMAIN job.parts
          /\ \A p \in DOMAIN job.parts : job'.parts[p].voice = job.parts[p].voice
    <3>1. wpc \in {"unbind", "play"} \cup Binding => job \in CommandType /\ job # None
      BY JobFacts DEF Admitted
    <3>2. job' = job \/ (job # None => job' = Supersede(job, c))
      BY <1>6, EnqueueFacts DEF Sent, Accepted
    <3> QED BY <3>1, <3>2, SupersedeFacts
  <2>3. NoOrphanLoop'
    BY <2>1 DEF BindingInv, NoOrphanLoop, BoundIsOwn
  <2> QED BY <2>1, <2>2, <2>3 DEF BindingInv, Published
<1>7. ASSUME UNCHANGED <<channel, inUse>>, wpc \notin Binding, wpc' \notin Binding \cup {"play"},
             wpc' = "unbind" => at' = 1 /\ wpc = "check" /\ job' = job,
             \A c \in Channel : sounding'[c] = "loop" <=> sounding[c] = "loop"
      PROVE  BindingInv'
  <2>1. NoOrphanLoop'
    BY <1>3, <1>7, BindingKept DEF NoOrphanLoop
  <2>2. wpc' = "unbind" => \A p \in DOMAIN job'.parts : ~(p < at')
    BY <1>7, JobFacts DEF Admitted
  <2> QED BY <1>7, <2>1, <2>2 DEF BindingInv
<1>8. CASE Receive \/ Check \/ Skip
  BY <1>7, <1>8 DEF Receive, Check, Skip, Executed, Goto, Binding
<1>9. CASE PlayOnce
  <2>1. \A c \in Channel : sounding'[c] = "loop" <=> sounding[c] = "loop"
    BY <1>1, <1>9 DEF PlayOnce, IdleChannels
  <2> QED BY <1>7, <1>9, <2>1 DEF PlayOnce, Executed, Goto, Binding
<1>10. CASE PlayFailed
  <2>1. \A c \in Channel : sounding'[c] = "loop" <=> sounding[c] = "loop"
    BY <1>1, <1>10 DEF PlayFailed, Fade, IdleChannels
  <2> QED BY <1>7, <1>10, <2>1 DEF PlayFailed, Executed, Goto, Binding
<1>11. CASE Unbind
  <2> DEFINE s == job.parts[at].voice
  <2>1. /\ wpc = "unbind" /\ StopVoiceChannel(s) /\ UNCHANGED inUse
        /\ at \in DOMAIN job.parts /\ s \in Slot
    BY <1>11, JobFacts DEF Unbind, WorkerInv, Admitted
  <2>2. /\ \A r \in Slot : channel'[r] = IF r = s THEN None ELSE channel[r]
        /\ \A r \in Slot : r # s /\ channel[r] # None => sounding'[channel[r]] = "loop"
        /\ \A c \in Channel : sounding'[c] = "loop" => sounding[c] = "loop" /\ c # channel[s]
    BY <1>2, <2>1, StopVoiceFacts
  <2> HIDE DEF s
  <2>3. NoOrphanLoop'
    <3>1. BoundIsOwn'
      BY <1>2, <2>1, <2>2 DEF BoundIsOwn
    <3>2. \A c \in Channel : sounding[c] = "loop" => \E r \in Slot : channel[r] = c
      BY <2>1 DEF BindingInv, NoOrphanLoop
    <3>3. \A c \in Channel : sounding'[c] = "loop" => \E r \in Slot : channel'[r] = c
      BY <2>1, <2>2, <3>2
    <3> QED BY <3>1, <3>3 DEF NoOrphanLoop
  <2>4. \A p \in DOMAIN job.parts : p <= at => channel'[job.parts[p].voice] = None
    <3>1. \A p \in DOMAIN job.parts : p < at => channel[job.parts[p].voice] = None
      BY <2>1 DEF BindingInv
    <3>2. \A p \in DOMAIN job.parts : p \in Nat /\ job.parts[p].voice \in Slot
      BY <2>1, JobFacts DEF Admitted
    <3>3. ASSUME NEW p \in DOMAIN job.parts, p <= at
          PROVE  channel'[job.parts[p].voice] = None
      <4>1. p < at \/ p = at
        BY <2>1, <3>2, <3>3
      <4> QED BY <2>2, <3>1, <3>2, <4>1 DEF s
    <3> QED BY <3>3
  <2>5. \/ wpc' = "sweep"
        \/ wpc' = "unbind" /\ at' = at + 1 /\ job' = job
        \/ wpc' = "play" /\ job' = job /\ at + 1 \notin DOMAIN job.parts
    BY <1>11 DEF Unbind, Executed, Goto
  <2>6. wpc' = "unbind" => \A p \in DOMAIN job'.parts : p < at' => channel'[job'.parts[p].voice] = None
    <3>1. \A p \in DOMAIN job.parts : p < at + 1 => p <= at
      BY <2>1, JobFacts DEF Admitted
    <3> QED BY <2>4, <2>5, <3>1
  <2>7. wpc' = "play" => \A p \in DOMAIN job'.parts : channel'[job'.parts[p].voice] = None
    <3>1. at + 1 \notin DOMAIN job.parts => \A p \in DOMAIN job.parts : p <= at
      BY <2>1, JobFacts DEF Admitted
    <3> QED BY <2>4, <2>5, <3>1
  <2> QED BY <2>3, <2>5, <2>6, <2>7 DEF BindingInv, Binding
<1>12. CASE PlayVoices
  <2>1. /\ wpc = "play" /\ wpc' = "bind" /\ at' = 1 /\ UNCHANGED <<job, channel, inUse>>
        /\ \A p \in DOMAIN job.parts : channel[job.parts[p].voice] = None
    BY <1>12 DEF PlayVoices, Goto, BindingInv
  <2>2. PICK cs \in [DOMAIN job.parts -> IdleChannels] :
          /\ started' = cs
          /\ sounding' = [c \in Channel |->
               IF \E i \in DOMAIN cs : cs[i] = c THEN "loop" ELSE sounding[c]]
    BY <1>12 DEF PlayVoices
  <2>3. \A p \in DOMAIN job.parts :
          cs[p] \in Channel /\ sounding[cs[p]] = "idle" /\ sounding'[cs[p]] = "loop"
    BY <2>2 DEF IdleChannels
  <2>4. \A s \in Slot : channel[s] # None => /\ sounding[channel[s]] = "loop"
                                             /\ sounding'[channel[s]] = "loop"
    BY <1>1, <1>2, <2>2 DEF BoundIsOwn
  <2>5. BoundIsOwn'
    BY <1>2, <2>1, <2>4 DEF BoundIsOwn
  <2>6. NoOrphanLoop'
    <3>1. \A c \in Channel : sounding'[c] = "loop" =>
            (\E i \in DOMAIN cs : cs[i] = c) \/ \E s \in Slot : channel[s] = c
      BY <2>1, <2>2 DEF BindingInv, NoOrphanLoop
    <3> QED BY <2>1, <2>2, <2>5, <3>1 DEF NoOrphanLoop
  <2>7. \A p \in DOMAIN job.parts : \A s \in Slot : channel[s] # cs[p]
    BY <1>1, <2>3, <2>4, ControllerAssumption
  <2>8. \A p \in DOMAIN job.parts : ~(p < 1)
    BY <2>1, JobFacts DEF Admitted
  <2> QED BY <2>1, <2>2, <2>3, <2>6, <2>7, <2>8 DEF BindingInv, Published
<1>13. wpc \in Binding => /\ at \in DOMAIN job.parts /\ at \in Nat /\ Bound \in Slot
                          /\ started[at] \in Channel
  BY <1>4, JobFacts DEF WorkerInv, Bound, Admitted
<1>14. CASE BindChannel
  <2>1. /\ wpc = "bind" /\ wpc' = "read" /\ at' = at /\ UNCHANGED <<job, started, sounding, inUse>>
        /\ wpc \in Binding
        /\ channel' = [channel EXCEPT ![Bound] = started[at]]
    BY <1>14 DEF BindChannel, Goto, Binding
  <2>2. \A s \in Slot : channel'[s] = IF s = Bound THEN started[at] ELSE channel[s]
    BY <1>1, <2>1
  <2>3. \A p \in DOMAIN job.parts :
          /\ sounding[started[p]] = "loop"
          /\ p < at => channel[job.parts[p].voice] = started[p]
          /\ ~(p < at) => channel[job.parts[p].voice] = None
                          /\ \A s \in Slot : channel[s] # started[p]
    BY <2>1 DEF BindingInv, Published
  <2>4. /\ inUse[Bound] /\ sounding[started[at]] = "loop" /\ channel[Bound] = None
        /\ \A s \in Slot : channel[s] # started[at]
    <3>1. inUse[Bound]
      BY <1>13, <2>1 DEF AgeInv, CommandReachesItsOwner, Bound
    <3> QED BY <1>13, <2>1, <2>3, <3>1 DEF Bound
  <2>5. BoundIsOwn'
    BY <1>2, <1>13, <2>1, <2>2, <2>4 DEF BoundIsOwn
  <2>6. NoOrphanLoop'
    <3>1. \A c \in Channel : sounding[c] = "loop" =>
            (\E s \in Slot : channel[s] = c) \/ \E i \in DOMAIN started : started[i] = c
      BY DEF BindingInv, NoOrphanLoop
    <3>2. \A s \in Slot : channel[s] \in Channel => channel'[s] = channel[s]
      BY <2>2, <2>4, ControllerAssumption
    <3> QED BY <2>1, <2>5, <3>1, <3>2 DEF NoOrphanLoop
  <2>7. ASSUME NEW p \in DOMAIN job.parts
        PROVE  /\ p <= at => channel'[job.parts[p].voice] = started[p]
               /\ ~(p <= at) => /\ channel'[job.parts[p].voice] = None
                                /\ \A s \in Slot : channel'[s] # started[p]
    <3>1. /\ p \in Nat /\ job.parts[p].voice \in Slot
          /\ p # at => job.parts[p].voice # Bound /\ started[p] # started[at]
      BY <1>4, <1>13, <2>1, JobFacts DEF Bound, WorkerInv, Admitted
    <3>2. CASE p = at
      BY <1>13, <2>1, <2>2, <3>2 DEF Bound
    <3>3. CASE p # at
      <4>1. p < at <=> p <= at
        BY <1>13, <2>1, <3>1, <3>3
      <4> QED BY <2>2, <2>3, <3>1, <3>3, <4>1
    <3> QED BY <3>2, <3>3
  <2>8. \A p \in DOMAIN job.parts : Published(p)' <=> p <= at
    <3>1. \A p \in DOMAIN job.parts : p \in Nat
      BY <2>1, JobFacts DEF Admitted
    <3>2. \A p \in DOMAIN job.parts : (p < at \/ p = at) <=> p <= at
      BY <1>13, <2>1, <3>1
    <3> QED BY <2>1, <3>2 DEF Published
  <2> QED BY <2>1, <2>3, <2>6, <2>7, <2>8 DEF BindingInv
<1>15. CASE ReadVolume \/ ApplyBound \/ BindAgain
  <2>1. /\ wpc \in {"read", "set", "recheck"} /\ wpc' \in {"set", "recheck"} /\ at' = at
        /\ UNCHANGED <<job, started, sounding, inUse, channel>>
    BY <1>15 DEF ReadVolume, ApplyBound, BindAgain, Goto
  <2>2. NoOrphanLoop'
    BY <2>1 DEF BindingInv, NoOrphanLoop, BoundIsOwn
  <2> QED BY <2>1, <2>2 DEF BindingInv, Published, Binding
<1>16. CASE BindDone
  <2>1. /\ wpc = "recheck" /\ wpc \in Binding /\ UNCHANGED <<channel, sounding, inUse>>
        /\ \/ wpc' = "bind" /\ at' = at + 1 /\ UNCHANGED <<job, started>>
           \/ wpc' = "sweep" /\ at + 1 \notin DOMAIN job.parts
    BY <1>16 DEF BindDone, Executed, Goto, Binding
  <2>2. \A p \in DOMAIN job.parts :
          /\ p \in Nat
          /\ p <= at => channel[job.parts[p].voice] = started[p]
          /\ ~(p <= at) => channel[job.parts[p].voice] = None
                           /\ \A s \in Slot : channel[s] # started[p]
    <3>1. \A p \in DOMAIN job.parts : p \in Nat
      BY <2>1, JobFacts DEF Admitted
    <3>2. \A p \in DOMAIN job.parts : Published(p) <=> p <= at
      BY <1>13, <2>1, <3>1 DEF Published
    <3> QED BY <2>1, <3>1, <3>2 DEF BindingInv
  <2>3. BoundIsOwn'
    BY <1>2, <2>1 DEF BoundIsOwn
  <2>4. \A c \in Channel : sounding[c] = "loop" =>
          (\E s \in Slot : channel[s] = c) \/ \E i \in DOMAIN started : started[i] = c
    BY DEF BindingInv, NoOrphanLoop
  <2>5. CASE wpc' = "bind" /\ at' = at + 1 /\ UNCHANGED <<job, started>>
    <3>1. NoOrphanLoop'
      BY <2>1, <2>3, <2>4, <2>5 DEF NoOrphanLoop
    <3>2. \A p \in DOMAIN job.parts : Published(p)' <=> p <= at
      <4>1. \A p \in DOMAIN job.parts : p < at + 1 <=> p <= at
        BY <1>13, <2>1, <2>2
      <4> QED BY <2>5, <4>1 DEF Published
    <3>3. \A p \in DOMAIN job.parts : sounding[started[p]] = "loop"
      BY <2>1 DEF BindingInv
    <3> QED BY <2>1, <2>2, <2>5, <3>1, <3>2, <3>3 DEF BindingInv
  <2>6. CASE wpc' = "sweep" /\ at + 1 \notin DOMAIN job.parts
    <3>1. \A p \in DOMAIN job.parts : p <= at /\ job.parts[p].voice \in Slot
      BY <1>13, <2>1, <2>6, JobFacts DEF Admitted
    <3>2. \A i \in DOMAIN started : \E s \in Slot : channel[s] = started[i]
      BY <1>4, <2>1, <2>2, <3>1
    <3>3. NoOrphanLoop'
      BY <2>1, <2>3, <2>4, <3>2 DEF NoOrphanLoop
    <3> QED BY <2>6, <3>3 DEF BindingInv, Binding
  <2> QED BY <2>1, <2>5, <2>6
<1>17. CASE Sweep
  <2>1. wpc = "sweep" /\ wpc' \in {"sweep", "wait"} /\ at \in Slot
    BY <1>17 DEF Sweep, Goto, WorkerInv
  <2>2. CASE releasePending[at]
    <3>1. StopVoiceChannel(at) /\ inUse' = [inUse EXCEPT ![at] = FALSE]
      BY <1>17, <2>2 DEF Sweep
    <3>2. /\ \A r \in Slot : channel'[r] = IF r = at THEN None ELSE channel[r]
          /\ \A r \in Slot : r # at /\ channel[r] # None => sounding'[channel[r]] = "loop"
          /\ \A c \in Channel : sounding'[c] = "loop" => sounding[c] = "loop" /\ c # channel[at]
      BY <1>2, <2>1, <3>1, StopVoiceFacts
    <3>3. \A r \in Slot : r # at => inUse'[r] = inUse[r]
      BY <2>1, <3>1 DEF TypeOK
    <3>4. BoundIsOwn'
      BY <1>2, <2>1, <3>2, <3>3 DEF BoundIsOwn
    <3>5. \A c \in Channel : sounding[c] = "loop" => \E r \in Slot : channel[r] = c
      BY <2>1 DEF BindingInv, NoOrphanLoop
    <3>6. \A c \in Channel : sounding'[c] = "loop" => \E r \in Slot : channel'[r] = c
      BY <2>1, <3>2, <3>5
    <3> QED BY <2>1, <3>4, <3>6 DEF NoOrphanLoop, BindingInv, Binding
  <2>3. CASE ~releasePending[at]
    BY <1>7, <1>17, <2>1, <2>3 DEF Sweep, Binding
  <2> QED BY <2>2, <2>3
<1> QED
  BY <1>5, <1>6, <1>8, <1>9, <1>10, <1>11, <1>12, <1>14, <1>15, <1>16, <1>17, NextKinds
  DEF Worker

-----------------------------------------------------------------------------
(* The last command.                                                       *)

\* What Enqueue makes of the last command of a voice.
LEMMA LastSent ==
  ASSUME TypeOK, NEW c \in CommandType, Sent(c), Accepted(c)
  PROVE  /\ \A s \in Slot : Names(c, s) => LastQueued(s)'
         /\ \A s \in Slot : LastQueued(s) => LastQueued(s)'
         /\ \A s \in Slot, i \in DOMAIN queue :
              IsLast(queue'[i], s) <=> IsLast(queue[i], s) /\ ~Names(c, s)
<1>1. /\ queue \in Seq(CommandType) /\ Len(queue) \in Nat
      /\ Len(queue) + 1 \in DOMAIN queue' /\ queue'[Len(queue) + 1] = c
      /\ DOMAIN queue \subseteq DOMAIN queue'
      /\ \A i \in DOMAIN queue : queue[i] \in CommandType /\ queue'[i] = Supersede(queue[i], c)
  <2>1. queue \in Seq(CommandType) /\ queue' \in Seq(CommandType)
    BY EnqueueFacts DEF TypeOK, Sent
  <2> QED BY <2>1 DEF Accepted
<1>2. \A s \in Slot : Names(c, s) => IsLast(c, s)
  BY DEF Names, IsLast, Sent
<1>3. \A s \in Slot : Names(c, s) => LastQueued(s)'
  BY <1>1, <1>2 DEF LastQueued
<1>4. ASSUME NEW s \in Slot, NEW i \in DOMAIN queue
      PROVE  IsLast(queue'[i], s) <=> IsLast(queue[i], s) /\ ~Names(c, s)
  BY <1>1, SupersedeFacts DEF IsLast
<1>5. ASSUME NEW s \in Slot, LastQueued(s)
      PROVE  LastQueued(s)'
  <2>1. CASE Names(c, s)
    BY <1>3, <2>1
  <2>2. CASE ~Names(c, s)
    BY <1>1, <1>4, <1>5, <2>2 DEF LastQueued
  <2> QED BY <2>1, <2>2
<1> QED BY <1>3, <1>4, <1>5

\* Only the last command accepted for a voice may leave its state to stand.
LEMMA LastStep ==
  ASSUME TypeOK, HandleInv, CallInv, WorkerInv, AgeInv, BindingInv, LastInv, [Next]_vars, TypeOK'
  PROVE  LastInv'
<1> USE DEF slotVars, callVars, workerVars, engineVars
<1> DEFINE Followed == \A i \in DOMAIN queue : \A p \in DOMAIN queue[i].parts :
              ~queue[i].parts[p].last =>
                \E k \in DOMAIN queue : k > i /\ IsLast(queue[k], queue[i].parts[p].voice)
           Overtaken == job # None => \A p \in DOMAIN job.parts :
              ~job.parts[p].last => LastQueued(job.parts[p].voice)
           Playing(s) == \/ current[s] \/ releasePending[s] \/ LastQueued(s)
                         \/ channel[s] = None /\ ~(wpc \in Binding /\ Names(job, s))
                         \/ wpc \in {"check", "unbind", "play"} /\ IsLast(job, s)
<1>1. LastInv <=> Followed /\ Overtaken /\ \A s \in Slot : Playing(s)
  BY DEF LastInv
<1>1p. LastInv' <=> Followed' /\ Overtaken' /\ \A s \in Slot : Playing(s)'
  BY DEF LastInv
<1>2. /\ queue \in Seq(CommandType) /\ Len(queue) \in Nat
      /\ current \in [Slot -> BOOLEAN] /\ releasePending \in [Slot -> BOOLEAN]
  BY DEF TypeOK
<1>3. CASE Aside
  <2>1. Followed' /\ Overtaken'
    BY <1>1, <1>3 DEF Aside, IsLast, LastQueued
  <2>2. \A s \in Slot : Playing(s)'
    BY <1>1, <1>3 DEF Aside, IsLast, LastQueued, Names
  <2> QED BY <1>1p, <2>1, <2>2
<1>4. ASSUME NEW c \in CommandType, Sent(c)
      PROVE  LastInv'
  <2>1. UNCHANGED <<wpc, channel, releasePending>>
    BY <1>4 DEF Sent
  <2>2. UNCHANGED <<queue, job, current>> \/ Accepted(c)
    BY <1>4, EnqueueFacts DEF Sent
  <2>3. CASE UNCHANGED <<queue, job, current>>
    BY <2>1, <2>3 DEF LastInv, LastQueued, IsLast, Names
  <2>4. CASE Accepted(c)
    <3>0. /\ queue' \in Seq(CommandType) /\ Len(queue') = Len(queue) + 1
          /\ queue'[Len(queue) + 1] = c
          /\ \A i \in DOMAIN queue : queue'[i] = Supersede(queue[i], c)
      BY <1>4, <2>4, EnqueueFacts DEF Sent, Accepted
    <3>1. Followed'
      <4> SUFFICES ASSUME NEW i \in DOMAIN queue', NEW p \in DOMAIN queue'[i].parts,
                          ~queue'[i].parts[p].last
                   PROVE  \E k \in DOMAIN queue' :
                            k > i /\ IsLast(queue'[k], queue'[i].parts[p].voice)
        BY DEF IsLast
      <4>1. i # Len(queue) + 1
        BY <1>4, <3>0 DEF Sent
      <4>2. i \in DOMAIN queue /\ i \in Nat /\ queue[i] \in CommandType
        BY <1>2, <3>0, <4>1
      <4>3. PICK v : v = queue[i].parts[p].voice
        OBVIOUS
      <4>4. /\ p \in DOMAIN queue[i].parts /\ queue'[i].parts[p].voice = v
            /\ ~queue[i].parts[p].last \/ Names(c, v)
        BY <3>0, <4>2, <4>3, SupersedeFacts
      <4>5. v \in Slot
        BY <4>2, <4>3, <4>4, PartTyped
      <4>6. CASE Names(c, v)
        <5>1. IsLast(c, v)
          BY <1>4, <4>6 DEF Sent, Names, IsLast
        <5>2. Len(queue) + 1 \in DOMAIN queue' /\ Len(queue) + 1 > i
          BY <1>2, <3>0, <4>2
        <5> QED BY <3>0, <4>4, <5>1, <5>2
      <4>7. CASE ~Names(c, v)
        <5>1. PICK k \in DOMAIN queue : k > i /\ IsLast(queue[k], v)
          BY <1>1, <4>2, <4>3, <4>4, <4>7
        <5>2. IsLast(queue'[k], v)
          BY <1>4, <2>4, <4>5, <4>7, <5>1, LastSent
        <5>3. k \in DOMAIN queue'
          BY <1>2, <3>0
        <5> QED BY <4>4, <5>1, <5>2, <5>3
      <4> QED BY <4>6, <4>7
    <3>2. job = None => job' = None
      BY <2>4 DEF Accepted
    <3>3. ASSUME job # None
          PROVE  /\ job' # None /\ DOMAIN job'.parts = DOMAIN job.parts
                 /\ \A p \in DOMAIN job.parts :
                      /\ job.parts[p].voice \in Slot
                      /\ job'.parts[p].voice = job.parts[p].voice
                      /\ job'.parts[p].last <=> job.parts[p].last /\ ~Names(c, job.parts[p].voice)
      <4>1. job \in CommandType /\ job' = Supersede(job, c) /\ job' # None
        BY <1>4, <2>4, <3>3, EnqueueFacts DEF TypeOK, Accepted, Sent
      <4> QED BY <4>1, SupersedeFacts, CommandFacts DEF PartType
    <3>4. Overtaken'
      <4> SUFFICES ASSUME job # None, NEW p \in DOMAIN job.parts, ~job'.parts[p].last
                   PROVE  LastQueued(job.parts[p].voice)'
        BY <3>2, <3>3
      <4>1. PICK v \in Slot : v = job.parts[p].voice /\ v = job'.parts[p].voice
        BY <3>3
      <4>2. LastQueued(v) \/ Names(c, v)
        BY <1>1, <3>3, <4>1
      <4>3. LastQueued(v)'
        BY <1>4, <2>4, <4>2, LastSent
      <4> QED BY <4>1, <4>3 DEF LastQueued
    <3>5. ASSUME NEW s \in Slot PROVE Playing(s)'
      <4>1. CASE LastQueued(s) \/ Names(c, s)
        BY <1>4, <2>4, <4>1, LastSent
      <4>2. CASE ~Names(c, s) /\ current[s]
        BY <2>4, <4>2 DEF Accepted
      <4>3. CASE releasePending[s]
        BY <2>1, <4>3
      <4>4. CASE channel[s] = None /\ ~(wpc \in Binding /\ Names(job, s))
        <5>1. wpc \in Binding => (Names(job, s)' <=> Names(job, s))
          BY <3>3 DEF WorkerInv, Binding, Names
        <5> QED BY <2>1, <4>4, <5>1
      <4>5. CASE wpc \in {"check", "unbind", "play"} /\ IsLast(job, s) /\ ~Names(c, s)
        <5>1. job # None
          BY <4>5 DEF WorkerInv
        <5>2. IsLast(job, s)'
          BY <3>3, <4>5, <5>1 DEF IsLast
        <5> QED BY <2>1, <4>5, <5>2
      <4>6. Playing(s)
        BY <1>1
      <4> QED BY <4>1, <4>2, <4>3, <4>4, <4>5, <4>6
    <3> QED BY <1>1p, <3>1, <3>4, <3>5
  <2> QED BY <2>2, <2>3, <2>4
<1>5. CASE Receive
  <2>1. /\ wpc = "wait" /\ queue # <<>> /\ queue' = Tail(queue)
        /\ UNCHANGED <<channel, releasePending, current>>
        /\ \/ Head(queue).type = "Release" /\ wpc' = "sweep" /\ job' = None
           \/ /\ wpc' = (IF Head(queue).type = "OneShot" THEN "once" ELSE "check")
              /\ job' = Head(queue)
    BY <1>5 DEF Receive, Executed, Goto
  <2>2. /\ 1 \in DOMAIN queue /\ Head(queue) = queue[1] /\ queue[1] \in CommandType
        /\ \A i \in DOMAIN queue' : i \in Nat /\ i + 1 \in DOMAIN queue /\ queue'[i] = queue[i + 1]
        /\ \A k \in DOMAIN queue : k # 1 => k - 1 \in DOMAIN queue' /\ queue'[k - 1] = queue[k]
        /\ \A k \in DOMAIN queue : k \in Nat
    BY <1>2, <2>1
  <2>3. Followed'
    <3> SUFFICES ASSUME NEW i \in DOMAIN queue', NEW p \in DOMAIN queue'[i].parts,
                        ~queue'[i].parts[p].last
                 PROVE  \E k \in DOMAIN queue' :
                          k > i /\ IsLast(queue'[k], queue'[i].parts[p].voice)
      BY DEF IsLast
    <3>1. i \in Nat /\ i + 1 \in DOMAIN queue /\ queue'[i] = queue[i + 1]
      BY <2>2
    <3>2. PICK k \in DOMAIN queue : k > i + 1 /\ IsLast(queue[k], queue[i + 1].parts[p].voice)
      BY <1>1, <3>1
    <3>3. k \in Nat /\ k # 1 /\ k - 1 > i
      BY <2>2, <3>1, <3>2
    <3>4. k - 1 \in DOMAIN queue' /\ queue'[k - 1] = queue[k]
      BY <2>2, <3>3
    <3> QED BY <3>1, <3>2, <3>3, <3>4
  <2>4. \A p \in DOMAIN queue[1].parts :
          ~queue[1].parts[p].last =>
            \E i \in DOMAIN queue' : IsLast(queue'[i], queue[1].parts[p].voice)
    <3> SUFFICES ASSUME NEW p \in DOMAIN queue[1].parts, ~queue[1].parts[p].last
                 PROVE  \E i \in DOMAIN queue' : IsLast(queue'[i], queue[1].parts[p].voice)
      OBVIOUS
    <3>1. PICK k \in DOMAIN queue : k > 1 /\ IsLast(queue[k], queue[1].parts[p].voice)
      BY <1>1, <2>2
    <3>2. k - 1 \in DOMAIN queue' /\ queue'[k - 1] = queue[k]
      BY <2>2, <3>1
    <3> QED BY <3>1, <3>2
  <2>5. Overtaken'
    BY <2>1, <2>2, <2>4 DEF LastQueued, IsLast
  <2>6. ASSUME NEW s \in Slot PROVE Playing(s)'
    <3>1. CASE LastQueued(s)
      <4>1. PICK k \in DOMAIN queue : IsLast(queue[k], s)
        BY <3>1 DEF LastQueued
      <4>2. CASE k # 1
        <5>1. k - 1 \in DOMAIN queue' /\ queue'[k - 1] = queue[k]
          BY <2>2, <4>2
        <5> QED BY <4>1, <5>1 DEF LastQueued, IsLast
      <4>3. CASE k = 1
        <5>1. queue[1].type \in {"Play", "Stop"}
          BY <2>2, <4>1, <4>3, CommandFacts DEF IsLast
        <5>2. wpc' = "check" /\ job' = queue[1]
          BY <2>1, <2>2, <5>1
        <5> QED BY <4>1, <4>3, <5>2 DEF IsLast
      <4> QED BY <4>2, <4>3
    <3>2. CASE current[s] \/ releasePending[s]
      BY <2>1, <3>2
    <3>3. CASE channel[s] = None
      BY <2>1, <3>3 DEF Binding
    <3>4. Playing(s)
      BY <1>1
    <3> QED BY <2>1, <3>1, <3>2, <3>3, <3>4
  <2> QED BY <1>1p, <2>3, <2>5, <2>6
<1>6. ASSUME queue' = queue, job' = job \/ job' = None
      PROVE  Followed' /\ Overtaken'
  BY <1>1, <1>6 DEF IsLast, LastQueued
<1>7. ASSUME queue' = queue PROVE \A s \in Slot : LastQueued(s)' <=> LastQueued(s)
  BY <1>7 DEF LastQueued, IsLast
<1>8. CASE PlayOnce \/ Check
  <2>1. /\ UNCHANGED <<queue, channel, releasePending, current>>
        /\ \/ wpc = "once" /\ wpc' = "sweep" /\ job' = None
           \/ wpc = "check" /\ wpc' = "unbind" /\ job' = job
    BY <1>8 DEF PlayOnce, Check, Executed, Goto
  <2>2. \A s \in Slot : Playing(s)'
    BY <1>1, <1>7, <2>1 DEF Binding, IsLast
  <2> QED BY <1>1p, <1>6, <2>1, <2>2
<1>9. CASE Skip
  <2>1. /\ wpc = "check" /\ wpc' = "sweep" /\ job' = None /\ ~OwnsSlots
        /\ UNCHANGED <<queue, channel, releasePending>>
        /\ current' = [s \in Slot |->
             \/ current[s]
             \/ \E i, j \in DOMAIN job.parts :
                  /\ job.parts[i].voice = s /\ job.parts[i].last
                  /\ releasePending[job.parts[j].voice] \/ job.parts[j].age # 0]
    BY <1>9 DEF Skip, Executed, Goto
  <2>2. \E j \in DOMAIN job.parts :
          releasePending[job.parts[j].voice] \/ job.parts[j].age # 0
    <3>1. PICK j \in DOMAIN job.parts : ~OwnsSlot(job.parts[j])
      BY <2>1 DEF OwnsSlots
    <3>2. job # None /\ job.parts[j] \in PartType
      BY <2>1, JobFacts, CommandFacts
    <3>3. Consistent(job.parts[j])
      BY <3>2 DEF AgeInv
    <3>4. PICK part \in PartType : part = job.parts[j]
      BY <3>2
    <3>5. generation[part.voice] \in Generation /\ part.generation \in Generation
      BY DEF TypeOK, PartType
    <3>6. part.age = 0 => generation[part.voice] = part.generation
      BY <3>3, <3>4, <3>5, ControllerAssumption DEF Consistent, Generation
    <3> QED BY <3>1, <3>4, <3>6 DEF OwnsSlot
  <2>3. \A s \in Slot : /\ current[s] => current'[s]
                        /\ IsLast(job, s) => current'[s]
    BY <2>1, <2>2 DEF IsLast
  <2>4. \A s \in Slot : Playing(s)'
    BY <1>1, <1>7, <2>1, <2>3 DEF Binding
  <2> QED BY <1>1p, <1>6, <2>1, <2>4
<1>10. CASE Unbind
  <2> DEFINE r == job.parts[at].voice
  <2>1. /\ wpc = "unbind" /\ StopVoiceChannel(r) /\ at \in DOMAIN job.parts /\ r \in Slot
        /\ UNCHANGED <<queue, releasePending, current>>
        /\ IF job.type = "Stop" THEN wpc' = "sweep" /\ job' = None
                                ELSE wpc' \in {"unbind", "play"} /\ job' = job
    BY <1>10, JobFacts DEF Unbind, Executed, Goto, WorkerInv, Admitted
  <2>2. \A s \in Slot : channel'[s] = IF s = r THEN None ELSE channel[s]
    BY <2>1, StopVoiceFacts DEF BindingInv, NoOrphanLoop
  <2>3. job.type = "Stop" => \A s \in Slot : IsLast(job, s) => s = r
    <3>1. job.type = "Stop" => DOMAIN job.parts = 1 .. 1
      BY <2>1, JobFacts, CommandFacts DEF Admitted
    <3> QED BY <2>1, <3>1 DEF IsLast
  <2> HIDE DEF r
  <2>4. \A s \in Slot : Playing(s)'
    BY <1>1, <1>7, <2>1, <2>2, <2>3 DEF Binding, IsLast
  <2> QED BY <1>1p, <1>6, <2>1, <2>4
<1>11. CASE PlayVoices
  <2>1. /\ wpc = "play" /\ wpc' = "bind" /\ UNCHANGED <<queue, channel, releasePending, job>>
        /\ current' = [s \in Slot |->
             current[s] \/ \E i \in DOMAIN job.parts : job.parts[i].voice = s /\ job.parts[i].last]
    BY <1>11 DEF PlayVoices, Goto
  <2>2. \A s \in Slot : /\ current[s] => current'[s]
                        /\ IsLast(job, s) => current'[s]
    BY <2>1 DEF IsLast
  <2>3. \A s \in Slot : Names(job, s) => IsLast(job, s) \/ LastQueued(s)
    BY <1>1, <2>1 DEF WorkerInv, Names, IsLast
  <2>4. ASSUME NEW s \in Slot PROVE Playing(s)'
    <3>1. Playing(s)
      BY <1>1
    <3>2. Names(job, s)' <=> Names(job, s)
      BY <2>1 DEF Names
    <3> QED BY <1>7, <2>1, <2>2, <2>3, <3>1, <3>2
  <2> QED BY <1>1p, <1>6, <2>1, <2>4
<1>12. CASE PlayFailed
  <2>1. /\ wpc = "play" /\ wpc' = "sweep" /\ job' = None
        /\ UNCHANGED <<queue, channel, releasePending, current>>
    BY <1>12 DEF PlayFailed, Executed, Goto
  <2>2. \A s \in Slot : IsLast(job, s) => channel[s] = None
    BY <2>1 DEF BindingInv, IsLast
  <2>3. \A s \in Slot : Playing(s)'
    BY <1>1, <1>7, <2>1, <2>2 DEF Binding
  <2> QED BY <1>1p, <1>6, <2>1, <2>3
<1>13. CASE BindChannel
  <2>1. /\ wpc = "bind" /\ wpc' = "read" /\ UNCHANGED <<queue, releasePending, current, job>>
        /\ channel' = [channel EXCEPT ![Bound] = started[at]]
        /\ at \in DOMAIN job.parts
    BY <1>13 DEF BindChannel, Goto, WorkerInv, Binding
  <2>2. Names(job, Bound)
    BY <2>1 DEF Names, Bound
  <2>3. \A s \in Slot : s # Bound => channel'[s] = channel[s]
    BY <2>1 DEF TypeOK
  <2>4. ASSUME NEW s \in Slot PROVE Playing(s)'
    <3>1. Playing(s)
      BY <1>1
    <3>2. Names(job, s)' <=> Names(job, s)
      BY <2>1 DEF Names
    <3> QED BY <1>7, <2>1, <2>2, <2>3, <3>1, <3>2 DEF Binding
  <2> QED BY <1>1p, <1>6, <2>1, <2>4
<1>14. CASE ReadVolume \/ ApplyBound \/ BindAgain \/ BindDone
  <2>1. /\ wpc \in Binding /\ UNCHANGED <<queue, channel, releasePending, current>>
        /\ \/ wpc' \in Binding /\ job' = job
           \/ wpc' = "sweep" /\ job' = None
    BY <1>14 DEF ReadVolume, ApplyBound, BindAgain, BindDone, Executed, Goto, Binding
  <2>2. ASSUME NEW s \in Slot PROVE Playing(s)'
    <3>1. Playing(s) /\ wpc \notin {"check", "unbind", "play"}
      BY <1>1, <2>1 DEF Binding
    <3>2. wpc' \in Binding => (Names(job, s)' <=> Names(job, s))
      BY <2>1 DEF Names, Binding
    <3> QED BY <1>7, <2>1, <3>1, <3>2
  <2> QED BY <1>1p, <1>6, <2>1, <2>2
<1>15. CASE Sweep
  <2>1. /\ wpc = "sweep" /\ wpc' \in {"sweep", "wait"} /\ job = None /\ job' = None /\ at \in Slot
    BY <1>15 DEF Sweep, Goto, WorkerInv
  <2>2. CASE releasePending[at]
    <3>1. /\ StopVoiceChannel(at) /\ queue' = AgedQueue(at)
          /\ current' = [current EXCEPT ![at] = TRUE]
          /\ releasePending' = [releasePending EXCEPT ![at] = FALSE]
      BY <1>15, <2>2 DEF Sweep
    <3>2. \A s \in Slot : channel'[s] = IF s = at THEN None ELSE channel[s]
      BY <2>1, <3>1, StopVoiceFacts DEF BindingInv, NoOrphanLoop
    <3>3. /\ DOMAIN queue' = DOMAIN queue
          /\ \A i \in DOMAIN queue :
               /\ DOMAIN queue'[i].parts = DOMAIN queue[i].parts
               /\ \A p \in DOMAIN queue[i].parts :
                    /\ queue'[i].parts[p].voice = queue[i].parts[p].voice
                    /\ queue'[i].parts[p].last = queue[i].parts[p].last
      <4>1. queue' \in Seq(CommandType) /\ Len(queue') = Len(queue)
        BY <1>2, <2>1, <3>1, AgedQueueFacts
      <4>2. DOMAIN queue' = DOMAIN queue
        BY <1>2, <4>1
      <4> QED BY <1>2, <2>1, <3>1, <4>2, AgedQueueFacts
    <3>4. \A i \in DOMAIN queue : \A v : IsLast(queue'[i], v) <=> IsLast(queue[i], v)
      BY <3>3 DEF IsLast
    <3>5. \A s \in Slot : LastQueued(s)' <=> LastQueued(s)
      <4>1. \A s \in Slot : (\E i \in DOMAIN queue' : IsLast(queue'[i], s)) <=> LastQueued(s)
        BY <3>3, <3>4 DEF LastQueued
      <4> QED BY <4>1 DEF LastQueued, IsLast
    <3>6. Followed'
      <4> SUFFICES ASSUME NEW i \in DOMAIN queue', NEW p \in DOMAIN queue'[i].parts,
                          ~queue'[i].parts[p].last
                   PROVE  \E k \in DOMAIN queue' :
                            k > i /\ IsLast(queue'[k], queue'[i].parts[p].voice)
        BY DEF IsLast
      <4>1. PICK k \in DOMAIN queue : k > i /\ IsLast(queue[k], queue[i].parts[p].voice)
        BY <1>1, <3>3
      <4> QED BY <3>3, <3>4, <4>1
    <3>7. \A s \in Slot : /\ current'[s] = (current[s] \/ s = at)
                          /\ s # at => releasePending'[s] = releasePending[s]
      BY <1>2, <2>1, <3>1
    <3>8. \A s \in Slot : Playing(s)'
      BY <1>1, <2>1, <3>2, <3>5, <3>7 DEF Binding
    <3> QED BY <1>1p, <2>1, <3>6, <3>8
  <2>3. CASE ~releasePending[at]
    <3>1. UNCHANGED <<queue, channel, releasePending, current>>
      BY <1>15, <2>3 DEF Sweep
    <3>2. \A s \in Slot : Playing(s)'
      BY <1>1, <1>7, <2>1, <3>1 DEF Binding
    <3> QED BY <1>1p, <1>6, <2>1, <3>1, <3>2
  <2> QED BY <2>2, <2>3
<1> QED
  BY <1>3, <1>4, <1>5, <1>8, <1>9, <1>10, <1>11, <1>12, <1>13, <1>14, <1>15, NextKinds
  DEF Worker

-----------------------------------------------------------------------------
(* Volumes.                                                                *)

\* Only the call that uses a handle sets the volume of its voice.
LEMMA OneTuner ==
  ASSUME TypeOK, HandleInv, CallInv, NEW h \in Handle, held[h] # None,
         NEW u \in Task, tuning[u] # None, tuning[u].voice = held[h].slot
  PROVE  h \in using[u]
<1>1. PICK g \in using[u] : held[g] # None /\ held[g].slot = tuning[u].voice
  BY DEF CallInv, CallOf
<1>2. g \in Handle
  BY DEF TypeOK
<1> QED BY <1>1, <1>2 DEF HandleInv

\* The volumes stand under a step that neither sets nor binds,
LEMMA QuietStep ==
  ASSUME VolumeInv, UNCHANGED <<volume, tuned, channel, target, strayed, wpc, at, applied>>,
         \A u \in Task : tuning'[u] # None => tuning'[u] = tuning[u],
         \A u \in Task : pc'[u] = "apply" => pc[u] = "apply" /\ tuning'[u] = tuning[u],
         wpc \in {"read", "set", "recheck"} => Bound' = Bound
  PROVE  VolumeInv'
<1>1. \A s \in Slot : Settled(s)' => Settled(s)
  BY DEF Settled
<1>2. \A s \in Slot : BeingBound(s) => BeingBound(s)'
  BY DEF BeingBound
<1>3. \A s \in Slot : Steady(s)'
  BY <1>1, <1>2 DEF Steady, VolumeInv
<1>4. \A t \in Task : tuning'[t] # None => tuning'[t].volume = volume'[tuning'[t].voice]
  BY DEF VolumeInv, VolumeNoted
<1> QED BY <1>3, <1>4 DEF VolumeInv, VolumeNoted

\* and a store alone puts the volume on its way, with the task that made it.
LEMMA StoreStep ==
  ASSUME TypeOK, VolumeInv, NEW t \in Task, NEW r \in Slot, NEW vol, StoreVolume(r, vol),
         UNCHANGED <<channel, target, strayed, wpc, job, at, applied>>,
         pc'[t] # "apply",
         tuning'[t] # None => tuning'[t].voice = r /\ tuning'[t].volume = vol,
         \A u \in Task \ {t} : /\ pc'[u] = pc[u] /\ tuning'[u] = tuning[u]
                               /\ pc[u] = "apply" => tuning[u] # None
                               /\ tuning[u] # None => tuning[u].voice # r
  PROVE  VolumeInv'
<1>1. /\ volume'[r] = vol /\ ~tuned'[r]
      /\ \A s \in Slot : s # r => volume'[s] = volume[s] /\ tuned'[s] = tuned[s]
  BY DEF StoreVolume, TypeOK
<1>2. ASSUME NEW u \in Task, tuning'[u] # None
      PROVE  tuning'[u].volume = volume'[tuning'[u].voice]
  <2>1. CASE u = t
    BY <1>1, <1>2, <2>1
  <2>2. CASE u # t
    <3>1. tuning'[u] = tuning[u] /\ tuning[u].voice # r /\ tuning[u] \in TuningType
      BY <1>2, <2>2 DEF TypeOK
    <3>2. tuning[u].voice \in Slot
      BY <3>1 DEF TuningType
    <3> QED BY <1>1, <1>2, <3>1, <3>2 DEF VolumeInv, VolumeNoted
  <2> QED BY <2>1, <2>2
<1>3. ~Settled(r)'
  BY <1>1 DEF Settled
<1>4. \A s \in Slot : s # r => (Settled(s)' => Settled(s))
  BY <1>1 DEF Settled
<1>5. \A s \in Slot : BeingBound(s) => BeingBound(s)'
  BY DEF BeingBound, Bound
<1>6. \A s \in Slot : Steady(s)'
  BY <1>1, <1>3, <1>4, <1>5 DEF Steady, VolumeInv
<1> QED BY <1>2, <1>6 DEF VolumeInv, VolumeNoted

\* A volume that was set is in the channel, or on its way there.
LEMMA VolumeStep ==
  ASSUME TypeOK, HandleInv, CallInv, WorkerInv, BindingInv, VolumeInv, [Next]_vars, TypeOK'
  PROVE  VolumeInv'
<1> USE DEF slotVars, callVars, workerVars, engineVars
<1>1. CallsTyped /\ SlotsTyped
  BY TypeParts
<1>2. /\ \A s \in Slot : Steady(s)
      /\ \A u \in Task : tuning[u] # None => /\ tuning[u].volume = volume[tuning[u].voice]
                                             /\ tuning[u].voice \in Slot
      /\ \A u \in Task : /\ pc[u] = "apply" => tuning[u] # None
                         /\ pc[u] \in {"load", "apply"} => tuning[u] # None
                         /\ pc[u] \in {"idle", "second", "send"} => tuning[u] = None
  BY <1>1 DEF VolumeInv, VolumeNoted, CallInv, CallOf, CallsTyped, TuningType
<1>3. /\ BoundIsOwn
      /\ \A s \in Slot : channel[s] # None => channel[s] \in Channel
  BY DEF BindingInv, NoOrphanLoop, TypeOK
<1>4. ASSUME NEW t \in Task, NEW h \in Handle, NEW s \in Slot, AcquireVoice(t, h, s)
      PROVE  VolumeInv'
  <2>1. /\ ~inUse[s] /\ volume' = [volume EXCEPT ![s] = 0]
        /\ tuned' = [tuned EXCEPT ![s] = FALSE]
        /\ UNCHANGED <<channel, target, strayed, pc, tuning, wpc, job, at, applied>>
    BY <1>4 DEF AcquireVoice
  <2>2. channel[s] = None
    BY <1>3, <2>1 DEF BoundIsOwn
  <2>3. \A r \in Slot : r # s => volume'[r] = volume[r] /\ tuned'[r] = tuned[r]
    BY <1>1, <2>1 DEF SlotsTyped
  <2>4. \A u \in Task : tuning[u] # None => tuning[u].voice # s
    BY <1>1, <2>1 DEF CallInv, CallOf, HandleInv, CallsTyped
  <2>5. \A r \in Slot : r # s => (Settled(r)' <=> Settled(r)) /\ (BeingBound(r) => BeingBound(r)')
    BY <2>1, <2>3 DEF Settled, BeingBound, Bound
  <2>6. \A r \in Slot : Steady(r)'
    BY <1>2, <2>1, <2>2, <2>3, <2>5 DEF Steady
  <2>7. \A u \in Task : tuning'[u] # None => tuning'[u].volume = volume'[tuning'[u].voice]
    BY <1>2, <2>1, <2>3, <2>4
  <2> QED BY <2>6, <2>7 DEF VolumeInv, VolumeNoted
<1>5. ASSUME NEW t \in Task, NEW h \in Handle,
             \/ \E vol \in StartVolume : Play(t, h, vol)
             \/ \E h2 \in Handle, vol1, vol2 \in StartVolume : PlayLinked(t, h, h2, vol1, vol2)
             \/ \E vol \in LaterVolume : SetVolume(t, h, vol)
      PROVE  VolumeInv'
  <2> DEFINE r == held[h].slot
  <2>1. PICK vol \in Volume :
          /\ held[h] # None /\ pc[t] = "idle" /\ Available(h) /\ StoreVolume(r, vol)
          /\ UNCHANGED <<channel, target, strayed, wpc, job, at, applied>>
          /\ \/ tuning' = tuning
             \/ tuning' = [tuning EXCEPT ![t] = [voice |-> r, volume |-> vol, channel |-> None]]
          /\ \E point \in {"send", "second", "load"} : pc' = [pc EXCEPT ![t] = point]
    BY <1>5 DEF Play, PlayLinked, SetVolume, Usable, Volume
  <2>2. r \in Slot
    BY <1>1, <2>1 DEF CallsTyped
  <2>3. \A u \in Task \ {t} : tuning[u] # None => tuning[u].voice # r
    BY <2>1, OneTuner DEF Available
  <2> HIDE DEF r
  <2>4. /\ pc'[t] # "apply"
        /\ tuning'[t] # None => tuning'[t].voice = r /\ tuning'[t].volume = vol
        /\ \A u \in Task \ {t} : pc'[u] = pc[u] /\ tuning'[u] = tuning[u]
    BY <1>1, <1>2, <2>1 DEF CallsTyped
  <2> QED BY <1>2, <2>1, <2>2, <2>3, <2>4, StoreStep
<1>6. ASSUME NEW t \in Task, StoreSecondVolume(t)
      PROVE  VolumeInv'
  <2> DEFINE r == command[t].parts[2].voice
             vol == command[t].parts[2].volume
  <2>1. /\ pc[t] = "second" /\ StoreVolume(r, vol) /\ pc' = [pc EXCEPT ![t] = "send"]
        /\ UNCHANGED <<channel, target, strayed, wpc, job, at, applied, tuning>>
    BY <1>6 DEF StoreSecondVolume
  <2>2. PICK h \in using[t] : held[h] # None /\ held[h].slot = r
    BY <2>1 DEF CallInv, CallOf, Fresh
  <2>3. h \in Handle /\ r \in Slot /\ \A u \in Task \ {t} : h \notin using[u]
    BY <1>1, <2>2 DEF CallInv, CallsTyped
  <2>4. \A u \in Task \ {t} : tuning[u] # None => tuning[u].voice # r
    BY <2>2, <2>3, OneTuner
  <2>5. /\ pc'[t] # "apply" /\ tuning'[t] = None
        /\ \A u \in Task \ {t} : pc'[u] = pc[u] /\ tuning'[u] = tuning[u]
    BY <1>1, <1>2, <2>1 DEF CallsTyped
  <2> HIDE DEF r, vol
  <2> QED BY <1>2, <2>1, <2>3, <2>4, <2>5, StoreStep
<1>7. ASSUME NEW t \in Task, NEW h \in Handle, Release(t, h)
      PROVE  VolumeInv'
  <2>1. /\ UNCHANGED <<volume, tuned, channel, target, strayed, wpc, job, at, applied, tuning>>
        /\ pc' = [pc EXCEPT ![t] = "send"]
    BY <1>7 DEF Release
  <2>2. \A u \in Task : pc'[u] = "apply" => pc[u] = "apply"
    BY <1>1, <2>1 DEF CallsTyped
  <2> QED BY <2>1, <2>2, QuietStep DEF Bound
<1>8. ASSUME NEW t \in Task, (\E h \in Handle : Stop(t, h)) \/ PlayOneShot(t) \/ Send(t)
      PROVE  VolumeInv'
  <2>1. PICK c \in CommandType : Sent(c)
    BY <1>8, Sending
  <2>2. UNCHANGED <<volume, tuned, channel, target, strayed, wpc, at, applied>>
    BY <2>1 DEF Sent
  <2>3. \A u \in Task : /\ tuning'[u] # None => tuning'[u] = tuning[u]
                        /\ pc'[u] = "apply" => pc[u] = "apply" /\ tuning'[u] = tuning[u]
    BY <1>1, <1>8 DEF Stop, PlayOneShot, Send, Return, CallsTyped
  <2>4. wpc \in {"read", "set", "recheck"} => Bound' = Bound
    <3> SUFFICES ASSUME wpc \in {"read", "set", "recheck"} PROVE Bound' = Bound
      OBVIOUS
    <3>1. job \in CommandType /\ job # None /\ at \in DOMAIN job.parts
      BY JobFacts DEF WorkerInv, Admitted, Binding
    <3>2. job' = job \/ job' = Supersede(job, c)
      BY <2>1, <3>1, EnqueueFacts DEF Sent, Accepted
    <3> QED BY <2>2, <3>1, <3>2, SupersedeFacts DEF Bound
  <2> QED BY <2>2, <2>3, <2>4, QuietStep
<1>9. ASSUME NEW t \in Task, LoadChannel(t)
      PROVE  VolumeInv'
  <2>1. /\ pc[t] = "load" /\ pc' = [pc EXCEPT ![t] = "apply"]
        /\ tuning' = [tuning EXCEPT ![t] =
             [tuning[t] EXCEPT !.channel = channel[tuning[t].voice]]]
        /\ UNCHANGED <<volume, tuned, channel, target, strayed, wpc, job, at, applied>>
    BY <1>1, <1>9 DEF LoadChannel, CallsTyped
  <2>2. tuning[t] \in TuningType /\ tuning[t] # None
    BY <1>1, <1>2, <2>1 DEF CallsTyped
  <2>3. tuning'[t] = [tuning[t] EXCEPT !.channel = channel[tuning[t].voice]]
    BY <1>1, <2>1 DEF CallsTyped
  <2>4. /\ tuning'[t].voice = tuning[t].voice /\ tuning'[t].volume = tuning[t].volume
        /\ tuning'[t].channel = channel[tuning[t].voice]
    BY <2>2, <2>3 DEF TuningType
  <2>5. \A u \in Task \ {t} : tuning'[u] = tuning[u] /\ pc'[u] = pc[u]
    BY <1>1, <2>1 DEF CallsTyped
  <2>6. \A s \in Slot : /\ Settled(s)' => Settled(s)
                        /\ BeingBound(s) => BeingBound(s)'
    BY <2>1, <2>4, <2>5 DEF Settled, BeingBound, Bound
  <2>7. \A s \in Slot : Steady(s)'
    BY <1>2, <2>1, <2>6 DEF Steady
  <2>8. \A u \in Task : tuning'[u] # None => tuning'[u].volume = volume'[tuning'[u].voice]
    BY <1>2, <2>1, <2>2, <2>4, <2>5
  <2> QED BY <2>7, <2>8 DEF VolumeInv, VolumeNoted
<1>10. ASSUME NEW t \in Task, LoadNoChannel(t) \/ ApplyVolume(t)
       PROVE  VolumeInv'
  <2> DEFINE s == tuning[t].voice
             c == tuning[t].channel
  <2>1. /\ tuned' = [tuned EXCEPT ![s] = TRUE] /\ Return(t)
        /\ UNCHANGED <<volume, channel, wpc, job, at, applied>>
        /\ tuning[t] # None /\ s \in Slot /\ tuning[t].volume = volume[s]
    BY <1>2, <1>10 DEF LoadNoChannel, ApplyVolume
  <2>2. /\ pc'[t] = "idle" /\ tuning'[t] = None
        /\ \A u \in Task \ {t} : pc'[u] = pc[u] /\ tuning'[u] = tuning[u]
    BY <1>1, <2>1 DEF Return, CallsTyped
  <2>3. \A u \in Task : tuning'[u] # None => tuning'[u].volume = volume'[tuning'[u].voice]
    BY <1>2, <2>1, <2>2
  <2>4. \A r \in Slot : r # s => (Settled(r)' => Settled(r))
    BY <1>1, <2>1, <2>2 DEF Settled, SlotsTyped
  <2>5. CASE LoadNoChannel(t)
    <3>1. channel[s] = None /\ UNCHANGED <<target, strayed>>
      BY <2>5 DEF LoadNoChannel
    <3>2. \A r \in Slot : BeingBound(r) => BeingBound(r)'
      BY <2>1, <3>1 DEF BeingBound, Bound
    <3> HIDE DEF s
    <3>3. \A r \in Slot : Steady(r)'
      BY <1>2, <2>1, <2>4, <3>1, <3>2 DEF Steady
    <3> QED BY <2>3, <3>3 DEF VolumeInv, VolumeNoted
  <2>6. CASE ApplyVolume(t)
    <3>1. /\ pc[t] = "apply"
          /\ IF sounding[c] = "loop"
             THEN /\ target' = [target EXCEPT ![c] = volume[s]]
                  /\ strayed' = [strayed EXCEPT ![c] = @ \/ channel[s] # c]
             ELSE UNCHANGED <<target, strayed>>
      BY <2>1, <2>6 DEF ApplyVolume
    <3>2. channel[s] # c => Settled(s)
      BY <3>1 DEF Settled
    <3>3. /\ target \in [Channel -> Volume] /\ strayed \in [Channel -> BOOLEAN]
      BY DEF TypeOK
    <3> HIDE DEF s, c
    <3>4. ASSUME NEW r \in Slot, channel[r] # None, channel[r] # c
          PROVE  target'[channel[r]] = target[channel[r]] /\ strayed'[channel[r]] = strayed[channel[r]]
      BY <1>3, <3>1, <3>3, <3>4
    <3>5. \A r \in Slot : channel[r] # None => sounding[channel[r]] = "loop"
      BY <1>3 DEF BoundIsOwn
    <3>6. ASSUME NEW r \in Slot, channel[r] # None, ~strayed'[channel[r]], Settled(r)'
          PROVE  target'[channel[r]] = volume[r] \/ BeingBound(r)'
      <4>1. CASE channel[r] # c
        <5>1. /\ target'[channel[r]] = target[channel[r]]
              /\ strayed'[channel[r]] = strayed[channel[r]]
          BY <3>4, <3>6, <4>1
        <5>2. Settled(r)
          BY <2>4, <3>2, <3>6, <4>1
        <5>3. target[channel[r]] = volume[r] \/ BeingBound(r)
          BY <1>2, <3>6, <5>1, <5>2 DEF Steady
        <5> QED BY <2>1, <5>1, <5>3 DEF BeingBound, Bound
      <4>2. CASE channel[r] = c
        <5>1. c \in Channel /\ sounding[c] = "loop"
          BY <1>3, <3>5, <3>6, <4>2
        <5>2. channel[s] = c
          BY <3>1, <3>3, <3>6, <4>2, <5>1
        <5>3. r = s
          BY <1>3, <2>1, <3>6, <4>2, <5>2 DEF BoundIsOwn
        <5> QED BY <3>1, <3>3, <4>2, <5>1, <5>3
      <4> QED BY <4>1, <4>2
    <3>7. \A r \in Slot : Steady(r)'
      BY <2>1, <3>6 DEF Steady
    <3> QED BY <2>3, <3>7 DEF VolumeInv, VolumeNoted
  <2> QED BY <1>10, <2>5, <2>6
<1>11. ASSUME UNCHANGED <<callVars, volume>>, \A s \in Slot : Steady(s)'
       PROVE  VolumeInv'
  BY <1>2, <1>11 DEF VolumeInv, VolumeNoted
<1>12. ASSUME UNCHANGED <<callVars, volume, channel, tuned>>,
              \A s \in Slot : channel[s] # None =>
                target'[channel[s]] = target[channel[s]] /\ strayed'[channel[s]] = strayed[channel[s]],
              \A s \in Slot : channel[s] # None /\ BeingBound(s) =>
                BeingBound(s)' \/ target[channel[s]] = volume[s]
       PROVE  VolumeInv'
  <2>1. \A s \in Slot : Settled(s)' => Settled(s)
    BY <1>12 DEF Settled
  <2>2. \A s \in Slot : Steady(s)'
    BY <1>2, <1>12, <2>1 DEF Steady
  <2> QED BY <1>11, <1>12, <2>2
<1>13. CASE Receive \/ PlayOnce \/ Check \/ Skip
  <2>1. wpc \notin {"read", "set", "recheck"}
        /\ UNCHANGED <<callVars, volume, channel, tuned, target, strayed>>
    BY <1>13 DEF Receive, PlayOnce, Check, Skip
  <2>2. \A s \in Slot : ~BeingBound(s)
    BY <2>1 DEF BeingBound
  <2> QED BY <1>12, <2>1, <2>2
<1>14. CASE PlayVoices \/ PlayFailed
  <2>1. wpc = "play" /\ UNCHANGED <<callVars, volume, channel, tuned>>
    BY <1>14 DEF PlayVoices, PlayFailed
  <2>2. \A s \in Slot : channel[s] # None => channel[s] \notin IdleChannels /\ channel[s] \in Channel
    BY <1>3 DEF BoundIsOwn, IdleChannels
  <2>3. ASSUME NEW c \in Channel \ IdleChannels
        PROVE  target'[c] = target[c] /\ strayed'[c] = strayed[c]
    <3>1. CASE PlayVoices
      <4>1. PICK cs \in [DOMAIN job.parts -> IdleChannels] :
              target' = [d \in Channel |->
                IF \E i \in DOMAIN cs : cs[i] = d
                THEN job.parts[CHOOSE i \in DOMAIN cs : cs[i] = d].volume ELSE target[d]]
        BY <3>1 DEF PlayVoices
      <4>2. ~\E i \in DOMAIN cs : cs[i] = c
        OBVIOUS
      <4>3. strayed' = strayed
        BY <3>1 DEF PlayVoices
      <4> QED BY <4>1, <4>2, <4>3
    <3>2. CASE PlayFailed
      <4>1. PICK cs \in SUBSET IdleChannels : Fade(cs)
        BY <3>2 DEF PlayFailed
      <4> QED BY <4>1, <1>1 DEF Fade, SlotsTyped, TypeOK
    <3> QED BY <1>14, <3>1, <3>2
  <2>4. \A s \in Slot : ~BeingBound(s)
    BY <2>1 DEF BeingBound
  <2> QED BY <1>12, <2>1, <2>2, <2>3, <2>4
<1>15. CASE ReadVolume \/ BindAgain \/ BindDone
  <2>1. UNCHANGED <<callVars, volume, channel, tuned, target, strayed>>
    BY <1>15 DEF ReadVolume, BindAgain, BindDone
  <2>2. \A s \in Slot : BeingBound(s) => BeingBound(s)' \/ target[channel[s]] = volume[s]
    BY <1>15 DEF ReadVolume, BindAgain, BindDone, Goto, BeingBound, Bound
  <2> QED BY <1>12, <2>1, <2>2
<1>16. ASSUME NEW r \in Slot, StopVoiceChannel(r), UNCHANGED <<callVars, volume>>,
              \A s \in Slot : s # r => tuned'[s] = tuned[s],
              wpc \notin {"read", "set", "recheck"}
       PROVE  VolumeInv'
  <2>1. \A s \in Slot : channel'[s] = IF s = r THEN None ELSE channel[s]
    BY <1>3, <1>16, StopVoiceFacts
  <2>2. \A c \in Channel : c # channel[r] => target'[c] = target[c] /\ strayed'[c] = strayed[c]
    BY <1>16 DEF StopVoiceChannel, Fade, Stoppable, TypeOK
  <2>3. \A s \in Slot : ~BeingBound(s)
    BY <1>16 DEF BeingBound
  <2>4. ASSUME NEW s \in Slot, channel'[s] # None, ~strayed'[channel'[s]], Settled(s)'
        PROVE  target'[channel'[s]] = volume'[s]
    <3>1. s # r /\ channel'[s] = channel[s] /\ channel[s] # channel[r] /\ channel[s] \in Channel
      BY <1>3, <2>1, <2>4 DEF BoundIsOwn
    <3>2. Settled(s)
      BY <1>16, <2>4, <3>1 DEF Settled
    <3> QED BY <1>2, <1>16, <2>2, <2>3, <2>4, <3>1, <3>2 DEF Steady
  <2>5. \A s \in Slot : Steady(s)'
    BY <2>4 DEF Steady
  <2> QED BY <1>11, <1>16, <2>5
<1>17. CASE Unbind
  <2>1. job.parts[at].voice \in Slot /\ wpc = "unbind"
    BY <1>17, JobFacts DEF Unbind, WorkerInv, Admitted
  <2> QED BY <1>16, <1>17, <2>1 DEF Unbind
<1>18. CASE Sweep
  <2>1. at \in Slot /\ wpc = "sweep"
    BY <1>18 DEF Sweep, WorkerInv
  <2>2. CASE releasePending[at]
    <3>1. /\ StopVoiceChannel(at) /\ UNCHANGED <<callVars, volume>>
          /\ \A s \in Slot : s # at => tuned'[s] = tuned[s]
      BY <1>1, <1>18, <2>2 DEF Sweep, SlotsTyped
    <3> QED BY <1>16, <2>1, <3>1
  <2>3. CASE ~releasePending[at]
    <3>1. UNCHANGED <<callVars, volume, channel, tuned, target, strayed>>
      BY <1>18, <2>3 DEF Sweep
    <3>2. \A s \in Slot : ~BeingBound(s)
      BY <2>1 DEF BeingBound
    <3> QED BY <1>12, <3>1, <3>2
  <2> QED BY <2>2, <2>3
<1>19. CASE BindChannel
  <2>1. /\ wpc = "bind" /\ wpc' = "read" /\ at' = at
        /\ UNCHANGED <<callVars, volume, tuned, target, strayed, job>>
        /\ \A s \in Slot : s # Bound => channel'[s] = channel[s]
    BY <1>19 DEF BindChannel, Goto, TypeOK
  <2>2. BeingBound(Bound)'
    BY <2>1 DEF BeingBound, Bound
  <2>3. \A s \in Slot : ~BeingBound(s)
    BY <2>1 DEF BeingBound
  <2>4. ASSUME NEW s \in Slot PROVE Steady(s)'
    <3>1. CASE s = Bound
      <4>1. BeingBound(s)'
        BY <2>1, <3>1 DEF BeingBound, Bound
      <4> QED BY <4>1 DEF Steady
    <3>2. CASE s # Bound
      <4>1. Settled(s)' => Settled(s)
        BY <2>1, <3>2 DEF Settled
      <4> QED BY <1>2, <2>1, <2>3, <3>2, <4>1 DEF Steady
    <3> QED BY <3>1, <3>2
  <2> QED BY <1>11, <2>1, <2>4
<1>20. CASE ApplyBound
  <2>1. /\ wpc = "set" /\ wpc' = "recheck" /\ at' = at
        /\ UNCHANGED <<callVars, volume, tuned, channel, job, applied>>
        /\ target' = [target EXCEPT ![started[at]] = applied]
        /\ strayed' = [strayed EXCEPT ![started[at]] = FALSE]
    BY <1>20 DEF ApplyBound, Goto
  <2>2. at \in DOMAIN job.parts /\ Bound \in Slot /\ at \in Nat
    BY <2>1, JobFacts DEF WorkerInv, Admitted, Binding, Bound
  <2>3. channel[Bound] = started[at] /\ sounding[started[at]] = "loop" /\ started[at] \in Channel
    <3>1. started[at] \in Channel
      BY <2>1, <2>2 DEF TypeOK, WorkerInv, Binding
    <3> QED BY <2>1, <2>2, <3>1 DEF BindingInv, Published, Binding, Bound
  <2>4. ASSUME NEW s \in Slot PROVE Steady(s)'
    <3>1. Settled(s)' => Settled(s)
      BY <2>1 DEF Settled
    <3>2. CASE s = Bound
      <4>1. target'[channel[s]] = applied
        BY <2>1, <2>3, <3>2 DEF TypeOK
      <4>2. BeingBound(s)'
        BY <2>1, <3>2, <4>1 DEF BeingBound, Bound
      <4> QED BY <4>2 DEF Steady
    <3>3. CASE s # Bound
      <4>1. channel[s] # None => channel[s] # started[at] /\ channel[s] \in Channel
        BY <1>3, <2>2, <2>3, <3>3, ControllerAssumption DEF BoundIsOwn
      <4>2. channel[s] # None => /\ target'[channel[s]] = target[channel[s]]
                                 /\ strayed'[channel[s]] = strayed[channel[s]]
        BY <2>1, <4>1 DEF TypeOK
      <4>3. ~BeingBound(s)
        BY <2>1, <3>3 DEF BeingBound
      <4> QED BY <1>2, <2>1, <3>1, <4>2, <4>3 DEF Steady
    <3> QED BY <3>2, <3>3
  <2> QED BY <1>11, <2>1, <2>4
<1>21. CASE (\E c \in Channel : SoundEnds(c)) \/ UNCHANGED vars
  <2>1. UNCHANGED <<volume, tuned, channel, target, strayed, wpc, job, at, applied, pc, tuning>>
    BY <1>21 DEF SoundEnds, vars
  <2> QED BY <2>1, QuietStep DEF Bound
<1>22. ASSUME NEW t \in Task, Calling(t) \/ Continue(t)
       PROVE  VolumeInv'
  <2>1. CASE Calling(t)
    BY <1>4, <1>5, <1>7, <1>8, <2>1 DEF Calling
  <2>2. CASE Continue(t)
    BY <1>6, <1>8, <1>9, <1>10, <2>2 DEF Continue
  <2> QED BY <1>22, <2>1, <2>2
<1> QED
  BY <1>13, <1>14, <1>15, <1>17, <1>18, <1>19, <1>20, <1>21, <1>22, CallsBegin DEF Next, Worker

-----------------------------------------------------------------------------
(* The theorems.                                                           *)

\* The controller begins with free slots, an empty queue and a silent engine.
LEMMA InitInv == Init => ControllerInv
<1> SUFFICES ASSUME Init PROVE ControllerInv
  OBVIOUS
<1>1. MaxVoices \in Nat \ {0} /\ QueueDepth \in Nat \ {0} /\ Generations \in Nat \ {0}
  BY ControllerAssumption
<1>2. 0 \in Volume /\ 0 \in Generation
  BY <1>1 DEF Volume, Generation
<1>3. queue = <<>> /\ started = <<>> /\ Len(<<>>) = 0 /\ DOMAIN queue = {}
  BY DEF Init
<1>4. TypeOK
  <2>1. SlotsTyped /\ CallsTyped /\ EngineTyped
    BY <1>2 DEF Init, SlotsTyped, CallsTyped, EngineTyped
  <2>2. QueueTyped
    BY <1>1, <1>3, EmptyTyped DEF Init, QueueTyped
  <2>3. WorkerTyped
    BY <1>2, EmptyTyped DEF Init, WorkerTyped, WorkerPoint
  <2> QED BY <2>1, <2>2, <2>3, TypeParts
<1>5. HandleInv /\ CallInv
  BY DEF Init, HandleInv, CallInv, CallOf
<1>6. WorkerInv
  BY DEF Init, WorkerInv, Admitted, Binding
<1>7. AgeInv
  BY <1>3 DEF Init, AgeInv, CommandReachesItsOwner
<1>8. ReleaseIsSeen
  BY DEF Init, ReleaseIsSeen
<1>9. BindingInv
  BY DEF Init, BindingInv, NoOrphanLoop, BoundIsOwn, Binding
<1>10. LastInv
  BY <1>3 DEF Init, LastInv
<1>11. VolumeInv
  BY DEF Init, VolumeInv, VolumeNoted, Steady
<1> QED BY <1>4, <1>5, <1>6, <1>7, <1>8, <1>9, <1>10, <1>11 DEF ControllerInv

\* The parts of the invariant carry each other over every step,
LEMMA ControllerStep == ControllerInv /\ [Next]_vars => ControllerInv'
<1> SUFFICES ASSUME ControllerInv, [Next]_vars PROVE ControllerInv'
  OBVIOUS
<1>1. /\ TypeOK /\ HandleInv /\ CallInv /\ WorkerInv /\ AgeInv /\ ReleaseIsSeen
      /\ BindingInv /\ LastInv /\ VolumeInv
  BY DEF ControllerInv
<1>2. TypeOK'
  BY <1>1, TypeStep
<1>3. HandleInv' /\ CallInv' /\ WorkerInv'
  BY <1>1, HandleStep, CallStep, WorkerStep
<1>4. AgeInv' /\ ReleaseIsSeen' /\ BindingInv'
  BY <1>1, <1>2, AgeStep, ReleaseStep, BindingStep
<1>5. LastInv' /\ VolumeInv'
  BY <1>1, <1>2, LastStep, VolumeStep
<1> QED BY <1>2, <1>3, <1>4, <1>5 DEF ControllerInv

\* so it holds in every state.
LEMMA ControllerInvAlways == Spec => []ControllerInv
BY InitInv, ControllerStep, PTL DEF Spec

\* Every variable keeps its type: the queue its depth, a generation its width, and a command
\* never names one voice twice.
THEOREM TypeCorrect == Spec => []TypeOK
<1>1. ControllerInv => TypeOK
  BY DEF ControllerInv
<1> QED BY <1>1, ControllerInvAlways, PTL

\* What ownsSlot() lets through was given by the owner that still holds the slot, however often
\* slots change hands and generations wrap around while commands wait.
THEOREM CommandReachesItsOwnerAlways == Spec => []CommandReachesItsOwner
<1>1. ControllerInv => CommandReachesItsOwner
  BY DEF ControllerInv, AgeInv
<1> QED BY <1>1, ControllerInvAlways, PTL

\* A loop is in a slot of its own or in the hands of audio_ctrl, so it can always be stopped, and
\* stopping it stops nothing else.
THEOREM NoOrphanLoopAlways == Spec => []NoOrphanLoop
<1>1. ControllerInv => NoOrphanLoop
  BY DEF ControllerInv, BindingInv
<1> QED BY <1>1, ControllerInvAlways, PTL

\* A voice that has a channel and no command on the way plays what its last accepted command
\* asked for, whatever else was dropped, skipped or failed.
THEOREM LastCommandObeyedAlways == Spec => []LastCommandObeyed
<1>1. ControllerInv => LastCommandObeyed
  <2> SUFFICES ASSUME ControllerInv, NEW s \in Slot,
                      channel[s] # None, ~releasePending[s],
                      ~\E i \in DOMAIN queue : Names(queue[i], s), job # None => ~Names(job, s)
               PROVE  current[s]
    BY DEF LastCommandObeyed
  <2>1. ~LastQueued(s)
    BY DEF LastQueued, IsLast, Names
  <2>2. wpc \in {"check", "unbind", "play"} \cup Binding => job # None
    BY DEF ControllerInv, WorkerInv, Binding
  <2>3. job # None => ~IsLast(job, s)
    BY DEF IsLast, Names
  <2> QED BY <2>1, <2>2, <2>3 DEF ControllerInv, LastInv
<1> QED BY <1>1, ControllerInvAlways, PTL

\* The latest volume of a voice reaches its channel, although setVoiceVolume() and bindChannel()
\* each write the channel without knowing of the other.
THEOREM LatestVolumeWinsAlways == Spec => []LatestVolumeWins
<1>1. ControllerInv => LatestVolumeWins
  BY DEF ControllerInv, VolumeInv, Steady, Settled, BeingBound, LatestVolumeWins
<1> QED BY <1>1, ControllerInvAlways, PTL

\* A release is never lost, although its command may be: the flag is swept.
THEOREM ReleaseIsSeenAlways == Spec => []ReleaseIsSeen
<1>1. ControllerInv => ReleaseIsSeen
  BY DEF ControllerInv
<1> QED BY <1>1, ControllerInvAlways, PTL
=============================================================================
