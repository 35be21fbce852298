-------------------------- MODULE MetricsReporter --------------------------
(***************************************************************************)
(* The diagnostics of a metrics build (CONFIG_SABER_METRICS): every task   *)
(* records into lock-free accumulators (diagnostics/Metrics.cpp), the bus  *)
(* task marks the ignition sessions, and the reporter task                 *)
(* (system/metrics/MetricsReporter.cpp) captures one block per session and *)
(* appends the blocks to a file while the saber is idle.                   *)
(*                                                                         *)
(* Of the accumulators three stand for the rest: the count and the sum of  *)
(* one metric, which its task adds to one after the other for each sample, *)
(* and a counter that the reporter feeds from the audio engine's running   *)
(* total.  Each addition is 1.                                             *)
(*                                                                         *)
(* All deadlines a flush waits for are one, their maximum: `held' says     *)
(* that the latest of them has not passed yet.  The content of a row, the  *)
(* rates and the heap readings are left out, and so is the status LED that *)
(* shows how a flush went.  A behaviour begins when the reporter runs; the *)
(* first preload keeps the saber locked until long after that.             *)
(***************************************************************************)
EXTENDS Integers, Sequences, FiniteSetsExt

CONSTANTS
  MaxPending,    \* kMaxPendingBlocks
  MaxFileIndex,  \* kMaxFileIndex
  MaxBoots,      \* bound: power-ups
  MaxSessions,   \* bound: sessions of each boot
  MaxSamples     \* bound: samples recorded in each boot, of each kind

ASSUME ReporterAssumption ==
  /\ MaxPending \in Nat \ {0} /\ MaxFileIndex \in Nat \ {0}
  /\ MaxBoots \in Nat \ {0}
  /\ MaxSessions \in [1 .. MaxBoots -> Nat] /\ MaxSamples \in [1 .. MaxBoots -> Nat]

Field == {"count", "sum", "audio"}
Zero == [f \in Field |-> 0]

VARIABLES
  sessionActive, power, bits,    \* the session flag, the bus's notification to make, the bits set
  live, halfway,                 \* the accumulators; 1 if a sample is in "count" but not in "sum"
  engine, lastStats,             \* the engine's total and m_lastAudioStats
  rpc, active,                   \* reporter: control point, m_sessionActive
  pending, capture,              \* the ring of blocks, and the block being captured
  nextBlock, lost,               \* m_nextBlock, m_sessionsLost
  bootWritten, filePath,         \* m_bootBlockWritten; index of the file, 0 if not resolved
  audioIdle, held,               \* m_audioIdle; a deadline of flushDue() lies ahead
  calm,                          \* from now on nobody else needs the card, and it works
  disk,                          \* the blocks of each file, with their power-up
  misplaced,                     \* history: files picked too low, from a listing cut short
  boot, ended,                   \* history: this power-up, its ended sessions
  recorded, taken                \* history: samples recorded, and in blocks taken from the ring

busVars      == <<sessionActive, power>>
sampleVars   == <<live, halfway, recorded>>
audioVars    == <<engine, lastStats>>
ringVars     == <<pending, capture, nextBlock, lost, taken>>
flushVars    == <<bootWritten, filePath, misplaced>>
idleVars     == <<audioIdle, held>>
vars == <<busVars, bits, sampleVars, audioVars, rpc, active, ringVars, flushVars, idleVars,
          calm, disk, boot, ended>>

\* What earlier power-ups have left on the card.
OldFiles(files) ==
  [i \in 1 .. MaxFileIndex |-> IF i <= files THEN <<[boot |-> 0, block |-> 0]>> ELSE <<>>]

Init ==
  /\ sessionActive = FALSE /\ power = "none" /\ bits = {}
  /\ live = Zero /\ halfway = 0 /\ recorded = 0
  /\ engine = 0 /\ lastStats = 0
  /\ rpc = "wait" /\ active = FALSE
  /\ pending = <<>> /\ capture = <<>> /\ nextBlock = 1 /\ lost = 0
  /\ taken = Zero
  /\ bootWritten = FALSE /\ filePath = 0
  /\ audioIdle = FALSE /\ held = TRUE
  /\ calm = FALSE
  /\ \E files \in 0 .. MaxFileIndex : disk = OldFiles(files)
  /\ misplaced = {}
  /\ boot = 1 /\ ended = 0

-----------------------------------------------------------------------------
(* The recording side.                                                     *)

\* handle() of the power state machine: ignition and retraction alternate, and each stores
\* the flag before it notifies.  A session lasts longer than one pass of a reporter that is
\* not writing: it ends with another gesture and a sweep, and a pass is 100 ms.
Writing == rpc \in {"path", "boot", "bootWrite", "next", "write"}

BeginSession ==
  /\ power = "none" /\ ~sessionActive /\ ended < MaxSessions[boot]
  /\ sessionActive' = TRUE
  /\ power' = "begin"
  /\ UNCHANGED <<bits, sampleVars, audioVars, rpc, active, ringVars, flushVars, idleVars,
                 calm, disk, boot, ended>>

EndSession ==
  /\ power = "none" /\ sessionActive
  /\ "begin" \notin bits \/ Writing
  /\ sessionActive' = FALSE
  /\ power' = "end"
  /\ UNCHANGED <<bits, sampleVars, audioVars, rpc, active, ringVars, flushVars, idleVars,
                 calm, disk, boot, ended>>

\* The bits of several notifications merge until the reporter looks at them.
NotifyReporter ==
  /\ power # "none"
  /\ bits' = bits \cup {power}
  /\ power' = "none"
  /\ ended' = IF power = "end" THEN ended + 1 ELSE ended
  /\ UNCHANGED <<sessionActive, sampleVars, audioVars, rpc, active, ringVars, flushVars,
                 idleVars, calm, disk, boot>>

\* recordDuration() adds to the accumulators of its metric one by one; a metric has one task
\* that records it.
RecordCount ==
  /\ recorded < MaxSamples[boot] /\ halfway = 0
  /\ live' = [live EXCEPT !["count"] = @ + 1]
  /\ recorded' = recorded + 1
  /\ halfway' = 1
  /\ UNCHANGED <<busVars, bits, audioVars, rpc, active, ringVars, flushVars, idleVars,
                 calm, disk, boot, ended>>

RecordSum ==
  /\ halfway = 1
  /\ live' = [live EXCEPT !["sum"] = @ + 1]
  /\ halfway' = 0
  /\ UNCHANGED <<busVars, bits, recorded, audioVars, rpc, active, ringVars, flushVars, idleVars,
                 calm, disk, boot, ended>>

\* An underrun, a held group, a failed load: the engine counts it for itself.
AudioEvent ==
  /\ engine < MaxSamples[boot]
  /\ engine' = engine + 1
  /\ UNCHANGED <<busVars, bits, sampleVars, lastStats, rpc, active, ringVars, flushVars,
                 idleVars, calm, disk, boot, ended>>

-----------------------------------------------------------------------------
(* One pass of the reporter: notifications, samples, and the flush if due. *)

\* The answer of another component, whether it leaves the card alone: any, until all is calm.
Answer == IF calm THEN {TRUE} ELSE BOOLEAN

\* Fault: begin and end are always handled in the same order, end first.
HandleNotificationsEndFirst ==
  LET begin == "begin" \in bits
      end   == "end" \in bits /\ active
      room  == Len(pending) < MaxPending
  IN /\ rpc = "wait"
     /\ bits' = {}
     /\ active' = (begin \/ (active /\ ~end))
     /\ held' = (held \/ end)
     /\ lost' = IF end /\ ~room THEN lost + 1 ELSE lost
     /\ rpc' = IF end /\ room THEN "end" ELSE "sample"
     /\ UNCHANGED <<busVars, sampleVars, audioVars, pending, capture, nextBlock, taken,
                    flushVars, audioIdle, calm, disk, boot, ended>>

\* handleNotifications(): an active session ends before the next begins, otherwise the other
\* way round; endSession() does nothing without a session.
HandleNotifications ==
  LET begin == "begin" \in bits
      end   == "end" \in bits /\ (active \/ begin)
      room  == Len(pending) < MaxPending
  IN /\ rpc = "wait"
     /\ bits' = {}
     /\ active' = IF end THEN active /\ begin ELSE active \/ begin
     /\ held' = (held \/ end)
     /\ lost' = IF end /\ ~room THEN lost + 1 ELSE lost
     /\ rpc' = IF end /\ room THEN "end" ELSE "sample"
     /\ UNCHANGED <<busVars, sampleVars, audioVars, pending, capture, nextBlock, taken, flushVars,
                    audioIdle, calm, disk, boot, ended>>

\* sampleAudioStats(): what the engine counted since the last look goes to the accumulator.
SampleAudioStats ==
  /\ live' = [live EXCEPT !["audio"] = @ + engine - lastStats]
  /\ lastStats' = engine
  /\ UNCHANGED <<halfway, recorded, engine>>

EndSample ==
  /\ rpc = "end"
  /\ SampleAudioStats
  /\ rpc' = "capture"
  /\ UNCHANGED <<busVars, bits, active, ringVars, flushVars, idleVars, calm, disk, boot,
                 ended>>

\* captureBlock(), and snapshotAndReset() that exchanges each accumulator with zero in turn.
CaptureBlock ==
  /\ rpc = "capture"
  /\ capture' = <<[block |-> nextBlock, lost |-> lost,
                   data |-> [Zero EXCEPT !["count"] = live["count"]]]>>
  /\ live' = [live EXCEPT !["count"] = 0]
  /\ nextBlock' = nextBlock + 1
  /\ lost' = 0
  /\ rpc' = "snapshot"
  /\ UNCHANGED <<busVars, bits, halfway, recorded, audioVars, active, pending, taken, flushVars,
                 idleVars, calm, disk, boot, ended>>

SnapshotSum ==
  /\ rpc = "snapshot"
  /\ capture' = <<[capture[1] EXCEPT !.data["sum"] = live["sum"]]>>
  /\ live' = [live EXCEPT !["sum"] = 0]
  /\ rpc' = "counters"
  /\ UNCHANGED <<busVars, bits, halfway, recorded, audioVars, active, pending, nextBlock, lost,
                 taken, flushVars, idleVars, calm, disk, boot, ended>>

\* Fault: the accumulators are copied one by one and all reset at the end.
SnapshotThenReset ==
  /\ rpc = "counters"
  /\ pending' = Append(pending, [capture[1] EXCEPT !.data["audio"] = live["audio"]])
  /\ live' = Zero
  /\ capture' = <<>>
  /\ rpc' = "sample"
  /\ UNCHANGED <<busVars, bits, halfway, recorded, audioVars, active, nextBlock, lost, taken,
                 flushVars, idleVars, calm, disk, boot, ended>>

SnapshotRest ==
  /\ rpc = "counters"
  /\ pending' = Append(pending,
       [capture[1] EXCEPT !.data["audio"] = live["audio"]])
  /\ live' = [live EXCEPT !["audio"] = 0]
  /\ capture' = <<>>
  /\ rpc' = "sample"
  /\ UNCHANGED <<busVars, bits, halfway, recorded, audioVars, active, nextBlock, lost, taken,
                 flushVars, idleVars, calm, disk, boot, ended>>

\* The rest of the pass: sampleAudioStats() and updateAudioIdle().
Sample ==
  /\ rpc = "sample"
  /\ SampleAudioStats
  /\ audioIdle' \in Answer
  /\ held' = (held \/ ~audioIdle \/ ~audioIdle')
  /\ rpc' = "due"
  /\ UNCHANGED <<busVars, bits, active, ringVars, flushVars, calm, disk, boot, ended>>

FlushDue(sdQuiet) ==
  /\ ~active /\ ~sessionActive
  /\ pending # <<>> \/ ~bootWritten
  /\ sdQuiet
  /\ ~held /\ audioIdle

Decide ==
  /\ rpc = "due"
  /\ \E sdQuiet \in Answer : rpc' = IF FlushDue(sdQuiet) THEN "path" ELSE "wait"
  /\ UNCHANGED <<busVars, bits, sampleVars, audioVars, active, ringVars, flushVars, idleVars, calm,
                 disk, boot, ended>>

-----------------------------------------------------------------------------
(* The flush: writePending() step by step.                                 *)

\* flush() ends, whatever came of it: the next attempt waits again.
EndFlush == held' = TRUE /\ rpc' = "wait"

\* Fault: the highest index listed, not one past it.
LastFile(listed) == Max({1} \cup listed)

\* resolveFilePath(): one past the highest index listed, at most the last one.
NextFile(listed) == Min({Max({0} \cup listed) + 1, MaxFileIndex})

\* The files readdir() names.  A card that fails midway ends the listing early, and the
\* reporter takes that for the end of the directory.
OnCard == {i \in 1 .. MaxFileIndex : disk[i] # <<>>}
Listings == IF calm THEN {OnCard} ELSE SUBSET OnCard

ResolveFilePath ==
  /\ rpc = "path"
  /\ \/ /\ \/ filePath # 0 /\ UNCHANGED <<filePath, misplaced>>
           \/ /\ filePath = 0
              /\ \E listed \in Listings :
                   /\ filePath' = NextFile(listed)
                   /\ misplaced' = misplaced \cup ({filePath'} \ {NextFile(OnCard)})
        /\ rpc' = IF bootWritten THEN "next" ELSE "boot"
        /\ UNCHANGED held
     \/ /\ filePath = 0 /\ ~calm
        /\ EndFlush
        /\ UNCHANGED <<filePath, misplaced>>
  /\ UNCHANGED <<busVars, bits, sampleVars, audioVars, active, ringVars, bootWritten, audioIdle,
                 calm, disk, boot, ended>>

\* The saber and the card are looked at again right before a block is written.
CheckBoot ==
  /\ rpc = "boot"
  /\ \E sdQuiet \in Answer :
       IF ~sessionActive /\ sdQuiet
         THEN rpc' = "bootWrite" /\ UNCHANGED held
         ELSE EndFlush
  /\ UNCHANGED <<busVars, bits, sampleVars, audioVars, active, ringVars, flushVars, audioIdle,
                 calm, disk, boot, ended>>

CheckNext ==
  /\ rpc = "next"
  /\ \E sdQuiet \in Answer :
       IF pending # <<>> /\ ~sessionActive /\ sdQuiet
         THEN rpc' = "write" /\ UNCHANGED held
         ELSE EndFlush
  /\ UNCHANGED <<busVars, bits, sampleVars, audioVars, active, ringVars, flushVars, audioIdle,
                 calm, disk, boot, ended>>

\* An attempt to append a block: open, write, close.  The file cannot be opened, or a part of
\* the block is written, or all of it.
WriteOutcome == IF calm THEN {"Written"} ELSE {"Written", "Deferred", "Dropped"}

AppendBlock(block) ==
  disk' = [disk EXCEPT ![filePath] = Append(@, [boot |-> boot, block |-> block])]

WriteBootBlock ==
  /\ rpc = "bootWrite"
  /\ \E outcome \in WriteOutcome :
       IF outcome = "Deferred"
         THEN EndFlush /\ UNCHANGED <<bootWritten, disk>>
         ELSE /\ AppendBlock(0)
              /\ bootWritten' = TRUE
              /\ rpc' = "next"
              /\ UNCHANGED held
  /\ UNCHANGED <<busVars, bits, sampleVars, audioVars, active, ringVars, filePath, misplaced,
                 audioIdle, calm, boot, ended>>

\* A block that cannot be written is dropped, and counted for the next block to be captured.
WriteSessionBlock ==
  /\ rpc = "write"
  /\ \E outcome \in WriteOutcome :
       IF outcome = "Deferred"
         THEN EndFlush /\ UNCHANGED <<pending, lost, taken, disk>>
         ELSE /\ AppendBlock(Head(pending).block)
              /\ pending' = Tail(pending)
              /\ taken' = [f \in Field |-> taken[f] + Head(pending).data[f]]
              /\ lost' = IF outcome = "Dropped" THEN lost + 1 ELSE lost
              /\ rpc' = "next"
              /\ UNCHANGED held
  /\ UNCHANGED <<busVars, bits, sampleVars, audioVars, active, capture, nextBlock, flushVars,
                 audioIdle, calm, boot, ended>>

-----------------------------------------------------------------------------
(* Time, the other users of the card, and the power switch.                *)

\* The last deadline passes; while a file is open the idle time does not begin.
Elapse ==
  /\ held /\ audioIdle
  /\ held' = FALSE
  /\ UNCHANGED <<busVars, bits, sampleVars, audioVars, rpc, active, ringVars, flushVars,
                 audioIdle, calm, disk, boot, ended>>

\* Sounds, preloads, switches and saves come to an end and the card works, for good.
CalmDown ==
  /\ ~calm
  /\ calm' = TRUE
  /\ UNCHANGED <<busVars, bits, sampleVars, audioVars, rpc, active, ringVars, flushVars, idleVars,
                 disk, boot, ended>>

\* Power is cut at any moment; a block being written may be left in part.  Only the card keeps
\* what it holds.
PowerCut ==
  /\ boot < MaxBoots
  /\ boot' = boot + 1
  /\ \/ UNCHANGED disk
     \/ rpc = "bootWrite" /\ AppendBlock(0)
     \/ rpc = "write" /\ AppendBlock(Head(pending).block)
  /\ sessionActive' = FALSE /\ power' = "none" /\ bits' = {}
  /\ live' = Zero /\ halfway' = 0 /\ recorded' = 0
  /\ engine' = 0 /\ lastStats' = 0
  /\ rpc' = "wait" /\ active' = FALSE
  /\ pending' = <<>> /\ capture' = <<>> /\ nextBlock' = 1 /\ lost' = 0
  /\ taken' = Zero
  /\ bootWritten' = FALSE /\ filePath' = 0
  /\ audioIdle' = FALSE /\ held' = TRUE
  /\ ended' = 0
  /\ UNCHANGED <<calm, misplaced>>

Reporter ==
  \/ HandleNotifications \/ EndSample \/ CaptureBlock \/ SnapshotSum \/ SnapshotRest \/ Sample
  \/ Decide \/ ResolveFilePath \/ CheckBoot \/ WriteBootBlock \/ CheckNext \/ WriteSessionBlock

Next ==
  \/ BeginSession \/ EndSession \/ NotifyReporter \/ RecordCount \/ RecordSum \/ AudioEvent
  \/ Reporter \/ Elapse \/ CalmDown \/ PowerCut

Spec == Init /\ [][Next]_vars

\* The tasks are scheduled and time passes; nobody has to ignite, record or free the card.
FairSpec == Spec /\ WF_vars(Reporter) /\ WF_vars(NotifyReporter) /\ WF_vars(Elapse)

-----------------------------------------------------------------------------
Block == [block : Nat, lost : Nat, data : [Field -> Nat]]
Entry == [boot : Nat, block : Nat]

TypeOK ==
  /\ sessionActive \in BOOLEAN /\ power \in {"none", "begin", "end"}
  /\ bits \subseteq {"begin", "end"}
  /\ live \in [Field -> Nat] /\ halfway \in {0, 1} /\ recorded \in Nat
  /\ engine \in Nat /\ lastStats \in Nat
  /\ rpc \in {"wait", "end", "capture", "snapshot", "counters", "sample", "due", "path",
              "boot", "bootWrite", "next", "write"}
  /\ active \in BOOLEAN
  /\ pending \in Seq(Block) /\ Len(pending) <= MaxPending
  /\ capture \in Seq(Block) /\ Len(capture) <= 1
  /\ nextBlock \in Nat /\ lost \in Nat /\ taken \in [Field -> Nat]
  /\ bootWritten \in BOOLEAN /\ filePath \in 0 .. MaxFileIndex
  /\ audioIdle \in BOOLEAN /\ held \in BOOLEAN
  /\ calm \in BOOLEAN
  /\ disk \in [1 .. MaxFileIndex -> Seq(Entry)] /\ misplaced \subseteq 1 .. MaxFileIndex
  /\ boot \in Nat /\ ended \in Nat

\* The samples of field f in a sequence of blocks.
Samples(blocks, f) ==
  LET sum[n \in 0 .. Len(blocks)] == IF n = 0 THEN 0 ELSE sum[n - 1] + blocks[n].data[f]
  IN sum[Len(blocks)]

\* Every value added to an accumulator is in one place: still live, in one block that waits,
\* or in one that went to the file.  The snapshot runs beside the writers, blocks are put off,
\* and a session that finds the ring full is merged into the next block.  This is said of each
\* accumulator: the count of a sample and its sum may be in two blocks, and while a sample is
\* half recorded its sum is in none.
CountedOnce ==
  LET kept(f) == live[f] + Samples(pending \o capture, f) + taken[f]
  IN /\ recorded = kept("count")
     /\ recorded = kept("sum") + halfway
     /\ lastStats = kept("audio")

\* A file lists the blocks of a power-up in the order of their numbers, none twice, the boot
\* block first; only the last file there can be, or one picked too low because the card cut the
\* listing short, holds the blocks of two power-ups; and what is pending is newer than what was
\* written.
FileInOrder ==
  /\ \A i \in 1 .. MaxFileIndex : \A p, q \in DOMAIN disk[i] :
       p < q => \/ disk[i][p].boot = disk[i][q].boot /\ disk[i][p].block < disk[i][q].block
                \/ disk[i][p].boot < disk[i][q].boot /\ i \in misplaced \cup {MaxFileIndex}
  /\ filePath # 0 =>
       \A p \in DOMAIN disk[filePath], q \in DOMAIN pending :
         disk[filePath][p].boot = boot => disk[filePath][p].block < pending[q].block

\* Once the saber stays retracted, nobody else needs the card and the card works, the boot
\* block and every pending block get written.
PendingGetsWritten ==
  <>[](~sessionActive /\ calm) => <>[](bootWritten /\ pending = <<>>)
=============================================================================
