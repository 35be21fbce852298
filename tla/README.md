# Verification of the inertial saber firmware

TLA+ models, TLC configurations and TLAPS proofs for the firmware in `src/`
(ESP-IDF, FreeRTOS, C++). Paths below are relative to `src/`. The firmware is
a set of FreeRTOS tasks that share lock-free state: audio channels, start
requests, effect sets, voice slots, cached files. What can go wrong in it is
mostly an interleaving of three or four tasks that no test on the device
reproduces, and that is what the models are for.

## The system

| Part | State it keeps | Operations | Talks to |
|---|---|---|---|
| Audio channel (`components/audio/audio_channel`) | status word (state, armed request, stop bit, memory-backed bit), open file, ring indices, volume ramp | claim, load, arm, disarm, start, requestStop, begin/endMixCycle, refillBuffer, closeIfClosing | the caller tasks, the mixer and one reader, all through the status word |
| Audio engine (`components/audio/audio_engine`) | start requests: in use, committed, members; the three tasks | prepare, play, playLinked, startGroup, stop, setChannelVolume; mixer cycle; reader passes | channels, I2S, task notifications |
| Mixer (`PolyphonicMixer.cpp`) | per-cycle snapshot of the mixed channels, held groups | mixFrames | channels |
| Saber action bus (`main/core/SaberActionBus.cpp`) | active, staged and retired effect set; input queue; motion snapshot | bus cycle, stageEffects, takeRetiredEffects, pushInputEvent | effects, profile manager, adapters |
| Profile manager (`main/profiles/ProfileManager.cpp`) | active and saved index, switch requested/pending, save armed/due/waiting | requestNext, performSwitch, serviceSave | bus, cache, store |
| Power state machine and effects (`main/profiles/PowerStateMachine.cpp`, `inertial/effects`) | power state of one effect set | power toggle, preload wait, profile cycle, motion effects | bus cycle, profile manager, audio controller |
| Audio controller (`main/system/audio/AudioController.cpp`) | voice slots with generation and channel, command queue | acquireVoice, playLinked, voice play/stop/volume/release; worker | audio engine |
| PSRAM cache and memory file system (`main/system/PsramAudioCache.cpp`, `MemoryVfs.cpp`) | requested/completed/failed generation, pending job; registered buffers, descriptors | requestPreload, preloadStatus, loader; open, read, close, register, unregister | readers of the audio engine, profile manager |
| Input adapter and button (`main/system/adapters/InputAdapter.cpp`, `components/gpio_button`) | pending clicks, hold level, timers | press, release, click timer, hold timer | bus queue |
| Profile store (`main/system/persistence/ActiveProfileStore.cpp`) | the saved index in flash | load, save | profile manager |
| Blade (`components/smart_led/Engine.cpp`) | base effect, overlay slots, render task | pushOverlay, frames that end overlays | effects |
| Diagnostics and metrics (`main/diagnostics/Metrics.cpp`, `main/system/metrics/MetricsReporter.cpp`) | accumulators, session flag, ring of blocks, file on the card | record, begin/endSession; reporter pass, flush | every task, the card |
| Loaders and parsers, motion adapter, status LED, drivers | configuration, sensor readings | run once, or pure input/output | - |

What makes each part correct, and the behaviour that makes it hard:

- **Audio channel and engine.** Any task may play and stop, the mixer and two
  readers run above them, a slot is recycled as soon as it is closed, and
  nothing takes a lock. Correct means: the file and the write side of the ring
  have one user; a stop is never dropped; a start that was promised happens
  and one that was not promised never does, even when the slot was recycled
  in between; a group starts in one cycle; a freed slot is clean.
- **Rings and mixer.** A reader fills and the mixer empties a ring without a
  lock; no sample may be overwritten or skipped, and an end mark must not
  overtake the samples before it. A linked group is held while a member is
  starved, so that its members stay sample-aligned; it must not be held for
  good. The tasks are joined in an order in which none is notified after its
  end.
- **Bus and profile manager.** An effect set is handed from the manager to the
  bus and back through two one-slot mailboxes; the manager destroys what it
  gets back. No set may be used after that, a switch must end, a request made
  while the manager falls asleep must wake it, and the delayed save must
  write the profile that is active, and only while the saber is off.
- **Audio controller.** Voice handles outlive their slots and commands sit in
  a bounded queue: a command of an old owner must not reach the new one, and
  a voice that was released must fall silent.
- **PSRAM cache.** Requests supersede each other while the loader runs, and
  open descriptors keep buffers alive: the status must never say "loaded" of
  a generation that was not, and a buffer must not be freed under a reader.
- **Input and blade.** Timer callbacks race the button task; a gesture is
  resolved once. The queue to the bus drops what does not fit and a cycle
  keeps the last event only; loops, light and overlays must still be off, or
  on, in the end.
- **Metrics.** Sessions are shorter than a write to the card: their
  notifications merge, blocks wait, are dropped or merged; no value added to
  an accumulator may be counted twice or lost without a trace, and a power cut
  must not mix up files.
- **Profile store.** The write truncates first: a power loss in between must
  be survivable at the next boot.

Every such hazard is listed at its source line in `PROJECT.json`, with the
properties that cover it, or the reason why none does.

## Modules

| Module | What it is |
|---|---|
| `ChannelOwnership` | What `AudioChannel.hpp` documents: the ownership table and the transition list, as an abstract specification of one phase, one owner and at most one user per channel |
| `AudioEngine` | Channels, start requests, caller tasks, mixer task and both reader tasks, one action per atomic access |
| `MCAudioEngine` | Its instances for TLC |
| `AudioEngineProofs` | Facts about the helpers, types and control points; `TypeCorrect` |
| `AudioEngineSafety` | Ownership, clean slots, requests, stops, mixed channels; starts: nothing stale starts, nothing promised is lost, groups start together; that `AudioEngine` implements `ChannelOwnership` |
| `PreloadCache` | Preload requests, the loader task, `preloadStatus()` and the descriptors of `/mem/hum.wav` |
| `MCPreloadCache` | Its instances for TLC |
| `PreloadService` | What `PsramAudioCache.hpp` promises its callers: one generation per request, decided once, and `preloadStatus()` as its report |
| `PreloadCacheProofs` | Types, where the newest generation is, that the status is true of it, and that `PreloadCache` implements `PreloadService` |
| `ProfileSwitch` | The bus task with its effect-set mailboxes and the power state of each set, and the `profile_ctrl` task with the delayed save, on top of `PreloadService` |
| `ProfileSelector` | What `ProfileManager.hpp` promises: one advance per accepted request, and the active profile is what is saved |
| `MCProfileSwitch` | Its instances for TLC |
| `AudioController` | `AudioVoice` handles, voice slots, command queue and the `audio_ctrl` task, with what a caller can tell of the engine |
| `MCAudioController` | Its instance for TLC |
| `AudioStream` | Rings, end marks, the reader passes, linked groups, and the start and end of the engine tasks |
| `MCAudioStream` | Its instance for TLC |
| `MetricsReporter` | Accumulators, sessions, the reporter task with its ring of blocks and its file, and power cuts |
| `MCMetricsReporter` | Its instance for TLC |
| `GestureStream` | What the input adapter promises of a button: presses, releases and the gestures they amount to |
| `InputGestures` | The poll task, the callbacks and timers of `InputAdapter`, and the bounded input queue |
| `ButtonToBlade` | `InputGestures` composed with the bus cycle, the effects of a loaded profile and the overlay slots of the LED engine |
| `MCButtonToBlade` | Its instance for TLC |
| `ProfileSwitchProofs` | Where the effect sets are during a switch, and that `ProfileSwitch` implements `ProfileSelector` |
| `AudioControllerProofs` | Ages of commands, who holds a slot, where each loop is, which volume is the latest |
| `AudioStreamProofs` | Remainders and ring geometry, the account of each ring, linked groups, tasks at tear-down |
| `MetricsReporterProofs` | Sums over the ring of blocks, where each value recorded is kept, the order of files |
| `GestureProofs` | That the button of `ButtonToBlade` shows the steps of `GestureStream`; types; the overlay of a drag |

### How `AudioEngine` corresponds to the code

The status word of a channel is an atomic `uint32_t`. The model splits it into
`state`, `armedFor` (`None`, or the request in the request field while
`ARMED_BIT` is set), `stopBit` and `memory`; every action changes them
together. `file` and `eof` are the open handle and the end-of-file mark.
`inUse`, `committed` and `members` are `requests_in_use`,
`committed_requests` and `request_members`.

Each caller task `c` has a control point `pc[c]` and the locals of the call it
serves. An action is one atomic access to shared memory and the task-local
code that follows it:

| Code | Actions |
|---|---|
| `AudioEngine::prepare`, `AudioChannel::claim` | `BeginPrepare`, `Claim`, `SkipBusy`, `NoFreeChannel` |
| `AudioChannel::load`, `abortLoad` | `OpenAndPrefill` (open, header, stop check, prefill), `Publish`, `PublishRefused`, `AbortRelease`, `AbortIdle` |
| `AudioEngine::startGroup`, `AudioChannel::arm`, `disarm` | `BeginStartGroup`, `RefuseStart`, `Reserve`, `Arm`, `ArmRefused`, `Disarm`, `ReleaseRequest`, `WriteMembers`, `Commit` |
| `AudioEngine::stop`, `AudioChannel::requestStop` | `BeginStop`, `StopLook` (first load, which fixes `first_seen`), `StopTry` (the CAS that succeeds, or the early return) |
| `play`, `playLinked` | the same actions in sequence; `PrepareFailed`, `Prepared`, `StartFailed` and `StopDone` say what follows |
| mixer cycle: `mixer_task_func`, `run_start_request`, `AudioChannel::start` | `MixExchange`, `MixRun`, `MixStart`, `MixFree` |
| `PolyphonicMixer::mixFrames`, `beginMixCycle`, `endMixCycle` | `MixBegin`, `MixSamples`, `MixEnd`, `MixWrite` |
| reader pass, `closeIfClosing`, `refillBuffer` | `CloseRelease`, `CloseIdle`, `PickRefill`, `Refill` |

A CAS loop that recomputes everything from the word it finally swaps is one
step, because a failed CAS leaves no trace. `requestStop()` is the exception:
it compares later words with the first one it saw, so it takes two.

`promised`, `stopped`, `enlisted` and `onTarget` are history variables. They
record, for the sound a channel holds, that a `startGroup()` that returned
`ESP_OK` covers it and that a stop took effect on it; for a request, which
channels it armed; for a stop in progress, that the channel still holds the
sound it first looked at. No guard reads them.

Abstractions: the number of buffered samples is left out, so that a ring may
or may not be drained when the mixer looks and below the watermark when a
reader does. Whether a read reaches the end of the file is a choice; a looping
sound is one whose reads never end. A file opens or not, a header is valid or
not. The order in which a reader pass visits the channels is a choice as well,
since it looks at each word separately while the others move on. Linked groups
have no state here: a held channel is one that `MixEnd` leaves as it is.

### How `PreloadCache` corresponds to the code

A preload request is a generation number; the buffer it fills bears the same
number, and 0 means none. `requested`, `completed` and `failed` are the three
atomics, `job` is `m_pendingJob`, `hum` the file registered as `hum.wav`,
`fds` the descriptor table. A buffer is a `shared_ptr`, so its memory is in
use while the file table, a descriptor, the loader (`Building`) or a close
that has not returned (`released`) holds it: that is `Live`.

| Code | Actions |
|---|---|
| `requestPreload` | `Request` (the section under the mutex), `Notify` |
| `loaderLoop`, `takePendingJob` | `Wake`, `TakeJob`, `Drained` |
| `runPreload`, `unloadHum`, `waitForDescriptorsClosed` | `Unload`, `AwaitClosed`, `Begin`, `Loaded`, `FailureChecked`, `PublishFailure`, `Publish` |
| `loadFile`, `waitForFit`, `copyChunked`, `registerFile` | `Open`, `CannotOpen`, `Fit`, `Count`, `Copy`, `CopyFailed`, `Register` |
| `preloadStatus` | `AskRequested`, `AskCompleted`, `AskFailed`, one load each |
| `vfsOpen`, `vfsClose` | `VfsOpen`, `VfsClose` (under the lock), `LetGo` (the handle is dropped after the lock) |

Abstractions: the largest free block is what is left of `Capacity`, so there
is no fragmentation, and only hums occupy PSRAM; an allocation that fails
although the block was large enough is part of `CopyFailed`. The chunks of a
copy are one step, because a superseded request stays superseded. The wait for
the descriptors of the old font has no outcome, so it is one step.
`unregisterFile()` is one step with the release of its handle, since only the
loader, which calls it, looks at the memory. Reads and seeks move a position
inside a buffer that the descriptor holds.

### How `ProfileSwitch` corresponds to the code

An effect set is built together with one preload request, so a set is known by
the generation of its preload, and 0 is a null pointer. `active`, `staged` and
`retired` are `m_activeEffects`, `m_stagedEffects` and `m_retiredEffects`;
`previous` and `owned` are the locals of `commitStagedEffects()` and
`performSwitch()` that hold a set on its way; `power` is the power state
machine inside each set and `activePower` the set that `m_activePower` points
into. `handle` says that `m_task` is published and `notified` that the
notification of the task is set.

| Code | Actions |
|---|---|
| `busLoop`, `commitStagedEffects`, `drainInputQueue` | `SkipCommit`, `Commit`, `Retire`, `Drain` |
| `PreloadWaitEffect` | `WaitPreload`, `Unlock` |
| `PowerToggleEffect` | `Toggle` |
| `ProfileCycleEffect`, `requestNext` | `Cycle`, `NoCycle`, `PostPending`, `PostRequest`, `PostNotify` |
| `start`, `run` | `StartReturns`, `PublishHandle`, `TakeRequest`, `Wake` |
| `performSwitch`, `stageEffects`, `waitForRetiredEffects`, `armSave` | `BuildEffects`, `RequestPreload`, `Stage`, `TakeRetired`, `Destroy`, `Finish`, `ArmSave` |
| `serviceSave`, `ActiveProfileStore::save` | `SaveNotDue`, `AskPreload`, `PreloadAnswer`, `CheckIdle`, `Write`; `Elapse` is the passing of `m_saveDueUs` |

The effects run in the order `EffectSet::add()` gives them: the preload wait
has priority 0, the power toggle and the profile cycle priority 1 in the order
they are added. The others read the power state and never change it.

The cache is not modelled a second time. `Preload` and the asking steps are
those of `PreloadService`, with the bus and the manager as its callers, and
`PreloadCache` is shown to implement that service, for any requests and
callers (`ServiceImplemented`). Both tasks ask only while their own set is the
newest: the bus in Locked, the manager between switches, and the manager is
the only one who requests.

Abstractions: of the packet of a cycle only the clicks of the main button are
kept, and they are arbitrary, so every sequence of gestures is covered. A
sweep may end in any cycle. Time is the one question whether the save is due.
A set is built in one step; a set that cannot be built at boot never reaches
`performSwitch()`, whose first assertion is about memory.

### How `AudioController` corresponds to the code

`inUse`, `releasePending`, `generation`, `channel` and `volume` are the fields
of a `VoiceSlot`, `queue` is `m_queue`. `held` is the slot and generation in
each `AudioVoice`, `None` once it is released; a task moves a handle by handing
it on, so a handle is used by one call at a time (`Available`), as the effects
use theirs. `pc`, `using`, `command` and `tuning` are a call in progress;
`wpc`, `job`, `at`, `started` and `applied` the worker's place and locals. A
command has a part for each voice it names: two for `playLinked()`, none for a
one-shot, and none for a release, whose voice nobody reads.

| Code | Actions |
|---|---|
| `acquireVoice` | `AcquireVoice` |
| `AudioVoice::play`, `enqueueVoicePlay`, `playLinked` | `Play`, `PlayLinked`, `StoreSecondVolume` (the stores), `Send` (`enqueue`) |
| `AudioVoice::stop`, `playOneShot` | `Stop`, `PlayOneShot`: nothing precedes their `enqueue` |
| `AudioVoice::release`, `releaseVoice` | `Release` (the flag), `Send` |
| `setVoiceVolume` | `SetVolume` (store), `LoadChannel` or `LoadNoChannel`, `ApplyVolume` |
| `run`, `execute` | `Receive`, `PlayOnce`, `Check`, `Skip` |
| `playVoice`, `playLinkedVoices`, `stopVoiceChannel` | `Unbind` per voice, `PlayVoices`, `PlayFailed` |
| `bindChannel` | `BindChannel`, `ReadVolume`, `ApplyBound`, `BindAgain`, `BindDone` |
| `sweepReleasedVoices` | `Sweep`, one slot a step |

Several accesses are one step where no other task can tell: the fields of a
slot that is being acquired or swept belong to one task until `inUse` changes,
and `ownsSlot()` of a pair comes to the same as looking at both voices when
the last of them is looked at.

Of the engine only what the controller can tell is here: a channel is idle,
plays a loop, plays a one-shot or fades out, and has a target volume. Each
engine call is one step; `AudioEngine` has their interleavings. Every sound of
a voice loops, as in all effects, and a loop never ends by itself (a failed
read of a looping file is tried again, `AudioChannel::readFromFile`).

What a command plays is left out. Whether a voice plays what it was last asked
for is history: `last` in a part says that no later command was accepted for
the voice, `current` that the last accepted one has been carried out, `age` how
often the slot was swept since the command was made. `tuned` and `strayed` are
history as well: the last volume of the slot came from a `setVolume()` that
has returned, and a channel was hit by a volume that was meant for its
previous sound.

Two things the model showed, neither against the documentation. When one voice
of a linked pair is released before the command's turn, the command is skipped
as a whole, so the other voice goes on with its old sound ("or neither
starts"). And `setVoiceVolume()` may be preempted between loading the channel
and writing its volume while the channel is stopped and recycled: the new
sound gets the old volume until the next one. `AudioEngine.hpp` warns of stale
ids, and "a stale volume never wins" in `bindChannel()` is about the store and
the re-check, which `LatestVolumeWins` shows to be right; the property excepts
channels that were hit this way.

### How `AudioStream` corresponds to the code

`AudioEngine` has the status words and leaves the samples out; `AudioStream`
has the samples and takes a call as one step. `ring`, `write`, `read`, `eof`
and `pos` are the fields of an `AudioChannel`, and a slot of the ring holds the
number of a sample, so that an overwritten, skipped or repeated sample shows.
`group` is the linked group id, as the set of members it stands for; `snap` is
what `beginMixCycle()` saw; `refill`, `served` and `exhausted` are the locals of
`refillBuffer()` and `service_owned_channels()`; `task`, `stopSent` and
`running` are the engine tasks, `_stop_requested` and `running`.

| Code | Actions |
|---|---|
| `prepare`, `startGroup`, `stop` | `Prepare`, `StartGroup`, `Stop` |
| mixer cycle | `MixStart`, `MixBegin` (state and end mark), `MixIndex` (write index), `MixFrames` (`heldChannels`, the frames, `endMixCycle`), `MixNotify`, `MixExit` |
| reader pass | `Wake` (`close_owned_channels`), `Pick` (`find_neediest_channel` and the span), `ReadIntoRing`, `PublishIndex`, `MarkEnd`, `EndPass`, `ReaderExit` |
| `start`, `stop_tasks`, the destructor | `Start`, `SpawnTask`, `Destroy`, `JoinMixer`, `AskReader`, `JoinReader` |

The mixer's frames are one step: it works on the snapshot and is the only one
to move the read index, which a reader sees before or after. A read of the
file gives all that was asked for, less at the end of a one-shot, or less
because it failed, as `readFromFile()` treats it: a one-shot ends, a loop goes
on. A fade of 256 samples is shorter than a cycle, so a stopping channel is
closed by the first cycle that mixes it. A join may time out whenever the task
is still alive; the engine is then leaked, as the destructor does, and the task
goes on.

`GoesOn` has a condition: each reader gets to its sleep again and again.
`service_owned_channels()` keeps a channel that got nothing excluded until the
pass ends, and begins another round as long as one of the others was served and
needs more, so a channel whose read failed once waits for the others to be full.
A reader that never catches up has no bandwidth for what it plays, and nothing
is claimed of it.

### How `MetricsReporter` corresponds to the code

Of the accumulators three stand for the rest: `count` and `sum` of one metric,
to which `recordDuration()` adds one after the other for each sample, and
`audio`, that the reporter feeds from the engine's totals
(`sampleAudioStats()`). The exchanges of `snapshotAndReset()` are therefore
three steps, `CaptureBlock`, `SnapshotSum` and `SnapshotRest`, with every other
task in between, and `halfway` is 1 while a sample is in `count` and not yet in
`sum`. A metric has one task that records it.
`bits` are the notification bits, which merge; `power` is the notification the
bus task has still to make after it has stored the session flag. `pending` is
the ring of blocks, `disk` the blocks of each file with the power-up they belong
to. The loop over `readdir()` takes a failure for the end of the directory:
until the card works, `Listings` has any part of the files that exist, and
`misplaced` remembers the files that were picked too low from such a listing.

| Code | Actions |
|---|---|
| `beginSession`, `endSession`, `notifyReporter` | `BeginSession`, `EndSession`, `NotifyReporter` |
| `recordDuration`, `increment`; the engine's counters | `RecordCount`, `RecordSum`; `AudioEvent` |
| `run`, `handleNotifications`, `endSession`, `captureBlock` | `HandleNotifications`, `EndSample`, `CaptureBlock`, `SnapshotSum`, `SnapshotRest`, `Sample`, `Decide` |
| `flush`, `writePending`, `resolveFilePath` | `ResolveFilePath`, `CheckBoot`, `WriteBootBlock`, `CheckNext`, `WriteSessionBlock`, `EndFlush` |
| the power switch | `PowerCut`, also in the middle of a write |

All deadlines `flushDue()` compares with are one, `held`: the latest of them has
not passed. Whether the card is in use by others is an input (`Answer`) until
`CalmDown`. A session lasts longer than a pass of a reporter that is not
writing: it takes two gestures and two sweeps, a pass takes 100 ms. While it
writes, any number of sessions may go by.

### How `InputGestures` and `ButtonToBlade` correspond to the code

`isPressed` and `fired` are what `GpioButton` remembers, the next four variables
members of `InputAdapter`; `callback` is the callback that the timer task has
dispatched and that waits for the mutex: `esp_timer_stop()` does not take it
back, which is the race the comment in `resolveHoldTick()` warns of. Each
callback holds the mutex throughout, so it is one step, except `onPressUp()`
with its two events (`releasing`), between which the bus may drain the queue.
Time is left out: a press becomes long, and a timer runs out, at any moment.

| Code | Actions |
|---|---|
| `GpioButton::processState`, `onPressDown`, `onPressUp`, `onFirstHoldTick` | `OnPressDown`, `OnPressUp`, `ClickOnRelease`, `OnFirstHoldTick` |
| timers, `resolveClickGesture`, `resolveHoldTick` | `ClickTimerExpires`, `HoldTimerExpires`, `ResolveClick`, `ResolveHoldTick` |
| `pushInputEvent`, `drainInputQueue` | `Push`, `LatestInput` |
| `busLoop` with the effects in the order of `EffectSet` | `BusCycle` |
| frames of the LED engine | `OverlayEnds` |

`GestureStream` is the promise: a click counts all presses since the last
gesture and follows the last release, ticks count from 1 while the button is
down and cancel the clicks, and no press is forgotten. `InputGestures` is shown
to implement it, with the counters of eight bits cut to `CounterSize`. Its
`Spec` is what a step may do, which is proved; `FairSpec` adds that no press is
forgotten, and `ImplementsGestures`, which TLC checks, is about all of it.

A bus cycle is one step from its drain to its last effect: an event that
arrives in between is seen in the next. The effects of a profile that is loaded
are run on what was drained, by priority (`Effects`), after the overload detector;
`blade` is what they hold (the loops of the swing, the base light, the drag with
the slot whose fade flag it shares) and `cooldown` which of a burst and a clash
may not come again yet.
The times of an ignition are the marks of its sequence, `sweep`. Locked, Faulted
and Switching belong to `ProfileSwitch`, and the motion path is an input: in any
cycle the blade may be stopped short or overloaded.

Things these models showed beside the properties, none of which breaks one:

- A click timer callback that was dispatched before a second press, and that
  gets the mutex after that press was released, resolves the sequence before
  the new window is over: `docs/wiki/SaberAction.md:60` has "Every press
  restarts it" (`InputAdapter.cpp:147`-162). The presses counted are right.
- `drainInputQueue()` keeps the last event of a button, so a click is not seen
  if another event of the button follows it within a cycle
  (`SaberActionBus.cpp:207`-214). `SaberAction.md:44` says a gesture is seen "in
  exactly one bus cycle".
- The hold level has eight bits: after 256 ticks, 128 s, it starts again, and
  with it a drag that was ended.
- `lost_before` of a block that could not be written goes to the next block
  that is captured, not to the next one in the file, if others were pending
  (`MetricsReporter.cpp:519` and 860); `docs/wiki/Diagnostics.md:138` says
  "Sessions since the previous block".
- The parts of a sample that is recorded during a snapshot may go to two blocks,
  as `docs/wiki/Diagnostics.md:272` says; `CountedOnce` is therefore about each
  accumulator. "At most one sample per metric is affected", in the same place,
  needs more than the code has: the reporter may be preempted between the
  exchanges of `count` and `sum` (`Metrics.cpp:210`-211) for as long as several
  samples take, and the sums of all of them are then in the earlier block. A
  block can have a sum and the count 0.
- A card that fails in the middle of the listing gives `resolveFilePath()` too
  low an index (`MetricsReporter.cpp:666`), and the power-up appends to the file
  of an earlier one. `Diagnostics.md:49` has "one file per power-up" and "the
  highest existing index plus one". `FileInOrder` excepts these files from
  having one power-up each, and not from the order of the blocks.

### Fault operators and type invariants

The operators that follow a comment "Fault:" belong to no behaviour; they are
slips one could make in the code. The properties are validated by replacing a
definition with its faulty form and seeing the property violated.

Each module has its `TypeOK`, and each `TypeOK` is proved. Those of
`AudioController`, `AudioStream`, `MetricsReporter` and `ButtonToBlade` are the
first conjunct of the invariants below; no run lists them, since the other
properties of those runs would fail or not evaluate on a value of another
type.

## Runs

The first four are of `AudioEngine`, with two caller tasks, both readers and
the mixer, the next two of `PreloadCache`, then two of `ProfileSwitch`, and one
each of `AudioController`, `AudioStream`, `MetricsReporter` and `ButtonToBlade`.

| Run | Instance | Shows |
|---|---|---|
| `one` | 1 channel, 2 requests, every public method, files on both storages; 447 000 distinct states | types, single owner, clean slots, requests held once and none leaked, stops not dropped; implements `ChannelOwnership` |
| `linked` | 2 channels, 2 requests, linked pairs against stops; 1 040 000 distinct states | mixed channels stay, nothing stale starts, promised starts are kept, groups start together |
| `live` | 1 channel, 1 request, play and linked play against stop and startGroup, fair scheduling; 28 000 distinct states | every stop frees its channel, every promised start happens or is stopped |
| `stale` | 1 channel, linked pairs against stops | the violation described under Findings |
| `cache` | 3 requests by 2 tasks, 1 asking task, 1 reader, 2 descriptors, one large hum among small ones, fair loader; 120 000 distinct states | types, the status is true of the newest request, an answer means the loader is done, every request is answered or superseded; implements `PreloadService` |
| `giveup` | 2 requests, 1 descriptor | the second violation described under Findings |
| `switch` | 2 profiles, 3 effect sets, any gestures, preloads that succeed or fail, fair tasks; 184 000 distinct states | types, sets are held once, the assertions hold, the save looks at a live set, a lit blade has its hum, every switch ends, the save is made; implements `ProfileSelector` |
| `litsave` | 2 profiles, 2 effect sets | the third violation described under Findings |
| `voices` | 2 voices, 2 handles, 2 channels, a queue of 1, generations modulo 2; 672 000 distinct states | commands reach their owner only, a bound channel is its slot's own and no loop is orphaned, the last accepted command is obeyed, the latest volume is kept, a release is swept |
| `stream` | 2 rings of 4, 1 frame a cycle, sounds of 3 samples, loops (alone and linked) and a one-shot from the card, 1 failed read, start and tear-down; 351 000 distinct states | samples stay in order, linked loops aligned, no early end, sounds go on, no task is used after its end |
| `metrics` | 3 sessions and 1 sample of each kind, a power cut, then 1 session; 2 files, a ring of 2 blocks, listings cut short; 1 241 000 distinct states | every value added is in one block, files in order, everything pending is written |
| `blade` | counters modulo 3, a queue of 2, 2 overlays, any presses, any motion; 259 000 distinct states | implements `GestureStream`, the saber comes to rest |

**Why these bounds.** All hazards of a channel are races for one slot, so one
channel and two tasks with every method recycle it in every phase of every
call; a third task adds more of the same races. Two channels are the fewest
that make a group, an undo of a partial arming and two equal ids in
`playLinked()`. Two requests let one be reserved while the other is being run;
`live` has a single one, so that exhaustion is met as well. Each file may be
on either storage in `one`, which gives both readers a turn on the same slot;
`linked` keeps to one storage, since grouping does not depend on it. Nothing
is bounded besides these constants: the calls repeat for ever. `VIEW LiveView`
identifies states that differ only in the member list of a free request,
which is written before it is read again.

Only `stream` has `CHECK_DEADLOCK FALSE`: an engine that was freed, or leaked
with all its tasks gone, takes no further step.

For the cache, three requests are what it takes to supersede a running job
while another one is pending; `MaxGeneration` bounds their number, and nothing
else is bounded. One hum is as large as the other two together, and the room
is for one large or two small ones, so that a job waits for a descriptor, gives up,
and fits at once in different behaviours. `MaxFitPolls` is 1 instead of 300:
one poll shows waiting, looking again and running out.

For the switch, two profiles and three sets are a switch to the other profile
and back to the one that is saved, which disarms the save, and either of them
before the save of the first is made. `MaxGeneration` is the only bound: after
the last switch the bus goes on for ever and ignores further requests.

For the controller, two voices make a pair, and two channels are the fewest
that play it and the most that can be mistaken for each other. The bus plays,
links, steers and stops, and the manager acquires and releases, as in the
firmware, where effects are built and destroyed by `profile_ctrl` and run by
the bus. With the command in execution a queue of one keeps two commands on
the way, so that a command waits while its slot is swept, and the queue is
full most of the time. A generation wraps at 2: `ControllerAssumption` asks
only that there are more generations than places in the queue, which is what
keeps a wrapped generation from being mistaken. A voice starts with volume 0
and is set to 1. Nothing else is bounded. `CounterlessView` identifies states
that differ in the counters alone: generations are read only to be compared,
and a part's `age` says how far its generation is behind. Handles and channels
are symmetric; no liveness is checked here.

For the stream, a ring of four is the smallest whose prefill, watermark and
chunk are 1, 2 and 1, all different from its capacity of 3; a sound of three
samples wraps in it, and a cycle of one frame lets a channel be short, full and
in between. Two channels are a group, or a loop beside a one-shot; at most one
of them is a one-shot. Both are on the card: the two readers run the same code,
and the idle one is still there to be started, notified and joined.
`MaxFailures` bounds the reads that fail. `StreamView` identifies states that
differ only in where a sound lies in its ring.

For the metrics, a ring of two is full when the third session ends while two
blocks wait. The card begins with no, one or two files of earlier power-ups and
the second file is the last there can be, so that a power-up finds a file of its
own or appends to the last, or, when the listing is cut short, to one in use.
One sample of each kind is enough to see a part of it twice, not at all, or in
another block than the rest. `MaxBoots`, and `MaxSessions` and `MaxSamples` for
each power-up, are the bounds: nothing but the card outlives a power cut, so the
second power-up repeats only what shows on the card, with one session and no
samples.

For the blade, counters that wrap at three are pressed and held past their wrap;
a queue of two overflows as soon as the bus is late by one event, and holds a
release with its click; two overlays let the drag have one, or none. Nothing
else is bounded. `BladeView` sees of the queue its length and the last event,
which is what a drain leaves.

**Fairness** (`FairSpec` of `PreloadCache`): the loader and a task inside
`requestPreload()` keep running. No descriptor has to be closed.

**Fairness** (`FairSpec` of `ProfileSwitch`): the bus runs a cycle at least
every 10 ms (`kBusTimeoutMs`), `profile_ctrl` is scheduled when it is runnable,
time passes, and the cache decides a request, which is `RequestAnswered` of
`PreloadCache`. Nobody has to click and no sweep has to end; `SaveHappens`
speaks of a blade that stays idle.

**Fairness** (`FairSpec` of `AudioStream`): the mixer and each reader are
scheduled, by themselves at least every 10 ms (`run_reader`). That readers catch
up is not assumed but a condition of `GoesOn`. Nobody has to call anything, and
`PlayedToTheEnd` needs no fairness.

**Fairness** (`FairSpec` of `MetricsReporter`): the reporter wakes every 100 ms,
the bus finishes the notification it began, and deadlines pass.
`PendingGetsWritten` speaks of a saber that stays retracted with a card that
works and that nobody else uses, since any of them puts a flush off.

**Fairness** (`FairSpec` of `ButtonToBlade`): the bus cycles at least every
10 ms, a callback in progress goes on, timers that run out are served by the
timer task, sweeps and overlays take their time and end. Nobody has to press or
let go. `Settles` speaks of a button that is up for good, and excepts a drag if
an event of the button was dropped: a release that is lost leaves the drag on
until the next one, and `drainInputQueue()` counts and logs it.

**Fairness** (`FairSpec` of `AudioEngine`). The engine tasks and a task inside a call are
runnable and scheduled: weak fairness on the mixer, on each call, on a reader
that is in the middle of a close or a refill. Nobody is obliged to make a
call, and no outcome of a file operation is promised. Two assumptions are
strong fairness. First, the cycle that ends a stopping channel: the code
takes one fade step per sample it plays, and closes the channel if the ring is
drained, so it cannot stay both audible and buffered cycle after cycle; a
stopping channel cannot be held either, because the mixer holds only channels
with a group and `beginMixCycle()` clears the group of a stopping one. Second,
closing each channel: a reader pass looks at every channel before it sleeps,
and it sleeps at most a bounded time.

### Findings

`stale`: the comment in `AudioChannel::requestStop()` says of a re-claimed slot
that "the new sound must not be stopped". The guard returns only when a failed
CAS shows a lower state than the first one seen. In the run a stop sees a Ready
sound, another stop closes it, the reader frees the slot, the slot is claimed,
loaded and published again, and the first stop's CAS closes the new sound, which
is Ready as well. It needs the calling task to be preempted for a whole load, so
it is rare; it is not the documented stale-id case, because the id was valid when
the call looked. `StopReachesOnlyItsSound` speaks of stops that first see a
published sound. The guard is no better for one that sees Loading: if that load
fails and is aborted and the slot is claimed again, the stop bit is set on the
new load, whose sound is never published.

`giveup`: `waitForFit()` reads the largest free block and then the number of
open descriptors. If the last descriptor of the old font is closed and its
buffer freed in between, the loop returns false without looking at the memory
again. The preload is published as failed, which keeps the saber locked with a
red LED until the next triple click, although the file fits; `README.md` gives
"missing, unreadable or too large for the free PSRAM" as the causes. Reading
the two in the other order, or looking at the memory once more, would close it.

`litsave`: `README.md` and `docs/wiki/SaberAction.md` say the active profile is
saved "never while the blade is lit". `serviceSave()` checks once and then
writes; the bus may ignite between the check and the end of the write, so the
card is written while the blade is lit and its sounds stream from it. The
header words it as it is: "only when a check finds the preload finished and
the blade retracted or faulted".

## Proofs

TLC checks the instances above; the theorems hold for every instance.

**`AudioEngine`**: for every number of
channels, requests and callers, for every choice of the methods they use and
of the storages, under `EngineAssumption` alone (positive counts, `None` is
not a number).

The inductive invariant comes in layers, each proved with the ones before it:

1. `Fit` (`AudioEngineProofs`): `TypeOK`, what a control point says of the
   locals (a call at `arm` holds a request and has members left, at `undo` it
   has armed one, and so on) and that the mixer is at `run` or `start` exactly
   while it has taken requests. Types alone are not inductive: `Least` of an
   empty set would be an arbitrary value.
2. `OwnerInv` (`AudioEngineSafety`): `SingleOwner`, and a reader about to free
   a channel finds it still Closing. This is the heart of the ownership model:
   the only step out of Closing is the owner's, and nobody but the claimant
   moves a Loading channel.
3. `CleanInv`, `RequestHeldOnce`, `StopNotDropped`, `MixedChannelStays`: each
   inductive given `Fit` and, where a slot changes hands, `OwnerInv`.
   `RequestHeldOnce` has two halves: no request is in two hands (`HeldApart`),
   and none is in use with nobody to hand it back (`NoneLeaked`).
4. `ArmedInv`, `EnlistedInv`, `PromisedInv`: what is armed
   is Ready and enlisted by a request in use; what a request enlisted is not
   audible before the request is taken; what is armed for a committed request
   is promised, listed in its members and still to be visited. They need
   `RequestHeldOnce`, because a request number is reused like a slot is.

That it implements `ChannelOwnership` is read off `Fit` and `OwnerInv`. `Shown`
is the owner the table of the header names for a state, and the users of a
channel are the calls, the mixer and the readers whose control point says that
they work on it. Every action changes the status of at most one channel, or
leaves it and lets a user begin or end (`StepIsShown`, `MoveIsShown`); a reader
that begins to work on a channel finds its owner's state there, because the
looks at the status word are what `OwnerInv` speaks of.

**`PreloadCache`**: for every number of requests, of tasks and of descriptors,
every size of the hums and every capacity, under `CacheAssumption`. Types are
inductive by themselves. `Inv` follows a generation: `JobInv` says that the
pending job is the newest request, and that without one the loader has taken
the newest; `LoaderInv` what `hum` and the counters are at each control point
of the loader; `AskInv` what a `preloadStatus()` in progress has seen, as long
as its request is the newest. The order in which failure and completion are
published is what `LoaderInv` rests on.

That it provides `PreloadService` follows by a refinement mapping: the outcome
of the newest request is read off the three counters, and a call between its
second and third load still counts as asked. Only a newest request's
publication decides anything, and a call that sees its completion sees the
failure that was published before it.

**`ProfileSwitch`**: for every number of profiles and of switches, under
`SwitchAssumption`. Types are not inductive by themselves, since what is staged
must be a set that was built. `HandInv` says where the sets are at each point
of the manager (only in the middle of a switch anything is away from the bus,
and then the old set is in Switching); `PendInv` that a request is posted, taken
up and performed once; `PowerInv` that a set is Locked until it runs and that
nobody requests a preload while the bus asks for one. The three need each
other: the manager takes the bus's set away only because Switching keeps the
bus from everything else, and Switching is left only by the commit.

**`AudioStream`**: for every number of channels, every ring of which a quarter
is a whole number of samples, every cycle that fits in a quarter of it and every
length of a sound (`StreamAssumption`). The argument is an account of each
channel (`RingOf`): what the mixer has played, what waits in the ring and what a
reader has read and not yet published add up to the position in the file, at
every step of the mixer and of the readers. It rests on lemmas about remainders
(`ModAdd` and the five before it) and on what the header computes with them:
`AvailableIs`, `AdvanceIs`, `PublishedSamples`, `ConsumedSamples`, `FilledIs`.
Around it, `RefillInv` says that a span being read stays free until it is
published and that an end mark follows the last sample (`AtEnd`); `SnapInv` that
what `beginMixCycle()` saw is still good when the frames are mixed - readers
only add samples, and the write index is read after the end mark, so a channel
that was seen at its end has everything in the snapshot; `GroupInv` that the
members of a group are loops that play, all mixed or all held in each cycle. A
sound that is over is then one whose account has come to the end of the file:
`PlayedToTheEnd`. `TasksInv` lists which tasks are alive at each point of
`start()`, `stop_tasks()` and the destructor.

**`AudioController`**: for every number of voices, handles, channels and tasks
and every depth of the queue, as long as there are more generations than places
in it (`ControllerAssumption`: the queue has 16, a generation 32 bits;
`NoneAssumption` asks that `None` is no command). In layers again: `HandleInv`
(a handle has a slot of its own, of its generation), `CallInv` (a call in
progress keeps what it began with), `WorkerInv`; then `AgeInv`, which is what
the generations are for: a part is as many generations behind its slot as its
`age`, and its age is at most the number of places it has moved up in the queue,
since the worker receives a command for every sweep. With fewer generations than
that, a part could meet the generation it was made for a second time.
`BindingInv` says where each loop is, also between `AudioEngine::play()` and the
store of its channel; `LastInv` that a voice whose last command was superseded
has the newer one behind it; `VolumeInv` that a volume is in the channel, in the
hands of `setVoiceVolume()` or about to be seen by the re-check of
`bindChannel()`.

**`MetricsReporter`**: for every size of the ring, every number of files,
sessions, samples and power-ups (`ReporterAssumption`). `CountedOnce` is about a
sum over the ring of blocks, which is recursive. What the sum does when a block
is captured or leaves the ring (`SamplesAppend`, `SamplesTail`) is shown by
induction all the same, over sets of numbers instead of predicates
(`NatInductionSet`, from the well-foundedness of the order). It is shown for each
accumulator, since the exchanges take them one at a time. `FileInOrder` needs
`RingInv` (the blocks that wait are numbered upwards, below the next number) and
`DiskInv` (this power-up has written to its own file only, and only numbers that
were captured; and that file, unless it is misplaced or the last, holds nothing
of an earlier one).

**`ButtonToBlade`**: for every size of the counters, depth of the queue and
number of overlay slots. `GestureInv` ties the adapter to the button: a hold is
in progress only while the button is down and leaves no press to be clicked, and
nothing is pending before the first press. With it every callback is a step of
`GestureStream` or shows nothing, in particular a timer callback that was
dispatched before the mutex was taken by another one. `DragHasItsOverlay`,
stated beside its proof, is about two parts of the code that never compare
notes: the drag effect keeps a fade flag, the LED engine the overlay that shares
it. The theorem says that exactly this overlay waits for the drag, and none if
the push found no free slot.

| Theorem | Property |
|---|---|
| `TypeCorrect` (for each component) | `TypeOK` |
| `StatusTruthfulAlways`, `AnswerMeansQuietAlways` | `StatusTruthful`, `AnswerMeansQuiet` |
| `ServiceImplemented` | `ImplementsService` |
| `SetHeldOnceAlways`, `AssertionsHoldAlways`, `PowerIsAliveAlways`, `UnlockedHasItsHumAlways` | `SetHeldOnce`, `AssertionsHold`, `PowerIsAlive`, `UnlockedHasItsHum` |
| `SelectorImplemented` | `ImplementsSelector` |
| `SingleOwnerAlways`, `IdleIsCleanAlways` | `SingleOwner`, `IdleIsClean` |
| `RequestHeldOnceAlways` | `RequestHeldOnce` |
| `StopNotDroppedAlways` | `StopNotDropped` |
| `MixedChannelStaysAlways` | `MixedChannelStays` |
| `StartedWasPromisedAlways`, `PromiseKeptAlways`, `GroupStartsTogetherAlways` | `StartedWasPromised`, `PromiseKept`, `GroupStartsTogether` |
| `OwnershipImplemented` | `ImplementsOwnership` |
| `InOrderAlways`, `LinkedAlignedAlways`, `PlayedToTheEndAlways`, `TeardownSafeAlways` | `InOrder`, `LinkedAligned`, `PlayedToTheEnd`, `TeardownSafe` |
| `CommandReachesItsOwnerAlways`, `NoOrphanLoopAlways`, `LastCommandObeyedAlways`, `LatestVolumeWinsAlways`, `ReleaseIsSeenAlways` | `CommandReachesItsOwner`, `NoOrphanLoop`, `LastCommandObeyed`, `LatestVolumeWins`, `ReleaseIsSeen` |
| `CountedOnceAlways`, `FileInOrderAlways` | `CountedOnce`, `FileInOrder` |
| `GesturesImplemented` | the safety part of `ImplementsGestures` |
| `DragHasItsOverlayAlways` | `DragHasItsOverlay` |

Every safety property the passing runs check is a theorem. Model-checked only
are the liveness properties: `StopEndsIdle`, `PromiseFulfilled`,
`RequestAnswered`, `SwitchEnds`, `SaveHappens`, `GoesOn`, `PendingGetsWritten`,
`Settles`, and the part of `ImplementsGestures` that no press is forgotten. The
prover has no rules for fairness or `ENABLED`.

## What is not modelled

- `AudioEngine::init()` and the construction of channels and tasks: each
  specification begins with what they leave.
- Volume ramps, sample arithmetic, compressor and DC blocker: data. A fade ends
  within a cycle.
- `setChannelVolume()` and `getStats()`: they write and read values no guard
  depends on.
- `playLinked()` compares the lengths of the two files for a log line only.
- Linked groups of one-shots: no effect plays them. `StartGroup` of
  `AudioStream` links loops.
- The memory model: accesses are sequentially consistent. The code pairs its
  acquire and release accesses on the status word, the ring indices and the
  request masks, and the plain fields they protect are covered by `SingleOwner`,
  `RequestHeldOnce` and `InOrder`.
- `init()` and the destructor of the cache, which create and delete the loader
  task, and mounting `/mem`.
- `start()`, the destructor and the count of dropped commands of the audio
  controller. The loop of `bindChannel()` ends because the bus sets a volume at
  most once per cycle, which the model does not assume; nothing is claimed of
  its end.
- A `preloadStatus()` that is overtaken by a newer request between its loads
  may answer anything; in `ProfileSwitch` no call is overtaken.
- The tear-down of `SaberSystem`, `ProfileManager::stop()`,
  `SaberActionBus::stop()` and that of the LED engine: `main.cpp` keeps the
  system in a static object and never stops it.
- Motion: `Mpu6050` and `ImuAdapter` are register accesses and floating point
  filters over one sample; the overload level and the energy history of the clash
  detector are numbers whose thresholds are an input of `ButtonToBlade`. Seen in
  passing: `Mpu6050::resetFifo()` disables FIFO and DMP first, so if its last
  write fails they stay disabled with the FIFO empty, and `readData()` reports no
  sample from then on.
- The saved index: opening for writing truncates it, so a power cut leaves an
  empty file, which `load()` reads as "defaulting to index 0". A model would
  restate these lines.
- Profile parsing and sound fonts run once at boot, before the tasks; I2S, SD
  card and status LED are input and output.
- The note of each component in `PROJECT.json` has the details.

## Plan

In order of importance; each item names its specification, what it composes,
and what is worth proving.

1. **`AudioEngine`** with `ChannelOwnership` - done.
2. **`PreloadCache`** with `PreloadService` - done.
3. **`ProfileSwitch`** with `ProfileSelector`, on top of the service - done.
4. **`AudioStream`**, with linked groups and tear-down - done.
5. **`AudioController`** - done.
6. **`MetricsReporter`** - done.
7. **`InputGestures`** with `GestureStream`, **`ButtonToBlade`** - done, up to the
   fairness of the refinement.
8. Left: the safety facts the liveness properties rest on. Each of them is a
   promise that something in the middle of the way is not lost, and that part is
   an invariant: a request of `PreloadCache` that is not answered is pending, in
   the loader or about to be notified; a saber whose profile is to be saved has
   the manager armed or writing; a session that waits in the ring has a deadline
   (`PendingGetsWritten`); the loops and the light of the blade follow the power
   state (`Settles`).

The abstract specifications state what a header documents, the detailed ones
what the code does, and recursion is avoided in every module that is to carry
theorems.
