------------------------- MODULE AudioEngineSafety -------------------------
(***************************************************************************)
(* Proofs of the safety invariants of AudioEngine - who works on a file,   *)
(* what a freed channel looks like, who holds a start request, that a stop *)
(* is not dropped, that a channel being mixed stays -, of the refinement   *)
(* of ChannelOwnership, and about startGroup(): nothing is started that    *)
(* was not promised, no promised start is lost, and the members of a group *)
(* start together.                                                         *)
(***************************************************************************)
EXTENDS AudioEngineProofs

-----------------------------------------------------------------------------
(* What the composite steps do.                                            *)

\* After a step of call c it holds neither a channel nor a request, and the other calls did
\* not notice.
Moved(c) ==
  /\ pc'[c] \in {"idle", "claim", "reserve", "stop1", "stop2", "try1", "try2"}
  /\ \A d \in Callers \ {c} :
       /\ pc'[d] = pc[d] /\ scan'[d] = scan[d] /\ req'[d] = req[d]
       /\ first'[d] = first[d] /\ second'[d] = second[d] /\ armed'[d] = armed[d]

\* A call that returns, goes on after one of its parts, or stops a channel.
LEMMA Moves ==
  ASSUME CallsTyped, NEW c \in Callers,
         \/ Return(c) \/ PrepareFailed(c) \/ StartFailed(c) \/ StopDone(c)
         \/ StopLook(c) \/ StopTry(c)
  PROVE  Moved(c)
<1> USE DEF Moved
<1>1. ASSUME Return(c) PROVE Moved(c)
  BY <1>1 DEF CallsTyped, Return, Goto
<1>2. ASSUME PrepareFailed(c) PROVE Moved(c)
  BY <1>1, <1>2 DEF CallsTyped, PrepareFailed, Goto
<1>3. ASSUME StartFailed(c) PROVE Moved(c)
  BY <1>1, <1>3 DEF CallsTyped, StartFailed, Goto
<1>4. ASSUME StopDone(c) PROVE Moved(c)
  BY <1>1, <1>4 DEF CallsTyped, StopDone, Goto, locals
<1>5. ASSUME StopLook(c) PROVE Moved(c)
  <2>1. CASE Stoppable(Target(c))
    BY <1>5, <2>1 DEF StopLook, CallsTyped, Goto
  <2>2. CASE ~Stoppable(Target(c))
    BY <1>4, <1>5, <2>2 DEF StopLook
  <2> QED BY <2>1, <2>2
<1>6. ASSUME StopTry(c) PROVE Moved(c)
  BY <1>4, <1>6 DEF StopTry
<1> QED BY <1>1, <1>2, <1>3, <1>4, <1>5, <1>6

\* So does the publication of a loaded channel.
LEMMA PublishMoves ==
  ASSUME CallsTyped, NEW c \in Callers, NEW backed \in Backing, Publish(c, backed)
  PROVE  Moved(c)
<1>1. CASE goal[c] = "prepare"
  BY <1>1, Moves DEF Publish, Prepared
<1>2. CASE goal[c] # "prepare"
  BY <1>2 DEF Moved, CallsTyped, Publish, Prepared, Goto
<1> QED BY <1>1, <1>2

\* A call that moved works on no channel, and the others on what they did.
LEMMA MovedLoads ==
  ASSUME NEW c \in Callers, Moved(c)
  PROVE  \A d \in Callers, ch \in Channel : LoadingAt(d, ch)' => d # c /\ LoadingAt(d, ch)
BY DEF Moved, LoadingAt

\* The words a stop writes: nothing, or its target's stop bit, or its target's next state.
StopWrote(ch) ==
  \/ /\ state[ch] = "Loading" /\ state'[ch] = "Loading" /\ stopBit'[ch]
     /\ armedFor'[ch] = armedFor[ch]
  \/ state[ch] = "Ready"  /\ state'[ch] = "Closing"  /\ armedFor'[ch] = None
  \/ state[ch] = "Active" /\ state'[ch] = "Stopping" /\ armedFor'[ch] = None

\* What the CAS of a stop does to a channel: nothing, or what requestStop() writes.
LEMMA StopWrites ==
  ASSUME Fit, NEW c \in Callers, StopTry(c), NEW ch \in Channel
  PROVE  /\ memory'[ch] = memory[ch]
         /\ \/ /\ state'[ch] = state[ch] /\ stopBit'[ch] = stopBit[ch]
               /\ armedFor'[ch] = armedFor[ch] /\ stopped'[ch] = stopped[ch]
            \/ StopWrote(ch)
<1> USE DEF Fit, TypeOK, ChannelsTyped, HistoryTyped, statusVars
<1>1. CASE ~WillStop(c)
  BY <1>1 DEF StopTry
<1>2. CASE WillStop(c) /\ state[Target(c)] = "Loading"
  BY <1>2 DEF StopTry, StopWord, StopWrote
<1>3. CASE WillStop(c) /\ state[Target(c)] = "Ready"
  BY <1>3 DEF StopTry, StopWord, SetState, StopWrote
<1>4. CASE WillStop(c) /\ state[Target(c)] = "Active"
  BY <1>4 DEF StopTry, StopWord, SetState, StopWrote
<1> QED BY <1>1, <1>2, <1>3, <1>4 DEF WillStop, Stoppable

\* The mixer starts a channel armed for the request it runs, and no other.
LEMMA StartWrites ==
  ASSUME Fit, MixStart, NEW ch \in Channel
  PROVE  /\ memory'[ch] = memory[ch]
         /\ \/ /\ state'[ch] = state[ch] /\ stopBit'[ch] = stopBit[ch]
               /\ armedFor'[ch] = armedFor[ch]
            \/ /\ ch = Least(todo) /\ state[ch] = "Ready" /\ armedFor[ch] = Least(taken)
               /\ state'[ch] = "Active" /\ armedFor'[ch] = None
         /\ ~(ch = Least(todo) /\ state'[ch] = "Ready" /\ armedFor'[ch] = Least(taken))
<1> USE DEF Fit, TypeOK, ChannelsTyped, statusVars
<1>1. CASE IsArmedFor(Least(todo), Least(taken))
  BY <1>1 DEF MixStart, SetState, IsArmedFor
<1>2. CASE ~IsArmedFor(Least(todo), Least(taken))
  BY <1>2 DEF MixStart, IsArmedFor
<1> QED BY <1>1, <1>2

\* The end of a mixer cycle closes a channel that was mixed.
LEMMA EndWrites ==
  ASSUME Fit, NEW ended \in BOOLEAN, MixEnd(ended), NEW ch \in Channel
  PROVE  /\ memory'[ch] = memory[ch]
         /\ \/ /\ state'[ch] = state[ch] /\ stopBit'[ch] = stopBit[ch]
               /\ armedFor'[ch] = armedFor[ch]
            \/ /\ ch = Least(todo) /\ state[ch] \in Mixable
               /\ state'[ch] = "Closing" /\ armedFor'[ch] = None
BY DEF Fit, TypeOK, ChannelsTyped, MixEnd, Transition, SetState, statusVars, Mixable

-----------------------------------------------------------------------------
(* Ownership of the files.                                                 *)

\* SingleOwner, and the channel a reader is about to free is still Closing.
OwnerInv ==
  /\ SingleOwner
  /\ \A r \in Reader : rpc[r] = "free" => state[at[r]] = "Closing"

\* No reader works on a channel that is still loading.
LEMMA ReadersApart ==
  ASSUME OwnerInv, NEW ch \in Channel, state[ch] = "Loading"
  PROVE  \A r \in Reader : ~ReadingAt(r, ch)
BY DEF OwnerInv, SingleOwner, IsOwnedBy

\* A step that only moves channels from one mixable state to a later one keeps the owners.
LEMMA OwnerFrame ==
  ASSUME OwnerInv, ReadersTyped, UNCHANGED readVars,
         \A c \in Callers, ch \in Channel : LoadingAt(c, ch)' => LoadingAt(c, ch),
         \A ch \in Channel :
           /\ memory'[ch] = memory[ch]
           /\ \/ state'[ch] = state[ch]
              \/ /\ state[ch] \in {"Ready", "Active", "Stopping"}
                 /\ state'[ch] \in {"Active", "Stopping", "Closing"}
  PROVE  OwnerInv'
<1> USE DEF readVars
<1>1. ASSUME NEW c \in Callers, NEW ch \in Channel, LoadingAt(c, ch)'
      PROVE  state'[ch] = "Loading"
  <2>1. state[ch] = "Loading"
    BY <1>1 DEF OwnerInv, SingleOwner
  <2> QED BY <2>1
<1>2. ASSUME NEW r \in Reader, NEW ch \in Channel, ReadingAt(r, ch)'
      PROVE  IsOwnedBy(ch, r)'
  <2>1. IsOwnedBy(ch, r)
    BY <1>2 DEF ReadingAt, OwnerInv, SingleOwner
  <2> QED BY <2>1 DEF IsOwnedBy, OwnerOf
<1>3. ASSUME NEW r \in Reader, rpc'[r] = "free"
      PROVE  state'[at'[r]] = "Closing"
  <2>1. at[r] \in Channel /\ state[at[r]] = "Closing"
    BY <1>3 DEF OwnerInv, ReadersTyped
  <2> QED BY <2>1
<1>4. \A c, d \in Callers, ch \in Channel : LoadingAt(c, ch)' /\ LoadingAt(d, ch)' => c = d
  BY DEF OwnerInv, SingleOwner
<1>5. SingleOwner'
  BY <1>1, <1>2, <1>4 DEF SingleOwner
<1> QED BY <1>3, <1>5 DEF OwnerInv

\* OwnerInv is inductive.
LEMMA OwnerInvStep == Fit /\ OwnerInv /\ [Next]_vars => OwnerInv'
<1> SUFFICES ASSUME Fit, OwnerInv, [Next]_vars PROVE OwnerInv'
  OBVIOUS
<1> USE Indices, Picks
<1> USE DEF statusVars, dataVars, startVars, locals, mixVars, readVars, histVars
<1> USE DEF OwnerInv, SingleOwner, LoadingAt, ReadingAt, IsOwnedBy, OwnerOf, Fit, TypeOK,
    ChannelsTyped, CallsTyped, ReadersTyped, CallsFit, CallFits, HeldPoint
<1>1. ASSUME NEW c \in Callers, NEW g \in {"prepare", "play", "playLinked"}, BeginPrepare(c, g)
      PROVE  OwnerInv'
  BY <1>1 DEF BeginPrepare, Goto
<1>2. ASSUME NEW c \in Callers, Claim(c)
      PROVE  OwnerInv'
  BY <1>2 DEF Claim, SetState, Goto
<1>3. ASSUME NEW c \in Callers, SkipBusy(c)
      PROVE  OwnerInv'
  BY <1>3 DEF SkipBusy
<1>4. ASSUME NEW c \in Callers, NoFreeChannel(c)
      PROVE  OwnerInv'
  <2>1. UNCHANGED readVars /\ UNCHANGED <<state, memory>>
    BY <1>4 DEF NoFreeChannel
  <2>2. \A d \in Callers, ch \in Channel : LoadingAt(d, ch)' => LoadingAt(d, ch)
    <3>1. Moved(c)
      BY <1>4, Moves DEF NoFreeChannel
    <3> QED BY <3>1, MovedLoads
  <2> QED BY <2>1, <2>2, OwnerFrame
<1>5. ASSUME NEW c \in Callers, NEW opened \in BOOLEAN, NEW ended \in BOOLEAN, OpenAndPrefill(c, opened, ended)
      PROVE  OwnerInv'
  BY <1>5, SMTT(20) DEF OpenAndPrefill, ReadFile, Goto
<1>6. ASSUME NEW c \in Callers, NEW backed \in Backing, Publish(c, backed)
      PROVE  OwnerInv'
  <2>1. scan[c] \in Channel /\ LoadingAt(c, scan[c])
    BY <1>6 DEF Publish
  <2>2. \A r \in Reader : ~ReadingAt(r, scan[c])
    <3>1. state[scan[c]] = "Loading"
      BY <2>1 DEF OwnerInv, SingleOwner
    <3> QED BY <2>1, <3>1, ReadersApart
  <2>3. \A d \in Callers, ch \in Channel : LoadingAt(d, ch)' => d # c /\ LoadingAt(d, ch)
    <3>1. Moved(c)
      BY <1>6, PublishMoves
    <3> QED BY <3>1, MovedLoads
  <2>4. \A ch \in Channel : ch # scan[c] => state'[ch] = state[ch] /\ memory'[ch] = memory[ch]
    BY <1>6, <2>1 DEF Publish
  <2> QED BY <1>6, <2>1, <2>2, <2>3, <2>4 DEF Publish
<1>7. ASSUME NEW c \in Callers, PublishRefused(c)
      PROVE  OwnerInv'
  BY <1>7 DEF PublishRefused, Goto
<1>8. ASSUME NEW c \in Callers, AbortRelease(c)
      PROVE  OwnerInv'
  BY <1>8 DEF AbortRelease, ReleaseData, Goto
<1>9. ASSUME NEW c \in Callers, AbortIdle(c)
      PROVE  OwnerInv'
  <2>1. scan[c] \in Channel /\ LoadingAt(c, scan[c])
    BY <1>9 DEF AbortIdle
  <2>2. \A r \in Reader : ~ReadingAt(r, scan[c])
    <3>1. state[scan[c]] = "Loading"
      BY <2>1 DEF OwnerInv, SingleOwner
    <3> QED BY <2>1, <3>1, ReadersApart
  <2>3. \A d \in Callers, ch \in Channel : LoadingAt(d, ch)' => d # c /\ LoadingAt(d, ch)
    <3>1. Moved(c)
      BY <1>9, Moves DEF AbortIdle
    <3> QED BY <3>1, MovedLoads
  <2>4. \A ch \in Channel : ch # scan[c] => state'[ch] = state[ch] /\ memory'[ch] = memory[ch]
    BY <1>9, <2>1 DEF AbortIdle, StoreIdle
  <2> QED BY <1>9, <2>1, <2>2, <2>3, <2>4 DEF AbortIdle, StoreIdle
<1>10. ASSUME NEW c \in Callers, NEW a \in Channel, NEW b \in Channel \cup {None}, a # b, BeginStartGroup(c, a, b)
       PROVE  OwnerInv'
  BY <1>10 DEF BeginStartGroup, Goto
<1>11. ASSUME NEW c \in Callers, RefuseStart(c)
       PROVE  OwnerInv'
  <2>1. UNCHANGED readVars /\ UNCHANGED <<state, memory>>
    BY <1>11 DEF RefuseStart
  <2>2. \A d \in Callers, ch \in Channel : LoadingAt(d, ch)' => LoadingAt(d, ch)
    <3>1. Moved(c)
      BY <1>11, Moves DEF RefuseStart
    <3> QED BY <3>1, MovedLoads
  <2> QED BY <2>1, <2>2, OwnerFrame
<1>12. ASSUME NEW c \in Callers, Reserve(c)
       PROVE  OwnerInv'
  BY <1>12 DEF Reserve, Goto
<1>13. ASSUME NEW c \in Callers, Arm(c)
       PROVE  OwnerInv'
  BY <1>13 DEF Arm, Goto
<1>14. ASSUME NEW c \in Callers, ArmRefused(c)
       PROVE  OwnerInv'
  BY <1>14 DEF ArmRefused, Goto
<1>15. ASSUME NEW c \in Callers, Disarm(c)
       PROVE  OwnerInv'
  BY <1>15 DEF Disarm, IsArmedFor, Goto
<1>16. ASSUME NEW c \in Callers, ReleaseRequest(c)
       PROVE  OwnerInv'
  <2>1. UNCHANGED readVars /\ UNCHANGED <<state, memory>>
    BY <1>16 DEF ReleaseRequest
  <2>2. \A d \in Callers, ch \in Channel : LoadingAt(d, ch)' => LoadingAt(d, ch)
    <3>1. Moved(c)
      BY <1>16, Moves DEF ReleaseRequest
    <3> QED BY <3>1, MovedLoads
  <2> QED BY <2>1, <2>2, OwnerFrame
<1>17. ASSUME NEW c \in Callers, WriteMembers(c)
       PROVE  OwnerInv'
  BY <1>17 DEF WriteMembers, Goto
<1>18. ASSUME NEW c \in Callers, Commit(c)
       PROVE  OwnerInv'
  <2>1. UNCHANGED readVars /\ UNCHANGED <<state, memory>>
    BY <1>18 DEF Commit
  <2>2. \A d \in Callers, ch \in Channel : LoadingAt(d, ch)' => LoadingAt(d, ch)
    <3>1. Moved(c)
      BY <1>18, Moves DEF Commit
    <3> QED BY <3>1, MovedLoads
  <2> QED BY <2>1, <2>2, OwnerFrame
<1>19. ASSUME NEW c \in Callers, NEW ch \in Channel, BeginStop(c, ch)
       PROVE  OwnerInv'
  BY <1>19 DEF BeginStop, Goto
<1>20. ASSUME NEW c \in Callers, StopLook(c)
       PROVE  OwnerInv'
  <2>1. UNCHANGED readVars /\ UNCHANGED <<state, memory>>
    BY <1>20 DEF StopLook
  <2>2. \A d \in Callers, ch \in Channel : LoadingAt(d, ch)' => LoadingAt(d, ch)
    <3>1. Moved(c)
      BY <1>20, Moves DEF StopLook
    <3> QED BY <3>1, MovedLoads
  <2> QED BY <2>1, <2>2, OwnerFrame
<1>21. ASSUME NEW c \in Callers, StopTry(c)
       PROVE  OwnerInv'
  <2>1. \A d \in Callers, ch \in Channel : LoadingAt(d, ch)' => LoadingAt(d, ch)
    <3>1. Moved(c)
      BY <1>21, Moves
    <3> QED BY <3>1, MovedLoads
  <2>2. UNCHANGED readVars
    BY <1>21 DEF StopTry
  <2> QED BY <1>21, <2>1, <2>2, StopWrites, OwnerFrame DEF StopWrote
<1>22. ASSUME MixExchange PROVE OwnerInv'
  BY <1>22 DEF MixExchange, NextRequest
<1>23. ASSUME MixRun PROVE OwnerInv'
  BY <1>23 DEF MixRun
<1>24. ASSUME MixStart PROVE OwnerInv'
  <2>1. UNCHANGED readVars /\ \A c \in Callers, ch \in Channel : LoadingAt(c, ch)' => LoadingAt(c, ch)
    BY <1>24 DEF MixStart
  <2> QED BY <1>24, <2>1, StartWrites, OwnerFrame
<1>25. ASSUME MixFree PROVE OwnerInv'
  BY <1>25 DEF MixFree, NextRequest
<1>26. ASSUME MixBegin PROVE OwnerInv'
  BY <1>26 DEF MixBegin
<1>27. ASSUME MixSamples PROVE OwnerInv'
  BY <1>27 DEF MixSamples
<1>28. ASSUME NEW ended \in BOOLEAN, MixEnd(ended)
       PROVE  OwnerInv'
  <2>1. UNCHANGED readVars /\ \A c \in Callers, ch \in Channel : LoadingAt(c, ch)' => LoadingAt(c, ch)
    BY <1>28 DEF MixEnd
  <2> QED BY <1>28, <2>1, EndWrites, OwnerFrame DEF Mixable
<1>29. ASSUME MixWrite PROVE OwnerInv'
  BY <1>29 DEF MixWrite
<1>30. ASSUME NEW r \in Reader, NEW ch \in Channel, CloseRelease(r, ch)
       PROVE  OwnerInv'
  BY <1>30 DEF CloseRelease, ReleaseData, ReaderAt
<1>31. ASSUME NEW r \in Reader, CloseIdle(r)
       PROVE  OwnerInv'
  <2>1. at[r] \in Channel /\ state[at[r]] = "Closing" /\ ReadingAt(r, at[r])
    BY <1>31 DEF CloseIdle
  <2>2. \A q \in Reader, ch \in Channel : ReadingAt(q, ch)' => q # r /\ ch # at[r] /\ ReadingAt(q, ch)
    <3>1. \A q \in Reader, ch \in Channel : ReadingAt(q, ch)' => q # r /\ ReadingAt(q, ch)
      BY <1>31 DEF CloseIdle, ReaderAt
    <3>2. ASSUME NEW q \in Reader, ReadingAt(q, at[r]) PROVE q = r
      <4>1. IsOwnedBy(at[r], q) /\ IsOwnedBy(at[r], r)
        BY <2>1, <3>2
      <4> QED BY <4>1
    <3> QED BY <3>1, <3>2
  <2>7. \A c \in Callers : ~LoadingAt(c, at[r])
    BY <2>1
  <2>3. \A ch \in Channel : ch # at[r] => state'[ch] = state[ch] /\ memory'[ch] = memory[ch]
    BY <1>31, <2>1 DEF CloseIdle, StoreIdle
  <2>4. \A c \in Callers, ch \in Channel : LoadingAt(c, ch)' => ch # at[r] /\ LoadingAt(c, ch)
    BY <1>31, <2>7 DEF CloseIdle
  <2>5. SingleOwner'
    BY <2>2, <2>3, <2>4
  <2>6. ASSUME NEW q \in Reader, rpc'[q] = "free"
        PROVE  state'[at'[q]] = "Closing"
    <3>1. q # r /\ rpc[q] = "free" /\ at'[q] = at[q] /\ at[q] \in Channel
      BY <1>31, <2>6 DEF CloseIdle, ReaderAt
    <3>2. state[at[q]] = "Closing"
      BY <3>1
    <3>3. ReadingAt(q, at[q])'
      BY <2>6, <3>1
    <3>4. at[q] # at[r]
      BY <2>2, <3>1, <3>3, ZenonT(60)
    <3> QED BY <2>3, <3>1, <3>2, <3>4, ZenonT(60)
  <2> QED BY <2>5, <2>6
<1>32. ASSUME NEW r \in Reader, NEW ch \in Channel, PickRefill(r, ch)
       PROVE  OwnerInv'
  BY <1>32 DEF PickRefill, ReaderAt
<1>33. ASSUME NEW r \in Reader, NEW ended \in BOOLEAN, Refill(r, ended)
       PROVE  OwnerInv'
  BY <1>33 DEF Refill, ReadFile, ReaderAt
<1>34. ASSUME UNCHANGED vars PROVE OwnerInv'
  BY <1>34 DEF vars
<1> HIDE DEF OwnerInv, SingleOwner, LoadingAt, ReadingAt, IsOwnedBy, OwnerOf, Fit, TypeOK,
    ChannelsTyped, CallsTyped, ReadersTyped, CallsFit, CallFits, HeldPoint
<1> QED
  BY <1>1, <1>2, <1>3, <1>4, <1>5, <1>6, <1>7, <1>8, <1>9, <1>10, <1>11, <1>12, <1>13, <1>14,
     <1>15, <1>16, <1>17, <1>18, <1>19, <1>20, <1>21, <1>22, <1>23, <1>24, <1>25, <1>26, <1>27,
     <1>28, <1>29, <1>30, <1>31, <1>32, <1>33, <1>34
  DEF Next, Begin, Call, Prepare, StartGroup, Stop, Mixer, Close, RefillPass

\* The channel a task works on is in the state that makes the task its owner, and no two
\* tasks work on one channel.
THEOREM OwnerAlways == Spec => []OwnerInv
<1>1. Init => OwnerInv
  BY DEF Init, OwnerInv, SingleOwner, LoadingAt, ReadingAt, Reader
<1> QED BY <1>1, FitAlways, OwnerInvStep, PTL DEF Spec

\* SingleOwner holds for every number of channels, requests and callers.
THEOREM SingleOwnerAlways == Spec => []SingleOwner
<1>1. OwnerInv => SingleOwner
  BY DEF OwnerInv
<1> QED BY <1>1, OwnerAlways, PTL

-----------------------------------------------------------------------------
(* Freed channels.                                                         *)

\* A channel that is Idle, or about to be, has no file and no end-of-file mark.
CleanInv ==
  /\ \A ch \in Channel : state[ch] = "Idle" => ~file[ch] /\ ~eof[ch]
  /\ \A c \in Callers : pc[c] = "free" => ~file[scan[c]] /\ ~eof[scan[c]]
  /\ \A r \in Reader : rpc[r] = "free" => ~file[at[r]] /\ ~eof[at[r]]

\* CleanInv is inductive, given who owns what.
LEMMA CleanInvStep == Fit /\ OwnerInv /\ CleanInv /\ [Next]_vars => CleanInv'
<1> SUFFICES ASSUME Fit, OwnerInv, CleanInv, [Next]_vars PROVE CleanInv'
  OBVIOUS
<1> USE Indices, Picks
<1> USE DEF statusVars, dataVars, startVars, locals, mixVars, readVars, histVars
<1> USE DEF CleanInv, OwnerInv, SingleOwner, LoadingAt, ReadingAt, IsOwnedBy, OwnerOf, Fit,
    TypeOK, ChannelsTyped, CallsTyped, ReadersTyped
<1>1. ASSUME NEW c \in Callers, NEW g \in {"prepare", "play", "playLinked"}, BeginPrepare(c, g)
      PROVE  CleanInv'
  BY <1>1 DEF BeginPrepare, Goto
<1>2. ASSUME NEW c \in Callers, Claim(c)
      PROVE  CleanInv'
  BY <1>2 DEF Claim, SetState, Goto
<1>3. ASSUME NEW c \in Callers, SkipBusy(c)
      PROVE  CleanInv'
  BY <1>3 DEF SkipBusy
<1>4. ASSUME NEW c \in Callers, NoFreeChannel(c)
      PROVE  CleanInv'
  BY <1>4, Moves, SMTT(20) DEF NoFreeChannel, Moved
<1>5. ASSUME NEW c \in Callers, NEW opened \in BOOLEAN, NEW ended \in BOOLEAN, OpenAndPrefill(c, opened, ended)
      PROVE  CleanInv'
  <2>1. scan[c] \in Channel /\ LoadingAt(c, scan[c])
    BY <1>5 DEF OpenAndPrefill
  <2>2. state[scan[c]] = "Loading"
    BY <2>1
  <2>5. ASSUME NEW d \in Callers, pc'[d] = "free"
        PROVE  pc[d] = "free" /\ scan[d] \in Channel \ {scan[c]}
    <3>1. d # c /\ pc[d] = "free" /\ scan[d] \in Channel
      BY <1>5, <2>5 DEF OpenAndPrefill, Goto
    <3>2. LoadingAt(d, scan[d])
      BY <3>1
    <3> QED BY <2>1, <3>1, <3>2
  <2>3. \A r \in Reader : rpc[r] = "free" => at[r] \in Channel \ {scan[c]}
    BY <2>2
  <2>4. \A ch \in Channel : ch # scan[c] => file'[ch] = file[ch] /\ eof'[ch] = eof[ch]
    BY <1>5, <2>1 DEF OpenAndPrefill, ReadFile
  <2>6. scan' = scan /\ rpc' = rpc /\ at' = at /\ state' = state
    BY <1>5 DEF OpenAndPrefill
  <2> QED BY <2>2, <2>3, <2>4, <2>5, <2>6
<1>6. ASSUME NEW c \in Callers, NEW backed \in Backing, Publish(c, backed)
      PROVE  CleanInv'
  <2>1. \A d \in Callers : pc'[d] = "free" => pc[d] = "free" /\ scan'[d] = scan[d]
    BY <1>6, PublishMoves DEF Moved
  <2> QED BY <1>6, <2>1 DEF Publish
<1>7. ASSUME NEW c \in Callers, PublishRefused(c)
      PROVE  CleanInv'
  BY <1>7 DEF PublishRefused, Goto
<1>8. ASSUME NEW c \in Callers, AbortRelease(c)
      PROVE  CleanInv'
  BY <1>8 DEF AbortRelease, ReleaseData, Goto
<1>9. ASSUME NEW c \in Callers, AbortIdle(c)
      PROVE  CleanInv'
  <2>1. \A d \in Callers : pc'[d] = "free" => pc[d] = "free" /\ scan'[d] = scan[d]
    BY <1>9, Moves DEF Moved, AbortIdle
  <2>2. ~file[scan[c]] /\ ~eof[scan[c]]
    BY <1>9 DEF AbortIdle
  <2>3. \A ch \in Channel : state'[ch] = "Idle" => ch = scan[c] \/ state[ch] = "Idle"
    BY <1>9 DEF AbortIdle, StoreIdle
  <2>4. UNCHANGED <<dataVars, readVars>>
    BY <1>9 DEF AbortIdle
  <2> QED BY <2>1, <2>2, <2>3, <2>4
<1>10. ASSUME NEW c \in Callers, NEW a \in Channel, NEW b \in Channel \cup {None}, a # b, BeginStartGroup(c, a, b)
       PROVE  CleanInv'
  BY <1>10 DEF BeginStartGroup, Goto
<1>11. ASSUME NEW c \in Callers, RefuseStart(c)
       PROVE  CleanInv'
  BY <1>11, Moves, SMTT(20) DEF RefuseStart, Moved
<1>12. ASSUME NEW c \in Callers, Reserve(c)
       PROVE  CleanInv'
  BY <1>12 DEF Reserve, Goto
<1>13. ASSUME NEW c \in Callers, Arm(c)
       PROVE  CleanInv'
  BY <1>13 DEF Arm, Goto
<1>14. ASSUME NEW c \in Callers, ArmRefused(c)
       PROVE  CleanInv'
  BY <1>14 DEF ArmRefused, Goto
<1>15. ASSUME NEW c \in Callers, Disarm(c)
       PROVE  CleanInv'
  BY <1>15 DEF Disarm, IsArmedFor, Goto
<1>16. ASSUME NEW c \in Callers, ReleaseRequest(c)
       PROVE  CleanInv'
  BY <1>16, Moves, SMTT(20) DEF ReleaseRequest, Moved
<1>17. ASSUME NEW c \in Callers, WriteMembers(c)
       PROVE  CleanInv'
  BY <1>17 DEF WriteMembers, Goto
<1>18. ASSUME NEW c \in Callers, Commit(c)
       PROVE  CleanInv'
  BY <1>18, Moves, SMTT(20) DEF Commit, Moved
<1>19. ASSUME NEW c \in Callers, NEW ch \in Channel, BeginStop(c, ch)
       PROVE  CleanInv'
  BY <1>19 DEF BeginStop, Goto
<1>20. ASSUME NEW c \in Callers, StopLook(c)
       PROVE  CleanInv'
  <2>1. \A d \in Callers : pc'[d] = "free" => pc[d] = "free" /\ scan'[d] = scan[d]
    BY <1>20, Moves DEF Moved
  <2>2. \A ch \in Channel : state'[ch] = "Idle" => state[ch] = "Idle"
    BY <1>20 DEF StopLook
  <2>3. UNCHANGED <<dataVars, readVars>>
    BY <1>20 DEF StopLook
  <2> QED BY <2>1, <2>2, <2>3
<1>21. ASSUME NEW c \in Callers, StopTry(c)
       PROVE  CleanInv'
  <2>1. \A d \in Callers : pc'[d] = "free" => pc[d] = "free" /\ scan'[d] = scan[d]
    BY <1>21, Moves DEF Moved
  <2>2. \A ch \in Channel : state'[ch] = "Idle" => state[ch] = "Idle"
    BY <1>21, StopWrites DEF StopWrote
  <2>3. UNCHANGED <<dataVars, readVars>>
    BY <1>21 DEF StopTry
  <2> QED BY <2>1, <2>2, <2>3
<1>22. ASSUME MixExchange PROVE CleanInv'
  BY <1>22 DEF MixExchange, NextRequest
<1>23. ASSUME MixRun PROVE CleanInv'
  BY <1>23 DEF MixRun
<1>24. ASSUME MixStart PROVE CleanInv'
  BY <1>24 DEF MixStart, SetState
<1>25. ASSUME MixFree PROVE CleanInv'
  BY <1>25 DEF MixFree, NextRequest
<1>26. ASSUME MixBegin PROVE CleanInv'
  BY <1>26 DEF MixBegin
<1>27. ASSUME MixSamples PROVE CleanInv'
  BY <1>27 DEF MixSamples
<1>28. ASSUME NEW ended \in BOOLEAN, MixEnd(ended)
       PROVE  CleanInv'
  BY <1>28 DEF MixEnd, Transition, SetState
<1>29. ASSUME MixWrite PROVE CleanInv'
  BY <1>29 DEF MixWrite
<1>30. ASSUME NEW r \in Reader, NEW ch \in Channel, CloseRelease(r, ch)
       PROVE  CleanInv'
  BY <1>30 DEF CloseRelease, ReleaseData, ReaderAt
<1>31. ASSUME NEW r \in Reader, CloseIdle(r)
       PROVE  CleanInv'
  BY <1>31 DEF CloseIdle, StoreIdle, Forget, Target, ReaderAt
<1>32. ASSUME NEW r \in Reader, NEW ch \in Channel, PickRefill(r, ch)
       PROVE  CleanInv'
  BY <1>32 DEF PickRefill, ReaderAt
<1>33. ASSUME NEW r \in Reader, NEW ended \in BOOLEAN, Refill(r, ended)
       PROVE  CleanInv'
  <2>1. at[r] \in Channel /\ ReadingAt(r, at[r])
    BY <1>33 DEF Refill
  <2>2. state[at[r]] \notin {"Idle", "Loading"}
    BY <2>1
  <2>3. \A c \in Callers : pc[c] = "free" => scan[c] \in Channel \ {at[r]}
    BY <2>2
  <2>4. \A q \in Reader : rpc'[q] = "free" => rpc[q] = "free" /\ at'[q] = at[q] /\ at[q] \in Channel \ {at[r]}
    <3>1. ASSUME NEW q \in Reader, rpc'[q] = "free"
          PROVE  q # r /\ rpc[q] = "free" /\ at'[q] = at[q] /\ at[q] \in Channel
      BY <1>33, <3>1 DEF Refill, ReaderAt
    <3>2. ASSUME NEW q \in Reader, ReadingAt(q, at[r]) PROVE q = r
      <4>1. IsOwnedBy(at[r], q) /\ IsOwnedBy(at[r], r)
        BY <2>1, <3>2
      <4> QED BY <4>1
    <3> QED BY <3>1, <3>2
  <2>5. \A ch \in Channel : ch # at[r] => file'[ch] = file[ch] /\ eof'[ch] = eof[ch]
    BY <1>33, <2>1 DEF Refill, ReadFile
  <2>6. pc' = pc /\ scan' = scan /\ state' = state
    BY <1>33 DEF Refill
  <2>7. \A ch \in Channel : state'[ch] = "Idle" => ~file'[ch] /\ ~eof'[ch]
    BY <2>2, <2>5, <2>6
  <2>8. \A c \in Callers : pc'[c] = "free" => ~file'[scan'[c]] /\ ~eof'[scan'[c]]
    BY <2>3, <2>5, <2>6
  <2>9. ASSUME NEW q \in Reader, rpc'[q] = "free" PROVE ~file'[at'[q]] /\ ~eof'[at'[q]]
    <3>1. ~file[at[q]] /\ ~eof[at[q]]
      BY <2>4, <2>9
    <3>2. at'[q] = at[q] /\ at[q] \in Channel /\ at[q] # at[r]
      BY <2>4, <2>9
    <3>3. file'[at[q]] = file[at[q]] /\ eof'[at[q]] = eof[at[q]]
      BY <2>5, <3>2
    <3> QED BY <3>1, <3>2, <3>3
  <2> QED BY <2>7, <2>8, <2>9
<1>34. ASSUME UNCHANGED vars PROVE CleanInv'
  BY <1>34 DEF vars
<1> HIDE DEF CleanInv, OwnerInv, SingleOwner, LoadingAt, ReadingAt, IsOwnedBy, OwnerOf, Fit,
    TypeOK, ChannelsTyped, CallsTyped, ReadersTyped
<1> QED
  BY <1>1, <1>2, <1>3, <1>4, <1>5, <1>6, <1>7, <1>8, <1>9, <1>10, <1>11, <1>12, <1>13, <1>14,
     <1>15, <1>16, <1>17, <1>18, <1>19, <1>20, <1>21, <1>22, <1>23, <1>24, <1>25, <1>26, <1>27,
     <1>28, <1>29, <1>30, <1>31, <1>32, <1>33, <1>34
  DEF Next, Begin, Call, Prepare, StartGroup, Stop, Mixer, Close, RefillPass

-----------------------------------------------------------------------------
(* Start requests.                                                         *)

\* The part of RequestHeldOnce that keeps two hands from one request,
HeldApart ==
  /\ \A c, d \in Callers, r \in Request : HeldBy(c, r) /\ HeldBy(d, r) => c = d
  /\ \A c \in Callers, r \in Request : HeldBy(c, r) => r \in inUse \ (committed \cup taken)
  /\ committed \cap taken = {} /\ committed \cup taken \subseteq inUse

\* and the part that says no request is leaked.
NoneLeaked ==
  \A r \in inUse \ (committed \cup taken) : \E c \in Callers : HeldBy(c, r)

\* A step that hands out no request keeps HeldApart.
LEMMA HeldFrame ==
  ASSUME HeldApart, UNCHANGED <<inUse, committed, taken>>,
         \A c \in Callers, r \in Request : HeldBy(c, r)' => HeldBy(c, r)
  PROVE  HeldApart'
BY DEF HeldApart

\* HeldApart is inductive.
LEMMA HeldApartStep == Fit /\ HeldApart /\ [Next]_vars => HeldApart'
<1> SUFFICES ASSUME Fit, HeldApart, [Next]_vars PROVE HeldApart'
  OBVIOUS
<1> USE Indices, Picks
<1> USE DEF statusVars, dataVars, startVars, locals, mixVars, readVars, histVars
<1> USE DEF HeldApart, HeldBy, HeldPoint, Fit, TypeOK, StartsTyped, CallsTyped,
    MixerTyped, MixerFits, CallsFit, CallFits
<1>1. ASSUME NEW c \in Callers, NEW g \in {"prepare", "play", "playLinked"}, BeginPrepare(c, g)
      PROVE  HeldApart'
  BY <1>1 DEF BeginPrepare, Goto
<1>2. ASSUME NEW c \in Callers, Claim(c)
      PROVE  HeldApart'
  BY <1>2 DEF Claim, SetState, Goto
<1>3. ASSUME NEW c \in Callers, SkipBusy(c)
      PROVE  HeldApart'
  BY <1>3 DEF SkipBusy
<1>4. ASSUME NEW c \in Callers, NoFreeChannel(c)
      PROVE  HeldApart'
  BY <1>4, Moves, SMTT(20) DEF NoFreeChannel, Moved
<1>5. ASSUME NEW c \in Callers, NEW opened \in BOOLEAN, NEW ended \in BOOLEAN, OpenAndPrefill(c, opened, ended)
      PROVE  HeldApart'
  BY <1>5 DEF OpenAndPrefill, ReadFile, Goto
<1>6. ASSUME NEW c \in Callers, NEW backed \in Backing, Publish(c, backed)
      PROVE  HeldApart'
  <2>1. \A d \in Callers, r \in Request : HeldBy(d, r)' => HeldBy(d, r)
    BY <1>6, PublishMoves DEF Moved
  <2> QED BY <1>6, <2>1, HeldFrame DEF Publish
<1>7. ASSUME NEW c \in Callers, PublishRefused(c)
      PROVE  HeldApart'
  BY <1>7 DEF PublishRefused, Goto
<1>8. ASSUME NEW c \in Callers, AbortRelease(c)
      PROVE  HeldApart'
  BY <1>8 DEF AbortRelease, ReleaseData, Goto
<1>9. ASSUME NEW c \in Callers, AbortIdle(c)
      PROVE  HeldApart'
  <2>1. \A d \in Callers, r \in Request : HeldBy(d, r)' => HeldBy(d, r)
    BY <1>9, Moves DEF Moved, AbortIdle
  <2> QED BY <1>9, <2>1, HeldFrame DEF AbortIdle
<1>10. ASSUME NEW c \in Callers, NEW a \in Channel, NEW b \in Channel \cup {None}, a # b, BeginStartGroup(c, a, b)
       PROVE  HeldApart'
  <2>1. \A d \in Callers, r \in Request : HeldBy(d, r)' => HeldBy(d, r)
    BY <1>10 DEF BeginStartGroup, Goto
  <2> QED BY <1>10, <2>1, HeldFrame DEF BeginStartGroup
<1>11. ASSUME NEW c \in Callers, RefuseStart(c)
       PROVE  HeldApart'
  BY <1>11, Moves, SMTT(20) DEF RefuseStart, Moved
<1>12. ASSUME NEW c \in Callers, Reserve(c)
       PROVE  HeldApart'
  <2> DEFINE n == Least(Request \ inUse)
  <2>1. n \in Request \ inUse
    BY <1>12 DEF Reserve
  <2>2. \A d \in Callers, r \in Request : HeldBy(d, r)' => HeldBy(d, r) \/ (d = c /\ r = n)
    BY <1>12 DEF Reserve, Goto
  <2>3. \A d \in Callers : ~HeldBy(d, n)
    BY <2>1
  <2>4. inUse' = inUse \cup {n} /\ committed' = committed /\ taken' = taken
    BY <1>12 DEF Reserve
  <2> HIDE DEF n
  <2> QED BY <2>1, <2>2, <2>3, <2>4
<1>13. ASSUME NEW c \in Callers, Arm(c)
       PROVE  HeldApart'
  BY <1>13 DEF Arm, Goto
<1>14. ASSUME NEW c \in Callers, ArmRefused(c)
       PROVE  HeldApart'
  BY <1>14 DEF ArmRefused, Goto
<1>15. ASSUME NEW c \in Callers, Disarm(c)
       PROVE  HeldApart'
  BY <1>15 DEF Disarm, IsArmedFor, Goto
<1>16. ASSUME NEW c \in Callers, ReleaseRequest(c)
       PROVE  HeldApart'
  BY <1>16, Moves, SMTT(20) DEF ReleaseRequest, Moved
<1>17. ASSUME NEW c \in Callers, WriteMembers(c)
       PROVE  HeldApart'
  BY <1>17 DEF WriteMembers, Goto
<1>18. ASSUME NEW c \in Callers, Commit(c)
       PROVE  HeldApart'
  <2>1. req[c] \in Request /\ HeldBy(c, req[c])
    BY <1>18 DEF Commit
  <2>2. \A d \in Callers, r \in Request : HeldBy(d, r)' => d # c /\ HeldBy(d, r)
    BY <1>18, Moves DEF Moved, Commit
  <2>3. inUse' = inUse /\ committed' = committed \cup {req[c]} /\ taken' = taken
    BY <1>18 DEF Commit
  <2>4. \A a, b \in Callers, r \in Request : HeldBy(a, r)' /\ HeldBy(b, r)' => a = b
    BY <2>2
  <2>5. \A a \in Callers, r \in Request : HeldBy(a, r)' => r \in inUse' \ (committed' \cup taken')
    BY <2>1, <2>2, <2>3
  <2>6. committed' \cap taken' = {} /\ committed' \cup taken' \subseteq inUse'
    <3>1. req[c] \in inUse \ (committed \cup taken)
      BY <2>1
    <3>2. committed \cap taken = {} /\ committed \cup taken \subseteq inUse
      OBVIOUS
    <3>3. ASSUME NEW r \in committed', r \in taken' PROVE FALSE
      BY <2>3, <3>1, <3>2, <3>3
    <3>4. committed' \cup taken' \subseteq inUse'
      BY <2>3, <3>1, <3>2
    <3> QED BY <3>3, <3>4
  <2> QED BY <2>4, <2>5, <2>6
<1>19. ASSUME NEW c \in Callers, NEW ch \in Channel, BeginStop(c, ch)
       PROVE  HeldApart'
  BY <1>19 DEF BeginStop, Goto
<1>20. ASSUME NEW c \in Callers, StopLook(c)
       PROVE  HeldApart'
  <2>1. \A d \in Callers, r \in Request : HeldBy(d, r)' => HeldBy(d, r)
    BY <1>20, Moves DEF Moved
  <2> QED BY <1>20, <2>1, HeldFrame DEF StopLook
<1>21. ASSUME NEW c \in Callers, StopTry(c)
       PROVE  HeldApart'
  <2>1. \A d \in Callers, r \in Request : HeldBy(d, r)' => HeldBy(d, r)
    BY <1>21, Moves DEF Moved
  <2> QED BY <1>21, <2>1, HeldFrame DEF StopTry
<1>22. ASSUME MixExchange PROVE HeldApart'
  BY <1>22 DEF MixExchange, NextRequest
<1>23. ASSUME MixRun PROVE HeldApart'
  BY <1>23 DEF MixRun
<1>24. ASSUME MixStart PROVE HeldApart'
  BY <1>24 DEF MixStart, SetState
<1>25. ASSUME MixFree PROVE HeldApart'
  <2>1. Least(taken) \in taken
    BY <1>25 DEF MixFree
  <2>2. /\ inUse' = inUse \ {Least(taken)} /\ taken' = taken \ {Least(taken)}
        /\ committed' = committed
    BY <1>25 DEF MixFree
  <2>3. \A d \in Callers, r \in Request : HeldBy(d, r)' => HeldBy(d, r)
    BY <1>25 DEF MixFree
  <2>4. \A a, b \in Callers, r \in Request : HeldBy(a, r)' /\ HeldBy(b, r)' => a = b
    BY <2>3
  <2>5. \A a \in Callers, r \in Request : HeldBy(a, r)' => r \in inUse' \ (committed' \cup taken')
    BY <2>1, <2>2, <2>3
  <2>6. committed' \cap taken' = {} /\ committed' \cup taken' \subseteq inUse'
    <3>1. Least(taken) \notin committed
      BY <2>1
    <3>2. committed \cap taken = {} /\ committed \cup taken \subseteq inUse
      OBVIOUS
    <3>3. committed' \cap taken' = {}
      BY <2>2, <3>2
    <3>4. ASSUME NEW r \in committed' \cup taken' PROVE r \in inUse'
      BY <2>2, <3>1, <3>2, <3>4
    <3> QED BY <3>3, <3>4
  <2> QED BY <2>4, <2>5, <2>6
<1>26. ASSUME MixBegin PROVE HeldApart'
  BY <1>26 DEF MixBegin
<1>27. ASSUME MixSamples PROVE HeldApart'
  BY <1>27 DEF MixSamples
<1>28. ASSUME NEW ended \in BOOLEAN, MixEnd(ended)
       PROVE  HeldApart'
  BY <1>28 DEF MixEnd, Transition, SetState
<1>29. ASSUME MixWrite PROVE HeldApart'
  BY <1>29 DEF MixWrite
<1>30. ASSUME NEW r \in Reader, NEW ch \in Channel, CloseRelease(r, ch)
       PROVE  HeldApart'
  BY <1>30 DEF CloseRelease, ReleaseData, ReaderAt
<1>31. ASSUME NEW r \in Reader, CloseIdle(r)
       PROVE  HeldApart'
  BY <1>31 DEF CloseIdle, StoreIdle, Forget, Target, ReaderAt
<1>32. ASSUME NEW r \in Reader, NEW ch \in Channel, PickRefill(r, ch)
       PROVE  HeldApart'
  BY <1>32 DEF PickRefill, IsOwnedBy, OwnerOf, ReaderAt
<1>33. ASSUME NEW r \in Reader, NEW ended \in BOOLEAN, Refill(r, ended)
       PROVE  HeldApart'
  BY <1>33 DEF Refill, ReadFile, ReaderAt
<1>34. ASSUME UNCHANGED vars PROVE HeldApart'
  BY <1>34 DEF vars
<1> HIDE DEF HeldApart, HeldBy, HeldPoint, Fit, TypeOK, StartsTyped, CallsTyped,
    MixerTyped, MixerFits, CallsFit, CallFits
<1> QED
  BY <1>1, <1>2, <1>3, <1>4, <1>5, <1>6, <1>7, <1>8, <1>9, <1>10, <1>11, <1>12, <1>13, <1>14,
     <1>15, <1>16, <1>17, <1>18, <1>19, <1>20, <1>21, <1>22, <1>23, <1>24, <1>25, <1>26, <1>27,
     <1>28, <1>29, <1>30, <1>31, <1>32, <1>33, <1>34
  DEF Next, Begin, Call, Prepare, StartGroup, Stop, Mixer, Close, RefillPass

-----------------------------------------------------------------------------
(* Stops.                                                                  *)

\* StopNotDropped is inductive, given who owns what.
LEMMA StopNotDroppedStep == Fit /\ OwnerInv /\ StopNotDropped /\ [Next]_vars => StopNotDropped'
<1> SUFFICES ASSUME Fit, OwnerInv, StopNotDropped, [Next]_vars PROVE StopNotDropped'
  OBVIOUS
<1> USE Indices, Picks
<1> USE DEF statusVars, dataVars, startVars, locals, mixVars, readVars, histVars
<1> USE DEF StopNotDropped, OwnerInv, SingleOwner, LoadingAt, Fit, TypeOK, ChannelsTyped,
    HistoryTyped, CallsTyped
<1>1. ASSUME NEW c \in Callers, NEW g \in {"prepare", "play", "playLinked"}, BeginPrepare(c, g)
      PROVE  StopNotDropped'
  BY <1>1 DEF BeginPrepare, Goto
<1>2. ASSUME NEW c \in Callers, Claim(c)
      PROVE  StopNotDropped'
  BY <1>2 DEF Claim, SetState, Goto
<1>3. ASSUME NEW c \in Callers, SkipBusy(c)
      PROVE  StopNotDropped'
  BY <1>3 DEF SkipBusy
<1>4. ASSUME NEW c \in Callers, NoFreeChannel(c)
      PROVE  StopNotDropped'
  BY <1>4, Moves DEF NoFreeChannel, Moved
<1>5. ASSUME NEW c \in Callers, NEW opened \in BOOLEAN, NEW ended \in BOOLEAN, OpenAndPrefill(c, opened, ended)
      PROVE  StopNotDropped'
  BY <1>5 DEF OpenAndPrefill, ReadFile, Goto
<1>6. ASSUME NEW c \in Callers, NEW backed \in Backing, Publish(c, backed)
      PROVE  StopNotDropped'
  BY <1>6, PublishMoves DEF Publish, Moved
<1>7. ASSUME NEW c \in Callers, PublishRefused(c)
      PROVE  StopNotDropped'
  BY <1>7 DEF PublishRefused, Goto
<1>8. ASSUME NEW c \in Callers, AbortRelease(c)
      PROVE  StopNotDropped'
  BY <1>8 DEF AbortRelease, ReleaseData, Goto
<1>9. ASSUME NEW c \in Callers, AbortIdle(c)
      PROVE  StopNotDropped'
  BY <1>9, Moves DEF AbortIdle, StoreIdle, Forget, Target, Moved
<1>10. ASSUME NEW c \in Callers, NEW a \in Channel, NEW b \in Channel \cup {None}, a # b, BeginStartGroup(c, a, b)
       PROVE  StopNotDropped'
  BY <1>10 DEF BeginStartGroup, Goto
<1>11. ASSUME NEW c \in Callers, RefuseStart(c)
       PROVE  StopNotDropped'
  BY <1>11, Moves DEF RefuseStart, Moved
<1>12. ASSUME NEW c \in Callers, Reserve(c)
       PROVE  StopNotDropped'
  BY <1>12 DEF Reserve, Goto
<1>13. ASSUME NEW c \in Callers, Arm(c)
       PROVE  StopNotDropped'
  BY <1>13 DEF Arm, Goto
<1>14. ASSUME NEW c \in Callers, ArmRefused(c)
       PROVE  StopNotDropped'
  BY <1>14 DEF ArmRefused, Goto
<1>15. ASSUME NEW c \in Callers, Disarm(c)
       PROVE  StopNotDropped'
  BY <1>15 DEF Disarm, IsArmedFor, Goto
<1>16. ASSUME NEW c \in Callers, ReleaseRequest(c)
       PROVE  StopNotDropped'
  BY <1>16, Moves DEF ReleaseRequest, Moved
<1>17. ASSUME NEW c \in Callers, WriteMembers(c)
       PROVE  StopNotDropped'
  BY <1>17 DEF WriteMembers, Goto
<1>18. ASSUME NEW c \in Callers, Commit(c)
       PROVE  StopNotDropped'
  BY <1>18, Moves DEF Commit, Moved
<1>19. ASSUME NEW c \in Callers, NEW ch \in Channel, BeginStop(c, ch)
       PROVE  StopNotDropped'
  BY <1>19 DEF BeginStop, Goto
<1>20. ASSUME NEW c \in Callers, StopLook(c)
       PROVE  StopNotDropped'
  BY <1>20, Moves DEF StopLook, Stoppable, Target, Moved
<1>21. ASSUME NEW c \in Callers, StopTry(c)
       PROVE  StopNotDropped'
  BY <1>21, StopWrites, ZenonT(60) DEF StopWrote
<1>22. ASSUME MixExchange PROVE StopNotDropped'
  BY <1>22 DEF MixExchange, NextRequest
<1>23. ASSUME MixRun PROVE StopNotDropped'
  BY <1>23 DEF MixRun
<1>24. ASSUME MixStart PROVE StopNotDropped'
  <2>1. UNCHANGED stopped
    BY <1>24 DEF MixStart
  <2> QED BY <1>24, <2>1, StartWrites
<1>25. ASSUME MixFree PROVE StopNotDropped'
  BY <1>25 DEF MixFree, NextRequest
<1>26. ASSUME MixBegin PROVE StopNotDropped'
  BY <1>26 DEF MixBegin
<1>27. ASSUME MixSamples PROVE StopNotDropped'
  BY <1>27 DEF MixSamples
<1>28. ASSUME NEW ended \in BOOLEAN, MixEnd(ended)
       PROVE  StopNotDropped'
  <2>1. UNCHANGED stopped
    BY <1>28 DEF MixEnd
  <2> QED BY <1>28, <2>1, EndWrites DEF Mixable
<1>29. ASSUME MixWrite PROVE StopNotDropped'
  BY <1>29 DEF MixWrite
<1>30. ASSUME NEW r \in Reader, NEW ch \in Channel, CloseRelease(r, ch)
       PROVE  StopNotDropped'
  BY <1>30 DEF CloseRelease, ReleaseData, ReaderAt
<1>31. ASSUME NEW r \in Reader, CloseIdle(r)
       PROVE  StopNotDropped'
  BY <1>31 DEF CloseIdle, StoreIdle, Forget, Target, ReaderAt
<1>32. ASSUME NEW r \in Reader, NEW ch \in Channel, PickRefill(r, ch)
       PROVE  StopNotDropped'
  BY <1>32 DEF PickRefill, IsOwnedBy, OwnerOf, ReaderAt
<1>33. ASSUME NEW r \in Reader, NEW ended \in BOOLEAN, Refill(r, ended)
       PROVE  StopNotDropped'
  BY <1>33 DEF Refill, ReadFile, ReaderAt
<1>34. ASSUME UNCHANGED vars PROVE StopNotDropped'
  BY <1>34 DEF vars
<1> HIDE DEF StopNotDropped, OwnerInv, SingleOwner, LoadingAt, Fit, TypeOK, ChannelsTyped,
    HistoryTyped, CallsTyped
<1> QED
  BY <1>1, <1>2, <1>3, <1>4, <1>5, <1>6, <1>7, <1>8, <1>9, <1>10, <1>11, <1>12, <1>13, <1>14,
     <1>15, <1>16, <1>17, <1>18, <1>19, <1>20, <1>21, <1>22, <1>23, <1>24, <1>25, <1>26, <1>27,
     <1>28, <1>29, <1>30, <1>31, <1>32, <1>33, <1>34
  DEF Next, Begin, Call, Prepare, StartGroup, Stop, Mixer, Close, RefillPass

-----------------------------------------------------------------------------
(* Mixed channels.                                                         *)

\* MixedChannelStays is inductive, given who owns what.
LEMMA MixedChannelStaysStep == Fit /\ OwnerInv /\ MixedChannelStays /\ [Next]_vars => MixedChannelStays'
<1> SUFFICES ASSUME Fit, OwnerInv, MixedChannelStays, [Next]_vars PROVE MixedChannelStays'
  OBVIOUS
<1> USE Indices, Picks
<1> USE DEF statusVars, dataVars, startVars, locals, mixVars, readVars, histVars
<1> USE DEF MixedChannelStays, Mixable, OwnerInv, SingleOwner, LoadingAt, Fit, TypeOK,
    ChannelsTyped, MixerTyped, CallsTyped, ReadersTyped
<1>1. ASSUME NEW c \in Callers, NEW g \in {"prepare", "play", "playLinked"}, BeginPrepare(c, g)
      PROVE  MixedChannelStays'
  BY <1>1 DEF BeginPrepare, Goto
<1>2. ASSUME NEW c \in Callers, Claim(c)
      PROVE  MixedChannelStays'
  BY <1>2 DEF Claim, SetState, Goto
<1>3. ASSUME NEW c \in Callers, SkipBusy(c)
      PROVE  MixedChannelStays'
  BY <1>3 DEF SkipBusy
<1>4. ASSUME NEW c \in Callers, NoFreeChannel(c)
      PROVE  MixedChannelStays'
  BY <1>4, Moves DEF NoFreeChannel, Moved
<1>5. ASSUME NEW c \in Callers, NEW opened \in BOOLEAN, NEW ended \in BOOLEAN, OpenAndPrefill(c, opened, ended)
      PROVE  MixedChannelStays'
  BY <1>5 DEF OpenAndPrefill, ReadFile, Goto
<1>6. ASSUME NEW c \in Callers, NEW backed \in Backing, Publish(c, backed)
      PROVE  MixedChannelStays'
  BY <1>6, PublishMoves DEF Publish, Moved
<1>7. ASSUME NEW c \in Callers, PublishRefused(c)
      PROVE  MixedChannelStays'
  BY <1>7 DEF PublishRefused, Goto
<1>8. ASSUME NEW c \in Callers, AbortRelease(c)
      PROVE  MixedChannelStays'
  BY <1>8 DEF AbortRelease, ReleaseData, Goto
<1>9. ASSUME NEW c \in Callers, AbortIdle(c)
      PROVE  MixedChannelStays'
  <2>1. scan[c] \in Channel /\ state[scan[c]] = "Loading"
    BY <1>9 DEF AbortIdle
  <2>2. \A ch \in Channel : ch # scan[c] => state'[ch] = state[ch]
    BY <1>9, <2>1 DEF AbortIdle, StoreIdle
  <2> QED BY <1>9, <2>1, <2>2 DEF AbortIdle
<1>10. ASSUME NEW c \in Callers, NEW a \in Channel, NEW b \in Channel \cup {None}, a # b, BeginStartGroup(c, a, b)
       PROVE  MixedChannelStays'
  BY <1>10 DEF BeginStartGroup, Goto
<1>11. ASSUME NEW c \in Callers, RefuseStart(c)
       PROVE  MixedChannelStays'
  BY <1>11, Moves DEF RefuseStart, Moved
<1>12. ASSUME NEW c \in Callers, Reserve(c)
       PROVE  MixedChannelStays'
  BY <1>12 DEF Reserve, Goto
<1>13. ASSUME NEW c \in Callers, Arm(c)
       PROVE  MixedChannelStays'
  BY <1>13 DEF Arm, Goto
<1>14. ASSUME NEW c \in Callers, ArmRefused(c)
       PROVE  MixedChannelStays'
  BY <1>14 DEF ArmRefused, Goto
<1>15. ASSUME NEW c \in Callers, Disarm(c)
       PROVE  MixedChannelStays'
  BY <1>15 DEF Disarm, IsArmedFor, Goto
<1>16. ASSUME NEW c \in Callers, ReleaseRequest(c)
       PROVE  MixedChannelStays'
  BY <1>16, Moves DEF ReleaseRequest, Moved
<1>17. ASSUME NEW c \in Callers, WriteMembers(c)
       PROVE  MixedChannelStays'
  BY <1>17 DEF WriteMembers, Goto
<1>18. ASSUME NEW c \in Callers, Commit(c)
       PROVE  MixedChannelStays'
  BY <1>18, Moves DEF Commit, Moved
<1>19. ASSUME NEW c \in Callers, NEW ch \in Channel, BeginStop(c, ch)
       PROVE  MixedChannelStays'
  BY <1>19 DEF BeginStop, Goto
<1>20. ASSUME NEW c \in Callers, StopLook(c)
       PROVE  MixedChannelStays'
  BY <1>20, Moves DEF StopLook, Stoppable, Target, Moved
<1>21. ASSUME NEW c \in Callers, StopTry(c)
       PROVE  MixedChannelStays'
  <2>1. UNCHANGED mixVars
    BY <1>21 DEF StopTry
  <2> QED BY <1>21, <2>1, StopWrites DEF StopWrote
<1>22. ASSUME MixExchange PROVE MixedChannelStays'
  BY <1>22 DEF MixExchange, NextRequest
<1>23. ASSUME MixRun PROVE MixedChannelStays'
  BY <1>23 DEF MixRun
<1>24. ASSUME MixStart PROVE MixedChannelStays'
  <2>1. UNCHANGED mix
    BY <1>24 DEF MixStart
  <2> QED BY <1>24, <2>1, StartWrites
<1>25. ASSUME MixFree PROVE MixedChannelStays'
  BY <1>25 DEF MixFree, NextRequest
<1>26. ASSUME MixBegin PROVE MixedChannelStays'
  BY <1>26 DEF MixBegin
<1>27. ASSUME MixSamples PROVE MixedChannelStays'
  BY <1>27 DEF MixSamples
<1>28. ASSUME NEW ended \in BOOLEAN, MixEnd(ended)
       PROVE  MixedChannelStays'
  <2>1. /\ Least(todo) \in Channel
        /\ \A ch \in Channel : mix'[ch] = IF ch = Least(todo) THEN "none" ELSE mix[ch]
    BY <1>28 DEF MixEnd
  <2> QED BY <1>28, <2>1, EndWrites
<1>29. ASSUME MixWrite PROVE MixedChannelStays'
  BY <1>29 DEF MixWrite
<1>30. ASSUME NEW r \in Reader, NEW ch \in Channel, CloseRelease(r, ch)
       PROVE  MixedChannelStays'
  BY <1>30 DEF CloseRelease, ReleaseData, ReaderAt
<1>31. ASSUME NEW r \in Reader, CloseIdle(r)
       PROVE  MixedChannelStays'
  BY <1>31 DEF CloseIdle, StoreIdle, Forget, Target, ReaderAt
<1>32. ASSUME NEW r \in Reader, NEW ch \in Channel, PickRefill(r, ch)
       PROVE  MixedChannelStays'
  BY <1>32 DEF PickRefill, IsOwnedBy, OwnerOf, ReaderAt
<1>33. ASSUME NEW r \in Reader, NEW ended \in BOOLEAN, Refill(r, ended)
       PROVE  MixedChannelStays'
  BY <1>33 DEF Refill, ReadFile, ReaderAt
<1>34. ASSUME UNCHANGED vars PROVE MixedChannelStays'
  BY <1>34 DEF vars
<1> HIDE DEF MixedChannelStays, Mixable, OwnerInv, SingleOwner, LoadingAt, Fit, TypeOK,
    ChannelsTyped, MixerTyped, CallsTyped, ReadersTyped
<1> QED
  BY <1>1, <1>2, <1>3, <1>4, <1>5, <1>6, <1>7, <1>8, <1>9, <1>10, <1>11, <1>12, <1>13, <1>14,
     <1>15, <1>16, <1>17, <1>18, <1>19, <1>20, <1>21, <1>22, <1>23, <1>24, <1>25, <1>26, <1>27,
     <1>28, <1>29, <1>30, <1>31, <1>32, <1>33, <1>34
  DEF Next, Begin, Call, Prepare, StartGroup, Stop, Mixer, Close, RefillPass

-----------------------------------------------------------------------------
(* The invariants hold of the engine.                                      *)

\* A channel handed back has no user, no open file and no end-of-file mark: IdleIsClean
\* holds for every number of channels, requests and callers.
THEOREM IdleIsCleanAlways == Spec => []IdleIsClean
<1>1. Init => CleanInv
  BY DEF Init, CleanInv, Reader
<1>2. OwnerInv /\ CleanInv => IdleIsClean
  BY DEF OwnerInv, SingleOwner, CleanInv, IdleIsClean, Users, IsOwnedBy
<1> QED BY <1>1, <1>2, FitAlways, OwnerAlways, CleanInvStep, PTL DEF Spec

\* No request is ever in two hands,
LEMMA HeldApartAlways == Spec => []HeldApart
<1>1. Init => HeldApart
  BY DEF Init, HeldApart, HeldBy
<1> QED BY <1>1, FitAlways, HeldApartStep, PTL DEF Spec

\* A step that frees or passes on no request keeps NoneLeaked: what a caller holds it holds on.
LEMMA LeakFrame ==
  ASSUME NoneLeaked, UNCHANGED inUse, committed \cup taken \subseteq committed' \cup taken',
         \A c \in Callers, r \in Request : HeldBy(c, r) => HeldBy(c, r)',
         inUse \subseteq Request
  PROVE  NoneLeaked'
BY DEF NoneLeaked

\* NoneLeaked is inductive: a request leaves a caller's hand only into the committed set or
\* with its bit cleared.
LEMMA NoneLeakedStep == Fit /\ HeldApart /\ NoneLeaked /\ [Next]_vars => NoneLeaked'
<1> SUFFICES ASSUME Fit, HeldApart, NoneLeaked, [Next]_vars PROVE NoneLeaked'
  OBVIOUS
<1> USE Indices, Picks
<1> USE DEF statusVars, dataVars, startVars, locals, mixVars, readVars, histVars
<1> USE DEF HeldBy, HeldPoint, Fit, TypeOK, StartsTyped, CallsTyped, MixerTyped, MixerFits,
    CallsFit, CallFits
<1>0. inUse \subseteq Request
  OBVIOUS
<1> DEFINE StillHeld == \A d \in Callers, r \in Request : HeldBy(d, r) => HeldBy(d, r)'
           StillOut == UNCHANGED inUse /\ committed \cup taken \subseteq committed' \cup taken'
<1>k. ASSUME StillHeld, StillOut PROVE NoneLeaked'
  BY <1>0, <1>k, LeakFrame
<1>1. ASSUME NEW c \in Callers, NEW g \in {"prepare", "play", "playLinked"}, BeginPrepare(c, g)
      PROVE  StillHeld /\ StillOut
  BY <1>1 DEF BeginPrepare, Goto
<1>2. ASSUME NEW c \in Callers, Claim(c) PROVE StillHeld /\ StillOut
  BY <1>2 DEF Claim, SetState, Goto
<1>3. ASSUME NEW c \in Callers, SkipBusy(c) PROVE StillHeld /\ StillOut
  BY <1>3 DEF SkipBusy
<1>4. ASSUME NEW c \in Callers, NoFreeChannel(c) PROVE StillHeld /\ StillOut
  BY <1>4, Moves, SMTT(20) DEF NoFreeChannel, Moved
<1>5. ASSUME NEW c \in Callers, NEW opened \in BOOLEAN, NEW ended \in BOOLEAN, OpenAndPrefill(c, opened, ended)
      PROVE  StillHeld /\ StillOut
  BY <1>5 DEF OpenAndPrefill, ReadFile, Goto
<1>6. ASSUME NEW c \in Callers, NEW backed \in Backing, Publish(c, backed) PROVE StillHeld /\ StillOut
  BY <1>6, PublishMoves DEF Publish, Moved
<1>7. ASSUME NEW c \in Callers, PublishRefused(c) PROVE StillHeld /\ StillOut
  BY <1>7 DEF PublishRefused, Goto
<1>8. ASSUME NEW c \in Callers, AbortRelease(c) PROVE StillHeld /\ StillOut
  BY <1>8 DEF AbortRelease, ReleaseData, Goto
<1>9. ASSUME NEW c \in Callers, AbortIdle(c) PROVE StillHeld /\ StillOut
  BY <1>9, Moves, SMTT(20) DEF AbortIdle, Moved
<1>10. ASSUME NEW c \in Callers, NEW a \in Channel, NEW b \in Channel \cup {None}, a # b, BeginStartGroup(c, a, b)
       PROVE  StillHeld /\ StillOut
  BY <1>10 DEF BeginStartGroup, Goto
<1>11. ASSUME NEW c \in Callers, RefuseStart(c) PROVE StillHeld /\ StillOut
  BY <1>11, Moves, SMTT(20) DEF RefuseStart, Moved
<1>13. ASSUME NEW c \in Callers, Arm(c) PROVE StillHeld /\ StillOut
  BY <1>13 DEF Arm, Goto
<1>14. ASSUME NEW c \in Callers, ArmRefused(c) PROVE StillHeld /\ StillOut
  BY <1>14 DEF ArmRefused, Goto
<1>15. ASSUME NEW c \in Callers, Disarm(c) PROVE StillHeld /\ StillOut
  BY <1>15 DEF Disarm, IsArmedFor, Goto
<1>17. ASSUME NEW c \in Callers, WriteMembers(c) PROVE StillHeld /\ StillOut
  BY <1>17 DEF WriteMembers, Goto
<1>19. ASSUME NEW c \in Callers, NEW ch \in Channel, BeginStop(c, ch) PROVE StillHeld /\ StillOut
  BY <1>19 DEF BeginStop, Goto
<1>20. ASSUME NEW c \in Callers, StopLook(c) PROVE StillHeld /\ StillOut
  BY <1>20, Moves, SMTT(20) DEF StopLook, Moved
<1>21. ASSUME NEW c \in Callers, StopTry(c) PROVE StillHeld /\ StillOut
  <2>1. pc[c] \in {"try1", "try2"} /\ StillOut
    BY <1>21 DEF StopTry
  <2>2. StillHeld
    BY <1>21, <2>1, Moves DEF Moved
  <2> QED BY <2>1, <2>2
<1>22. ASSUME MixExchange PROVE StillHeld /\ StillOut
  BY <1>22 DEF MixExchange, NextRequest
<1>23. ASSUME MixRun PROVE StillHeld /\ StillOut
  BY <1>23 DEF MixRun
<1>24. ASSUME MixStart PROVE StillHeld /\ StillOut
  BY <1>24 DEF MixStart, SetState
<1>26. ASSUME MixBegin PROVE StillHeld /\ StillOut
  BY <1>26 DEF MixBegin
<1>27. ASSUME MixSamples PROVE StillHeld /\ StillOut
  BY <1>27 DEF MixSamples
<1>28. ASSUME NEW ended \in BOOLEAN, MixEnd(ended) PROVE StillHeld /\ StillOut
  BY <1>28 DEF MixEnd, Transition, SetState
<1>29. ASSUME MixWrite PROVE StillHeld /\ StillOut
  BY <1>29 DEF MixWrite
<1>30. ASSUME NEW r \in Reader, NEW ch \in Channel, CloseRelease(r, ch) PROVE StillHeld /\ StillOut
  BY <1>30 DEF CloseRelease, ReleaseData, ReaderAt
<1>31. ASSUME NEW r \in Reader, CloseIdle(r) PROVE StillHeld /\ StillOut
  BY <1>31 DEF CloseIdle, StoreIdle, Forget, Target, ReaderAt
<1>32. ASSUME NEW r \in Reader, NEW ch \in Channel, PickRefill(r, ch) PROVE StillHeld /\ StillOut
  BY <1>32 DEF PickRefill, IsOwnedBy, OwnerOf, ReaderAt
<1>33. ASSUME NEW r \in Reader, NEW ended \in BOOLEAN, Refill(r, ended) PROVE StillHeld /\ StillOut
  BY <1>33 DEF Refill, ReadFile, ReaderAt
<1>34. ASSUME UNCHANGED vars PROVE StillHeld /\ StillOut
  BY <1>34 DEF vars
<1>12. ASSUME NEW c \in Callers, Reserve(c) PROVE NoneLeaked'
  <2> DEFINE n == Least(Request \ inUse)
  <2>1. n \in Request \ inUse
    BY <1>12 DEF Reserve
  <2>2. inUse' = inUse \cup {n} /\ committed' = committed /\ taken' = taken
    BY <1>12 DEF Reserve
  <2>3. pc'[c] = "arm" /\ req'[c] = n
    <3>1. pc'[c] = "arm" /\ req' = [req EXCEPT ![c] = n]
      BY <1>12 DEF Reserve, Goto
    <3>2. req \in [Callers -> Request \cup {None}]
      BY DEF TypeOK
    <3> HIDE DEF n
    <3> QED BY <3>1, <3>2
  <2>4. \A d \in Callers, r \in Request : HeldBy(d, r) => HeldBy(d, r)'
    BY <1>12 DEF Reserve, Goto
  <2>5. ASSUME NEW r \in inUse' \ (committed' \cup taken') PROVE \E d \in Callers : HeldBy(d, r)'
    <3> HIDE DEF n
    <3>1. CASE r = n
      BY <2>3, <3>1
    <3> HIDE DEF HeldBy
    <3>2. CASE r # n
      <4>1. r \in inUse \ (committed \cup taken) /\ r \in Request
        BY <1>0, <2>2, <3>2
      <4>2. PICK d \in Callers : HeldBy(d, r)
        BY <4>1 DEF NoneLeaked
      <4> QED BY <2>4, <4>1, <4>2
    <3> QED BY <3>1, <3>2
  <2> HIDE DEF n, HeldBy
  <2> QED BY <2>5 DEF NoneLeaked
<1>16. ASSUME NEW c \in Callers, ReleaseRequest(c) PROVE NoneLeaked'
  <2>1. inUse' = inUse \ {req[c]} /\ committed' = committed /\ taken' = taken
    BY <1>16 DEF ReleaseRequest
  <2>2. \A d \in Callers, r \in Request : HeldBy(d, r) /\ r # req[c] => HeldBy(d, r)'
    BY <1>16, Moves, SMTT(20) DEF ReleaseRequest, Moved
  <2> HIDE DEF HeldBy
  <2> QED BY <1>0, <2>1, <2>2 DEF NoneLeaked
<1>18. ASSUME NEW c \in Callers, Commit(c) PROVE NoneLeaked'
  <2>1. inUse' = inUse /\ committed' = committed \cup {req[c]} /\ taken' = taken
    BY <1>18 DEF Commit
  <2>2. \A d \in Callers, r \in Request : HeldBy(d, r) /\ r # req[c] => HeldBy(d, r)'
    BY <1>18, Moves, SMTT(20) DEF Commit, Moved
  <2> HIDE DEF HeldBy
  <2> QED BY <1>0, <2>1, <2>2 DEF NoneLeaked
<1>25. ASSUME MixFree PROVE NoneLeaked'
  <2>1. /\ inUse' = inUse \ {Least(taken)} /\ taken' = taken \ {Least(taken)}
        /\ committed' = committed
    BY <1>25 DEF MixFree
  <2>2. \A d \in Callers, r \in Request : HeldBy(d, r) => HeldBy(d, r)'
    BY <1>25 DEF MixFree
  <2> HIDE DEF HeldBy
  <2> QED BY <1>0, <2>1, <2>2 DEF NoneLeaked
<1> HIDE DEF HeldBy, HeldPoint, Fit, TypeOK, StartsTyped, CallsTyped, MixerTyped, MixerFits,
    CallsFit, CallFits, StillHeld, StillOut
<1> QED
  BY <1>k, <1>1, <1>2, <1>3, <1>4, <1>5, <1>6, <1>7, <1>8, <1>9, <1>10, <1>11, <1>12, <1>13, <1>14,
     <1>15, <1>16, <1>17, <1>18, <1>19, <1>20, <1>21, <1>22, <1>23, <1>24, <1>25, <1>26, <1>27,
     <1>28, <1>29, <1>30, <1>31, <1>32, <1>33, <1>34
  DEF Next, Begin, Call, Prepare, StartGroup, Stop, Mixer, Close, RefillPass

\* A start request in use is in exactly one hand, RequestHeldOnce always holds: no two callers,
\* nor a caller and the mixer, work on one request, and every in-use bit has somebody who will
\* clear it.
THEOREM RequestHeldOnceAlways == Spec => []RequestHeldOnce
<1>1. Init => NoneLeaked
  BY DEF Init, NoneLeaked
<1>2. Fit /\ HeldApart /\ NoneLeaked => RequestHeldOnce
  BY DEF HeldApart, NoneLeaked, RequestHeldOnce
<1> QED BY <1>1, <1>2, FitAlways, HeldApartAlways, NoneLeakedStep, PTL DEF Spec

\* No stop is dropped: StopNotDropped always holds.
THEOREM StopNotDroppedAlways == Spec => []StopNotDropped
<1>1. Init => StopNotDropped
  BY DEF Init, StopNotDropped
<1> QED BY <1>1, FitAlways, OwnerAlways, StopNotDroppedStep, PTL DEF Spec

\* A snapshotted channel is not closed under the mixer: MixedChannelStays always holds.
THEOREM MixedChannelStaysAlways == Spec => []MixedChannelStays
<1>1. Init => MixedChannelStays
  BY DEF Init, MixedChannelStays
<1> QED BY <1>1, FitAlways, OwnerAlways, MixedChannelStaysStep, PTL DEF Spec

-----------------------------------------------------------------------------
(* The documented lifecycle and ownership table.                           *)

\* The owner that the documentation gives a channel.
Shown(ch) == IF state[ch] \in {"Idle", "Loading"} THEN "none" ELSE OwnerOf(ch)

\* No task starts or stops loading a channel.
SameLoads == \A c \in Callers, ch \in Channel : LoadingAt(c, ch)' <=> LoadingAt(c, ch)

\* Nor does a reader turn to a channel or away from it.
LEMMA UsersStay ==
  ASSUME SameLoads, NEW ch \in Channel,
         \A r \in Reader : ReadingAt(r, ch)' <=> ReadingAt(r, ch)
  PROVE  Users(ch)' = Users(ch)
BY DEF SameLoads, Users

\* A step that shows nothing of itself.
LEMMA StepStutters ==
  ASSUME UNCHANGED <<state, memory, readVars>>, SameLoads
  PROVE  UNCHANGED Ownership!vars
<1>1. \A ch \in Channel : Users(ch)' = Users(ch)
  <2>1. \A r \in Reader, ch \in Channel : ReadingAt(r, ch)' <=> ReadingAt(r, ch)
    BY DEF ReadingAt, readVars
  <2> QED BY <2>1, UsersStay
<1>2. \A ch \in Channel : Shown(ch)' = Shown(ch)
  BY DEF Shown, OwnerOf
<1>3. UNCHANGED [ch \in Channel |-> Users(ch)] /\ UNCHANGED [ch \in Channel |-> Shown(ch)]
  BY <1>1, <1>2
<1> QED BY <1>3 DEF Ownership!vars, Shown

\* A step that shows itself at one channel.
ShownAt(ch) ==
  /\ state' = [state EXCEPT ![ch] = state'[ch]]
  /\ \A d \in Channel \ {ch} : Users(d)' = Users(d) /\ Shown(d)' = Shown(d)

\* The steps a channel takes, seen as steps of ChannelOwnership.
LEMMA StepIsShown ==
  ASSUME NEW ch \in Channel, ShownAt(ch), ChannelsTyped,
         \/ /\ <<state[ch], state'[ch]>> \in
                 {<<"Ready", "Active">>, <<"Ready", "Closing">>, <<"Active", "Stopping">>,
                  <<"Active", "Closing">>, <<"Stopping", "Closing">>}
            /\ Users(ch)' = Users(ch) /\ Shown(ch)' = Shown(ch)
         \/ /\ state[ch] = "Idle" /\ state'[ch] = "Loading" /\ Users(ch) = {}
            /\ \E c \in Callers : Users(ch)' = {c}
         \/ state[ch] = "Loading" /\ state'[ch] \in {"Ready", "Idle"} /\ Users(ch)' = {}
         \/ /\ state[ch] \notin {"Idle", "Loading"} /\ state'[ch] = state[ch]
            /\ Shown(ch)' = Shown(ch)
            /\ \/ Users(ch) = {} /\ Users(ch)' = {Shown(ch)}
               \/ Users(ch) = {Shown(ch)} /\ Users(ch)' = {}
         \/ /\ state[ch] = "Closing" /\ state'[ch] = "Idle"
            /\ Users(ch) = {Shown(ch)} /\ Users(ch)' = {}
  PROVE  Ownership!Next
<1> DEFINE user  == [d \in Channel |-> Users(d)]
           owner == [d \in Channel |-> Shown(d)]
<1>1. /\ user' = [user EXCEPT ![ch] = Users(ch)']
      /\ owner' = [owner EXCEPT ![ch] = Shown(ch)']
  BY DEF ShownAt
<1>2. /\ user[ch] = Users(ch) /\ owner[ch] = Shown(ch)
      /\ state' = [state EXCEPT ![ch] = state'[ch]]
  BY DEF ShownAt
<1>3. Users(ch)' = Users(ch) => user' = user
  BY DEF ShownAt
<1>4. Shown(ch)' = Shown(ch) => owner' = owner
  BY DEF ShownAt
<1>5. /\ state[ch] \in {"Idle", "Loading"} => Shown(ch) = "none"
      /\ state'[ch] \in {"Idle", "Loading"} => Shown(ch)' = "none"
      /\ state'[ch] = "Ready" => Shown(ch)' \in Reader
  BY DEF Shown, OwnerOf, Reader
<1>6. /\ user = [d \in Channel |-> Users(d)]
      /\ owner = [d \in Channel |-> IF state[d] \in {"Idle", "Loading"} THEN "none" ELSE OwnerOf(d)]
      /\ user' = [d \in Channel |-> Users(d)]'
      /\ owner' = [d \in Channel |-> IF state[d] \in {"Idle", "Loading"} THEN "none" ELSE OwnerOf(d)]'
  BY DEF Shown
<1> HIDE DEF user, owner
<1>7. ASSUME NEW from, NEW to, state[ch] = from, state'[ch] = to,
             Users(ch)' = Users(ch), Shown(ch)' = Shown(ch)
      PROVE  Ownership!Move(ch, from, to)
  BY <1>2, <1>3, <1>4, <1>6, <1>7 DEF Ownership!Move
<1>8. CASE /\ <<state[ch], state'[ch]>> \in
                {<<"Ready", "Active">>, <<"Ready", "Closing">>, <<"Active", "Stopping">>,
                 <<"Active", "Closing">>, <<"Stopping", "Closing">>}
           /\ Users(ch)' = Users(ch) /\ Shown(ch)' = Shown(ch)
  BY <1>7, <1>8 DEF Ownership!Next
<1>9. CASE /\ state[ch] = "Idle" /\ state'[ch] = "Loading" /\ Users(ch) = {}
           /\ \E c \in Callers : Users(ch)' = {c}
  <2>1. PICK c \in Callers : Users(ch)' = {c}
    BY <1>9
  <2>2. Ownership!Claim(ch, c)
    BY <1>1, <1>2, <1>4, <1>5, <1>6, <1>9, <2>1 DEF Ownership!Claim
  <2> QED BY <2>2 DEF Ownership!Next
<1>10. CASE state[ch] = "Loading" /\ state'[ch] = "Ready" /\ Users(ch)' = {}
  <2>1. PICK r \in Reader : Shown(ch)' = r
    BY <1>5, <1>10
  <2>2. Ownership!Publish(ch, r)
    BY <1>1, <1>2, <1>6, <1>10, <2>1 DEF Ownership!Publish
  <2> QED BY <2>2 DEF Ownership!Next
<1>11. CASE state[ch] = "Loading" /\ state'[ch] = "Idle" /\ Users(ch)' = {}
  <2>1. Ownership!GiveUp(ch)
    BY <1>1, <1>2, <1>4, <1>5, <1>6, <1>11 DEF Ownership!GiveUp
  <2> QED BY <2>1 DEF Ownership!Next
<1>12. CASE /\ state[ch] \notin {"Idle", "Loading"} /\ state'[ch] = state[ch]
            /\ Shown(ch)' = Shown(ch)
            /\ \/ Users(ch) = {} /\ Users(ch)' = {Shown(ch)}
               \/ Users(ch) = {Shown(ch)} /\ Users(ch)' = {}
  <2>1. state' = state
    BY <1>2, <1>12 DEF ChannelsTyped
  <2>2. CASE Users(ch) = {} /\ Users(ch)' = {Shown(ch)}
    <3>1. Ownership!Work(ch)
      BY <1>1, <1>2, <1>4, <1>6, <1>12, <2>1, <2>2 DEF Ownership!Work
    <3> QED BY <3>1 DEF Ownership!Next
  <2>3. CASE Users(ch) = {Shown(ch)} /\ Users(ch)' = {}
    <3>1. Ownership!Rest(ch)
      BY <1>1, <1>2, <1>4, <1>6, <1>12, <2>1, <2>3 DEF Ownership!Rest
    <3> QED BY <3>1 DEF Ownership!Next
  <2> QED BY <1>12, <2>2, <2>3
<1>13. CASE /\ state[ch] = "Closing" /\ state'[ch] = "Idle"
            /\ Users(ch) = {Shown(ch)} /\ Users(ch)' = {}
  <2>1. Ownership!Free(ch)
    BY <1>1, <1>2, <1>5, <1>6, <1>13 DEF Ownership!Free
  <2> QED BY <2>1 DEF Ownership!Next
<1> QED BY <1>8, <1>9, <1>10, <1>11, <1>12, <1>13

\* A lifecycle move of one channel, made by a task that works on none.
LEMMA MoveIsShown ==
  ASSUME Fit, Fit', UNCHANGED <<memory, readVars>>, SameLoads, NEW ch \in Channel,
         \A d \in Channel \ {ch} : state'[d] = state[d],
         <<state[ch], state'[ch]>> \in
           {<<"Ready", "Active">>, <<"Ready", "Closing">>, <<"Active", "Stopping">>,
            <<"Active", "Closing">>, <<"Stopping", "Closing">>}
  PROVE  Ownership!Next
<1>1. \A d \in Channel : Users(d)' = Users(d)
  <2>1. \A r \in Reader, d \in Channel : ReadingAt(r, d)' <=> ReadingAt(r, d)
    BY DEF ReadingAt, readVars
  <2> QED BY <2>1, UsersStay
<1>2. \A d \in Channel : Shown(d)' = Shown(d)
  BY DEF Shown, OwnerOf
<1>3. ChannelsTyped /\ ChannelsTyped'
  BY DEF Fit, TypeOK
<1>4. state' = [state EXCEPT ![ch] = state'[ch]]
  BY <1>3 DEF ChannelsTyped
<1> QED BY <1>1, <1>2, <1>3, <1>4, StepIsShown DEF ShownAt

\* Who uses a channel, by the state of the channel.
LEMMA UsersAre ==
  ASSUME OwnerInv, NEW ch \in Channel
  PROVE  /\ \A c \in Callers : LoadingAt(c, ch) => Users(ch) = {c}
         /\ state[ch] = "Idle" => Users(ch) = {}
         /\ \A r \in Reader : ReadingAt(r, ch) => Users(ch) = {r} /\ Shown(ch) = r
         /\ state[ch] \notin {"Idle", "Loading"} /\ ~ReadingAt(Shown(ch), ch) => Users(ch) = {}
<1> USE DEF OwnerInv, SingleOwner
<1>1. ASSUME NEW c \in Callers, LoadingAt(c, ch) PROVE Users(ch) = {c}
  <2>1. state[ch] = "Loading"
    BY <1>1
  <2>2. \A r \in Reader : ~ReadingAt(r, ch)
    BY <2>1 DEF IsOwnedBy
  <2> QED BY <1>1, <2>2 DEF Users
<1>2. ASSUME NEW r \in Reader, ReadingAt(r, ch)
      PROVE  Users(ch) = {r} /\ Shown(ch) = r
  <2>1. IsOwnedBy(ch, r) /\ \A q \in Reader : ReadingAt(q, ch) => q = r
    BY <1>2 DEF IsOwnedBy
  <2>2. \A c \in Callers : ~LoadingAt(c, ch)
    BY <2>1 DEF IsOwnedBy
  <2> QED BY <1>2, <2>1, <2>2 DEF Users, IsOwnedBy, Shown
<1>3. state[ch] = "Idle" => Users(ch) = {}
  BY DEF Users, IsOwnedBy
<1>4. ASSUME state[ch] \notin {"Idle", "Loading"}, ~ReadingAt(Shown(ch), ch)
      PROVE  Users(ch) = {}
  BY <1>4 DEF Users, IsOwnedBy, Shown
<1> QED BY <1>1, <1>2, <1>3, <1>4

\* A reader that turns to a channel it owns, or away from it.
LEMMA ReaderTurns ==
  ASSUME ReadersTyped, ReadersTyped', NEW r \in Reader, UNCHANGED <<pc, scan>>,
         \A q \in Reader \ {r} : rpc'[q] = rpc[q] /\ at'[q] = at[q],
         NEW ch \in Channel,
         \/ rpc[r] = "scan" /\ rpc'[r] # "scan" /\ at'[r] = ch
         \/ rpc[r] # "scan" /\ rpc'[r] = "scan" /\ at[r] = ch
  PROVE  /\ SameLoads
         /\ \A d \in Channel \ {ch} : Users(d)' = Users(d)
         /\ rpc[r] = "scan" => ReadingAt(r, ch)' /\ ~ReadingAt(r, ch)
         /\ rpc'[r] = "scan" => ReadingAt(r, ch) /\ ~ReadingAt(r, ch)'
<1>1. SameLoads
  BY DEF SameLoads, LoadingAt
<1>2. \A q \in Reader, d \in Channel \ {ch} : ReadingAt(q, d)' <=> ReadingAt(q, d)
  BY DEF ReadingAt, ReadersTyped
<1>3. \A d \in Channel \ {ch} : Users(d)' = Users(d)
  BY <1>1, <1>2, UsersStay
<1> QED BY <1>1, <1>3 DEF ReadingAt, ReadersTyped

\* A call that stays out of its channel, or stays in it.
LEMMA CallStays ==
  ASSUME NEW c \in Callers,
         \A d \in Callers \ {c} : pc'[d] = pc[d] /\ scan'[d] = scan[d],
         \/ /\ pc[c] \notin {"load", "publish", "abort", "free"}
            /\ pc'[c] \notin {"load", "publish", "abort", "free"}
         \/ /\ pc[c] \in {"load", "publish", "abort", "free"}
            /\ pc'[c] \in {"load", "publish", "abort", "free"} /\ scan'[c] = scan[c]
  PROVE  SameLoads
BY DEF SameLoads, LoadingAt

\* Every step moves each channel along the documented lifecycle.
LEMMA OwnershipStep ==
  Fit /\ Fit' /\ OwnerInv /\ OwnerInv' /\ [Next]_vars => [Ownership!Next]_(Ownership!vars)
<1> SUFFICES ASSUME Fit, Fit', OwnerInv, OwnerInv', [Next]_vars
             PROVE  Ownership!Next \/ UNCHANGED Ownership!vars
  OBVIOUS
<1> USE Indices, Picks
<1> DEFINE Shows == Ownership!Next \/ UNCHANGED Ownership!vars
           Load  == {"load", "publish", "abort", "free"}
<1>types. CallsTyped /\ ChannelsTyped /\ ReadersTyped /\ ReadersTyped'
  BY DEF Fit, TypeOK
<1>quiet. ASSUME NEW c \in Callers, UNCHANGED <<state, memory, readVars>>, Moved(c), pc[c] \notin Load
      PROVE  Shows
  <2>1. SameLoads
    BY <1>quiet, CallStays DEF Moved
  <2> QED BY <1>quiet, <2>1, StepStutters
<1>inside. ASSUME NEW c \in Callers, UNCHANGED <<state, memory, readVars, scan>>,
             \A d \in Callers \ {c} : pc'[d] = pc[d],
             (pc[c] \in Load /\ pc'[c] \in Load) \/ (pc[c] \notin Load /\ pc'[c] \notin Load)
      PROVE  Shows
  <2>1. SameLoads
    BY <1>inside, CallStays
  <2> QED BY <1>inside, <2>1, StepStutters
<1>mixing. ASSUME UNCHANGED <<state, memory, readVars, pc, scan>> PROVE Shows
  <2>1. SameLoads
    BY <1>mixing DEF SameLoads, LoadingAt
  <2> QED BY <1>mixing, <2>1, StepStutters
<1> HIDE DEF Shows
<1> USE DEF statusVars, dataVars, startVars, locals, mixVars, readVars, histVars
<1>1. ASSUME NEW c \in Callers, Begin(c) PROVE Shows
  <2>1. CASE \E g \in {"prepare", "play", "playLinked"} : BeginPrepare(c, g)
    BY <1>types, <1>inside, <2>1 DEF BeginPrepare, Goto, CallsTyped
  <2>2. CASE \E a \in Channel, b \in Channel \cup {None} : a # b /\ BeginStartGroup(c, a, b)
    BY <1>types, <1>inside, <2>2 DEF BeginStartGroup, Goto, CallsTyped
  <2>3. CASE \E ch \in Channel : BeginStop(c, ch)
    BY <1>types, <1>inside, <2>3 DEF BeginStop, Goto, CallsTyped
  <2> QED BY <1>1, <2>1, <2>2, <2>3 DEF Begin
<1>2. ASSUME NEW c \in Callers, Claim(c) PROVE Shows
  <2>1. /\ scan[c] \in Channel /\ state[scan[c]] = "Idle" /\ state'[scan[c]] = "Loading"
        /\ state' = [state EXCEPT ![scan[c]] = "Loading"] /\ UNCHANGED <<memory, readVars, scan>>
        /\ pc[c] = "claim" /\ pc'[c] = "load" /\ \A d \in Callers \ {c} : pc'[d] = pc[d]
    BY <1>2, <1>types DEF Claim, SetState, Goto, CallsTyped, ChannelsTyped
  <2>2. PICK ch \in Channel : ch = scan[c]
    BY <2>1
  <2>3. \A d \in Channel \ {ch} : Shown(d)' = Shown(d) /\ state'[d] = state[d]
    BY <2>1, <2>2, <1>types DEF Shown, OwnerOf, ChannelsTyped
  <2>4. \A d \in Channel \ {ch} : Users(d)' = Users(d)
    <3>1. \A e \in Callers, d \in Channel \ {ch} : LoadingAt(e, d)' <=> LoadingAt(e, d)
      BY <2>1, <2>2 DEF LoadingAt
    <3>2. \A r \in Reader, d \in Channel : ReadingAt(r, d)' <=> ReadingAt(r, d)
      BY <2>1 DEF ReadingAt
    <3> QED BY <3>1, <3>2 DEF Users
  <2>5. Users(ch) = {} /\ Users(ch)' = {c}
    <3>1. Users(ch) = {}
      BY <2>1, <2>2, UsersAre
    <3>2. \A e \in Callers : LoadingAt(e, ch)' <=> e = c
      BY <2>1, <2>2, <3>1 DEF LoadingAt, Users
    <3>3. \A r \in Reader : ~ReadingAt(r, ch)'
      BY <2>1, <3>1 DEF ReadingAt, Users
    <3> QED BY <3>1, <3>2, <3>3 DEF Users
  <2>6. ShownAt(ch)
    BY <2>1, <2>2, <2>3, <2>4 DEF ShownAt
  <2> QED BY <1>types, <2>1, <2>2, <2>5, <2>6, StepIsShown DEF Shows
<1>3. ASSUME NEW c \in Callers, SkipBusy(c) PROVE Shows
  <2>1. Moved(c) /\ pc[c] \notin Load
    BY <1>3, <1>types DEF SkipBusy, Moved, CallsTyped
  <2> QED BY <1>3, <1>quiet, <2>1 DEF SkipBusy
<1>4. ASSUME NEW c \in Callers, NoFreeChannel(c) PROVE Shows
  <2>1. Moved(c)
    BY <1>4, <1>types, Moves DEF NoFreeChannel
  <2> QED BY <1>4, <1>quiet, <2>1 DEF NoFreeChannel
<1>5. ASSUME NEW c \in Callers, NEW opened \in BOOLEAN, NEW ended \in BOOLEAN,
             OpenAndPrefill(c, opened, ended)
      PROVE  Shows
  <2>1. /\ UNCHANGED <<state, memory, readVars, scan>>
        /\ pc[c] \in Load /\ pc'[c] \in Load /\ \A d \in Callers \ {c} : pc'[d] = pc[d]
    BY <1>5, <1>types DEF OpenAndPrefill, Goto, CallsTyped
  <2> QED BY <1>inside, <2>1
<1>6. ASSUME NEW c \in Callers, NEW backed \in Backing, Publish(c, backed) PROVE Shows
  <2>1. Moved(c) /\ scan[c] \in Channel /\ LoadingAt(c, scan[c])
    BY <1>6, <1>types, PublishMoves DEF Publish, LoadingAt, CallsTyped
  <2>2. PICK ch \in Channel : ch = scan[c]
    BY <2>1
  <2>3. /\ state[ch] = "Loading" /\ Users(ch) = {c}
        /\ \A r \in Reader : ~ReadingAt(r, ch)
    BY <2>1, <2>2, UsersAre, ReadersApart DEF OwnerInv, SingleOwner
  <2>4. /\ state' = [state EXCEPT ![ch] = "Ready"] /\ state'[ch] = "Ready" /\ UNCHANGED readVars
        /\ \A d \in Channel \ {ch} : state'[d] = state[d] /\ memory'[d] = memory[d]
    BY <1>6, <1>types, <2>2 DEF Publish, ChannelsTyped
  <2>5. \A d \in Channel \ {ch} : Shown(d)' = Shown(d)
    BY <2>4 DEF Shown, OwnerOf
  <2>6. \A e \in Callers, d \in Channel \ {ch} : LoadingAt(e, d)' <=> LoadingAt(e, d)
    BY <2>1, <2>2 DEF Moved, LoadingAt
  <2>7. \A d \in Channel \ {ch} : Users(d)' = Users(d)
    BY <2>4, <2>6 DEF Users, ReadingAt
  <2>8. Users(ch)' = {}
    <3>1. \A e \in Callers : ~LoadingAt(e, ch)'
      BY <2>1, <2>2, <2>3, MovedLoads DEF OwnerInv, SingleOwner
    <3>2. \A r \in Reader : ~ReadingAt(r, ch)'
      BY <2>3, <2>4 DEF ReadingAt
    <3> QED BY <3>1, <3>2 DEF Users
  <2>9. ShownAt(ch)
    BY <2>4, <2>5, <2>7 DEF ShownAt
  <2> QED BY <1>types, <2>3, <2>4, <2>8, <2>9, StepIsShown DEF Shows
<1>7. ASSUME NEW c \in Callers, PublishRefused(c) \/ AbortRelease(c) PROVE Shows
  <2>1. /\ UNCHANGED <<state, memory, readVars, scan>>
        /\ pc[c] \in Load /\ pc'[c] \in Load /\ \A d \in Callers \ {c} : pc'[d] = pc[d]
    BY <1>7, <1>types DEF PublishRefused, AbortRelease, Goto, CallsTyped
  <2> QED BY <1>inside, <2>1
<1>8. ASSUME NEW c \in Callers, AbortIdle(c) PROVE Shows
  <2>1. Moved(c) /\ scan[c] \in Channel /\ LoadingAt(c, scan[c])
    BY <1>8, <1>types, Moves DEF AbortIdle, LoadingAt, CallsTyped
  <2>2. PICK ch \in Channel : ch = scan[c]
    BY <2>1
  <2>3. /\ state[ch] = "Loading" /\ Users(ch) = {c}
        /\ \A r \in Reader : ~ReadingAt(r, ch)
    BY <2>1, <2>2, UsersAre, ReadersApart DEF OwnerInv, SingleOwner
  <2>4. /\ state' = [state EXCEPT ![ch] = "Idle"] /\ state'[ch] = "Idle" /\ UNCHANGED readVars
        /\ \A d \in Channel \ {ch} : state'[d] = state[d] /\ memory'[d] = memory[d]
    BY <1>8, <1>types, <2>2 DEF AbortIdle, StoreIdle, ChannelsTyped
  <2>5. \A d \in Channel \ {ch} : Shown(d)' = Shown(d)
    BY <2>4 DEF Shown, OwnerOf
  <2>6. \A e \in Callers, d \in Channel \ {ch} : LoadingAt(e, d)' <=> LoadingAt(e, d)
    BY <2>1, <2>2 DEF Moved, LoadingAt
  <2>7. \A d \in Channel \ {ch} : Users(d)' = Users(d)
    BY <2>4, <2>6 DEF Users, ReadingAt
  <2>8. Users(ch)' = {}
    BY <2>4 DEF OwnerInv, SingleOwner, IsOwnedBy, Users
  <2>9. ShownAt(ch)
    BY <2>4, <2>5, <2>7 DEF ShownAt
  <2> QED BY <1>types, <2>3, <2>4, <2>8, <2>9, StepIsShown DEF Shows
<1>9. ASSUME NEW c \in Callers, RefuseStart(c) \/ ReleaseRequest(c) \/ Commit(c) \/ StopLook(c)
      PROVE  Shows
  <2>1. Moved(c)
    BY <1>9, <1>types, Moves DEF RefuseStart, ReleaseRequest, Commit
  <2>2. UNCHANGED <<state, memory, readVars>> /\ pc[c] \notin Load
    BY <1>9 DEF RefuseStart, ReleaseRequest, Commit, StopLook
  <2> QED BY <1>quiet, <2>1, <2>2
<1>10. ASSUME NEW c \in Callers,
              Reserve(c) \/ Arm(c) \/ ArmRefused(c) \/ Disarm(c) \/ WriteMembers(c)
       PROVE  Shows
  <2>1. UNCHANGED <<state, memory, readVars, scan>> /\ pc[c] \notin Load
    BY <1>10 DEF Reserve, Arm, ArmRefused, Disarm, WriteMembers
  <2>2. pc'[c] \notin Load /\ \A d \in Callers \ {c} : pc'[d] = pc[d]
    BY <1>10, <1>types DEF Reserve, Arm, ArmRefused, Disarm, WriteMembers, Goto, CallsTyped
  <2> QED BY <1>inside, <2>1, <2>2
<1>11. ASSUME NEW c \in Callers, StopTry(c) PROVE Shows
  <2>1. Moved(c) /\ pc[c] \notin Load /\ UNCHANGED readVars
    BY <1>11, <1>types, Moves DEF StopTry
  <2>2. SameLoads
    BY <2>1, CallStays DEF Moved
  <2>3. PICK ch \in Channel : ch = Target(c)
    BY <1>11 DEF StopTry, Target, Fit, CallsFit, CallFits, HeldPoint
  <2>4. CASE ~WillStop(c)
    BY <1>11, <2>1, <2>2, <2>4, StepStutters DEF StopTry, Shows
  <2>5. CASE WillStop(c) /\ state[ch] = "Loading"
    BY <1>11, <2>1, <2>2, <2>3, <2>5, StepStutters DEF StopTry, StopWord, Shows
  <2>6. CASE WillStop(c) /\ state[ch] \in {"Ready", "Active"}
    <3>1. SetState(ch, IF state[ch] = "Ready" THEN "Closing" ELSE "Stopping")
      BY <1>11, <2>3, <2>6 DEF StopTry, StopWord
    <3>2. /\ UNCHANGED memory /\ \A d \in Channel \ {ch} : state'[d] = state[d]
          /\ state'[ch] = IF state[ch] = "Ready" THEN "Closing" ELSE "Stopping"
      BY <1>types, <3>1 DEF SetState, ChannelsTyped
    <3> QED BY <2>1, <2>2, <2>6, <3>2, MoveIsShown DEF Shows
  <2> QED BY <2>3, <2>4, <2>5, <2>6 DEF WillStop, Stoppable
<1>12. ASSUME MixStart PROVE Shows
  <2>1. UNCHANGED <<readVars, pc, scan, memory>> /\ Least(todo) \in Channel
    BY <1>12 DEF MixStart, SetState
  <2>2. CASE IsArmedFor(Least(todo), Least(taken))
    <3>1. PICK ch \in Channel : ch = Least(todo)
      BY <2>1
    <3>2. /\ state[ch] = "Ready" /\ state'[ch] = "Active"
          /\ \A d \in Channel \ {ch} : state'[d] = state[d]
      BY <1>12, <1>types, <2>2, <3>1 DEF MixStart, SetState, IsArmedFor, ChannelsTyped
    <3>3. SameLoads
      BY <2>1 DEF SameLoads, LoadingAt
    <3> QED BY <2>1, <3>2, <3>3, MoveIsShown DEF Shows
  <2>3. CASE ~IsArmedFor(Least(todo), Least(taken))
    BY <1>12, <1>mixing, <2>1, <2>3 DEF MixStart
  <2> QED BY <2>2, <2>3
<1>13. ASSUME NEW ended \in BOOLEAN, MixEnd(ended) PROVE Shows
  <2>1. UNCHANGED <<readVars, pc, scan, memory>>
    BY <1>13 DEF MixEnd, Transition, SetState
  <2>2. PICK ch \in Channel : ch = Least(todo)
    BY <1>13 DEF MixEnd
  <2>3. \/ UNCHANGED state
        \/ state[ch] \in Mixable /\ SetState(ch, "Closing")
    BY <1>13, <2>2 DEF MixEnd, Transition, Mixable
  <2>4. CASE UNCHANGED state
    BY <1>mixing, <2>1, <2>4
  <2>5. CASE state[ch] \in Mixable /\ SetState(ch, "Closing")
    <3>1. state'[ch] = "Closing" /\ \A d \in Channel \ {ch} : state'[d] = state[d]
      BY <1>types, <2>5 DEF SetState, ChannelsTyped
    <3>2. SameLoads
      BY <2>1 DEF SameLoads, LoadingAt
    <3> QED BY <2>1, <2>5, <3>1, <3>2, MoveIsShown DEF Shows, Mixable
  <2> QED BY <2>3, <2>4, <2>5
<1>14. ASSUME MixExchange \/ MixRun \/ MixFree \/ MixBegin \/ MixSamples \/ MixWrite PROVE Shows
  BY <1>14, <1>mixing DEF MixExchange, MixRun, MixFree, MixBegin, MixSamples, MixWrite
<1>15. ASSUME NEW r \in Reader, NEW ch \in Channel, CloseRelease(r, ch) \/ PickRefill(r, ch)
       PROVE  Shows
  <2>1. /\ UNCHANGED <<state, memory, pc, scan>> /\ rpc[r] = "scan"
        /\ state[ch] \notin {"Idle", "Loading"} /\ OwnerOf(ch) = r
    BY <1>15 DEF CloseRelease, PickRefill, IsOwnedBy, Refillable
  <2>2. /\ rpc'[r] # "scan" /\ at'[r] = ch
        /\ \A q \in Reader \ {r} : rpc'[q] = rpc[q] /\ at'[q] = at[q]
    BY <1>15, <1>types DEF CloseRelease, PickRefill, ReaderAt, ReadersTyped
  <2>3. /\ \A d \in Channel \ {ch} : Users(d)' = Users(d)
        /\ ReadingAt(r, ch)' /\ ~ReadingAt(r, ch)
    BY <1>types, <2>1, <2>2, ReaderTurns
  <2>4. Shown(ch) = r /\ \A d \in Channel : Shown(d)' = Shown(d)
    BY <2>1 DEF Shown, OwnerOf
  <2>5. Users(ch) = {} /\ Users(ch)' = {r}
    <3>1. Users(ch) = {}
      BY <2>1, <2>3, <2>4, UsersAre
    <3>2. \A c \in Callers : ~LoadingAt(c, ch)'
      BY <2>1 DEF OwnerInv, SingleOwner
    <3>3. \A q \in Reader : ReadingAt(q, ch)' => q = r
      BY <2>1 DEF OwnerInv, SingleOwner, IsOwnedBy, OwnerOf
    <3> QED BY <2>3, <3>1, <3>2, <3>3 DEF Users
  <2>6. ShownAt(ch) /\ state'[ch] = state[ch]
    BY <1>types, <2>1, <2>3, <2>4 DEF ShownAt, ChannelsTyped
  <2> QED BY <1>types, <2>1, <2>4, <2>5, <2>6, StepIsShown DEF Shows
<1>16. ASSUME NEW r \in Reader, NEW ended \in BOOLEAN, Refill(r, ended) PROVE Shows
  <2>1. PICK ch \in Channel : ch = at[r]
    BY <1>types DEF ReadersTyped
  <2>2. /\ UNCHANGED <<state, memory, pc, scan>> /\ rpc[r] # "scan" /\ rpc'[r] = "scan"
        /\ \A q \in Reader \ {r} : rpc'[q] = rpc[q] /\ at'[q] = at[q]
    BY <1>16, <1>types DEF Refill, ReaderAt, ReadersTyped
  <2>3. /\ \A d \in Channel \ {ch} : Users(d)' = Users(d)
        /\ ReadingAt(r, ch) /\ ~ReadingAt(r, ch)'
    BY <1>types, <2>1, <2>2, ReaderTurns
  <2>4. Users(ch) = {r} /\ Shown(ch) = r /\ state[ch] \notin {"Idle", "Loading"}
    BY <2>3, UsersAre DEF OwnerInv, SingleOwner, IsOwnedBy
  <2>5. \A d \in Channel : Shown(d)' = Shown(d)
    BY <2>2 DEF Shown, OwnerOf
  <2>6. Users(ch)' = {}
    <3>1. \A c \in Callers : ~LoadingAt(c, ch)'
      BY <2>2, <2>4 DEF OwnerInv, SingleOwner
    <3>2. \A q \in Reader : ReadingAt(q, ch)' => q = r
      BY <2>2, <2>4 DEF OwnerInv, SingleOwner, IsOwnedBy, OwnerOf, Shown
    <3> QED BY <2>3, <3>1, <3>2 DEF Users
  <2>7. ShownAt(ch) /\ state'[ch] = state[ch]
    BY <1>types, <2>2, <2>3, <2>5 DEF ShownAt, ChannelsTyped
  <2> QED BY <1>types, <2>4, <2>5, <2>6, <2>7, StepIsShown DEF Shows
<1>17. ASSUME NEW r \in Reader, CloseIdle(r) PROVE Shows
  <2>1. PICK ch \in Channel : ch = at[r]
    BY <1>types DEF ReadersTyped
  <2>2. /\ UNCHANGED <<pc, scan>> /\ rpc[r] # "scan" /\ rpc'[r] = "scan"
        /\ \A q \in Reader \ {r} : rpc'[q] = rpc[q] /\ at'[q] = at[q]
    BY <1>17, <1>types DEF CloseIdle, ReaderAt, ReadersTyped
  <2>3. /\ state' = [state EXCEPT ![ch] = "Idle"] /\ state'[ch] = "Idle"
        /\ \A d \in Channel \ {ch} : state'[d] = state[d] /\ memory'[d] = memory[d]
    BY <1>17, <1>types, <2>1 DEF CloseIdle, StoreIdle, ChannelsTyped
  <2>4. /\ \A d \in Channel \ {ch} : Users(d)' = Users(d)
        /\ ReadingAt(r, ch)
    BY <1>types, <2>1, <2>2, ReaderTurns
  <2>5. Users(ch) = {r} /\ Shown(ch) = r /\ state[ch] = "Closing"
    <3>1. rpc[r] = "free"
      BY <1>17 DEF CloseIdle
    <3> QED BY <2>1, <2>4, <3>1, UsersAre DEF OwnerInv
  <2>6. \A d \in Channel \ {ch} : Shown(d)' = Shown(d)
    BY <2>3 DEF Shown, OwnerOf
  <2>7. Users(ch)' = {}
    BY <2>3 DEF OwnerInv, SingleOwner, IsOwnedBy, Users
  <2>8. ShownAt(ch)
    BY <2>3, <2>4, <2>6 DEF ShownAt
  <2> QED BY <1>types, <2>3, <2>5, <2>7, <2>8, StepIsShown DEF Shows
<1>18. ASSUME UNCHANGED vars PROVE Shows
  BY <1>18, <1>mixing DEF vars
<1>19. ASSUME NEW c \in Callers, Call(c) PROVE Shows
  BY <1>2, <1>3, <1>4, <1>5, <1>6, <1>7, <1>8, <1>9, <1>10, <1>11, <1>19
  DEF Call, Prepare, StartGroup, Stop
<1>20. ASSUME Mixer PROVE Shows
  BY <1>12, <1>13, <1>14, <1>20 DEF Mixer
<1>21. ASSUME NEW r \in Reader, Close(r) \/ RefillPass(r) PROVE Shows
  BY <1>15, <1>16, <1>17, <1>21 DEF Close, RefillPass
<1>22. Shows
  BY <1>1, <1>18, <1>19, <1>20, <1>21 DEF Next
<1> QED BY <1>22 DEF Shows

\* A file is worked on only by the task that the state of its channel names, and each channel
\* goes through the documented lifecycle: the engine implements ChannelOwnership.
THEOREM OwnershipImplemented == Spec => ImplementsOwnership
<1>1. Init => Ownership!Init
  <2>1. ASSUME Init, NEW ch \in Channel PROVE Users(ch) = {}
    BY <2>1 DEF Init, Users, LoadingAt, ReadingAt, Reader
  <2>2. ASSUME Init
        PROVE  [ch \in Channel |-> IF state[ch] \in {"Idle", "Loading"} THEN "none" ELSE OwnerOf(ch)]
                 = [ch \in Channel |-> "none"]
    BY <2>2 DEF Init
  <2> QED BY <2>1, <2>2 DEF Init, Ownership!Init
<1>2. Fit /\ Fit' /\ OwnerInv /\ OwnerInv' /\ [Next]_vars => [Ownership!Next]_(Ownership!vars)
  BY OwnershipStep
<1> QED BY <1>1, <1>2, FitAlways, OwnerAlways, PTL DEF Spec, ImplementsOwnership, Ownership!Spec

-----------------------------------------------------------------------------
(* startGroup(): armed, enlisted and promised channels.                    *)

\* An armed channel is Ready and enlisted by the request it is armed for, which is in use
\* and, while a call holds it, remembers having armed the channel; what is committed lists
\* what was armed.
ArmedInv ==
  /\ \A ch \in Channel, r \in Request : armedFor[ch] = r =>
       state[ch] = "Ready" /\ r \in inUse /\ ch \in enlisted[r]
  /\ \A c \in Callers, ch \in Channel, r \in Request :
       HeldBy(c, r) /\ armedFor[ch] = r => ch \in armed[c]
  /\ \A c \in Callers : pc[c] = "commit" => members[req[c]] = Ids(c)

\* What a request armed is still armed for it while it waits, and is not audible before the
\* mixer has taken the request.
EnlistedInv ==
  /\ \A r \in Request, ch \in Channel : ch \in enlisted[r] =>
       /\ state[ch] \notin {"Idle", "Loading"}
       /\ state[ch] = "Ready" => armedFor[ch] = r
  /\ \A r \in Request, ch \in Channel :
       ch \in enlisted[r] /\ r \in inUse \ taken => state[ch] \notin Mixable

\* A channel armed for a committed request is promised and will be visited; a promised one
\* is loaded and, while it waits, armed for a committed request; an audible one is promised.
PromisedInv ==
  /\ \A ch \in Channel, r \in Request : armedFor[ch] = r /\ r \in committed \cup taken =>
       promised[ch] /\ ch \in members[r]
  /\ mpc = "start" => \A ch \in Channel : armedFor[ch] = Least(taken) => ch \in todo
  /\ \A ch \in Channel : promised[ch] =>
       /\ state[ch] \notin {"Idle", "Loading"}
       /\ state[ch] = "Ready" => armedFor[ch] \in committed \cup taken
  /\ StartedWasPromised

\* What storing Idle does to the status word and to the history.
LEMMA StoreIdleWrites ==
  ASSUME Fit, NEW ch \in Channel, StoreIdle(ch)
  PROVE  /\ state'[ch] = "Idle" /\ armedFor'[ch] = None /\ ~promised'[ch]
         /\ \A other \in Channel \ {ch} :
              /\ state'[other] = state[other] /\ armedFor'[other] = armedFor[other]
              /\ promised'[other] = promised[other]
         /\ \A r \in Request : enlisted'[r] = enlisted[r] \ {ch}
BY DEF Fit, TypeOK, ChannelsTyped, HistoryTyped, StoreIdle, Forget

\* A step that hands out no request and arms no channel.
LEMMA ArmedFrame ==
  ASSUME Fit, ArmedInv, NEW c \in Callers, Moved(c), UNCHANGED members,
         \A ch \in Channel : \/ armedFor'[ch] = None
                             \/ armedFor'[ch] = armedFor[ch] /\ state'[ch] = state[ch],
         \A ch \in Channel, r \in Request :
           armedFor'[ch] = r /\ armedFor[ch] = r /\ r \in inUse /\ ch \in enlisted[r] =>
             r \in inUse' /\ ch \in enlisted'[r]
  PROVE  ArmedInv'
<1> USE Indices DEF Moved, HeldBy
<1>1. ASSUME NEW ch \in Channel, NEW r \in Request, armedFor'[ch] = r
      PROVE  armedFor[ch] = r /\ state'[ch] = "Ready" /\ r \in inUse' /\ ch \in enlisted'[r]
  BY <1>1 DEF ArmedInv
<1>2. ASSUME NEW d \in Callers, NEW ch \in Channel, NEW r \in Request, HeldBy(d, r)', armedFor'[ch] = r
      PROVE  ch \in armed'[d]
  <2>1. d # c /\ HeldBy(d, r) /\ armed'[d] = armed[d]
    BY <1>2
  <2> QED BY <1>1, <1>2, <2>1 DEF ArmedInv
<1>3. ASSUME NEW d \in Callers, pc'[d] = "commit"
      PROVE  members'[req'[d]] = Ids(d)'
  <2>1. d # c /\ pc[d] = "commit" /\ req'[d] = req[d] /\ first'[d] = first[d] /\ second'[d] = second[d]
    BY <1>3
  <2> QED BY <2>1 DEF ArmedInv, Ids
<1> QED BY <1>1, <1>2, <1>3 DEF ArmedInv

\* ArmedInv is inductive.
LEMMA ArmedInvStep ==
  Fit /\ OwnerInv /\ HeldApart /\ PromisedInv /\ ArmedInv /\ [Next]_vars
    => ArmedInv'
<1> SUFFICES ASSUME Fit, OwnerInv, HeldApart, PromisedInv, ArmedInv, [Next]_vars PROVE ArmedInv'
  OBVIOUS
<1> USE Indices, Picks
<1> USE DEF statusVars, dataVars, startVars, locals, mixVars, readVars, histVars
<1>1. ASSUME NEW c \in Callers, NEW g \in {"prepare", "play", "playLinked"}, BeginPrepare(c, g)
      PROVE  ArmedInv'
  <2>1. Moved(c)
    BY <1>1 DEF BeginPrepare, Goto, Moved, Fit, TypeOK, CallsTyped
  <2>2. UNCHANGED <<members, armedFor, state, inUse, enlisted>>
    BY <1>1 DEF BeginPrepare
  <2> QED BY <2>1, <2>2, ArmedFrame
<1>2. ASSUME NEW c \in Callers, Claim(c)
      PROVE  ArmedInv'
  <2>1. \A d \in Callers, r \in Request : HeldBy(d, r)' => HeldBy(d, r)
    BY <1>2 DEF Claim, Goto, HeldBy, Fit, TypeOK, CallsTyped
  <2>2. \A d \in Callers : pc'[d] = "commit" => pc[d] = "commit"
    BY <1>2 DEF Claim, Goto, Fit, TypeOK, CallsTyped
  <2>3. \A ch \in Channel : \/ armedFor'[ch] = None
                            \/ armedFor'[ch] = armedFor[ch] /\ state'[ch] = state[ch]
    BY <1>2 DEF Claim, SetState, Fit, TypeOK, ChannelsTyped
  <2>4. UNCHANGED <<members, inUse, enlisted, armed, req, first, second>>
    BY <1>2 DEF Claim
  <2> QED BY <2>1, <2>2, <2>3, <2>4 DEF ArmedInv, Ids
<1>3. ASSUME NEW c \in Callers, SkipBusy(c)
      PROVE  ArmedInv'
  BY <1>3 DEF SkipBusy, ArmedInv, HeldBy, Ids
<1>4. ASSUME NEW c \in Callers, NoFreeChannel(c)
      PROVE  ArmedInv'
  <2>1. Moved(c)
    BY <1>4, Moves DEF Fit, TypeOK, NoFreeChannel
  <2>2. UNCHANGED members
    BY <1>4 DEF NoFreeChannel
  <2>3. ASSUME NEW ch \in Channel
        PROVE  armedFor'[ch] = None \/ (armedFor'[ch] = armedFor[ch] /\ state'[ch] = state[ch])
    BY <1>4 DEF NoFreeChannel
  <2>4. ASSUME NEW ch \in Channel, NEW r \in Request,
               armedFor'[ch] = r, armedFor[ch] = r, r \in inUse, ch \in enlisted[r]
        PROVE  r \in inUse' /\ ch \in enlisted'[r]
    BY <1>4, <2>4 DEF NoFreeChannel
  <2> QED BY <2>1, <2>2, <2>3, <2>4, ArmedFrame
<1>5. ASSUME NEW c \in Callers, NEW opened \in BOOLEAN, NEW ended \in BOOLEAN,
             OpenAndPrefill(c, opened, ended)
      PROVE  ArmedInv'
  BY <1>5 DEF OpenAndPrefill, ReadFile, Goto, ArmedInv, HeldBy, Ids, Fit, TypeOK, CallsTyped
<1>6. ASSUME NEW c \in Callers, NEW backed \in Backing, Publish(c, backed)
      PROVE  ArmedInv'
  <2>5. armedFor[scan[c]] = None
    <3>1. scan[c] \in Channel /\ state[scan[c]] = "Loading"
      BY <1>6 DEF Publish, OwnerInv, SingleOwner, LoadingAt, Fit, TypeOK, CallsTyped
    <3>2. armedFor[scan[c]] \notin Request
      BY <3>1 DEF ArmedInv
    <3> QED BY <3>1, <3>2 DEF Fit, TypeOK, ChannelsTyped
  <2>1. Moved(c)
    BY <1>6, PublishMoves DEF Fit, TypeOK
  <2>2. UNCHANGED members
    BY <1>6 DEF Publish
  <2>3. ASSUME NEW ch \in Channel
        PROVE  armedFor'[ch] = None \/ (armedFor'[ch] = armedFor[ch] /\ state'[ch] = state[ch])
    BY <1>6, <2>5 DEF Publish, Fit, TypeOK, ChannelsTyped
  <2>4. ASSUME NEW ch \in Channel, NEW r \in Request,
               armedFor'[ch] = r, armedFor[ch] = r, r \in inUse, ch \in enlisted[r]
        PROVE  r \in inUse' /\ ch \in enlisted'[r]
    BY <1>6, <2>4 DEF Publish
  <2> QED BY <2>1, <2>2, <2>3, <2>4, ArmedFrame
<1>7. ASSUME NEW c \in Callers, PublishRefused(c)
      PROVE  ArmedInv'
  BY <1>7 DEF PublishRefused, Goto, ArmedInv, HeldBy, Ids
<1>8. ASSUME NEW c \in Callers, AbortRelease(c)
      PROVE  ArmedInv'
  BY <1>8 DEF AbortRelease, ReleaseData, Goto, ArmedInv, HeldBy, Ids
<1>9. ASSUME NEW c \in Callers, AbortIdle(c)
      PROVE  ArmedInv'
  <2>5. scan[c] \in Channel /\ StoreIdle(scan[c])
    BY <1>9 DEF AbortIdle, Fit, TypeOK, CallsTyped
  <2>1. Moved(c)
    BY <1>9, Moves DEF Fit, TypeOK, AbortIdle
  <2>2. UNCHANGED members
    BY <1>9 DEF AbortIdle
  <2>3. ASSUME NEW ch \in Channel
        PROVE  armedFor'[ch] = None \/ (armedFor'[ch] = armedFor[ch] /\ state'[ch] = state[ch])
    BY <2>5, StoreIdleWrites
  <2>4. ASSUME NEW ch \in Channel, NEW r \in Request,
               armedFor'[ch] = r, armedFor[ch] = r, r \in inUse, ch \in enlisted[r]
        PROVE  r \in inUse' /\ ch \in enlisted'[r]
    <3>1. inUse' = inUse
      BY <1>9 DEF AbortIdle
    <3>2. ch # scan[c]
      BY <2>4, <2>5, StoreIdleWrites
    <3>3. enlisted'[r] = enlisted[r] \ {scan[c]}
      BY <2>5, StoreIdleWrites
    <3> QED BY <2>4, <3>1, <3>2, <3>3
  <2> QED BY <2>1, <2>2, <2>3, <2>4, ArmedFrame
<1>10. ASSUME NEW c \in Callers, NEW a \in Channel, NEW b \in Channel \cup {None}, a # b,
              BeginStartGroup(c, a, b)
       PROVE  ArmedInv'
  BY <1>10, SMTT(20) DEF BeginStartGroup, Goto, ArmedInv, HeldBy, Ids
<1>11. ASSUME NEW c \in Callers, RefuseStart(c)
       PROVE  ArmedInv'
  <2>1. Moved(c)
    BY <1>11, Moves DEF Fit, TypeOK, RefuseStart
  <2>2. UNCHANGED members
    BY <1>11 DEF RefuseStart
  <2>3. ASSUME NEW ch \in Channel
        PROVE  armedFor'[ch] = None \/ (armedFor'[ch] = armedFor[ch] /\ state'[ch] = state[ch])
    BY <1>11 DEF RefuseStart
  <2>4. ASSUME NEW ch \in Channel, NEW r \in Request,
               armedFor'[ch] = r, armedFor[ch] = r, r \in inUse, ch \in enlisted[r]
        PROVE  r \in inUse' /\ ch \in enlisted'[r]
    BY <1>11, <2>4 DEF RefuseStart
  <2> QED BY <2>1, <2>2, <2>3, <2>4, ArmedFrame
<1>12. ASSUME NEW c \in Callers, Reserve(c)
       PROVE  ArmedInv'
  <2> DEFINE n == Least(Request \ inUse)
  <2>1. n \in Request \ inUse
    BY <1>12 DEF Reserve
  <2>2. \A ch \in Channel : armedFor[ch] # n
    BY <2>1 DEF ArmedInv
  <2>3. /\ armedFor' = armedFor /\ state' = state /\ members' = members /\ armed' = armed
        /\ first' = first /\ second' = second /\ inUse' = inUse \cup {n}
        /\ \A r \in Request : r # n => enlisted'[r] = enlisted[r]
    BY <1>12, <2>1 DEF Reserve, Fit, TypeOK, HistoryTyped
  <2>4. \A d \in Callers : d # c => pc'[d] = pc[d] /\ req'[d] = req[d]
    BY <1>12 DEF Reserve, Goto, Fit, TypeOK, CallsTyped
  <2>5. pc'[c] = "arm" /\ req'[c] = n
    BY <1>12 DEF Reserve, Goto, Fit, TypeOK, CallsTyped
  <2> HIDE DEF n
  <2>6. \A ch \in Channel, r \in Request : armedFor'[ch] = r =>
          state'[ch] = "Ready" /\ r \in inUse' /\ ch \in enlisted'[r]
    BY <2>2, <2>3 DEF ArmedInv
  <2>7. \A d \in Callers, ch \in Channel, r \in Request :
          HeldBy(d, r)' /\ armedFor'[ch] = r => ch \in armed'[d]
    BY <2>2, <2>3, <2>4, <2>5 DEF ArmedInv, HeldBy
  <2>8. \A d \in Callers : pc'[d] = "commit" => members'[req'[d]] = Ids(d)'
    BY <2>3, <2>4, <2>5 DEF ArmedInv, Ids
  <2> QED BY <2>6, <2>7, <2>8 DEF ArmedInv
<1>13. ASSUME NEW c \in Callers, Arm(c)
       PROVE  ArmedInv'
  <2> DEFINE x == Least(Ids(c) \ armed[c])
  <2>1. /\ x \in Channel /\ state[x] = "Ready"
        /\ req[c] \in Request /\ HeldBy(c, req[c]) /\ req[c] \in inUse
    BY <1>13 DEF Arm, HeldBy, HeldApart, Fit, CallsFit, CallFits, HeldPoint
  <2>2. /\ UNCHANGED <<state, inUse, members, req, first, second>>
        /\ armedFor' = [armedFor EXCEPT ![x] = req[c]]
        /\ enlisted' = [enlisted EXCEPT ![req[c]] = enlisted[req[c]] \cup {x}]
        /\ armed' = [armed EXCEPT ![c] = armed[c] \cup {x}]
        /\ \A d \in Callers : d # c => pc'[d] = pc[d]
        /\ pc'[c] \in {"arm", "members"}
    BY <1>13 DEF Arm, Goto, Fit, TypeOK, CallsTyped
  <2> HIDE DEF x
  <2>3. \A ch \in Channel, r \in Request : armedFor'[ch] = r =>
          state'[ch] = "Ready" /\ r \in inUse' /\ ch \in enlisted'[r]
    BY <2>1, <2>2 DEF ArmedInv, Fit, TypeOK, ChannelsTyped, HistoryTyped
  <2>4. ASSUME NEW d \in Callers, NEW ch \in Channel, NEW r \in Request,
               HeldBy(d, r)', armedFor'[ch] = r
        PROVE  ch \in armed'[d]
    <3>1. HeldBy(d, r)
      BY <2>1, <2>2, <2>4 DEF HeldBy
    <3>2. CASE ch = x
      <4>1. d = c
        BY <2>1, <2>2, <2>4, <3>1, <3>2 DEF HeldApart, Fit, TypeOK, ChannelsTyped
      <4> QED BY <2>2, <3>2, <4>1 DEF Fit, TypeOK, CallsTyped
    <3>3. CASE ch # x
      <4>1. ch \in armed[d]
        BY <2>1, <2>2, <2>4, <3>1, <3>3 DEF ArmedInv, Fit, TypeOK, ChannelsTyped
      <4> QED BY <2>2, <4>1 DEF Fit, TypeOK, CallsTyped
    <3> QED BY <3>2, <3>3
  <2>5. \A d \in Callers : pc'[d] = "commit" => members'[req'[d]] = Ids(d)'
    BY <2>2 DEF ArmedInv, Ids
  <2> QED BY <2>3, <2>4, <2>5 DEF ArmedInv
<1>14. ASSUME NEW c \in Callers, ArmRefused(c)
       PROVE  ArmedInv'
  BY <1>14 DEF ArmRefused, Goto, ArmedInv, HeldBy, Ids, Fit, TypeOK, CallsTyped
<1>15. ASSUME NEW c \in Callers, Disarm(c)
       PROVE  ArmedInv'
  <2> DEFINE x == Least(armed[c])
  <2>1. x \in Channel /\ req[c] \in Request /\ HeldBy(c, req[c])
    BY <1>15 DEF Disarm, HeldBy, Fit, CallsFit, CallFits, HeldPoint
  <2>2. armedFor'[x] # req[c]
    BY <1>15, <2>1, ZenonT(60) DEF Disarm, IsArmedFor, ArmedInv, Fit, TypeOK, ChannelsTyped
  <2>3. \A ch \in Channel : armedFor'[ch] = None \/ armedFor'[ch] = armedFor[ch]
    BY <1>15, <2>1 DEF Disarm, Fit, TypeOK, ChannelsTyped
  <2>4. ASSUME NEW ch \in Channel, NEW r \in Request, armedFor'[ch] = r, ch \in enlisted[r]
        PROVE  ch \in enlisted'[r]
    <3>1. r # req[c] \/ ch # x
      BY <2>2, <2>4
    <3>2. enlisted' = enlisted \/ enlisted' = [enlisted EXCEPT ![req[c]] = enlisted[req[c]] \ {x}]
      BY <1>15 DEF Disarm
    <3> HIDE DEF x
    <3> QED BY <2>1, <2>4, <3>1, <3>2 DEF Fit, TypeOK, HistoryTyped
  <2>5. /\ UNCHANGED <<state, inUse, req, members, first, second>>
        /\ \A d \in Callers : d # c => armed'[d] = armed[d] /\ pc'[d] = pc[d]
        /\ armed'[c] = armed[c] \ {x} /\ pc'[c] \in {"undo", "release"}
    BY <1>15 DEF Disarm, Goto, Fit, TypeOK, CallsTyped
  <2> HIDE DEF x
  <2>6. \A ch \in Channel, r \in Request : armedFor'[ch] = r =>
          state'[ch] = "Ready" /\ r \in inUse' /\ ch \in enlisted'[r]
    BY <2>3, <2>4, <2>5, Indices DEF ArmedInv
  <2>7. ASSUME NEW d \in Callers, NEW ch \in Channel, NEW r \in Request,
               HeldBy(d, r)', armedFor'[ch] = r
        PROVE  ch \in armed'[d]
    <3>1. HeldBy(d, r) /\ armedFor[ch] = r
      BY <2>1, <2>3, <2>5, <2>7, Indices DEF HeldBy
    <3> QED BY <2>2, <2>5, <2>7, <3>1 DEF ArmedInv, HeldBy
  <2>8. \A d \in Callers : pc'[d] = "commit" => members'[req'[d]] = Ids(d)'
    BY <2>5 DEF ArmedInv, Ids
  <2> QED BY <2>6, <2>7, <2>8 DEF ArmedInv
<1>16. ASSUME NEW c \in Callers, ReleaseRequest(c)
       PROVE  ArmedInv'
  <2>1. Moved(c)
    BY <1>16, Moves DEF Fit, TypeOK, ReleaseRequest
  <2>2. UNCHANGED members
    BY <1>16 DEF ReleaseRequest
  <2>3. ASSUME NEW ch \in Channel
        PROVE  armedFor'[ch] = None \/ (armedFor'[ch] = armedFor[ch] /\ state'[ch] = state[ch])
    BY <1>16 DEF ReleaseRequest
  <2>4. ASSUME NEW ch \in Channel, NEW r \in Request,
               armedFor'[ch] = r, armedFor[ch] = r, r \in inUse, ch \in enlisted[r]
        PROVE  r \in inUse' /\ ch \in enlisted'[r]
    <3>1. req[c] \in Request /\ HeldBy(c, req[c]) /\ armed[c] = {}
      BY <1>16 DEF ReleaseRequest, HeldBy, Fit, CallsFit, CallFits, HeldPoint
    <3>2. r # req[c]
      BY <2>4, <3>1 DEF ArmedInv
    <3> QED BY <1>16, <2>4, <3>2 DEF ReleaseRequest
  <2> QED BY <2>1, <2>2, <2>3, <2>4, ArmedFrame
<1>17. ASSUME NEW c \in Callers, WriteMembers(c)
       PROVE  ArmedInv'
  <2>1. req[c] \in Request /\ HeldBy(c, req[c])
    BY <1>17 DEF WriteMembers, HeldBy, Fit, CallsFit, CallFits, HeldPoint
  <2>2. /\ UNCHANGED <<armedFor, state, enlisted, inUse, armed, req, first, second>>
        /\ members'[req[c]] = Ids(c)
        /\ \A r \in Request : r # req[c] => members'[r] = members[r]
    BY <1>17, <2>1 DEF WriteMembers, Fit, TypeOK, StartsTyped
  <2>3. \A d \in Callers, r \in Request : HeldBy(d, r)' => HeldBy(d, r)
    BY <1>17 DEF WriteMembers, Goto, HeldBy, Fit, TypeOK, CallsTyped
  <2>4. ASSUME NEW d \in Callers, pc'[d] = "commit"
        PROVE  members'[req'[d]] = Ids(d)'
    <3>1. CASE d = c
      BY <2>2, <3>1 DEF Ids
    <3>2. CASE d # c
      <4>1. pc[d] = "commit" /\ req[d] \in Request /\ HeldBy(d, req[d])
        BY <1>17, <2>4, <3>2 DEF WriteMembers, Goto, HeldBy, Fit, TypeOK, CallsTyped,
                  CallsFit, CallFits, HeldPoint
      <4>2. req[d] # req[c]
        BY <2>1, <3>2, <4>1 DEF HeldApart
      <4> QED BY <2>2, <4>1, <4>2 DEF ArmedInv, Ids
    <3> QED BY <3>1, <3>2
  <2> QED BY <2>2, <2>3, <2>4 DEF ArmedInv
<1>18. ASSUME NEW c \in Callers, Commit(c)
       PROVE  ArmedInv'
  <2>1. Moved(c)
    BY <1>18, Moves DEF Fit, TypeOK, Commit
  <2>2. UNCHANGED members
    BY <1>18 DEF Commit
  <2>3. ASSUME NEW ch \in Channel
        PROVE  armedFor'[ch] = None \/ (armedFor'[ch] = armedFor[ch] /\ state'[ch] = state[ch])
    BY <1>18 DEF Commit
  <2>4. ASSUME NEW ch \in Channel, NEW r \in Request,
               armedFor'[ch] = r, armedFor[ch] = r, r \in inUse, ch \in enlisted[r]
        PROVE  r \in inUse' /\ ch \in enlisted'[r]
    BY <1>18, <2>4 DEF Commit
  <2> QED BY <2>1, <2>2, <2>3, <2>4, ArmedFrame
<1>19. ASSUME NEW c \in Callers, NEW ch \in Channel, BeginStop(c, ch)
       PROVE  ArmedInv'
  BY <1>19 DEF BeginStop, Goto, ArmedInv, HeldBy, Ids
<1>20. ASSUME NEW c \in Callers, StopLook(c)
       PROVE  ArmedInv'
  <2>1. Moved(c)
    BY <1>20, Moves DEF Fit, TypeOK
  <2>2. UNCHANGED members
    BY <1>20 DEF StopLook
  <2>3. ASSUME NEW ch \in Channel
        PROVE  armedFor'[ch] = None \/ (armedFor'[ch] = armedFor[ch] /\ state'[ch] = state[ch])
    BY <1>20 DEF StopLook
  <2>4. ASSUME NEW ch \in Channel, NEW r \in Request,
               armedFor'[ch] = r, armedFor[ch] = r, r \in inUse, ch \in enlisted[r]
        PROVE  r \in inUse' /\ ch \in enlisted'[r]
    BY <1>20, <2>4 DEF StopLook
  <2> QED BY <2>1, <2>2, <2>3, <2>4, ArmedFrame
<1>21. ASSUME NEW c \in Callers, StopTry(c)
       PROVE  ArmedInv'
  <2>1. Moved(c)
    BY <1>21, Moves DEF Fit, TypeOK
  <2>2. UNCHANGED members
    BY <1>21 DEF StopTry
  <2>3. ASSUME NEW ch \in Channel
        PROVE  armedFor'[ch] = None \/ (armedFor'[ch] = armedFor[ch] /\ state'[ch] = state[ch])
    BY <1>21, StopWrites DEF StopWrote
  <2>4. ASSUME NEW ch \in Channel, NEW r \in Request,
               armedFor'[ch] = r, armedFor[ch] = r, r \in inUse, ch \in enlisted[r]
        PROVE  r \in inUse' /\ ch \in enlisted'[r]
    BY <1>21, <2>4 DEF StopTry
  <2> QED BY <2>1, <2>2, <2>3, <2>4, ArmedFrame
<1>22. ASSUME MixExchange PROVE ArmedInv'
  BY <1>22 DEF MixExchange, ArmedInv, HeldBy, Ids
<1>23. ASSUME MixRun PROVE ArmedInv'
  BY <1>23 DEF MixRun, ArmedInv, HeldBy, Ids
<1>24. ASSUME MixStart PROVE ArmedInv'
  <2>1. \A ch \in Channel : \/ armedFor'[ch] = None
                            \/ armedFor'[ch] = armedFor[ch] /\ state'[ch] = state[ch]
    BY <1>24 DEF MixStart, SetState, Fit, TypeOK, ChannelsTyped
  <2>2. UNCHANGED <<members, inUse, enlisted, pc, armed, req, first, second>>
    BY <1>24 DEF MixStart
  <2> QED BY <2>1, <2>2 DEF ArmedInv, HeldBy, Ids
<1>25. ASSUME MixFree PROVE ArmedInv'
  <2>1. Least(taken) \in taken /\ Least(taken) \in Request /\ mpc = "start" /\ todo = {}
    BY <1>25 DEF MixFree, Fit, MixerFits
  <2>2. \A ch \in Channel : armedFor[ch] # Least(taken)
    BY <2>1 DEF PromisedInv
  <2>3. UNCHANGED <<armedFor, state, enlisted, armed, req, first, second, pc, members>>
    BY <1>25 DEF MixFree
  <2>4. inUse' = inUse \ {Least(taken)}
    BY <1>25 DEF MixFree
  <2> QED BY <2>2, <2>3, <2>4 DEF ArmedInv, HeldBy, Ids
<1>26. ASSUME MixBegin PROVE ArmedInv'
  BY <1>26 DEF MixBegin, ArmedInv, HeldBy, Ids
<1>27. ASSUME MixSamples PROVE ArmedInv'
  BY <1>27 DEF MixSamples, ArmedInv, HeldBy, Ids
<1>28. ASSUME NEW ended \in BOOLEAN, MixEnd(ended)
       PROVE  ArmedInv'
  BY <1>28, SMTT(20) DEF MixEnd, Transition, SetState, ArmedInv, HeldBy, Ids, Fit, TypeOK, ChannelsTyped
<1>29. ASSUME MixWrite PROVE ArmedInv'
  BY <1>29 DEF MixWrite, ArmedInv, HeldBy, Ids
<1>30. ASSUME NEW r \in Reader, NEW ch \in Channel, CloseRelease(r, ch)
       PROVE  ArmedInv'
  BY <1>30 DEF CloseRelease, ArmedInv, HeldBy, Ids
<1>31. ASSUME NEW r \in Reader, CloseIdle(r)
       PROVE  ArmedInv'
  BY <1>31, ZenonT(60) DEF CloseIdle, StoreIdle, Forget, Target, ReaderAt, ArmedInv, HeldBy, Ids, Fit,
    TypeOK, ChannelsTyped
<1>32. ASSUME NEW r \in Reader, NEW ch \in Channel, PickRefill(r, ch)
       PROVE  ArmedInv'
  BY <1>32 DEF PickRefill, ArmedInv, HeldBy, Ids
<1>33. ASSUME NEW r \in Reader, NEW ended \in BOOLEAN, Refill(r, ended)
       PROVE  ArmedInv'
  BY <1>33 DEF Refill, ArmedInv, HeldBy, Ids
<1>34. ASSUME UNCHANGED vars PROVE ArmedInv'
  BY <1>34 DEF vars, ArmedInv, HeldBy, Ids
<1> QED
  BY <1>1, <1>2, <1>3, <1>4, <1>5, <1>6, <1>7, <1>8, <1>9, <1>10, <1>11, <1>12, <1>13, <1>14,
     <1>15, <1>16, <1>17, <1>18, <1>19, <1>20, <1>21, <1>22, <1>23, <1>24, <1>25, <1>26, <1>27,
     <1>28, <1>29, <1>30, <1>31, <1>32, <1>33, <1>34
  DEF Next, Begin, Call, Prepare, StartGroup, Stop, Mixer, Close, RefillPass

\* EnlistedInv is inductive.
LEMMA EnlistedInvStep ==
  Fit /\ OwnerInv /\ HeldApart /\ ArmedInv /\ EnlistedInv /\ [Next]_vars
    => EnlistedInv'
<1> SUFFICES ASSUME Fit, OwnerInv, HeldApart, ArmedInv, EnlistedInv, [Next]_vars PROVE EnlistedInv'
  OBVIOUS
<1> USE Indices, Picks
<1> USE DEF statusVars, dataVars, startVars, locals, mixVars, readVars, histVars
<1>1. ASSUME NEW c \in Callers, NEW g \in {"prepare", "play", "playLinked"}, BeginPrepare(c, g)
      PROVE  EnlistedInv'
  BY <1>1 DEF BeginPrepare, EnlistedInv
<1>2. ASSUME NEW c \in Callers, Claim(c)
      PROVE  EnlistedInv'
  BY <1>2 DEF Claim, SetState, Goto, EnlistedInv
<1>3. ASSUME NEW c \in Callers, SkipBusy(c)
      PROVE  EnlistedInv'
  BY <1>3 DEF SkipBusy, EnlistedInv
<1>4. ASSUME NEW c \in Callers, NoFreeChannel(c)
      PROVE  EnlistedInv'
  BY <1>4, Moves DEF NoFreeChannel, EnlistedInv
<1>5. ASSUME NEW c \in Callers, NEW opened \in BOOLEAN, NEW ended \in BOOLEAN,
             OpenAndPrefill(c, opened, ended)
      PROVE  EnlistedInv'
  BY <1>5 DEF OpenAndPrefill, EnlistedInv
<1>6. ASSUME NEW c \in Callers, NEW backed \in Backing, Publish(c, backed)
      PROVE  EnlistedInv'
  BY <1>6, PublishMoves DEF Publish, Moved, EnlistedInv, Mixable, Fit, TypeOK, ChannelsTyped,
    CallsTyped, OwnerInv, SingleOwner, LoadingAt
<1>7. ASSUME NEW c \in Callers, PublishRefused(c)
      PROVE  EnlistedInv'
  BY <1>7 DEF PublishRefused, EnlistedInv
<1>8. ASSUME NEW c \in Callers, AbortRelease(c)
      PROVE  EnlistedInv'
  BY <1>8 DEF AbortRelease, EnlistedInv
<1>9. ASSUME NEW c \in Callers, AbortIdle(c)
      PROVE  EnlistedInv'
  <2>1. scan[c] \in Channel /\ StoreIdle(scan[c])
    BY <1>9 DEF AbortIdle, Fit, TypeOK, CallsTyped
  <2>2. UNCHANGED <<inUse, taken>>
    BY <1>9 DEF AbortIdle
  <2>3. ASSUME NEW ch \in Channel, NEW r \in Request, ch \in enlisted'[r]
        PROVE  ch \in enlisted[r] /\ state'[ch] = state[ch] /\ armedFor'[ch] = armedFor[ch]
    <3>1. enlisted'[r] = enlisted[r] \ {scan[c]}
      BY <2>1, StoreIdleWrites
    <3> QED BY <2>1, <2>3, <3>1, StoreIdleWrites
  <2> QED BY <2>2, <2>3 DEF EnlistedInv
<1>10. ASSUME NEW c \in Callers, NEW a \in Channel, NEW b \in Channel \cup {None}, a # b,
              BeginStartGroup(c, a, b)
       PROVE  EnlistedInv'
  BY <1>10 DEF BeginStartGroup, EnlistedInv
<1>11. ASSUME NEW c \in Callers, RefuseStart(c)
       PROVE  EnlistedInv'
  BY <1>11, Moves DEF RefuseStart, EnlistedInv
<1>12. ASSUME NEW c \in Callers, Reserve(c)
       PROVE  EnlistedInv'
  BY <1>12 DEF Reserve, Goto, EnlistedInv, Fit, MixerFits, TypeOK, MixerTyped, HistoryTyped,
    ArmedInv
<1>13. ASSUME NEW c \in Callers, Arm(c)
       PROVE  EnlistedInv'
  <2> DEFINE x == Least(Ids(c) \ armed[c])
  <2>1. x \in Channel /\ req[c] \in Request /\ HeldBy(c, req[c]) /\ state[x] = "Ready" /\ armedFor[x] = None
    BY <1>13 DEF Arm, HeldBy, Fit, CallsFit, CallFits, HeldPoint
  <2>2. /\ UNCHANGED <<state, inUse, taken>>
        /\ armedFor' = [armedFor EXCEPT ![x] = req[c]]
        /\ enlisted' = [enlisted EXCEPT ![req[c]] = enlisted[req[c]] \cup {x}]
    BY <1>13 DEF Arm
  <2> HIDE DEF x
  <2>3. /\ armedFor'[x] = req[c]
        /\ \A ch \in Channel : ch # x => armedFor'[ch] = armedFor[ch]
    BY <2>1, <2>2 DEF Fit, TypeOK, ChannelsTyped
  <2>4. ASSUME NEW r \in Request, NEW ch \in Channel, ch \in enlisted'[r]
        PROVE  ch \in enlisted[r] \/ (ch = x /\ r = req[c])
    BY <2>1, <2>2, <2>4 DEF Fit, TypeOK, HistoryTyped
  <2>5. ASSUME NEW r \in Request, NEW ch \in Channel, ch \in enlisted'[r]
        PROVE  /\ state'[ch] \notin {"Idle", "Loading"}
               /\ state'[ch] = "Ready" => armedFor'[ch] = r
    <3>1. CASE ch = x
      <4>1. x \notin enlisted[r]
        BY <2>1 DEF EnlistedInv
      <4> QED BY <2>1, <2>2, <2>3, <2>4, <2>5, <3>1, <4>1
    <3>2. CASE ch # x
      BY <2>2, <2>3, <2>4, <2>5, <3>2 DEF EnlistedInv
    <3> QED BY <3>1, <3>2
  <2>6. ASSUME NEW r \in Request, NEW ch \in Channel, ch \in enlisted'[r], r \in inUse' \ taken'
        PROVE  state'[ch] \notin Mixable
    BY <2>1, <2>2, <2>4, <2>6 DEF EnlistedInv, Mixable
  <2> QED BY <2>5, <2>6 DEF EnlistedInv, Mixable
<1>14. ASSUME NEW c \in Callers, ArmRefused(c)
       PROVE  EnlistedInv'
  BY <1>14 DEF ArmRefused, EnlistedInv
<1>15. ASSUME NEW c \in Callers, Disarm(c)
       PROVE  EnlistedInv'
  <2> DEFINE x == Least(armed[c])
  <2>1. x \in Channel /\ req[c] \in Request
    BY <1>15 DEF Disarm, Fit, CallsFit, CallFits, HeldPoint
  <2>2. /\ UNCHANGED <<state, inUse, taken>>
        /\ \/ UNCHANGED <<armedFor, enlisted>>
           \/ /\ armedFor[x] = req[c]
              /\ armedFor' = [armedFor EXCEPT ![x] = None]
              /\ enlisted' = [enlisted EXCEPT ![req[c]] = enlisted[req[c]] \ {x}]
    BY <1>15 DEF Disarm, IsArmedFor
  <2> HIDE DEF x
  <2>3. ASSUME NEW r \in Request, NEW ch \in Channel, ch \in enlisted'[r]
        PROVE  /\ ch \in enlisted[r]
               /\ state[ch] = "Ready" => armedFor'[ch] = armedFor[ch]
    <3>1. CASE UNCHANGED <<armedFor, enlisted>>
      BY <2>3, <3>1
    <3>2. CASE ~UNCHANGED <<armedFor, enlisted>>
      <4>1. ch \in enlisted[r] /\ ~(ch = x /\ r = req[c])
        BY <2>1, <2>2, <2>3, <3>2 DEF Fit, TypeOK, HistoryTyped
      <4>2. ch = x => state[ch] # "Ready"
        BY <2>1, <2>2, <3>2, <4>1 DEF EnlistedInv
      <4> QED BY <2>1, <2>2, <3>2, <4>1, <4>2 DEF Fit, TypeOK, ChannelsTyped
    <3> QED BY <3>1, <3>2
  <2> QED BY <2>2, <2>3 DEF EnlistedInv, Mixable
<1>16. ASSUME NEW c \in Callers, ReleaseRequest(c)
       PROVE  EnlistedInv'
  BY <1>16, Moves DEF ReleaseRequest, EnlistedInv
<1>17. ASSUME NEW c \in Callers, WriteMembers(c)
       PROVE  EnlistedInv'
  BY <1>17 DEF WriteMembers, EnlistedInv
<1>18. ASSUME NEW c \in Callers, Commit(c)
       PROVE  EnlistedInv'
  BY <1>18, Moves DEF Commit, EnlistedInv
<1>19. ASSUME NEW c \in Callers, NEW ch \in Channel, BeginStop(c, ch)
       PROVE  EnlistedInv'
  BY <1>19 DEF BeginStop, EnlistedInv
<1>20. ASSUME NEW c \in Callers, StopLook(c)
       PROVE  EnlistedInv'
  BY <1>20, Moves DEF StopLook, EnlistedInv
<1>21. ASSUME NEW c \in Callers, StopTry(c)
       PROVE  EnlistedInv'
  <2>1. UNCHANGED <<enlisted, inUse, taken>>
    BY <1>21 DEF StopTry
  <2>2. ASSUME NEW ch \in Channel
        PROVE  \/ state'[ch] = state[ch] /\ armedFor'[ch] = armedFor[ch]
               \/ state[ch] = "Ready" /\ state'[ch] = "Closing"
               \/ state[ch] = "Active" /\ state'[ch] = "Stopping"
    BY <1>21, StopWrites DEF StopWrote
  <2> QED BY <2>1, <2>2 DEF EnlistedInv, Mixable
<1>22. ASSUME MixExchange PROVE EnlistedInv'
  BY <1>22 DEF MixExchange, NextRequest, EnlistedInv, Fit, MixerFits
<1>23. ASSUME MixRun PROVE EnlistedInv'
  BY <1>23 DEF MixRun, EnlistedInv
<1>24. ASSUME MixStart PROVE EnlistedInv'
  <2>1. UNCHANGED <<enlisted, inUse, taken>>
    BY <1>24 DEF MixStart
  <2>2. taken # {} /\ Least(taken) \in taken /\ Least(taken) \in Request
    BY <1>24 DEF MixStart, Fit, MixerFits
  <2>3. ASSUME NEW ch \in Channel
        PROVE  \/ state'[ch] = state[ch] /\ armedFor'[ch] = armedFor[ch]
               \/ state[ch] = "Ready" /\ state'[ch] = "Active" /\ armedFor[ch] = Least(taken)
    BY <1>24, StartWrites
  <2>4. ASSUME NEW r \in Request, NEW ch \in Channel, ch \in enlisted[r], r \in inUse \ taken
        PROVE  state'[ch] \notin Mixable
    <3>1. state[ch] \notin Mixable /\ (state[ch] = "Ready" => armedFor[ch] # Least(taken))
      BY <2>2, <2>4 DEF EnlistedInv
    <3> QED BY <2>3, <3>1
  <2>5. ASSUME NEW r \in Request, NEW ch \in Channel, ch \in enlisted[r]
        PROVE  /\ state'[ch] \notin {"Idle", "Loading"}
               /\ state'[ch] = "Ready" => armedFor'[ch] = r
    BY <2>3, <2>5 DEF EnlistedInv
  <2> QED BY <2>1, <2>4, <2>5 DEF EnlistedInv
<1>25. ASSUME MixFree PROVE EnlistedInv'
  BY <1>25 DEF MixFree, EnlistedInv
<1>26. ASSUME MixBegin PROVE EnlistedInv'
  BY <1>26 DEF MixBegin, EnlistedInv
<1>27. ASSUME MixSamples PROVE EnlistedInv'
  BY <1>27 DEF MixSamples, EnlistedInv
<1>28. ASSUME NEW ended \in BOOLEAN, MixEnd(ended)
       PROVE  EnlistedInv'
  BY <1>28 DEF MixEnd, Transition, SetState, EnlistedInv, Fit, TypeOK, ChannelsTyped,
    CallsTyped, OwnerInv, SingleOwner, LoadingAt, ArmedInv, Mixable
<1>29. ASSUME MixWrite PROVE EnlistedInv'
  BY <1>29 DEF MixWrite, EnlistedInv
<1>30. ASSUME NEW r \in Reader, NEW ch \in Channel, CloseRelease(r, ch)
       PROVE  EnlistedInv'
  BY <1>30 DEF CloseRelease, EnlistedInv
<1>31. ASSUME NEW r \in Reader, CloseIdle(r)
       PROVE  EnlistedInv'
  BY <1>31 DEF CloseIdle, StoreIdle, Forget, Target, ReaderAt, EnlistedInv
<1>32. ASSUME NEW r \in Reader, NEW ch \in Channel, PickRefill(r, ch)
       PROVE  EnlistedInv'
  BY <1>32 DEF PickRefill, EnlistedInv
<1>33. ASSUME NEW r \in Reader, NEW ended \in BOOLEAN, Refill(r, ended)
       PROVE  EnlistedInv'
  BY <1>33 DEF Refill, EnlistedInv
<1>34. ASSUME UNCHANGED vars PROVE EnlistedInv'
  BY <1>34 DEF vars, EnlistedInv
<1> QED
  BY <1>1, <1>2, <1>3, <1>4, <1>5, <1>6, <1>7, <1>8, <1>9, <1>10, <1>11, <1>12, <1>13, <1>14,
     <1>15, <1>16, <1>17, <1>18, <1>19, <1>20, <1>21, <1>22, <1>23, <1>24, <1>25, <1>26, <1>27,
     <1>28, <1>29, <1>30, <1>31, <1>32, <1>33, <1>34
  DEF Next, Begin, Call, Prepare, StartGroup, Stop, Mixer, Close, RefillPass

\* A step that leaves the mixer and the requests alone and starts no channel.
LEMMA PromisedFrame ==
  ASSUME Fit, PromisedInv, UNCHANGED <<committed, members, taken, mpc, todo>>,
         \A ch \in Channel :
           \/ state'[ch] = state[ch] /\ armedFor'[ch] = armedFor[ch] /\ promised'[ch] = promised[ch]
           \/ state'[ch] \in {"Idle", "Loading"} /\ armedFor'[ch] = None /\ ~promised'[ch]
           \/ /\ promised'[ch] = promised[ch] /\ armedFor'[ch] = None
              /\ state'[ch] = "Closing" \/ (state[ch] = "Active" /\ state'[ch] = "Stopping")
           \/ state'[ch] = "Ready" /\ armedFor'[ch] \notin committed \cup taken /\ ~promised'[ch]
              /\ (taken # {} => armedFor'[ch] # Least(taken)),
         \A ch \in Channel : promised'[ch] /\ state'[ch] = "Closing" => promised[ch]
  PROVE  PromisedInv'
<1> USE Indices, Picks DEF Mixable
<1>1. ASSUME NEW ch \in Channel, NEW r \in Request, armedFor'[ch] = r, r \in committed' \cup taken'
      PROVE  promised'[ch] /\ ch \in members'[r]
  BY <1>1 DEF PromisedInv
<1>2. ASSUME mpc' = "start", NEW ch \in Channel, armedFor'[ch] = Least(taken)
      PROVE  ch \in todo'
  <2>1. taken # {} /\ Least(taken) # None
    BY <1>2 DEF Fit, MixerFits
  <2> QED BY <1>2, <2>1 DEF PromisedInv
<1>3. ASSUME NEW ch \in Channel, promised'[ch]
      PROVE  /\ state'[ch] \notin {"Idle", "Loading"}
             /\ state'[ch] = "Ready" => armedFor'[ch] \in committed' \cup taken'
  BY <1>3 DEF PromisedInv
<1>4. StartedWasPromised'
  BY DEF PromisedInv, StartedWasPromised
<1> QED BY <1>1, <1>2, <1>3, <1>4 DEF PromisedInv

\* PromisedInv is inductive.
LEMMA PromisedInvStep ==
  Fit /\ OwnerInv /\ HeldApart /\ ArmedInv /\ EnlistedInv /\ PromisedInv /\ [Next]_vars
    => PromisedInv'
<1> SUFFICES ASSUME Fit, OwnerInv, HeldApart, ArmedInv, EnlistedInv, PromisedInv,
                    [Next]_vars
             PROVE  PromisedInv'
  OBVIOUS
<1> USE Indices, Picks
<1> USE DEF statusVars, dataVars, startVars, locals, mixVars, readVars, histVars
<1>1. ASSUME NEW c \in Callers, NEW g \in {"prepare", "play", "playLinked"}, BeginPrepare(c, g)
      PROVE  PromisedInv'
  BY <1>1 DEF BeginPrepare, PromisedInv, StartedWasPromised
<1>2. ASSUME NEW c \in Callers, Claim(c)
      PROVE  PromisedInv'
  <2>1. scan[c] \in Channel /\ state[scan[c]] = "Idle" /\ ~promised[scan[c]]
    BY <1>2 DEF Claim, PromisedInv, Fit, TypeOK, CallsTyped
  <2>2. UNCHANGED <<promised, committed, members, taken, mpc, todo>>
    BY <1>2 DEF Claim
  <2>3. ASSUME NEW ch \in Channel
        PROVE  \/ state'[ch] = state[ch] /\ armedFor'[ch] = armedFor[ch]
               \/ ch = scan[c] /\ state'[ch] = "Loading" /\ armedFor'[ch] = None
    BY <1>2, <2>1 DEF Claim, SetState, Fit, TypeOK, ChannelsTyped
  <2> QED BY <2>1, <2>2, <2>3, PromisedFrame
<1>3. ASSUME NEW c \in Callers, SkipBusy(c)
      PROVE  PromisedInv'
  BY <1>3 DEF SkipBusy, PromisedInv, StartedWasPromised
<1>4. ASSUME NEW c \in Callers, NoFreeChannel(c)
      PROVE  PromisedInv'
  BY <1>4, Moves DEF NoFreeChannel, PromisedInv, StartedWasPromised
<1>5. ASSUME NEW c \in Callers, NEW opened \in BOOLEAN, NEW ended \in BOOLEAN,
             OpenAndPrefill(c, opened, ended)
      PROVE  PromisedInv'
  BY <1>5 DEF OpenAndPrefill, PromisedInv, StartedWasPromised
<1>6. ASSUME NEW c \in Callers, NEW backed \in Backing, Publish(c, backed)
      PROVE  PromisedInv'
  BY <1>6, PublishMoves DEF Publish, Moved, PromisedInv, StartedWasPromised, Mixable, Fit,
    TypeOK, ChannelsTyped, CallsTyped, OwnerInv, SingleOwner, LoadingAt
<1>7. ASSUME NEW c \in Callers, PublishRefused(c)
      PROVE  PromisedInv'
  BY <1>7 DEF PublishRefused, PromisedInv, StartedWasPromised
<1>8. ASSUME NEW c \in Callers, AbortRelease(c)
      PROVE  PromisedInv'
  BY <1>8 DEF AbortRelease, PromisedInv, StartedWasPromised
<1>9. ASSUME NEW c \in Callers, AbortIdle(c)
      PROVE  PromisedInv'
  <2>1. scan[c] \in Channel /\ StoreIdle(scan[c])
    BY <1>9 DEF AbortIdle, Fit, TypeOK, CallsTyped
  <2>2. UNCHANGED <<committed, members, taken, mpc, todo>>
    BY <1>9 DEF AbortIdle
  <2>3. ASSUME NEW ch \in Channel
        PROVE  \/ state'[ch] = state[ch] /\ armedFor'[ch] = armedFor[ch] /\ promised'[ch] = promised[ch]
               \/ state'[ch] = "Idle" /\ armedFor'[ch] = None /\ ~promised'[ch]
    <3>1. CASE ch = scan[c]
      BY <2>1, <3>1, StoreIdleWrites
    <3>2. CASE ch # scan[c]
      BY <2>1, <3>2, StoreIdleWrites
    <3> QED BY <3>1, <3>2
  <2> QED BY <2>2, <2>3, PromisedFrame
<1>10. ASSUME NEW c \in Callers, NEW a \in Channel, NEW b \in Channel \cup {None}, a # b,
              BeginStartGroup(c, a, b)
       PROVE  PromisedInv'
  BY <1>10 DEF BeginStartGroup, PromisedInv, StartedWasPromised
<1>11. ASSUME NEW c \in Callers, RefuseStart(c)
       PROVE  PromisedInv'
  BY <1>11, Moves DEF RefuseStart, PromisedInv, StartedWasPromised
<1>12. ASSUME NEW c \in Callers, Reserve(c)
       PROVE  PromisedInv'
  BY <1>12 DEF Reserve, PromisedInv, StartedWasPromised
<1>13. ASSUME NEW c \in Callers, Arm(c)
       PROVE  PromisedInv'
  <2> DEFINE x == Least(Ids(c) \ armed[c])
  <2>1. x \in Channel /\ req[c] \in Request /\ HeldBy(c, req[c]) /\ state[x] = "Ready" /\ armedFor[x] = None
    BY <1>13 DEF Arm, HeldBy, Fit, CallsFit, CallFits, HeldPoint
  <2>2. UNCHANGED <<state, promised, committed, members, taken, mpc, todo>>
    BY <1>13 DEF Arm
  <2>3. armedFor' = [armedFor EXCEPT ![x] = req[c]]
    BY <1>13 DEF Arm
  <2> HIDE DEF x
  <2>4. req[c] \notin committed \cup taken
    BY <2>1 DEF HeldApart
  <2>5. taken # {} => req[c] # Least(taken)
    BY <2>4
  <2>6. ~promised[x]
    BY <2>1, Indices DEF PromisedInv, Fit, TypeOK, StartsTyped, MixerTyped
  <2>7. ASSUME NEW ch \in Channel
        PROVE  \/ state'[ch] = state[ch] /\ armedFor'[ch] = armedFor[ch] /\ promised'[ch] = promised[ch]
               \/ /\ state'[ch] = "Ready" /\ armedFor'[ch] \notin committed \cup taken /\ ~promised'[ch]
                  /\ taken # {} => armedFor'[ch] # Least(taken)
    BY <2>1, <2>2, <2>3, <2>4, <2>5, <2>6 DEF Fit, TypeOK, ChannelsTyped
  <2> QED BY <2>2, <2>7, PromisedFrame
<1>14. ASSUME NEW c \in Callers, ArmRefused(c)
       PROVE  PromisedInv'
  BY <1>14 DEF ArmRefused, PromisedInv, StartedWasPromised
<1>15. ASSUME NEW c \in Callers, Disarm(c)
       PROVE  PromisedInv'
  <2> DEFINE x == Least(armed[c])
  <2>1. x \in Channel /\ req[c] \in Request /\ HeldBy(c, req[c])
    BY <1>15 DEF Disarm, HeldBy, Fit, CallsFit, CallFits, HeldPoint
  <2>2. /\ UNCHANGED <<state, promised, committed, members, taken, mpc, todo>>
        /\ \/ UNCHANGED armedFor
           \/ /\ state[x] = "Ready" /\ armedFor[x] = req[c]
              /\ armedFor' = [armedFor EXCEPT ![x] = None]
    BY <1>15 DEF Disarm, IsArmedFor
  <2> HIDE DEF x
  <2>3. req[c] \notin committed \cup taken
    BY <2>1 DEF HeldApart
  <2>4. armedFor[x] = req[c] /\ state[x] = "Ready" => ~promised[x]
    BY <2>1, <2>3 DEF PromisedInv
  <2>5. None \notin committed \cup taken /\ (taken # {} => None # Least(taken))
    BY Indices DEF Fit, TypeOK, StartsTyped, MixerTyped
  <2>6. ASSUME NEW ch \in Channel
        PROVE  \/ state'[ch] = state[ch] /\ armedFor'[ch] = armedFor[ch] /\ promised'[ch] = promised[ch]
               \/ /\ state'[ch] = "Ready" /\ armedFor'[ch] \notin committed \cup taken /\ ~promised'[ch]
                  /\ taken # {} => armedFor'[ch] # Least(taken)
    BY <2>1, <2>2, <2>4, <2>5 DEF Fit, TypeOK, ChannelsTyped
  <2> QED BY <2>2, <2>6, PromisedFrame
<1>16. ASSUME NEW c \in Callers, ReleaseRequest(c)
       PROVE  PromisedInv'
  BY <1>16, Moves DEF ReleaseRequest, PromisedInv, StartedWasPromised
<1>17. ASSUME NEW c \in Callers, WriteMembers(c)
       PROVE  PromisedInv'
  BY <1>17 DEF WriteMembers, Goto, PromisedInv, StartedWasPromised, HeldApart, HeldBy
<1>18. ASSUME NEW c \in Callers, Commit(c)
       PROVE  PromisedInv'
  <2>1. req[c] \in Request /\ HeldBy(c, req[c]) /\ pc[c] = "commit"
    BY <1>18 DEF Commit, HeldBy, Fit, CallsFit, CallFits, HeldPoint
  <2>2. UNCHANGED <<state, armedFor, members, taken, mpc, todo>> /\ committed' = committed \cup {req[c]}
    BY <1>18 DEF Commit
  <2>3. \A ch \in Channel : promised'[ch] <=> promised[ch] \/ ch \in enlisted[req[c]]
    BY <1>18 DEF Commit
  <2>4. req[c] \in inUse \ taken
    BY <2>1 DEF HeldApart
  <2>5. ASSUME NEW ch \in Channel, NEW r \in Request, armedFor'[ch] = r, r \in committed' \cup taken'
        PROVE  promised'[ch] /\ ch \in members'[r]
    <3>1. CASE r = req[c]
      <4>1. ch \in enlisted[r] /\ ch \in armed[c] /\ members[r] = Ids(c)
        BY <2>1, <2>2, <2>5, <3>1 DEF ArmedInv
      <4>2. armed[c] \subseteq Ids(c)
        <5>1. CallFits(c)
          BY DEF Fit, CallsFit
        <5> QED BY <2>1, <5>1 DEF CallFits, HeldPoint
      <4>3. promised'[ch]
        BY <2>3, <3>1, <4>1
      <4>4. ch \in members'[r]
        BY <2>2, <4>1, <4>2
      <4> QED BY <4>3, <4>4
    <3>2. CASE r # req[c]
      BY <2>2, <2>3, <2>5, <3>2 DEF PromisedInv
    <3> QED BY <3>1, <3>2
  <2>6. mpc' = "start" => \A ch \in Channel : armedFor'[ch] = Least(taken') => ch \in todo'
    BY <2>2 DEF PromisedInv
  <2>7. ASSUME NEW ch \in Channel, promised'[ch]
        PROVE  /\ state'[ch] \notin {"Idle", "Loading"}
               /\ state'[ch] = "Ready" => armedFor'[ch] \in committed' \cup taken'
    <3>1. CASE promised[ch]
      BY <2>2, <3>1 DEF PromisedInv
    <3>2. CASE ch \in enlisted[req[c]]
      BY <2>1, <2>2, <3>2 DEF EnlistedInv
    <3> QED BY <2>3, <2>7, <3>1, <3>2
  <2>8. StartedWasPromised'
    BY <2>2, <2>3 DEF PromisedInv, StartedWasPromised
  <2> QED BY <2>5, <2>6, <2>7, <2>8 DEF PromisedInv
<1>19. ASSUME NEW c \in Callers, NEW ch \in Channel, BeginStop(c, ch)
       PROVE  PromisedInv'
  BY <1>19 DEF BeginStop, PromisedInv, StartedWasPromised
<1>20. ASSUME NEW c \in Callers, StopLook(c)
       PROVE  PromisedInv'
  BY <1>20, Moves DEF StopLook, PromisedInv, StartedWasPromised
<1>21. ASSUME NEW c \in Callers, StopTry(c)
       PROVE  PromisedInv'
  <2>1. UNCHANGED <<promised, committed, members, taken, mpc, todo>>
    BY <1>21 DEF StopTry
  <2>2. ASSUME NEW ch \in Channel
        PROVE  \/ state'[ch] = state[ch] /\ armedFor'[ch] = armedFor[ch]
               \/ state[ch] = "Ready" /\ state'[ch] = "Closing" /\ armedFor'[ch] = None
               \/ state[ch] = "Active" /\ state'[ch] = "Stopping" /\ armedFor'[ch] = None
    BY <1>21, StopWrites DEF StopWrote
  <2> QED BY <2>1, <2>2, PromisedFrame
<1>22. ASSUME MixExchange PROVE PromisedInv'
  BY <1>22 DEF MixExchange, NextRequest, PromisedInv, StartedWasPromised, Fit, MixerFits
<1>23. ASSUME MixRun PROVE PromisedInv'
  BY <1>23 DEF MixRun, PromisedInv, StartedWasPromised, Fit, MixerFits
<1>24. ASSUME MixStart PROVE PromisedInv'
  <2> DEFINE r == Least(taken)
           x == Least(todo)
  <2>1. r \in taken /\ r \in Request /\ x \in todo /\ x \in Channel /\ mpc = "start"
    BY <1>24 DEF MixStart, Fit, MixerFits
  <2>2. UNCHANGED <<promised, committed, members, taken, mpc>> /\ todo' = todo \ {x}
    BY <1>24 DEF MixStart
  <2>3. ASSUME NEW ch \in Channel
        PROVE  /\ \/ state'[ch] = state[ch] /\ armedFor'[ch] = armedFor[ch]
                  \/ /\ ch = x /\ state[ch] = "Ready" /\ armedFor[ch] = r
                     /\ state'[ch] = "Active" /\ armedFor'[ch] = None
               /\ ~(ch = x /\ state'[ch] = "Ready" /\ armedFor'[ch] = r)
    BY <1>24, StartWrites
  <2>4. \A ch \in Channel : armedFor[ch] = r => promised[ch] /\ ch \in todo /\ state[ch] = "Ready"
    BY <2>1 DEF PromisedInv, ArmedInv
  <2> HIDE DEF r, x
  <2>5. ASSUME NEW ch \in Channel, NEW q \in Request, armedFor'[ch] = q, q \in committed' \cup taken'
        PROVE  promised'[ch] /\ ch \in members'[q]
    <3>1. armedFor[ch] = q
      BY <2>3, <2>5, Indices
    <3> QED BY <2>2, <2>5, <3>1 DEF PromisedInv
  <2>6. ASSUME NEW ch \in Channel, armedFor'[ch] = r
        PROVE  ch \in todo'
    <3>1. armedFor[ch] = r /\ state'[ch] = state[ch]
      BY <2>1, <2>3, <2>6, Indices
    <3> QED BY <2>2, <2>3, <2>4, <2>6, <3>1
  <2>7. ASSUME NEW ch \in Channel, promised'[ch]
        PROVE  /\ state'[ch] \notin {"Idle", "Loading"}
               /\ state'[ch] = "Ready" => armedFor'[ch] \in committed' \cup taken'
    BY <2>2, <2>3, <2>7 DEF PromisedInv
  <2>8. ASSUME NEW ch \in Channel, state'[ch] \in Mixable
        PROVE  promised'[ch]
    BY <2>2, <2>3, <2>4, <2>8 DEF PromisedInv, StartedWasPromised
  <2>9. mpc' = "start" => \A ch \in Channel : armedFor'[ch] = Least(taken') => ch \in todo'
    BY <2>2, <2>6 DEF r
  <2>10. StartedWasPromised'
    BY <2>8 DEF StartedWasPromised, Mixable
  <2> QED BY <2>5, <2>7, <2>9, <2>10 DEF PromisedInv
<1>25. ASSUME MixFree PROVE PromisedInv'
  BY <1>25 DEF MixFree, NextRequest, PromisedInv, StartedWasPromised
<1>26. ASSUME MixBegin PROVE PromisedInv'
  BY <1>26 DEF MixBegin, PromisedInv, StartedWasPromised
<1>27. ASSUME MixSamples PROVE PromisedInv'
  BY <1>27 DEF MixSamples, PromisedInv, StartedWasPromised
<1>28. ASSUME NEW ended \in BOOLEAN, MixEnd(ended)
       PROVE  PromisedInv'
  BY <1>28 DEF MixEnd, Transition, SetState, PromisedInv, StartedWasPromised, Fit, TypeOK,
    ChannelsTyped, CallsTyped, OwnerInv, SingleOwner, LoadingAt, ArmedInv, Mixable
<1>29. ASSUME MixWrite PROVE PromisedInv'
  BY <1>29 DEF MixWrite, PromisedInv, StartedWasPromised
<1>30. ASSUME NEW r \in Reader, NEW ch \in Channel, CloseRelease(r, ch)
       PROVE  PromisedInv'
  BY <1>30 DEF CloseRelease, PromisedInv, StartedWasPromised
<1>31. ASSUME NEW r \in Reader, CloseIdle(r)
       PROVE  PromisedInv'
  <2>1. at[r] \in Channel /\ StoreIdle(at[r])
    BY <1>31 DEF CloseIdle, Fit, TypeOK, ReadersTyped
  <2>2. UNCHANGED <<committed, members, taken, mpc, todo>>
    BY <1>31 DEF CloseIdle
  <2>3. ASSUME NEW ch \in Channel
        PROVE  \/ state'[ch] = state[ch] /\ armedFor'[ch] = armedFor[ch] /\ promised'[ch] = promised[ch]
               \/ state'[ch] = "Idle" /\ armedFor'[ch] = None /\ ~promised'[ch]
    <3>1. CASE ch = at[r]
      BY <2>1, <3>1, StoreIdleWrites
    <3>2. CASE ch # at[r]
      BY <2>1, <3>2, StoreIdleWrites
    <3> QED BY <3>1, <3>2
  <2> QED BY <2>2, <2>3, PromisedFrame
<1>32. ASSUME NEW r \in Reader, NEW ch \in Channel, PickRefill(r, ch)
       PROVE  PromisedInv'
  BY <1>32 DEF PickRefill, PromisedInv, StartedWasPromised
<1>33. ASSUME NEW r \in Reader, NEW ended \in BOOLEAN, Refill(r, ended)
       PROVE  PromisedInv'
  BY <1>33 DEF Refill, PromisedInv, StartedWasPromised
<1>34. ASSUME UNCHANGED vars PROVE PromisedInv'
  BY <1>34 DEF vars, PromisedInv, StartedWasPromised
<1> QED
  BY <1>1, <1>2, <1>3, <1>4, <1>5, <1>6, <1>7, <1>8, <1>9, <1>10, <1>11, <1>12, <1>13, <1>14,
     <1>15, <1>16, <1>17, <1>18, <1>19, <1>20, <1>21, <1>22, <1>23, <1>24, <1>25, <1>26, <1>27,
     <1>28, <1>29, <1>30, <1>31, <1>32, <1>33, <1>34
  DEF Next, Begin, Call, Prepare, StartGroup, Stop, Mixer, Close, RefillPass

-----------------------------------------------------------------------------
\* What the requests, the armed channels and the promises have in common.
THEOREM StartsAlways == Spec => [](ArmedInv /\ EnlistedInv /\ PromisedInv)
<1>1. Init => ArmedInv /\ EnlistedInv /\ PromisedInv
  BY Indices DEF Init, ArmedInv, EnlistedInv, PromisedInv, StartedWasPromised, Mixable, HeldBy
<1> QED BY <1>1, FitAlways, OwnerAlways, HeldApartAlways, ArmedInvStep, EnlistedInvStep,
           PromisedInvStep, PTL DEF Spec

\* Nothing is started that no startGroup() promised: StartedWasPromised always holds.
THEOREM StartedWasPromisedAlways == Spec => []StartedWasPromised
<1>1. PromisedInv => StartedWasPromised
  BY DEF PromisedInv
<1> QED BY <1>1, StartsAlways, PTL

\* No promised start is lost: PromiseKept always holds.
THEOREM PromiseKeptAlways == Spec => []PromiseKept
<1>1. Fit /\ PromisedInv => PromiseKept
  BY DEF PromisedInv, PromiseKept, Fit, TypeOK, StartsTyped, MixerTyped
<1> QED BY <1>1, FitAlways, StartsAlways, PTL

\* The members of a group become audible in one mixer cycle: GroupStartsTogether always holds.
THEOREM GroupStartsTogetherAlways == Spec => []GroupStartsTogether
<1>1. Fit /\ ArmedInv /\ EnlistedInv => GroupStartsTogether
  BY DEF ArmedInv, EnlistedInv, GroupStartsTogether, Fit, TypeOK, MixerFits, HistoryTyped
<1> QED BY <1>1, FitAlways, StartsAlways, PTL
=============================================================================
