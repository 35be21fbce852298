------------------------- MODULE AudioEngineProofs -------------------------
(***************************************************************************)
(* Proofs about AudioEngine, for every number of channels, requests and    *)
(* callers.  Fit is the type invariant with what each control point knows  *)
(* of the locals; the invariants that follow are each inductive relative   *)
(* to it.                                                                  *)
(***************************************************************************)
EXTENDS AudioEngine, TLAPS, WellFoundedInduction

-----------------------------------------------------------------------------
(* Indices.                                                                *)

\* The smallest index of a set is one of its members: what the scans "in index order" of
\* the engine rely on.
LEMMA LeastIn ==
  ASSUME NEW S \in SUBSET Nat, S # {}
  PROVE  Least(S) \in S /\ \A y \in S : Least(S) <= y
<1> DEFINE Before == OpToRel(<, Nat)
<1>1. IsWellFoundedOn(Before, Nat)
  BY NatLessThanWellFounded
<1>2. \A x, y \in Nat : y < x => <<y, x>> \in Before
  BY DEF OpToRel
<1>3. PICK x \in S : \A y \in S : ~ (<<y, x>> \in Before)
  <2> HIDE DEF Before
  <2> QED BY <1>1, WFMin
<1>4. \A y \in S : ~ (y < x)
  <2> HIDE DEF Before
  <2> QED BY <1>2, <1>3
<1>5. \A y \in S : x <= y
  BY <1>4
<1> QED BY <1>5 DEF Least

\* Channel ids and request numbers are natural numbers, and None is neither.
LEMMA Indices ==
  /\ 0 \in Channel /\ None \notin Channel /\ None \notin Request
  /\ Channel \subseteq Nat /\ Request \subseteq Nat
BY EngineAssumption DEF Channel, Request

-----------------------------------------------------------------------------
(* Types.                                                                  *)

\* The control points at which a call holds a start request.
HeldPoint == {"arm", "undo", "release", "members", "commit"}

\* What the control point of a call tells about its locals.
CallFits(c) ==
  /\ pc[c] \in HeldPoint \cup {"reserve", "stop1", "try1"} => first[c] \in Channel
  /\ pc[c] \in {"stop2", "try2"} => second[c] \in Channel
  /\ pc[c] \in HeldPoint => req[c] \in Request /\ armed[c] \subseteq Ids(c)
  /\ pc[c] = "arm" => armed[c] # Ids(c)
  /\ pc[c] = "undo" => armed[c] # {}
  /\ pc[c] \notin HeldPoint \ {"release"} => armed[c] = {}

CallsFit == \A c \in Callers : CallFits(c)

MixerFits == mpc \in {"run", "start"} <=> taken # {}

Fit == TypeOK /\ CallsFit /\ MixerFits

\* The elements the code visits next exist.
LEMMA Picks ==
  ASSUME Fit
  PROVE  /\ inUse # Request => Least(Request \ inUse) \in Request \ inUse
         /\ \A c \in Callers :
              /\ pc[c] = "arm" => /\ Least(Ids(c) \ armed[c]) \in Ids(c) \ armed[c]
                                 /\ Least(Ids(c) \ armed[c]) \in Channel
              /\ pc[c] = "undo" => /\ Least(armed[c]) \in armed[c]
                                  /\ Least(armed[c]) \in Channel
         /\ todo # {}  => Least(todo) \in todo /\ Least(todo) \in Channel
         /\ taken # {} => Least(taken) \in taken /\ Least(taken) \in Request
<1> USE Indices, LeastIn DEF Fit, TypeOK
<1>1. inUse # Request => Least(Request \ inUse) \in Request \ inUse
  BY DEF StartsTyped
<1>2. ASSUME NEW c \in Callers, pc[c] = "arm"
      PROVE  /\ Least(Ids(c) \ armed[c]) \in Ids(c) \ armed[c]
             /\ Least(Ids(c) \ armed[c]) \in Channel
  <2>1. Ids(c) \ armed[c] # {} /\ Ids(c) \subseteq Channel
    BY <1>2 DEF CallsTyped, CallsFit, CallFits, HeldPoint, Ids
  <2> QED BY <2>1
<1>3. ASSUME NEW c \in Callers, pc[c] = "undo"
      PROVE  Least(armed[c]) \in armed[c] /\ Least(armed[c]) \in Channel
  <2>1. armed[c] # {} /\ armed[c] \subseteq Channel
    BY <1>3 DEF CallsTyped, CallsFit, CallFits
  <2> QED BY <2>1
<1>4. /\ todo # {}  => Least(todo) \in todo /\ Least(todo) \in Channel
      /\ taken # {} => Least(taken) \in taken /\ Least(taken) \in Request
  BY DEF MixerTyped
<1> QED BY <1>1, <1>2, <1>3, <1>4

\* A channel whose word is set to a state keeps its types.
LEMMA SetStateTyped ==
  ASSUME ChannelsTyped, NEW ch \in Channel, NEW s \in State, SetState(ch, s), UNCHANGED dataVars
  PROVE  ChannelsTyped'
BY DEF ChannelsTyped, SetState, dataVars

\* So does one whose word is stored as Idle.
LEMMA StoreIdleTyped ==
  ASSUME ChannelsTyped, HistoryTyped, NEW ch \in Channel, StoreIdle(ch), UNCHANGED dataVars
  PROVE  ChannelsTyped' /\ HistoryTyped'
BY DEF ChannelsTyped, HistoryTyped, State, StoreIdle, Forget, Target, dataVars

\* A call that returns, or goes on after a part of it failed, leaves fitting locals.
LEMMA ReturnFits ==
  ASSUME CallsTyped, CallsFit, NEW c \in Callers, Return(c)
  PROVE  CallsTyped' /\ CallsFit'
BY Indices DEF CallsTyped, CallsFit, CallFits, Ids, HeldPoint, CallPoint, State, Return, Goto

\* A startGroup() that fails leaves a call that fits its control point: play() stops what it
\* prepared, a bare call returns.
LEMMA StartFailedFits ==
  ASSUME CallsTyped, CallsFit, NEW c \in Callers, pc[c] \in {"reserve", "release"}, StartFailed(c)
  PROVE  CallsTyped' /\ CallsFit'
<1>1. CASE goal[c] = "startGroup"
  BY <1>1, ReturnFits DEF StartFailed
<1>2. CASE goal[c] # "startGroup"
  BY <1>2, Indices DEF StartFailed, Goto, CallsTyped, CallsFit, CallFits, Ids, HeldPoint, CallPoint
<1> QED BY <1>1, <1>2

\* So does a prepare() that fails,
LEMMA PrepareFailedFits ==
  ASSUME CallsTyped, CallsFit, NEW c \in Callers, pc[c] \in {"claim", "free"}, PrepareFailed(c)
  PROVE  CallsTyped' /\ CallsFit'
<1>1. CASE first[c] = None
  BY <1>1, ReturnFits DEF PrepareFailed
<1>2. CASE first[c] # None
  BY <1>2, Indices DEF PrepareFailed, Goto, CallsTyped, CallsFit, CallFits, Ids, HeldPoint, CallPoint
<1> QED BY <1>1, <1>2

\* one that succeeds,
LEMMA PreparedFits ==
  ASSUME CallsTyped, CallsFit, NEW c \in Callers, pc[c] = "publish", NEW ch \in Channel, Prepared(c, ch)
  PROVE  CallsTyped' /\ CallsFit'
<1>1. CASE goal[c] = "prepare"
  BY <1>1, ReturnFits DEF Prepared
<1>2. CASE goal[c] # "prepare"
  BY <1>2, Indices DEF Prepared, Goto, CallsTyped, CallsFit, CallFits, Ids, HeldPoint, CallPoint
<1> QED BY <1>1, <1>2

\* and a stop, also as a part of a failed play().
LEMMA StopDoneFits ==
  ASSUME CallsTyped, CallsFit, NEW c \in Callers, pc[c] \in {"stop1", "try1", "stop2", "try2"}, StopDone(c)
  PROVE  CallsTyped' /\ CallsFit'
<1>1. CASE pc[c] \in {"stop1", "try1"} /\ second[c] # None
  BY <1>1, Indices DEF StopDone, Goto, locals, CallsTyped, CallsFit, CallFits, Ids, HeldPoint, CallPoint
<1>2. CASE ~(pc[c] \in {"stop1", "try1"} /\ second[c] # None)
  BY <1>2, ReturnFits DEF StopDone
<1> QED BY <1>1, <1>2

\* Fit is inductive.
LEMMA FitStep == Fit /\ [Next]_vars => Fit'
<1> SUFFICES ASSUME Fit, [Next]_vars PROVE Fit'
  OBVIOUS
<1> USE Indices, Picks
<1> USE DEF Fit, TypeOK, statusVars, dataVars, startVars, locals, mixVars, readVars, histVars
<1>1. ASSUME NEW c \in Callers, NEW g \in {"prepare", "play", "playLinked"}, BeginPrepare(c, g) PROVE Fit'
  <2>1. (CallsTyped /\ CallsFit)'
    BY <1>1, EngineAssumption DEF BeginPrepare, Goto, CallsTyped, CallsFit, Ids, HeldPoint, CallPoint, Goal, CallFits
  <2>2. (ChannelsTyped /\ StartsTyped /\ MixerTyped /\ MixerFits /\ ReadersTyped /\ HistoryTyped)'
    BY <1>1 DEF BeginPrepare, ChannelsTyped, StartsTyped, MixerTyped, MixerFits, ReadersTyped, HistoryTyped
  <2> QED BY <2>1, <2>2
<1>2. ASSUME NEW c \in Callers, Claim(c) PROVE Fit'
  <2>1. ChannelsTyped'
    BY <1>2 DEF Claim, SetState, Goto, ChannelsTyped, State, CallsTyped, ReadersTyped
  <2>2. (CallsTyped /\ CallsFit)'
    BY <1>2 DEF Claim, SetState, Goto, CallsTyped, CallsFit, Ids, HeldPoint, CallPoint, Goal, CallFits
  <2>3. (StartsTyped /\ MixerTyped /\ MixerFits /\ ReadersTyped /\ HistoryTyped)'
    BY <1>2 DEF Claim, StartsTyped, MixerTyped, MixerFits, ReadersTyped, HistoryTyped
  <2> QED BY <2>1, <2>2, <2>3
<1>3. ASSUME NEW c \in Callers, SkipBusy(c) PROVE Fit'
  <2>1. (CallsTyped /\ CallsFit)'
    BY <1>3 DEF SkipBusy, CallsTyped, CallsFit, Ids, HeldPoint, CallPoint, Goal, CallFits
  <2>2. (ChannelsTyped /\ StartsTyped /\ MixerTyped /\ MixerFits /\ ReadersTyped /\ HistoryTyped)'
    BY <1>3 DEF SkipBusy, ChannelsTyped, StartsTyped, MixerTyped, MixerFits, ReadersTyped, HistoryTyped
  <2> QED BY <2>1, <2>2
<1>4. ASSUME NEW c \in Callers, NoFreeChannel(c) PROVE Fit'
  <2>1. (CallsTyped /\ CallsFit)'
    BY <1>4, PrepareFailedFits DEF NoFreeChannel, CallsTyped
  <2>2. (ChannelsTyped /\ StartsTyped /\ MixerTyped /\ MixerFits /\ ReadersTyped /\ HistoryTyped)'
    BY <1>4 DEF NoFreeChannel, ChannelsTyped, StartsTyped, MixerTyped, MixerFits, ReadersTyped, HistoryTyped
  <2> QED BY <2>1, <2>2
<1>5. ASSUME NEW c \in Callers, NEW opened \in BOOLEAN, NEW ended \in BOOLEAN, OpenAndPrefill(c, opened, ended) PROVE Fit'
  <2>1. ChannelsTyped'
    BY <1>5, SMTT(20) DEF OpenAndPrefill, ReadFile, Goto, ChannelsTyped, State, CallsTyped, ReadersTyped
  <2>2. (CallsTyped /\ CallsFit)'
    BY <1>5 DEF OpenAndPrefill, ReadFile, Goto, CallsTyped, CallsFit, Ids, HeldPoint, CallPoint, Goal, CallFits
  <2>3. (StartsTyped /\ MixerTyped /\ MixerFits /\ ReadersTyped /\ HistoryTyped)'
    BY <1>5 DEF OpenAndPrefill, StartsTyped, MixerTyped, MixerFits, ReadersTyped, HistoryTyped
  <2> QED BY <2>1, <2>2, <2>3
<1>6. ASSUME NEW c \in Callers, NEW backed \in Backing, Publish(c, backed) PROVE Fit'
  <2>1. ChannelsTyped'
    BY <1>6, EngineAssumption DEF Publish, Prepared, Return, Goto, ChannelsTyped, State, CallsTyped, ReadersTyped
  <2>2. (CallsTyped /\ CallsFit)'
    BY <1>6, PreparedFits DEF Publish, CallsTyped
  <2>3. (StartsTyped /\ MixerTyped /\ MixerFits /\ ReadersTyped /\ HistoryTyped)'
    BY <1>6 DEF Publish, StartsTyped, MixerTyped, MixerFits, ReadersTyped, HistoryTyped
  <2> QED BY <2>1, <2>2, <2>3
<1>7. ASSUME NEW c \in Callers, PublishRefused(c) PROVE Fit'
  <2>1. (CallsTyped /\ CallsFit)'
    BY <1>7 DEF PublishRefused, Goto, CallsTyped, CallsFit, Ids, HeldPoint, CallPoint, Goal, CallFits
  <2>2. (ChannelsTyped /\ StartsTyped /\ MixerTyped /\ MixerFits /\ ReadersTyped /\ HistoryTyped)'
    BY <1>7 DEF PublishRefused, ChannelsTyped, StartsTyped, MixerTyped, MixerFits, ReadersTyped, HistoryTyped
  <2> QED BY <2>1, <2>2
<1>8. ASSUME NEW c \in Callers, AbortRelease(c) PROVE Fit'
  <2>1. ChannelsTyped'
    BY <1>8 DEF AbortRelease, ReleaseData, Goto, ChannelsTyped, State, CallsTyped, ReadersTyped
  <2>2. (CallsTyped /\ CallsFit)'
    BY <1>8 DEF AbortRelease, ReleaseData, Goto, CallsTyped, CallsFit, Ids, HeldPoint, CallPoint, Goal, CallFits
  <2>3. (StartsTyped /\ MixerTyped /\ MixerFits /\ ReadersTyped /\ HistoryTyped)'
    BY <1>8 DEF AbortRelease, StartsTyped, MixerTyped, MixerFits, ReadersTyped, HistoryTyped
  <2> QED BY <2>1, <2>2, <2>3
<1>9. ASSUME NEW c \in Callers, AbortIdle(c) PROVE Fit'
  <2>1. ChannelsTyped'
    BY <1>9 DEF AbortIdle, StoreIdle, Forget, Target, PrepareFailed, Return, Goto, ChannelsTyped, State, CallsTyped, ReadersTyped
  <2>2. (CallsTyped /\ CallsFit)'
    BY <1>9, PrepareFailedFits DEF AbortIdle, StoreIdle, Forget, Target, CallsTyped
  <2>3. HistoryTyped'
    BY <1>9 DEF AbortIdle, StoreIdle, Forget, Target, PrepareFailed, Return, Goto, HistoryTyped
  <2>4. (StartsTyped /\ MixerTyped /\ MixerFits /\ ReadersTyped)'
    BY <1>9 DEF AbortIdle, StartsTyped, MixerTyped, MixerFits, ReadersTyped
  <2> QED BY <2>1, <2>2, <2>3, <2>4
<1>10. ASSUME NEW c \in Callers, NEW a \in Channel, NEW b \in Channel \cup {None}, a # b, BeginStartGroup(c, a, b) PROVE Fit'
  <2>1. (CallsTyped /\ CallsFit)'
    BY <1>10 DEF BeginStartGroup, Goto, CallsTyped, CallsFit, Ids, HeldPoint, CallPoint, Goal, CallFits
  <2>2. (ChannelsTyped /\ StartsTyped /\ MixerTyped /\ MixerFits /\ ReadersTyped /\ HistoryTyped)'
    BY <1>10 DEF BeginStartGroup, ChannelsTyped, StartsTyped, MixerTyped, MixerFits, ReadersTyped, HistoryTyped
  <2> QED BY <2>1, <2>2
<1>11. ASSUME NEW c \in Callers, RefuseStart(c) PROVE Fit'
  <2>1. (CallsTyped /\ CallsFit)'
    BY <1>11, StartFailedFits DEF RefuseStart, CallsTyped
  <2>2. (ChannelsTyped /\ StartsTyped /\ MixerTyped /\ MixerFits /\ ReadersTyped /\ HistoryTyped)'
    BY <1>11 DEF RefuseStart, ChannelsTyped, StartsTyped, MixerTyped, MixerFits, ReadersTyped, HistoryTyped
  <2> QED BY <2>1, <2>2
<1>12. ASSUME NEW c \in Callers, Reserve(c) PROVE Fit'
  <2>1. StartsTyped'
    BY <1>12 DEF Reserve, Goto, StartsTyped
  <2>2. (CallsTyped /\ CallsFit)'
    <3>1. /\ Least(Request \ inUse) \in Request
          /\ first[c] \in Channel /\ armed[c] = {} /\ Ids(c) # {}
      BY <1>12, SMTT(20) DEF Reserve, CallsTyped, CallsFit, CallFits, HeldPoint, Ids
    <3>2. CallsTyped'
      BY <1>12, <3>1 DEF Reserve, Goto, CallsTyped, CallPoint
    <3>3. CallsFit'
      BY <1>12, <3>1 DEF Reserve, Goto, CallsTyped, CallsFit, CallFits, HeldPoint, Ids
    <3> QED BY <3>2, <3>3
  <2>3. HistoryTyped'
    BY <1>12 DEF Reserve, Goto, HistoryTyped, CallsTyped, CallsFit, CallFits, HeldPoint
  <2>4. (ChannelsTyped /\ MixerTyped /\ MixerFits /\ ReadersTyped)'
    BY <1>12 DEF Reserve, ChannelsTyped, MixerTyped, MixerFits, ReadersTyped
  <2> QED BY <2>1, <2>2, <2>3, <2>4
<1>13. ASSUME NEW c \in Callers, Arm(c) PROVE Fit'
  <2>1. ChannelsTyped'
    BY <1>13 DEF Arm, Goto, ChannelsTyped, State, CallsTyped, ReadersTyped
  <2>2. (CallsTyped /\ CallsFit)'
    BY <1>13 DEF Arm, Goto, CallsTyped, CallsFit, Ids, HeldPoint, CallPoint, Goal, CallFits
  <2>3. HistoryTyped'
    <3>1. req[c] \in Request /\ Least(Ids(c) \ armed[c]) \in Channel
      BY <1>13 DEF Arm, CallsFit, CallFits, HeldPoint
    <3> QED BY <1>13, <3>1 DEF Arm, HistoryTyped
  <2>4. (StartsTyped /\ MixerTyped /\ MixerFits /\ ReadersTyped)'
    BY <1>13 DEF Arm, StartsTyped, MixerTyped, MixerFits, ReadersTyped
  <2> QED BY <2>1, <2>2, <2>3, <2>4
<1>14. ASSUME NEW c \in Callers, ArmRefused(c) PROVE Fit'
  <2>1. (CallsTyped /\ CallsFit)'
    BY <1>14 DEF ArmRefused, Goto, CallsTyped, CallsFit, Ids, HeldPoint, CallPoint, Goal, CallFits
  <2>2. (ChannelsTyped /\ StartsTyped /\ MixerTyped /\ MixerFits /\ ReadersTyped /\ HistoryTyped)'
    BY <1>14 DEF ArmRefused, ChannelsTyped, StartsTyped, MixerTyped, MixerFits, ReadersTyped, HistoryTyped
  <2> QED BY <2>1, <2>2
<1>15. ASSUME NEW c \in Callers, Disarm(c) PROVE Fit'
  <2>1. ChannelsTyped'
    BY <1>15 DEF Disarm, IsArmedFor, Goto, ChannelsTyped, State, CallsTyped, ReadersTyped
  <2>2. (CallsTyped /\ CallsFit)'
    BY <1>15 DEF Disarm, IsArmedFor, Goto, CallsTyped, CallsFit, Ids, HeldPoint, CallPoint, Goal, CallFits
  <2>3. HistoryTyped'
    BY <1>15 DEF Disarm, IsArmedFor, Goto, HistoryTyped, CallsTyped, CallsFit, CallFits, HeldPoint
  <2>4. (StartsTyped /\ MixerTyped /\ MixerFits /\ ReadersTyped)'
    BY <1>15 DEF Disarm, StartsTyped, MixerTyped, MixerFits, ReadersTyped
  <2> QED BY <2>1, <2>2, <2>3, <2>4
<1>16. ASSUME NEW c \in Callers, ReleaseRequest(c) PROVE Fit'
  <2>1. StartsTyped'
    BY <1>16 DEF ReleaseRequest, StartFailed, Return, Goto, StartsTyped, CallsTyped, CallsFit, CallFits, HeldPoint, Ids
  <2>2. (CallsTyped /\ CallsFit)'
    BY <1>16, StartFailedFits DEF ReleaseRequest, CallsTyped
  <2>3. (ChannelsTyped /\ MixerTyped /\ MixerFits /\ ReadersTyped /\ HistoryTyped)'
    BY <1>16 DEF ReleaseRequest, ChannelsTyped, MixerTyped, MixerFits, ReadersTyped, HistoryTyped
  <2> QED BY <2>1, <2>2, <2>3
<1>17. ASSUME NEW c \in Callers, WriteMembers(c) PROVE Fit'
  <2>1. StartsTyped'
    BY <1>17 DEF WriteMembers, Goto, StartsTyped, CallsTyped, CallsFit, CallFits, HeldPoint, Ids
  <2>2. (CallsTyped /\ CallsFit)'
    BY <1>17 DEF WriteMembers, Goto, CallsTyped, CallsFit, Ids, HeldPoint, CallPoint, Goal, CallFits
  <2>3. (ChannelsTyped /\ MixerTyped /\ MixerFits /\ ReadersTyped /\ HistoryTyped)'
    BY <1>17 DEF WriteMembers, ChannelsTyped, MixerTyped, MixerFits, ReadersTyped, HistoryTyped
  <2> QED BY <2>1, <2>2, <2>3
<1>18. ASSUME NEW c \in Callers, Commit(c) PROVE Fit'
  <2>1. StartsTyped'
    <3>1. req[c] \in Request
      BY <1>18 DEF Commit, CallsFit, CallFits, HeldPoint
    <3> QED BY <1>18, <3>1 DEF Commit, StartsTyped
  <2>2. (CallsTyped /\ CallsFit)'
    BY <1>18, ReturnFits DEF Commit, CallsTyped
  <2>3. HistoryTyped'
    BY <1>18 DEF Commit, Return, Goto, HistoryTyped, CallsTyped, CallsFit, CallFits, HeldPoint
  <2>4. (ChannelsTyped /\ MixerTyped /\ MixerFits /\ ReadersTyped)'
    BY <1>18 DEF Commit, ChannelsTyped, MixerTyped, MixerFits, ReadersTyped
  <2> QED BY <2>1, <2>2, <2>3, <2>4
<1>19. ASSUME NEW c \in Callers, NEW ch \in Channel, BeginStop(c, ch) PROVE Fit'
  <2>1. (CallsTyped /\ CallsFit)'
    BY <1>19 DEF BeginStop, Goto, CallsTyped, CallsFit, Ids, HeldPoint, CallPoint, Goal, CallFits
  <2>2. (ChannelsTyped /\ StartsTyped /\ MixerTyped /\ MixerFits /\ ReadersTyped /\ HistoryTyped)'
    BY <1>19 DEF BeginStop, ChannelsTyped, StartsTyped, MixerTyped, MixerFits, ReadersTyped, HistoryTyped
  <2> QED BY <2>1, <2>2
<1>20. ASSUME NEW c \in Callers, StopLook(c) PROVE Fit'
  <2>1. (CallsTyped /\ CallsFit)'
    <3>1. CASE Stoppable(Target(c))
      <4>1. state[Target(c)] \in State
        BY <1>20, <3>1 DEF StopLook, Target, ChannelsTyped, CallsTyped, CallsFit, CallFits, HeldPoint
      <4> QED BY <1>20, <3>1, <4>1 DEF StopLook, Goto, CallsTyped, CallsFit, CallFits, HeldPoint, CallPoint, Ids
    <3>2. CASE ~Stoppable(Target(c))
      BY <1>20, <3>2, StopDoneFits DEF StopLook
    <3> QED BY <3>1, <3>2
  <2>2. HistoryTyped'
    BY <1>20 DEF StopLook, Stoppable, Target, StopDone, Return, Goto, HistoryTyped
  <2>3. (ChannelsTyped /\ StartsTyped /\ MixerTyped /\ MixerFits /\ ReadersTyped)'
    BY <1>20 DEF StopLook, ChannelsTyped, StartsTyped, MixerTyped, MixerFits, ReadersTyped
  <2> QED BY <2>1, <2>2, <2>3
<1>21. ASSUME NEW c \in Callers, StopTry(c) PROVE Fit'
  <2>1. ChannelsTyped'
    <3>1. Target(c) \in Channel
      BY <1>21 DEF StopTry, Target, CallsFit, CallFits, HeldPoint
    <3>2. CASE ~WillStop(c)
      BY <1>21, <3>2 DEF StopTry, ChannelsTyped
    <3>3. CASE WillStop(c) /\ state[Target(c)] = "Loading"
      BY <1>21, <3>1, <3>3 DEF StopTry, StopWord, ChannelsTyped
    <3>4. CASE WillStop(c) /\ state[Target(c)] \in {"Ready", "Active"}
      <4>1. \E s \in State : SetState(Target(c), s)
        BY <1>21, <3>4 DEF StopTry, StopWord, State
      <4> QED BY <1>21, <3>1, <4>1, SetStateTyped DEF StopTry
    <3> QED BY <3>2, <3>3, <3>4 DEF WillStop, Stoppable
  <2>2. (CallsTyped /\ CallsFit)'
    BY <1>21, StopDoneFits DEF StopTry, StopWord, SetState, WillStop, Stoppable, Target, Goto, CallsTyped
  <2>3. HistoryTyped'
    BY <1>21 DEF StopTry, StopWord, SetState, WillStop, Stoppable, Target, StopDone, Return, Goto, HistoryTyped
  <2>4. (StartsTyped /\ MixerTyped /\ MixerFits /\ ReadersTyped)'
    BY <1>21 DEF StopTry, StartsTyped, MixerTyped, MixerFits, ReadersTyped
  <2> QED BY <2>1, <2>2, <2>3, <2>4
<1>22. ASSUME MixExchange PROVE Fit'
  <2>1. StartsTyped'
    BY <1>22 DEF MixExchange, NextRequest, StartsTyped
  <2>2. (MixerTyped /\ MixerFits)'
    BY <1>22 DEF MixExchange, NextRequest, MixerTyped, MixerFits, StartsTyped
  <2>3. (ChannelsTyped /\ CallsTyped /\ CallsFit /\ ReadersTyped /\ HistoryTyped)'
    BY <1>22 DEF MixExchange, ChannelsTyped, CallsTyped, CallsFit, CallFits, Ids, ReadersTyped, HistoryTyped
  <2> QED BY <2>1, <2>2, <2>3
<1>23. ASSUME MixRun PROVE Fit'
  <2>1. (MixerTyped /\ MixerFits)'
    BY <1>23 DEF MixRun, MixerTyped, MixerFits, StartsTyped
  <2>2. (ChannelsTyped /\ StartsTyped /\ CallsTyped /\ CallsFit /\ ReadersTyped /\ HistoryTyped)'
    BY <1>23 DEF MixRun, ChannelsTyped, StartsTyped, CallsTyped, CallsFit, CallFits, Ids, ReadersTyped, HistoryTyped
  <2> QED BY <2>1, <2>2
<1>24. ASSUME MixStart PROVE Fit'
  <2>1. ChannelsTyped'
    BY <1>24 DEF MixStart, SetState, ChannelsTyped, State
  <2>2. (MixerTyped /\ MixerFits)'
    BY <1>24 DEF MixStart, SetState, MixerTyped, MixerFits
  <2>3. (StartsTyped /\ CallsTyped /\ CallsFit /\ ReadersTyped /\ HistoryTyped)'
    BY <1>24 DEF MixStart, StartsTyped, CallsTyped, CallsFit, CallFits, Ids, ReadersTyped, HistoryTyped
  <2> QED BY <2>1, <2>2, <2>3
<1>25. ASSUME MixFree PROVE Fit'
  <2>1. StartsTyped'
    BY <1>25 DEF MixFree, NextRequest, StartsTyped
  <2>2. (MixerTyped /\ MixerFits)'
    BY <1>25 DEF MixFree, NextRequest, MixerTyped, MixerFits
  <2>3. (ChannelsTyped /\ CallsTyped /\ CallsFit /\ ReadersTyped /\ HistoryTyped)'
    BY <1>25 DEF MixFree, ChannelsTyped, CallsTyped, CallsFit, CallFits, Ids, ReadersTyped, HistoryTyped
  <2> QED BY <2>1, <2>2, <2>3
<1>26. ASSUME MixBegin PROVE Fit'
  <2>1. (MixerTyped /\ MixerFits)'
    BY <1>26 DEF MixBegin, MixerTyped, MixerFits, ChannelsTyped, Mixable
  <2>2. (ChannelsTyped /\ StartsTyped /\ CallsTyped /\ CallsFit /\ ReadersTyped /\ HistoryTyped)'
    BY <1>26 DEF MixBegin, ChannelsTyped, StartsTyped, CallsTyped, CallsFit, CallFits, Ids, ReadersTyped, HistoryTyped
  <2> QED BY <2>1, <2>2
<1>27. ASSUME MixSamples PROVE Fit'
  <2>1. (MixerTyped /\ MixerFits)'
    BY <1>27 DEF MixSamples, MixerTyped, MixerFits
  <2>2. (ChannelsTyped /\ StartsTyped /\ CallsTyped /\ CallsFit /\ ReadersTyped /\ HistoryTyped)'
    BY <1>27 DEF MixSamples, ChannelsTyped, StartsTyped, CallsTyped, CallsFit, CallFits, Ids, ReadersTyped, HistoryTyped
  <2> QED BY <2>1, <2>2
<1>28. ASSUME NEW ended \in BOOLEAN, MixEnd(ended) PROVE Fit'
  <2>1. ChannelsTyped'
    BY <1>28 DEF MixEnd, Transition, SetState, ChannelsTyped, State
  <2>2. (MixerTyped /\ MixerFits)'
    BY <1>28 DEF MixEnd, Transition, SetState, MixerTyped, MixerFits
  <2>3. (StartsTyped /\ CallsTyped /\ CallsFit /\ ReadersTyped /\ HistoryTyped)'
    BY <1>28 DEF MixEnd, StartsTyped, CallsTyped, CallsFit, CallFits, Ids, ReadersTyped, HistoryTyped
  <2> QED BY <2>1, <2>2, <2>3
<1>29. ASSUME MixWrite PROVE Fit'
  <2>1. (MixerTyped /\ MixerFits)'
    BY <1>29 DEF MixWrite, MixerTyped, MixerFits
  <2>2. (ChannelsTyped /\ StartsTyped /\ CallsTyped /\ CallsFit /\ ReadersTyped /\ HistoryTyped)'
    BY <1>29 DEF MixWrite, ChannelsTyped, StartsTyped, CallsTyped, CallsFit, CallFits, Ids, ReadersTyped, HistoryTyped
  <2> QED BY <2>1, <2>2
<1>30. ASSUME NEW r \in Reader, NEW ch \in Channel, CloseRelease(r, ch) PROVE Fit'
  <2>1. ChannelsTyped'
    BY <1>30 DEF CloseRelease, ReleaseData, ReaderAt, ChannelsTyped, State, CallsTyped, ReadersTyped
  <2>2. ReadersTyped'
    BY <1>30 DEF CloseRelease, ReleaseData, ReaderAt, ReadersTyped
  <2>3. (StartsTyped /\ CallsTyped /\ CallsFit /\ MixerTyped /\ MixerFits /\ HistoryTyped)'
    BY <1>30 DEF CloseRelease, StartsTyped, CallsTyped, CallsFit, CallFits, Ids, MixerTyped, MixerFits, HistoryTyped
  <2> QED BY <2>1, <2>2, <2>3
<1>31. ASSUME NEW r \in Reader, CloseIdle(r) PROVE Fit'
  <2>1. ChannelsTyped'
    BY <1>31 DEF CloseIdle, StoreIdle, Forget, Target, ReaderAt, ChannelsTyped, State, CallsTyped, ReadersTyped
  <2>2. ReadersTyped'
    BY <1>31 DEF CloseIdle, StoreIdle, Forget, Target, ReaderAt, ReadersTyped
  <2>3. HistoryTyped'
    BY <1>31 DEF CloseIdle, StoreIdle, Forget, Target, ReaderAt, HistoryTyped
  <2>4. (StartsTyped /\ CallsTyped /\ CallsFit /\ MixerTyped /\ MixerFits)'
    BY <1>31 DEF CloseIdle, StartsTyped, CallsTyped, CallsFit, CallFits, Ids, MixerTyped, MixerFits
  <2> QED BY <2>1, <2>2, <2>3, <2>4
<1>32. ASSUME NEW r \in Reader, NEW ch \in Channel, PickRefill(r, ch) PROVE Fit'
  <2>1. ReadersTyped'
    BY <1>32 DEF PickRefill, IsOwnedBy, OwnerOf, ReaderAt, ReadersTyped
  <2>2. (ChannelsTyped /\ StartsTyped /\ CallsTyped /\ CallsFit /\ MixerTyped /\ MixerFits /\ HistoryTyped)'
    BY <1>32 DEF PickRefill, ChannelsTyped, StartsTyped, CallsTyped, CallsFit, CallFits, Ids, MixerTyped, MixerFits, HistoryTyped
  <2> QED BY <2>1, <2>2
<1>33. ASSUME NEW r \in Reader, NEW ended \in BOOLEAN, Refill(r, ended) PROVE Fit'
  <2>1. ChannelsTyped'
    <3>1. at[r] \in Channel
      BY DEF ReadersTyped
    <3> QED BY <1>33, <3>1, ZenonT(60) DEF Refill, ReadFile, ChannelsTyped
  <2>2. ReadersTyped'
    BY <1>33 DEF Refill, ReadFile, ReaderAt, ReadersTyped
  <2>3. (StartsTyped /\ CallsTyped /\ CallsFit /\ MixerTyped /\ MixerFits /\ HistoryTyped)'
    BY <1>33 DEF Refill, StartsTyped, CallsTyped, CallsFit, CallFits, Ids, MixerTyped, MixerFits, HistoryTyped
  <2> QED BY <2>1, <2>2, <2>3
<1>34. ASSUME UNCHANGED vars PROVE Fit'
  BY <1>34 DEF vars, ChannelsTyped, StartsTyped, CallsTyped, MixerTyped, ReadersTyped, HistoryTyped, CallsFit, CallFits, MixerFits, Ids
<1> QED
  BY <1>1, <1>2, <1>3, <1>4, <1>5, <1>6, <1>7, <1>8, <1>9, <1>10, <1>11, <1>12, <1>13, <1>14, <1>15, <1>16, <1>17, <1>18, <1>19, <1>20, <1>21, <1>22, <1>23, <1>24, <1>25, <1>26, <1>27, <1>28, <1>29, <1>30, <1>31, <1>32, <1>33, <1>34
  DEF Next, Begin, Call, Prepare, StartGroup, Stop, Mixer, Close, RefillPass

\* The engine begins with no call in progress and no start taken.
LEMMA FitInit == Init => Fit
BY Indices DEF Init, Fit, TypeOK, ChannelsTyped, StartsTyped, CallsTyped, MixerTyped, ReadersTyped, HistoryTyped,
  CallsFit, CallFits, MixerFits, Ids, HeldPoint, CallPoint, Goal, State, Reader

\* Every variable keeps its type and every control point its locals, whatever the number of
\* channels, requests and callers.
THEOREM FitAlways == Spec => []Fit
<1> QED BY FitInit, FitStep, PTL DEF Spec

\* TypeOK is an invariant of the engine.
THEOREM TypeCorrect == Spec => []TypeOK
<1>1. Fit => TypeOK
  BY DEF Fit
<1> QED BY <1>1, FitAlways, PTL
=============================================================================
