------------------------ MODULE ProfileSwitchProofs ------------------------
(***************************************************************************)
(* Proofs about ProfileSwitch, for every number of profiles and of         *)
(* switches.  HandInv follows an effect set from the manager to the bus    *)
(* and back, PendInv the request from the bus to the manager, and PowerInv *)
(* says what the power state of the active set allows: it keeps the bus    *)
(* from asking for a switch, or for a preload, that is not its own.        *)
(***************************************************************************)
EXTENDS ProfileSwitch, TLAPS

-----------------------------------------------------------------------------
(* The invariant.                                                          *)

\* The points of a switch on profile_ctrl.
InSwitch == {"build", "preload", "stage", "await", "destroy", "finish"}

\* No switch is under way: one set, with the newest preload.
Quiet ==
  /\ active = requested /\ activePower = active
  /\ staged = 0 /\ retired = 0 /\ previous = 0 /\ owned = 0

\* The bus still runs the set that is to be replaced ...
OldRuns ==
  /\ activePower = active /\ retired = 0 /\ previous = 0
  /\ power[activePower] = "Switching"

\* ... or already the new one, whose preload is the newest.
NewRuns ==
  /\ active = requested /\ staged = 0

\* Where the sets are at each point of the manager.
HandInv ==
  /\ mpc # "asserted"
  /\ mpc \notin InSwitch \ {"build"} => Quiet
  /\ mpc = "preload" =>
       OldRuns /\ staged = 0 /\ active = requested /\ built = requested + 1 /\ owned = built
  /\ mpc = "stage" =>
       OldRuns /\ staged = 0 /\ active + 1 = requested /\ built = requested /\ owned = built
  /\ mpc = "await" =>
       /\ owned = 0 /\ built = requested
       /\ activePower + 1 = requested /\ power[activePower] = "Switching"
       /\ \/ OldRuns /\ staged = built
          \/ NewRuns /\ bpc = "retire" /\ previous = activePower /\ retired = 0
          \/ NewRuns /\ previous = 0 /\ retired = activePower
  /\ mpc = "destroy" =>
       /\ NewRuns /\ built = requested /\ retired = 0 /\ previous = 0
       /\ owned = activePower
       /\ activePower + 1 = requested /\ power[activePower] = "Switching"
  /\ mpc = "finish" =>
       NewRuns /\ built = requested /\ retired = 0 /\ previous = 0 /\ owned = 0

\* A switch is posted, taken up and performed one at a time, and its set is locked in
\* Switching until then.
PendInv ==
  /\ switchRequested => switchPending /\ mpc \notin InSwitch
  /\ mpc \in InSwitch => switchPending
  /\ bpc = "post" => ~switchPending
  /\ bpc = "postRequest" => switchPending /\ ~switchRequested /\ mpc \notin InSwitch
  /\ bpc = "retire" => previous # 0
  /\ switchRequested \/ mpc = "build" \/ bpc \in {"post", "postRequest"} =>
       power[active] = "Switching" /\ requested < MaxGeneration

\* A set is locked until it runs, and while it waits for its preload no other is requested.
PowerInv ==
  /\ \A s \in Set : s > active => power[s] = "Locked"
  /\ bpc = "answer" =>
       power[active] = "Locked" /\ status["bus"] = "asked" /\ about["bus"] = requested
  /\ UnlockedHasItsHum

Inv == HandInv /\ PendInv /\ PowerInv
-----------------------------------------------------------------------------
(* Types.  A staged set is one of Set only because HandInv holds.          *)

\* The next profile is one of the list.
LEMMA NextIndex ==
  ASSUME NEW i \in 0 .. Profiles - 1
  PROVE  (i + 1) % Profiles \in 0 .. Profiles - 1
BY SwitchAssumption, SMT

\* The sets, the request flags and the save, which TypeStep treats one by one.
ServiceOK ==
  /\ requested \in Set /\ outcome \in {"Pending", "Ready", "Failed"}
  /\ status \in [{"bus", "manager"} -> {"Pending", "Ready", "Failed", "asked"}]
  /\ about \in [{"bus", "manager"} -> Nat]

FlagsOK ==
  /\ switchPending \in BOOLEAN /\ switchRequested \in BOOLEAN
  /\ handle \in BOOLEAN /\ notified \in BOOLEAN
  /\ armed \in BOOLEAN /\ waiting \in BOOLEAN /\ due \in BOOLEAN

SetsOK ==
  /\ power \in [Set -> PowerState]
  /\ active \in Set /\ staged \in Set \cup {0} /\ retired \in Set \cup {0}
  /\ bpc \in BusPoint /\ previous \in Set \cup {0} /\ clicks \in 0 .. 3
  /\ mpc \in ManagerPoint /\ built \in Nat /\ owned \in Nat
  /\ activePower \in Set

IndexOK ==
  /\ activeIndex \in 0 .. Profiles - 1
  /\ savedIndex \in 0 .. Profiles - 1 \cup {None}

\* TypeOK, grouped by what the steps change together.
LEMMA TypeParts == TypeOK <=> ServiceOK /\ FlagsOK /\ SetsOK /\ IndexOK
BY Zenon DEF TypeOK, ServiceOK, FlagsOK, SetsOK, IndexOK, Cache!Outcome

\* The types hold when both tasks begin.
LEMMA TypeInit == Init => TypeOK
<1> SUFFICES ASSUME Init PROVE TypeOK
  OBVIOUS
<1> USE SwitchAssumption DEF Init, Set
<1>1. FlagsOK
  BY Zenon DEF FlagsOK
<1>2. ServiceOK /\ SetsOK /\ IndexOK
  BY DEF ServiceOK, SetsOK, IndexOK, BusPoint, ManagerPoint, PowerState
<1> QED BY <1>1, <1>2, TypeParts

\* A flag that is read and written at once is more than SMT can type, so it has a step of
\* its own.
LEMMA TypeStep == TypeOK /\ HandInv /\ [Next]_vars => TypeOK'
<1> SUFFICES ASSUME TypeOK, HandInv, [Next]_vars PROVE TypeOK'
  OBVIOUS
<1> USE SwitchAssumption, NextIndex
    DEF TypeOK, Set, BusPoint, ManagerPoint, PowerState, SetPower, Continue,
        serviceVars, setVars, busVars, requestVars, workVars, indexVars, saveVars, managerVars,
        Cache!Outcome, Cache!Ask, Cache!Tell, Cache!Request, Cache!Decide
<1>1. CASE UNCHANGED vars
  BY <1>1 DEF vars
<1>2. CASE SkipCommit
  BY <1>2 DEF SkipCommit
<1>3. CASE Commit
  BY <1>3 DEF Commit
<1>4. CASE Retire
  BY <1>4 DEF Retire
<1>5. CASE Drain
  BY <1>5 DEF Drain
<1>6. CASE NoCycle
  BY <1>6 DEF NoCycle
<1>7. CASE WaitPreload
  BY <1>7 DEF WaitPreload
<1>8. CASE Unlock
  BY <1>8 DEF Unlock
<1>9. CASE Toggle
  BY <1>9 DEF Toggle
<1>10. CASE Cycle
  BY <1>10 DEF Cycle
<1>11. CASE PostPending
  <2>1. FlagsOK'
    BY <1>11, Zenon DEF PostPending, FlagsOK
  <2>2. ServiceOK'
    BY <1>11 DEF PostPending, ServiceOK
  <2>3. SetsOK'
    BY <1>11 DEF PostPending, SetsOK
  <2>4. IndexOK'
    BY <1>11 DEF PostPending, IndexOK
  <2> QED BY <2>1, <2>2, <2>3, <2>4 DEF FlagsOK, ServiceOK, SetsOK, IndexOK
<1>12. CASE PostRequest
  BY <1>12 DEF PostRequest
<1>13. CASE PostNotify
  BY <1>13 DEF PostNotify
<1>14. CASE PublishHandle
  BY <1>14 DEF PublishHandle
<1>15. CASE BuildEffects
  BY <1>15 DEF BuildEffects
<1>16. CASE RequestPreload
  BY <1>16 DEF RequestPreload
<1>17. CASE TakeRequest
  <2>1. FlagsOK'
    BY <1>17, Zenon DEF TakeRequest, FlagsOK
  <2>2. ServiceOK'
    BY <1>17 DEF TakeRequest, ServiceOK
  <2>3. SetsOK'
    BY <1>17 DEF TakeRequest, SetsOK
  <2>4. IndexOK'
    BY <1>17 DEF TakeRequest, IndexOK
  <2> QED BY <2>1, <2>2, <2>3, <2>4 DEF FlagsOK, ServiceOK, SetsOK, IndexOK
<1>18. CASE Stage
  <2>1. FlagsOK'
    BY <1>18, Zenon DEF Stage, FlagsOK
  <2>2. ServiceOK'
    BY <1>18 DEF Stage, ServiceOK
  <2>3. SetsOK'
    BY <1>18 DEF Stage, SetsOK, HandInv
  <2>4. IndexOK'
    BY <1>18 DEF Stage, IndexOK
  <2> QED BY <2>1, <2>2, <2>3, <2>4 DEF FlagsOK, ServiceOK, SetsOK, IndexOK
<1>19. CASE TakeRetired
  BY <1>19 DEF TakeRetired
<1>20. CASE Destroy
  BY <1>20 DEF Destroy
<1>21. CASE Finish
  <2>1. FlagsOK'
    BY <1>21, Zenon DEF Finish, FlagsOK
  <2>2. ServiceOK'
    BY <1>21 DEF Finish, ServiceOK
  <2>3. SetsOK'
    BY <1>21 DEF Finish, SetsOK, HandInv
  <2>4. IndexOK'
    BY <1>21 DEF Finish, IndexOK
  <2> QED BY <2>1, <2>2, <2>3, <2>4 DEF FlagsOK, ServiceOK, SetsOK, IndexOK
<1>22. CASE ArmSave
  <2>1. FlagsOK'
    BY <1>22, Zenon DEF ArmSave, FlagsOK
  <2>2. ServiceOK'
    BY <1>22 DEF ArmSave, ServiceOK
  <2>3. SetsOK'
    BY <1>22 DEF ArmSave, SetsOK
  <2>4. IndexOK'
    BY <1>22 DEF ArmSave, IndexOK
  <2> QED BY <2>1, <2>2, <2>3, <2>4 DEF FlagsOK, ServiceOK, SetsOK, IndexOK
<1>23. CASE SaveNotDue
  BY <1>23 DEF SaveNotDue
<1>24. CASE AskPreload
  BY <1>24 DEF AskPreload
<1>25. CASE PreloadAnswer
  <2>1. FlagsOK'
    BY <1>25, Zenon DEF PreloadAnswer, FlagsOK
  <2>2. ServiceOK'
    BY <1>25 DEF PreloadAnswer, ServiceOK
  <2>3. SetsOK'
    BY <1>25 DEF PreloadAnswer, SetsOK
  <2>4. IndexOK'
    BY <1>25 DEF PreloadAnswer, IndexOK
  <2> QED BY <2>1, <2>2, <2>3, <2>4 DEF FlagsOK, ServiceOK, SetsOK, IndexOK
<1>26. CASE CheckIdle
  <2>1. FlagsOK'
    BY <1>26, Zenon DEF CheckIdle, FlagsOK
  <2>2. ServiceOK'
    BY <1>26 DEF CheckIdle, ServiceOK
  <2>3. SetsOK'
    BY <1>26 DEF CheckIdle, SetsOK
  <2>4. IndexOK'
    BY <1>26 DEF CheckIdle, IndexOK
  <2> QED BY <2>1, <2>2, <2>3, <2>4 DEF FlagsOK, ServiceOK, SetsOK, IndexOK
<1>27. CASE Write
  <2>1. FlagsOK'
    BY <1>27, Zenon DEF Write, FlagsOK
  <2>2. ServiceOK'
    BY <1>27 DEF Write, ServiceOK
  <2>3. SetsOK'
    BY <1>27 DEF Write, SetsOK
  <2>4. IndexOK'
    BY <1>27 DEF Write, IndexOK
  <2> QED BY <2>1, <2>2, <2>3, <2>4 DEF FlagsOK, ServiceOK, SetsOK, IndexOK
<1>28. CASE Wake
  <2>1. FlagsOK'
    BY <1>28, Zenon DEF Wake, FlagsOK
  <2>2. ServiceOK'
    BY <1>28 DEF Wake, ServiceOK
  <2>3. SetsOK'
    BY <1>28 DEF Wake, SetsOK
  <2>4. IndexOK'
    BY <1>28 DEF Wake, IndexOK
  <2> QED BY <2>1, <2>2, <2>3, <2>4 DEF FlagsOK, ServiceOK, SetsOK, IndexOK
<1>29. CASE StartReturns
  BY <1>29 DEF StartReturns
<1>30. CASE Elapse
  BY <1>30 DEF Elapse
<1>31. CASE Preload
  BY <1>31 DEF Preload
<1> QED
  BY <1>1, <1>2, <1>3, <1>4, <1>5, <1>6, <1>7, <1>8, <1>9, <1>10, <1>11,
     <1>12, <1>13, <1>14, <1>15, <1>16, <1>17, <1>18, <1>19, <1>20, <1>21, <1>22,
     <1>23, <1>24, <1>25, <1>26, <1>27, <1>28, <1>29, <1>30, <1>31
  DEF Next, Bus, Manager, Switching

-----------------------------------------------------------------------------
(* The invariant is kept.                                                  *)

\* Unlocking leaves every other set as it is.
LEMMA UnlockOthers ==
  ASSUME TypeOK, Unlock
  PROVE  active' = active /\ \A s \in Set : s # active => power'[s] = power[s]
BY DEF TypeOK, Unlock, SetPower, setVars

\* One cycle of the bus: Commit, Retire and Cycle are the steps that matter.
LEMMA BusStep ==
  ASSUME TypeOK, Inv, Bus
  PROVE  Inv'
<1> USE DEF TypeOK, Inv, InSwitch, Quiet, OldRuns, NewRuns, Set, PowerState, SetPower,
            Continue, Idle, UnlockedHasItsHum, Cache!Ask, Cache!Tell, Cache!Request, Cache!Decide,
            serviceVars, setVars, busVars, requestVars, workVars, indexVars, saveVars,
            managerVars, Cache!Outcome, HandInv, PendInv, PowerInv
<1>1. CASE SkipCommit
  BY <1>1 DEF SkipCommit
<1>2. CASE Commit
  <2>1. HandInv'
    BY <1>2 DEF Commit
  <2>2. PendInv'
    BY <1>2 DEF Commit
  <2>3. PowerInv'
    BY <1>2 DEF Commit
  <2> QED BY <2>1, <2>2, <2>3
<1>3. CASE Retire
  <2>1. HandInv'
    BY <1>3 DEF Retire
  <2>2. PendInv'
    BY <1>3 DEF Retire
  <2>3. PowerInv'
    BY <1>3 DEF Retire
  <2> QED BY <2>1, <2>2, <2>3
<1>4. CASE Drain
  BY <1>4 DEF Drain
<1>5. CASE WaitPreload
  BY <1>5 DEF WaitPreload
<1>6. CASE Unlock
  <2>1. HandInv' /\ PendInv'
    BY <1>6 DEF Unlock
  <2>2. status'["bus"] = outcome
    BY <1>6 DEF Unlock
  <2>3. PowerInv'
    <3>1. active' = active /\ \A s \in Set : s # active => power'[s] = power[s]
      BY <1>6, UnlockOthers
    <3>2. UnlockedHasItsHum'
      BY <1>6, <2>2 DEF Unlock
    <3> QED BY <1>6, <3>1, <3>2 DEF Unlock
  <2> QED BY <2>1, <2>3
<1>7. CASE Toggle
  <2>1. HandInv'
    BY <1>7 DEF Toggle
  <2>2. PendInv'
    BY <1>7 DEF Toggle
  <2>3. PowerInv'
    BY <1>7 DEF Toggle
  <2> QED BY <2>1, <2>2, <2>3
<1>8. CASE Cycle
  <2>1. HandInv'
    BY <1>8 DEF Cycle, WantsSwitch
  <2>2. PendInv'
    BY <1>8 DEF Cycle, WantsSwitch
  <2>3. PowerInv'
    BY <1>8 DEF Cycle, WantsSwitch
  <2> QED BY <2>1, <2>2, <2>3
<1>9. CASE NoCycle
  BY <1>9 DEF NoCycle, WantsSwitch
<1>10. CASE PostPending
  <2>1. HandInv'
    BY <1>10 DEF PostPending
  <2>2. PendInv'
    BY <1>10 DEF PostPending
  <2>3. PowerInv'
    BY <1>10 DEF PostPending
  <2> QED BY <2>1, <2>2, <2>3
<1>11. CASE PostRequest
  <2>1. HandInv'
    BY <1>11 DEF PostRequest
  <2>2. PendInv'
    BY <1>11 DEF PostRequest
  <2>3. PowerInv'
    BY <1>11 DEF PostRequest
  <2> QED BY <2>1, <2>2, <2>3
<1>12. CASE PostNotify
  BY <1>12 DEF PostNotify
<1> QED BY <1>1, <1>2, <1>3, <1>4, <1>5, <1>6, <1>7, <1>8, <1>9, <1>10, <1>11, <1>12 DEF Bus, Switching

\* profile_ctrl: only a switch in progress moves sets, and only while the bus is in Switching.
LEMMA ManagerStep ==
  ASSUME TypeOK, Inv, Manager
  PROVE  Inv'
<1> USE DEF TypeOK, Inv, InSwitch, Quiet, OldRuns, NewRuns, Set, PowerState, SetPower,
            Continue, Idle, UnlockedHasItsHum, Cache!Ask, Cache!Tell, Cache!Request, Cache!Decide,
            serviceVars, setVars, busVars, requestVars, workVars, indexVars, saveVars,
            managerVars, Cache!Outcome, HandInv, PendInv, PowerInv
<1>1. CASE PublishHandle
  BY <1>1 DEF PublishHandle
<1>2. CASE TakeRequest
  <2>1. HandInv'
    BY <1>2 DEF TakeRequest
  <2>2. PendInv'
    BY <1>2 DEF TakeRequest
  <2>3. PowerInv'
    BY <1>2 DEF TakeRequest
  <2> QED BY <2>1, <2>2, <2>3
<1>3. CASE BuildEffects
  BY <1>3 DEF BuildEffects
<1>4. CASE RequestPreload
  <2>1. HandInv'
    BY <1>4 DEF RequestPreload
  <2>2. PendInv'
    BY <1>4 DEF RequestPreload
  <2>3. PowerInv'
    BY <1>4 DEF RequestPreload
  <2> QED BY <2>1, <2>2, <2>3
<1>5. CASE Stage
  <2>1. HandInv'
    BY <1>5 DEF Stage
  <2>2. PendInv'
    BY <1>5 DEF Stage
  <2>3. PowerInv'
    BY <1>5 DEF Stage
  <2> QED BY <2>1, <2>2, <2>3
<1>6. CASE TakeRetired
  <2>1. HandInv'
    BY <1>6 DEF TakeRetired
  <2>2. PendInv'
    BY <1>6 DEF TakeRetired
  <2>3. PowerInv'
    BY <1>6 DEF TakeRetired
  <2> QED BY <2>1, <2>2, <2>3
<1>7. CASE Destroy
  BY <1>7 DEF Destroy
<1>8. CASE Finish
  <2>1. HandInv'
    BY <1>8 DEF Finish
  <2>2. PendInv'
    BY <1>8 DEF Finish
  <2>3. PowerInv'
    BY <1>8 DEF Finish
  <2> QED BY <2>1, <2>2, <2>3
<1>9. CASE ArmSave
  BY <1>9 DEF ArmSave
<1>10. CASE SaveNotDue
  BY <1>10 DEF SaveNotDue
<1>11. CASE AskPreload
  BY <1>11 DEF AskPreload
<1>12. CASE PreloadAnswer
  <2>1. /\ mpc' \in {"sleep", "check"} /\ mpc = "answer"
        /\ UNCHANGED <<requested, outcome, about, power, setVars, busVars, requestVars,
                       built, owned, activePower>>
        /\ status'["bus"] = status["bus"]
    BY <1>12 DEF PreloadAnswer
  <2>2. HandInv' /\ PendInv'
    BY <2>1
  <2>3. PowerInv'
    BY <2>1
  <2> QED BY <2>2, <2>3
<1>13. CASE CheckIdle
  BY <1>13 DEF CheckIdle
<1>14. CASE Write
  BY <1>14 DEF Write
<1>15. CASE Wake
  BY <1>15 DEF Wake
<1> QED
  BY <1>1, <1>2, <1>3, <1>4, <1>5, <1>6, <1>7, <1>8, <1>9, <1>10, <1>11, <1>12, <1>13, <1>14,
     <1>15
  DEF Manager, Switching

\* start(), the passing of time and the cache move no set and no request.
LEMMA OtherStep ==
  ASSUME TypeOK, Inv, StartReturns \/ Elapse \/ Preload
  PROVE  Inv'
<1> USE DEF TypeOK, Inv, InSwitch, Quiet, OldRuns, NewRuns, Set, PowerState, SetPower,
            Continue, Idle, UnlockedHasItsHum, Cache!Ask, Cache!Tell, Cache!Request, Cache!Decide,
            serviceVars, setVars, busVars, requestVars, workVars, indexVars, saveVars,
            managerVars, Cache!Outcome, HandInv, PendInv, PowerInv
<1>1. CASE StartReturns
  BY <1>1 DEF StartReturns
<1>2. CASE Elapse
  BY <1>2 DEF Elapse
<1>3. CASE Preload
  BY <1>3 DEF Preload
<1> QED BY <1>1, <1>2, <1>3 DEF Bus, Switching

\* At first the bus has its set, and nothing is requested.
LEMMA InvInit == Init => Inv
<1> SUFFICES ASSUME Init PROVE Inv
  OBVIOUS
<1>1. HandInv /\ PendInv
  BY DEF Init, HandInv, PendInv, Quiet, InSwitch
<1>2. PowerInv
  BY SwitchAssumption DEF Init, PowerInv, UnlockedHasItsHum, Set
<1> QED BY <1>1, <1>2 DEF Inv

\* The invariant is inductive, given the types.
LEMMA InvStep == TypeOK /\ Inv /\ [Next]_vars => Inv'
<1> SUFFICES ASSUME TypeOK, Inv, [Next]_vars PROVE Inv'
  OBVIOUS
<1>1. CASE UNCHANGED vars
  BY <1>1 DEF vars, serviceVars, setVars, busVars, requestVars, workVars, indexVars, saveVars,
              managerVars, Inv, HandInv, PendInv, PowerInv, Quiet, OldRuns, NewRuns,
              UnlockedHasItsHum
<1> QED BY <1>1, BusStep, ManagerStep, OtherStep DEF Next

\* So it holds in every state.
LEMMA InvAlways == Spec => [](TypeOK /\ Inv)
<1>1. Init => TypeOK /\ Inv
  BY TypeInit, InvInit
<1>2. TypeOK /\ Inv /\ [Next]_vars => (TypeOK /\ Inv)'
  BY TypeStep, InvStep DEF Inv
<1> QED BY <1>1, <1>2, PTL DEF Spec

-----------------------------------------------------------------------------
(* Results.                                                                *)

\* Every variable keeps its type, for any number of profiles and of switches.
THEOREM TypeCorrect == Spec => []TypeOK
BY InvAlways, PTL

\* An effect set is in one place only: what the manager destroys is neither run by the bus nor
\* in one of its mailboxes.
THEOREM SetHeldOnceAlways == Spec => []SetHeldOnce
<1>1. ASSUME TypeOK, Inv PROVE SetHeldOnce
  <2>1. /\ active \notin {0, staged, retired, previous, owned}
        /\ staged # 0 => staged \notin {retired, previous, owned}
        /\ retired # 0 => retired \notin {previous, owned}
        /\ previous # 0 => previous # owned
    BY <1>1 DEF TypeOK, Inv, HandInv, InSwitch, Quiet, OldRuns, NewRuns, Set, ManagerPoint
  <2>2. /\ DOMAIN Holders = 1 .. 5
        /\ Holders[1] = active /\ Holders[2] = staged /\ Holders[3] = retired
        /\ Holders[4] = previous /\ Holders[5] = owned
    BY DEF Holders
  <2> QED BY <2>1, <2>2 DEF SetHeldOnce
<1> QED BY <1>1, InvAlways, PTL

\* The assertions of performSwitch() never fail.
THEOREM AssertionsHoldAlways == Spec => []AssertionsHold
<1>1. Inv => AssertionsHold
  BY DEF Inv, HandInv, OldRuns, AssertionsHold
<1> QED BY <1>1, InvAlways, PTL

\* The delayed save looks at the power state of the set that runs.
THEOREM PowerIsAliveAlways == Spec => []PowerIsAlive
<1>1. Inv => PowerIsAlive
  BY DEF Inv, HandInv, InSwitch, Quiet, PowerIsAlive
<1> QED BY <1>1, InvAlways, PTL

\* The blade is lit, or may be, only when its own preload is the newest and has succeeded.
THEOREM UnlockedHasItsHumAlways == Spec => []UnlockedHasItsHum
<1>1. Inv => UnlockedHasItsHum
  BY DEF Inv, PowerInv
<1> QED BY <1>1, InvAlways, PTL
-----------------------------------------------------------------------------
(* The selector.                                                           *)

\* The manager begins as the selector does.
LEMMA SelectorInit == Init => Selector!Init
BY DEF Init, Selector!Init

\* PostPending posts, Finish advances, Write saves, and no other action touches what the
\* selector sees.
LEMMA SelectorStep == Inv /\ [Next]_vars => [Selector!Next]_(Selector!vars)
<1> SUFFICES ASSUME Inv, [Next]_vars PROVE [Selector!Next]_(Selector!vars)
  OBVIOUS
<1> DEFINE Seen == <<activeIndex, switchPending, savedIndex>>
<1> USE DEF serviceVars, setVars, busVars, requestVars, workVars, indexVars, saveVars,
            managerVars, Selector!vars
<1>1. CASE UNCHANGED vars
  BY <1>1 DEF vars
<1>2. CASE PostPending
  BY <1>2 DEF PostPending, Selector!Next, Selector!Post
<1>3. CASE Finish
  <2>1. switchPending
    BY <1>3 DEF Inv, PendInv, InSwitch, Finish
  <2> QED BY <1>3, <2>1 DEF Finish, Selector!Next, Selector!Advance
<1>4. CASE Write
  BY <1>4 DEF Write, Selector!Next, Selector!Save
<1>5. ASSUME Bus, ~PostPending PROVE UNCHANGED Seen
  BY <1>5 DEF Bus, SkipCommit, Commit, Retire, Drain, WaitPreload, Unlock, Toggle, Cycle,
              NoCycle, PostRequest, PostNotify
<1>6. ASSUME Manager, ~Finish, ~Write PROVE UNCHANGED Seen
  BY <1>6 DEF Manager, Switching, Continue, PublishHandle, TakeRequest, BuildEffects,
              RequestPreload, Stage, TakeRetired, Destroy, ArmSave, SaveNotDue, AskPreload,
              PreloadAnswer, CheckIdle, Wake
<1>7. ASSUME StartReturns \/ Elapse \/ Preload PROVE UNCHANGED Seen
  BY <1>7 DEF StartReturns, Elapse, Preload
<1> QED BY <1>1, <1>2, <1>3, <1>4, <1>5, <1>6, <1>7 DEF Next

\* Each switch that is posted advances the active profile by exactly one, none is posted while
\* one is pending, and what is saved is the active profile.
THEOREM SelectorImplemented == Spec => ImplementsSelector
<1>1. Init => Selector!Init
  BY SelectorInit
<1>2. Inv /\ [Next]_vars => [Selector!Next]_(Selector!vars)
  BY SelectorStep
<1>3. Spec => []Inv
  BY InvAlways, PTL
<1> QED BY <1>1, <1>2, <1>3, PTL DEF Spec, ImplementsSelector, Selector!Spec
=============================================================================
