--------------------------- MODULE ProfileSwitch ---------------------------
(***************************************************************************)
(* The off-bus profile switch: the bus task (core/SaberActionBus.cpp) runs *)
(* the effects of the active set, whose power state machine locks,         *)
(* ignites, retracts and asks for a switch; the profile_ctrl task          *)
(* (profiles/ProfileManager.cpp) builds the next set, hands it to the bus, *)
(* destroys the set it replaces and saves the new index later.             *)
(*                                                                         *)
(* Each effect set is built together with one preload request, so a set is *)
(* known by the generation of its preload; 0 stands for no set.  The cache *)
(* is the service that PreloadCache implements.  Of an effect set only its *)
(* power state is kept, and of the packet of a bus cycle only the clicks   *)
(* of the main button.  Time is abstract: a sweep may or may not have run  *)
(* its length, and the save may or may not be due.                         *)
(*                                                                         *)
(* Boot is over when the behaviour begins: loadActive() has installed the  *)
(* first set, the bus runs, and profile_ctrl has been created but has not  *)
(* run yet.  Nobody stops the tasks.                                       *)
(***************************************************************************)
EXTENDS Integers

CONSTANTS
  Profiles,       \* number of profiles on the card
  MaxGeneration,  \* bound: number of effect sets built
  None            \* nothing saved yet

ASSUME SwitchAssumption ==
  /\ Profiles \in Nat \ {0}
  /\ MaxGeneration \in Nat \ {0}
  /\ None \notin Nat

Set == 1 .. MaxGeneration

VARIABLES
  requested, outcome, status, about,  \* the preload service
  power,                              \* power state of each set
  active, staged, retired,            \* the bus's set and its two mailboxes
  bpc, previous, clicks,              \* bus: control point, set being replaced, gesture of the cycle
  switchPending, switchRequested,     \* m_switchPending, m_switchRequested
  handle, notified,                   \* m_task is published; its notification
  mpc, built, owned,                  \* manager: control point, set being switched to, set it owns
  activePower, activeIndex,           \* the set m_activePower belongs to, m_activeIndex
  savedIndex, armed, waiting, due     \* m_savedIndex, m_saveArmed, m_saveWaitingForIdle, and
                                      \* whether m_saveDueUs has passed

serviceVars == <<requested, outcome, status, about>>
setVars     == <<active, staged, retired>>
busVars     == <<bpc, previous, clicks>>
requestVars == <<switchPending, switchRequested, handle, notified>>
workVars    == <<mpc, built, owned>>
indexVars   == <<activePower, activeIndex>>
saveVars    == <<savedIndex, armed, waiting, due>>
managerVars == <<workVars, indexVars, saveVars>>
vars == <<serviceVars, power, setVars, busVars, requestVars, managerVars>>

Cache == INSTANCE PreloadService WITH Watcher <- {"bus", "manager"}

Init ==
  /\ requested = 1 /\ outcome = "Pending"
  /\ status = [w \in {"bus", "manager"} |-> "Pending"]
  /\ about  = [w \in {"bus", "manager"} |-> 0]
  /\ power = [s \in Set |-> "Locked"]
  /\ active = 1 /\ staged = 0 /\ retired = 0
  /\ bpc = "top" /\ previous = 0 /\ clicks = 0
  /\ switchPending = FALSE /\ switchRequested = FALSE
  /\ handle = FALSE /\ notified = FALSE
  /\ mpc = "start" /\ built = 0 /\ owned = 0
  /\ activePower = 1
  /\ activeIndex \in 0 .. Profiles - 1
  /\ savedIndex \in {activeIndex} \cup (IF activeIndex = 0 THEN {None} ELSE {})
  /\ armed = FALSE /\ waiting = FALSE /\ due = FALSE

\* The loader answers the newest request at some time.
Preload == Cache!Decide /\ UNCHANGED <<power, setVars, busVars, requestVars, managerVars>>

-----------------------------------------------------------------------------
(* One cycle of the bus.                                                   *)

\* commitStagedEffects(): nothing to do without a staged set or with a retired one that
\* waits to be taken.
SkipCommit ==
  /\ bpc = "top"
  /\ staged = 0 \/ retired # 0
  /\ bpc' = "input"
  /\ UNCHANGED <<serviceVars, power, setVars, previous, clicks, requestVars, managerVars>>

Commit ==
  /\ bpc = "top"
  /\ staged # 0 /\ retired = 0
  /\ previous' = active
  /\ active' = staged
  /\ staged' = 0
  /\ bpc' = "retire"
  /\ UNCHANGED <<serviceVars, power, retired, clicks, requestVars, managerVars>>

Retire ==
  /\ bpc = "retire"
  /\ retired' = previous
  /\ previous' = 0
  /\ bpc' = "input"
  /\ UNCHANGED <<serviceVars, power, active, staged, clicks, requestVars, managerVars>>

\* drainInputQueue(): the last gesture of the main button, 0 for any other than a click.
Drain ==
  /\ bpc = "input"
  /\ clicks' \in 0 .. 3
  /\ bpc' = "wait"
  /\ UNCHANGED <<serviceVars, power, setVars, previous, requestVars, managerVars>>

\* PreloadWaitEffect asks for the outcome only while its set is locked.
WaitPreload ==
  /\ bpc = "wait"
  /\ IF power[active] = "Locked"
       THEN Cache!Ask("bus") /\ bpc' = "answer"
       ELSE UNCHANGED serviceVars /\ bpc' = "toggle"
  /\ UNCHANGED <<power, setVars, previous, clicks, requestVars, managerVars>>

\* The power state of the active set, and of no other, changes on the bus.
SetPower(state) == power' = [power EXCEPT ![active] = state]

Unlock ==
  /\ bpc = "answer"
  /\ Cache!Tell("bus")
  /\ \/ status'["bus"] = "Ready"   /\ SetPower("Retracted")
     \/ status'["bus"] = "Failed"  /\ SetPower("Faulted")
     \/ status'["bus"] = "Pending" /\ UNCHANGED power
  /\ bpc' = "toggle"
  /\ UNCHANGED <<setVars, previous, clicks, requestVars, managerVars>>

\* PowerToggleEffect: one click ignites, two retract, and a sweep ends when its time is up.
Toggle ==
  /\ bpc = "toggle"
  /\ \/ power[active] = "Retracted"  /\ clicks = 1 /\ SetPower("Igniting")
     \/ power[active] = "Ignited"    /\ clicks = 2 /\ SetPower("Retracting")
     \/ power[active] = "Igniting"   /\ SetPower("Ignited")
     \/ power[active] = "Retracting" /\ SetPower("Retracted")
     \/ /\ ~ (power[active] = "Retracted" /\ clicks = 1)
        /\ ~ (power[active] = "Ignited" /\ clicks = 2)
        /\ UNCHANGED power
  /\ bpc' = "cycle"
  /\ UNCHANGED <<serviceVars, setVars, previous, clicks, requestVars, managerVars>>

Idle(s) == power[s] \in {"Retracted", "Faulted"}

WantsSwitch == Idle(active) /\ ~switchPending /\ clicks = 3

\* ProfileCycleEffect.  Bound: no more switches than there are sets to build.
Cycle ==
  /\ bpc = "cycle"
  /\ WantsSwitch
  /\ requested < MaxGeneration
  /\ SetPower("Switching")
  /\ bpc' = "post"
  /\ UNCHANGED <<serviceVars, setVars, previous, clicks, requestVars, managerVars>>

NoCycle ==
  /\ bpc = "cycle"
  /\ WantsSwitch => requested = MaxGeneration
  /\ bpc' = "top"
  /\ UNCHANGED <<serviceVars, power, setVars, previous, clicks, requestVars, managerVars>>

\* requestNext(): ignored while a switch is pending ...
PostPending ==
  /\ bpc = "post"
  /\ IF switchPending THEN bpc' = "top" /\ UNCHANGED switchPending
                      ELSE bpc' = "postRequest" /\ switchPending' = TRUE
  /\ UNCHANGED <<serviceVars, power, setVars, previous, clicks,
                 switchRequested, handle, notified, managerVars>>

PostRequest ==
  /\ bpc = "postRequest"
  /\ switchRequested' = TRUE
  /\ bpc' = "postNotify"
  /\ UNCHANGED <<serviceVars, power, setVars, previous, clicks,
                 switchPending, handle, notified, managerVars>>

\* Fault: it notifies the task only when it finds it asleep.
PostNotifySleeping ==
  /\ bpc = "postNotify"
  /\ notified' = (notified \/ (handle /\ mpc = "sleep"))
  /\ bpc' = "top"
  /\ UNCHANGED <<serviceVars, power, setVars, previous, clicks,
                 switchPending, switchRequested, handle, managerVars>>

\* ... and notifies the task if it has published its handle.
PostNotify ==
  /\ bpc = "postNotify"
  /\ notified' = (notified \/ handle)
  /\ bpc' = "top"
  /\ UNCHANGED <<serviceVars, power, setVars, previous, clicks,
                 switchPending, switchRequested, handle, managerVars>>

-----------------------------------------------------------------------------
(* profile_ctrl: the switch.                                               *)

\* start() publishes the handle as well, before or after the task does.
StartReturns ==
  /\ ~handle
  /\ handle' = TRUE
  /\ UNCHANGED <<serviceVars, power, setVars, busVars, switchPending, switchRequested,
                 notified, managerVars>>

\* "publishing the handle before reading the request flag guarantees a request posted
\* before start() returned is not lost".
PublishHandle ==
  /\ mpc = "start"
  /\ handle' = TRUE
  /\ mpc' = "look"
  /\ UNCHANGED <<serviceVars, power, setVars, busVars, switchPending, switchRequested,
                 notified, built, owned, indexVars, saveVars>>

TakeRequest ==
  /\ mpc = "look"
  /\ switchRequested' = FALSE
  /\ mpc' = IF switchRequested THEN "build" ELSE "save"
  /\ UNCHANGED <<serviceVars, power, setVars, busVars, switchPending, handle, notified,
                 built, owned, indexVars, saveVars>>

\* Fault: the pending flag falls when the switch is taken up.
BuildEffectsUnpends ==
  /\ mpc = "build"
  /\ built' = requested + 1
  /\ owned' = requested + 1
  /\ switchPending' = FALSE
  /\ mpc' = "preload"
  /\ UNCHANGED <<serviceVars, power, setVars, busVars, switchRequested, handle, notified,
                 indexVars, saveVars>>

\* Fault: the set is staged without a preload of its own.
BuildEffectsOnly ==
  /\ mpc = "build"
  /\ built' = requested + 1
  /\ owned' = requested + 1
  /\ mpc' = "stage"
  /\ UNCHANGED <<serviceVars, power, setVars, busVars, requestVars, indexVars, saveVars>>

BuildEffects ==
  /\ mpc = "build"
  /\ built' = requested + 1
  /\ owned' = requested + 1
  /\ mpc' = "preload"
  /\ UNCHANGED <<serviceVars, power, setVars, busVars, requestVars, indexVars, saveVars>>

RequestPreload ==
  /\ mpc = "preload"
  /\ Cache!Request
  /\ mpc' = "stage"
  /\ UNCHANGED <<power, setVars, busVars, requestVars, built, owned, indexVars, saveVars>>

\* stageEffects() refuses, and the assertion fails, when a set is staged already.
Stage ==
  /\ mpc = "stage"
  /\ IF staged = 0 THEN staged' = owned /\ mpc' = "await"
                   ELSE UNCHANGED staged /\ mpc' = "asserted"
  /\ owned' = 0
  /\ UNCHANGED <<serviceVars, power, active, retired, busVars, requestVars, built,
                 indexVars, saveVars>>

\* Fault: the mailbox is read and not emptied.
TakeRetiredCopy ==
  /\ mpc = "await"
  /\ retired # 0
  /\ owned' = retired
  /\ mpc' = "destroy"
  /\ UNCHANGED <<serviceVars, power, setVars, busVars, requestVars, built,
                 indexVars, saveVars>>

\* Fault: after the warning it goes on without the retired set.
TakeRetiredOrGiveUp ==
  /\ mpc = "await"
  /\ owned' = retired
  /\ retired' = 0
  /\ mpc' = IF retired = 0 THEN "finish" ELSE "destroy"
  /\ UNCHANGED <<serviceVars, power, active, staged, busVars, requestVars, built,
                 indexVars, saveVars>>

\* waitForRetiredEffects() polls until the bus has published the set it replaced.
TakeRetired ==
  /\ mpc = "await"
  /\ retired # 0
  /\ owned' = retired
  /\ retired' = 0
  /\ mpc' = "destroy"
  /\ UNCHANGED <<serviceVars, power, active, staged, busVars, requestVars, built,
                 indexVars, saveVars>>

\* The assertion about m_activePower comes before the set it belongs to is destroyed.
Destroy ==
  /\ mpc = "destroy"
  /\ owned' = 0
  /\ mpc' = IF power[activePower] = "Switching" THEN "finish" ELSE "asserted"
  /\ UNCHANGED <<serviceVars, power, setVars, busVars, requestVars, built,
                 indexVars, saveVars>>

\* Fault: the index runs past the last profile.
FinishPastEnd ==
  /\ mpc = "finish"
  /\ activeIndex' = activeIndex + 1
  /\ activePower' = built
  /\ switchPending' = FALSE
  /\ mpc' = "arm"
  /\ UNCHANGED <<serviceVars, power, setVars, busVars, switchRequested, handle, notified,
                 built, owned, saveVars>>

\* Fault: m_activePower stays with the set that was destroyed.
FinishKeepsPower ==
  /\ mpc = "finish"
  /\ activeIndex' = (activeIndex + 1) % Profiles
  /\ switchPending' = FALSE
  /\ mpc' = "arm"
  /\ UNCHANGED <<serviceVars, power, setVars, busVars, switchRequested, handle, notified,
                 built, owned, activePower, saveVars>>

Finish ==
  /\ mpc = "finish"
  /\ activeIndex' = (activeIndex + 1) % Profiles
  /\ activePower' = built
  /\ switchPending' = FALSE
  /\ mpc' = "arm"
  /\ UNCHANGED <<serviceVars, power, setVars, busVars, switchRequested, handle, notified,
                 built, owned, saveVars>>

ArmSave ==
  /\ mpc = "arm"
  /\ waiting' = FALSE
  /\ armed' = (savedIndex # activeIndex)
  /\ due' = FALSE
  /\ mpc' = "look"
  /\ UNCHANGED <<serviceVars, power, setVars, busVars, requestVars, built, owned,
                 indexVars, savedIndex>>

-----------------------------------------------------------------------------
(* profile_ctrl: the save and the wait.                                    *)

\* m_saveDueUs passes.
Elapse ==
  /\ armed /\ ~due
  /\ due' = TRUE
  /\ UNCHANGED <<serviceVars, power, setVars, busVars, requestVars, workVars, indexVars,
                 savedIndex, armed, waiting>>

\* The manager goes on to another point, with or without a new due time.
Continue(point) ==
  /\ mpc' = point
  /\ UNCHANGED <<power, setVars, busVars, requestVars, built, owned, indexVars,
                 savedIndex, armed>>

SaveNotDue ==
  /\ mpc = "save"
  /\ ~armed \/ ~due
  /\ Continue("sleep")
  /\ UNCHANGED <<serviceVars, waiting, due>>

AskPreload ==
  /\ mpc = "save"
  /\ armed /\ due
  /\ Cache!Ask("manager")
  /\ Continue("answer")
  /\ UNCHANGED <<waiting, due>>

\* While the hum is being copied the save is put off.
PreloadAnswer ==
  /\ mpc = "answer"
  /\ Cache!Tell("manager")
  /\ IF status'["manager"] = "Pending" THEN Continue("sleep") /\ due' = FALSE
                                       ELSE Continue("check") /\ UNCHANGED due
  /\ UNCHANGED waiting

\* Fault: once it waited for an idle blade it waits at every check.
CheckIdleAgain ==
  /\ mpc = "check"
  /\ waiting' = (waiting \/ ~Idle(activePower))
  /\ IF Idle(activePower) /\ ~waiting THEN Continue("write") /\ UNCHANGED due
                                      ELSE Continue("sleep") /\ due' = FALSE
  /\ UNCHANGED serviceVars

\* A blade that is not idle puts it off until the delay has passed once more after a check
\* that finds it idle.
CheckIdle ==
  /\ mpc = "check"
  /\ waiting' = ~Idle(activePower)
  /\ IF Idle(activePower) /\ ~waiting THEN Continue("write") /\ UNCHANGED due
                                      ELSE Continue("sleep") /\ due' = FALSE
  /\ UNCHANGED serviceVars

\* ActiveProfileStore::save() succeeds or not; the save is disarmed either way.
Write ==
  /\ mpc = "write"
  /\ savedIndex' \in {savedIndex, activeIndex}
  /\ armed' = FALSE
  /\ mpc' = "sleep"
  /\ UNCHANGED <<serviceVars, power, setVars, busVars, requestVars, built, owned,
                 indexVars, waiting, due>>

\* ulTaskNotifyTake() returns on a notification, or about when the save falls due: the wait
\* is rounded to ticks and may end early.
Wake ==
  /\ mpc = "sleep"
  /\ notified \/ armed
  /\ notified' = FALSE
  /\ mpc' = "look"
  /\ UNCHANGED <<serviceVars, power, setVars, busVars, switchPending, switchRequested,
                 handle, built, owned, indexVars, saveVars>>

-----------------------------------------------------------------------------
Bus ==
  \/ SkipCommit \/ Commit \/ Retire \/ Drain \/ WaitPreload \/ Unlock \/ Toggle
  \/ Cycle \/ NoCycle \/ PostPending \/ PostRequest \/ PostNotify

Switching == \* a switch in progress on profile_ctrl
  \/ BuildEffects \/ RequestPreload \/ Stage \/ TakeRetired \/ Destroy \/ Finish \/ ArmSave

Manager ==
  \/ PublishHandle \/ TakeRequest \/ Switching
  \/ SaveNotDue \/ AskPreload \/ PreloadAnswer \/ CheckIdle \/ Write \/ Wake

Next == Bus \/ Manager \/ StartReturns \/ Elapse \/ Preload

Spec == Init /\ [][Next]_vars

\* The bus runs a cycle at least every 10 ms, profile_ctrl is scheduled, time passes, and the
\* cache answers a request that is not superseded.  Nobody has to click, and a sweep may
\* last for ever.
FairSpec == Spec /\ WF_vars(Bus) /\ WF_vars(Manager) /\ WF_vars(Elapse) /\ WF_vars(Preload)

-----------------------------------------------------------------------------
(* Properties.                                                             *)

PowerState == {"Locked", "Retracted", "Igniting", "Ignited", "Retracting", "Faulted",
               "Switching"}

BusPoint == {"top", "retire", "input", "wait", "answer", "toggle", "cycle",
             "post", "postRequest", "postNotify"}

ManagerPoint == {"start", "look", "build", "preload", "stage", "await", "destroy", "finish",
                 "arm", "save", "answer", "check", "write", "sleep", "asserted"}

\* Every variable keeps its type; profile indices stay within the list of profiles.
TypeOK ==
  /\ requested \in Set /\ outcome \in Cache!Outcome
  /\ status \in [{"bus", "manager"} -> Cache!Outcome \cup {"asked"}]
  /\ about \in [{"bus", "manager"} -> Nat]
  /\ power \in [Set -> PowerState]
  /\ active \in Set /\ staged \in Set \cup {0} /\ retired \in Set \cup {0}
  /\ bpc \in BusPoint /\ previous \in Set \cup {0} /\ clicks \in 0 .. 3
  /\ switchPending \in BOOLEAN /\ switchRequested \in BOOLEAN
  /\ handle \in BOOLEAN /\ notified \in BOOLEAN
  /\ mpc \in ManagerPoint /\ built \in Nat /\ owned \in Nat
  /\ activePower \in Set
  /\ activeIndex \in 0 .. Profiles - 1
  /\ savedIndex \in 0 .. Profiles - 1 \cup {None}
  /\ armed \in BOOLEAN /\ waiting \in BOOLEAN /\ due \in BOOLEAN

\* The places that may hold an effect set: the bus, its two mailboxes, its local while it
\* swaps, and the manager.
Holders == <<active, staged, retired, previous, owned>>

\* An effect set is in one place only, so it is neither run twice nor destroyed by one task
\* and used by another; a set that was destroyed or replaced is nowhere.
SetHeldOnce ==
  \A i, j \in DOMAIN Holders : i # j /\ Holders[i] # 0 => Holders[i] # Holders[j]

\* The assertions of performSwitch(): nothing is staged when the next set is, and the set
\* that comes back is the one m_activePower belongs to, in Switching.
AssertionsHold ==
  /\ mpc # "asserted"
  /\ mpc = "stage" => staged = 0
  /\ mpc = "destroy" => owned = activePower

\* Outside a switch m_activePower belongs to the set that runs, so that the delayed save looks
\* at the blade and not at memory that was freed.
PowerIsAlive == mpc \in {"check", "write"} => activePower = active

\* The blade ignites, and the hum plays, only when the newest preload is the one of the
\* active set and has succeeded.
UnlockedHasItsHum ==
  power[active] \in {"Retracted", "Igniting", "Ignited", "Retracting"} =>
    requested = active /\ outcome = "Ready"

\* A switch ends: a saber in Switching ignores every gesture, so it has to leave that state,
\* and a switch that stays pending would block all further ones.
SwitchEnds ==
  /\ power[active] = "Switching" ~> power[active] # "Switching"
  /\ switchPending ~> ~switchPending

\* A save that is armed is made once the blade stays idle and nobody switches again.
SaveHappens == <>[]Idle(active) => <>[]~armed

\* Posted switches are answered one by one, each by one advance, and what is saved is active.
Selector == INSTANCE ProfileSelector WITH
  active <- activeIndex, pending <- switchPending, saved <- savedIndex

ImplementsSelector == Selector!Spec

\* README.md:175: the profile is saved "never while the blade is lit".
NeverSavedWhileLit ==
  mpc = "write" => power[active] \notin {"Igniting", "Ignited", "Retracting"}
=============================================================================
