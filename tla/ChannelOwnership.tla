-------------------------- MODULE ChannelOwnership --------------------------
(***************************************************************************)
(* What the documentation of AudioChannel promises (AudioChannel.hpp,      *)
(* ownership table and transition list): the lifecycle of a channel, and   *)
(* that at any time one task at most - the one the state names - works on  *)
(* its file and on the write side of its ring.                             *)
(***************************************************************************)
CONSTANTS Channel, Task, Reader

VARIABLES
  phase,   \* lifecycle state of each channel
  user,    \* tasks in the middle of working on the file of each channel
  owner    \* the reader that owns the channel, "none" while no reader does

vars == <<phase, user, owner>>

Init ==
  /\ phase = [ch \in Channel |-> "Idle"]
  /\ user  = [ch \in Channel |-> {}]
  /\ owner = [ch \in Channel |-> "none"]

\* The lifecycle moves of a channel that leave its file alone.
Move(ch, from, to) ==
  /\ phase[ch] = from
  /\ phase' = [phase EXCEPT ![ch] = to]
  /\ UNCHANGED <<user, owner>>

\* One task wins the channel and works on its file until it is published or given up.
Claim(ch, t) ==
  /\ phase[ch] = "Idle" /\ user[ch] = {}
  /\ phase' = [phase EXCEPT ![ch] = "Loading"]
  /\ user'  = [user EXCEPT ![ch] = {t}]
  /\ UNCHANGED owner

Publish(ch, r) ==
  /\ phase[ch] = "Loading"
  /\ phase' = [phase EXCEPT ![ch] = "Ready"]
  /\ user'  = [user EXCEPT ![ch] = {}]
  /\ owner' = [owner EXCEPT ![ch] = r]

GiveUp(ch) ==
  /\ phase[ch] = "Loading"
  /\ phase' = [phase EXCEPT ![ch] = "Idle"]
  /\ user'  = [user EXCEPT ![ch] = {}]
  /\ UNCHANGED owner

\* The owning reader starts, and stops, working on the file of a published channel.
Work(ch) ==
  /\ phase[ch] \notin {"Idle", "Loading"} /\ user[ch] = {}
  /\ user' = [user EXCEPT ![ch] = {owner[ch]}]
  /\ UNCHANGED <<phase, owner>>

Rest(ch) ==
  /\ user[ch] = {owner[ch]}
  /\ user' = [user EXCEPT ![ch] = {}]
  /\ UNCHANGED <<phase, owner>>

\* The owning reader has closed the file.
Free(ch) ==
  /\ phase[ch] = "Closing" /\ user[ch] = {owner[ch]}
  /\ phase' = [phase EXCEPT ![ch] = "Idle"]
  /\ user'  = [user EXCEPT ![ch] = {}]
  /\ owner' = [owner EXCEPT ![ch] = "none"]

Next ==
  \E ch \in Channel :
    \/ Move(ch, "Ready", "Active") \/ Move(ch, "Ready", "Closing")
    \/ Move(ch, "Active", "Stopping") \/ Move(ch, "Active", "Closing")
    \/ Move(ch, "Stopping", "Closing")
    \/ \E t \in Task : Claim(ch, t)
    \/ \E r \in Reader : Publish(ch, r)
    \/ GiveUp(ch) \/ Work(ch) \/ Rest(ch) \/ Free(ch)

Spec == Init /\ [][Next]_vars
=============================================================================
