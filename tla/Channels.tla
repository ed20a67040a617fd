------------------------------ MODULE Channels ------------------------------
(***************************************************************************)
(* What message queues promise to those who share one: a channel that is   *)
(* created once and destroyed once under its name, takes messages up to    *)
(* its capacity, and gives each of them out once, in the order in which    *)
(* they were sent.  A call that fails or blocks leaves it as it is.        *)
(***************************************************************************)
EXTENDS Integers, SequencesExt

CONSTANTS Ids, Capacities, Readers, NULL

VARIABLES
  channels,   \* capacity and messages of each channel there is
  sent,       \* number of messages sent so far
  received    \* what each reader received last, NULL if nothing yet

Init ==
  /\ channels = <<>>
  /\ sent = 0
  /\ received = [r \in Readers |-> NULL]

Create(id, capacity) ==
  /\ id \notin DOMAIN channels
  /\ channels' = [i \in DOMAIN channels \cup {id} |->
                    IF i = id THEN [capacity |-> capacity, messages |-> <<>>] ELSE channels[i]]
  /\ UNCHANGED <<sent, received>>

Destroy(id) ==
  /\ channels' = [i \in DOMAIN channels \ {id} |-> channels[i]]
  /\ UNCHANGED <<sent, received>>

(* A negative capacity is none at all.                                     *)
HasRoom(c) == c.capacity < 0 \/ Len(c.messages) < c.capacity

Send(id) ==
  /\ sent' = sent + 1
  /\ HasRoom(channels[id])
  /\ channels' = [channels EXCEPT ![id].messages = Append(@, sent')]
  /\ UNCHANGED received

Receive(r, id) ==
  /\ channels[id].messages # <<>>
  /\ received' = [received EXCEPT
                    ![r] = [from |-> id, number |-> Head(channels[id].messages)]]
  /\ channels' = [channels EXCEPT ![id].messages = Tail(@)]
  /\ UNCHANGED sent

(* A new reader takes over the place of one that is gone.                  *)
Arrive(r) ==
  /\ received' = [received EXCEPT ![r] = NULL]
  /\ UNCHANGED <<channels, sent>>

Next ==
  \/ \E r \in Readers : Arrive(r)
  \/ \E id \in DOMAIN channels : Send(id) \/ (\E r \in Readers : Receive(r, id)) \/ Destroy(id)
  \/ \E id \in Ids, capacity \in Capacities : Create(id, capacity)

Spec == Init /\ [][Next]_<<channels, sent, received>>
=============================================================================
