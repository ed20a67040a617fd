------------------------- MODULE MessageQueuesProofs ------------------------
(***************************************************************************)
(* Proofs about message queues: no descrittore dangles, no block is lost   *)
(* or freed twice, and the queues implement bounded first-in-first-out     *)
(* channels, for any number of PCBs, queues, messages, ids and arguments.  *)
(***************************************************************************)
EXTENDS MessageQueues, ProcessesProofs

QueueRecord ==
  [type : Types, msg_size : MsgSizes, max_msg : MaxMsgs,
   msg_num : Nat, users : Nat, messages : Seq(1 .. MaxSends)]

Copies == [from : MQIds, number : 1 .. MaxSends] \cup {NULL}

MQTyped ==
  /\ IsFiniteSet(DOMAIN messagequeues)
  /\ DOMAIN messagequeues \subseteq MQIds
  /\ messagequeues \in [DOMAIN messagequeues -> QueueRecord]
  /\ descrittori \in [PCB -> Tables(MaxMqd, MQIds)]
  /\ last_mqd \in [PCB -> 0 .. MaxMqd]
  /\ descrittore_free \in Nat
  /\ message_free \in Nat
  /\ sent \in 0 .. MaxSends
  /\ received \in [PCB -> Copies]
  /\ \A p \in PCB : \A mqd \in DOMAIN descrittori[p] : mqd < last_mqd[p]

(* msg_num counts the messages, which are not more than fit.               *)
QueuesCounted ==
  \A id \in DOMAIN messagequeues :
    LET q == messagequeues[id]
    IN  /\ q.msg_num = Len(q.messages)
        /\ q.max_msg < 0 \/ q.msg_num <= q.max_msg

Live == PCB \ ToSet(pcb_pool)

(* What the processes in use have open exists, and all they have open      *)
(* together is counted among the users.                                    *)
UsersCoverHeld ==
  \A id \in MQIds :
    IF Exists(id) THEN Held(descrittori, Live, id) <= messagequeues[id].users
                  ELSE Held(descrittori, Live, id) = 0

Accounted ==
  /\ MQTyped
  /\ QueuesCounted
  /\ UsersCoverHeld
  /\ DescrittoriAccounted
  /\ MessagesAccounted

(* OpenQueuesExist is not inductive: two processes that have a queue open  *)
(* may close it one after the other only if its users count both.          *)
MQInv == IInv /\ Accounted

-----------------------------------------------------------------------------
(* The accounts, in the terms of the lemmas on sums.                       *)
Users == [id \in DOMAIN messagequeues |-> messagequeues[id].users]
Lengths == [id \in DOMAIN messagequeues |-> Len(messagequeues[id].messages)]

UsersSum == SumFunctionOnSet(Users, DOMAIN messagequeues)
LengthsSum == SumFunctionOnSet(Lengths, DOMAIN messagequeues)

LEMMA Accounts ==
  /\ DescrittoriAccounted <=> descrittore_free + UsersSum = MAX_NUM_PROCESSES
  /\ MessagesAccounted <=> message_free + LengthsSum = MAX_NUM_MESSAGES
BY DEF DescrittoriAccounted, MessagesAccounted, UsersSum, LengthsSum, Users, Lengths, SumFunction

LEMMA AccountsAfter ==
  /\ DescrittoriAccounted' <=> descrittore_free' + UsersSum' = MAX_NUM_PROCESSES
  /\ MessagesAccounted' <=> message_free' + LengthsSum' = MAX_NUM_MESSAGES
BY DEF DescrittoriAccounted, MessagesAccounted, UsersSum, LengthsSum, Users, Lengths, SumFunction

LEMMA QueuesTyped ==
  ASSUME MQTyped
  PROVE  /\ \A id \in DOMAIN messagequeues :
              /\ messagequeues[id] \in QueueRecord
              /\ Users[id] = messagequeues[id].users
              /\ Users[id] \in Nat
              /\ Lengths[id] = Len(messagequeues[id].messages)
              /\ Lengths[id] \in Nat
         /\ UsersSum \in Nat /\ LengthsSum \in Nat
<1>1. ASSUME NEW id \in DOMAIN messagequeues
      PROVE  /\ messagequeues[id] \in QueueRecord
             /\ Users[id] = messagequeues[id].users
             /\ Users[id] \in Nat
             /\ Lengths[id] = Len(messagequeues[id].messages)
             /\ Lengths[id] \in Nat
  <2>1. messagequeues[id] \in QueueRecord
    BY DEF MQTyped
  <2>2. /\ messagequeues[id].users \in Nat
        /\ messagequeues[id].messages \in Seq(1 .. MaxSends)
    BY <2>1 DEF QueueRecord
  <2>. QED  BY <2>1, <2>2, Members DEF Users, Lengths
<1>2. IsFiniteSet(DOMAIN messagequeues)
  BY DEF MQTyped
<1>3. UsersSum \in Nat /\ LengthsSum \in Nat
  BY <1>1, <1>2, SumType DEF UsersSum, LengthsSum
<1>. QED  BY <1>1, <1>3

(* One queue changes.                                                      *)
LEMMA QueueChange ==
  ASSUME MQTyped, NEW id \in DOMAIN messagequeues,
         DOMAIN messagequeues' = DOMAIN messagequeues,
         messagequeues'[id] \in QueueRecord,
         \A i \in DOMAIN messagequeues \ {id} : messagequeues'[i] = messagequeues[i]
  PROVE  /\ UsersSum' = UsersSum - messagequeues[id].users + messagequeues'[id].users
         /\ LengthsSum' = LengthsSum - Len(messagequeues[id].messages)
                            + Len(messagequeues'[id].messages)
<1>. DEFINE S == DOMAIN messagequeues
            f == Users
            g == Users'
            h == Lengths
            k == Lengths'
<1>1. IsFiniteSet(S)
  BY DEF MQTyped
<1>2. \A i \in S : /\ f[i] = messagequeues[i].users /\ f[i] \in Nat
                   /\ h[i] = Len(messagequeues[i].messages) /\ h[i] \in Nat
  BY QueuesTyped
<1>3. \A i \in S : g[i] = messagequeues'[i].users /\ k[i] = Len(messagequeues'[i].messages)
  BY DEF Users, Lengths
<1>4. messagequeues'[id].users \in Nat /\ Len(messagequeues'[id].messages) \in Nat
  <2>1. /\ messagequeues'[id].users \in Nat
        /\ messagequeues'[id].messages \in Seq(1 .. MaxSends)
    BY DEF QueueRecord
  <2>. QED  BY <2>1, Members
<1>5. \A i \in S \ {id} : g[i] = f[i] /\ k[i] = h[i]
  BY <1>2, <1>3
<1>6. \A i \in S : f[i] \in Nat /\ g[i] \in Nat
  BY <1>2, <1>3, <1>4, <1>5
<1>7. \A i \in S : h[i] \in Nat /\ k[i] \in Nat
  BY <1>2, <1>3, <1>4, <1>5
<1>8. UsersSum' = SumFunctionOnSet(g, S) /\ LengthsSum' = SumFunctionOnSet(k, S)
  BY DEF UsersSum, LengthsSum
<1>9. UsersSum = SumFunctionOnSet(f, S) /\ LengthsSum = SumFunctionOnSet(h, S)
  BY DEF UsersSum, LengthsSum
<1>10. id \in S
  OBVIOUS
<1>. HIDE DEF S, f, g, h, k
<1>11. SumFunctionOnSet(g, S) = SumFunctionOnSet(f, S) - f[id] + g[id]
  BY <1>1, <1>5, <1>6, <1>10, SumUpdate, SMTT(30)
<1>12. SumFunctionOnSet(k, S) = SumFunctionOnSet(h, S) - h[id] + k[id]
  BY <1>1, <1>5, <1>7, <1>10, SumUpdate
<1>. QED  BY <1>2, <1>3, <1>8, <1>9, <1>10, <1>11, <1>12

LEMMA HeldTyped ==
  ASSUME MQTyped
  PROVE  /\ MaxMqd \in Nat
         /\ descrittori \in [PCB -> Tables(MaxMqd, MQIds)]
         /\ Live \in SUBSET PCB
         /\ \A id : Held(descrittori, Live, id) \in Nat
<1>1. /\ MaxMqd \in Nat
      /\ descrittori \in [PCB -> Tables(MaxMqd, MQIds)]
      /\ Live \in SUBSET PCB
  BY MessageQueuesAssumption DEF MQTyped, Live
<1>2. \A id : Held(descrittori, Live, id) \in Nat
  BY <1>1, HeldType
<1>. QED  BY <1>1, <1>2

(* What a process in use has open exists and counts it.                    *)
LEMMA OpenExists ==
  ASSUME MQTyped, UsersCoverHeld, NEW p \in Live, NEW mqd \in DOMAIN descrittori[p]
  PROVE  /\ descrittori[p][mqd] \in DOMAIN messagequeues
         /\ messagequeues[descrittori[p][mqd]].users >= 1
<1>. DEFINE t == descrittori[p]
            id == t[mqd]
<1>1. /\ MaxMqd \in Nat /\ p \in PCB /\ Live \in SUBSET PCB
      /\ descrittori \in [PCB -> Tables(MaxMqd, MQIds)]
      /\ t \in Tables(MaxMqd, MQIds)
  BY HeldTyped DEF Live
<1>2. id \in MQIds
  BY <1>1, TableFinite
<1>3. IsFiniteSet(Entries(t, id)) /\ Cardinality(Entries(t, id)) \in Nat
  BY <1>1, TableFinite
<1>4. Cardinality(Entries(t, id)) # 0
  <2>1. mqd \in Entries(t, id)
    BY DEF Entries
  <2>. HIDE DEF t, id
  <2>. QED  BY <1>3, <2>1, FS_EmptySet
<1>5. \A v : Held(descrittori, Live, v) \in Nat
  BY HeldTyped
<1>6. \A v : Cardinality(Entries(t, v)) <= Held(descrittori, Live, v)
  BY <1>1, HeldType
<1>7. IF Exists(id) THEN Held(descrittori, Live, id) <= messagequeues[id].users
                    ELSE Held(descrittori, Live, id) = 0
  BY <1>2 DEF UsersCoverHeld
<1>8. Exists(id) => messagequeues[id].users \in Nat
  BY QueuesTyped DEF Exists, QueueRecord
<1>. HIDE DEF t, id
<1>9. Exists(id) /\ messagequeues[id].users >= 1
  BY <1>3, <1>4, <1>5, <1>6, <1>7, <1>8
<1>. QED  BY <1>9 DEF Exists, t, id

-----------------------------------------------------------------------------
(* The process calls.                                                      *)

(* A call that leaves queues alone, and puts no process to use.            *)
LEMMA SameAccounts ==
  ASSUME Accounted, UNCHANGED mqVars, Live' \subseteq Live
  PROVE  Accounted'
<1>. USE DEF mqVars
<1>1. MQTyped' /\ QueuesCounted'
  BY DEF Accounted, MQTyped, QueuesCounted
<1>2. UsersCoverHeld'
  <2>1. ASSUME NEW id \in MQIds
        PROVE  IF Exists(id) THEN Held(descrittori, Live', id) <= messagequeues[id].users
                             ELSE Held(descrittori, Live', id) = 0
    <3>1. Live' \in SUBSET Live /\ Live' \in SUBSET PCB
      BY DEF Live
    <3>2. /\ MaxMqd \in Nat
          /\ descrittori \in [PCB -> Tables(MaxMqd, MQIds)]
          /\ Live \in SUBSET PCB
      BY HeldTyped DEF Accounted
    <3>3. /\ Held(descrittori, Live', id) <= Held(descrittori, Live, id)
          /\ Held(descrittori, Live', id) \in Nat
          /\ Held(descrittori, Live, id) \in Nat
      BY <3>1, <3>2, HeldFewer, HeldType
    <3>4. IF Exists(id) THEN Held(descrittori, Live, id) <= messagequeues[id].users
                        ELSE Held(descrittori, Live, id) = 0
      BY DEF Accounted, UsersCoverHeld
    <3>5. Exists(id) => messagequeues[id].users \in Nat
      BY QueuesTyped DEF Accounted, Exists, QueueRecord
    <3>. QED  BY <3>3, <3>4, <3>5
  <2>. QED  BY <2>1 DEF UsersCoverHeld, Exists
<1>3. DescrittoriAccounted' /\ MessagesAccounted'
  BY DEF Accounted, DescrittoriAccounted, MessagesAccounted
<1>. QED  BY <1>1, <1>2, <1>3 DEF Accounted

(* Boot, spawn and fork: the new process gets an empty table, whatever the *)
(* block held before.                                                      *)
LEMMA NewDescrittoriAccounted ==
  ASSUME MQInv, Reboot \/ NewProcess, NewDescrittori
  PROVE  Accounted'
<1>. DEFINE new == Head(pcb_pool)
<1>. USE DEF MQInv, Accounted
<1>1. /\ new \in PCB /\ new \notin Live
      /\ Live' = Live \cup {new}
  BY NewBlock DEF Live
<1>2. /\ descrittori' = [descrittori EXCEPT ![new] = <<>>]
      /\ last_mqd' = [last_mqd EXCEPT ![new] = 0]
      /\ received' = [received EXCEPT ![new] = NULL]
      /\ UNCHANGED <<messagequeues, descrittore_free, message_free, sent>>
  BY DEF NewDescrittori
<1>3. /\ MaxMqd \in Nat
      /\ descrittori \in [PCB -> Tables(MaxMqd, MQIds)]
      /\ Live \in SUBSET PCB
  BY HeldTyped
<1>. HIDE DEF new
<1>4. /\ descrittori' \in [PCB -> Tables(MaxMqd, MQIds)]
      /\ descrittori'[new] = <<>> /\ DOMAIN <<>> = {}
      /\ \A q \in PCB \ {new} : descrittori'[q] = descrittori[q]
  <2>1. <<>> \in Tables(MaxMqd, MQIds) /\ DOMAIN <<>> = {}
    BY <1>3, EmptyTable
  <2>. QED  BY <1>1, <1>2, <1>3, <2>1
<1>5. MQTyped'
  <2>1. last_mqd' \in [PCB -> 0 .. MaxMqd] /\ received' \in [PCB -> Copies]
    <3>1. 0 \in 0 .. MaxMqd /\ NULL \in Copies
      BY <1>3 DEF Copies
    <3>. QED  BY <1>2, <3>1 DEF MQTyped
  <2>2. \A p \in PCB : \A mqd \in DOMAIN descrittori'[p] : mqd < last_mqd'[p]
    BY <1>1, <1>2, <1>4 DEF MQTyped
  <2>. QED  BY <1>2, <1>4, <2>1, <2>2 DEF MQTyped
<1>6. QueuesCounted'
  BY <1>2 DEF QueuesCounted
<1>7. UsersCoverHeld'
  <2>1. \A id \in MQIds : Held(descrittori', Live', id) = Held(descrittori, Live, id)
    <3>1. \A id \in MQIds :
            Held(descrittori', Live \cup {new}, id) = Held(descrittori, Live, id)
      BY <1>1, <1>3, <1>4, HeldNew
    <3>. QED  BY <1>1, <3>1
  <2>. QED  BY <1>2, <2>1 DEF UsersCoverHeld, Exists
<1>8. DescrittoriAccounted' /\ MessagesAccounted'
  BY <1>2 DEF DescrittoriAccounted, MessagesAccounted
<1>. QED  BY <1>5, <1>6, <1>7, <1>8

(* An exit to a waiting parent: the users that the process was are taken   *)
(* away from each queue, and its descrittori go back to the pool.          *)
LEMMA ReleaseAccounted ==
  ASSUME MQInv, ExitToParent, ReleaseDescrittori(running)
  PROVE  Accounted'
<1>. DEFINE t == descrittori[running]
            S == DOMAIN messagequeues
            n(id) == Cardinality(Entries(t, id))
<1>. USE DEF MQInv, Accounted
<1>1. running \in Live /\ running \in PCB /\ Live' = Live \ {running}
  <2>1. Runs
    BY DEF ExitToParent, Exiting, Trap
  <2>. QED  BY <2>1, RunningInUse, ExitFreesBlock DEF Live
<1>2. /\ messagequeues' = [id \in S |-> [messagequeues[id] EXCEPT !.users = @ - n(id)]]
      /\ descrittori' = [descrittori EXCEPT ![running] = <<>>]
      /\ descrittore_free' = descrittore_free + Cardinality(DOMAIN t)
      /\ UNCHANGED <<last_mqd, message_free, sent, received>>
  BY DEF ReleaseDescrittori, Opened, Entries
<1>3. /\ MaxMqd \in Nat
      /\ descrittori \in [PCB -> Tables(MaxMqd, MQIds)]
      /\ Live \in SUBSET PCB
      /\ t \in Tables(MaxMqd, MQIds)
  BY <1>1, HeldTyped
<1>4. /\ IsFiniteSet(DOMAIN t) /\ Cardinality(DOMAIN t) \in Nat
      /\ \A id : n(id) \in Nat
  BY <1>3, TableFinite
<1>5. \A mqd \in DOMAIN t : t[mqd] \in S
  BY <1>1, OpenExists
<1>6. \A id \in S : n(id) <= messagequeues[id].users /\ messagequeues[id] \in QueueRecord
  <2>1. \A id : Held(descrittori, Live, id) \in Nat
    BY HeldTyped
  <2>2. \A id : n(id) <= Held(descrittori, Live, id)
    BY <1>1, <1>3, HeldType
  <2>3. \A id \in S : Held(descrittori, Live, id) <= messagequeues[id].users
    BY DEF UsersCoverHeld, Exists, MQTyped
  <2>4. \A id \in S : messagequeues[id].users \in Nat /\ messagequeues[id] \in QueueRecord
    BY QueuesTyped DEF QueueRecord
  <2>. HIDE DEF n, S
  <2>. QED  BY <1>4, <2>1, <2>2, <2>3, <2>4
<1>. HIDE DEF n
<1>7. /\ DOMAIN messagequeues' = S
      /\ \A id \in S : /\ messagequeues'[id] = [messagequeues[id] EXCEPT !.users = @ - n(id)]
                       /\ messagequeues'[id] \in QueueRecord
                       /\ messagequeues'[id].users = messagequeues[id].users - n(id)
                       /\ messagequeues'[id].messages = messagequeues[id].messages
                       /\ messagequeues'[id].msg_num = messagequeues[id].msg_num
                       /\ messagequeues'[id].max_msg = messagequeues[id].max_msg
  <2>1. ASSUME NEW id \in S
        PROVE  /\ messagequeues'[id] = [messagequeues[id] EXCEPT !.users = @ - n(id)]
               /\ messagequeues'[id] \in QueueRecord
               /\ messagequeues'[id].users = messagequeues[id].users - n(id)
               /\ messagequeues'[id].messages = messagequeues[id].messages
               /\ messagequeues'[id].msg_num = messagequeues[id].msg_num
               /\ messagequeues'[id].max_msg = messagequeues[id].max_msg
    <3>1. messagequeues'[id] = [messagequeues[id] EXCEPT !.users = @ - n(id)]
      BY <1>2
    <3>2. messagequeues[id] \in QueueRecord /\ messagequeues[id].users - n(id) \in Nat
      BY <1>4, <1>6 DEF QueueRecord
    <3>. QED  BY <3>1, <3>2 DEF QueueRecord
  <2>. QED  BY <1>2, <2>1
<1>8. /\ descrittori' \in [PCB -> Tables(MaxMqd, MQIds)]
      /\ descrittori'[running] = <<>> /\ DOMAIN <<>> = {}
      /\ \A q \in PCB \ {running} : descrittori'[q] = descrittori[q]
  <2>1. <<>> \in Tables(MaxMqd, MQIds) /\ DOMAIN <<>> = {}
    BY <1>3, EmptyTable
  <2>. QED  BY <1>1, <1>2, <1>3, <2>1
<1>9. MQTyped'
  <2>1. messagequeues' \in [S -> QueueRecord]
    BY <1>2, <1>7
  <2>2. descrittore_free' \in Nat
    BY <1>2, <1>4 DEF MQTyped
  <2>3. \A p \in PCB : \A mqd \in DOMAIN descrittori'[p] : mqd < last_mqd'[p]
    BY <1>2, <1>8 DEF MQTyped
  <2>. QED  BY <1>2, <1>7, <1>8, <2>1, <2>2, <2>3 DEF MQTyped
<1>10. QueuesCounted'
  BY <1>7 DEF QueuesCounted
<1>11. UsersCoverHeld'
  <2>1. ASSUME NEW id \in MQIds
        PROVE  IF id \in S THEN Held(descrittori', Live', id) <= messagequeues'[id].users
                          ELSE Held(descrittori', Live', id) = 0
    <3>1. \A v : Held(descrittori', Live', v) = Held(descrittori, Live, v) - n(v)
      <4>1. /\ running \in Live /\ Live \in SUBSET PCB /\ Live' = Live \ {running}
            /\ \A q \in PCB \ {running} : descrittori'[q] = descrittori[q]
        BY <1>1, <1>3, <1>8
      <4>2. /\ MaxMqd \in Nat
            /\ descrittori \in [PCB -> Tables(MaxMqd, MQIds)]
            /\ descrittori' \in [PCB -> Tables(MaxMqd, MQIds)]
        BY <1>3, <1>8
      <4>3. \A v : Held(descrittori', Live', v)
                    = Held(descrittori, Live, v) - Cardinality(Entries(descrittori[running], v))
        BY <4>1, <4>2, HeldGone
      <4>. QED  BY <4>3 DEF n
    <3>2. Held(descrittori, Live, id) \in Nat /\ n(id) \in Nat
      BY <1>4, HeldTyped
    <3>3. n(id) <= Held(descrittori, Live, id)
      <4>1. \A v : n(v) <= Held(descrittori, Live, v)
        BY <1>1, <1>3, HeldType DEF n
      <4>. QED  BY <4>1
    <3>4. IF id \in S THEN Held(descrittori, Live, id) <= messagequeues[id].users
                     ELSE Held(descrittori, Live, id) = 0
      BY DEF UsersCoverHeld, Exists
    <3>5. id \in S => /\ messagequeues'[id].users = messagequeues[id].users - n(id)
                     /\ messagequeues[id].users \in Nat
      BY <1>6, <1>7 DEF QueueRecord
    <3>. HIDE DEF S
    <3>. QED  BY <3>1, <3>2, <3>3, <3>4, <3>5
  <2>. QED  BY <1>7, <2>1 DEF UsersCoverHeld, Exists
<1>. DEFINE f == Users'
            g == [id \in S |-> n(id)]
            h == Users
<1>12. UsersSum = UsersSum' + Cardinality(DOMAIN t) /\ UsersSum' \in Nat
  <2>1. IsFiniteSet(S)
    BY DEF MQTyped
  <2>2. SumFunctionOnSet(g, S) = Cardinality(DOMAIN t)
    <3>1. \A id \in S : g[id] = Cardinality(Entries(t, id))
      BY DEF n
    <3>. HIDE DEF g, t, S
    <3>. QED  BY <1>4, <1>5, <2>1, <3>1, SumOfEntries
  <2>3. \A id \in S : f[id] \in Nat /\ g[id] \in Nat /\ h[id] = f[id] + g[id]
    <3>1. \A id \in S : f[id] = messagequeues[id].users - n(id) /\ g[id] = n(id)
                      /\ h[id] = messagequeues[id].users
      BY <1>7 DEF Users
    <3>2. \A id \in S : messagequeues[id].users \in Nat
      BY <1>6 DEF QueueRecord
    <3>. HIDE DEF S, f, g, h
    <3>. QED  BY <1>4, <1>6, <3>1, <3>2
  <2>4. UsersSum' = SumFunctionOnSet(f, S) /\ UsersSum = SumFunctionOnSet(h, S)
    BY <1>7 DEF UsersSum
  <2>. HIDE DEF S, f, g, h
  <2>5. SumFunctionOnSet(h, S) = SumFunctionOnSet(f, S) + SumFunctionOnSet(g, S)
    BY <2>1, <2>3, SumOfSums
  <2>6. SumFunctionOnSet(f, S) \in Nat
    BY <2>1, <2>3, SumType
  <2>. QED  BY <2>2, <2>4, <2>5, <2>6
<1>13. LengthsSum' = LengthsSum
  <2>1. Lengths' = Lengths
    BY <1>7 DEF Lengths
  <2>. QED  BY <1>7, <2>1 DEF LengthsSum
<1>14. DescrittoriAccounted' /\ MessagesAccounted'
  <2>1. /\ descrittore_free + UsersSum = MAX_NUM_PROCESSES
        /\ descrittore_free \in Nat /\ MAX_NUM_PROCESSES \in Nat
    BY Accounts, KernelAssumption DEF MQTyped
  <2>2. descrittore_free' + UsersSum' = MAX_NUM_PROCESSES
    BY <1>2, <1>4, <1>12, <2>1
  <2>3. message_free' + LengthsSum' = MAX_NUM_MESSAGES
    BY <1>2, <1>13, Accounts
  <2>. QED  BY <2>2, <2>3, AccountsAfter
<1>. QED  BY <1>9, <1>10, <1>11, <1>14

-----------------------------------------------------------------------------
(* The calls on queues.                                                    *)

(* A call that answers leaves the processes where they are.                *)
LEMMA Answered ==
  ASSUME MQInv, NEW value \in Int, Answers(value)
  PROVE  /\ IInv'
         /\ running \in Live /\ running \in PCB /\ Live \in SUBSET PCB /\ Live' = Live
<1>1. Runs
  BY DEF Answers, Trap
<1>2. running \in PCB \ ToSet(pcb_pool)
  BY <1>1, RunningInUse DEF MQInv
<1>3. /\ wait_arg' = [wait_arg EXCEPT ![running] = NULL]
      /\ syscall_retvalue' = [syscall_retvalue EXCEPT ![running] = value]
      /\ UNCHANGED <<machine, disastrOS_time, context, pcbVars, poolVars, schedVars>>
  BY DEF Answers, Trap, Return, processVars
<1>4. syscall_retvalue' \in [PCB -> Int]
  BY <1>2, <1>3 DEF MQInv, IInv, TypeOK
<1>5. IInv'
  BY <1>2, <1>3, <1>4, AnswerIInv DEF MQInv
<1>. QED  BY <1>2, <1>3, <1>5 DEF Live, poolVars

(* The process that calls, and its descrittori.                            *)
LEMMA Caller ==
  ASSUME MQInv, Runs
  PROVE  /\ running \in Live /\ running \in PCB /\ Live \in SUBSET PCB
         /\ MaxMqd \in Nat
         /\ descrittori \in [PCB -> Tables(MaxMqd, MQIds)]
         /\ descrittori[running] \in Tables(MaxMqd, MQIds)
         /\ IsFiniteSet(DOMAIN descrittori[running])
         /\ last_mqd \in [PCB -> 0 .. MaxMqd]
<1>1. running \in Live /\ running \in PCB /\ Live \in SUBSET PCB
  BY RunningInUse DEF MQInv, Live
<1>2. /\ MaxMqd \in Nat
      /\ descrittori \in [PCB -> Tables(MaxMqd, MQIds)]
      /\ last_mqd \in [PCB -> 0 .. MaxMqd]
  BY MessageQueuesAssumption DEF MQInv, Accounted, MQTyped
<1>3. IsFiniteSet(DOMAIN descrittori[running])
  BY <1>1, <1>2, TableFinite
<1>. QED  BY <1>1, <1>2, <1>3

(* The queue list with one queue changed.                                  *)
LEMMA ChangedQueue ==
  ASSUME MQTyped, NEW id \in DOMAIN messagequeues, NEW q \in QueueRecord,
         messagequeues' = [messagequeues EXCEPT ![id] = q]
  PROVE  /\ DOMAIN messagequeues' = DOMAIN messagequeues
         /\ messagequeues'[id] = q
         /\ \A i \in DOMAIN messagequeues \ {id} : messagequeues'[i] = messagequeues[i]
         /\ messagequeues' \in [DOMAIN messagequeues -> QueueRecord]
BY DEF MQTyped

(* A close finds a user to take away.                                      *)
LEMMA ClosesAccounted ==
  ASSUME MQInv, NEW mqd, Closes(mqd)
  PROVE  MQInv'
<1>. DEFINE t  == descrittori[running]
            id == t[mqd]
            q  == [messagequeues[id] EXCEPT !.users = @ - 1]
<1>1. /\ Answers(0) /\ mqd \in DOMAIN t
      /\ messagequeues' = [messagequeues EXCEPT ![id] = q]
      /\ descrittori' = [descrittori EXCEPT ![running] = Without(t, mqd)]
      /\ descrittore_free' = descrittore_free + 1
      /\ UNCHANGED <<last_mqd, message_free, sent, received>>
  BY DEF Closes, HasMqd
<1>2. /\ IInv' /\ running \in Live /\ running \in PCB /\ Live \in SUBSET PCB
      /\ Live' = Live
  BY <1>1, Answered
<1>3. /\ MaxMqd \in Nat /\ t \in Tables(MaxMqd, MQIds)
      /\ descrittori \in [PCB -> Tables(MaxMqd, MQIds)]
      /\ IsFiniteSet(DOMAIN t)
  BY <1>1, Caller DEF Answers, Trap
<1>4. MQTyped /\ QueuesCounted /\ UsersCoverHeld
  BY DEF MQInv, Accounted
<1>5. id \in DOMAIN messagequeues /\ messagequeues[id].users >= 1
  BY <1>1, <1>2, <1>4, OpenExists
<1>6. messagequeues[id] \in QueueRecord /\ DOMAIN messagequeues \subseteq MQIds
  BY <1>4, <1>5 DEF MQTyped
<1>7. /\ q \in QueueRecord
      /\ q.users = messagequeues[id].users - 1 /\ messagequeues[id].users \in Nat
      /\ q.messages = messagequeues[id].messages
      /\ q.msg_num = messagequeues[id].msg_num /\ q.max_msg = messagequeues[id].max_msg
  BY <1>5, <1>6 DEF QueueRecord
<1>8. /\ Without(t, mqd) \in Tables(MaxMqd, MQIds)
      /\ DOMAIN Without(t, mqd) = DOMAIN t \ {mqd}
      /\ Cardinality(Entries(Without(t, mqd), id)) = Cardinality(Entries(t, id)) - 1
  <2>1. Without(t, mqd) \in Tables(MaxMqd, MQIds)
    BY <1>3, TableClose
  <2>. QED  BY <1>1, <1>3, <2>1, EntryRemoved
<1>9. \A u : u # id => Entries(Without(t, mqd), u) = Entries(t, u)
  BY <1>1, OtherEntriesKept
<1>10. /\ descrittori' \in [PCB -> Tables(MaxMqd, MQIds)]
       /\ descrittori'[running] = Without(t, mqd)
       /\ \A p \in PCB \ {running} : descrittori'[p] = descrittori[p]
  BY <1>1, <1>2, <1>3, <1>8
<1>. HIDE DEF q, id
<1>11. /\ DOMAIN messagequeues' = DOMAIN messagequeues
       /\ messagequeues'[id] = q
       /\ \A i \in DOMAIN messagequeues \ {id} : messagequeues'[i] = messagequeues[i]
       /\ messagequeues' \in [DOMAIN messagequeues -> QueueRecord]
  BY <1>1, <1>4, <1>5, <1>7, ChangedQueue
<1>12. MQTyped'
  <2>1. descrittore_free' \in Nat
    BY <1>1, <1>4 DEF MQTyped
  <2>2. ASSUME NEW p \in PCB, NEW d \in DOMAIN descrittori'[p]
        PROVE  d < last_mqd'[p]
    <3>1. d \in DOMAIN descrittori[p]
      BY <1>8, <1>10
    <3>. QED  BY <1>1, <1>4, <3>1 DEF MQTyped
  <2>. QED  BY <1>1, <1>4, <1>10, <1>11, <2>1, <2>2 DEF MQTyped
<1>13. QueuesCounted'
  BY <1>4, <1>5, <1>7, <1>11 DEF QueuesCounted
<1>14. UsersCoverHeld'
  <2>1. ASSUME NEW i \in MQIds
        PROVE  IF Exists(i)' THEN Held(descrittori', Live', i) <= messagequeues'[i].users
                             ELSE Held(descrittori', Live', i) = 0
    <3>1. \A v : Held(descrittori', Live, v)
                  = Held(descrittori, Live, v) - Cardinality(Entries(t, v))
                      + Cardinality(Entries(descrittori'[running], v))
      BY <1>2, <1>3, <1>10, HeldChange
    <3>2. Held(descrittori, Live, i) \in Nat
      BY <1>4, HeldTyped
    <3>3. Cardinality(Entries(t, i)) \in Nat
      BY <1>3, TableFinite
    <3>4. IF Exists(i) THEN Held(descrittori, Live, i) <= messagequeues[i].users
                       ELSE Held(descrittori, Live, i) = 0
      BY <1>4 DEF UsersCoverHeld
    <3>5. CASE i = id
      <4>1. Held(descrittori', Live', i) = Held(descrittori, Live, i) - 1
        BY <1>2, <1>8, <1>10, <3>1, <3>2, <3>3, <3>5
      <4>. QED  BY <1>5, <1>7, <1>11, <3>2, <3>4, <3>5, <4>1 DEF Exists
    <3>6. CASE i # id
      <4>1. Held(descrittori', Live', i) = Held(descrittori, Live, i)
        BY <1>2, <1>9, <1>10, <3>1, <3>2, <3>3, <3>6
      <4>. QED  BY <1>11, <3>4, <3>6, <4>1 DEF Exists
    <3>. QED  BY <3>5, <3>6
  <2>. QED  BY <2>1 DEF UsersCoverHeld
<1>15. DescrittoriAccounted' /\ MessagesAccounted'
  <2>1. /\ UsersSum' = UsersSum - messagequeues[id].users + messagequeues'[id].users
        /\ LengthsSum' = LengthsSum - Len(messagequeues[id].messages)
                           + Len(messagequeues'[id].messages)
    BY <1>4, <1>5, <1>7, <1>11, QueueChange
  <2>2. /\ descrittore_free + UsersSum = MAX_NUM_PROCESSES
        /\ message_free + LengthsSum = MAX_NUM_MESSAGES
    BY Accounts DEF MQInv, Accounted
  <2>3. /\ UsersSum \in Nat /\ LengthsSum \in Nat
        /\ descrittore_free \in Nat
        /\ Len(messagequeues[id].messages) \in Nat
    <3>1. Lengths[id] = Len(messagequeues[id].messages) /\ Lengths[id] \in Nat
      BY <1>4, <1>5, QueuesTyped
    <3>. QED  BY <1>4, <3>1, QueuesTyped DEF MQTyped
  <2>4. descrittore_free' + UsersSum' = MAX_NUM_PROCESSES
    BY <1>1, <1>7, <1>11, <2>1, <2>2, <2>3
  <2>5. LengthsSum' = LengthsSum
    BY <1>7, <1>11, <2>1, <2>3
  <2>. QED  BY <1>1, <2>2, <2>4, <2>5, AccountsAfter
<1>. QED  BY <1>2, <1>12, <1>13, <1>14, <1>15 DEF MQInv, Accounted

LEMMA Moved ==
  \A now, n, free, m, sum \in Nat : now + n = free + m => now + (sum - m + n) = free + sum
OBVIOUS

(* A call that moves messages in or out of one queue.                      *)
LEMMA MessagesMove ==
  ASSUME MQInv, Answers(0), NEW id \in DOMAIN messagequeues, NEW q \in QueueRecord,
         q.users = messagequeues[id].users,
         q.msg_num = Len(q.messages), q.max_msg < 0 \/ q.msg_num <= q.max_msg,
         messagequeues' = [messagequeues EXCEPT ![id] = q],
         message_free' \in Nat,
         message_free' + Len(q.messages) = message_free + Len(messagequeues[id].messages),
         sent' \in 0 .. MaxSends, received' \in [PCB -> Copies],
         UNCHANGED <<descrittori, last_mqd, descrittore_free>>
  PROVE  MQInv'
<1>1. IInv' /\ Live' = Live
  BY Answered
<1>2. MQTyped /\ QueuesCounted /\ UsersCoverHeld
  BY DEF MQInv, Accounted
<1>3. /\ DOMAIN messagequeues' = DOMAIN messagequeues
      /\ messagequeues'[id] = q
      /\ \A i \in DOMAIN messagequeues \ {id} : messagequeues'[i] = messagequeues[i]
      /\ messagequeues' \in [DOMAIN messagequeues -> QueueRecord]
  BY <1>2, ChangedQueue
<1>4. MQTyped'
  BY <1>2, <1>3 DEF MQTyped
<1>5. QueuesCounted'
  BY <1>2, <1>3 DEF QueuesCounted
<1>6. UsersCoverHeld'
  <2>1. \A i \in DOMAIN messagequeues : messagequeues'[i].users = messagequeues[i].users
    BY <1>3
  <2>. QED  BY <1>1, <1>2, <1>3, <2>1 DEF UsersCoverHeld, Exists
<1>7. DescrittoriAccounted' /\ MessagesAccounted'
  <2>1. /\ UsersSum' = UsersSum - messagequeues[id].users + messagequeues'[id].users
        /\ LengthsSum' = LengthsSum - Len(messagequeues[id].messages)
                           + Len(messagequeues'[id].messages)
    BY <1>2, <1>3, QueueChange
  <2>2. /\ descrittore_free + UsersSum = MAX_NUM_PROCESSES
        /\ message_free + LengthsSum = MAX_NUM_MESSAGES
    BY Accounts DEF MQInv, Accounted
  <2>3. /\ UsersSum \in Nat /\ LengthsSum \in Nat
        /\ Len(messagequeues[id].messages) \in Nat
        /\ messagequeues[id].users \in Nat
        /\ message_free \in Nat
    <3>1. /\ Lengths[id] = Len(messagequeues[id].messages) /\ Lengths[id] \in Nat
          /\ Users[id] = messagequeues[id].users /\ Users[id] \in Nat
      BY <1>2, QueuesTyped
    <3>. QED  BY <1>2, <3>1, QueuesTyped DEF MQTyped
  <2>4. Len(q.messages) \in Nat
    BY Members DEF QueueRecord
  <2>5. UsersSum' = UsersSum
    BY <1>3, <2>1, <2>3
  <2>6. message_free' + LengthsSum' = MAX_NUM_MESSAGES
    <3>. DEFINE m == Len(messagequeues[id].messages)
                n == Len(q.messages)
    <3>1. LengthsSum' = LengthsSum - m + n
      BY <1>3, <2>1
    <3>2. message_free' + n = message_free + m
      OBVIOUS
    <3>3. m \in Nat /\ n \in Nat /\ LengthsSum \in Nat /\ message_free \in Nat
      BY <2>3, <2>4
    <3>4. message_free' \in Nat
      OBVIOUS
    <3>. HIDE DEF m, n
    <3>5. message_free' + (LengthsSum - m + n) = message_free + LengthsSum
      BY <3>2, <3>3, <3>4, Moved
    <3>. QED  BY <2>2, <3>1, <3>5, Zenon
  <2>. QED  BY <2>2, <2>5, <2>6, AccountsAfter
<1>. QED  BY <1>1, <1>4, <1>5, <1>6, <1>7 DEF MQInv, Accounted

(* The queue that a process in use may send to or receive from.            *)
LEMMA OpenQueue ==
  ASSUME MQInv, Runs, NEW mqd, HasMqd(mqd)
  PROVE  LET id == descrittori[running][mqd]
         IN  /\ id \in DOMAIN messagequeues /\ id \in MQIds
             /\ Queue(mqd) = messagequeues[id]
             /\ Queue(mqd) \in QueueRecord
             /\ Queue(mqd).max_msg \in Int
             /\ Queue(mqd).messages \in Seq(1 .. MaxSends)
             /\ Len(Queue(mqd).messages) \in Nat
             /\ Queue(mqd).msg_num = Len(Queue(mqd).messages)
             /\ Queue(mqd).max_msg < 0 \/ Queue(mqd).msg_num <= Queue(mqd).max_msg
<1>. DEFINE id == descrittori[running][mqd]
<1>1. running \in Live /\ MQTyped /\ QueuesCounted /\ UsersCoverHeld
  BY Caller DEF MQInv, Accounted
<1>2. id \in DOMAIN messagequeues
  BY <1>1, OpenExists DEF HasMqd
<1>3. /\ id \in MQIds /\ messagequeues[id] \in QueueRecord
      /\ messagequeues[id].msg_num = Len(messagequeues[id].messages)
      /\ \/ messagequeues[id].max_msg < 0
         \/ messagequeues[id].msg_num <= messagequeues[id].max_msg
  BY <1>1, <1>2 DEF MQTyped, QueuesCounted
<1>4. /\ messagequeues[id].max_msg \in Int
      /\ messagequeues[id].messages \in Seq(1 .. MaxSends)
  BY <1>3, MessageQueuesAssumption DEF QueueRecord
<1>5. Len(messagequeues[id].messages) \in Nat
  BY <1>4, Members
<1>. QED  BY <1>2, <1>3, <1>4, <1>5 DEF Queue

LEMMA MaySendHas ==
  ASSUME NEW mqd, NEW msg_len, MaySend(mqd, msg_len)
  PROVE  Runs /\ HasMqd(mqd)
BY KernelAssumption DEF MaySend, SendError, DSOS_EMESSAGEQUEUECLOSE

LEMMA MayReceiveHas ==
  ASSUME NEW mqd, MayReceive(mqd)
  PROVE  Runs /\ HasMqd(mqd)
BY KernelAssumption DEF MayReceive, ReceiveError, DSOS_EMESSAGEQUEUECLOSE

LEMMA SendsAccounted ==
  ASSUME MQInv, NEW mqd, NEW msg_len, Sends(mqd, msg_len)
  PROVE  MQInv'
<1>. DEFINE id == descrittori[running][mqd]
            c  == messagequeues[id]
            q  == [c EXCEPT !.messages = Append(@, sent + 1), !.msg_num = @ + 1]
<1>1. /\ Answers(0) /\ Runs /\ HasMqd(mqd) /\ ~Full(mqd)
      /\ sent < MaxSends /\ message_free > 0
      /\ messagequeues' = [messagequeues EXCEPT ![id] = q]
      /\ message_free' = message_free - 1
      /\ sent' = sent + 1
      /\ UNCHANGED <<descrittori, last_mqd, descrittore_free, received>>
  BY MaySendHas DEF Sends
<1>2. /\ id \in DOMAIN messagequeues
      /\ Queue(mqd) = c /\ c \in QueueRecord /\ c.max_msg \in Int
      /\ c.messages \in Seq(1 .. MaxSends) /\ Len(c.messages) \in Nat
      /\ c.msg_num = Len(c.messages)
      /\ c.max_msg < 0 \/ c.msg_num <= c.max_msg
  BY <1>1, OpenQueue
<1>3. /\ sent \in 0 .. MaxSends /\ MaxSends \in Nat /\ message_free \in Nat
      /\ received \in [PCB -> Copies]
  BY MessageQueuesAssumption DEF MQInv, Accounted, MQTyped
<1>4. sent + 1 \in 1 .. MaxSends /\ sent + 1 \in 0 .. MaxSends
  BY <1>1, <1>3
<1>5. /\ Append(c.messages, sent + 1) \in Seq(1 .. MaxSends)
      /\ Len(Append(c.messages, sent + 1)) = Len(c.messages) + 1
  BY <1>2, <1>4
<1>6. /\ q \in QueueRecord
      /\ q.users = c.users /\ q.max_msg = c.max_msg
      /\ q.messages = Append(c.messages, sent + 1)
      /\ q.msg_num = c.msg_num + 1
  <2>. DEFINE m == Append(c.messages, sent + 1)
  <2>1. c \in QueueRecord /\ m \in Seq(1 .. MaxSends) /\ c.msg_num + 1 \in Nat
    BY <1>2, <1>5
  <2>2. q = [c EXCEPT !.messages = m, !.msg_num = @ + 1]
    OBVIOUS
  <2>. HIDE DEF c, m, q
  <2>. QED  BY <2>1, <2>2 DEF QueueRecord, m
<1>7. c.msg_num # c.max_msg
  BY <1>1, <1>2 DEF Full
<1>. HIDE DEF c, q
<1>8. /\ q.msg_num = Len(q.messages)
      /\ q.max_msg < 0 \/ q.msg_num <= q.max_msg
      /\ message_free' \in Nat
      /\ message_free' + Len(q.messages) = message_free + Len(c.messages)
  <2>1. Len(q.messages) = Len(c.messages) + 1
    BY <1>5, <1>6, Zenon
  <2>2. q.msg_num = Len(q.messages)
    BY <1>2, <1>6, <2>1
  <2>3. q.max_msg < 0 \/ q.msg_num <= q.max_msg
    BY <1>2, <1>6, <1>7
  <2>4. message_free' \in Nat
    BY <1>1, <1>3
  <2>5. message_free' + Len(q.messages) = message_free + Len(c.messages)
    <3>. DEFINE now == Len(q.messages)
                before == Len(c.messages)
    <3>1. message_free' = message_free - 1
      BY <1>1
    <3>2. message_free \in Nat /\ before \in Nat /\ now = before + 1
      BY <1>2, <1>3, <2>1
    <3>. HIDE DEF now, before
    <3>3. message_free' + now = message_free + before
      BY <3>1, <3>2
    <3>. QED  BY <3>3 DEF now, before
  <2>. QED  BY <2>2, <2>3, <2>4, <2>5
<1>. QED  BY <1>1, <1>2, <1>3, <1>4, <1>6, <1>8, MessagesMove DEF c

LEMMA ReceivesAccounted ==
  ASSUME MQInv, NEW mqd, NEW msg_len, Receives(mqd, msg_len)
  PROVE  MQInv'
<1>. DEFINE id == descrittori[running][mqd]
            c  == messagequeues[id]
            q  == [c EXCEPT !.messages = Tail(@), !.msg_num = @ - 1]
<1>1. /\ Answers(0) /\ Runs /\ HasMqd(mqd) /\ Queue(mqd).msg_num # 0
      /\ messagequeues' = [messagequeues EXCEPT ![id] = q]
      /\ received' = [received EXCEPT
                        ![running] = [from |-> id, number |-> Head(Queue(mqd).messages)]]
      /\ message_free' = message_free + 1
      /\ UNCHANGED <<descrittori, last_mqd, descrittore_free, sent>>
  BY MayReceiveHas DEF Receives
<1>2. /\ id \in DOMAIN messagequeues /\ id \in MQIds
      /\ Queue(mqd) = c /\ c \in QueueRecord /\ c.max_msg \in Int
      /\ c.messages \in Seq(1 .. MaxSends) /\ Len(c.messages) \in Nat
      /\ c.msg_num = Len(c.messages)
      /\ c.max_msg < 0 \/ c.msg_num <= c.max_msg
  BY <1>1, OpenQueue
<1>3. /\ sent \in 0 .. MaxSends /\ message_free \in Nat
      /\ received \in [PCB -> Copies]
  BY DEF MQInv, Accounted, MQTyped
<1>4. c.msg_num # 0
  BY <1>1, <1>2
<1>5. /\ Tail(c.messages) \in Seq(1 .. MaxSends)
      /\ Len(Tail(c.messages)) = Len(c.messages) - 1
      /\ Head(c.messages) \in 1 .. MaxSends
      /\ Len(c.messages) - 1 \in Nat
  <2>. DEFINE m == c.messages
  <2>1. m \in Seq(1 .. MaxSends) /\ Len(m) \in Nat /\ Len(m) # 0
    BY <1>2, <1>4
  <2>. HIDE DEF m
  <2>2. m # <<>> /\ Len(m) - 1 \in Nat
    BY <2>1
  <2>3. Tail(m) \in Seq(1 .. MaxSends) /\ Head(m) \in 1 .. MaxSends
    <3>. DEFINE N == 1 .. MaxSends
    <3>. HIDE DEF N
    <3>. QED  BY <2>1, <2>2, DetachHead DEF N
  <2>4. Len(Tail(m)) = Len(m) - 1
    BY <2>1, <2>2
  <2>. QED  BY <2>2, <2>3, <2>4 DEF m
<1>6. /\ q \in QueueRecord
      /\ q.users = c.users /\ q.max_msg = c.max_msg
      /\ q.messages = Tail(c.messages)
      /\ q.msg_num = c.msg_num - 1
  BY <1>2, <1>5 DEF QueueRecord
<1>7. received' \in [PCB -> Copies]
  BY <1>1, <1>2, <1>3, <1>5 DEF Copies
<1>. HIDE DEF c, q
<1>8. /\ q.msg_num = Len(q.messages)
      /\ q.max_msg < 0 \/ q.msg_num <= q.max_msg
      /\ message_free' \in Nat
      /\ message_free' + Len(q.messages) = message_free + Len(c.messages)
  <2>1. Len(q.messages) = Len(c.messages) - 1
    BY <1>5, <1>6, Zenon
  <2>2. q.msg_num = Len(q.messages)
    BY <1>2, <1>6, <2>1
  <2>3. q.max_msg < 0 \/ q.msg_num <= q.max_msg
    BY <1>2, <1>6
  <2>4. message_free' \in Nat
    BY <1>1, <1>3
  <2>5. message_free' + Len(q.messages) = message_free + Len(c.messages)
    <3>. DEFINE now == Len(q.messages)
                before == Len(c.messages)
    <3>1. message_free' = message_free + 1
      BY <1>1
    <3>2. message_free \in Nat /\ before \in Nat /\ now = before - 1
      BY <1>2, <1>3, <2>1
    <3>. HIDE DEF now, before
    <3>3. message_free' + now = message_free + before
      BY <3>1, <3>2
    <3>. QED  BY <3>3 DEF now, before
  <2>. QED  BY <2>2, <2>3, <2>4, <2>5
<1>. QED  BY <1>1, <1>2, <1>3, <1>6, <1>7, <1>8, MessagesMove DEF c

(* A queue is created, without messages.                                   *)
LEMMA QueueCreated ==
  ASSUME MQTyped, QueuesCounted, NEW id \in MQIds, id \notin DOMAIN messagequeues,
         NEW q \in QueueRecord, q.messages = <<>>, q.msg_num = 0,
         DOMAIN messagequeues' = DOMAIN messagequeues \cup {id},
         messagequeues'[id] = q,
         \A i \in DOMAIN messagequeues : messagequeues'[i] = messagequeues[i],
         messagequeues' = [i \in DOMAIN messagequeues' |-> messagequeues'[i]]
  PROVE  /\ IsFiniteSet(DOMAIN messagequeues')
         /\ DOMAIN messagequeues' \subseteq MQIds
         /\ messagequeues' \in [DOMAIN messagequeues' -> QueueRecord]
         /\ QueuesCounted'
         /\ UsersSum' = UsersSum + q.users
         /\ LengthsSum' = LengthsSum
<1>. DEFINE S == DOMAIN messagequeues
            T == DOMAIN messagequeues'
            f == Users
            g == Users'
            h == Lengths
            k == Lengths'
<1>1. IsFiniteSet(S) /\ T = S \cup {id} /\ id \notin S /\ id \in T /\ S \subseteq MQIds
  BY DEF MQTyped
<1>2. IsFiniteSet(T)
  <2>. HIDE DEF S, T
  <2>. QED  BY <1>1, FS_AddElement
<1>3. \A i \in S : messagequeues[i] \in QueueRecord
  BY DEF MQTyped
<1>4. messagequeues' \in [T -> QueueRecord]
  BY <1>1, <1>3
<1>5. q.users \in Nat /\ q.max_msg \in Int /\ Len(q.messages) = 0
  BY MessageQueuesAssumption DEF QueueRecord
<1>6. QueuesCounted'
  <2>1. ASSUME NEW i \in T
        PROVE  LET c == messagequeues'[i]
               IN  /\ c.msg_num = Len(c.messages)
                   /\ c.max_msg < 0 \/ c.msg_num <= c.max_msg
    <3>1. CASE i = id
      BY <1>5, <3>1
    <3>2. CASE i \in S
      BY <3>2 DEF QueuesCounted
    <3>. QED  BY <1>1, <3>1, <3>2
  <2>. QED  BY <2>1 DEF QueuesCounted
<1>7. \A i \in S : /\ f[i] = messagequeues[i].users /\ f[i] \in Nat
                   /\ h[i] = Len(messagequeues[i].messages) /\ h[i] \in Nat
  BY QueuesTyped
<1>8. \A i \in T : g[i] = messagequeues'[i].users /\ k[i] = Len(messagequeues'[i].messages)
  BY DEF Users, Lengths
<1>9. \A i \in S : g[i] = f[i] /\ k[i] = h[i]
  BY <1>1, <1>7, <1>8
<1>10. g[id] = q.users /\ k[id] = 0
  BY <1>1, <1>5, <1>8
<1>11. /\ UsersSum' = SumFunctionOnSet(g, T) /\ LengthsSum' = SumFunctionOnSet(k, T)
       /\ UsersSum = SumFunctionOnSet(f, S) /\ LengthsSum = SumFunctionOnSet(h, S)
  BY DEF UsersSum, LengthsSum
<1>12. LengthsSum \in Nat
  BY QueuesTyped
<1>. HIDE DEF S, T, f, g, h, k
<1>13. SumFunctionOnSet(g, T) = SumFunctionOnSet(f, S) + g[id]
  <2>1. \A i \in S : f[i] \in Nat /\ g[i] = f[i]
    BY <1>7, <1>9
  <2>2. g[id] \in Nat
    BY <1>5, <1>10
  <2>. QED  BY <1>1, <2>1, <2>2, SumWith
<1>14. SumFunctionOnSet(k, T) = SumFunctionOnSet(h, S) + k[id]
  <2>1. \A i \in S : h[i] \in Nat /\ k[i] = h[i]
    BY <1>7, <1>9
  <2>2. k[id] \in Nat
    BY <1>10
  <2>. QED  BY <1>1, <2>1, <2>2, SumWith
<1>15. UsersSum' = UsersSum + q.users /\ LengthsSum' = LengthsSum
  BY <1>10, <1>11, <1>12, <1>13, <1>14
<1>. QED  BY <1>1, <1>2, <1>4, <1>6, <1>15 DEF T

(* The queue that an open gets, newly created or found.                    *)
LEMMA OpenedQueue ==
  ASSUME MQInv, NEW id \in MQIds, NEW type \in Types, NEW msg_size \in MsgSizes,
         NEW max_msg \in MaxMsgs, NEW mode, OpenError(id, type, mode) = NULL,
         messagequeues' = [WithQueue(id, type, msg_size, max_msg, mode) EXCEPT ![id].users = @ + 1]
  PROVE  /\ IsFiniteSet(DOMAIN messagequeues')
         /\ DOMAIN messagequeues' \subseteq MQIds
         /\ messagequeues' \in [DOMAIN messagequeues' -> QueueRecord]
         /\ QueuesCounted'
         /\ UsersSum' = UsersSum + 1
         /\ LengthsSum' = LengthsSum
         /\ id \in DOMAIN messagequeues'
         /\ messagequeues'[id].users = IF Exists(id) THEN messagequeues[id].users + 1 ELSE 1
         /\ \A i \in MQIds \ {id} : Exists(i)' <=> Exists(i)
         /\ \A i \in DOMAIN messagequeues \ {id} : messagequeues'[i] = messagequeues[i]
<1>1. MQTyped /\ QueuesCounted
  BY DEF MQInv, Accounted
<1>2. CASE DSOS_CREATE \in mode
  <2>. DEFINE new == MessageQueue(type, msg_size, max_msg)
              q == [new EXCEPT !.users = @ + 1]
  <2>1. id \notin DOMAIN messagequeues
    BY <1>2, KernelAssumption DEF OpenError, Exists, DSOS_EMESSAGEQUEUECREATE
  <2>2. messagequeues' = [With(messagequeues, id, new) EXCEPT ![id].users = @ + 1]
    BY <1>2 DEF WithQueue
  <2>3. /\ q \in QueueRecord /\ q.messages = <<>> /\ q.msg_num = 0 /\ q.users = 1
    <3>. DEFINE none == <<>>
    <3>1. none \in Seq(1 .. MaxSends)
      BY EmptySeq
    <3>2. new = [type |-> type, msg_size |-> msg_size, max_msg |-> max_msg,
                 msg_num |-> 0, users |-> 0, messages |-> none]
      BY DEF MessageQueue
    <3>. HIDE DEF none, new
    <3>3. q = [type |-> type, msg_size |-> msg_size, max_msg |-> max_msg,
               msg_num |-> 0, users |-> 1, messages |-> none]
      BY <3>2
    <3>. HIDE DEF q
    <3>4. q \in QueueRecord /\ q.messages = none /\ q.msg_num = 0 /\ q.users = 1
      BY <3>1, <3>3 DEF QueueRecord
    <3>. QED  BY <3>4 DEF none
  <2>. HIDE DEF new
  <2>4. /\ DOMAIN messagequeues' = DOMAIN messagequeues \cup {id}
        /\ messagequeues'[id] = q
        /\ \A i \in DOMAIN messagequeues : messagequeues'[i] = messagequeues[i]
        /\ messagequeues' = [i \in DOMAIN messagequeues' |-> messagequeues'[i]]
    BY <2>1, <2>2 DEF With
  <2>. HIDE DEF q
  <2>5. /\ IsFiniteSet(DOMAIN messagequeues')
        /\ DOMAIN messagequeues' \subseteq MQIds
        /\ messagequeues' \in [DOMAIN messagequeues' -> QueueRecord]
        /\ QueuesCounted'
        /\ UsersSum' = UsersSum + q.users
        /\ LengthsSum' = LengthsSum
    BY <1>1, <2>1, <2>3, <2>4, QueueCreated
  <2>. QED  BY <2>1, <2>3, <2>4, <2>5 DEF Exists
<1>3. CASE DSOS_CREATE \notin mode
  <2>. DEFINE q == [messagequeues[id] EXCEPT !.users = @ + 1]
  <2>1. id \in DOMAIN messagequeues
    BY <1>3, KernelAssumption DEF OpenError, Exists, DSOS_EMESSAGEQUEUEOPEN
  <2>2. messagequeues' = [messagequeues EXCEPT ![id] = q]
    BY <1>3 DEF WithQueue
  <2>3. messagequeues[id] \in QueueRecord
    BY <1>1, <2>1 DEF MQTyped
  <2>4. /\ q \in QueueRecord
        /\ q.users = messagequeues[id].users + 1 /\ messagequeues[id].users \in Nat
        /\ q.messages = messagequeues[id].messages
        /\ q.msg_num = messagequeues[id].msg_num /\ q.max_msg = messagequeues[id].max_msg
    BY <2>3 DEF QueueRecord
  <2>. HIDE DEF q
  <2>5. /\ DOMAIN messagequeues' = DOMAIN messagequeues
        /\ messagequeues'[id] = q
        /\ \A i \in DOMAIN messagequeues \ {id} : messagequeues'[i] = messagequeues[i]
        /\ messagequeues' \in [DOMAIN messagequeues -> QueueRecord]
    BY <1>1, <2>1, <2>2, <2>4, ChangedQueue
  <2>6. /\ UsersSum' = UsersSum - messagequeues[id].users + messagequeues'[id].users
        /\ LengthsSum' = LengthsSum - Len(messagequeues[id].messages)
                           + Len(messagequeues'[id].messages)
    BY <1>1, <2>1, <2>4, <2>5, QueueChange
  <2>7. UsersSum \in Nat /\ LengthsSum \in Nat /\ Len(messagequeues[id].messages) \in Nat
    <3>1. Lengths[id] = Len(messagequeues[id].messages) /\ Lengths[id] \in Nat
      BY <1>1, <2>1, QueuesTyped
    <3>. QED  BY <1>1, <3>1, QueuesTyped
  <2>8. UsersSum' = UsersSum + 1
    BY <2>4, <2>5, <2>6, <2>7
  <2>9. LengthsSum' = LengthsSum
    BY <2>4, <2>5, <2>6, <2>7
  <2>10. QueuesCounted'
    <3>1. SUFFICES ASSUME NEW i \in DOMAIN messagequeues
                   PROVE  LET m == messagequeues'[i]
                          IN  /\ m.msg_num = Len(m.messages)
                              /\ m.max_msg < 0 \/ m.msg_num <= m.max_msg
      BY <2>5 DEF QueuesCounted
    <3>2. /\ messagequeues[i].msg_num = Len(messagequeues[i].messages)
          /\ messagequeues[i].max_msg < 0 \/ messagequeues[i].msg_num <= messagequeues[i].max_msg
      BY <1>1 DEF QueuesCounted
    <3>3. CASE i = id
      BY <2>4, <2>5, <3>2, <3>3
    <3>4. CASE i # id
      BY <2>5, <3>2, <3>4
    <3>. QED  BY <3>3, <3>4
  <2>. QED  BY <1>1, <2>1, <2>4, <2>5, <2>8, <2>9, <2>10 DEF Exists, MQTyped
<1>. QED  BY <1>2, <1>3

(* An open adds a user, and the mqd it hands out is new.                   *)
LEMMA OpensAccounted ==
  ASSUME MQInv, NEW id \in MQIds, NEW type \in Types, NEW msg_size \in MsgSizes,
         NEW max_msg \in MaxMsgs, NEW mode, Opens(id, type, msg_size, max_msg, mode)
  PROVE  MQInv'
<1>. DEFINE mqd == last_mqd[running]
            t   == descrittori[running]
<1>1. /\ Answers(mqd) /\ mqd < MaxMqd /\ descrittore_free > 0
      /\ OpenError(id, type, mode) = NULL
      /\ messagequeues' = [WithQueue(id, type, msg_size, max_msg, mode)
                             EXCEPT ![id].users = @ + 1]
      /\ descrittori' = [descrittori EXCEPT ![running] = With(t, mqd, id)]
      /\ last_mqd' = [last_mqd EXCEPT ![running] = mqd + 1]
      /\ descrittore_free' = descrittore_free - 1
      /\ UNCHANGED <<message_free, sent, received>>
  BY DEF Opens
<1>2. /\ running \in PCB /\ Live \in SUBSET PCB /\ running \in Live
      /\ MaxMqd \in Nat /\ t \in Tables(MaxMqd, MQIds) /\ IsFiniteSet(DOMAIN t)
      /\ descrittori \in [PCB -> Tables(MaxMqd, MQIds)]
      /\ last_mqd \in [PCB -> 0 .. MaxMqd]
  BY <1>1, Caller DEF Answers, Trap
<1>3. MQTyped /\ QueuesCounted /\ UsersCoverHeld
  BY DEF MQInv, Accounted
<1>4. /\ mqd \in 0 .. MaxMqd - 1 /\ mqd \in Int /\ mqd + 1 \in 0 .. MaxMqd
      /\ mqd \notin DOMAIN t
  <2>1. mqd \in 0 .. MaxMqd /\ \A d \in DOMAIN t : d < mqd
    BY <1>2, <1>3 DEF MQTyped
  <2>. QED  BY <1>1, <1>2, <2>1
<1>5. IInv' /\ Live' = Live
  BY <1>1, <1>4, Answered
<1>6. /\ IsFiniteSet(DOMAIN messagequeues')
      /\ DOMAIN messagequeues' \subseteq MQIds
      /\ messagequeues' \in [DOMAIN messagequeues' -> QueueRecord]
      /\ QueuesCounted'
      /\ UsersSum' = UsersSum + 1
      /\ LengthsSum' = LengthsSum
      /\ id \in DOMAIN messagequeues'
      /\ messagequeues'[id].users = IF Exists(id) THEN messagequeues[id].users + 1 ELSE 1
      /\ \A i \in MQIds \ {id} : Exists(i)' <=> Exists(i)
      /\ \A i \in DOMAIN messagequeues \ {id} : messagequeues'[i] = messagequeues[i]
  BY <1>1, OpenedQueue
<1>7. /\ descrittori'[running] = With(t, mqd, id)
      /\ \A p \in PCB \ {running} : descrittori'[p] = descrittori[p]
  BY <1>1, <1>2
<1>8. /\ descrittori'[running] \in Tables(MaxMqd, MQIds)
      /\ DOMAIN descrittori'[running] = DOMAIN t \cup {mqd}
      /\ Cardinality(Entries(descrittori'[running], id)) = Cardinality(Entries(t, id)) + 1
      /\ \A u : u # id => Entries(descrittori'[running], u) = Entries(t, u)
  <2>1. With(t, mqd, id) \in Tables(MaxMqd, MQIds)
    BY <1>2, <1>4, TableOpen
  <2>2. /\ DOMAIN With(t, mqd, id) = DOMAIN t \cup {mqd}
        /\ Cardinality(Entries(With(t, mqd, id), id)) = Cardinality(Entries(t, id)) + 1
    BY <1>2, <1>4, EntryAdded
  <2>3. \A u : u # id => Entries(With(t, mqd, id), u) = Entries(t, u)
    BY <1>4, OtherEntriesStay
  <2>. QED  BY <1>7, <2>1, <2>2, <2>3
<1>9. descrittori' \in [PCB -> Tables(MaxMqd, MQIds)]
  BY <1>1, <1>2, <1>7, <1>8
<1>10. MQTyped'
  <2>1. last_mqd' \in [PCB -> 0 .. MaxMqd]
    BY <1>1, <1>2, <1>4
  <2>2. descrittore_free' \in Nat
    BY <1>1, <1>3 DEF MQTyped
  <2>3. ASSUME NEW p \in PCB, NEW d \in DOMAIN descrittori'[p]
        PROVE  d < last_mqd'[p]
    <3>1. CASE p = running
      <4>1. last_mqd'[p] = mqd + 1 /\ d \in DOMAIN t \cup {mqd}
        BY <1>1, <1>2, <1>8, <3>1
      <4>2. \A c \in DOMAIN t : c < mqd /\ c \in Int
        <5>1. DOMAIN t \subseteq 0 .. MaxMqd - 1
          BY <1>2, TableFinite
        <5>. QED  BY <1>2, <1>3, <5>1 DEF MQTyped
      <4>. QED  BY <1>4, <4>1, <4>2
    <3>2. CASE p # running
      <4>1. last_mqd'[p] = last_mqd[p] /\ descrittori'[p] = descrittori[p]
        BY <1>1, <1>2, <1>7, <3>2
      <4>. QED  BY <1>3, <4>1 DEF MQTyped
    <3>. QED  BY <3>1, <3>2
  <2>4. /\ message_free' \in Nat /\ sent' \in 0 .. MaxSends /\ received' \in [PCB -> Copies]
    BY <1>1, <1>3 DEF MQTyped
  <2>. QED  BY <1>6, <1>9, <2>1, <2>2, <2>3, <2>4 DEF MQTyped
<1>11. UsersCoverHeld'
  <2>1. ASSUME NEW i \in MQIds
        PROVE  IF Exists(i)' THEN Held(descrittori', Live', i) <= messagequeues'[i].users
                             ELSE Held(descrittori', Live', i) = 0
    <3>1. \A v : Held(descrittori', Live, v)
                  = Held(descrittori, Live, v) - Cardinality(Entries(t, v))
                      + Cardinality(Entries(descrittori'[running], v))
      BY <1>2, <1>7, <1>9, HeldChange
    <3>2. Held(descrittori, Live, i) \in Nat
      BY <1>3, HeldTyped
    <3>3. Cardinality(Entries(t, i)) \in Nat
      BY <1>2, TableFinite
    <3>4. IF Exists(i) THEN Held(descrittori, Live, i) <= messagequeues[i].users
                       ELSE Held(descrittori, Live, i) = 0
      BY <1>3 DEF UsersCoverHeld
    <3>5. Exists(i) => messagequeues[i].users \in Nat
      BY <1>3, QueuesTyped DEF Exists, QueueRecord
    <3>6. CASE i = id
      <4>1. Held(descrittori', Live', i) = Held(descrittori, Live, i) + 1
        BY <1>5, <1>8, <3>1, <3>2, <3>3, <3>6
      <4>2. /\ Exists(i)'
            /\ messagequeues'[i].users = IF Exists(i) THEN messagequeues[i].users + 1 ELSE 1
        BY <1>6, <3>6 DEF Exists
      <4>. QED  BY <3>2, <3>4, <3>5, <4>1, <4>2
    <3>7. CASE i # id
      <4>1. Held(descrittori', Live', i) = Held(descrittori, Live, i)
        BY <1>5, <1>8, <3>1, <3>2, <3>3, <3>7
      <4>2. Exists(i)' <=> Exists(i)
        BY <1>6, <3>7
      <4>3. Exists(i) => messagequeues'[i] = messagequeues[i]
        BY <1>6, <3>7 DEF Exists
      <4>. QED  BY <3>4, <4>1, <4>2, <4>3
    <3>. QED  BY <3>6, <3>7
  <2>. QED  BY <2>1 DEF UsersCoverHeld
<1>12. DescrittoriAccounted' /\ MessagesAccounted'
  <2>1. /\ descrittore_free + UsersSum = MAX_NUM_PROCESSES
        /\ message_free + LengthsSum = MAX_NUM_MESSAGES
    BY Accounts DEF MQInv, Accounted
  <2>2. UsersSum \in Nat /\ descrittore_free \in Nat
    BY <1>3, QueuesTyped DEF MQTyped
  <2>3. descrittore_free' + UsersSum' = MAX_NUM_PROCESSES
    BY <1>1, <1>6, <2>1, <2>2
  <2>. QED  BY <1>1, <1>6, <2>1, <2>3, AccountsAfter
<1>. QED  BY <1>5, <1>6, <1>10, <1>11, <1>12 DEF MQInv, Accounted

(* A queue that an open without a descrittore leaves behind has no users.  *)
LEMMA OpenWithoutDescrittoreAccounted ==
  ASSUME MQInv, NEW id \in MQIds, NEW type \in Types, NEW msg_size \in MsgSizes,
         NEW max_msg \in MaxMsgs, NEW mode,
         OpenWithoutDescrittore(id, type, msg_size, max_msg, mode)
  PROVE  MQInv'
<1>1. /\ Answers(DSOS_EMESSAGEQUEUENOFD) /\ DSOS_EMESSAGEQUEUENOFD \in Int
      /\ OpenError(id, type, mode) = NULL
      /\ messagequeues' = WithQueue(id, type, msg_size, max_msg, mode)
      /\ UNCHANGED <<descrittori, last_mqd, descrittore_free, message_free, sent, received>>
  BY DEF OpenWithoutDescrittore, DSOS_EMESSAGEQUEUENOFD
<1>2. IInv' /\ Live' = Live
  BY <1>1, Answered
<1>3. MQTyped /\ QueuesCounted /\ UsersCoverHeld
  BY DEF MQInv, Accounted
<1>4. CASE DSOS_CREATE \notin mode
  <2>1. UNCHANGED mqVars
    BY <1>1, <1>4 DEF WithQueue, mqVars
  <2>. QED  BY <1>2, <2>1, SameAccounts DEF MQInv
<1>5. CASE DSOS_CREATE \in mode
  <2>. DEFINE q == MessageQueue(type, msg_size, max_msg)
  <2>1. id \notin DOMAIN messagequeues
    BY <1>1, <1>5, KernelAssumption DEF OpenError, Exists, DSOS_EMESSAGEQUEUECREATE
  <2>2. messagequeues' = With(messagequeues, id, q)
    BY <1>1, <1>5 DEF WithQueue
  <2>3. q \in QueueRecord /\ q.messages = <<>> /\ q.msg_num = 0 /\ q.users = 0
    <3>. DEFINE none == <<>>
    <3>1. none \in Seq(1 .. MaxSends)
      BY EmptySeq
    <3>2. q = [type |-> type, msg_size |-> msg_size, max_msg |-> max_msg,
               msg_num |-> 0, users |-> 0, messages |-> none]
      BY DEF MessageQueue
    <3>. HIDE DEF none, q
    <3>3. q \in QueueRecord /\ q.messages = none /\ q.msg_num = 0 /\ q.users = 0
      BY <3>1, <3>2 DEF QueueRecord
    <3>. QED  BY <3>3 DEF none
  <2>. HIDE DEF q
  <2>4. /\ DOMAIN messagequeues' = DOMAIN messagequeues \cup {id}
        /\ messagequeues'[id] = q
        /\ \A i \in DOMAIN messagequeues : messagequeues'[i] = messagequeues[i]
        /\ messagequeues' = [i \in DOMAIN messagequeues' |-> messagequeues'[i]]
    BY <2>1, <2>2 DEF With
  <2>5. /\ IsFiniteSet(DOMAIN messagequeues')
        /\ DOMAIN messagequeues' \subseteq MQIds
        /\ messagequeues' \in [DOMAIN messagequeues' -> QueueRecord]
        /\ QueuesCounted'
        /\ UsersSum' = UsersSum + q.users
        /\ LengthsSum' = LengthsSum
    BY <1>3, <2>1, <2>3, <2>4, QueueCreated
  <2>6. MQTyped'
    BY <1>1, <1>3, <2>5 DEF MQTyped
  <2>7. UsersCoverHeld'
    <3>1. \A i \in MQIds : Held(descrittori', Live', i) = Held(descrittori, Live, i)
      BY <1>1, <1>2
    <3>2. Held(descrittori, Live, id) = 0
      BY <1>3, <2>1 DEF UsersCoverHeld, Exists
    <3>3. \A i \in MQIds \ {id} : i \in DOMAIN messagequeues' <=> i \in DOMAIN messagequeues
      BY <2>4
    <3>. QED  BY <1>3, <2>3, <2>4, <3>1, <3>2, <3>3 DEF UsersCoverHeld, Exists
  <2>8. UsersSum' = UsersSum
    BY <1>3, <2>3, <2>5, QueuesTyped
  <2>9. DescrittoriAccounted' /\ MessagesAccounted'
    BY <1>1, <2>5, <2>8, Accounts, AccountsAfter DEF MQInv, Accounted
  <2>. QED  BY <1>2, <2>5, <2>6, <2>7, <2>9 DEF MQInv, Accounted
<1>. QED  BY <1>4, <1>5

(* An unlink gives back the messages that are left, all of them.           *)
LEMMA UnlinksAccounted ==
  ASSUME MQInv, NEW id, Unlinks(id)
  PROVE  MQInv'
<1>. DEFINE S == DOMAIN messagequeues
            T == DOMAIN messagequeues'
            f == Users
            g == Users'
            h == Lengths
            k == Lengths'
<1>1. /\ Answers(0) /\ id \in S /\ ~(messagequeues[id].users > 0)
      /\ messagequeues' = Without(messagequeues, id)
      /\ message_free' = message_free + messagequeues[id].msg_num
      /\ UNCHANGED <<descrittori, last_mqd, descrittore_free, sent, received>>
  BY DEF Unlinks, Exists, InUse, Leftovers
<1>2. IInv' /\ Live' = Live
  BY <1>1, Answered
<1>3. MQTyped /\ QueuesCounted /\ UsersCoverHeld
  BY DEF MQInv, Accounted
<1>4. /\ T = S \ {id} /\ IsFiniteSet(S)
      /\ \A i \in T : messagequeues'[i] = messagequeues[i]
      /\ messagequeues' \in [T -> QueueRecord]
  <2>1. IsFiniteSet(S) /\ messagequeues \in [S -> QueueRecord]
    BY <1>3 DEF MQTyped
  <2>. QED  BY <1>1, <2>1 DEF Without, Restrict
<1>5. IsFiniteSet(T)
  <2>. HIDE DEF S, T
  <2>. QED  BY <1>4, FS_RemoveElement
<1>6. /\ messagequeues[id].users = 0
      /\ messagequeues[id].msg_num = Len(messagequeues[id].messages)
      /\ Len(messagequeues[id].messages) \in Nat
  <2>1. /\ messagequeues[id] \in QueueRecord
        /\ Lengths[id] = Len(messagequeues[id].messages) /\ Lengths[id] \in Nat
    BY <1>1, <1>3, QueuesTyped
  <2>2. messagequeues[id].users \in Nat
    BY <2>1 DEF QueueRecord
  <2>. QED  BY <1>1, <1>3, <2>1, <2>2 DEF QueuesCounted
<1>7. MQTyped'
  <2>1. message_free' \in Nat
    BY <1>1, <1>3, <1>6 DEF MQTyped
  <2>. QED  BY <1>1, <1>3, <1>4, <1>5, <2>1 DEF MQTyped
<1>8. QueuesCounted'
  BY <1>3, <1>4 DEF QueuesCounted
<1>9. UsersCoverHeld'
  <2>1. ASSUME NEW i \in MQIds
        PROVE  IF Exists(i)' THEN Held(descrittori', Live', i) <= messagequeues'[i].users
                             ELSE Held(descrittori', Live', i) = 0
    <3>1. Held(descrittori', Live', i) = Held(descrittori, Live, i)
      BY <1>1, <1>2
    <3>2. Held(descrittori, Live, i) \in Nat
      BY <1>3, HeldTyped
    <3>3. IF Exists(i) THEN Held(descrittori, Live, i) <= messagequeues[i].users
                       ELSE Held(descrittori, Live, i) = 0
      BY <1>3 DEF UsersCoverHeld
    <3>4. CASE i = id
      BY <1>1, <1>4, <1>6, <3>1, <3>2, <3>3, <3>4 DEF Exists
    <3>5. CASE i # id
      BY <1>4, <3>1, <3>3, <3>5 DEF Exists
    <3>. QED  BY <3>4, <3>5
  <2>. QED  BY <2>1 DEF UsersCoverHeld
<1>10. \A i \in S : /\ f[i] = messagequeues[i].users /\ f[i] \in Nat
                    /\ h[i] = Len(messagequeues[i].messages) /\ h[i] \in Nat
  BY <1>3, QueuesTyped
<1>11. \A i \in T : g[i] = messagequeues'[i].users /\ k[i] = Len(messagequeues'[i].messages)
  BY DEF Users, Lengths
<1>12. \A i \in S \ {id} : g[i] = f[i] /\ k[i] = h[i]
  BY <1>4, <1>10, <1>11
<1>13. /\ UsersSum' = SumFunctionOnSet(g, T) /\ LengthsSum' = SumFunctionOnSet(k, T)
       /\ UsersSum = SumFunctionOnSet(f, S) /\ LengthsSum = SumFunctionOnSet(h, S)
  BY DEF UsersSum, LengthsSum
<1>14. f[id] = 0 /\ h[id] = messagequeues[id].msg_num /\ h[id] \in Nat
  BY <1>1, <1>6, <1>10
<1>15. UsersSum \in Nat /\ LengthsSum \in Nat
  BY <1>3, QueuesTyped
<1>16. DescrittoriAccounted' /\ MessagesAccounted'
  <2>. HIDE DEF S, T, f, g, h, k
  <2>1. SumFunctionOnSet(g, T) = SumFunctionOnSet(f, S) - f[id]
    <3>1. (\A i \in S : f[i] \in Nat) /\ (\A i \in S \ {id} : g[i] = f[i])
      BY <1>10, <1>12
    <3>. QED  BY <1>1, <1>4, <3>1, SumWithout
  <2>2. SumFunctionOnSet(k, T) = SumFunctionOnSet(h, S) - h[id]
    <3>1. (\A i \in S : h[i] \in Nat) /\ (\A i \in S \ {id} : k[i] = h[i])
      BY <1>10, <1>12
    <3>. QED  BY <1>1, <1>4, <3>1, SumWithout
  <2>3. UsersSum' = UsersSum /\ LengthsSum' = LengthsSum - h[id]
    BY <1>13, <1>14, <1>15, <2>1, <2>2
  <2>4. /\ descrittore_free + UsersSum = MAX_NUM_PROCESSES
        /\ message_free + LengthsSum = MAX_NUM_MESSAGES
        /\ message_free \in Nat
    BY <1>3, Accounts DEF MQInv, Accounted, MQTyped
  <2>5. message_free' + LengthsSum' = MAX_NUM_MESSAGES
    BY <1>1, <1>14, <1>15, <2>3, <2>4
  <2>. QED  BY <1>1, <2>3, <2>4, <2>5, AccountsAfter
<1>. QED  BY <1>2, <1>7, <1>8, <1>9, <1>16 DEF MQInv, Accounted

(* A call that sleeps, or finds no timer to sleep on, moves nothing.       *)
LEMMA BlocksAccounted ==
  ASSUME MQInv, NEW retvalues \in [PCB -> Int], NEW error \in Int, Blocks(retvalues, error)
  PROVE  MQInv'
<1>1. /\ Runs /\ running \in PCB
      /\ wait_arg' = [wait_arg EXCEPT ![running] = NULL]
      /\ UNCHANGED <<machine, disastrOS_time, context, pcbVars, poolVars, zombie_list>>
      /\ UNCHANGED mqVars
      /\ disastrOS_time + MQCycles \in Nat
  BY MessageQueuesAssumption DEF Blocks, Trap, Runs, MQInv, IInv, TypeOK
<1>2. IInv'
  <2>1. CASE Len(timer_list) < MAX_NUM_PROCESSES
    <3>1. /\ WaitOnTimer(disastrOS_time + MQCycles)
          /\ syscall_retvalue' = [retvalues EXCEPT ![running'] = error]
      BY <2>1 DEF Blocks
    <3>2. syscall_retvalue' \in [PCB -> Int]
      BY <3>1
    <3>. QED  BY <1>1, <3>1, <3>2, WaitOnTimerIInv DEF MQInv
  <2>2. CASE ~(Len(timer_list) < MAX_NUM_PROCESSES)
    <3>1. /\ syscall_retvalue' = [syscall_retvalue EXCEPT ![running] = DSOS_ESLEEP]
          /\ UNCHANGED <<running, ready_list, waiting_list, timer_list, status>>
      BY <2>2 DEF Blocks, Return
    <3>2. syscall_retvalue' \in [PCB -> Int]
      BY <1>1, <3>1 DEF MQInv, IInv, TypeOK, DSOS_ESLEEP
    <3>3. UNCHANGED schedVars
      BY <1>1, <3>1 DEF schedVars
    <3>. QED  BY <1>1, <3>2, <3>3, AnswerIInv DEF MQInv
  <2>. QED  BY <2>1, <2>2
<1>3. Live' \subseteq Live
  BY <1>1 DEF Live, poolVars
<1>. QED  BY <1>1, <1>2, <1>3, SameAccounts DEF MQInv

(* The program ends.                                                       *)
LEMMA StopAccounted ==
  ASSUME MQInv, Stops, UNCHANGED mqVars, UNCHANGED pcb_pool
  PROVE  MQInv'
<1>1. IInv' /\ Live' \subseteq Live
  BY StopIInv DEF MQInv, Live
<1>. QED  BY <1>1, SameAccounts DEF MQInv

LEMMA StopsWhen ==
  ASSUME NEW how \in Machines, Stop(how)
  PROVE  Stops /\ UNCHANGED pcb_pool
BY DEF Stop, Stops, poolVars

-----------------------------------------------------------------------------
LEMMA InitMQInv == MQInit => MQInv
<1>. SUFFICES ASSUME MQInit PROVE MQInv
  OBVIOUS
<1>1. IInv
  BY InitIInv DEF MQInit
<1>2. /\ messagequeues = <<>> /\ DOMAIN messagequeues = {}
      /\ MaxMqd \in Nat /\ MaxSends \in Nat
      /\ MAX_NUM_MESSAGES \in Nat /\ MAX_NUM_PROCESSES \in Nat
  BY MessageQueuesAssumption, KernelAssumption DEF MQInit
<1>3. <<>> \in Tables(MaxMqd, MQIds) /\ DOMAIN <<>> = {}
  BY <1>2, EmptyTable
<1>4. MQTyped
  <2>1. messagequeues \in [DOMAIN messagequeues -> QueueRecord]
    BY <1>2
  <2>2. descrittori \in [PCB -> Tables(MaxMqd, MQIds)]
    BY <1>3 DEF MQInit
  <2>3. last_mqd \in [PCB -> 0 .. MaxMqd] /\ received \in [PCB -> Copies]
    BY <1>2 DEF MQInit, Copies
  <2>4. descrittore_free \in Nat /\ message_free \in Nat /\ sent \in 0 .. MaxSends
    BY <1>2 DEF MQInit
  <2>5. \A p \in PCB : DOMAIN descrittori[p] = {}
    BY <1>3 DEF MQInit
  <2>6. IsFiniteSet(DOMAIN messagequeues)
    BY <1>2, FS_EmptySet
  <2>. QED  BY <1>2, <2>1, <2>2, <2>3, <2>4, <2>5, <2>6 DEF MQTyped
<1>5. QueuesCounted
  BY <1>2 DEF QueuesCounted
<1>6. UsersCoverHeld
  <2>1. ASSUME NEW id \in MQIds PROVE Held(descrittori, Live, id) = 0
    <3>. DEFINE f == [p \in PCB |-> Cardinality(Entries(descrittori[p], id))]
    <3>1. \A p \in PCB : Entries(descrittori[p], id) = {}
      BY <1>2, EmptyTable DEF MQInit
    <3>2. \A p \in PCB : f[p] = 0
      BY <3>1, FS_EmptySet
    <3>3. IsFiniteSet(Live) /\ Live \subseteq PCB
      BY ProcessesFinite DEF Live
    <3>4. SumFunctionOnSet(f, Live) = 0
      <4>. HIDE DEF f
      <4>. QED  BY <3>2, <3>3, SumZero
    <3>. QED  BY <3>4 DEF Held
  <2>. QED  BY <1>2, <2>1 DEF UsersCoverHeld, Exists
<1>7. DescrittoriAccounted /\ MessagesAccounted
  <2>1. UsersSum = 0 /\ LengthsSum = 0
    BY <1>2, SumEmpty DEF UsersSum, LengthsSum
  <2>2. descrittore_free = MAX_NUM_PROCESSES /\ message_free = MAX_NUM_MESSAGES
    BY DEF MQInit
  <2>. QED  BY <1>2, <2>1, <2>2, Accounts
<1>. QED  BY <1>1, <1>4, <1>5, <1>6, <1>7 DEF MQInv, Accounted

(* The process calls that leave queues alone.                              *)
OtherCall ==
  \/ timerInterrupt
  \/ timerInterruptDies
  \/ RebootDies
  \/ internal_preempt
  \/ NewProcessDies
  \/ NoContext
  \/ \E q \in WaitPids : internal_wait(q)
  \/ ExitToReady
  \/ ExitDies
  \/ \E cycles \in SleepCycles : internal_sleep(cycles)
  \/ internal_shutdown

LEMMA OtherCallPutsNoneToUse ==
  ASSUME IInv, OtherCall
  PROVE  Live' \subseteq Live
<1>1. CASE \E q \in WaitPids : internal_wait(q)
  BY <1>1, WaitFreesBlocks DEF Live
<1>2. CASE ~\E q \in WaitPids : internal_wait(q)
  <2>1. UNCHANGED pcb_pool
    BY <1>2
    DEF OtherCall, timerInterrupt, timerInterruptDies, RebootDies, internal_preempt, NoContext,
        NewProcessDies, ExitToReady, ExitDies, internal_sleep, internal_shutdown, Stop, poolVars
  <2>. QED  BY <2>1 DEF Live
<1>. QED  BY <1>1, <1>2

LEMMA ProcessCallIInv ==
  IInv /\ (internal_spawn \/ internal_fork \/ Reboot \/ ExitToParent \/ OtherCall) => IInv'
<1>1. internal_spawn \/ internal_fork \/ Reboot \/ ExitToParent \/ OtherCall => Next
  BY Zenon DEF OtherCall, Next, internal_exit
<1>. QED  BY <1>1, NextIInv

LEMMA FailsAccounted ==
  ASSUME MQInv, NEW error \in Int, Fails(error)
  PROVE  MQInv'
<1>1. Answers(error) /\ UNCHANGED mqVars
  BY DEF Fails
<1>2. IInv' /\ Live' = Live
  BY <1>1, Answered
<1>. QED  BY <1>1, <1>2, SameAccounts DEF MQInv

LEMMA BlocksAloneAccounted ==
  ASSUME MQInv, BlocksAlone
  PROVE  MQInv'
<1>1. Stop("mq: nobody ready") /\ UNCHANGED mqVars /\ "mq: nobody ready" \in Machines
  BY DEF BlocksAlone, Machines
<1>. QED  BY <1>1, StopsWhen, StopAccounted

LEMMA OpenAccounted ==
  ASSUME MQInv, NEW id \in MQIds, NEW type \in Types, NEW msg_size \in MsgSizes,
         NEW max_msg \in MaxMsgs, NEW mode, internal_mq_open(id, type, msg_size, max_msg, mode)
  PROVE  MQInv'
<1>1. CASE OpenRefused(id, type, mode)
  <2>1. OpenError(id, type, mode) # NULL /\ Fails(OpenError(id, type, mode))
    BY <1>1 DEF OpenRefused
  <2>2. OpenError(id, type, mode) \in Int
    BY <2>1
    DEF OpenError, DSOS_EMESSAGEQUEUECREATE, DSOS_EMESSAGEQUEUEOPEN, DSOS_EMESSAGEQUEUENOEXCL
  <2>. QED  BY <2>1, <2>2, FailsAccounted
<1>2. CASE OpenWithoutDescrittore(id, type, msg_size, max_msg, mode)
  BY <1>2, OpenWithoutDescrittoreAccounted
<1>3. CASE Opens(id, type, msg_size, max_msg, mode)
  BY <1>3, OpensAccounted
<1>4. CASE OpenDies(id, type, mode)
  <2>1. /\ Stop("mq_open: no MessageQueue") /\ UNCHANGED mqVars
        /\ "mq_open: no MessageQueue" \in Machines
    BY <1>4 DEF OpenDies, Machines
  <2>. QED  BY <2>1, StopsWhen, StopAccounted
<1>. QED  BY <1>1, <1>2, <1>3, <1>4 DEF internal_mq_open

LEMMA CloseAccounted ==
  ASSUME MQInv, NEW mqd, internal_mq_close(mqd)
  PROVE  MQInv'
<1>1. CASE CloseUnknown(mqd)
  BY <1>1, FailsAccounted DEF CloseUnknown, DSOS_EMESSAGEQUEUECLOSE
<1>2. CASE Closes(mqd)
  BY <1>2, ClosesAccounted
<1>. QED  BY <1>1, <1>2 DEF internal_mq_close

LEMMA UnlinkAccounted ==
  ASSUME MQInv, NEW id, internal_mq_unlink(id)
  PROVE  MQInv'
<1>1. CASE UnlinkUnknown(id)
  BY <1>1, FailsAccounted DEF UnlinkUnknown, DSOS_EMESSAGEQUEUECLOSE
<1>2. CASE UnlinkInUse(id)
  BY <1>2, FailsAccounted DEF UnlinkInUse, DSOS_EMESSAGEQUEUEINUSE
<1>3. CASE Unlinks(id)
  BY <1>3, UnlinksAccounted
<1>. QED  BY <1>1, <1>2, <1>3 DEF internal_mq_unlink

LEMMA SendAccounted ==
  ASSUME MQInv, NEW mqd, NEW msg_len, internal_mq_send(mqd, msg_len)
  PROVE  MQInv'
<1>1. CASE SendRefused(mqd, msg_len)
  <2>1. SendError(mqd, msg_len) # NULL /\ Fails(SendError(mqd, msg_len))
    BY <1>1 DEF SendRefused
  <2>2. SendError(mqd, msg_len) \in Int
    BY <2>1 DEF SendError, DSOS_EMESSAGEQUEUECLOSE, DSOS_EMESSAGESIZE
  <2>. QED  BY <2>1, <2>2, FailsAccounted
<1>2. CASE SendBlocks(mqd, msg_len)
  <2>1. Blocks(syscall_retvalue, DSOS_EMESSAGEQUEUEFULL) /\ DSOS_EMESSAGEQUEUEFULL \in Int
    BY <1>2 DEF SendBlocks, DSOS_EMESSAGEQUEUEFULL
  <2>2. syscall_retvalue \in [PCB -> Int]
    BY DEF MQInv, IInv, TypeOK
  <2>. QED  BY <2>1, <2>2, BlocksAccounted
<1>3. CASE Sends(mqd, msg_len)
  BY <1>3, SendsAccounted
<1>4. CASE SendDies(mqd, msg_len)
  <2>1. CASE BlocksAlone
    BY <2>1, BlocksAloneAccounted
  <2>2. CASE Stop("mq_send: no Message") /\ UNCHANGED mqVars
    <3>1. "mq_send: no Message" \in Machines
      BY DEF Machines
    <3>. QED  BY <2>2, <3>1, StopsWhen, StopAccounted
  <2>. QED  BY <1>4, <2>1, <2>2 DEF SendDies
<1>. QED  BY <1>1, <1>2, <1>3, <1>4 DEF internal_mq_send

LEMMA ReceiveAccounted ==
  ASSUME MQInv, NEW mqd, NEW msg_len, internal_mq_receive(mqd, msg_len)
  PROVE  MQInv'
<1>1. CASE ReceiveRefused(mqd)
  <2>1. ReceiveError(mqd) # NULL /\ Fails(ReceiveError(mqd))
    BY <1>1 DEF ReceiveRefused
  <2>2. ReceiveError(mqd) \in Int
    BY <2>1 DEF ReceiveError, DSOS_EMESSAGEQUEUECLOSE, DSOS_EMESSAGESIZE
  <2>. QED  BY <2>1, <2>2, FailsAccounted
<1>2. CASE ReceiveBlocks(mqd, msg_len)
  <2>. DEFINE retvalues == IF msg_len < Queue(mqd).msg_size
                           THEN [syscall_retvalue EXCEPT ![running] = DSOS_EMESSAGESIZE]
                           ELSE syscall_retvalue
  <2>1. Blocks(retvalues, DSOS_EMESSAGEQUEUEEMPTY) /\ DSOS_EMESSAGEQUEUEEMPTY \in Int
    BY <1>2 DEF ReceiveBlocks, DSOS_EMESSAGEQUEUEEMPTY
  <2>2. retvalues \in [PCB -> Int]
    <3>1. syscall_retvalue \in [PCB -> Int]
      BY DEF MQInv, IInv, TypeOK
    <3>2. [syscall_retvalue EXCEPT ![running] = DSOS_EMESSAGESIZE] \in [PCB -> Int]
      <4>1. DSOS_EMESSAGESIZE \in Int
        BY DEF DSOS_EMESSAGESIZE
      <4>. HIDE DEF retvalues
      <4>. QED  BY <3>1, <4>1
    <3>. QED  BY <3>1, <3>2, Zenon
  <2>. HIDE DEF retvalues
  <2>. QED  BY <2>1, <2>2, BlocksAccounted
<1>3. CASE Receives(mqd, msg_len)
  BY <1>3, ReceivesAccounted
<1>4. CASE ReceiveDies(mqd)
  BY <1>4, BlocksAloneAccounted DEF ReceiveDies
<1>. QED  BY <1>1, <1>2, <1>3, <1>4 DEF internal_mq_receive

LEMMA NextMQInv == MQInv /\ [MQNext]_<<vars, mqVars>> => MQInv'
<1>. SUFFICES ASSUME MQInv, [MQNext]_<<vars, mqVars>> PROVE MQInv'
  OBVIOUS
<1>. USE DEF MQInv
<1>1. CASE (internal_spawn \/ internal_fork \/ Reboot) /\ NewDescrittori
  <2>1. Reboot \/ NewProcess
    BY <1>1 DEF internal_spawn, internal_fork
  <2>. QED  BY <1>1, <2>1, ProcessCallIInv, NewDescrittoriAccounted
<1>2. CASE ExitToParent /\ ReleaseDescrittori(running)
  BY <1>2, ProcessCallIInv, ReleaseAccounted
<1>3. CASE OtherCall /\ UNCHANGED mqVars
  BY <1>3, ProcessCallIInv, OtherCallPutsNoneToUse, SameAccounts
<1>4. CASE UNCHANGED <<vars, mqVars>>
  <2>1. IInv'
    BY <1>4, NextIInv
  <2>2. Live' \subseteq Live
    BY <1>4 DEF Live, vars, poolVars
  <2>. QED  BY <1>4, <2>1, <2>2, SameAccounts
<1>5. CASE Ended /\ UNCHANGED mqVars
  BY <1>4, <1>5 DEF Ended
<1>6. CASE ProcessCall
  BY <1>1, <1>2, <1>3, <1>6, Zenon DEF ProcessCall, OtherCall
<1>. HIDE DEF MQInv
<1>7. CASE MessageQueueCall
  BY <1>7, OpenAccounted, CloseAccounted, UnlinkAccounted, SendAccounted, ReceiveAccounted, Zenon
  DEF MessageQueueCall
<1>. QED  BY <1>4, <1>5, <1>6, <1>7, Zenon DEF MQNext

-----------------------------------------------------------------------------
(* The refinement: the channels that the queues are.                       *)
Chans ==
  [id \in DOMAIN messagequeues |->
     [capacity |-> messagequeues[id].max_msg,
      messages |-> messagequeues[id].messages]]

LEMMA ChansAt ==
  /\ DOMAIN Chans = DOMAIN messagequeues
  /\ \A id \in DOMAIN messagequeues :
       /\ Chans[id].capacity = messagequeues[id].max_msg
       /\ Chans[id].messages = messagequeues[id].messages
BY DEF Chans

(* The users of queues may change: the channels do not.                    *)
LEMMA SameChannels ==
  ASSUME DOMAIN messagequeues' = DOMAIN messagequeues,
         \A id \in DOMAIN messagequeues :
           /\ messagequeues'[id].max_msg = messagequeues[id].max_msg
           /\ messagequeues'[id].messages = messagequeues[id].messages,
         UNCHANGED <<sent, received>>
  PROVE  UNCHANGED <<Chans, sent, received>>
BY DEF Chans

LEMMA CreatesChannel ==
  ASSUME MQInv, NEW id \in MQIds, NEW max_msg \in MaxMsgs,
         id \notin DOMAIN messagequeues,
         DOMAIN messagequeues' = DOMAIN messagequeues \cup {id},
         messagequeues'[id].max_msg = max_msg, messagequeues'[id].messages = <<>>,
         \A i \in DOMAIN messagequeues : messagequeues'[i] = messagequeues[i],
         UNCHANGED <<sent, received>>
  PROVE  TheChannels!Next
<1>. DEFINE new == [i \in DOMAIN Chans \cup {id} |->
                      IF i = id THEN [capacity |-> max_msg, messages |-> <<>>] ELSE Chans[i]]
            none == <<>>
<1>1. Chans' = new
  <2>1. messagequeues'[id].messages = none
    OBVIOUS
  <2>2. new = [i \in DOMAIN messagequeues \cup {id} |->
                 IF i = id THEN [capacity |-> max_msg, messages |-> none] ELSE Chans[i]]
    BY ChansAt
  <2>. HIDE DEF new, none
  <2>. QED  BY <2>1, <2>2 DEF Chans
<1>2. id \notin DOMAIN Chans
  BY ChansAt
<1>3. TheChannels!Create(id, max_msg)
  BY <1>1, <1>2, Zenon DEF TheChannels!Create, Chans
<1>. QED  BY <1>3 DEF TheChannels!Next

LEMMA ChannelsNext ==
  /\ \A p \in PCB : TheChannels!Arrive(p) => TheChannels!Next
  /\ \A id \in DOMAIN messagequeues : TheChannels!Send(id) => TheChannels!Next
  /\ \A id \in DOMAIN messagequeues, p \in PCB : TheChannels!Receive(p, id) => TheChannels!Next
  /\ \A id \in DOMAIN messagequeues : TheChannels!Destroy(id) => TheChannels!Next
BY DEF TheChannels!Next

ChannelsStep == TheChannels!Next \/ UNCHANGED <<Chans, sent, received>>

LEMMA OpensChannel ==
  ASSUME MQInv, NEW id \in MQIds, NEW type \in Types, NEW msg_size \in MsgSizes,
         NEW max_msg \in MaxMsgs, NEW mode, OpenError(id, type, mode) = NULL,
         \/ messagequeues' = WithQueue(id, type, msg_size, max_msg, mode)
         \/ messagequeues' = [WithQueue(id, type, msg_size, max_msg, mode)
                                EXCEPT ![id].users = @ + 1],
         UNCHANGED <<sent, received>>
  PROVE  ChannelsStep
<1>. DEFINE new == MessageQueue(type, msg_size, max_msg)
<1>1. CASE DSOS_CREATE \in mode
  <2>1. id \notin DOMAIN messagequeues
    BY <1>1, KernelAssumption DEF OpenError, Exists, DSOS_EMESSAGEQUEUECREATE
  <2>2. \/ messagequeues' = With(messagequeues, id, new)
        \/ messagequeues' = [With(messagequeues, id, new) EXCEPT ![id].users = @ + 1]
    BY <1>1 DEF WithQueue
  <2>3. new.max_msg = max_msg /\ new.messages = <<>>
    BY DEF MessageQueue
  <2>4. LET q == [new EXCEPT !.users = @ + 1] IN q.max_msg = max_msg /\ q.messages = <<>>
    BY DEF MessageQueue
  <2>. DEFINE q == [new EXCEPT !.users = @ + 1]
  <2>. HIDE DEF new
  <2>5. /\ DOMAIN messagequeues' = DOMAIN messagequeues \cup {id}
        /\ messagequeues'[id] = new \/ messagequeues'[id] = q
        /\ \A i \in DOMAIN messagequeues : messagequeues'[i] = messagequeues[i]
    BY <2>1, <2>2 DEF With
  <2>. HIDE DEF q
  <2>6. messagequeues'[id].max_msg = max_msg /\ messagequeues'[id].messages = <<>>
    BY <2>3, <2>4, <2>5, Zenon DEF q
  <2>. QED  BY <2>1, <2>5, <2>6, CreatesChannel DEF ChannelsStep
<1>2. CASE DSOS_CREATE \notin mode
  <2>1. id \in DOMAIN messagequeues
    BY <1>2, KernelAssumption DEF OpenError, Exists, DSOS_EMESSAGEQUEUEOPEN
  <2>2. \/ messagequeues' = messagequeues
        \/ messagequeues' = [messagequeues EXCEPT ![id].users = @ + 1]
    BY <1>2 DEF WithQueue
  <2>3. messagequeues \in [DOMAIN messagequeues -> QueueRecord]
    BY DEF MQInv, Accounted, MQTyped
  <2>. DEFINE q == [messagequeues[id] EXCEPT !.users = @ + 1]
  <2>4. q.max_msg = messagequeues[id].max_msg /\ q.messages = messagequeues[id].messages
    BY <2>1, <2>3 DEF QueueRecord
  <2>5. messagequeues' = messagequeues \/ messagequeues' = [messagequeues EXCEPT ![id] = q]
    BY <2>2
  <2>. HIDE DEF q
  <2>6. /\ DOMAIN messagequeues' = DOMAIN messagequeues
        /\ \A i \in DOMAIN messagequeues :
             /\ messagequeues'[i].max_msg = messagequeues[i].max_msg
             /\ messagequeues'[i].messages = messagequeues[i].messages
    BY <2>1, <2>3, <2>4, <2>5
  <2>. QED  BY <2>6, SameChannels DEF ChannelsStep
<1>. QED  BY <1>1, <1>2

LEMMA ClosesChannel ==
  ASSUME MQInv, NEW mqd, Closes(mqd)
  PROVE  ChannelsStep
<1>. DEFINE id == descrittori[running][mqd]
<1>1. /\ messagequeues' = [messagequeues EXCEPT ![id].users = @ - 1]
      /\ UNCHANGED <<sent, received>>
  BY DEF Closes
<1>2. messagequeues \in [DOMAIN messagequeues -> QueueRecord]
  BY DEF MQInv, Accounted, MQTyped
<1>3. /\ DOMAIN messagequeues' = DOMAIN messagequeues
      /\ \A i \in DOMAIN messagequeues :
           /\ messagequeues'[i].max_msg = messagequeues[i].max_msg
           /\ messagequeues'[i].messages = messagequeues[i].messages
  BY <1>1, <1>2 DEF QueueRecord
<1>. QED  BY <1>1, <1>3, SameChannels DEF ChannelsStep

LEMMA ReleasesChannels ==
  ASSUME MQInv, NEW p, ReleaseDescrittori(p)
  PROVE  ChannelsStep
<1>1. messagequeues \in [DOMAIN messagequeues -> QueueRecord]
  BY DEF MQInv, Accounted, MQTyped
<1>2. /\ DOMAIN messagequeues' = DOMAIN messagequeues
      /\ \A i \in DOMAIN messagequeues :
           /\ messagequeues'[i].max_msg = messagequeues[i].max_msg
           /\ messagequeues'[i].messages = messagequeues[i].messages
  BY <1>1 DEF ReleaseDescrittori, QueueRecord
<1>. QED  BY <1>2, SameChannels DEF ChannelsStep, ReleaseDescrittori

LEMMA UnlinksChannel ==
  ASSUME MQInv, NEW id, Unlinks(id)
  PROVE  ChannelsStep
<1>1. /\ id \in DOMAIN messagequeues
      /\ messagequeues' = Without(messagequeues, id)
      /\ UNCHANGED <<sent, received>>
  BY DEF Unlinks, Exists
<1>2. /\ DOMAIN messagequeues' = DOMAIN messagequeues \ {id}
      /\ \A i \in DOMAIN messagequeues' : messagequeues'[i] = messagequeues[i]
  BY <1>1 DEF Without, Restrict
<1>3. Chans' = [i \in DOMAIN Chans \ {id} |-> Chans[i]]
  BY <1>2 DEF Chans
<1>4. TheChannels!Destroy(id)
  BY <1>1, <1>3, Zenon DEF TheChannels!Destroy, Chans
<1>. QED  BY <1>1, <1>4, ChannelsNext, Zenon DEF ChannelsStep

LEMMA SendNext ==
  ASSUME NEW q \in DOMAIN messagequeues, TheChannels!Send(q)
  PROVE  ChannelsStep
BY ChannelsNext, Zenon DEF ChannelsStep

LEMMA ReceiveNext ==
  ASSUME NEW q \in DOMAIN messagequeues, NEW p \in PCB, TheChannels!Receive(p, q)
  PROVE  ChannelsStep
BY ChannelsNext, Zenon DEF ChannelsStep

LEMMA SendsChannelAt ==
  ASSUME MQInv, NEW mqd, NEW msg_len, Sends(mqd, msg_len),
         NEW id, id = descrittori[running][mqd]
  PROVE  ChannelsStep
<1>. DEFINE c == messagequeues[id]
            m == Append(c.messages, sent + 1)
<1>1. /\ Runs /\ HasMqd(mqd) /\ ~Full(mqd)
      /\ messagequeues' = [messagequeues EXCEPT ![id].messages = m, ![id].msg_num = @ + 1]
      /\ sent' = sent + 1
      /\ UNCHANGED received
  BY MaySendHas DEF Sends
<1>2. /\ id \in DOMAIN messagequeues
      /\ Queue(mqd) = c /\ c \in QueueRecord /\ c.max_msg \in Int
      /\ Len(c.messages) \in Nat
      /\ c.msg_num = Len(c.messages)
      /\ c.max_msg < 0 \/ c.msg_num <= c.max_msg
  BY <1>1, OpenQueue
<1>3. messagequeues \in [DOMAIN messagequeues -> QueueRecord]
  BY DEF MQInv, Accounted, MQTyped
<1>4. c.max_msg < 0 \/ Len(c.messages) < c.max_msg
  BY <1>1, <1>2 DEF Full
<1>5. /\ Chans[id].capacity = c.max_msg /\ Chans[id].messages = c.messages
      /\ DOMAIN Chans = DOMAIN messagequeues /\ id \in DOMAIN Chans
  BY <1>2, ChansAt
<1>6. TheChannels!HasRoom(Chans[id])
  <2>1. TheChannels!HasRoom(Chans[id])
          <=> Chans[id].capacity < 0 \/ Len(Chans[id].messages) < Chans[id].capacity
    BY DEF TheChannels!HasRoom
  <2>. QED  BY <1>4, <1>5, <2>1
<1>7. Chans' = [Chans EXCEPT ![id].messages = Append(@, sent')]
  <2>1. m = Append(Chans[id].messages, sent')
    BY <1>1, <1>5
  <2>. HIDE DEF m
  <2>2. /\ DOMAIN messagequeues' = DOMAIN messagequeues
        /\ messagequeues'[id].max_msg = c.max_msg /\ messagequeues'[id].messages = m
        /\ \A i \in DOMAIN messagequeues \ {id} : messagequeues'[i] = messagequeues[i]
    BY <1>1, <1>2, <1>3 DEF QueueRecord
  <2>3. Chans' = [Chans EXCEPT ![id].messages = m]
    BY <1>2, <2>2 DEF Chans
  <2>. QED  BY <2>1, <2>3, Zenon
<1>8. TheChannels!Send(id)
  BY <1>1, <1>6, <1>7, Zenon DEF TheChannels!Send, Chans
<1>9. id \in DOMAIN messagequeues
  BY <1>2
<1>. QED  BY <1>8, <1>9, SendNext, Zenon

LEMMA SendsChannel ==
  ASSUME MQInv, NEW mqd, NEW msg_len, Sends(mqd, msg_len)
  PROVE  ChannelsStep
BY SendsChannelAt

LEMMA ReceivesChannelAt ==
  ASSUME MQInv, NEW mqd, NEW msg_len, Receives(mqd, msg_len),
         NEW id, id = descrittori[running][mqd]
  PROVE  ChannelsStep
<1>. DEFINE c == messagequeues[id]
            m == Tail(c.messages)
<1>1. /\ Runs /\ HasMqd(mqd) /\ Queue(mqd).msg_num # 0
      /\ messagequeues' = [messagequeues EXCEPT ![id].messages = m, ![id].msg_num = @ - 1]
      /\ received' = [received EXCEPT
                        ![running] = [from |-> id, number |-> Head(Queue(mqd).messages)]]
      /\ UNCHANGED sent
  BY MayReceiveHas DEF Receives
<1>2. /\ id \in DOMAIN messagequeues
      /\ Queue(mqd) = c /\ c \in QueueRecord
      /\ c.messages \in Seq(1 .. MaxSends)
      /\ c.msg_num = Len(c.messages)
  BY <1>1, OpenQueue
<1>3. /\ messagequeues \in [DOMAIN messagequeues -> QueueRecord]
      /\ running \in PCB
  BY <1>1, Caller DEF MQInv, Accounted, MQTyped
<1>4. /\ Chans[id].messages = c.messages
      /\ DOMAIN Chans = DOMAIN messagequeues /\ id \in DOMAIN Chans
  BY <1>2, ChansAt
<1>5. Chans[id].messages # <<>>
  BY <1>1, <1>2, <1>4, Members
<1>6. Chans' = [Chans EXCEPT ![id].messages = Tail(@)]
  <2>1. m = Tail(Chans[id].messages)
    BY <1>4
  <2>. HIDE DEF m
  <2>2. /\ DOMAIN messagequeues' = DOMAIN messagequeues
        /\ messagequeues'[id].max_msg = c.max_msg /\ messagequeues'[id].messages = m
        /\ \A i \in DOMAIN messagequeues \ {id} : messagequeues'[i] = messagequeues[i]
    BY <1>1, <1>2, <1>3 DEF QueueRecord
  <2>3. Chans' = [Chans EXCEPT ![id].messages = m]
    BY <1>2, <2>2 DEF Chans
  <2>. QED  BY <2>1, <2>3, Zenon
<1>7. received' = [received EXCEPT
                     ![running] = [from |-> id, number |-> Head(Chans[id].messages)]]
  BY <1>1, <1>2, <1>4, Zenon
<1>8. TheChannels!Receive(running, id)
  BY <1>1, <1>5, <1>6, <1>7, Zenon DEF TheChannels!Receive, Chans
<1>9. id \in DOMAIN messagequeues /\ running \in PCB
  BY <1>2, <1>3
<1>. QED  BY <1>8, <1>9, ReceiveNext, Zenon

LEMMA ReceivesChannel ==
  ASSUME MQInv, NEW mqd, NEW msg_len, Receives(mqd, msg_len)
  PROVE  ChannelsStep
BY ReceivesChannelAt

LEMMA ArrivesReader ==
  ASSUME MQInv, Reboot \/ NewProcess, NewDescrittori
  PROVE  ChannelsStep
<1>1. /\ Head(pcb_pool) \in PCB
      /\ received' = [received EXCEPT ![Head(pcb_pool)] = NULL]
      /\ UNCHANGED <<messagequeues, sent>>
  BY NewBlock DEF MQInv, NewDescrittori
<1>2. Chans' = Chans
  BY <1>1 DEF Chans
<1>3. TheChannels!Arrive(Head(pcb_pool))
  BY <1>1, <1>2, Zenon DEF TheChannels!Arrive, Chans
<1>. QED  BY <1>1, <1>3, ChannelsNext, Zenon DEF ChannelsStep

LEMMA NextChannels ==
  ASSUME MQInv, [MQNext]_<<vars, mqVars>>
  PROVE  ChannelsStep
<1>1. CASE UNCHANGED mqVars
  BY <1>1 DEF mqVars, ChannelsStep, Chans
<1>2. CASE (internal_spawn \/ internal_fork \/ Reboot) /\ NewDescrittori
  BY <1>2, ArrivesReader DEF internal_spawn, internal_fork
<1>3. CASE ExitToParent /\ ReleaseDescrittori(running)
  BY <1>3, ReleasesChannels
<1>4. ASSUME NEW id \in MQIds, NEW type \in Types, NEW size \in MsgSizes, NEW max \in MaxMsgs,
             NEW mode \in Modes, internal_mq_open(id, type, size, max, mode)
      PROVE  ChannelsStep
  <2>1. CASE OpenRefused(id, type, mode) \/ OpenDies(id, type, mode)
    BY <1>1, <2>1 DEF OpenRefused, OpenDies, Fails
  <2>2. CASE \/ OpenWithoutDescrittore(id, type, size, max, mode)
             \/ Opens(id, type, size, max, mode)
    <3>1. /\ OpenError(id, type, mode) = NULL
          /\ \/ messagequeues' = WithQueue(id, type, size, max, mode)
             \/ messagequeues' = [WithQueue(id, type, size, max, mode)
                                    EXCEPT ![id].users = @ + 1]
          /\ UNCHANGED <<sent, received>>
      BY <2>2 DEF OpenWithoutDescrittore, Opens
    <3>. QED  BY <3>1, OpensChannel
  <2>. QED  BY <1>4, <2>1, <2>2 DEF internal_mq_open
<1>5. ASSUME NEW mqd, internal_mq_close(mqd) PROVE ChannelsStep
  BY <1>1, <1>5, ClosesChannel DEF internal_mq_close, CloseUnknown, Fails
<1>6. ASSUME NEW id, internal_mq_unlink(id) PROVE ChannelsStep
  BY <1>1, <1>6, UnlinksChannel DEF internal_mq_unlink, UnlinkUnknown, UnlinkInUse, Fails
<1>7. ASSUME NEW mqd, NEW len, internal_mq_send(mqd, len) PROVE ChannelsStep
  BY <1>1, <1>7, SendsChannel
  DEF internal_mq_send, SendRefused, SendBlocks, SendDies, Fails, Blocks, BlocksAlone
<1>8. ASSUME NEW mqd, NEW len, internal_mq_receive(mqd, len) PROVE ChannelsStep
  BY <1>1, <1>8, ReceivesChannel
  DEF internal_mq_receive, ReceiveRefused, ReceiveBlocks, ReceiveDies, Fails, Blocks, BlocksAlone
<1>9. CASE ProcessCall
  BY <1>1, <1>2, <1>3, <1>9, Zenon DEF ProcessCall
<1>10. CASE MessageQueueCall
  BY <1>4, <1>5, <1>6, <1>7, <1>8, <1>10, Zenon DEF MessageQueueCall
<1>. QED  BY <1>1, <1>9, <1>10 DEF MQNext

-----------------------------------------------------------------------------
(* The accounts of queues, descrittori and messages hold whatever          *)
(* processes open, close, unlink, send, receive, spawn, fork and exit.     *)
THEOREM MQInvariance == MQSpec => []MQInv
BY InitMQInv, NextMQInv, PTL DEF MQSpec

(* Type correctness; that no more Descrittore and Message blocks are free  *)
(* than there are (disastrOS_descrittore.c:10, disastrOS_messagequeue.c:8) *)
(* follows from their accounts.                                            *)
THEOREM MQTypeCorrect == MQSpec => []MQTypeOK
<1>1. MQInv => MQTypeOK
  <2>1. SUFFICES ASSUME MQInv PROVE MQTypeOK
    OBVIOUS
  <2>2. TypeOK /\ MQTyped
    BY <2>1 DEF MQInv, Accounted, IInv
  <2>3. ASSUME NEW p \in PCB
        PROVE  /\ DOMAIN descrittori[p] \subseteq 0 .. MaxMqd - 1
               /\ \A mqd \in DOMAIN descrittori[p] : descrittori[p][mqd] \in MQIds
    <3>1. descrittori[p] \in Tables(MaxMqd, MQIds) /\ MaxMqd \in Nat
      BY <2>2, HeldTyped
    <3>. QED  BY <3>1, TableFinite
  <2>4. /\ descrittore_free \in 0 .. MAX_NUM_PROCESSES
        /\ message_free \in 0 .. MAX_NUM_MESSAGES
    <3>1. /\ descrittore_free + UsersSum = MAX_NUM_PROCESSES
          /\ message_free + LengthsSum = MAX_NUM_MESSAGES
      BY <2>1, Accounts DEF MQInv, Accounted
    <3>2. UsersSum \in Nat /\ LengthsSum \in Nat
      BY <2>2, QueuesTyped
    <3>3. descrittore_free \in Nat /\ message_free \in Nat
      BY <2>2 DEF MQTyped
    <3>. QED  BY <3>1, <3>2, <3>3
  <2>5. ASSUME NEW id \in DOMAIN messagequeues
        PROVE  messagequeues[id] \in
                 [type : Types, msg_size : MsgSizes, max_msg : MaxMsgs,
                  msg_num : Int, users : Int, messages : Seq(1 .. MaxSends)]
    <3>1. messagequeues[id] \in QueueRecord
      BY <2>2 DEF MQTyped
    <3>. QED  BY <3>1 DEF QueueRecord
  <2>. QED  BY <2>2, <2>3, <2>4, <2>5 DEF MQTyped, Copies, MQTypeOK
<1>. QED  BY <1>1, MQInvariance, PTL

(* No descriptor dangles: what disastrOS_mq_unlink.c tests is never less   *)
(* than what the processes in use have open, so a queue that one of them   *)
(* has open stays in the list, whoever unlinks it.                         *)
THEOREM OpenQueuesExistSafe == MQSpec => []OpenQueuesExist
<1>1. MQInv => OpenQueuesExist
  <2>1. SUFFICES ASSUME MQInv, NEW p \in Live, NEW id \in MQIds, Opened(p, id) # {}
                 PROVE  Exists(id) /\ messagequeues[id].users >= Cardinality(Opened(p, id))
    BY DEF OpenQueuesExist, Live
  <2>. DEFINE t == descrittori[p]
              n == Cardinality(Entries(t, id))
  <2>2. Opened(p, id) = Entries(t, id)
    BY DEF Opened, Entries
  <2>3. MQTyped /\ UsersCoverHeld
    BY <2>1 DEF MQInv, Accounted
  <2>4. /\ MaxMqd \in Nat /\ Live \in SUBSET PCB
        /\ descrittori \in [PCB -> Tables(MaxMqd, MQIds)]
        /\ t \in Tables(MaxMqd, MQIds)
    BY <2>3, HeldTyped DEF Live
  <2>5. \A v : Cardinality(Entries(t, v)) <= Held(descrittori, Live, v)
    BY <2>4, HeldType
  <2>6. PICK mqd \in DOMAIN t : t[mqd] = id
    BY <2>1 DEF Opened
  <2>7. Exists(id)
    BY <2>1, <2>3, <2>6, OpenExists DEF Exists
  <2>8. /\ n \in Nat /\ n <= Held(descrittori, Live, id)
        /\ Held(descrittori, Live, id) \in Nat
        /\ Held(descrittori, Live, id) <= messagequeues[id].users
        /\ messagequeues[id].users \in Nat
    <3>1. n \in Nat
      BY <2>4, TableFinite
    <3>2. Held(descrittori, Live, id) \in Nat
      BY <2>3, HeldTyped
    <3>3. Held(descrittori, Live, id) <= messagequeues[id].users
      BY <2>3, <2>7 DEF UsersCoverHeld
    <3>4. messagequeues[id].users \in Nat
      BY <2>3, <2>7, QueuesTyped DEF Exists, QueueRecord
    <3>. QED  BY <2>5, <3>1, <3>2, <3>3, <3>4
  <2>. HIDE DEF n
  <2>9. messagequeues[id].users >= n
    BY <2>8
  <2>. QED  BY <2>2, <2>7, <2>9 DEF n
<1>. QED  BY <1>1, MQInvariance, PTL

(* Descrittore blocks add up: the free ones and the users of the queues    *)
(* are as many as there are, counting those that dead processes left       *)
(* behind (disastrOS_exit.c:85-107).                                       *)
THEOREM DescrittoriAccountedSafe == MQSpec => []DescrittoriAccounted
<1>1. MQInv => DescrittoriAccounted
  BY DEF MQInv, Accounted
<1>. QED  BY <1>1, MQInvariance, PTL

(* No Message block is lost or freed twice, although MessageQueue_free     *)
(* counts by msg_num what it gives back (disastrOS_messagequeue.c).        *)
THEOREM MessagesAccountedSafe == MQSpec => []MessagesAccounted
<1>1. MQInv => MessagesAccounted
  BY DEF MQInv, Accounted
<1>. QED  BY <1>1, MQInvariance, PTL

(* The queues implement bounded first-in-first-out channels: what a send   *)
(* or a receive does to a queue, through a descrittore, is what the        *)
(* channel does, and every other call is a creation, a destruction, the    *)
(* arrival of a reader, or nothing.                                        *)
THEOREM ChannelsRefined == MQSpec => ImplementsChannels
<1>1. MQInit => TheChannels!Init
  <2>1. SUFFICES ASSUME MQInit PROVE TheChannels!Init
    OBVIOUS
  <2>2. messagequeues = <<>> /\ sent = 0 /\ received = [p \in PCB |-> NULL]
    BY <2>1 DEF MQInit
  <2>3. Chans = <<>>
    BY <2>2 DEF Chans
  <2>. QED  BY <2>2, <2>3, Zenon DEF TheChannels!Init, Chans
<1>2. MQInv /\ [MQNext]_<<vars, mqVars>> => [TheChannels!Next]_<<Chans, sent, received>>
  BY NextChannels, Zenon DEF ChannelsStep
<1>3. MQSpec => TheChannels!Init /\ [][TheChannels!Next]_<<Chans, sent, received>>
  BY <1>1, <1>2, MQInvariance, PTL DEF MQSpec
<1>4. TheChannels!Spec <=> TheChannels!Init /\ [][TheChannels!Next]_<<Chans, sent, received>>
  BY PTL DEF TheChannels!Spec, Chans
<1>. QED  BY <1>3, <1>4, PTL DEF ImplementsChannels
=============================================================================
