-------------------------- MODULE TestProgramsProofs ------------------------
(***************************************************************************)
(* Proof that the test programs survive: no call kills the kernel, however *)
(* their processes are scheduled, for any number of queues, messages and   *)
(* children, if the pools are large enough for them.  And that no call of  *)
(* disastrOS_test fails, and that nothing is left at the shutdown: what    *)
(* the calls of init have done so far is kept in books, and every step     *)
(* leaves the system as the books say.                                     *)
(***************************************************************************)
EXTENDS TestPrograms, MessageQueuesProofs

(* Init is the parent of all others, and nobody else has children.         *)
Tree ==
  /\ init_pcb = 0
  /\ \A p \in Allocated \ {0} : parent[p] = 0
  /\ \A p \in PCB \ {0} : children[p] = <<>>

(* Only the first process runs init's function.                            *)
FunctionsTyped ==
  /\ program \in Programs
  /\ code \in [PCB -> Functions]
  /\ pc \in [PCB -> Nat]
  /\ code[0] = "initFunction"
  /\ \A p \in Allocated \ {0} : code[p] # "initFunction"

(* Once init has made its first call the sleeper, which never calls, runs  *)
(* or is ready; before that nobody else is there.                          *)
SleeperReady ==
  IF pc[0] = 0
  THEN Allocated = {0}
  ELSE \E p \in PCB : code[p] = "sleeperFunction" /\ p \in {running} \cup ToSet(ready_list)

(* Where init's function spawns: first the sleeper, and in disastrOS_test  *)
(* the children when it is done with the queues.                           *)
TestQueues ==
  <<<<"spawn", "sleeperFunction">>>>
    \o ForEach(NumQueues, OpenAndSend)
    \o ForEach(NumQueues, ReceiveAll)
    \o ForEach(NumQueues, SendAll)
    \o ForEach(NumQueues, Close)

SpawnPlaces ==
  IF program = "test"
  THEN {1} \cup (Len(TestQueues) + 1 .. Len(TestQueues) + NumChildren)
  ELSE {1, 3}

(* Pids and PCBPtrs are used up by spawns only.                            *)
SpawnsCounted ==
  /\ last_pid <= 1 + Cardinality(SpawnPlaces \cap (1 .. pc[0]))
  /\ pcbptr_free + last_pid >= MAX_NUM_PROCESSES + 1

(* The queues are those the program creates, and take what it says.        *)
QueueIds == IF program = "test" THEN 0 .. NumQueues - 1 ELSE {0}
Capacity == IF program = "test" THEN 10 ELSE MaxMsg

QueuesKnown ==
  /\ DOMAIN messagequeues \subseteq QueueIds
  /\ \A id \in DOMAIN messagequeues : messagequeues[id].max_msg = Capacity

PInv ==
  /\ MQInv
  /\ Survives
  /\ Tree
  /\ FunctionsTyped
  /\ SleeperReady
  /\ SpawnsCounted
  /\ QueuesKnown

-----------------------------------------------------------------------------
(* What the functions call.                                                *)
SpawnCalls == {"spawn"} \X {"sleeperFunction", "childFunction"}

QuietCalls(ids, mqds) ==
  ({"create"} \X ids) \cup ({"send", "receive", "close", "unlink"} \X mqds)
    \cup {<<"wait", 0>>, <<"shutdown", 0>>}

ChildCalls(args) ==
  ({"open", "receive", "close"} \X args) \cup {<<"sleep", 2>>, <<"exit", 0>>}

SpawnsAt(P, Q, s) ==
  /\ s \in Seq(SpawnCalls \cup Q)
  /\ P \subseteq 1 .. Len(s)
  /\ \A k \in 1 .. Len(s) : IF k \in P THEN s[k] \in SpawnCalls ELSE s[k] \in Q

LEMMA QuietAfter ==
  ASSUME NEW P, NEW Q, NEW s, SpawnsAt(P, Q, s), Len(s) >= 1, NEW t \in Seq(Q)
  PROVE  /\ SpawnsAt(P, Q, s \o t)
         /\ Len(s \o t) \in Nat /\ Len(s \o t) >= 1
         /\ (s \o t)[1] = s[1]
<1>1. s \in Seq(SpawnCalls \cup Q) /\ t \in Seq(SpawnCalls \cup Q)
  BY DEF SpawnsAt
<1>2. /\ Len(s) \in Nat /\ Len(t) \in Nat
      /\ \A k \in 1 .. Len(t) : t[k] \in Q
  BY <1>1, Members
<1>3. /\ s \o t \in Seq(SpawnCalls \cup Q)
      /\ Len(s \o t) = Len(s) + Len(t)
      /\ \A k \in 1 .. Len(s) + Len(t) :
           (s \o t)[k] = IF k <= Len(s) THEN s[k] ELSE t[k - Len(s)]
  BY <1>1, ConcatProperties
<1>4. \A k \in 1 .. Len(s) : (s \o t)[k] = s[k]
  BY <1>2, <1>3
<1>5. ASSUME NEW k \in 1 .. Len(s) + Len(t)
      PROVE  IF k \in P THEN (s \o t)[k] \in SpawnCalls ELSE (s \o t)[k] \in Q
  <2>1. CASE k <= Len(s)
    BY <1>2, <1>4, <2>1 DEF SpawnsAt
  <2>2. CASE ~(k <= Len(s))
    <3>1. k - Len(s) \in 1 .. Len(t) /\ (s \o t)[k] = t[k - Len(s)] /\ k \notin 1 .. Len(s)
      BY <1>2, <1>3, <2>2
    <3>. QED  BY <1>2, <3>1 DEF SpawnsAt
  <2>. QED  BY <2>1, <2>2
<1>6. P \subseteq 1 .. Len(s) + Len(t)
  BY <1>2 DEF SpawnsAt
<1>. QED  BY <1>2, <1>3, <1>4, <1>5, <1>6 DEF SpawnsAt

LEMMA QuietNext ==
  ASSUME NEW P, NEW Q, NEW s, SpawnsAt(P, Q, s), Len(s) >= 1, NEW call \in Q
  PROVE  /\ SpawnsAt(P, Q, s \o <<call>>)
         /\ Len(s \o <<call>>) \in Nat /\ Len(s \o <<call>>) >= 1
         /\ (s \o <<call>>)[1] = s[1]
<1>. DEFINE t == <<call>>
<1>1. t \in Seq(Q)
  BY Singleton
<1>. HIDE DEF t
<1>2. /\ SpawnsAt(P, Q, s \o t)
      /\ Len(s \o t) \in Nat /\ Len(s \o t) >= 1
      /\ (s \o t)[1] = s[1]
  BY <1>1, QuietAfter
<1>. QED  BY <1>2 DEF t

LEMMA SpawnsAfter ==
  ASSUME NEW P, NEW Q, NEW s, SpawnsAt(P, Q, s), Len(s) >= 1, NEW t \in Seq(SpawnCalls)
  PROVE  /\ SpawnsAt(P \cup (Len(s) + 1 .. Len(s) + Len(t)), Q, s \o t)
         /\ Len(s \o t) \in Nat /\ Len(s \o t) >= 1
         /\ (s \o t)[1] = s[1]
<1>1. s \in Seq(SpawnCalls \cup Q) /\ t \in Seq(SpawnCalls \cup Q)
  BY DEF SpawnsAt
<1>2. /\ Len(s) \in Nat /\ Len(t) \in Nat
      /\ \A k \in 1 .. Len(t) : t[k] \in SpawnCalls
  BY <1>1, Members
<1>3. /\ s \o t \in Seq(SpawnCalls \cup Q)
      /\ Len(s \o t) = Len(s) + Len(t)
      /\ \A k \in 1 .. Len(s) + Len(t) :
           (s \o t)[k] = IF k <= Len(s) THEN s[k] ELSE t[k - Len(s)]
  BY <1>1, ConcatProperties
<1>4. \A k \in 1 .. Len(s) : (s \o t)[k] = s[k]
  BY <1>2, <1>3
<1>. DEFINE R == P \cup (Len(s) + 1 .. Len(s) + Len(t))
<1>5. ASSUME NEW k \in 1 .. Len(s) + Len(t)
      PROVE  IF k \in R THEN (s \o t)[k] \in SpawnCalls ELSE (s \o t)[k] \in Q
  <2>1. CASE k <= Len(s)
    <3>1. k \in 1 .. Len(s) /\ (k \in R <=> k \in P)
      BY <1>2, <2>1
    <3>. QED  BY <1>4, <3>1 DEF SpawnsAt
  <2>2. CASE ~(k <= Len(s))
    <3>1. k - Len(s) \in 1 .. Len(t) /\ (s \o t)[k] = t[k - Len(s)] /\ k \in R
      BY <1>2, <1>3, <2>2
    <3>. QED  BY <1>2, <3>1
  <2>. QED  BY <2>1, <2>2
<1>6. R \subseteq 1 .. Len(s) + Len(t)
  <2>1. P \subseteq 1 .. Len(s)
    BY DEF SpawnsAt
  <2>2. 1 .. Len(s) \subseteq 1 .. Len(s) + Len(t)
    BY <1>2
  <2>3. Len(s) + 1 .. Len(s) + Len(t) \subseteq 1 .. Len(s) + Len(t)
    BY <1>2
  <2>. QED  BY <2>1, <2>2, <2>3
<1>. QED  BY <1>2, <1>3, <1>4, <1>5, <1>6 DEF SpawnsAt

LEMMA Repeated ==
  ASSUME NEW S, NEW step \in S, NEW n \in Nat
  PROVE  Repeat(n, step) \in Seq(S) /\ Len(Repeat(n, step)) = n
<1>1. Repeat(n, step) \in [1 .. n -> S]
  BY DEF Repeat
<1>2. Repeat(n, step) \in Seq(S)
  BY <1>1, SeqDef
<1>. QED  BY <1>1, <1>2, LenProperties

(* disastrOS_test: init.                                                   *)
LEMMA TestInitSpawns ==
  ASSUME program = "test"
  PROVE  /\ SpawnsAt(SpawnPlaces, QuietCalls(QueueIds, QueueIds), TestInit)
         /\ TestInit[1] = <<"spawn", "sleeperFunction">>
         /\ Len(TestQueues) \in Nat /\ Len(TestQueues) >= 1
<1>. DEFINE Q == QuietCalls(QueueIds, QueueIds)
            s0 == <<<<"spawn", "sleeperFunction">>>>
            s1 == s0 \o ForEach(NumQueues, OpenAndSend)
            s2 == s1 \o ForEach(NumQueues, ReceiveAll)
            s3 == s2 \o ForEach(NumQueues, SendAll)
            s4 == s3 \o ForEach(NumQueues, Close)
            s5 == s4 \o Repeat(NumChildren, <<"spawn", "childFunction">>)
            s6 == s5 \o Repeat(NumChildren, <<"wait", 0>>)
            s7 == s6 \o ForEach(NumQueues, Unlink)
            s8 == s7 \o <<<<"shutdown", 0>>>>
<1>1. TestInit = s8 /\ TestQueues = s4
  BY DEF TestInit, TestQueues
<1>2. NumQueues \in Nat /\ NumBurst \in Nat /\ NumChildren \in Nat
  BY TestProgramsAssumption
<1>3. \A i \in 1 .. NumQueues : i - 1 \in QueueIds
  BY <1>2 DEF QueueIds
<1>4. /\ \A id \in QueueIds : /\ <<"create", id>> \in Q /\ <<"send", id>> \in Q
                              /\ <<"receive", id>> \in Q /\ <<"close", id>> \in Q
                              /\ <<"unlink", id>> \in Q
      /\ <<"wait", 0>> \in Q /\ <<"shutdown", 0>> \in Q
  BY DEF QuietCalls
<1>. HIDE DEF Q
<1>5. \A id \in QueueIds :
        /\ ReceiveAll(id) \in Seq(Q) /\ SendAll(id) \in Seq(Q)
        /\ Close(id) \in Seq(Q) /\ Unlink(id) \in Seq(Q)
        /\ OpenAndSend(id) \in Seq(Q)
  <2>. SUFFICES ASSUME NEW id \in QueueIds
                PROVE  /\ ReceiveAll(id) \in Seq(Q) /\ SendAll(id) \in Seq(Q)
                       /\ Close(id) \in Seq(Q) /\ Unlink(id) \in Seq(Q)
                       /\ OpenAndSend(id) \in Seq(Q)
    OBVIOUS
  <2>1. ReceiveAll(id) \in Seq(Q) /\ SendAll(id) \in Seq(Q)
    BY <1>2, <1>4, Repeated DEF ReceiveAll, SendAll
  <2>2. Close(id) \in Seq(Q) /\ Unlink(id) \in Seq(Q)
    BY <1>4, Singleton DEF Close, Unlink
  <2>3. <<<<"create", id>>>> \in Seq(Q)
    BY <1>4, Singleton
  <2>4. Repeat(NumBurst, <<"send", id>>) \in Seq(Q)
    BY <1>2, <1>4, Repeated
  <2>. QED  BY <2>1, <2>2, <2>3, <2>4, Concatenate DEF OpenAndSend
<1>6. ForEach(NumQueues, OpenAndSend) \in Seq(Q)
  <2>1. [i \in 1 .. NumQueues |-> OpenAndSend(i - 1)] \in Seq(Seq(Q))
    BY <1>2, <1>3, <1>5, SeqDef
  <2>. QED  BY <2>1, FlattenTyped DEF ForEach
<1>7. ForEach(NumQueues, ReceiveAll) \in Seq(Q)
  <2>1. [i \in 1 .. NumQueues |-> ReceiveAll(i - 1)] \in Seq(Seq(Q))
    BY <1>2, <1>3, <1>5, SeqDef
  <2>. QED  BY <2>1, FlattenTyped DEF ForEach
<1>8. ForEach(NumQueues, SendAll) \in Seq(Q)
  <2>1. [i \in 1 .. NumQueues |-> SendAll(i - 1)] \in Seq(Seq(Q))
    BY <1>2, <1>3, <1>5, SeqDef
  <2>. QED  BY <2>1, FlattenTyped DEF ForEach
<1>9. ForEach(NumQueues, Close) \in Seq(Q)
  <2>1. [i \in 1 .. NumQueues |-> Close(i - 1)] \in Seq(Seq(Q))
    BY <1>2, <1>3, <1>5, SeqDef
  <2>. QED  BY <2>1, FlattenTyped DEF ForEach
<1>10. ForEach(NumQueues, Unlink) \in Seq(Q)
  <2>1. [i \in 1 .. NumQueues |-> Unlink(i - 1)] \in Seq(Seq(Q))
    BY <1>2, <1>3, <1>5, SeqDef
  <2>. QED  BY <2>1, FlattenTyped DEF ForEach
<1>11. SpawnsAt({1}, Q, s0) /\ Len(s0) >= 1 /\ s0[1] = <<"spawn", "sleeperFunction">>
  BY DEF SpawnsAt, SpawnCalls
<1>. HIDE DEF s0
<1>12. SpawnsAt({1}, Q, s1) /\ Len(s1) \in Nat /\ Len(s1) >= 1 /\ s1[1] = s0[1]
  BY <1>6, <1>11, QuietAfter
<1>. HIDE DEF s1
<1>13. SpawnsAt({1}, Q, s2) /\ Len(s2) \in Nat /\ Len(s2) >= 1 /\ s2[1] = s1[1]
  BY <1>7, <1>12, QuietAfter
<1>. HIDE DEF s2
<1>14. SpawnsAt({1}, Q, s3) /\ Len(s3) \in Nat /\ Len(s3) >= 1 /\ s3[1] = s2[1]
  BY <1>8, <1>13, QuietAfter
<1>. HIDE DEF s3
<1>15. SpawnsAt({1}, Q, s4) /\ Len(s4) \in Nat /\ Len(s4) >= 1 /\ s4[1] = s3[1]
  BY <1>9, <1>14, QuietAfter
<1>. DEFINE P == {1} \cup (Len(s4) + 1 .. Len(s4) + NumChildren)
<1>. HIDE DEF s4
<1>16. SpawnsAt(P, Q, s5) /\ Len(s5) \in Nat /\ Len(s5) >= 1 /\ s5[1] = s4[1]
  <2>1. /\ Repeat(NumChildren, <<"spawn", "childFunction">>) \in Seq(SpawnCalls)
        /\ Len(Repeat(NumChildren, <<"spawn", "childFunction">>)) = NumChildren
    BY <1>2, Repeated DEF SpawnCalls
  <2>. QED  BY <1>2, <1>15, <2>1, SpawnsAfter
<1>. HIDE DEF s5, P
<1>17. SpawnsAt(P, Q, s6) /\ Len(s6) \in Nat /\ Len(s6) >= 1 /\ s6[1] = s5[1]
  <2>1. Repeat(NumChildren, <<"wait", 0>>) \in Seq(Q)
    BY <1>2, <1>4, Repeated
  <2>. QED  BY <1>16, <2>1, QuietAfter
<1>. HIDE DEF s6
<1>18. SpawnsAt(P, Q, s7) /\ Len(s7) \in Nat /\ Len(s7) >= 1 /\ s7[1] = s6[1]
  BY <1>10, <1>17, QuietAfter
<1>. HIDE DEF s7
<1>19. SpawnsAt(P, Q, s8) /\ s8[1] = s7[1]
  BY <1>4, <1>18, QuietNext
<1>. HIDE DEF s8
<1>20. s8[1] = <<"spawn", "sleeperFunction">>
  BY <1>11, <1>12, <1>13, <1>14, <1>15, <1>16, <1>17, <1>18, <1>19
<1>21. SpawnPlaces = P
  BY <1>1 DEF SpawnPlaces, P
<1>. QED  BY <1>1, <1>15, <1>19, <1>20, <1>21 DEF Q

(* disastrOS_test_mq_bloccanti: init.                                      *)
LEMMA BloccantiInitSpawns ==
  ASSUME program # "test", NEW p
  PROVE  /\ SpawnsAt(SpawnPlaces, QuietCalls(QueueIds, {mqd[p]}), BloccantiInit(p))
         /\ BloccantiInit(p)[1] = <<"spawn", "sleeperFunction">>
<1>. DEFINE Q == QuietCalls(QueueIds, {mqd[p]})
            s0 == <<<<"spawn", "sleeperFunction">>, <<"create", 0>>, <<"spawn", "childFunction">>>>
            s1 == s0 \o Repeat(NumMessages, <<"send", mqd[p]>>)
            s2 == s1 \o <<<<"wait", 0>>>>
            s3 == s2 \o Close(mqd[p])
            s4 == s3 \o Unlink(mqd[p])
            s5 == s4 \o <<<<"shutdown", 0>>>>
<1>1. BloccantiInit(p) = s5
  BY DEF BloccantiInit
<1>2. /\ <<"create", 0>> \in Q /\ <<"send", mqd[p]>> \in Q /\ <<"wait", 0>> \in Q
      /\ <<"close", mqd[p]>> \in Q /\ <<"unlink", mqd[p]>> \in Q /\ <<"shutdown", 0>> \in Q
  BY DEF QuietCalls, QueueIds
<1>. HIDE DEF Q
<1>3. SpawnsAt({1, 3}, Q, s0) /\ Len(s0) >= 1 /\ s0[1] = <<"spawn", "sleeperFunction">>
  <2>1. Len(s0) = 3 /\ s0 \in Seq(SpawnCalls \cup Q)
    BY <1>2 DEF SpawnCalls
  <2>2. s0[1] \in SpawnCalls /\ s0[2] \in Q /\ s0[3] \in SpawnCalls
    BY <1>2 DEF SpawnCalls
  <2>3. s0[1] = <<"spawn", "sleeperFunction">>
    OBVIOUS
  <2>. HIDE DEF s0
  <2>4. 1 .. 3 = {1, 2, 3}
    OBVIOUS
  <2>. QED  BY <2>1, <2>2, <2>3, <2>4 DEF SpawnsAt
<1>. HIDE DEF s0
<1>4. SpawnsAt({1, 3}, Q, s1) /\ Len(s1) \in Nat /\ Len(s1) >= 1 /\ s1[1] = s0[1]
  <2>1. Repeat(NumMessages, <<"send", mqd[p]>>) \in Seq(Q)
    BY <1>2, Repeated, TestProgramsAssumption
  <2>. QED  BY <1>3, <2>1, QuietAfter
<1>. HIDE DEF s1
<1>5. SpawnsAt({1, 3}, Q, s2) /\ Len(s2) \in Nat /\ Len(s2) >= 1 /\ s2[1] = s1[1]
  BY <1>2, <1>4, QuietNext
<1>. HIDE DEF s2
<1>6. SpawnsAt({1, 3}, Q, s3) /\ Len(s3) \in Nat /\ Len(s3) >= 1 /\ s3[1] = s2[1]
  BY <1>2, <1>5, QuietNext DEF Close
<1>. HIDE DEF s3
<1>7. SpawnsAt({1, 3}, Q, s4) /\ Len(s4) \in Nat /\ Len(s4) >= 1 /\ s4[1] = s3[1]
  BY <1>2, <1>6, QuietNext DEF Unlink
<1>. HIDE DEF s4
<1>8. SpawnsAt({1, 3}, Q, s5) /\ s5[1] = s4[1]
  BY <1>2, <1>7, QuietNext
<1>. HIDE DEF s5
<1>. QED  BY <1>1, <1>3, <1>4, <1>5, <1>6, <1>7, <1>8 DEF SpawnPlaces, Q

(* The children of both.                                                   *)
LEMMA ChildTyped ==
  ASSUME FunctionsTyped, NEW p \in PCB, pid[p] \in Nat
  PROVE  Child(p) \in Seq(ChildCalls({0, pid[p], mqd[p]}))
<1>. DEFINE C == ChildCalls({0, pid[p], mqd[p]})
            naps == Repeat(pid[p] + 1, <<"sleep", 2>>)
<1>1. /\ <<"open", 0>> \in C /\ <<"open", pid[p]>> \in C /\ <<"close", mqd[p]>> \in C
      /\ <<"receive", mqd[p]>> \in C /\ <<"sleep", 2>> \in C /\ <<"exit", 0>> \in C
  BY DEF ChildCalls
<1>. HIDE DEF C
<1>2. /\ <<<<"open", pid[p]>>>> \in Seq(C) /\ <<<<"open", 0>>>> \in Seq(C)
      /\ <<<<"exit", 0>>>> \in Seq(C) /\ Close(mqd[p]) \in Seq(C)
  BY <1>1, Singleton DEF Close
<1>3. naps \in Seq(C) /\ Repeat(NumMessages, <<"receive", mqd[p]>>) \in Seq(C)
  <2>1. pid[p] + 1 \in Nat /\ NumMessages \in Nat
    BY TestProgramsAssumption
  <2>2. naps \in Seq(C)
    BY <1>1, <2>1, Repeated
  <2>3. Repeat(NumMessages, <<"receive", mqd[p]>>) \in Seq(C)
    BY <1>1, <2>1, Repeated
  <2>. QED  BY <2>2, <2>3
<1>. HIDE DEF naps
<1>4. <<<<"open", pid[p]>>>> \o Close(mqd[p]) \o naps \o <<<<"exit", 0>>>> \in Seq(C)
  <2>1. <<<<"open", pid[p]>>>> \o Close(mqd[p]) \in Seq(C)
    BY <1>2, Concatenate
  <2>2. <<<<"open", pid[p]>>>> \o Close(mqd[p]) \o naps \in Seq(C)
    BY <1>3, <2>1, Concatenate
  <2>. QED  BY <1>2, <2>2, Concatenate
<1>5. <<<<"open", 0>>>> \o Repeat(NumMessages, <<"receive", mqd[p]>>) \o Close(mqd[p])
        \o naps \o <<<<"exit", 0>>>> \in Seq(C)
  <2>1. <<<<"open", 0>>>> \o Repeat(NumMessages, <<"receive", mqd[p]>>) \in Seq(C)
    BY <1>2, <1>3, Concatenate
  <2>2. <<<<"open", 0>>>> \o Repeat(NumMessages, <<"receive", mqd[p]>>) \o Close(mqd[p]) \in Seq(C)
    BY <1>2, <2>1, Concatenate
  <2>3. <<<<"open", 0>>>> \o Repeat(NumMessages, <<"receive", mqd[p]>>) \o Close(mqd[p])
          \o naps \in Seq(C)
    BY <1>3, <2>2, Concatenate
  <2>. QED  BY <1>2, <2>3, Concatenate
<1>. QED  BY <1>4, <1>5 DEF Child, naps, C

-----------------------------------------------------------------------------
(* Who makes a call, and which.                                            *)
InitCallAt(k, c) ==
  IF k \in SpawnPlaces THEN c \in SpawnCalls ELSE \E mqds : c \in QuietCalls(QueueIds, mqds)

LEMMA InitCalls ==
  ASSUME FunctionsTyped, NEW k \in 1 .. Len(Calls(0))
  PROVE  /\ InitCallAt(k, Calls(0)[k])
         /\ Calls(0)[1] = <<"spawn", "sleeperFunction">>
         /\ 1 \in SpawnPlaces
<1>1. Calls(0) = IF program = "test" THEN TestInit ELSE BloccantiInit(0)
  BY DEF FunctionsTyped, Calls
<1>2. 1 \in SpawnPlaces
  BY DEF SpawnPlaces
<1>3. PICK mqds : /\ SpawnsAt(SpawnPlaces, QuietCalls(QueueIds, mqds), Calls(0))
                  /\ Calls(0)[1] = <<"spawn", "sleeperFunction">>
  BY <1>1, TestInitSpawns, BloccantiInitSpawns, Zenon
<1>4. InitCallAt(k, Calls(0)[k])
  <2>1. IF k \in SpawnPlaces THEN Calls(0)[k] \in SpawnCalls
                             ELSE Calls(0)[k] \in QuietCalls(QueueIds, mqds)
    BY <1>3 DEF SpawnsAt
  <2>. QED  BY <2>1, Zenon DEF InitCallAt
<1>. QED  BY <1>2, <1>3, <1>4

NextCall(p) == Calls(p)[pc[p] + 1]

LEMMA Callers ==
  ASSUME PInv, NEW p \in PCB, Step(p)
  PROVE  /\ p = running /\ p \in Allocated /\ pc[p] \in Nat
         /\ code[p] # "sleeperFunction"
         /\ p = 0 => InitCallAt(pc[0] + 1, NextCall(0))
         /\ p # 0 => \E args : NextCall(p) \in ChildCalls(args)
<1>1. /\ p = running /\ pc[p] \in Nat /\ pc[p] < Len(Calls(p))
      /\ code[p] \in Functions /\ pid[p] \in Nat
  BY DEF Step, PInv, FunctionsTyped, MQInv, IInv, TypeOK
<1>2. p \in Allocated
  BY <1>1 DEF PInv, MQInv, IInv, Placement, Allocated
<1>3. code[p] # "sleeperFunction"
  <2>1. ASSUME code[p] = "sleeperFunction" PROVE FALSE
    <3>1. Calls(p) = <<>>
      BY <2>1 DEF Calls, Sleeper
    <3>2. Len(<<>>) = 0
      OBVIOUS
    <3>. QED  BY <1>1, <3>1, <3>2
  <2>. QED  BY <2>1
<1>4. CASE p = 0
  <2>1. Len(Calls(0)) \in Nat /\ pc[0] + 1 \in 1 .. Len(Calls(0))
    <3>1. \E P, Q : SpawnsAt(P, Q, Calls(0))
      <4>1. Calls(0) = IF program = "test" THEN TestInit ELSE BloccantiInit(0)
        BY DEF PInv, FunctionsTyped, Calls
      <4>. QED  BY <4>1, TestInitSpawns, BloccantiInitSpawns, Zenon
    <3>2. Len(Calls(0)) \in Nat
      BY <3>1, Members DEF SpawnsAt
    <3>. QED  BY <1>1, <1>4, <3>2
  <2>2. FunctionsTyped
    BY DEF PInv
  <2>3. InitCallAt(pc[0] + 1, NextCall(0))
    BY <2>1, <2>2, InitCalls DEF NextCall
  <2>. QED  BY <1>1, <1>2, <1>3, <1>4, <2>3
<1>5. CASE p # 0
  <2>1. code[p] = "childFunction"
    BY <1>1, <1>2, <1>3, <1>5 DEF PInv, FunctionsTyped, Functions
  <2>2. Calls(p) = Child(p)
    BY <2>1 DEF Calls
  <2>3. Child(p) \in Seq(ChildCalls({0, pid[p], mqd[p]}))
    BY <1>1, ChildTyped DEF PInv
  <2>4. NextCall(p) \in ChildCalls({0, pid[p], mqd[p]})
    <3>. HIDE DEF ChildCalls, NextCall
    <3>1. Len(Calls(p)) \in Nat /\ \A k \in 1 .. Len(Calls(p)) :
            Calls(p)[k] \in ChildCalls({0, pid[p], mqd[p]})
      BY <2>2, <2>3, Members
    <3>2. pc[p] + 1 \in 1 .. Len(Calls(p))
      BY <1>1, <3>1
    <3>. QED  BY <3>1, <3>2 DEF NextCall
  <2>. QED  BY <1>1, <1>2, <1>3, <1>5, <2>4
<1>. QED  BY <1>4, <1>5

-----------------------------------------------------------------------------
(* What every step but a spawn does: somebody still runs, the ready stay   *)
(* ready or run, nobody is added to the family, and no pid is used up.     *)
Calm ==
  /\ Survives'
  /\ ReadyStayOrRun
  /\ TakesNoBlock
  /\ pcbptr_free' \in Nat /\ pcbptr_free' >= pcbptr_free
  /\ init_pcb' = init_pcb /\ parent' = parent
  /\ \A p \in PCB \ {0} : children'[p] = <<>>

LEMMA SameFamilyCalm ==
  ASSUME PInv, UNCHANGED <<pcbVars, poolVars>>, Survives', ReadyStayOrRun
  PROVE  Calm
BY DEF PInv, Tree, MQInv, IInv, TypeOK, pcbVars, poolVars, Calm, TakesNoBlock, Allocated

LEMMA AnswerCalm ==
  ASSUME PInv, NEW value, Answers(value)
  PROVE  Calm
<1>1. UNCHANGED <<machine, running, ready_list, pcbVars, poolVars>>
  BY DEF Answers, processVars, schedVars
<1>2. Survives' /\ ReadyStayOrRun
  BY <1>1 DEF PInv, Survives, ReadyStayOrRun
<1>. QED  BY <1>1, <1>2, SameFamilyCalm

LEMMA SwitchCalm ==
  ASSUME PInv, ready_list # <<>>, SwitchToReady, UNCHANGED <<machine, pcbVars, poolVars>>
  PROVE  Calm
<1>1. IInv
  BY DEF PInv, MQInv
<1>2. running' \in PCB
  <2>1. ready_list \in Seq(PCB) /\ running' = Head(ready_list)
    BY <1>1 DEF SwitchToReady, IInv, TypeOK
  <2>. QED  BY <2>1, DetachHead
<1>3. Survives'
  BY <1>2, NullIsNoPCB DEF PInv, Survives
<1>4. ReadyStayOrRun
  BY <1>1, SwitchMoves
<1>. QED  BY <1>3, <1>4, SameFamilyCalm

LEMMA BlockedCalm ==
  ASSUME PInv, NEW retvalues, NEW error, Blocks(retvalues, error)
  PROVE  Calm
<1>1. UNCHANGED <<machine, pcbVars, poolVars>>
  BY DEF Blocks
<1>2. CASE ready_list # <<>> /\ SwitchToReady
  BY <1>1, <1>2, SwitchCalm
<1>3. CASE UNCHANGED <<running, ready_list>>
  <2>1. Survives' /\ ReadyStayOrRun
    BY <1>1, <1>3 DEF PInv, Survives, ReadyStayOrRun
  <2>. QED  BY <1>1, <2>1, SameFamilyCalm
<1>. QED  BY <1>2, <1>3 DEF Blocks, WaitOnTimer, Block

LEMMA SleepCalm ==
  ASSUME PInv, ready_list # <<>>, NEW cycles, internal_sleep(cycles)
  PROVE  Calm
<1>1. UNCHANGED <<machine, pcbVars, poolVars>>
  BY DEF internal_sleep
<1>2. CASE SwitchToReady
  BY <1>1, <1>2, SwitchCalm
<1>3. CASE UNCHANGED <<running, ready_list>>
  <2>1. Survives' /\ ReadyStayOrRun
    BY <1>1, <1>3 DEF PInv, Survives, ReadyStayOrRun
  <2>. QED  BY <1>1, <2>1, SameFamilyCalm
<1>. QED  BY <1>2, <1>3 DEF internal_sleep, WaitOnTimer, Block

(* Only init has children to wait for.                                     *)
LEMMA WaitCalm ==
  ASSUME PInv, ready_list # <<>>, internal_wait(0)
  PROVE  Calm
<1>1. CASE WaitWithoutChildren(0)
  <2>1. UNCHANGED <<machine, running, ready_list, pcbVars, poolVars>>
    BY <1>1 DEF WaitWithoutChildren, schedVars
  <2>2. Survives' /\ ReadyStayOrRun
    BY <2>1 DEF PInv, Survives, ReadyStayOrRun
  <2>. QED  BY <2>1, <2>2, SameFamilyCalm
<1>2. CASE WaitReaps(0)
  <2>1. /\ UNCHANGED <<machine, running, ready_list, init_pcb, parent, last_pid>>
        /\ children[running] # <<>> /\ running \in PCB
        /\ children' = [children EXCEPT ![running] = Detach(@, Awaited(0))]
        /\ pcbptr_free' = pcbptr_free + 1
    BY <1>2 DEF WaitReaps, Trap, Runs, PInv, MQInv, IInv, TypeOK
  <2>2. running = 0
    BY <2>1 DEF PInv, Tree
  <2>3. \A p \in PCB \ {0} : children'[p] = <<>>
    BY <2>1, <2>2 DEF PInv, Tree, MQInv, IInv, TypeOK
  <2>4. Allocated' \subseteq Allocated
    <3>1. IInv /\ 0 \in WaitPids
      BY TestProgramsAssumption DEF PInv, MQInv
    <3>. QED  BY <3>1, WaitFreesBlocks DEF Allocated
  <2>5. pcbptr_free' \in Nat /\ pcbptr_free' >= pcbptr_free
    BY <2>1 DEF PInv, MQInv, IInv, TypeOK
  <2>6. Survives' /\ ReadyStayOrRun
    BY <2>1 DEF PInv, Survives, ReadyStayOrRun
  <2>. QED  BY <2>1, <2>3, <2>4, <2>5, <2>6 DEF Calm, TakesNoBlock
<1>3. CASE WaitBlocks(0)
  <2>1. SwitchToReady /\ UNCHANGED <<machine, pcbVars, poolVars>>
    BY <1>3 DEF WaitBlocks, Block
  <2>. QED  BY <2>1, SwitchCalm
<1>4. ~WaitDies(0)
  BY DEF WaitDies
<1>. QED  BY <1>1, <1>2, <1>3, <1>4 DEF internal_wait

(* A child that exits finds init as its parent, itself in init's list, and *)
(* the sleeper ready.                                                      *)
LEMMA ExitCalm ==
  ASSUME PInv, ready_list # <<>>, running \in Allocated \ {0}, Exits
  PROVE  Calm
<1>1. IInv /\ running \in PCB \ {0} /\ running \in PCB \ ToSet(pcb_pool)
  BY DEF PInv, MQInv, Allocated
<1>2. /\ init_pcb = 0 /\ parent[running] = 0 /\ 0 \in PCB
      /\ children[running] = <<>>
      /\ 0 # NULL
  BY <1>1, KernelAssumption, NullIsNoPCB DEF PInv, Tree, PCB
<1>3. /\ Reparented \in [PCB -> Seq(PCB)]
      /\ \A p \in PCB \ {0} : Reparented[p] = <<>>
      /\ ToSet(Reparented[0]) = UNION {ToSet(Reparented[p]) : p \in PCB}
      /\ UNION {ToSet(Reparented[p]) : p \in PCB} = UNION {ToSet(children[p]) : p \in PCB}
  <2>1. /\ Reparented \in [PCB -> Seq(PCB)]
        /\ Reparented[running] = <<>>
        /\ \A p \in PCB \ {running, init_pcb} : Reparented[p] = children[p]
        /\ UNION {ToSet(Reparented[p]) : p \in PCB} = UNION {ToSet(children[p]) : p \in PCB}
    BY <1>1, <1>2, ReparentedFamily
  <2>2. \A p \in PCB \ {0} : Reparented[p] = <<>>
    BY <1>2, <2>1 DEF PInv, Tree
  <2>3. \A p \in PCB \ {0} : ToSet(Reparented[p]) = {}
    BY <2>2, EmptyList
  <2>4. ToSet(Reparented[0]) = UNION {ToSet(Reparented[p]) : p \in PCB}
    <3>. DEFINE members(p) == ToSet(Reparented[p])
    <3>1. \A p \in PCB : members(p) \subseteq members(0)
      BY <2>3
    <3>. HIDE DEF members
    <3>2. members(0) = UNION {members(p) : p \in PCB}
      BY <1>2, <3>1
    <3>. QED  BY <3>2 DEF members
  <2>. QED  BY <2>1, <2>2, <2>4
<1>4. PCBPtr_byPID(Reparented[0], pid[running])
  <2>1. running \in UNION {ToSet(children[p]) : p \in PCB}
    <3>1. running \in {p \in PCB \ ToSet(pcb_pool) : parent[p] # NULL}
      BY <1>1, <1>2
    <3>. QED  BY <1>1, <3>1 DEF IInv, Family
  <2>2. running \in ToSet(Reparented[0]) /\ Reparented[0] \in Seq(PCB)
    BY <1>2, <1>3, <2>1
  <2>3. \E i \in 1 .. Len(Reparented[0]) : Reparented[0][i] = running
    BY <2>2, Members
  <2>. QED  BY <2>3 DEF PCBPtr_byPID
<1>5. ~ExitDies
  BY <1>1, <1>2, <1>4, Zenon DEF ExitDies, ExitLoops
<1>6. CASE ExitToParent
  <2>1. /\ running' = 0
        /\ children' = [Reparented EXCEPT ![0] = WithoutPID(@, pid[running])]
        /\ UNCHANGED <<machine, parent, init_pcb, last_pid, pcbptr_free, ready_list>>
    BY <1>2, <1>6 DEF ExitToParent
  <2>2. \A p \in PCB \ {0} : children'[p] = <<>>
    BY <1>3, <2>1
  <2>3. Allocated' \subseteq Allocated
    BY <1>1, <1>6, ExitFreesBlock DEF Allocated
  <2>4. Survives' /\ ReadyStayOrRun
    BY <1>2, <2>1 DEF PInv, Survives, ReadyStayOrRun
  <2>. QED  BY <1>1, <2>1, <2>2, <2>3, <2>4 DEF Calm, TakesNoBlock, IInv, TypeOK
<1>7. CASE ExitToReady
  <2>1. /\ children' = Reparented /\ running' = Head(ready_list)
        /\ SwitchToReady
        /\ UNCHANGED <<machine, parent, init_pcb, last_pid, poolVars>>
    BY <1>7 DEF ExitToReady, SwitchToReady
  <2>2. Head(ready_list) \in PCB
    BY <1>1, DetachHead DEF IInv, TypeOK
  <2>3. Survives' /\ ReadyStayOrRun
    BY <1>1, <2>1, <2>2, NullIsNoPCB, SwitchMoves DEF PInv, Survives
  <2>. QED  BY <1>1, <1>3, <2>1, <2>3 DEF Calm, TakesNoBlock, Allocated, poolVars, IInv, TypeOK
<1>. QED  BY <1>5, <1>6, <1>7 DEF Exits

LEMMA ShutdownCalm ==
  ASSUME PInv, internal_shutdown
  PROVE  Calm
<1>1. machine' = "off" /\ UNCHANGED <<running, ready_list, pcbVars, poolVars>>
  BY DEF internal_shutdown, Stop, schedVars
<1>2. Survives' /\ ReadyStayOrRun
  BY <1>1 DEF PInv, Survives, ReadyStayOrRun
<1>. QED  BY <1>1, <1>2, SameFamilyCalm

LEMMA TickCalm ==
  ASSUME PInv, timerInterrupt
  PROVE  Calm /\ running \in ToSet(ready_list') \cup {running'}
<1>1. /\ IInv /\ running \in PCB /\ Tick \in Nat
      /\ internal_schedule(Tick) /\ UNCHANGED <<machine, pcbVars, poolVars>>
  BY KernelAssumption DEF PInv, MQInv, IInv, TypeOK, timerInterrupt, Runs, Tick
<1>2. Moves /\ running' \in PCB /\ running \in ToSet(ready_list') \cup {running'}
  BY <1>1, ScheduleMoves DEF pcbVars, poolVars
<1>3. Survives' /\ ReadyStayOrRun
  BY <1>1, <1>2, NullIsNoPCB DEF PInv, Survives, Moves
<1>. QED  BY <1>1, <1>2, <1>3, SameFamilyCalm

-----------------------------------------------------------------------------
(* The queue calls.  Not full queues leave messages in the pool.           *)
QueuesStay ==
  /\ DOMAIN messagequeues' \subseteq DOMAIN messagequeues
  /\ \A id \in DOMAIN messagequeues' : messagequeues'[id].max_msg = messagequeues[id].max_msg

LEMMA QueuesFinite ==
  ASSUME PInv
  PROVE  /\ Capacity \in Nat
         /\ IsFiniteSet(DOMAIN messagequeues)
         /\ Cardinality(DOMAIN messagequeues) \in Nat
         /\ IsFiniteSet(QueueIds)
         /\ Cardinality(QueueIds) = IF program = "test" THEN NumQueues ELSE 1
         /\ Capacity * Cardinality(DOMAIN messagequeues) <= MAX_NUM_MESSAGES
<1>1. NumQueues \in Nat /\ MaxMsg \in Nat /\ MAX_NUM_MESSAGES \in Nat
  BY TestProgramsAssumption, MessageQueuesAssumption
<1>2. IsFiniteSet(QueueIds) /\ Cardinality(QueueIds) = IF program = "test" THEN NumQueues ELSE 1
  <2>1. CASE program = "test"
    <3>. DEFINE n == NumQueues - 1
    <3>1. n \in Int /\ 0 \in Int /\ (IF 0 > n THEN 0 ELSE n - 0 + 1) = NumQueues
      BY <1>1
    <3>2. IsFiniteSet(0 .. n) /\ Cardinality(0 .. n) = IF 0 > n THEN 0 ELSE n - 0 + 1
      <4>. HIDE DEF n
      <4>. QED  BY <3>1, FS_Interval
    <3>. QED  BY <2>1, <3>1, <3>2 DEF QueueIds
  <2>2. CASE program # "test"
    BY <2>2, FS_Singleton DEF QueueIds
  <2>. QED  BY <2>1, <2>2
<1>3. /\ IsFiniteSet(DOMAIN messagequeues)
      /\ Cardinality(DOMAIN messagequeues) \in Nat
      /\ Cardinality(DOMAIN messagequeues) <= Cardinality(QueueIds)
  BY <1>2, FS_Subset, FS_CardinalityType DEF PInv, QueuesKnown
<1>4. Capacity \in Nat
  BY <1>1 DEF Capacity
<1>5. Capacity * Cardinality(DOMAIN messagequeues) <= MAX_NUM_MESSAGES
  <2>. DEFINE n == Cardinality(DOMAIN messagequeues)
  <2>1. n \in Nat /\ n <= IF program = "test" THEN NumQueues ELSE 1
    BY <1>2, <1>3
  <2>2. MAX_NUM_MESSAGES >= MaxMsg /\ MAX_NUM_MESSAGES >= 10 * NumQueues
    BY PoolsSuffice
  <2>. HIDE DEF n
  <2>3. CASE program = "test"
    <3>1. Capacity * n = 10 * n /\ n <= NumQueues
      BY <2>1, <2>3 DEF Capacity
    <3>. QED  BY <1>1, <2>1, <2>2, <3>1 DEF n
  <2>4. CASE program # "test"
    <3>1. Capacity * n = MaxMsg * n /\ (n = 0 \/ n = 1)
      BY <2>1, <2>4 DEF Capacity
    <3>2. MaxMsg * 0 = 0 /\ MaxMsg * 1 = MaxMsg
      BY <1>1
    <3>. QED  BY <1>1, <2>2, <3>1, <3>2 DEF n
  <2>. QED  BY <2>3, <2>4
<1>. QED  BY <1>2, <1>3, <1>4, <1>5

LEMMA RoomForMessage ==
  ASSUME PInv, Runs, NEW d, HasMqd(d), ~Full(d)
  PROVE  message_free > 0
<1>. DEFINE S == DOMAIN messagequeues
            id == descrittori[running][d]
            f == Lengths
            g == [i \in S |-> IF i = id THEN f[i] + 1 ELSE f[i]]
<1>1. MQInv /\ MQTyped /\ UsersCoverHeld /\ QueuesCounted /\ MessagesAccounted /\ QueuesKnown
  BY DEF PInv, MQInv, Accounted
<1>2. running \in Live
  BY <1>1, Caller
<1>3. id \in S
  BY <1>1, <1>2, OpenExists DEF HasMqd
<1>4. \A i \in S :
        /\ f[i] = Len(messagequeues[i].messages) /\ f[i] \in Nat
        /\ messagequeues[i].msg_num = f[i]
        /\ messagequeues[i].max_msg = Capacity
        /\ f[i] <= Capacity
  <2>1. Capacity \in Nat
    BY QueuesFinite
  <2>2. \A i \in S : f[i] = Len(messagequeues[i].messages) /\ f[i] \in Nat
    BY <1>1, QueuesTyped
  <2>. HIDE DEF f
  <2>. QED  BY <1>1, <2>1, <2>2 DEF QueuesCounted, QueuesKnown
<1>5. f[id] # Capacity
  BY <1>3, <1>4 DEF Full, Queue
<1>. HIDE DEF id, f
<1>6. \A i \in S : g[i] \in Nat /\ g[i] <= Capacity
  <2>1. Capacity \in Nat
    BY QueuesFinite
  <2>. QED  BY <1>3, <1>4, <1>5, <2>1
<1>7. g[id] = f[id] + 1 /\ \A i \in S \ {id} : g[i] = f[i]
  BY <1>3
<1>. HIDE DEF g
<1>8. SumFunctionOnSet(g, S) <= MAX_NUM_MESSAGES
  <2>1. SumFunctionOnSet(g, S) <= Capacity * Cardinality(S)
    BY <1>6, QueuesFinite, SumBound
  <2>2. Capacity * Cardinality(S) <= MAX_NUM_MESSAGES
    BY QueuesFinite
  <2>3. Capacity * Cardinality(S) \in Nat /\ MAX_NUM_MESSAGES \in Nat
    BY QueuesFinite, MessageQueuesAssumption
  <2>4. SumFunctionOnSet(g, S) \in Nat
    BY <1>6, QueuesFinite, SumType
  <2>. QED  BY <2>1, <2>2, <2>3, <2>4
<1>9. SumFunctionOnSet(g, S) = SumFunctionOnSet(f, S) - f[id] + g[id]
  <2>1. \A i \in S : f[i] \in Nat /\ g[i] \in Nat
    BY <1>4, <1>6
  <2>2. IsFiniteSet(S)
    BY QueuesFinite
  <2>. HIDE DEF S
  <2>. QED  BY <1>3, <1>7, <2>1, <2>2, SumUpdate
<1>10. SumFunctionOnSet(f, S) = LengthsSum /\ LengthsSum \in Nat
  BY <1>1, QueuesTyped DEF LengthsSum, f
<1>11. message_free + LengthsSum = MAX_NUM_MESSAGES /\ message_free \in Nat
  BY <1>1, Accounts DEF MQTyped
<1>12. MAX_NUM_MESSAGES \in Nat /\ f[id] \in Nat
  BY <1>3, <1>4, MessageQueuesAssumption
<1>. QED  BY <1>7, <1>8, <1>9, <1>10, <1>11, <1>12

(* A queue changes in something else than its capacity.                    *)
LEMMA QueueStays ==
  ASSUME PInv, NEW id, NEW q, q.max_msg = messagequeues[id].max_msg,
         messagequeues' = [messagequeues EXCEPT ![id] = q]
  PROVE  QueuesStay
BY DEF QueuesStay, PInv, MQInv, Accounted, MQTyped

LEMMA QueueTyped ==
  ASSUME PInv, NEW id \in DOMAIN messagequeues
  PROVE  messagequeues[id] \in QueueRecord
BY DEF PInv, MQInv, Accounted, MQTyped

(* The queue a descriptor of the running process names.                    *)
LEMMA HasQueue ==
  ASSUME PInv, Runs, NEW d, HasMqd(d)
  PROVE  /\ descrittori[running][d] \in DOMAIN messagequeues
         /\ Queue(d) \in QueueRecord
<1>1. MQInv /\ MQTyped /\ UsersCoverHeld
  BY DEF PInv, MQInv, Accounted
<1>2. running \in Live
  BY <1>1, Caller
<1>3. descrittori[running][d] \in DOMAIN messagequeues
  BY <1>1, <1>2, OpenExists DEF HasMqd
<1>. QED  BY <1>3, QueueTyped DEF Queue

LEMMA FailsStays ==
  ASSUME PInv, NEW error, Fails(error)
  PROVE  Calm /\ QueuesStay
BY AnswerCalm DEF Fails, QueuesStay, mqVars

LEMMA CloseStays ==
  ASSUME PInv, NEW d, internal_mq_close(d)
  PROVE  Calm /\ QueuesStay
<1>1. CASE CloseUnknown(d)
  BY <1>1, FailsStays DEF CloseUnknown
<1>2. CASE Closes(d)
  <2>1. Answers(0) /\ Runs /\ HasMqd(d)
    BY <1>2 DEF Closes, Answers, Trap
  <2>2. QueuesStay
    <3>1. Queue(d) \in QueueRecord
      BY <2>1, HasQueue
    <3>2. [Queue(d) EXCEPT !.users = @ - 1].max_msg = Queue(d).max_msg
      BY <3>1 DEF QueueRecord
    <3>3. messagequeues' = [messagequeues EXCEPT ![descrittori[running][d]]
                              = [Queue(d) EXCEPT !.users = @ - 1]]
      BY <1>2 DEF Closes, Queue
    <3>. QED  BY <3>2, <3>3, QueueStays DEF Queue
  <2>. QED  BY <2>1, <2>2, AnswerCalm
<1>. QED  BY <1>1, <1>2 DEF internal_mq_close

LEMMA UnlinkStays ==
  ASSUME PInv, NEW id, internal_mq_unlink(id)
  PROVE  Calm /\ QueuesStay
<1>1. CASE UnlinkUnknown(id)
  BY <1>1, FailsStays DEF UnlinkUnknown
<1>2. CASE UnlinkInUse(id)
  BY <1>2, FailsStays DEF UnlinkInUse
<1>3. CASE Unlinks(id)
  <2>1. Answers(0) /\ messagequeues' = Without(messagequeues, id)
    BY <1>3 DEF Unlinks
  <2>2. QueuesStay
    BY <2>1 DEF Without, Restrict, QueuesStay
  <2>. QED  BY <2>1, <2>2, AnswerCalm
<1>. QED  BY <1>1, <1>2, <1>3 DEF internal_mq_unlink

LEMMA SendStays ==
  ASSUME PInv, ready_list # <<>>, NEW d, NEW msg_len, internal_mq_send(d, msg_len)
  PROVE  Calm /\ QueuesStay
<1>1. CASE SendRefused(d, msg_len)
  BY <1>1, FailsStays DEF SendRefused
<1>2. CASE SendBlocks(d, msg_len)
  BY <1>2, BlockedCalm DEF SendBlocks, Blocks, QueuesStay, mqVars
<1>3. CASE Sends(d, msg_len)
  <2>1. Answers(0) /\ Runs /\ HasMqd(d)
    BY <1>3, MaySendHas DEF Sends, Answers, Trap
  <2>2. QueuesStay
    <3>. DEFINE q == [Queue(d) EXCEPT !.messages = Append(@, sent + 1), !.msg_num = @ + 1]
    <3>1. Queue(d) \in QueueRecord /\ descrittori[running][d] \in DOMAIN messagequeues
      BY <2>1, HasQueue
    <3>2. q.max_msg = Queue(d).max_msg
      BY <3>1 DEF QueueRecord
    <3>3. messagequeues' = [messagequeues EXCEPT ![descrittori[running][d]] = q]
      BY <1>3, <3>1 DEF Sends, Queue, PInv, MQInv, Accounted, MQTyped
    <3>. QED  BY <3>2, <3>3, QueueStays DEF Queue
  <2>. QED  BY <2>1, <2>2, AnswerCalm
<1>4. ~SendDies(d, msg_len)
  <2>1. MaySend(d, msg_len) /\ ~Full(d) => message_free > 0
    BY MaySendHas, RoomForMessage DEF MaySend
  <2>2. message_free \in Nat
    BY DEF PInv, MQInv, Accounted, MQTyped
  <2>3. SendDies(d, msg_len)
          => ready_list = <<>> \/ (MaySend(d, msg_len) /\ ~Full(d) /\ message_free = 0)
    BY Zenon DEF SendDies, BlocksAlone
  <2>. QED  BY <2>1, <2>2, <2>3
<1>. QED  BY <1>1, <1>2, <1>3, <1>4 DEF internal_mq_send

LEMMA ReceiveStays ==
  ASSUME PInv, ready_list # <<>>, NEW d, NEW msg_len, internal_mq_receive(d, msg_len)
  PROVE  Calm /\ QueuesStay
<1>1. CASE ReceiveRefused(d)
  BY <1>1, FailsStays DEF ReceiveRefused
<1>2. CASE ReceiveBlocks(d, msg_len)
  BY <1>2, BlockedCalm DEF ReceiveBlocks, Blocks, QueuesStay, mqVars
<1>3. CASE Receives(d, msg_len)
  <2>1. Answers(0) /\ Runs /\ HasMqd(d)
    BY <1>3, MayReceiveHas DEF Receives, Answers, Trap
  <2>2. QueuesStay
    <3>. DEFINE q == [Queue(d) EXCEPT !.messages = Tail(@), !.msg_num = @ - 1]
    <3>1. Queue(d) \in QueueRecord /\ descrittori[running][d] \in DOMAIN messagequeues
      BY <2>1, HasQueue
    <3>2. q.max_msg = Queue(d).max_msg
      BY <3>1 DEF QueueRecord
    <3>3. messagequeues' = [messagequeues EXCEPT ![descrittori[running][d]] = q]
      BY <1>3, <3>1 DEF Receives, Queue, PInv, MQInv, Accounted, MQTyped
    <3>. QED  BY <3>2, <3>3, QueueStays DEF Queue
  <2>. QED  BY <2>1, <2>2, AnswerCalm
<1>4. ~ReceiveDies(d)
  BY DEF ReceiveDies, BlocksAlone
<1>. QED  BY <1>1, <1>2, <1>3, <1>4 DEF internal_mq_receive

(* A child opens a queue that exists.                                      *)
LEMMA OpenStays ==
  ASSUME PInv, NEW id, NEW max_msg, internal_mq_open(id, 0, 20, max_msg, {})
  PROVE  Calm /\ QueuesStay
<1>1. CASE OpenRefused(id, 0, {})
  BY <1>1, FailsStays DEF OpenRefused
<1>2. CASE OpenWithoutDescrittore(id, 0, 20, max_msg, {})
  BY <1>2, AnswerCalm DEF OpenWithoutDescrittore, WithQueue, QueuesStay
<1>3. CASE Opens(id, 0, 20, max_msg, {})
  <2>1. Answers(last_mqd[running]) /\ Exists(id)
    <3>1. ~Exists(id) => OpenError(id, 0, {}) = DSOS_EMESSAGEQUEUEOPEN
      BY DEF OpenError
    <3>2. DSOS_EMESSAGEQUEUEOPEN # NULL
      BY KernelAssumption DEF DSOS_EMESSAGEQUEUEOPEN
    <3>. QED  BY <1>3, <3>1, <3>2 DEF Opens
  <2>2. QueuesStay
    <3>. DEFINE q == [messagequeues[id] EXCEPT !.users = @ + 1]
    <3>1. q.max_msg = messagequeues[id].max_msg
      BY <2>1, QueueTyped DEF Exists, QueueRecord
    <3>2. messagequeues' = [messagequeues EXCEPT ![id] = q]
      BY <1>3 DEF Opens, WithQueue
    <3>. QED  BY <3>1, <3>2, QueueStays
  <2>. QED  BY <2>1, <2>2, AnswerCalm
<1>4. ~OpenDies(id, 0, {})
  BY DEF OpenDies, NoQueueBlock
<1>. QED  BY <1>1, <1>2, <1>3, <1>4 DEF internal_mq_open

(* Init creates a queue of its program's, for which there is a block.      *)
LEMMA CreateKnown ==
  ASSUME PInv, NEW id \in QueueIds, UNCHANGED program,
         internal_mq_open(id, 0, 20, Capacity, {DSOS_CREATE})
  PROVE  Calm /\ QueuesKnown'
<1>. DEFINE new == MessageQueue(0, 20, Capacity)
            with == With(messagequeues, id, new)
<1>1. /\ DOMAIN with \subseteq QueueIds
      /\ id \in DOMAIN with
      /\ \A i \in DOMAIN with :
           with[i].max_msg = Capacity /\ (i # id => with[i] = messagequeues[i])
      /\ with[id] = new
  <2>1. new.max_msg = Capacity
    BY DEF MessageQueue
  <2>. HIDE DEF new
  <2>. QED  BY <2>1 DEF With, PInv, QueuesKnown
<1>2. QueueIds' = QueueIds /\ Capacity' = Capacity
  BY DEF QueueIds, Capacity
<1>3. CASE OpenRefused(id, 0, {DSOS_CREATE})
  <2>1. Calm /\ QueuesStay
    BY <1>3, FailsStays DEF OpenRefused
  <2>. QED  BY <1>2, <2>1 DEF QueuesStay, PInv, QueuesKnown
<1>4. CASE OpenWithoutDescrittore(id, 0, 20, Capacity, {DSOS_CREATE})
  <2>1. messagequeues' = with /\ Answers(DSOS_EMESSAGEQUEUENOFD)
    BY <1>4 DEF OpenWithoutDescrittore, WithQueue
  <2>. HIDE DEF with
  <2>. QED  BY <1>1, <1>2, <2>1, AnswerCalm DEF QueuesKnown
<1>5. CASE Opens(id, 0, 20, Capacity, {DSOS_CREATE})
  <2>1. /\ messagequeues' = [with EXCEPT ![id].users = @ + 1]
        /\ Answers(last_mqd[running])
    BY <1>5 DEF Opens, WithQueue
  <2>2. [new EXCEPT !.users = @ + 1].max_msg = Capacity
    BY DEF MessageQueue
  <2>. HIDE DEF with, new
  <2>3. messagequeues' = [with EXCEPT ![id] = [new EXCEPT !.users = @ + 1]]
    BY <1>1, <2>1
  <2>. QED  BY <1>1, <1>2, <2>1, <2>2, <2>3, AnswerCalm DEF QueuesKnown
<1>6. ~OpenDies(id, 0, {DSOS_CREATE})
  <2>1. CASE Exists(id)
    <3>1. OpenError(id, 0, {DSOS_CREATE}) = DSOS_EMESSAGEQUEUECREATE
      BY <2>1 DEF OpenError
    <3>2. DSOS_EMESSAGEQUEUECREATE # NULL
      BY KernelAssumption DEF DSOS_EMESSAGEQUEUECREATE
    <3>. QED  BY <3>1, <3>2 DEF OpenDies
  <2>2. CASE ~Exists(id)
    <3>1. /\ IsFiniteSet(QueueIds)
          /\ Cardinality(QueueIds) = IF program = "test" THEN NumQueues ELSE 1
      BY QueuesFinite
    <3>2. /\ IsFiniteSet(QueueIds \ {id})
          /\ Cardinality(QueueIds \ {id}) = Cardinality(QueueIds) - 1
      BY <3>1, FS_RemoveElement
    <3>3. DOMAIN messagequeues \subseteq QueueIds \ {id}
      BY <2>2 DEF PInv, QueuesKnown, Exists
    <3>4. Cardinality(DOMAIN messagequeues) <= Cardinality(QueueIds \ {id})
      BY <3>2, <3>3, FS_Subset
    <3>5. /\ NumQueues \in Nat /\ MAX_NUM_MESSAGEQUEUES \in Nat
          /\ MAX_NUM_MESSAGEQUEUES >= NumQueues /\ MAX_NUM_MESSAGEQUEUES >= 1
      BY TestProgramsAssumption, MessageQueuesAssumption, PoolsSuffice
    <3>6. Cardinality(DOMAIN messagequeues) \in Nat
      BY QueuesFinite
    <3>7. Cardinality(DOMAIN messagequeues) # MAX_NUM_MESSAGEQUEUES
      BY <3>1, <3>2, <3>4, <3>5, <3>6
    <3>. QED  BY <3>7 DEF OpenDies, NoQueueBlock
  <2>. QED  BY <2>1, <2>2
<1>. QED  BY <1>3, <1>4, <1>5, <1>6 DEF internal_mq_open

-----------------------------------------------------------------------------
(* A spawn finds a PCB and a PCBPtr: init spawns a few times only, and     *)
(* each pid used up is one of these.                                       *)
SpawnsMade(k) == Cardinality(SpawnPlaces \cap (1 .. k))

LEMMA PlacesFinite ==
  ASSUME FunctionsTyped
  PROVE  /\ IsFiniteSet(SpawnPlaces) /\ Cardinality(SpawnPlaces) \in Nat
         /\ Cardinality(SpawnPlaces) <= IF program = "test" THEN NumChildren + 1 ELSE 2
         /\ Cardinality(SpawnPlaces) < MAX_NUM_PROCESSES
<1>1. /\ NumChildren \in Nat /\ MAX_NUM_PROCESSES \in Nat
      /\ MAX_NUM_PROCESSES >= 3 /\ MAX_NUM_PROCESSES >= NumChildren + 2
  BY TestProgramsAssumption, PoolsSuffice, KernelAssumption
<1>2. CASE program = "test"
  <2>. DEFINE a == Len(TestQueues) + 1
              b == Len(TestQueues) + NumChildren
  <2>1. Len(TestQueues) \in Nat
    BY <1>2, TestInitSpawns
  <2>2. a \in Int /\ b \in Int /\ (IF a > b THEN 0 ELSE b - a + 1) = NumChildren
    BY <1>1, <2>1
  <2>3. SpawnPlaces = (a .. b) \cup {1}
    BY <1>2 DEF SpawnPlaces
  <2>. HIDE DEF a, b
  <2>4. IsFiniteSet(a .. b) /\ Cardinality(a .. b) = NumChildren
    BY <2>2, FS_Interval
  <2>5. /\ IsFiniteSet((a .. b) \cup {1})
        /\ Cardinality((a .. b) \cup {1})
             = IF 1 \in a .. b THEN NumChildren ELSE NumChildren + 1
    BY <2>4, FS_AddElement
  <2>. QED  BY <1>1, <1>2, <2>3, <2>5
<1>3. CASE program # "test"
  <2>1. SpawnPlaces = {1} \cup {3}
    BY <1>3 DEF SpawnPlaces
  <2>2. IsFiniteSet({1}) /\ Cardinality({1}) = 1
    BY FS_Singleton
  <2>3. IsFiniteSet({1} \cup {3}) /\ Cardinality({1} \cup {3}) = 2
    BY <2>2, FS_AddElement
  <2>. QED  BY <1>1, <1>3, <2>1, <2>3
<1>. QED  BY <1>2, <1>3

LEMMA NextPlace ==
  ASSUME FunctionsTyped, NEW k \in Nat
  PROVE  /\ SpawnsMade(k) \in Nat
         /\ SpawnsMade(k + 1)
              = IF k + 1 \in SpawnPlaces THEN SpawnsMade(k) + 1 ELSE SpawnsMade(k)
         /\ SpawnsMade(k + 1) < MAX_NUM_PROCESSES
<1>. DEFINE S == SpawnPlaces \cap (1 .. k)
            T == SpawnPlaces \cap (1 .. k + 1)
<1>1. IsFiniteSet(SpawnPlaces) /\ Cardinality(SpawnPlaces) < MAX_NUM_PROCESSES
  BY PlacesFinite
<1>2. S \in SUBSET SpawnPlaces /\ T \in SUBSET SpawnPlaces
  OBVIOUS
<1>3. /\ k + 1 \in SpawnPlaces => T = S \cup {k + 1}
      /\ k + 1 \notin SpawnPlaces => T = S
      /\ k + 1 \notin S
  OBVIOUS
<1>4. SpawnsMade(k) = Cardinality(S) /\ SpawnsMade(k + 1) = Cardinality(T)
  BY DEF SpawnsMade
<1>. HIDE DEF S, T
<1>5. IsFiniteSet(S) /\ Cardinality(S) \in Nat
  BY <1>1, <1>2, FS_Subset, FS_CardinalityType
<1>6. Cardinality(S \cup {k + 1}) = Cardinality(S) + 1
  BY <1>3, <1>5, FS_AddElement
<1>7. Cardinality(T) <= Cardinality(SpawnPlaces)
  BY <1>1, <1>2, FS_Subset
<1>8. Cardinality(T) \in Nat /\ Cardinality(SpawnPlaces) \in Nat /\ MAX_NUM_PROCESSES \in Nat
  <2>1. IsFiniteSet(T)
    BY <1>1, <1>2, FS_Subset
  <2>. QED  BY <2>1, FS_CardinalityType, PlacesFinite, KernelAssumption
<1>9. Cardinality(T) < MAX_NUM_PROCESSES
  BY <1>1, <1>7, <1>8
<1>10. CASE k + 1 \in SpawnPlaces
  BY <1>3, <1>4, <1>5, <1>6, <1>9, <1>10
<1>11. CASE k + 1 \notin SpawnPlaces
  BY <1>3, <1>4, <1>5, <1>9, <1>11
<1>. QED  BY <1>10, <1>11

LEMMA SpawnFinds ==
  ASSUME PInv, pc[0] + 1 \in SpawnPlaces
  PROVE  ~NewProcessDies
<1>1. /\ IInv /\ pc[0] \in Nat /\ last_pid \in Nat /\ pcbptr_free \in Nat
      /\ MAX_NUM_PROCESSES \in Nat
  <2>1. 0 \in PCB
    BY KernelAssumption DEF PCB
  <2>. QED  BY <2>1, KernelAssumption DEF PInv, MQInv, IInv, TypeOK, FunctionsTyped
<1>2. last_pid < MAX_NUM_PROCESSES
  <2>1. last_pid <= 1 + SpawnsMade(pc[0])
    BY DEF PInv, SpawnsCounted, SpawnsMade
  <2>2. FunctionsTyped
    BY DEF PInv
  <2>3. /\ SpawnsMade(pc[0]) \in Nat
        /\ SpawnsMade(pc[0]) + 1 < MAX_NUM_PROCESSES
    BY <1>1, <2>2, NextPlace
  <2>. QED  BY <1>1, <2>1, <2>3
<1>3. HasPCBPtr
  BY <1>1, <1>2 DEF PInv, SpawnsCounted, HasPCBPtr
<1>4. pcb_pool # <<>>
  <2>1. ASSUME pcb_pool = <<>> PROVE FALSE
    <3>1. \A p \in PCB : p \notin ToSet(pcb_pool)
      BY <2>1, EmptyList
    <3>2. \A p, q \in PCB : pid[p] < last_pid /\ (pid[p] = pid[q] => p = q)
      BY <1>1, <3>1 DEF IInv, PidsUnique
    <3>3. pid \in [PCB -> 0 .. last_pid - 1]
      <4>1. pid \in [PCB -> Nat]
        BY <1>1 DEF IInv, TypeOK
      <4>2. \A p \in PCB : pid[p] \in 0 .. last_pid - 1
        BY <1>1, <3>2, <4>1
      <4>. QED  BY <4>1, <4>2
    <3>4. IsFiniteSet(0 .. last_pid - 1) /\ Cardinality(0 .. last_pid - 1) = last_pid
      <4>. DEFINE n == last_pid - 1
      <4>1. n \in Int /\ 0 \in Int /\ (IF 0 > n THEN 0 ELSE n - 0 + 1) = last_pid
        BY <1>1
      <4>2. IsFiniteSet(0 .. n) /\ Cardinality(0 .. n) = IF 0 > n THEN 0 ELSE n - 0 + 1
        <5>. HIDE DEF n
        <5>. QED  BY <4>1, FS_Interval
      <4>. QED  BY <4>1, <4>2
    <3>5. IsFiniteSet(PCB) /\ Cardinality(PCB) = MAX_NUM_PROCESSES
      <4>. DEFINE n == MAX_NUM_PROCESSES - 1
      <4>1. n \in Int /\ 0 \in Int /\ (IF 0 > n THEN 0 ELSE n - 0 + 1) = MAX_NUM_PROCESSES
        BY <1>1
      <4>2. IsFiniteSet(0 .. n) /\ Cardinality(0 .. n) = IF 0 > n THEN 0 ELSE n - 0 + 1
        <5>. HIDE DEF n
        <5>. QED  BY <4>1, FS_Interval
      <4>. QED  BY <4>1, <4>2 DEF PCB
    <3>6. \E p, q \in PCB : p # q /\ pid[p] = pid[q]
      <4>. DEFINE T == 0 .. last_pid - 1
      <4>. HIDE DEF T
      <4>1. IsFiniteSet(T) /\ Cardinality(T) < Cardinality(PCB) /\ pid \in [PCB -> T]
        BY <1>2, <3>3, <3>4, <3>5 DEF T
      <4>. QED  BY <3>5, <4>1, FS_PigeonHole
    <3>. QED  BY <3>2, <3>6
  <2>. QED  BY <2>1
<1>. QED  BY <1>3, <1>4, Zenon DEF NewProcessDies

LEMMA SamePlaces ==
  ASSUME UNCHANGED program
  PROVE  SpawnPlaces' = SpawnPlaces /\ QueueIds' = QueueIds /\ Capacity' = Capacity
BY DEF SpawnPlaces, QueueIds, Capacity

LEMMA InitInUse ==
  ASSUME MQInv, init_pcb = 0
  PROVE  0 \in PCB /\ 0 \in Allocated
BY KernelAssumption DEF MQInv, IInv, Family, Allocated, PCB

LEMMA SpawnStep ==
  ASSUME PInv, running = 0, pc[0] + 1 \in SpawnPlaces,
         NEW f \in {"sleeperFunction", "childFunction"}, pc[0] = 0 => f = "sleeperFunction",
         Spawns(f)
  PROVE  PInv'
<1>. DEFINE new == Head(pcb_pool)
<1>1. /\ internal_spawn /\ NewDescrittori
      /\ code' = [code EXCEPT ![new] = f]
      /\ pc' = [pc EXCEPT ![new] = 0, ![0] = @ + 1]
      /\ UNCHANGED program
  BY SpawnFinds DEF Spawns
<1>2. NewProcess
  BY <1>1 DEF internal_spawn
<1>3. /\ UNCHANGED <<machine, running, init_pcb>>
      /\ parent' = [parent EXCEPT ![new] = 0]
      /\ children' = [children EXCEPT ![new] = <<>>, ![0] = Append(@, new)]
      /\ ready_list' = Append(ready_list, new)
      /\ last_pid' = last_pid + 1 /\ pcbptr_free' = pcbptr_free - 1
  BY <1>2 DEF NewProcess, PCB_alloc
<1>4. /\ new \in PCB /\ new \in ToSet(pcb_pool) /\ new \notin Allocated /\ new # 0
      /\ Allocated' = Allocated \cup {new}
      /\ 0 \in PCB
  BY <1>2, NewBlock, InitInUse DEF PInv, MQInv, Allocated, Tree
<1>. HIDE DEF new
<1>5. /\ pc \in [PCB -> Nat] /\ code \in [PCB -> Functions]
      /\ pc' \in [PCB -> Nat] /\ pc'[0] = pc[0] + 1 /\ pc[0] \in Nat
      /\ code' \in [PCB -> Functions] /\ code'[new] = f
      /\ \A p \in PCB \ {new} : code'[p] = code[p]
  BY <1>1, <1>4 DEF PInv, FunctionsTyped, Functions
<1>6. MQInv'
  <2>1. IInv'
    BY <1>1, ProcessCallIInv DEF PInv, MQInv
  <2>. QED  BY <1>1, <1>2, <2>1, NewDescrittoriAccounted DEF PInv, MQInv
<1>7. Survives'
  BY <1>3 DEF PInv, Survives
<1>8. Tree'
  <2>1. parent \in [PCB -> PCB \cup {NULL}] /\ children \in [PCB -> Seq(PCB)]
    BY DEF PInv, MQInv, IInv, TypeOK
  <2>2. /\ init_pcb = 0
        /\ \A p \in Allocated \ {0} : parent[p] = 0
        /\ \A p \in PCB \ {0} : children[p] = <<>>
    BY DEF PInv, Tree
  <2>3. \A p \in Allocated' \ {0} : parent'[p] = 0
    <3>1. Allocated \subseteq PCB
      BY DEF Allocated
    <3>. QED  BY <1>3, <1>4, <2>1, <2>2, <3>1
  <2>4. \A p \in PCB \ {0} : children'[p] = <<>>
    BY <1>3, <1>4, <2>1, <2>2
  <2>. QED  BY <1>3, <2>2, <2>3, <2>4 DEF Tree
<1>9. FunctionsTyped'
  <2>1. Allocated \subseteq PCB
    BY DEF Allocated
  <2>. QED  BY <1>1, <1>4, <1>5, <2>1 DEF PInv, FunctionsTyped
<1>10. SleeperReady'
  <2>1. /\ ToSet(ready_list') = ToSet(ready_list) \cup {new}
        /\ ToSet(ready_list) \subseteq PCB
        /\ ToSet(ready_list) \cap ToSet(pcb_pool) = {}
    <3>1. ready_list \in Seq(PCB) /\ ToSet(ready_list) \cap ToSet(pcb_pool) = {}
      BY DEF PInv, MQInv, IInv, TypeOK, Placement
    <3>. QED  BY <1>3, <1>4, <3>1, InsertLast, Members
  <2>2. CASE pc[0] = 0
    <3>1. code'[new] = "sleeperFunction" /\ new \in ToSet(ready_list')
      BY <1>5, <2>1, <2>2
    <3>. QED  BY <1>4, <1>5, <2>2, <3>1 DEF SleeperReady
  <2>3. CASE pc[0] # 0
    <3>1. PICK s \in PCB : code[s] = "sleeperFunction" /\ s \in {running} \cup ToSet(ready_list)
      BY <2>3 DEF PInv, SleeperReady
    <3>2. s # 0
      BY <3>1 DEF PInv, FunctionsTyped
    <3>3. s \in ToSet(ready_list') /\ s # new
      BY <1>4, <2>1, <3>1, <3>2
    <3>4. code'[s] = "sleeperFunction"
      BY <1>5, <3>1, <3>3
    <3>5. pc'[0] # 0
      BY <1>5
    <3>. QED  BY <3>3, <3>4, <3>5 DEF SleeperReady
  <2>. QED  BY <2>2, <2>3
<1>11. SpawnsCounted'
  <2>1. last_pid <= 1 + SpawnsMade(pc[0]) /\ pcbptr_free + last_pid >= MAX_NUM_PROCESSES + 1
    BY DEF PInv, SpawnsCounted, SpawnsMade
  <2>2. FunctionsTyped /\ last_pid \in Nat /\ pcbptr_free \in Nat /\ MAX_NUM_PROCESSES \in Nat
    BY KernelAssumption DEF PInv, MQInv, IInv, TypeOK
  <2>3. SpawnsMade(pc[0] + 1) = SpawnsMade(pc[0]) + 1 /\ SpawnsMade(pc[0]) \in Nat
    BY <1>5, <2>2, NextPlace
  <2>4. /\ last_pid' <= 1 + SpawnsMade(pc[0] + 1)
        /\ pcbptr_free' + last_pid' >= MAX_NUM_PROCESSES + 1
    BY <1>3, <2>1, <2>2, <2>3
  <2>5. SpawnPlaces' \cap (1 .. pc'[0]) = SpawnPlaces \cap (1 .. pc[0] + 1)
    BY <1>1, <1>5, SamePlaces
  <2>. QED  BY <2>4, <2>5 DEF SpawnsCounted, SpawnsMade
<1>12. QueuesKnown'
  BY <1>1, SamePlaces DEF PInv, QueuesKnown, NewDescrittori
<1>. QED  BY <1>6, <1>7, <1>8, <1>9, <1>10, <1>11, <1>12 DEF PInv

-----------------------------------------------------------------------------
(* The other steps.                                                        *)
LEMMA TreeStays ==
  ASSUME PInv, Calm
  PROVE  Tree' /\ Survives'
BY DEF PInv, Tree, Calm, TakesNoBlock

LEMMA CountStays ==
  ASSUME PInv, Calm, UNCHANGED program,
         pc'[0] = pc[0] \/ (pc'[0] = pc[0] + 1 /\ pc[0] + 1 \notin SpawnPlaces)
  PROVE  SpawnsCounted'
<1>1. /\ FunctionsTyped /\ pc[0] \in Nat /\ last_pid \in Nat /\ pcbptr_free \in Nat
      /\ MAX_NUM_PROCESSES \in Nat
  <2>1. 0 \in PCB
    BY KernelAssumption DEF PCB
  <2>. QED  BY <2>1, KernelAssumption DEF PInv, MQInv, IInv, TypeOK, FunctionsTyped
<1>2. last_pid <= 1 + SpawnsMade(pc[0]) /\ pcbptr_free + last_pid >= MAX_NUM_PROCESSES + 1
  BY DEF PInv, SpawnsCounted, SpawnsMade
<1>3. SpawnsMade(pc'[0]) = SpawnsMade(pc[0])
  BY <1>1, NextPlace
<1>4. last_pid' = last_pid /\ pcbptr_free' \in Nat /\ pcbptr_free' >= pcbptr_free
  BY DEF Calm, TakesNoBlock
<1>5. last_pid' <= 1 + SpawnsMade(pc'[0])
  BY <1>2, <1>3, <1>4
<1>6. pcbptr_free' + last_pid' >= MAX_NUM_PROCESSES + 1
  <2>1. \A a, b, c, n \in Nat : a + b >= n + 1 /\ c >= a => c + b >= n + 1
    OBVIOUS
  <2>2. pcbptr_free + last_pid >= MAX_NUM_PROCESSES + 1
    BY <1>2
  <2>. QED  BY <1>1, <1>4, <2>1, <2>2
<1>7. SpawnPlaces' = SpawnPlaces
  BY SamePlaces
<1>. QED  BY <1>5, <1>6, <1>7 DEF SpawnsCounted, SpawnsMade

LEMMA QueuesStayKnown ==
  ASSUME PInv, QueuesStay, UNCHANGED program
  PROVE  QueuesKnown'
<1>1. QueueIds' = QueueIds /\ Capacity' = Capacity
  BY SamePlaces
<1>. QED  BY <1>1 DEF PInv, QueuesKnown, QueuesStay

LEMMA CallStep ==
  ASSUME PInv, running \in Allocated, code[running] # "sleeperFunction", pc[0] # 0,
         running = 0 => pc[0] + 1 \notin SpawnPlaces,
         MQInv', Calm, QueuesKnown',
         UNCHANGED <<program, code>>, pc' = [pc EXCEPT ![running] = @ + 1]
  PROVE  PInv'
<1>1. Tree' /\ Survives'
  BY TreeStays
<1>2. /\ pc \in [PCB -> Nat] /\ pc' \in [PCB -> Nat] /\ running \in PCB /\ 0 \in PCB
      /\ pc'[0] = IF running = 0 THEN pc[0] + 1 ELSE pc[0]
  BY KernelAssumption DEF PInv, FunctionsTyped, Allocated, PCB
<1>3. FunctionsTyped'
  BY <1>2 DEF PInv, FunctionsTyped, Calm, TakesNoBlock
<1>4. SleeperReady'
  <2>1. PICK s \in PCB : code[s] = "sleeperFunction" /\ s \in {running} \cup ToSet(ready_list)
    BY DEF PInv, SleeperReady
  <2>2. s \in ToSet(ready_list)
    BY <2>1
  <2>3. s \in {running'} \cup ToSet(ready_list')
    BY <2>2 DEF Calm, ReadyStayOrRun
  <2>4. pc'[0] # 0 /\ pc[0] \in Nat
    BY <1>2
  <2>. QED  BY <2>1, <2>3, <2>4 DEF SleeperReady
<1>5. SpawnsCounted'
  BY <1>2, CountStays
<1>. QED  BY <1>1, <1>3, <1>4, <1>5 DEF PInv

(* Any other process finds the sleeper ready.                              *)
LEMMA SomebodyReady ==
  ASSUME PInv, code[running] # "sleeperFunction", pc[0] # 0
  PROVE  ready_list # <<>>
<1>1. PICK s \in PCB : code[s] = "sleeperFunction" /\ s \in {running} \cup ToSet(ready_list)
  BY DEF PInv, SleeperReady
<1>2. s \in ToSet(ready_list)
  BY <1>1
<1>. QED  BY <1>2, EmptyList

LEMMA OtherCallAccounted ==
  ASSUME MQInv, OtherCall, UNCHANGED mqVars
  PROVE  MQInv'
<1>1. IInv'
  BY ProcessCallIInv DEF MQInv
<1>. QED  BY <1>1, OtherCallPutsNoneToUse, SameAccounts DEF MQInv

LEMMA TickStep ==
  ASSUME PInv, Ticks
  PROVE  PInv'
<1>1. timerInterrupt /\ UNCHANGED mqVars /\ UNCHANGED progVars
  BY DEF Ticks
<1>2. Calm /\ running \in ToSet(ready_list') \cup {running'}
  BY <1>1, TickCalm
<1>3. MQInv'
  BY <1>1, OtherCallAccounted DEF PInv, OtherCall
<1>4. Tree' /\ Survives'
  BY <1>2, TreeStays
<1>5. FunctionsTyped'
  BY <1>1, <1>2 DEF PInv, FunctionsTyped, Calm, TakesNoBlock, progVars
<1>6. SleeperReady'
  <2>1. CASE pc[0] = 0
    <3>1. 0 \in Allocated'
      BY <1>3, <1>4, KernelAssumption DEF MQInv, IInv, Family, Tree, Allocated, PCB
    <3>2. Allocated' \subseteq {0}
      BY <1>2, <2>1 DEF PInv, SleeperReady, Calm, TakesNoBlock
    <3>. QED  BY <1>1, <2>1, <3>1, <3>2 DEF SleeperReady, progVars
  <2>2. CASE pc[0] # 0
    <3>1. PICK s \in PCB : code[s] = "sleeperFunction" /\ s \in {running} \cup ToSet(ready_list)
      BY <2>2 DEF PInv, SleeperReady
    <3>2. s \in {running'} \cup ToSet(ready_list')
      BY <1>2, <3>1 DEF Calm, ReadyStayOrRun
    <3>. QED  BY <1>1, <2>2, <3>1, <3>2 DEF SleeperReady, progVars
  <2>. QED  BY <2>1, <2>2
<1>7. SpawnsCounted'
  BY <1>1, <1>2, CountStays DEF progVars
<1>8. QueuesKnown'
  BY <1>1, QueuesStayKnown DEF QueuesStay, mqVars, progVars
<1>. QED  BY <1>3, <1>4, <1>5, <1>6, <1>7, <1>8 DEF PInv

-----------------------------------------------------------------------------
(* The calls, one by one.                                                  *)
CallKept == MQInv' /\ Calm /\ QueuesKnown' /\ UNCHANGED <<program, code>>

LEMMA CallArguments ==
  /\ QueueIds \subseteq MQIds /\ Capacity \in MaxMsgs
  /\ 0 \in Types /\ 20 \in MsgSizes /\ 0 \in WaitPids /\ 2 \in SleepCycles
BY TestProgramsAssumption DEF QueueIds, Capacity

LEMMA QueueCallKept ==
  ASSUME PInv, MQInv', Calm, QueuesStay, UNCHANGED <<program, code>>
  PROVE  CallKept
BY QueuesStayKnown DEF CallKept

LEMMA ProcessCallKept ==
  ASSUME PInv, OtherCall, Calm, UNCHANGED mqVars, UNCHANGED <<program, code>>
  PROVE  CallKept
<1>1. MQInv'
  BY OtherCallAccounted DEF PInv
<1>2. QueuesStay
  BY DEF QueuesStay, mqVars
<1>. QED  BY <1>1, <1>2, QueueCallKept

LEMMA CreateKept ==
  ASSUME PInv, NEW id \in QueueIds, Makes("create", id)
  PROVE  CallKept
<1>1. internal_mq_open(id, 0, 20, Capacity, {DSOS_CREATE}) /\ UNCHANGED <<program, code>>
  BY DEF Makes, OpensQueue, Capacity
<1>2. MQInv'
  BY <1>1, CallArguments, OpenAccounted DEF PInv
<1>. QED  BY <1>1, <1>2, CreateKnown DEF CallKept

(* A queue that is not there is not opened, and the children's are.        *)
LEMMA OpenKept ==
  ASSUME PInv, NEW id, Makes("open", id)
  PROVE  CallKept
<1>1. internal_mq_open(id, 0, 20, Capacity, {}) /\ UNCHANGED <<program, code>>
  BY DEF Makes, OpensQueue, Capacity
<1>2. MQInv'
  <2>1. CASE id \in MQIds
    BY <1>1, <2>1, CallArguments, OpenAccounted DEF PInv
  <2>2. CASE id \notin MQIds
    <3>1. ~Exists(id)
      BY <2>2 DEF Exists, PInv, MQInv, Accounted, MQTyped
    <3>2. OpenError(id, 0, {}) = DSOS_EMESSAGEQUEUEOPEN
      BY <3>1 DEF OpenError
    <3>3. DSOS_EMESSAGEQUEUEOPEN \in Int /\ DSOS_EMESSAGEQUEUEOPEN # NULL
      BY NullIsNoPCB DEF DSOS_EMESSAGEQUEUEOPEN
    <3>4. Fails(DSOS_EMESSAGEQUEUEOPEN)
      BY <1>1, <3>2, <3>3, Zenon
      DEF internal_mq_open, OpenRefused, OpenWithoutDescrittore, Opens, OpenDies
    <3>. QED  BY <3>3, <3>4, FailsAccounted DEF PInv
  <2>. QED  BY <2>1, <2>2
<1>. QED  BY <1>1, <1>2, OpenStays, QueueCallKept

LEMMA MessageCallKept ==
  ASSUME PInv, ready_list # <<>>, NEW call \in {"send", "receive", "close", "unlink"},
         NEW arg, Makes(call, arg)
  PROVE  CallKept
<1>1. UNCHANGED <<program, code>>
  BY DEF Makes
<1>2. CASE call = "send"
  <2>1. internal_mq_send(arg, 5)
    BY <1>2 DEF Makes
  <2>. QED  BY <1>1, <2>1, SendAccounted, SendStays, QueueCallKept DEF PInv
<1>3. CASE call = "receive"
  <2>1. internal_mq_receive(arg, 20)
    BY <1>3 DEF Makes
  <2>. QED  BY <1>1, <2>1, ReceiveAccounted, ReceiveStays, QueueCallKept DEF PInv
<1>4. CASE call = "close"
  <2>1. internal_mq_close(arg)
    BY <1>4 DEF Makes
  <2>. QED  BY <1>1, <2>1, CloseAccounted, CloseStays, QueueCallKept DEF PInv
<1>5. CASE call = "unlink"
  <2>1. internal_mq_unlink(arg)
    BY <1>5 DEF Makes
  <2>. QED  BY <1>1, <2>1, UnlinkAccounted, UnlinkStays, QueueCallKept DEF PInv
<1>. QED  BY <1>2, <1>3, <1>4, <1>5

LEMMA WaitKept ==
  ASSUME PInv, ready_list # <<>>, Makes("wait", 0)
  PROVE  CallKept
<1>1. internal_wait(0) /\ UNCHANGED mqVars /\ UNCHANGED <<program, code>>
  BY DEF Makes
<1>2. OtherCall
  BY <1>1, CallArguments, Zenon DEF OtherCall
<1>. QED  BY <1>1, <1>2, WaitCalm, ProcessCallKept

LEMMA SleepKept ==
  ASSUME PInv, ready_list # <<>>, Makes("sleep", 2)
  PROVE  CallKept
<1>1. internal_sleep(2) /\ UNCHANGED mqVars /\ UNCHANGED <<program, code>>
  BY DEF Makes
<1>2. OtherCall
  BY <1>1, CallArguments, Zenon DEF OtherCall
<1>. QED  BY <1>1, <1>2, SleepCalm, ProcessCallKept

LEMMA ShutdownKept ==
  ASSUME PInv, Makes("shutdown", 0)
  PROVE  CallKept
<1>1. internal_shutdown /\ UNCHANGED mqVars /\ UNCHANGED <<program, code>>
  BY DEF Makes
<1>2. OtherCall
  BY <1>1 DEF OtherCall
<1>. QED  BY <1>1, <1>2, ShutdownCalm, ProcessCallKept

LEMMA ExitKept ==
  ASSUME PInv, ready_list # <<>>, running \in Allocated \ {0}, Makes("exit", 0)
  PROVE  CallKept
<1>1. Exits /\ UNCHANGED <<program, code>>
  BY DEF Makes
<1>2. Calm
  BY <1>1, ExitCalm
<1>3. CASE ExitToParent /\ ReleaseDescrittori(running)
  <2>1. MQInv'
    BY <1>3, ProcessCallIInv, ReleaseAccounted DEF PInv, MQInv
  <2>2. QueuesStay
    BY <1>3, QueueTyped DEF ReleaseDescrittori, QueuesStay, QueueRecord
  <2>. QED  BY <1>1, <1>2, <2>1, <2>2, QueueCallKept
<1>4. CASE (ExitToReady \/ ExitDies) /\ UNCHANGED mqVars
  <2>1. OtherCall
    BY <1>4 DEF OtherCall
  <2>. QED  BY <1>1, <1>2, <1>4, <2>1, ProcessCallKept
<1>. QED  BY <1>1, <1>3, <1>4 DEF Exits

LEMMA QuietCallKept ==
  ASSUME PInv, ready_list # <<>>, NEW mqds, NEW c \in QuietCalls(QueueIds, mqds),
         Makes(c[1], c[2])
  PROVE  CallKept
<1>1. CASE c \in {"create"} \X QueueIds
  BY <1>1, CreateKept
<1>2. CASE c \in {"send", "receive", "close", "unlink"} \X mqds
  BY <1>2, MessageCallKept
<1>3. CASE c = <<"wait", 0>>
  BY <1>3, WaitKept
<1>4. CASE c = <<"shutdown", 0>>
  BY <1>4, ShutdownKept
<1>. QED  BY <1>1, <1>2, <1>3, <1>4 DEF QuietCalls

LEMMA ChildCallKept ==
  ASSUME PInv, ready_list # <<>>, running \in Allocated \ {0},
         NEW args, NEW c \in ChildCalls(args), Makes(c[1], c[2])
  PROVE  CallKept
<1>1. CASE c[1] = "open"
  BY <1>1, OpenKept
<1>2. CASE c[1] \in {"receive", "close"}
  BY <1>2, MessageCallKept
<1>3. CASE c = <<"sleep", 2>>
  BY <1>3, SleepKept
<1>4. CASE c = <<"exit", 0>>
  BY <1>4, ExitKept
<1>. QED  BY <1>1, <1>2, <1>3, <1>4 DEF ChildCalls

-----------------------------------------------------------------------------
(* Init's function spawns at its places only, and starts with the sleeper. *)
LEMMA InitStep ==
  ASSUME PInv, Step(0)
  PROVE  PInv'
<1>. DEFINE c == NextCall(0)
<1>1. /\ running = 0 /\ 0 \in PCB /\ 0 \in Allocated /\ pc[0] \in Nat
      /\ code[0] # "sleeperFunction"
      /\ InitCallAt(pc[0] + 1, c)
  <2>1. 0 \in PCB
    BY KernelAssumption DEF PCB
  <2>. QED  BY <2>1, Callers
<1>2. \/ c[1] = "spawn" /\ Spawns(c[2])
      \/ Makes(c[1], c[2]) /\ pc' = [pc EXCEPT ![0] = @ + 1]
  BY DEF Step, NextCall
<1>3. pc[0] = 0 => c = <<"spawn", "sleeperFunction">> /\ 1 \in SpawnPlaces
  <2>. SUFFICES ASSUME pc[0] = 0
                PROVE  c = <<"spawn", "sleeperFunction">> /\ 1 \in SpawnPlaces
    OBVIOUS
  <2>1. FunctionsTyped
    BY DEF PInv
  <2>2. pc[0] < Len(Calls(0))
    BY DEF Step
  <2>3. Len(Calls(0)) \in Nat
    <3>1. Calls(0) = IF program = "test" THEN TestInit ELSE BloccantiInit(0)
      BY <2>1 DEF FunctionsTyped, Calls
    <3>2. \E P, Q : SpawnsAt(P, Q, Calls(0))
      BY <3>1, TestInitSpawns, BloccantiInitSpawns, Zenon
    <3>. QED  BY <3>2, Members DEF SpawnsAt
  <2>4. pc[0] + 1 = 1 /\ 1 \in 1 .. Len(Calls(0))
    BY <2>2, <2>3
  <2>. QED  BY <2>1, <2>4, InitCalls DEF NextCall
<1>. HIDE DEF c
<1>4. CASE pc[0] + 1 \in SpawnPlaces
  <2>1. c \in SpawnCalls
    BY <1>1, <1>4 DEF InitCallAt
  <2>2. c[1] = "spawn" /\ c[2] \in {"sleeperFunction", "childFunction"}
    BY <2>1 DEF SpawnCalls
  <2>3. Spawns(c[2])
    BY <1>2, <2>2 DEF Makes
  <2>4. pc[0] = 0 => c[2] = "sleeperFunction"
    BY <1>3
  <2>. QED  BY <1>1, <1>4, <2>2, <2>3, <2>4, SpawnStep
<1>5. CASE pc[0] + 1 \notin SpawnPlaces
  <2>1. PICK mqds : c \in QuietCalls(QueueIds, mqds)
    BY <1>1, <1>5 DEF InitCallAt
  <2>2. c[1] # "spawn"
    BY <2>1 DEF QuietCalls
  <2>3. Makes(c[1], c[2]) /\ pc' = [pc EXCEPT ![0] = @ + 1]
    BY <1>2, <2>2
  <2>4. pc[0] # 0
    BY <1>3, <1>5
  <2>5. ready_list # <<>>
    BY <1>1, <2>4, SomebodyReady
  <2>6. CallKept
    BY <2>1, <2>3, <2>5, QuietCallKept
  <2>. QED  BY <1>1, <1>5, <2>3, <2>4, <2>6, CallStep DEF CallKept
<1>. QED  BY <1>4, <1>5

LEMMA ChildStep ==
  ASSUME PInv, NEW p \in PCB \ {0}, Step(p)
  PROVE  PInv'
<1>. DEFINE c == NextCall(p)
<1>1. /\ running = p /\ p \in Allocated /\ code[p] # "sleeperFunction"
      /\ \E args : c \in ChildCalls(args)
  BY Callers
<1>2. \/ c[1] = "spawn" /\ Spawns(c[2])
      \/ Makes(c[1], c[2]) /\ pc' = [pc EXCEPT ![p] = @ + 1]
  BY DEF Step, NextCall
<1>3. pc[0] # 0
  BY <1>1 DEF PInv, SleeperReady
<1>. HIDE DEF c
<1>4. PICK args : c \in ChildCalls(args)
  BY <1>1
<1>5. Makes(c[1], c[2]) /\ pc' = [pc EXCEPT ![p] = @ + 1]
  <2>1. c[1] # "spawn"
    BY <1>4 DEF ChildCalls
  <2>. QED  BY <1>2, <2>1
<1>6. CallKept
  <2>1. ready_list # <<>>
    BY <1>1, <1>3, SomebodyReady
  <2>. QED  BY <1>1, <1>4, <1>5, <2>1, ChildCallKept
<1>. QED  BY <1>1, <1>3, <1>5, <1>6, CallStep DEF CallKept

LEMMA StutterStep ==
  ASSUME PInv, UNCHANGED <<vars, mqVars, progVars>>
  PROVE  PInv'
<1>1. UNCHANGED vars /\ UNCHANGED mqVars /\ UNCHANGED progVars
  OBVIOUS
<1>2. MQInv'
  <2>1. IInv'
    BY <1>1, NextIInv DEF PInv, MQInv
  <2>2. Live' \subseteq Live
    BY <1>1 DEF Live, vars, poolVars
  <2>. QED  BY <1>1, <2>1, <2>2, SameAccounts DEF PInv, MQInv
<1>3. Calm
  <2>1. UNCHANGED <<pcbVars, poolVars>> /\ Survives' /\ ReadyStayOrRun
    BY <1>1 DEF vars, pcbVars, poolVars, schedVars, PInv, Survives, ReadyStayOrRun
  <2>. QED  BY <2>1, SameFamilyCalm
<1>4. Tree' /\ SpawnsCounted' /\ QueuesKnown'
  BY <1>1, <1>3, TreeStays, CountStays, QueuesStayKnown DEF QueuesStay, mqVars, progVars
<1>5. FunctionsTyped' /\ SleeperReady' /\ Survives'
  BY <1>1 DEF vars, poolVars, schedVars, progVars, PInv, FunctionsTyped, SleeperReady, Survives,
     Allocated
<1>. QED  BY <1>2, <1>4, <1>5 DEF PInv

LEMMA ProgramInitPInv == ProgramInit => PInv
<1>. SUFFICES ASSUME ProgramInit PROVE PInv
  OBVIOUS
<1>1. MQInit /\ Init
  BY DEF ProgramInit, MQInit
<1>2. MQInv
  BY <1>1, InitMQInv
<1>3. 0 \in PCB /\ MAX_NUM_PROCESSES \in Nat /\ 0 # NULL
  BY KernelAssumption, NullIsNoPCB DEF PCB
<1>4. /\ machine = "up" /\ running = 0 /\ init_pcb = 0 /\ last_pid = 1
      /\ pcbptr_free = MAX_NUM_PROCESSES
      /\ pcb_pool = [i \in 1 .. MAX_NUM_PROCESSES - 1 |-> i]
  BY <1>1 DEF Init
<1>5. Allocated = {0}
  <2>1. PCB = 0 .. MAX_NUM_PROCESSES - 1
    BY DEF PCB
  <2>2. \A p \in PCB \ {0} : p \in ToSet(pcb_pool)
    <3>1. \A p \in PCB \ {0} : p \in DOMAIN pcb_pool /\ pcb_pool[p] = p
      BY <1>3, <1>4, <2>1
    <3>. QED  BY <3>1 DEF ToSet
  <2>3. 0 \in Allocated
    BY <1>2, <1>4, InitInUse
  <2>. QED  BY <2>2, <2>3 DEF Allocated
<1>6. Survives
  BY <1>3, <1>4 DEF Survives
<1>7. Tree
  BY <1>1, <1>3, <1>4, <1>5 DEF Tree, Init
<1>8. FunctionsTyped /\ SleeperReady
  BY <1>3, <1>5 DEF ProgramInit, FunctionsTyped, SleeperReady, Functions
<1>9. SpawnsCounted
  <2>1. pc[0] = 0
    BY <1>3 DEF ProgramInit
  <2>2. FunctionsTyped
    BY <1>8
  <2>3. SpawnsMade(0) \in Nat
    BY <2>2, NextPlace
  <2>. QED  BY <1>3, <1>4, <2>1, <2>3 DEF SpawnsCounted, SpawnsMade
<1>10. QueuesKnown
  BY <1>1 DEF QueuesKnown, MQInit
<1>. QED  BY <1>2, <1>6, <1>7, <1>8, <1>9, <1>10 DEF PInv

LEMMA ProgramNextPInv ==
  PInv /\ [ProgramNext]_<<vars, mqVars, progVars>> => PInv'
<1>. SUFFICES ASSUME PInv, [ProgramNext]_<<vars, mqVars, progVars>> PROVE PInv'
  OBVIOUS
<1>1. ASSUME NEW p \in PCB, Step(p) PROVE PInv'
  <2>1. CASE p = 0
    BY <1>1, <2>1, InitStep
  <2>2. CASE p # 0
    BY <1>1, <2>2, ChildStep
  <2>. QED  BY <2>1, <2>2
<1>2. CASE Ticks
  BY <1>2, TickStep
<1>3. CASE Ended /\ UNCHANGED <<mqVars, progVars>>
  BY <1>3, StutterStep DEF Ended
<1>4. CASE UNCHANGED <<vars, mqVars, progVars>>
  BY <1>4, StutterStep
<1>. QED  BY <1>1, <1>2, <1>3, <1>4 DEF ProgramNext

-----------------------------------------------------------------------------
(* The inductive invariant of the programs: the kernel's and the queues',  *)
(* init as the only parent, the sleeper ready, and what has been spawned   *)
(* and created.                                                            *)
THEOREM ProgramInvariance == ProgramSpec => []PInv
BY ProgramInitPInv, ProgramNextPInv, PTL DEF ProgramSpec

(* However ticks in the code of the two programs schedule them (not in the *)
(* kernel or in a switch, see TrapAndAlarm), no wait, exit or blocked call *)
(* finds an empty ready list (disastrOS_wait.c:64), no tick finds nobody   *)
(* running (disastrOS.c:52), and no pool is empty when a spawn, an open or *)
(* a send takes from it.                                                   *)
THEOREM SurvivesSafe == ProgramSpec => []Survives
<1>1. PInv => Survives
  BY DEF PInv
<1>. QED  BY <1>1, ProgramInvariance, PTL

-----------------------------------------------------------------------------
(* The calls of init succeed because of those it made before.  What it has *)
(* done so far is a ledger: the queues that exist, those it has open, its  *)
(* next mqd, how many messages it has put and left in each queue, and how  *)
(* many children it has spawned and not waited for.  Children are spawned  *)
(* when all queues are there; those of disastrOS_test find them closed.    *)
Ids(prog) == IF prog = "test" THEN 0 .. NumQueues - 1 ELSE {0}

Stocked(prog, w) == w.queues = Ids(prog) /\ (prog = "test" => w.open = {})

Ledgers(prog) ==
  {w \in [queues : SUBSET Ids(prog), open : SUBSET Ids(prog), last : Nat,
          load : [Ids(prog) -> Nat], family : Nat] :
     w.family >= 2 => Stocked(prog, w)}

Opening(prog) ==
  [queues |-> {}, open |-> {}, last |-> 0, load |-> [i \in Ids(prog) |-> 0], family |-> 0]

Book(q, o, l, m, f) == [queues |-> q, open |-> o, last |-> l, load |-> m, family |-> f]

(* What a call needs to succeed, and what it changes.                      *)
QueueEffect(prog, u, call, i, v) ==
  \/ /\ call = "create" /\ i \notin u.queues /\ i = u.last /\ u.load[i] = 0
     /\ v = Book(u.queues \cup {i}, u.open \cup {i}, u.last + 1, u.load, u.family)
  \/ /\ call = "send" /\ i \in u.open /\ (prog = "test" => u.load[i] < 10)
     /\ v = Book(u.queues, u.open, u.last, [u.load EXCEPT ![i] = @ + 1], u.family)
  \/ /\ call = "receive" /\ prog = "test" /\ i \in u.open /\ u.load[i] > 0
     /\ v = Book(u.queues, u.open, u.last, [u.load EXCEPT ![i] = @ - 1], u.family)
  \/ /\ call = "close" /\ i \in u.open
     /\ v = Book(u.queues, u.open \ {i}, u.last, u.load, u.family)
  \/ /\ call = "unlink" /\ i \in u.queues /\ i \notin u.open /\ u.family = 1
     /\ v = Book(u.queues \ {i}, u.open, u.last, u.load, u.family)

SameBut(u, f) == Book(u.queues, u.open, u.last, u.load, f)

Effect(prog, u, c, v) ==
  \/ c[1] = "spawn" /\ v = SameBut(u, u.family + 1)
  \/ c = <<"wait", 0>> /\ u.family >= 2 /\ v = SameBut(u, u.family - 1)
  \/ c = <<"shutdown", 0>> /\ u.queues = {} /\ u.family = 1 /\ v = u
  \/ c[2] \in Ids(prog) /\ QueueEffect(prog, u, c[1], c[2], v)

(* A sequence of calls that all succeed, from one ledger to another.       *)
KnownCalls(prog) == SpawnCalls \cup QuietCalls(Ids(prog), Ids(prog))

Passes(prog, s, st) ==
  /\ st \in [0 .. Len(s) -> Ledgers(prog)]
  /\ \A k \in 1 .. Len(s) : Effect(prog, st[k - 1], s[k], st[k])

Leads(prog, s, u, v) ==
  /\ s \in Seq(KnownCalls(prog))
  /\ \E st : Passes(prog, s, st) /\ st[0] = u /\ st[Len(s)] = v

LEMMA LeadsNowhere ==
  ASSUME NEW prog, NEW u \in Ledgers(prog)
  PROVE  Leads(prog, <<>>, u, u)
<1>. DEFINE st == [k \in 0 .. 0 |-> u]
<1>1. st \in [0 .. 0 -> Ledgers(prog)] /\ st[0] = u
  OBVIOUS
<1>2. Len(<<>>) = 0 /\ <<>> \in Seq(KnownCalls(prog)) /\ 1 .. 0 = {}
  OBVIOUS
<1>. HIDE DEF st
<1>3. Passes(prog, <<>>, st)
  BY <1>1, <1>2 DEF Passes
<1>. QED  BY <1>1, <1>2, <1>3 DEF Leads

LEMMA LeadsAfter ==
  ASSUME NEW prog, NEW s, NEW t, NEW u, NEW v, NEW w,
         Leads(prog, s, u, v), Leads(prog, t, v, w)
  PROVE  Leads(prog, s \o t, u, w)
<1>1. s \in Seq(KnownCalls(prog)) /\ t \in Seq(KnownCalls(prog))
  BY DEF Leads
<1>2. PICK a : Passes(prog, s, a) /\ a[0] = u /\ a[Len(s)] = v
  BY DEF Leads
<1>3. PICK b : Passes(prog, t, b) /\ b[0] = v /\ b[Len(t)] = w
  BY DEF Leads
<1>. DEFINE m == Len(s)
            n == Len(t)
            st == [k \in 0 .. m + n |-> IF k <= m THEN a[k] ELSE b[k - m]]
<1>4. m \in Nat /\ n \in Nat
  BY <1>1, Members
<1>5. /\ s \o t \in Seq(KnownCalls(prog))
      /\ Len(s \o t) = m + n
      /\ \A k \in 1 .. m + n : (s \o t)[k] = IF k <= m THEN s[k] ELSE t[k - m]
  BY <1>1, ConcatProperties
<1>6. /\ a \in [0 .. m -> Ledgers(prog)] /\ b \in [0 .. n -> Ledgers(prog)]
      /\ \A k \in 1 .. m : Effect(prog, a[k - 1], s[k], a[k])
      /\ \A k \in 1 .. n : Effect(prog, b[k - 1], t[k], b[k])
      /\ a[0] = u /\ a[m] = v /\ b[0] = v /\ b[n] = w
  BY <1>2, <1>3 DEF Passes
<1>. HIDE DEF m, n
<1>7. st \in [0 .. m + n -> Ledgers(prog)] /\ st[0] = u
  BY <1>4, <1>6
<1>8. /\ \A k \in 0 .. m : st[k] = a[k]
      /\ \A k \in 0 .. n : st[m + k] = b[k]
  <2>1. ASSUME NEW k \in 0 .. n PROVE st[m + k] = b[k]
    <3>1. /\ m + k \in 0 .. m + n /\ (m + k <= m <=> k = 0) /\ (m + k) - m = k
          /\ k = 0 => m + k = m
      BY <1>4
    <3>2. st[m + k] = IF k = 0 THEN a[m + k] ELSE b[k]
      BY <3>1
    <3>. HIDE DEF st
    <3>. QED  BY <1>6, <3>1, <3>2
  <2>2. \A k \in 0 .. m : st[k] = a[k]
    BY <1>4
  <2>. HIDE DEF st
  <2>. QED  BY <2>1, <2>2
<1>. HIDE DEF st
<1>9. ASSUME NEW k \in 1 .. m + n
      PROVE  Effect(prog, st[k - 1], (s \o t)[k], st[k])
  <2>1. CASE k <= m
    <3>1. k \in 1 .. m /\ k \in 0 .. m /\ k - 1 \in 0 .. m
      BY <1>4, <2>1
    <3>. QED  BY <1>5, <1>6, <1>8, <2>1, <3>1
  <2>2. CASE ~(k <= m)
    <3>. DEFINE j == k - m
    <3>1. /\ j \in 1 .. n /\ j \in 0 .. n /\ j - 1 \in 0 .. n
          /\ k = m + j /\ k - 1 = m + (j - 1)
      BY <1>4, <2>2
    <3>. HIDE DEF j
    <3>2. st[k] = b[j] /\ st[k - 1] = b[j - 1]
      BY <1>8, <3>1
    <3>3. (s \o t)[k] = t[j]
      BY <1>5, <2>2 DEF j
    <3>. QED  BY <1>6, <3>1, <3>2, <3>3
  <2>. QED  BY <2>1, <2>2
<1>10. st[m + n] = w
  BY <1>4, <1>6, <1>8
<1>11. Passes(prog, s \o t, st)
  BY <1>5, <1>7, <1>9 DEF Passes
<1>. QED  BY <1>5, <1>7, <1>10, <1>11 DEF Leads

LEMMA LeadsRepeat ==
  ASSUME NEW prog, NEW n \in Nat, NEW step \in KnownCalls(prog),
         NEW a \in [0 .. n -> Ledgers(prog)],
         \A k \in 1 .. n : Effect(prog, a[k - 1], step, a[k])
  PROVE  Leads(prog, Repeat(n, step), a[0], a[n])
<1>1. Repeat(n, step) \in Seq(KnownCalls(prog)) /\ Len(Repeat(n, step)) = n
  BY Repeated
<1>2. \A k \in 1 .. n : Repeat(n, step)[k] = step
  BY DEF Repeat
<1>3. Passes(prog, Repeat(n, step), a)
  BY <1>1, <1>2 DEF Passes
<1>. QED  BY <1>1, <1>3 DEF Leads

LEMMA LeadsOnce ==
  ASSUME NEW prog, NEW c \in KnownCalls(prog), NEW u \in Ledgers(prog), NEW v \in Ledgers(prog),
         Effect(prog, u, c, v)
  PROVE  Leads(prog, <<c>>, u, v)
<1>. DEFINE s == <<c>>
            st == [k \in 0 .. 1 |-> IF k = 0 THEN u ELSE v]
<1>1. s \in Seq(KnownCalls(prog)) /\ Len(s) = 1 /\ s[1] = c
  BY Singleton
<1>2. st \in [0 .. 1 -> Ledgers(prog)] /\ st[0] = u /\ st[1] = v
  OBVIOUS
<1>. HIDE DEF s, st
<1>3. \A k \in 1 .. 1 : k = 1 /\ k - 1 = 0
  OBVIOUS
<1>4. \A k \in 1 .. 1 : Effect(prog, st[k - 1], s[k], st[k])
  BY <1>1, <1>2, <1>3
<1>5. Passes(prog, s, st)
  BY <1>1, <1>2, <1>4 DEF Passes
<1>6. Leads(prog, s, u, v)
  BY <1>1, <1>2, <1>5 DEF Leads
<1>. QED  BY <1>6 DEF s

LEMMA LeadsEach ==
  ASSUME NEW prog, NEW n \in Nat, NEW ss \in [1 .. n -> Seq(KnownCalls(prog))],
         NEW a \in [0 .. n -> Ledgers(prog)],
         \A i \in 1 .. n : Leads(prog, ss[i], a[i - 1], a[i])
  PROVE  Leads(prog, FlattenSeq(ss), a[0], a[n])
<1>1. ss \in Seq(Seq(KnownCalls(prog)))
  BY SeqDef
<1>2. Len(ss) = n
  BY <1>1, LenProperties
<1>3. PICK J \in [0 .. n -> Seq(KnownCalls(prog))] :
        /\ J[0] = <<>>
        /\ J[n] = FlattenSeq(ss)
        /\ \A i \in 1 .. n : J[i] = J[i - 1] \o ss[i]
  BY <1>1, <1>2, FlattenStepwise
<1>. DEFINE Bad == {i \in 0 .. n : ~Leads(prog, J[i], a[0], a[i])}
<1>4. ASSUME Bad # {} PROVE FALSE
  <2>. DEFINE m == Min(Bad)
  <2>1. m \in Bad /\ \A i \in Bad : m <= i
    <3>1. Bad \in SUBSET Nat
      OBVIOUS
    <3>. HIDE DEF Bad
    <3>. QED  BY <1>4, <3>1, FirstPosition
  <2>. HIDE DEF m
  <2>2. m \in 0 .. n /\ ~Leads(prog, J[m], a[0], a[m])
    BY <2>1
  <2>3. m # 0
    <3>1. a[0] \in Ledgers(prog)
      OBVIOUS
    <3>2. Leads(prog, J[0], a[0], a[0])
      BY <1>3, <3>1, LeadsNowhere
    <3>. QED  BY <2>2, <3>2
  <2>4. m \in 1 .. n /\ m - 1 \in 0 .. n /\ ~(m <= m - 1)
    BY <2>2, <2>3
  <2>5. Leads(prog, J[m - 1], a[0], a[m - 1])
    BY <2>1, <2>4
  <2>. HIDE DEF Bad
  <2>6. J[m] = J[m - 1] \o ss[m] /\ Leads(prog, ss[m], a[m - 1], a[m])
    BY <1>3, <2>4
  <2>. QED  BY <2>2, <2>5, <2>6, LeadsAfter
<1>5. n \in 0 .. n
  OBVIOUS
<1>. QED  BY <1>3, <1>4, <1>5

(* The effects of the calls, one by one.                                   *)
LEMMA BookOf ==
  ASSUME NEW prog, NEW q \in SUBSET Ids(prog), NEW o \in SUBSET Ids(prog), NEW l \in Nat,
         NEW m \in [Ids(prog) -> Nat], NEW f \in Nat,
         f >= 2 => q = Ids(prog) /\ (prog = "test" => o = {})
  PROVE  Book(q, o, l, m, f) \in Ledgers(prog)
BY DEF Book, Ledgers, Stocked

LEMMA BookFields ==
  ASSUME NEW q, NEW o, NEW l, NEW m, NEW f
  PROVE  LET u == Book(q, o, l, m, f)
         IN  /\ u.queues = q /\ u.open = o /\ u.last = l /\ u.load = m /\ u.family = f
BY DEF Book

LEMMA FamilyEffects ==
  ASSUME NEW prog, NEW q, NEW o, NEW l, NEW m, NEW f \in Nat
  PROVE  /\ \A g : Effect(prog, Book(q, o, l, m, f), <<"spawn", g>>, Book(q, o, l, m, f + 1))
         /\ f >= 2 => Effect(prog, Book(q, o, l, m, f), <<"wait", 0>>, Book(q, o, l, m, f - 1))
         /\ q = {} /\ f = 1
              => Effect(prog, Book(q, o, l, m, f), <<"shutdown", 0>>, Book(q, o, l, m, f))
<1>. DEFINE u == Book(q, o, l, m, f)
<1>1. u.queues = q /\ u.open = o /\ u.last = l /\ u.load = m /\ u.family = f
  BY BookFields
<1>. HIDE DEF u
<1>2. \A g : SameBut(u, g) = Book(q, o, l, m, g)
  BY <1>1 DEF SameBut
<1>3. \A g : Effect(prog, u, <<"spawn", g>>, Book(q, o, l, m, f + 1))
  BY <1>1, <1>2 DEF Effect
<1>4. f >= 2 => Effect(prog, u, <<"wait", 0>>, Book(q, o, l, m, f - 1))
  BY <1>1, <1>2 DEF Effect
<1>5. q = {} /\ f = 1 => Effect(prog, u, <<"shutdown", 0>>, u)
  BY <1>1 DEF Effect
<1>. QED  BY <1>3, <1>4, <1>5 DEF u

LEMMA QueueEffects ==
  ASSUME NEW prog, NEW q, NEW o, NEW l, NEW m, NEW f, NEW i \in Ids(prog)
  PROVE  /\ i \notin q /\ i = l /\ m[i] = 0
              => Effect(prog, Book(q, o, l, m, f), <<"create", i>>,
                        Book(q \cup {i}, o \cup {i}, l + 1, m, f))
         /\ i \in o => Effect(prog, Book(q, o, l, m, f), <<"close", i>>,
                              Book(q, o \ {i}, l, m, f))
         /\ i \in q /\ i \notin o /\ f = 1
              => Effect(prog, Book(q, o, l, m, f), <<"unlink", i>>, Book(q \ {i}, o, l, m, f))
         /\ i \in o /\ (prog = "test" => m[i] < 10)
              => Effect(prog, Book(q, o, l, m, f), <<"send", i>>,
                        Book(q, o, l, [m EXCEPT ![i] = @ + 1], f))
         /\ i \in o /\ prog = "test" /\ m[i] > 0
              => Effect(prog, Book(q, o, l, m, f), <<"receive", i>>,
                        Book(q, o, l, [m EXCEPT ![i] = @ - 1], f))
<1>. DEFINE u == Book(q, o, l, m, f)
<1>1. \A call, v : QueueEffect(prog, u, call, i, v) => Effect(prog, u, <<call, i>>, v)
  BY DEF Effect
<1>2. u.queues = q /\ u.open = o /\ u.last = l /\ u.load = m /\ u.family = f
  BY BookFields
<1>. HIDE DEF u
<1>4. i \notin q /\ i = l /\ m[i] = 0
        => QueueEffect(prog, u, "create", i, Book(q \cup {i}, o \cup {i}, l + 1, m, f))
  BY <1>2 DEF QueueEffect
<1>5. i \in o => QueueEffect(prog, u, "close", i, Book(q, o \ {i}, l, m, f))
  BY <1>2 DEF QueueEffect
<1>6. i \in q /\ i \notin o /\ f = 1
        => QueueEffect(prog, u, "unlink", i, Book(q \ {i}, o, l, m, f))
  BY <1>2 DEF QueueEffect
<1>7. i \in o /\ (prog = "test" => m[i] < 10)
        => QueueEffect(prog, u, "send", i, Book(q, o, l, [m EXCEPT ![i] = @ + 1], f))
  BY <1>2 DEF QueueEffect
<1>8. i \in o /\ prog = "test" /\ m[i] > 0
        => QueueEffect(prog, u, "receive", i, Book(q, o, l, [m EXCEPT ![i] = @ - 1], f))
  BY <1>2 DEF QueueEffect
<1>. QED  BY <1>1, <1>4, <1>5, <1>6, <1>7, <1>8 DEF u

(* Bursts of messages, sent or received.                                   *)
LEMMA SendsBurst ==
  ASSUME NEW prog, NEW q \in SUBSET Ids(prog), NEW o \in SUBSET Ids(prog), NEW l \in Nat,
         NEW m \in [Ids(prog) -> Nat], NEW f \in Nat,
         f >= 2 => q = Ids(prog) /\ (prog = "test" => o = {}),
         NEW n \in Nat, NEW i \in o, prog = "test" => m[i] + n <= 10
  PROVE  Leads(prog, Repeat(n, <<"send", i>>), Book(q, o, l, m, f),
               Book(q, o, l, [m EXCEPT ![i] = @ + n], f))
<1>. DEFINE M(k) == [m EXCEPT ![i] = @ + k]
            a == [k \in 0 .. n |-> Book(q, o, l, M(k), f)]
<1>1. i \in Ids(prog) /\ m[i] \in Nat
  OBVIOUS
<1>2. \A k \in Nat : M(k) \in [Ids(prog) -> Nat] /\ M(k)[i] = m[i] + k
  BY <1>1
<1>3. \A k \in 1 .. n : [M(k - 1) EXCEPT ![i] = @ + 1] = M(k)
  BY <1>1
<1>4. M(0) = m
  BY <1>1
<1>. HIDE DEF M
<1>5. a \in [0 .. n -> Ledgers(prog)]
  <2>1. ASSUME NEW k \in 0 .. n PROVE Book(q, o, l, M(k), f) \in Ledgers(prog)
    <3>1. M(k) \in [Ids(prog) -> Nat]
      BY <1>2
    <3>. QED  BY <3>1, BookOf
  <2>. QED  BY <2>1
<1>6. a[0] = Book(q, o, l, m, f) /\ a[n] = Book(q, o, l, M(n), f)
  BY <1>4
<1>7. ASSUME NEW k \in 1 .. n PROVE Effect(prog, a[k - 1], <<"send", i>>, a[k])
  <2>1. k \in 0 .. n /\ k - 1 \in 0 .. n /\ k - 1 \in Nat
    OBVIOUS
  <2>2. a[k - 1] = Book(q, o, l, M(k - 1), f) /\ a[k] = Book(q, o, l, M(k), f)
    BY <2>1
  <2>. HIDE DEF a
  <2>3. prog = "test" => M(k - 1)[i] < 10
    <3>1. M(k - 1)[i] = m[i] + (k - 1)
      BY <1>2, <2>1
    <3>. QED  BY <1>1, <3>1
  <2>4. Effect(prog, Book(q, o, l, M(k - 1), f), <<"send", i>>,
               Book(q, o, l, [M(k - 1) EXCEPT ![i] = @ + 1], f))
    BY <1>1, <2>3, QueueEffects
  <2>. QED  BY <1>3, <2>2, <2>4
<1>. HIDE DEF a
<1>8. <<"send", i>> \in KnownCalls(prog)
  BY <1>1 DEF KnownCalls, QuietCalls
<1>. QED  BY <1>5, <1>6, <1>7, <1>8, LeadsRepeat DEF M

LEMMA ReceivesBurst ==
  ASSUME NEW q \in SUBSET Ids("test"), NEW o \in SUBSET Ids("test"), NEW l \in Nat,
         NEW m \in [Ids("test") -> Nat], NEW f \in Nat,
         f >= 2 => q = Ids("test") /\ o = {},
         NEW n \in Nat, NEW i \in o, n <= m[i]
  PROVE  Leads("test", Repeat(n, <<"receive", i>>), Book(q, o, l, m, f),
               Book(q, o, l, [m EXCEPT ![i] = @ - n], f))
<1>. DEFINE M(k) == [m EXCEPT ![i] = @ - k]
            a == [k \in 0 .. n |-> Book(q, o, l, M(k), f)]
<1>1. i \in Ids("test") /\ m[i] \in Nat
  OBVIOUS
<1>2. \A k \in 0 .. n : M(k) \in [Ids("test") -> Nat] /\ M(k)[i] = m[i] - k
  BY <1>1
<1>3. \A k \in 1 .. n : [M(k - 1) EXCEPT ![i] = @ - 1] = M(k)
  BY <1>1
<1>4. M(0) = m
  BY <1>1
<1>. HIDE DEF M
<1>5. a \in [0 .. n -> Ledgers("test")]
  <2>1. ASSUME NEW k \in 0 .. n PROVE Book(q, o, l, M(k), f) \in Ledgers("test")
    <3>1. M(k) \in [Ids("test") -> Nat]
      BY <1>2
    <3>. QED  BY <3>1, BookOf
  <2>. QED  BY <2>1
<1>6. a[0] = Book(q, o, l, m, f) /\ a[n] = Book(q, o, l, M(n), f)
  BY <1>4
<1>7. ASSUME NEW k \in 1 .. n PROVE Effect("test", a[k - 1], <<"receive", i>>, a[k])
  <2>1. k \in 0 .. n /\ k - 1 \in 0 .. n
    OBVIOUS
  <2>2. a[k - 1] = Book(q, o, l, M(k - 1), f) /\ a[k] = Book(q, o, l, M(k), f)
    BY <2>1
  <2>. HIDE DEF a
  <2>3. M(k - 1)[i] > 0
    <3>1. M(k - 1)[i] = m[i] - (k - 1)
      BY <1>2, <2>1
    <3>. QED  BY <1>1, <3>1
  <2>4. Effect("test", Book(q, o, l, M(k - 1), f), <<"receive", i>>,
               Book(q, o, l, [M(k - 1) EXCEPT ![i] = @ - 1], f))
    BY <1>1, <2>3, QueueEffects
  <2>. QED  BY <1>3, <2>2, <2>4
<1>. HIDE DEF a
<1>8. <<"receive", i>> \in KnownCalls("test")
  BY <1>1 DEF KnownCalls, QuietCalls
<1>. QED  BY <1>5, <1>6, <1>7, <1>8, LeadsRepeat DEF M

(* The phases of init in disastrOS_test.  After k queues, those have a     *)
(* burst and the others nothing, or the reverse.                           *)
Filled(k)  == [j \in Ids("test") |-> IF j < k THEN NumBurst ELSE 0]
Emptied(k) == [j \in Ids("test") |-> IF j < k THEN 0 ELSE NumBurst]

LEMMA LoadsTyped ==
  \A k \in 0 .. NumQueues : /\ Filled(k) \in [Ids("test") -> Nat]
                            /\ Emptied(k) \in [Ids("test") -> Nat]
<1>1. NumBurst \in Nat
  BY TestProgramsAssumption
<1>. QED  BY <1>1 DEF Filled, Emptied

LEMMA LoadsEnd ==
  /\ Emptied(0) = Filled(NumQueues)
  /\ Emptied(NumQueues) = Filled(0)
  /\ Filled(0) = [j \in Ids("test") |-> 0]
<1>1. NumQueues \in Nat
  BY TestProgramsAssumption
<1>2. \A j \in Ids("test") : j < NumQueues /\ ~(j < 0)
  BY <1>1 DEF Ids
<1>. QED  BY <1>2 DEF Filled, Emptied

LEMMA LoadsNext ==
  ASSUME NEW i \in Ids("test")
  PROVE  /\ i \in 0 .. NumQueues /\ i + 1 \in 0 .. NumQueues
         /\ Filled(i)[i] = 0 /\ Emptied(i)[i] = NumBurst
         /\ [Filled(i) EXCEPT ![i] = @ + NumBurst] = Filled(i + 1)
         /\ [Emptied(i) EXCEPT ![i] = @ - NumBurst] = Emptied(i + 1)
<1>1. NumQueues \in Nat /\ NumBurst \in Nat
  BY TestProgramsAssumption
<1>2. i \in 0 .. NumQueues /\ i + 1 \in 0 .. NumQueues
  BY <1>1 DEF Ids
<1>3. \A j \in Ids("test") : /\ j < i + 1 <=> (j < i \/ j = i)
                             /\ ~(j < i /\ j = i)
  BY <1>1 DEF Ids
<1>4. Filled(i)[i] = 0 /\ Emptied(i)[i] = NumBurst
  BY <1>2 DEF Filled, Emptied
<1>5. 0 + NumBurst = NumBurst /\ NumBurst - NumBurst = 0
  BY <1>1
<1>6. [Filled(i) EXCEPT ![i] = @ + NumBurst] = Filled(i + 1)
  BY <1>3, <1>5 DEF Filled
<1>7. [Emptied(i) EXCEPT ![i] = @ - NumBurst] = Emptied(i + 1)
  BY <1>3, <1>5 DEF Emptied
<1>. QED  BY <1>2, <1>4, <1>6, <1>7

(* A step of each phase.                                                   *)
LEMMA OpenAndSendLeads ==
  ASSUME NEW q \in SUBSET Ids("test"), NEW m \in [Ids("test") -> Nat],
         NEW i \in Ids("test"), i \notin q, m[i] = 0
  PROVE  Leads("test", OpenAndSend(i), Book(q, q, i, m, 1),
               Book(q \cup {i}, q \cup {i}, i + 1, [m EXCEPT ![i] = @ + NumBurst], 1))
<1>1. /\ NumBurst \in Nat /\ NumBurst <= 10
      /\ i \in Nat /\ i + 1 \in Nat
  BY TestProgramsAssumption, QueuesSuffice DEF Ids
<1>. DEFINE r == q \cup {i}
            l == i + 1
            u == Book(q, q, i, m, 1)
            v == Book(r, r, l, m, 1)
            w == Book(r, r, l, [m EXCEPT ![i] = @ + NumBurst], 1)
<1>2. r \in SUBSET Ids("test") /\ l \in Nat /\ i \in r
  BY <1>1
<1>3. Effect("test", u, <<"create", i>>, v)
  BY QueueEffects
<1>. HIDE DEF r, l
<1>4. 1 \in Nat /\ ~(1 >= 2)
  OBVIOUS
<1>5. u \in Ledgers("test") /\ v \in Ledgers("test")
  BY <1>1, <1>2, <1>4, BookOf
<1>6. m[i] + NumBurst <= 10
  BY <1>1
<1>7. Leads("test", Repeat(NumBurst, <<"send", i>>), v, w)
  BY <1>1, <1>2, <1>4, <1>6, SendsBurst
<1>. HIDE DEF u, v, w
<1>8. <<"create", i>> \in KnownCalls("test")
  BY DEF KnownCalls, QuietCalls
<1>9. Leads("test", <<<<"create", i>>>>, u, v)
  BY <1>3, <1>5, <1>8, LeadsOnce
<1>10. Leads("test", OpenAndSend(i), u, w)
  BY <1>7, <1>9, LeadsAfter DEF OpenAndSend
<1>. QED  BY <1>10 DEF u, w, r, l

LEMMA SendAllLeads ==
  ASSUME NEW m \in [Ids("test") -> Nat], NEW i \in Ids("test"), m[i] = 0
  PROVE  Leads("test", SendAll(i), Book(Ids("test"), Ids("test"), NumQueues, m, 1),
               Book(Ids("test"), Ids("test"), NumQueues, [m EXCEPT ![i] = @ + NumBurst], 1))
<1>1. NumBurst \in Nat /\ NumBurst <= 10 /\ NumQueues \in Nat
  BY TestProgramsAssumption, QueuesSuffice
<1>2. m[i] + NumBurst <= 10 /\ 1 \in Nat /\ ~(1 >= 2)
  BY <1>1
<1>. QED  BY <1>1, <1>2, SendsBurst DEF SendAll

LEMMA ReceiveAllLeads ==
  ASSUME NEW m \in [Ids("test") -> Nat], NEW i \in Ids("test"), m[i] = NumBurst
  PROVE  Leads("test", ReceiveAll(i), Book(Ids("test"), Ids("test"), NumQueues, m, 1),
               Book(Ids("test"), Ids("test"), NumQueues, [m EXCEPT ![i] = @ - NumBurst], 1))
<1>1. NumBurst \in Nat /\ NumBurst <= m[i] /\ NumQueues \in Nat
  BY TestProgramsAssumption
<1>2. 1 \in Nat /\ ~(1 >= 2)
  OBVIOUS
<1>. QED  BY <1>1, <1>2, ReceivesBurst DEF ReceiveAll

LEMMA CloseLeads ==
  ASSUME NEW prog, NEW q \in SUBSET Ids(prog), NEW o \in SUBSET Ids(prog), NEW i \in o,
         NEW m \in [Ids(prog) -> Nat], NEW l \in Nat
  PROVE  Leads(prog, Close(i), Book(q, o, l, m, 1), Book(q, o \ {i}, l, m, 1))
<1>1. 1 \in Nat /\ ~(1 >= 2) /\ i \in Ids(prog) /\ o \ {i} \in SUBSET Ids(prog)
  OBVIOUS
<1>2. Book(q, o, l, m, 1) \in Ledgers(prog) /\ Book(q, o \ {i}, l, m, 1) \in Ledgers(prog)
  BY <1>1, BookOf
<1>3. Effect(prog, Book(q, o, l, m, 1), <<"close", i>>, Book(q, o \ {i}, l, m, 1))
  BY <1>1, QueueEffects
<1>4. <<"close", i>> \in KnownCalls(prog)
  BY <1>1 DEF KnownCalls, QuietCalls
<1>. QED  BY <1>2, <1>3, <1>4, LeadsOnce DEF Close

LEMMA UnlinkLeads ==
  ASSUME NEW prog, NEW q \in SUBSET Ids(prog), NEW i \in q,
         NEW m \in [Ids(prog) -> Nat], NEW l \in Nat
  PROVE  Leads(prog, Unlink(i), Book(q, {}, l, m, 1), Book(q \ {i}, {}, l, m, 1))
<1>1. /\ 1 \in Nat /\ ~(1 >= 2) /\ i \in Ids(prog) /\ q \ {i} \in SUBSET Ids(prog)
      /\ {} \in SUBSET Ids(prog) /\ i \notin {}
  OBVIOUS
<1>2. Book(q, {}, l, m, 1) \in Ledgers(prog) /\ Book(q \ {i}, {}, l, m, 1) \in Ledgers(prog)
  BY <1>1, BookOf
<1>3. Effect(prog, Book(q, {}, l, m, 1), <<"unlink", i>>, Book(q \ {i}, {}, l, m, 1))
  BY <1>1, QueueEffects
<1>4. <<"unlink", i>> \in KnownCalls(prog)
  BY <1>1 DEF KnownCalls, QuietCalls
<1>. QED  BY <1>2, <1>3, <1>4, LeadsOnce DEF Unlink

(* The phases: each starts from the ledger where the last one ended.       *)
LEMMA QueuesOpened ==
  Leads("test", ForEach(NumQueues, OpenAndSend), Book({}, {}, 0, Filled(0), 1),
        Book(Ids("test"), Ids("test"), NumQueues, Filled(NumQueues), 1))
<1>. DEFINE a == [k \in 0 .. NumQueues |-> Book(0 .. k - 1, 0 .. k - 1, k, Filled(k), 1)]
            ss == [i \in 1 .. NumQueues |-> OpenAndSend(i - 1)]
<1>1. NumQueues \in Nat /\ 0 \in 0 .. NumQueues /\ NumQueues \in 0 .. NumQueues
  BY TestProgramsAssumption
<1>2. a[0] = Book(0 .. 0 - 1, 0 .. 0 - 1, 0, Filled(0), 1) /\ a[NumQueues] = Book(0 .. NumQueues - 1, 0 .. NumQueues - 1, NumQueues, Filled(NumQueues), 1)
  BY <1>1
<1>3. a \in [0 .. NumQueues -> Ledgers("test")]
  <2>. SUFFICES ASSUME NEW k \in 0 .. NumQueues PROVE Book(0 .. k - 1, 0 .. k - 1, k, Filled(k), 1) \in Ledgers("test")
    OBVIOUS
  <2>. DEFINE q == 0 .. k - 1
  <2>1. q \in SUBSET Ids("test") /\ k \in Nat /\ 1 \in Nat /\ ~(1 >= 2)
    BY <1>1 DEF Ids
  <2>. HIDE DEF q
  <2>2. Book(q, q, k, Filled(k), 1) \in Ledgers("test")
    BY <2>1, LoadsTyped, BookOf
  <2>. QED  BY <2>2 DEF q
<1>4. ASSUME NEW i \in Ids("test") PROVE Leads("test", OpenAndSend(i), a[i], a[i + 1])
  <2>. DEFINE q == 0 .. i - 1
  <2>1. /\ q \in SUBSET Ids("test") /\ i \notin q
        /\ q \cup {i} = 0 .. (i + 1) - 1
    BY <1>1 DEF Ids
  <2>2. /\ i \in 0 .. NumQueues /\ i + 1 \in 0 .. NumQueues
        /\ Filled(i)[i] = 0 /\ [Filled(i) EXCEPT ![i] = @ + NumBurst] = Filled(i + 1)
    BY LoadsNext
  <2>3. a[i] = Book(q, q, i, Filled(i), 1)
    BY <2>2
  <2>4. a[i + 1] = Book(q \cup {i}, q \cup {i}, i + 1, Filled(i + 1), 1)
    BY <2>1, <2>2
  <2>5. Filled(i) \in [Ids("test") -> Nat]
    BY <2>2, LoadsTyped
  <2>. HIDE DEF a, q
  <2>. QED  BY <2>1, <2>2, <2>3, <2>4, <2>5, OpenAndSendLeads
<1>. HIDE DEF a
<1>5. ASSUME NEW i \in 1 .. NumQueues PROVE Leads("test", OpenAndSend(i - 1), a[i - 1], a[i])
  <2>1. i - 1 \in Ids("test") /\ (i - 1) + 1 = i
    BY <1>1 DEF Ids
  <2>. QED  BY <1>4, <2>1
<1>6. ss \in [1 .. NumQueues -> Seq(KnownCalls("test"))]
  <2>1. \A i \in 1 .. NumQueues : OpenAndSend(i - 1) \in Seq(KnownCalls("test"))
    BY <1>5 DEF Leads
  <2>. QED  BY <2>1
<1>7. \A i \in 1 .. NumQueues : Leads("test", ss[i], a[i - 1], a[i])
  BY <1>5
<1>. HIDE DEF ss
<1>8. Leads("test", FlattenSeq(ss), a[0], a[NumQueues])
  BY <1>1, <1>3, <1>6, <1>7, LeadsEach
<1>9. 0 .. 0 - 1 = {} /\ 0 .. NumQueues - 1 = Ids("test")
  BY DEF Ids
<1>. QED  BY <1>2, <1>8, <1>9 DEF ForEach, ss

LEMMA QueuesEmptied ==
  Leads("test", ForEach(NumQueues, ReceiveAll), Book(Ids("test"), Ids("test"), NumQueues, Emptied(0), 1),
        Book(Ids("test"), Ids("test"), NumQueues, Emptied(NumQueues), 1))
<1>. DEFINE a == [k \in 0 .. NumQueues |-> Book(Ids("test"), Ids("test"), NumQueues, Emptied(k), 1)]
            ss == [i \in 1 .. NumQueues |-> ReceiveAll(i - 1)]
<1>1. NumQueues \in Nat /\ 0 \in 0 .. NumQueues /\ NumQueues \in 0 .. NumQueues
  BY TestProgramsAssumption
<1>2. a[0] = Book(Ids("test"), Ids("test"), NumQueues, Emptied(0), 1) /\ a[NumQueues] = Book(Ids("test"), Ids("test"), NumQueues, Emptied(NumQueues), 1)
  BY <1>1
<1>3. a \in [0 .. NumQueues -> Ledgers("test")]
  <2>. SUFFICES ASSUME NEW k \in 0 .. NumQueues PROVE Book(Ids("test"), Ids("test"), NumQueues, Emptied(k), 1) \in Ledgers("test")
    OBVIOUS
  <2>1. 1 \in Nat /\ ~(1 >= 2)
    OBVIOUS
  <2>. QED  BY <1>1, <2>1, LoadsTyped, BookOf
<1>4. ASSUME NEW i \in Ids("test") PROVE Leads("test", ReceiveAll(i), a[i], a[i + 1])
  <2>1. /\ i \in 0 .. NumQueues /\ i + 1 \in 0 .. NumQueues
        /\ Emptied(i)[i] = NumBurst /\ [Emptied(i) EXCEPT ![i] = @ - NumBurst] = Emptied(i + 1)
    BY LoadsNext
  <2>2. /\ a[i] = Book(Ids("test"), Ids("test"), NumQueues, Emptied(i), 1)
        /\ a[i + 1] = Book(Ids("test"), Ids("test"), NumQueues, Emptied(i + 1), 1)
    BY <2>1
  <2>3. Emptied(i) \in [Ids("test") -> Nat]
    BY <2>1, LoadsTyped
  <2>. HIDE DEF a
  <2>. QED  BY <2>1, <2>2, <2>3, ReceiveAllLeads
<1>. HIDE DEF a
<1>5. ASSUME NEW i \in 1 .. NumQueues PROVE Leads("test", ReceiveAll(i - 1), a[i - 1], a[i])
  <2>1. i - 1 \in Ids("test") /\ (i - 1) + 1 = i
    BY <1>1 DEF Ids
  <2>. QED  BY <1>4, <2>1
<1>6. ss \in [1 .. NumQueues -> Seq(KnownCalls("test"))]
  <2>1. \A i \in 1 .. NumQueues : ReceiveAll(i - 1) \in Seq(KnownCalls("test"))
    BY <1>5 DEF Leads
  <2>. QED  BY <2>1
<1>7. \A i \in 1 .. NumQueues : Leads("test", ss[i], a[i - 1], a[i])
  BY <1>5
<1>. HIDE DEF ss
<1>8. Leads("test", FlattenSeq(ss), a[0], a[NumQueues])
  BY <1>1, <1>3, <1>6, <1>7, LeadsEach
<1>. QED  BY <1>2, <1>8 DEF ForEach, ss

LEMMA QueuesFilled ==
  Leads("test", ForEach(NumQueues, SendAll), Book(Ids("test"), Ids("test"), NumQueues, Filled(0), 1),
        Book(Ids("test"), Ids("test"), NumQueues, Filled(NumQueues), 1))
<1>. DEFINE a == [k \in 0 .. NumQueues |-> Book(Ids("test"), Ids("test"), NumQueues, Filled(k), 1)]
            ss == [i \in 1 .. NumQueues |-> SendAll(i - 1)]
<1>1. NumQueues \in Nat /\ 0 \in 0 .. NumQueues /\ NumQueues \in 0 .. NumQueues
  BY TestProgramsAssumption
<1>2. a[0] = Book(Ids("test"), Ids("test"), NumQueues, Filled(0), 1) /\ a[NumQueues] = Book(Ids("test"), Ids("test"), NumQueues, Filled(NumQueues), 1)
  BY <1>1
<1>3. a \in [0 .. NumQueues -> Ledgers("test")]
  <2>. SUFFICES ASSUME NEW k \in 0 .. NumQueues PROVE Book(Ids("test"), Ids("test"), NumQueues, Filled(k), 1) \in Ledgers("test")
    OBVIOUS
  <2>1. 1 \in Nat /\ ~(1 >= 2)
    OBVIOUS
  <2>. QED  BY <1>1, <2>1, LoadsTyped, BookOf
<1>4. ASSUME NEW i \in Ids("test") PROVE Leads("test", SendAll(i), a[i], a[i + 1])
  <2>1. /\ i \in 0 .. NumQueues /\ i + 1 \in 0 .. NumQueues
        /\ Filled(i)[i] = 0 /\ [Filled(i) EXCEPT ![i] = @ + NumBurst] = Filled(i + 1)
    BY LoadsNext
  <2>2. /\ a[i] = Book(Ids("test"), Ids("test"), NumQueues, Filled(i), 1)
        /\ a[i + 1] = Book(Ids("test"), Ids("test"), NumQueues, Filled(i + 1), 1)
    BY <2>1
  <2>3. Filled(i) \in [Ids("test") -> Nat]
    BY <2>1, LoadsTyped
  <2>. HIDE DEF a
  <2>. QED  BY <2>1, <2>2, <2>3, SendAllLeads
<1>. HIDE DEF a
<1>5. ASSUME NEW i \in 1 .. NumQueues PROVE Leads("test", SendAll(i - 1), a[i - 1], a[i])
  <2>1. i - 1 \in Ids("test") /\ (i - 1) + 1 = i
    BY <1>1 DEF Ids
  <2>. QED  BY <1>4, <2>1
<1>6. ss \in [1 .. NumQueues -> Seq(KnownCalls("test"))]
  <2>1. \A i \in 1 .. NumQueues : SendAll(i - 1) \in Seq(KnownCalls("test"))
    BY <1>5 DEF Leads
  <2>. QED  BY <2>1
<1>7. \A i \in 1 .. NumQueues : Leads("test", ss[i], a[i - 1], a[i])
  BY <1>5
<1>. HIDE DEF ss
<1>8. Leads("test", FlattenSeq(ss), a[0], a[NumQueues])
  BY <1>1, <1>3, <1>6, <1>7, LeadsEach
<1>. QED  BY <1>2, <1>8 DEF ForEach, ss

LEMMA QueuesClosed ==
  Leads("test", ForEach(NumQueues, Close), Book(Ids("test"), Ids("test"), NumQueues, Filled(NumQueues), 1),
        Book(Ids("test"), {}, NumQueues, Filled(NumQueues), 1))
<1>. DEFINE a == [k \in 0 .. NumQueues |-> Book(Ids("test"), k .. NumQueues - 1, NumQueues, Filled(NumQueues), 1)]
            ss == [i \in 1 .. NumQueues |-> Close(i - 1)]
<1>1. NumQueues \in Nat /\ 0 \in 0 .. NumQueues /\ NumQueues \in 0 .. NumQueues
  BY TestProgramsAssumption
<1>2. a[0] = Book(Ids("test"), 0 .. NumQueues - 1, NumQueues, Filled(NumQueues), 1) /\ a[NumQueues] = Book(Ids("test"), NumQueues .. NumQueues - 1, NumQueues, Filled(NumQueues), 1)
  BY <1>1
<1>3. a \in [0 .. NumQueues -> Ledgers("test")]
  <2>. SUFFICES ASSUME NEW k \in 0 .. NumQueues PROVE Book(Ids("test"), k .. NumQueues - 1, NumQueues, Filled(NumQueues), 1) \in Ledgers("test")
    OBVIOUS
  <2>. DEFINE o == k .. NumQueues - 1
  <2>1. o \in SUBSET Ids("test") /\ 1 \in Nat /\ ~(1 >= 2)
    BY <1>1 DEF Ids
  <2>2. Ids("test") \in SUBSET Ids("test") /\ {} \in SUBSET Ids("test")
    OBVIOUS
  <2>. HIDE DEF o
  <2>3. Book(Ids("test"), o, NumQueues, Filled(NumQueues), 1) \in Ledgers("test")
    BY <1>1, <2>1, <2>2, LoadsTyped, BookOf
  <2>. QED  BY <2>3 DEF o
<1>4. ASSUME NEW i \in Ids("test") PROVE Leads("test", Close(i), a[i], a[i + 1])
  <2>. DEFINE o == i .. NumQueues - 1
  <2>1. o \in SUBSET Ids("test") /\ i \in o /\ o \ {i} = i + 1 .. NumQueues - 1
    BY <1>1 DEF Ids
  <2>2. i \in 0 .. NumQueues /\ i + 1 \in 0 .. NumQueues
    BY LoadsNext
  <2>3. a[i] = Book(Ids("test"), o, NumQueues, Filled(NumQueues), 1)
    BY <2>2
  <2>4. a[i + 1] = Book(Ids("test"), o \ {i}, NumQueues, Filled(NumQueues), 1)
    BY <2>1, <2>2
  <2>5. /\ Filled(NumQueues) \in [Ids("test") -> Nat]
        /\ Ids("test") \in SUBSET Ids("test")
    BY <1>1, LoadsTyped
  <2>. HIDE DEF a, o
  <2>. QED  BY <1>1, <2>1, <2>3, <2>4, <2>5, CloseLeads
<1>. HIDE DEF a
<1>5. ASSUME NEW i \in 1 .. NumQueues PROVE Leads("test", Close(i - 1), a[i - 1], a[i])
  <2>1. i - 1 \in Ids("test") /\ (i - 1) + 1 = i
    BY <1>1 DEF Ids
  <2>. QED  BY <1>4, <2>1
<1>6. ss \in [1 .. NumQueues -> Seq(KnownCalls("test"))]
  <2>1. \A i \in 1 .. NumQueues : Close(i - 1) \in Seq(KnownCalls("test"))
    BY <1>5 DEF Leads
  <2>. QED  BY <2>1
<1>7. \A i \in 1 .. NumQueues : Leads("test", ss[i], a[i - 1], a[i])
  BY <1>5
<1>. HIDE DEF ss
<1>8. Leads("test", FlattenSeq(ss), a[0], a[NumQueues])
  BY <1>1, <1>3, <1>6, <1>7, LeadsEach
<1>9. NumQueues .. NumQueues - 1 = {} /\ 0 .. NumQueues - 1 = Ids("test")
  BY <1>1 DEF Ids
<1>. QED  BY <1>2, <1>8, <1>9 DEF ForEach, ss

LEMMA QueuesUnlinked ==
  Leads("test", ForEach(NumQueues, Unlink), Book(Ids("test"), {}, NumQueues, Filled(NumQueues), 1),
        Book({}, {}, NumQueues, Filled(NumQueues), 1))
<1>. DEFINE a == [k \in 0 .. NumQueues |-> Book(k .. NumQueues - 1, {}, NumQueues, Filled(NumQueues), 1)]
            ss == [i \in 1 .. NumQueues |-> Unlink(i - 1)]
<1>1. NumQueues \in Nat /\ 0 \in 0 .. NumQueues /\ NumQueues \in 0 .. NumQueues
  BY TestProgramsAssumption
<1>2. a[0] = Book(0 .. NumQueues - 1, {}, NumQueues, Filled(NumQueues), 1) /\ a[NumQueues] = Book(NumQueues .. NumQueues - 1, {}, NumQueues, Filled(NumQueues), 1)
  BY <1>1
<1>3. a \in [0 .. NumQueues -> Ledgers("test")]
  <2>. SUFFICES ASSUME NEW k \in 0 .. NumQueues PROVE Book(k .. NumQueues - 1, {}, NumQueues, Filled(NumQueues), 1) \in Ledgers("test")
    OBVIOUS
  <2>. DEFINE o == k .. NumQueues - 1
  <2>1. o \in SUBSET Ids("test") /\ 1 \in Nat /\ ~(1 >= 2)
    BY <1>1 DEF Ids
  <2>2. Ids("test") \in SUBSET Ids("test") /\ {} \in SUBSET Ids("test")
    OBVIOUS
  <2>. HIDE DEF o
  <2>3. Book(o, {}, NumQueues, Filled(NumQueues), 1) \in Ledgers("test")
    BY <1>1, <2>1, <2>2, LoadsTyped, BookOf
  <2>. QED  BY <2>3 DEF o
<1>4. ASSUME NEW i \in Ids("test") PROVE Leads("test", Unlink(i), a[i], a[i + 1])
  <2>. DEFINE o == i .. NumQueues - 1
  <2>1. o \in SUBSET Ids("test") /\ i \in o /\ o \ {i} = i + 1 .. NumQueues - 1
    BY <1>1 DEF Ids
  <2>2. i \in 0 .. NumQueues /\ i + 1 \in 0 .. NumQueues
    BY LoadsNext
  <2>3. a[i] = Book(o, {}, NumQueues, Filled(NumQueues), 1)
    BY <2>2
  <2>4. a[i + 1] = Book(o \ {i}, {}, NumQueues, Filled(NumQueues), 1)
    BY <2>1, <2>2
  <2>5. /\ Filled(NumQueues) \in [Ids("test") -> Nat]
        /\ Ids("test") \in SUBSET Ids("test")
    BY <1>1, LoadsTyped
  <2>. HIDE DEF a, o
  <2>. QED  BY <1>1, <2>1, <2>3, <2>4, <2>5, UnlinkLeads
<1>. HIDE DEF a
<1>5. ASSUME NEW i \in 1 .. NumQueues PROVE Leads("test", Unlink(i - 1), a[i - 1], a[i])
  <2>1. i - 1 \in Ids("test") /\ (i - 1) + 1 = i
    BY <1>1 DEF Ids
  <2>. QED  BY <1>4, <2>1
<1>6. ss \in [1 .. NumQueues -> Seq(KnownCalls("test"))]
  <2>1. \A i \in 1 .. NumQueues : Unlink(i - 1) \in Seq(KnownCalls("test"))
    BY <1>5 DEF Leads
  <2>. QED  BY <2>1
<1>7. \A i \in 1 .. NumQueues : Leads("test", ss[i], a[i - 1], a[i])
  BY <1>5
<1>. HIDE DEF ss
<1>8. Leads("test", FlattenSeq(ss), a[0], a[NumQueues])
  BY <1>1, <1>3, <1>6, <1>7, LeadsEach
<1>9. NumQueues .. NumQueues - 1 = {} /\ 0 .. NumQueues - 1 = Ids("test")
  BY <1>1 DEF Ids
<1>. QED  BY <1>2, <1>8, <1>9 DEF ForEach, ss

(* The children, spawned one after the other and waited for.               *)
LEMMA ChildrenSpawned ==
  ASSUME NEW m \in [Ids("test") -> Nat]
  PROVE  Leads("test", Repeat(NumChildren, <<"spawn", "childFunction">>),
               Book(Ids("test"), {}, NumQueues, m, 1),
               Book(Ids("test"), {}, NumQueues, m, NumChildren + 1))
<1>. DEFINE B(f) == Book(Ids("test"), {}, NumQueues, m, f)
            a == [k \in 0 .. NumChildren |-> B(k + 1)]
<1>1. NumQueues \in Nat /\ NumChildren \in Nat
  BY TestProgramsAssumption
<1>2. \A f \in Nat : B(f) \in Ledgers("test")
  BY <1>1, BookOf
<1>3. \A f \in Nat : Effect("test", B(f), <<"spawn", "childFunction">>, B(f + 1))
  BY FamilyEffects
<1>. HIDE DEF B
<1>4. a[0] = B(1) /\ a[NumChildren] = B(NumChildren + 1)
  BY <1>1
<1>5. a \in [0 .. NumChildren -> Ledgers("test")]
  BY <1>2
<1>6. ASSUME NEW k \in 1 .. NumChildren
      PROVE  Effect("test", a[k - 1], <<"spawn", "childFunction">>, a[k])
  <2>1. /\ k \in Nat /\ k \in 0 .. NumChildren /\ k - 1 \in 0 .. NumChildren
        /\ (k - 1) + 1 = k
    BY <1>1
  <2>2. a[k - 1] = B(k) /\ a[k] = B(k + 1)
    BY <2>1
  <2>. HIDE DEF a
  <2>. QED  BY <1>3, <2>1, <2>2
<1>. HIDE DEF a
<1>7. <<"spawn", "childFunction">> \in KnownCalls("test")
  BY DEF KnownCalls, SpawnCalls
<1>. QED  BY <1>1, <1>4, <1>5, <1>6, <1>7, LeadsRepeat DEF B

LEMMA ChildrenWaitedFor ==
  ASSUME NEW m \in [Ids("test") -> Nat]
  PROVE  Leads("test", Repeat(NumChildren, <<"wait", 0>>),
               Book(Ids("test"), {}, NumQueues, m, NumChildren + 1),
               Book(Ids("test"), {}, NumQueues, m, 1))
<1>. DEFINE B(f) == Book(Ids("test"), {}, NumQueues, m, f)
            a == [k \in 0 .. NumChildren |-> B((NumChildren - k) + 1)]
<1>1. NumQueues \in Nat /\ NumChildren \in Nat
  BY TestProgramsAssumption
<1>2. \A f \in Nat : B(f) \in Ledgers("test")
  BY <1>1, BookOf
<1>3. \A f \in Nat : f >= 2 => Effect("test", B(f), <<"wait", 0>>, B(f - 1))
  BY FamilyEffects
<1>. HIDE DEF B
<1>4. a[0] = B(NumChildren + 1) /\ a[NumChildren] = B(1)
  <2>1. /\ (NumChildren - 0) + 1 = NumChildren + 1 /\ (NumChildren - NumChildren) + 1 = 1
        /\ 0 \in 0 .. NumChildren /\ NumChildren \in 0 .. NumChildren
    BY <1>1
  <2>. QED  BY <2>1
<1>5. a \in [0 .. NumChildren -> Ledgers("test")]
  <2>1. \A k \in 0 .. NumChildren : (NumChildren - k) + 1 \in Nat
    BY <1>1
  <2>. QED  BY <1>2, <2>1
<1>6. ASSUME NEW k \in 1 .. NumChildren
      PROVE  Effect("test", a[k - 1], <<"wait", 0>>, a[k])
  <2>. DEFINE f == (NumChildren - (k - 1)) + 1
  <2>1. /\ k \in 0 .. NumChildren /\ k - 1 \in 0 .. NumChildren
        /\ f \in Nat /\ f >= 2 /\ f - 1 = (NumChildren - k) + 1
    BY <1>1
  <2>2. a[k - 1] = B(f) /\ a[k] = B(f - 1)
    BY <2>1
  <2>. HIDE DEF a, f
  <2>. QED  BY <1>3, <2>1, <2>2
<1>. HIDE DEF a
<1>7. <<"wait", 0>> \in KnownCalls("test")
  BY DEF KnownCalls, QuietCalls
<1>. QED  BY <1>1, <1>4, <1>5, <1>6, <1>7, LeadsRepeat DEF B

(* The first spawn and the shutdown, in both programs.                     *)
LEMMA FirstSpawnLeads ==
  ASSUME NEW prog, NEW m \in [Ids(prog) -> Nat]
  PROVE  Leads(prog, <<<<"spawn", "sleeperFunction">>>>, Book({}, {}, 0, m, 0), Book({}, {}, 0, m, 1))
<1>1. /\ 0 \in Nat /\ 1 \in Nat /\ ~(0 >= 2) /\ ~(1 >= 2) /\ 0 + 1 = 1
      /\ {} \in SUBSET Ids(prog)
  OBVIOUS
<1>2. Book({}, {}, 0, m, 0) \in Ledgers(prog) /\ Book({}, {}, 0, m, 1) \in Ledgers(prog)
  BY <1>1, BookOf
<1>3. Effect(prog, Book({}, {}, 0, m, 0), <<"spawn", "sleeperFunction">>, Book({}, {}, 0, m, 0 + 1))
  BY <1>1, FamilyEffects
<1>4. <<"spawn", "sleeperFunction">> \in KnownCalls(prog)
  BY DEF KnownCalls, SpawnCalls
<1>. QED  BY <1>1, <1>2, <1>3, <1>4, LeadsOnce

LEMMA ShutdownLeads ==
  ASSUME NEW prog, NEW m \in [Ids(prog) -> Nat], NEW l \in Nat
  PROVE  Leads(prog, <<<<"shutdown", 0>>>>, Book({}, {}, l, m, 1), Book({}, {}, l, m, 1))
<1>1. 1 \in Nat /\ ~(1 >= 2) /\ {} \in SUBSET Ids(prog)
  OBVIOUS
<1>2. Book({}, {}, l, m, 1) \in Ledgers(prog)
  BY <1>1, BookOf
<1>3. Effect(prog, Book({}, {}, l, m, 1), <<"shutdown", 0>>, Book({}, {}, l, m, 1))
  BY <1>1, FamilyEffects
<1>4. <<"shutdown", 0>> \in KnownCalls(prog)
  BY DEF KnownCalls, QuietCalls
<1>. QED  BY <1>2, <1>3, <1>4, LeadsOnce

LEMMA OpeningBook ==
  ASSUME NEW prog
  PROVE  Opening(prog) = Book({}, {}, 0, [i \in Ids(prog) |-> 0], 0)
BY DEF Opening, Book

(* All of init in disastrOS_test.                                          *)
LEMMA TestInitLeads ==
  \E v : Leads("test", TestInit, Opening("test"), v)
<1>. DEFINE I == Ids("test")
            F == Filled(NumQueues)
            s0 == <<<<"spawn", "sleeperFunction">>>>
            s1 == s0 \o ForEach(NumQueues, OpenAndSend)
            s2 == s1 \o ForEach(NumQueues, ReceiveAll)
            s3 == s2 \o ForEach(NumQueues, SendAll)
            s4 == s3 \o ForEach(NumQueues, Close)
            s5 == s4 \o Repeat(NumChildren, <<"spawn", "childFunction">>)
            s6 == s5 \o Repeat(NumChildren, <<"wait", 0>>)
            s7 == s6 \o ForEach(NumQueues, Unlink)
            s8 == s7 \o <<<<"shutdown", 0>>>>
            u == Opening("test")
<1>1. TestInit = s8
  BY DEF TestInit
<1>2. NumQueues \in Nat /\ Filled(0) \in [I -> Nat] /\ F \in [I -> Nat]
  BY LoadsTyped, TestProgramsAssumption
<1>3. Leads("test", s0, u, Book({}, {}, 0, Filled(0), 1))
  <2>1. u = Book({}, {}, 0, Filled(0), 0)
    BY OpeningBook, LoadsEnd
  <2>. HIDE DEF u
  <2>. QED  BY <1>2, <2>1, FirstSpawnLeads
<1>. HIDE DEF I, F, u, s0
<1>4. Leads("test", s1, u, Book(I, I, NumQueues, F, 1))
  BY <1>3, QueuesOpened, LeadsAfter DEF I, F
<1>. HIDE DEF s1
<1>5. Leads("test", s2, u, Book(I, I, NumQueues, Filled(0), 1))
  <2>1. Emptied(0) = F /\ Emptied(NumQueues) = Filled(0)
    BY LoadsEnd DEF F
  <2>2. Leads("test", ForEach(NumQueues, ReceiveAll), Book(I, I, NumQueues, F, 1),
              Book(I, I, NumQueues, Filled(0), 1))
    BY <2>1, QueuesEmptied DEF I
  <2>. QED  BY <1>4, <2>2, LeadsAfter
<1>. HIDE DEF s2
<1>6. Leads("test", s3, u, Book(I, I, NumQueues, F, 1))
  BY <1>5, QueuesFilled, LeadsAfter DEF I, F
<1>. HIDE DEF s3
<1>7. Leads("test", s4, u, Book(I, {}, NumQueues, F, 1))
  BY <1>6, QueuesClosed, LeadsAfter DEF I, F
<1>. HIDE DEF s4
<1>8. Leads("test", s5, u, Book(I, {}, NumQueues, F, NumChildren + 1))
  BY <1>2, <1>7, ChildrenSpawned, LeadsAfter DEF I
<1>. HIDE DEF s5
<1>9. Leads("test", s6, u, Book(I, {}, NumQueues, F, 1))
  BY <1>2, <1>8, ChildrenWaitedFor, LeadsAfter DEF I
<1>. HIDE DEF s6
<1>10. Leads("test", s7, u, Book({}, {}, NumQueues, F, 1))
  BY <1>9, QueuesUnlinked, LeadsAfter DEF I, F
<1>. HIDE DEF s7
<1>11. Leads("test", s8, u, Book({}, {}, NumQueues, F, 1))
  BY <1>2, <1>10, ShutdownLeads, LeadsAfter DEF I
<1>. HIDE DEF s8
<1>. QED  BY <1>1, <1>11 DEF u

(* And all of init in disastrOS_test_mq_bloccanti.                         *)
LEMMA BloccantiInitLeads ==
  ASSUME program # "test", mqd[0] = 0
  PROVE  \E v : Leads(program, BloccantiInit(0), Opening(program), v)
<1>. DEFINE Z == [i \in Ids(program) |-> 0]
            M == [Z EXCEPT ![0] = @ + NumMessages]
            s0 == <<<<"spawn", "sleeperFunction">>>>
            s1 == s0 \o <<<<"create", 0>>>>
            s2 == s1 \o <<<<"spawn", "childFunction">>>>
            s3 == s2 \o Repeat(NumMessages, <<"send", 0>>)
            s4 == s3 \o <<<<"wait", 0>>>>
            s5 == s4 \o Close(0)
            s6 == s5 \o Unlink(0)
            s7 == s6 \o <<<<"shutdown", 0>>>>
            u == Opening(program)
<1>1. BloccantiInit(0) = s7
  <2>1. <<<<"spawn", "sleeperFunction">>, <<"create", 0>>, <<"spawn", "childFunction">>>> = s2
    OBVIOUS
  <2>. HIDE DEF s2
  <2>. QED  BY <2>1 DEF BloccantiInit
<1>2. /\ Ids(program) = {0} /\ Z \in [{0} -> Nat] /\ M \in [{0} -> Nat] /\ Z[0] = 0
      /\ NumMessages \in Nat
  BY TestProgramsAssumption DEF Ids
<1>3. /\ {0} \cup {} = {0} /\ {} \cup {0} = {0} /\ {0} \ {0} = {} /\ 0 \in {0} /\ 0 \notin {}
      /\ 0 + 1 = 1 /\ 1 + 1 = 2 /\ 2 - 1 = 1
      /\ ~(1 >= 2) /\ 2 >= 2 /\ {0} \in SUBSET {0} /\ {} \in SUBSET {0}
      /\ 0 \in Nat /\ 1 \in Nat /\ 2 \in Nat
  OBVIOUS
<1>4. /\ Book({}, {}, 0, Z, 1) \in Ledgers(program)
      /\ Book({0}, {0}, 1, Z, 1) \in Ledgers(program)
      /\ Book({0}, {0}, 1, Z, 2) \in Ledgers(program)
      /\ Book({0}, {0}, 1, M, 2) \in Ledgers(program)
      /\ Book({0}, {0}, 1, M, 1) \in Ledgers(program)
  <2>. HIDE DEF M, Z
  <2>1. Book({}, {}, 0, Z, 1) \in Ledgers(program)
    BY <1>2, <1>3, BookOf
  <2>2. Book({0}, {0}, 1, Z, 1) \in Ledgers(program) /\ Book({0}, {0}, 1, M, 1) \in Ledgers(program)
    BY <1>2, <1>3, BookOf
  <2>3. Book({0}, {0}, 1, Z, 2) \in Ledgers(program) /\ Book({0}, {0}, 1, M, 2) \in Ledgers(program)
    BY <1>2, <1>3, BookOf
  <2>. QED  BY <2>1, <2>2, <2>3
<1>5. /\ <<"create", 0>> \in KnownCalls(program) /\ <<"wait", 0>> \in KnownCalls(program)
      /\ <<"spawn", "childFunction">> \in KnownCalls(program)
  BY <1>2 DEF KnownCalls, QuietCalls, SpawnCalls
<1>6. Leads(program, s0, u, Book({}, {}, 0, Z, 1))
  <2>1. u = Book({}, {}, 0, Z, 0)
    BY OpeningBook
  <2>. HIDE DEF u, Z
  <2>. QED  BY <1>2, <2>1, FirstSpawnLeads
<1>. HIDE DEF u, Z, M, s0
<1>7. Leads(program, s1, u, Book({0}, {0}, 1, Z, 1))
  <2>1. Effect(program, Book({}, {}, 0, Z, 1), <<"create", 0>>,
               Book({} \cup {0}, {} \cup {0}, 0 + 1, Z, 1))
    BY <1>2, <1>3, QueueEffects
  <2>2. Leads(program, <<<<"create", 0>>>>, Book({}, {}, 0, Z, 1), Book({0}, {0}, 1, Z, 1))
    BY <1>3, <1>4, <1>5, <2>1, LeadsOnce
  <2>. QED  BY <1>6, <2>2, LeadsAfter
<1>. HIDE DEF s1
<1>8. Leads(program, s2, u, Book({0}, {0}, 1, Z, 2))
  <2>1. Effect(program, Book({0}, {0}, 1, Z, 1), <<"spawn", "childFunction">>,
               Book({0}, {0}, 1, Z, 1 + 1))
    BY <1>3, FamilyEffects
  <2>2. Leads(program, <<<<"spawn", "childFunction">>>>, Book({0}, {0}, 1, Z, 1),
              Book({0}, {0}, 1, Z, 2))
    BY <1>3, <1>4, <1>5, <2>1, LeadsOnce
  <2>. QED  BY <1>7, <2>2, LeadsAfter
<1>. HIDE DEF s2
<1>9. Leads(program, s3, u, Book({0}, {0}, 1, M, 2))
  <2>1. Leads(program, Repeat(NumMessages, <<"send", 0>>), Book({0}, {0}, 1, Z, 2),
              Book({0}, {0}, 1, M, 2))
    BY <1>2, <1>3, SendsBurst DEF M
  <2>. QED  BY <1>8, <2>1, LeadsAfter
<1>. HIDE DEF s3
<1>10. Leads(program, s4, u, Book({0}, {0}, 1, M, 1))
  <2>1. Effect(program, Book({0}, {0}, 1, M, 2), <<"wait", 0>>, Book({0}, {0}, 1, M, 2 - 1))
    BY <1>3, FamilyEffects
  <2>2. Leads(program, <<<<"wait", 0>>>>, Book({0}, {0}, 1, M, 2), Book({0}, {0}, 1, M, 1))
    BY <1>3, <1>4, <1>5, <2>1, LeadsOnce
  <2>. QED  BY <1>9, <2>2, LeadsAfter
<1>. HIDE DEF s4
<1>11. Leads(program, s5, u, Book({0}, {}, 1, M, 1))
  <2>1. Leads(program, Close(0), Book({0}, {0}, 1, M, 1), Book({0}, {0} \ {0}, 1, M, 1))
    BY <1>2, <1>3, CloseLeads
  <2>. QED  BY <1>3, <1>10, <2>1, LeadsAfter
<1>. HIDE DEF s5
<1>12. Leads(program, s6, u, Book({}, {}, 1, M, 1))
  <2>1. Leads(program, Unlink(0), Book({0}, {}, 1, M, 1), Book({0} \ {0}, {}, 1, M, 1))
    BY <1>2, <1>3, UnlinkLeads
  <2>. QED  BY <1>3, <1>11, <2>1, LeadsAfter
<1>. HIDE DEF s6
<1>13. Leads(program, s7, u, Book({}, {}, 1, M, 1))
  BY <1>2, <1>3, <1>12, ShutdownLeads, LeadsAfter
<1>. HIDE DEF s7
<1>. QED  BY <1>1, <1>13 DEF u

-----------------------------------------------------------------------------
(* The books of init: its ledgers before and after each of its calls.      *)
LedgersOf(prog, s) == CHOOSE st : Passes(prog, s, st) /\ st[0] = Opening(prog)

Books == LedgersOf(program, Calls(0))
Now   == Books[pc[0]]
Then  == Books[pc[0] + 1]

MqdsKnown ==
  /\ mqd \in [PCB -> Int]
  /\ program # "test" => mqd[0] = 0
  /\ pc[0] <= Len(Calls(0))

LEMMA BooksKept ==
  ASSUME FunctionsTyped, MqdsKnown
  PROVE  /\ Calls(0) \in Seq(KnownCalls(program)) /\ Len(Calls(0)) \in Nat
         /\ Passes(program, Calls(0), Books) /\ Books[0] = Opening(program)
<1>1. Calls(0) = IF program = "test" THEN TestInit ELSE BloccantiInit(0)
  BY DEF FunctionsTyped, Calls
<1>2. PICK v : Leads(program, Calls(0), Opening(program), v)
  <2>1. CASE program = "test"
    BY <1>1, <2>1, TestInitLeads
  <2>2. CASE program # "test"
    BY <1>1, <2>2, BloccantiInitLeads DEF MqdsKnown
  <2>. QED  BY <2>1, <2>2
<1>3. Calls(0) \in Seq(KnownCalls(program)) /\ Len(Calls(0)) \in Nat
  <2>1. Calls(0) \in Seq(KnownCalls(program))
    BY <1>2 DEF Leads
  <2>. QED  BY <2>1, Members
<1>4. \E st : Passes(program, Calls(0), st) /\ st[0] = Opening(program)
  BY <1>2 DEF Leads
<1>5. Passes(program, Calls(0), Books) /\ Books[0] = Opening(program)
  BY <1>4, Zenon DEF Books, LedgersOf
<1>. QED  BY <1>3, <1>5

LEMMA NowIsLedger ==
  ASSUME FunctionsTyped, MqdsKnown
  PROVE  Now \in Ledgers(program) /\ pc[0] \in 0 .. Len(Calls(0))
<1>1. pc[0] \in Nat
  BY KernelAssumption DEF FunctionsTyped, PCB
<1>2. /\ Len(Calls(0)) \in Nat /\ pc[0] <= Len(Calls(0))
      /\ Books \in [0 .. Len(Calls(0)) -> Ledgers(program)]
  BY BooksKept DEF MqdsKnown, Passes
<1>. HIDE DEF Books
<1>3. pc[0] \in 0 .. Len(Calls(0))
  BY <1>1, <1>2
<1>. QED  BY <1>2, <1>3 DEF Now

(* The next call of init has its effect on the ledger.                     *)
LEMMA NextEffect ==
  ASSUME FunctionsTyped, MqdsKnown, pc[0] < Len(Calls(0))
  PROVE  /\ Effect(program, Now, NextCall(0), Then)
         /\ NextCall(0) \in KnownCalls(program)
         /\ Now \in Ledgers(program) /\ Then \in Ledgers(program)
<1>1. /\ Len(Calls(0)) \in Nat /\ pc[0] \in 0 .. Len(Calls(0)) /\ Now \in Ledgers(program)
      /\ Calls(0) \in Seq(KnownCalls(program))
  BY BooksKept, NowIsLedger
<1>2. /\ pc[0] + 1 \in 1 .. Len(Calls(0)) /\ (pc[0] + 1) - 1 = pc[0]
      /\ pc[0] + 1 \in 0 .. Len(Calls(0))
  BY <1>1
<1>3. /\ Books \in [0 .. Len(Calls(0)) -> Ledgers(program)]
      /\ \A k \in 1 .. Len(Calls(0)) : Effect(program, Books[k - 1], Calls(0)[k], Books[k])
  BY BooksKept DEF Passes
<1>. HIDE DEF Books
<1>4. Effect(program, Now, NextCall(0), Then)
  <2>1. Effect(program, Books[(pc[0] + 1) - 1], Calls(0)[pc[0] + 1], Books[pc[0] + 1])
    BY <1>2, <1>3
  <2>. QED  BY <1>2, <2>1 DEF Now, Then, NextCall
<1>5. Then \in Ledgers(program)
  BY <1>2, <1>3 DEF Then
<1>6. NextCall(0) \in KnownCalls(program)
  <2>. DEFINE s == Calls(0)
              C == KnownCalls(program)
  <2>1. s \in Seq(C) /\ pc[0] + 1 \in 1 .. Len(s)
    BY <1>1, <1>2
  <2>. HIDE DEF s, C
  <2>2. s[pc[0] + 1] \in C
    BY <2>1, Members
  <2>. QED  BY <2>2 DEF NextCall, s, C
<1>. QED  BY <1>1, <1>4, <1>5, <1>6

(* The books stay the same, and a call turns the page.                     *)
BooksSame == UNCHANGED program /\ code'[0] = code[0] /\ (program # "test" => mqd'[0] = mqd[0])

LEMMA SameBooks ==
  ASSUME FunctionsTyped, BooksSame
  PROVE  Calls(0)' = Calls(0) /\ Books' = Books
<1>1. /\ program' = program
      /\ Calls(0) = IF program = "test" THEN TestInit ELSE BloccantiInit(0)
      /\ Calls(0)' = IF program = "test" THEN TestInit' ELSE BloccantiInit(0)'
  <2>1. code[0] = "initFunction" /\ code'[0] = "initFunction"
    BY DEF FunctionsTyped, BooksSame
  <2>2. Calls(0) = IF program = "test" THEN TestInit ELSE BloccantiInit(0)
    BY <2>1 DEF Calls
  <2>3. Calls(0)' = IF program' = "test" THEN TestInit' ELSE BloccantiInit(0)'
    BY <2>1 DEF Calls
  <2>. QED  BY <2>2, <2>3 DEF BooksSame
<1>2. TestInit' = TestInit
  BY DEF TestInit
<1>3. program # "test" => BloccantiInit(0)' = BloccantiInit(0)
  BY DEF BloccantiInit, BooksSame, Close, Unlink
<1>4. Calls(0)' = Calls(0)
  BY <1>1, <1>2, <1>3
<1>. QED  BY <1>1, <1>4 DEF Books

LEMMA SamePage ==
  ASSUME FunctionsTyped, BooksSame, pc'[0] = pc[0]
  PROVE  Now' = Now
BY SameBooks DEF Now

LEMMA NextPage ==
  ASSUME FunctionsTyped, BooksSame, pc'[0] = pc[0] + 1
  PROVE  Now' = Then
BY SameBooks DEF Now, Then

-----------------------------------------------------------------------------
(* The processes beside init: the sleeper and the children.  A child holds *)
(* its queue open from its first call to the close.                        *)
Others == Allocated \ {0}
IsChild(p) == p \in Others /\ code[p] = "childFunction"

QueueOf(p) == IF program = "test" THEN pid[p] ELSE 0
LastUse == IF program = "test" THEN 1 ELSE NumMessages + 1
Holds(p) == IsChild(p) /\ pc[p] \in 1 .. LastUse
Used(id) == \E p \in PCB : Holds(p) /\ QueueOf(p) = id

One(b) == IF b THEN 1 ELSE 0
InitWaits == 0 \in waiting_list /\ wait_arg[0] # NULL

(* The system is as the books say: the queues and the messages in them,    *)
(* the descriptors of init, and the processes it has spawned and not       *)
(* waited for, be it that it is about to be given one.                     *)
QueuesAsBooked ==
  /\ DOMAIN messagequeues = Now.queues
  /\ \A id \in DOMAIN messagequeues :
       /\ messagequeues[id].type = 0 /\ messagequeues[id].msg_size = 20
       /\ program = "test" => messagequeues[id].msg_num = Now.load[id]

InitHolds ==
  /\ DOMAIN descrittori[0] = Now.open
  /\ \A id \in Now.open : descrittori[0][id] = id
  /\ last_mqd[0] = Now.last

FamilyCounted ==
  /\ Cardinality(Others) = Now.family + One(InitWaits)
  /\ Cardinality(Others) >= 2 => Stocked(program, Now)

ChildrenHold ==
  /\ \A p \in Others :
       IF Holds(p) THEN DOMAIN descrittori[p] = {mqd[p]} /\ descrittori[p][mqd[p]] = QueueOf(p)
                   ELSE DOMAIN descrittori[p] = {}
  /\ \A p \in zombie_list : ~Holds(p)

UsersAre ==
  \A id \in DOMAIN messagequeues :
    messagequeues[id].users = One(id \in Now.open) + One(Used(id))

(* What the two properties add to PInv to be kept by every step.           *)
Booked ==
  /\ MqdsKnown
  /\ QueuesAsBooked
  /\ InitHolds
  /\ FamilyCounted
  /\ ChildrenHold
  /\ UsersAre

CInv == PInv /\ Booked /\ CallsSucceed /\ CleanShutdown

LEMMA OthersFinite ==
  ASSUME PInv
  PROVE  /\ IsFiniteSet(Others) /\ Cardinality(Others) \in Nat
         /\ Others \subseteq PCB /\ Allocated = Others \cup {0}
         /\ 0 \in PCB /\ 0 \in Allocated /\ 0 \notin Others
         /\ ToSet(children[0]) = Others
<1>1. 0 \in PCB /\ 0 \in Allocated
  BY InitInUse DEF PInv, Tree
<1>2. Others \subseteq PCB /\ Allocated = Others \cup {0} /\ 0 \notin Others
  BY <1>1 DEF Others, Allocated
<1>3. IsFiniteSet(Others)
  BY <1>2, ProcessesFinite
<1>4. Cardinality(Others) \in Nat
  BY <1>3, FS_CardinalityType
<1>5. ToSet(children[0]) = Others
  <2>. DEFINE members(p) == ToSet(children[p])
  <2>1. UNION {ToSet(children[p]) : p \in PCB} = {p \in Allocated : parent[p] # NULL}
    BY DEF PInv, MQInv, IInv, Family, Allocated
  <2>2. \A p \in PCB \ {0} : members(p) = {}
    BY EmptyList DEF PInv, Tree
  <2>3. {p \in Allocated : parent[p] # NULL} = Others
    <3>1. parent[0] = NULL
      BY DEF PInv, MQInv, IInv, Family, Tree
    <3>2. \A p \in Others : parent[p] = 0
      BY DEF PInv, Tree, Others
    <3>. QED  BY <1>1, <1>2, <3>1, <3>2, NullIsNoPCB
  <2>4. UNION {members(p) : p \in PCB} = Others
    BY <2>1, <2>3
  <2>. HIDE DEF members
  <2>5. members(0) = Others
    BY <1>1, <2>2, <2>4
  <2>. QED  BY <2>5 DEF members
<1>. QED  BY <1>1, <1>2, <1>3, <1>4, <1>5

(* Of the processes beside init, one is the sleeper.                       *)
LEMMA SleeperThere ==
  ASSUME PInv, pc[0] # 0
  PROVE  \E s \in Others : /\ code[s] = "sleeperFunction" /\ s \notin waiting_list
                           /\ \A p \in Others : IsChild(p) => p # s
<1>1. PICK s \in PCB : code[s] = "sleeperFunction" /\ s \in {running} \cup ToSet(ready_list)
  BY DEF PInv, SleeperReady
<1>2. s # 0
  BY <1>1 DEF PInv, FunctionsTyped
<1>3. s \in Allocated /\ s \notin waiting_list
  BY <1>1 DEF PInv, MQInv, IInv, Placement, Allocated
<1>. QED  BY <1>1, <1>2, <1>3 DEF Others, IsChild

LEMMA NoneHolds ==
  ASSUME PInv, Cardinality(Others) <= 1
  PROVE  \A p \in Others : ~IsChild(p)
<1>. SUFFICES ASSUME NEW p \in Others, IsChild(p) PROVE FALSE
  OBVIOUS
<1>1. IsFiniteSet(Others) /\ Cardinality(Others) \in Nat
  BY OthersFinite
<1>2. pc[0] # 0
  BY DEF PInv, SleeperReady, Others
<1>3. PICK s \in Others : p # s
  BY <1>2, SleeperThere
<1>4. IsFiniteSet({s}) /\ Cardinality({s}) = 1
  BY FS_Singleton
<1>5. Cardinality({s} \cup {p}) = 2
  BY <1>3, <1>4, FS_AddElement
<1>6. Cardinality({s} \cup {p}) <= Cardinality(Others)
  BY <1>1, FS_Subset
<1>. QED  BY <1>1, <1>5, <1>6

(* A pid is less than the number of processes spawned so far, init with    *)
(* them: the pids of the children of disastrOS_test are ids of queues, and *)
(* disastrOS_test_mq_bloccanti has one child only.                         *)
LEMMA FewPids ==
  ASSUME PInv
  PROVE  /\ last_pid \in Nat /\ NumChildren \in Nat
         /\ last_pid <= IF program = "test" THEN NumChildren + 2 ELSE 3
         /\ \A p \in Allocated : pid[p] \in Nat /\ pid[p] < last_pid
         /\ \A p, q \in Allocated : pid[p] = pid[q] => p = q
<1>1. /\ IInv /\ FunctionsTyped /\ last_pid \in Nat /\ NumChildren \in Nat
      /\ last_pid <= 1 + SpawnsMade(pc[0])
  BY TestProgramsAssumption DEF PInv, MQInv, IInv, TypeOK, SpawnsCounted, SpawnsMade
<1>2. SpawnsMade(pc[0]) \in Nat /\ SpawnsMade(pc[0]) <= Cardinality(SpawnPlaces)
  <2>. DEFINE S == SpawnPlaces \cap (1 .. pc[0])
  <2>1. IsFiniteSet(SpawnPlaces) /\ S \subseteq SpawnPlaces
    BY <1>1, PlacesFinite
  <2>. HIDE DEF S
  <2>2. IsFiniteSet(S) /\ Cardinality(S) <= Cardinality(SpawnPlaces) /\ Cardinality(S) \in Nat
    BY <2>1, FS_Subset, FS_CardinalityType
  <2>. QED  BY <2>2 DEF SpawnsMade, S
<1>3. /\ Cardinality(SpawnPlaces) \in Nat
      /\ Cardinality(SpawnPlaces) <= IF program = "test" THEN NumChildren + 1 ELSE 2
  BY <1>1, PlacesFinite
<1>4. last_pid <= IF program = "test" THEN NumChildren + 2 ELSE 3
  BY <1>1, <1>2, <1>3
<1>5. /\ \A p \in Allocated : pid[p] \in Nat /\ pid[p] < last_pid
      /\ \A p, q \in Allocated : pid[p] = pid[q] => p = q
  BY <1>1 DEF IInv, TypeOK, PidsUnique, Allocated
<1>. QED  BY <1>1, <1>4, <1>5

LEMMA ChildrenApart ==
  ASSUME PInv, NEW p \in Others, IsChild(p)
  PROVE  /\ QueueOf(p) \in QueueIds
         /\ \A q \in Others : IsChild(q) /\ QueueOf(q) = QueueOf(p) => q = p
<1>1. /\ Allocated = Others \cup {0} /\ 0 \notin Others
      /\ last_pid \in Nat /\ NumChildren \in Nat
      /\ last_pid <= IF program = "test" THEN NumChildren + 2 ELSE 3
      /\ \A q \in Allocated : pid[q] \in Nat /\ pid[q] < last_pid
      /\ \A q, r \in Allocated : pid[q] = pid[r] => q = r
  BY OthersFinite, FewPids
<1>2. CASE program = "test"
  <2>1. pid[p] \in QueueIds
    <3>1. NumQueues \in Nat /\ NumChildren + 2 <= NumQueues
      BY TestProgramsAssumption, QueuesSuffice
    <3>2. pid[p] \in Nat /\ pid[p] < last_pid /\ last_pid <= NumChildren + 2
      BY <1>1, <1>2
    <3>3. pid[p] \in 0 .. NumQueues - 1
      BY <1>1, <3>1, <3>2
    <3>. QED  BY <1>2, <3>3 DEF QueueIds
  <2>. QED  BY <1>1, <1>2, <2>1 DEF QueueOf
<1>3. CASE program # "test"
  <2>1. QueueOf(p) \in QueueIds
    BY <1>3 DEF QueueOf, QueueIds
  <2>2. ASSUME NEW q \in Others, IsChild(q), q # p PROVE FALSE
    <3>1. pc[0] # 0
      BY DEF PInv, SleeperReady, Others
    <3>2. PICK s \in Others : p # s /\ q # s
      BY <2>2, <3>1, SleeperThere
    <3>3. /\ 0 \in Allocated /\ s \in Allocated /\ p \in Allocated /\ q \in Allocated
          /\ s # 0 /\ p # 0 /\ q # 0
      BY <1>1
    <3>4. /\ pid[0] # pid[s] /\ pid[0] # pid[p] /\ pid[0] # pid[q]
          /\ pid[s] # pid[p] /\ pid[s] # pid[q] /\ pid[p] # pid[q]
      BY <1>1, <2>2, <3>2, <3>3
    <3>5. pid[0] \in 0 .. 2 /\ pid[s] \in 0 .. 2 /\ pid[p] \in 0 .. 2 /\ pid[q] \in 0 .. 2
      BY <1>1, <1>3, <3>3
    <3>. QED  BY <3>4, <3>5
  <2>. QED  BY <2>1, <2>2
<1>. QED  BY <1>2, <1>3

LEMMA UsedExists ==
  ASSUME PInv, ChildrenHold, NEW id, Used(id)
  PROVE  id \in DOMAIN messagequeues
<1>1. PICK p \in PCB : Holds(p) /\ QueueOf(p) = id
  BY DEF Used
<1>2. p \in Others /\ p \in Live
  BY <1>1 DEF Holds, IsChild, Others, Allocated, Live
<1>3. mqd[p] \in DOMAIN descrittori[p] /\ descrittori[p][mqd[p]] = id
  BY <1>1, <1>2 DEF ChildrenHold
<1>4. MQTyped /\ UsersCoverHeld
  BY DEF PInv, MQInv, Accounted
<1>. QED  BY <1>2, <1>3, <1>4, OpenExists

(* An open finds a descrittore: no queue has two users, and there are not  *)
(* more queues than descrittori.                                           *)
LEMMA RoomForDescrittore ==
  ASSUME PInv, NEW id \in QueueIds,
         \A i \in DOMAIN messagequeues : messagequeues[i].users <= 1,
         program = "test" /\ id \in DOMAIN messagequeues => messagequeues[id].users = 0
  PROVE  descrittore_free > 0
<1>. DEFINE S == DOMAIN messagequeues
            n == Cardinality(QueueIds)
            g == [i \in S |-> IF i = id THEN 1 ELSE Users[i]]
<1>1. /\ MQTyped /\ descrittore_free \in Nat /\ MAX_NUM_PROCESSES \in Nat
      /\ descrittore_free + UsersSum = MAX_NUM_PROCESSES
  <2>1. MQTyped /\ DescrittoriAccounted
    BY DEF PInv, MQInv, Accounted
  <2>. QED  BY <2>1, Accounts, KernelAssumption DEF MQTyped
<1>2. \A i \in S : Users[i] = messagequeues[i].users /\ Users[i] \in Nat /\ Users[i] <= 1
  BY <1>1, QueuesTyped
<1>3. IsFiniteSet(S) /\ S \subseteq QueueIds /\ IsFiniteSet(QueueIds)
  BY QueuesFinite DEF PInv, QueuesKnown
<1>4. n \in Nat /\ Cardinality(S) \in Nat /\ Cardinality(S) <= n
  <2>. HIDE DEF S
  <2>. QED  BY <1>3, FS_Subset, FS_CardinalityType
<1>5. n <= MAX_NUM_PROCESSES /\ (program # "test" => n < MAX_NUM_PROCESSES)
  <2>1. /\ n = IF program = "test" THEN NumQueues ELSE 1
        /\ NumQueues \in Nat /\ NumQueues <= MAX_NUM_PROCESSES /\ MAX_NUM_PROCESSES >= 3
    BY QueuesFinite, QueuesSuffice, PoolsSuffice, TestProgramsAssumption
  <2>. HIDE DEF n
  <2>. QED  BY <1>1, <2>1
<1>6. \A f : (\A i \in S : f[i] \in Nat /\ f[i] <= 1) => SumFunctionOnSet(f, S) <= Cardinality(S)
  <2>. SUFFICES ASSUME NEW f, \A i \in S : f[i] \in Nat /\ f[i] <= 1
                PROVE  SumFunctionOnSet(f, S) <= Cardinality(S)
    OBVIOUS
  <2>1. 1 \in Nat /\ 1 * Cardinality(S) = Cardinality(S)
    BY <1>4
  <2>. HIDE DEF S
  <2>2. SumFunctionOnSet(f, S) <= 1 * Cardinality(S)
    BY <1>3, <2>1, SumBound
  <2>. QED  BY <2>1, <2>2
<1>7. UsersSum = SumFunctionOnSet(Users, S) /\ UsersSum \in Nat
  BY <1>1, QueuesTyped DEF UsersSum
<1>8. UsersSum <= Cardinality(S)
  BY <1>2, <1>6, <1>7
<1>9. CASE program # "test"
  <2>. HIDE DEF S, n
  <2>. QED  BY <1>1, <1>4, <1>5, <1>7, <1>8, <1>9
<1>10. CASE program = "test" /\ id \notin S
  <2>1. IsFiniteSet(QueueIds \ {id}) /\ Cardinality(QueueIds \ {id}) = n - 1
    BY <1>3, FS_RemoveElement
  <2>2. Cardinality(S) <= Cardinality(QueueIds \ {id})
    <3>1. S \subseteq QueueIds \ {id}
      BY <1>3, <1>10
    <3>. HIDE DEF S
    <3>. QED  BY <2>1, <3>1, FS_Subset
  <2>. HIDE DEF S, n
  <2>. QED  BY <1>1, <1>4, <1>5, <1>7, <1>8, <2>1, <2>2
<1>11. CASE program = "test" /\ id \in S
  <2>1. Users[id] = 0 /\ g[id] = 1 /\ \A i \in S \ {id} : g[i] = Users[i]
    BY <1>2, <1>11
  <2>2. \A i \in S : g[i] \in Nat /\ g[i] <= 1
    BY <1>2
  <2>. HIDE DEF g
  <2>3. SumFunctionOnSet(g, S) = SumFunctionOnSet(Users, S) - Users[id] + g[id]
    <3>. DEFINE f == Users
    <3>1. \A i \in S : f[i] \in Nat /\ g[i] \in Nat
      BY <1>2, <2>2
    <3>2. IsFiniteSet(S) /\ id \in S /\ \A i \in S \ {id} : g[i] = f[i]
      BY <1>3, <1>11, <2>1
    <3>. HIDE DEF S, f
    <3>3. SumFunctionOnSet(g, S) = SumFunctionOnSet(f, S) - f[id] + g[id]
      BY <3>1, <3>2, SumUpdate
    <3>. QED  BY <3>3 DEF f
  <2>4. SumFunctionOnSet(g, S) <= Cardinality(S)
    BY <1>6, <2>2
  <2>5. SumFunctionOnSet(g, S) = UsersSum + 1
    BY <1>7, <2>1, <2>3
  <2>. HIDE DEF S, n
  <2>. QED  BY <1>1, <1>4, <1>5, <1>7, <2>4, <2>5
<1>. QED  BY <1>9, <1>10, <1>11

(* So does a sleep find a timer: the process that runs has none.           *)
LEMMA RoomForTimer ==
  ASSUME PInv
  PROVE  Len(timer_list) < MAX_NUM_PROCESSES
<1>. DEFINE T == PCB \ {running}
            n == Len(timer_list)
            f == [i \in 1 .. n |-> timer_list[i].pcb]
<1>1. /\ IInv /\ running \in PCB /\ MAX_NUM_PROCESSES \in Nat \ {0}
      /\ timer_list \in Seq(Timer)
  BY KernelAssumption DEF PInv, Survives, MQInv, IInv, TypeOK
<1>2. n \in Nat
  BY <1>1, Members
<1>3. f \in [1 .. n -> T]
  <2>1. \A i \in 1 .. n : timer_list[i].pcb \in {p \in waiting_list : wait_arg[p] = NULL}
    BY <1>1 DEF IInv, TimersMatchSleepers
  <2>2. waiting_list \subseteq T
    BY <1>1 DEF IInv, TypeOK, Placement
  <2>. HIDE DEF T, n
  <2>. QED  BY <2>1, <2>2
<1>4. \A i, j \in 1 .. n : f[i] = f[j] => i = j
  <2>1. \A i, j \in 1 .. n : i < j => timer_list[i].pcb # timer_list[j].pcb
    BY <1>1 DEF IInv, TimersMatchSleepers
  <2>. HIDE DEF n
  <2>. QED  BY <1>2, <2>1
<1>5. IsFiniteSet(T) /\ Cardinality(T) = MAX_NUM_PROCESSES - 1
  <2>1. Cardinality(PCB) = MAX_NUM_PROCESSES
    <3>. DEFINE m == MAX_NUM_PROCESSES - 1
    <3>1. m \in Int /\ 0 \in Int /\ (IF 0 > m THEN 0 ELSE m - 0 + 1) = MAX_NUM_PROCESSES
      BY <1>1
    <3>2. Cardinality(0 .. m) = IF 0 > m THEN 0 ELSE m - 0 + 1
      <4>. HIDE DEF m
      <4>. QED  BY <3>1, FS_Interval
    <3>. QED  BY <3>1, <3>2 DEF PCB
  <2>. QED  BY <1>1, <2>1, ProcessesFinite, FS_RemoveElement
<1>6. IsFiniteSet(1 .. n) /\ Cardinality(1 .. n) = n
  <2>1. 1 \in Int /\ n \in Int /\ (IF 1 > n THEN 0 ELSE n - 1 + 1) = n
    BY <1>2
  <2>. HIDE DEF n
  <2>. QED  BY <2>1, FS_Interval
<1>. HIDE DEF f, T, n
<1>7. ASSUME Cardinality(T) < Cardinality(1 .. n) PROVE FALSE
  <2>. DEFINE D == 1 .. n
  <2>1. /\ IsFiniteSet(D) /\ IsFiniteSet(T) /\ f \in [D -> T] /\ Cardinality(T) < Cardinality(D)
        /\ \A i, j \in D : f[i] = f[j] => i = j
    BY <1>3, <1>4, <1>5, <1>6, <1>7
  <2>. HIDE DEF D
  <2>2. \E i, j \in D : i # j /\ f[i] = f[j]
    BY <2>1, FS_PigeonHole
  <2>. QED  BY <2>1, <2>2
<1>8. n < MAX_NUM_PROCESSES
  BY <1>1, <1>2, <1>5, <1>6, <1>7
<1>. QED  BY <1>8 DEF n

LEMMA ProgramInitBooked ==
  ASSUME ProgramInit
  PROVE  Booked /\ CallsSucceed /\ CleanShutdown
<1>1. PInv
  BY ProgramInitPInv
<1>2. /\ machine = "up" /\ waiting_list = {} /\ zombie_list = {}
      /\ syscall_retvalue = [p \in PCB |-> 0]
      /\ messagequeues = <<>> /\ descrittori = [p \in PCB |-> <<>>]
      /\ last_mqd = [p \in PCB |-> 0]
      /\ pc = [p \in PCB |-> 0] /\ mqd = [p \in PCB |-> 0]
  BY DEF ProgramInit, MQInit, Init
<1>3. FunctionsTyped /\ 0 \in PCB
  BY <1>1, OthersFinite DEF PInv
<1>4. Others = {} /\ Cardinality(Others) = 0
  <2>1. Allocated = {0}
    BY <1>1, <1>2, <1>3 DEF PInv, SleeperReady
  <2>2. Others = {}
    BY <2>1 DEF Others
  <2>. QED  BY <2>2, FS_EmptySet
<1>5. MqdsKnown
  <2>1. Len(Calls(0)) \in Nat
    <3>1. \E P, Q : SpawnsAt(P, Q, Calls(0))
      <4>1. Calls(0) = IF program = "test" THEN TestInit ELSE BloccantiInit(0)
        BY <1>3 DEF FunctionsTyped, Calls
      <4>. QED  BY <4>1, TestInitSpawns, BloccantiInitSpawns, Zenon
    <3>. QED  BY <3>1, Members DEF SpawnsAt
  <2>. QED  BY <1>2, <1>3, <2>1 DEF MqdsKnown
<1>6. Now = Opening(program)
  BY <1>2, <1>3, <1>5, BooksKept DEF Now
<1>7. Now.queues = {} /\ Now.open = {} /\ Now.last = 0 /\ Now.family = 0
  BY <1>6 DEF Opening
<1>8. DOMAIN messagequeues = {} /\ \A p \in PCB : DOMAIN descrittori[p] = {}
  BY <1>2
<1>9. QueuesAsBooked /\ UsersAre
  BY <1>7, <1>8 DEF QueuesAsBooked, UsersAre
<1>10. InitHolds
  BY <1>2, <1>3, <1>7, <1>8 DEF InitHolds
<1>11. FamilyCounted
  BY <1>2, <1>4, <1>7 DEF FamilyCounted, InitWaits, One
<1>12. ChildrenHold
  BY <1>2, <1>4 DEF ChildrenHold
<1>13. CallsSucceed /\ CleanShutdown
  BY <1>2 DEF CallsSucceed, CleanShutdown
<1>. QED  BY <1>5, <1>9, <1>10, <1>11, <1>12, <1>13 DEF Booked

-----------------------------------------------------------------------------
(* What a step leaves alone.  One in which no child acts.                  *)
ChildrenSame ==
  /\ UNCHANGED <<program, code, pid, pcb_pool, zombie_list>>
  /\ \A p \in PCB \ {0} : /\ pc'[p] = pc[p] /\ mqd'[p] = mqd[p]
                          /\ descrittori'[p] = descrittori[p]

LEMMA ChildrenStay ==
  ASSUME PInv, ChildrenHold, ChildrenSame
  PROVE  /\ Others' = Others /\ ChildrenHold'
         /\ \A id : Used(id)' <=> Used(id)
<1>1. Others' = Others /\ Others \subseteq PCB \ {0}
  BY DEF ChildrenSame, Others, Allocated
<1>2. ASSUME NEW p \in PCB PROVE (Holds(p))' <=> Holds(p)
  <2>1. IsChild(p)' <=> IsChild(p)
    BY <1>1 DEF IsChild, ChildrenSame
  <2>2. IsChild(p) => pc'[p] = pc[p]
    BY <1>1 DEF IsChild, ChildrenSame
  <2>3. LastUse' = LastUse
    BY DEF LastUse, ChildrenSame
  <2>. QED  BY <2>1, <2>2, <2>3, Zenon DEF Holds
<1>3. \A p \in PCB : QueueOf(p)' = QueueOf(p)
  BY DEF QueueOf, ChildrenSame
<1>4. \A id : Used(id)' <=> Used(id)
  BY <1>2, <1>3 DEF Used
<1>5. ASSUME NEW p \in Others
      PROVE  IF (Holds(p))' THEN /\ DOMAIN descrittori'[p] = {mqd'[p]}
                                 /\ descrittori'[p][mqd'[p]] = QueueOf(p)'
                            ELSE DOMAIN descrittori'[p] = {}
  <2>1. p \in PCB /\ mqd'[p] = mqd[p] /\ descrittori'[p] = descrittori[p]
    BY <1>1 DEF ChildrenSame
  <2>2. IF Holds(p) THEN DOMAIN descrittori[p] = {mqd[p]} /\ descrittori[p][mqd[p]] = QueueOf(p)
                    ELSE DOMAIN descrittori[p] = {}
    BY DEF ChildrenHold
  <2>. HIDE DEF Holds, QueueOf
  <2>. QED  BY <1>2, <1>3, <2>1, <2>2
<1>6. \A p \in zombie_list' : (~Holds(p))'
  <2>1. zombie_list' = zombie_list /\ zombie_list \subseteq PCB
    BY DEF ChildrenSame, PInv, MQInv, IInv, TypeOK
  <2>. QED  BY <1>2, <2>1 DEF ChildrenHold
<1>. QED  BY <1>1, <1>4, <1>5, <1>6 DEF ChildrenHold

LEMMA MqdsStay ==
  ASSUME PInv, MqdsKnown, BooksSame, mqd' \in [PCB -> Int],
         pc'[0] = pc[0] \/ (pc'[0] = pc[0] + 1 /\ pc[0] < Len(Calls(0)))
  PROVE  MqdsKnown'
<1>1. FunctionsTyped
  BY DEF PInv
<1>2. Calls(0)' = Calls(0) /\ pc[0] \in 0 .. Len(Calls(0)) /\ Len(Calls(0)) \in Nat
  BY <1>1, SameBooks, NowIsLedger, BooksKept
<1>3. pc'[0] <= Len(Calls(0))
  BY <1>2
<1>4. program' # "test" => mqd'[0] = 0
  BY DEF BooksSame, MqdsKnown
<1>. HIDE DEF Calls
<1>. QED  BY <1>2, <1>3, <1>4 DEF MqdsKnown

LEMMA FamilyStays ==
  ASSUME PInv, FamilyCounted, running = 0, Then \in Ledgers(program), Then.family = Now.family,
         Now' = Then, UNCHANGED <<program, pcb_pool>>, ~InitWaits'
  PROVE  FamilyCounted'
<1>1. Others' = Others
  BY DEF Others, Allocated
<1>2. ~InitWaits
  BY DEF InitWaits, PInv, MQInv, IInv, Placement
<1>3. Cardinality(Others) = Now.family + One(InitWaits) /\ One(InitWaits) = 0 /\ One(InitWaits)' = 0
  BY <1>2 DEF FamilyCounted, One
<1>4. Then.family \in Nat /\ (Then.family >= 2 => Stocked(program, Then))
  BY DEF Ledgers
<1>5. Stocked(program, Now)' <=> Stocked(program, Then)
  BY DEF Stocked, Ids
<1>. QED  BY <1>1, <1>3, <1>4, <1>5 DEF FamilyCounted

(* A call that answers well.                                               *)
LEMMA AnswersWell ==
  ASSUME PInv, CallsSucceed, UNCHANGED program, NEW value, Answers(value),
         program = "test" => value \in Nat
  PROVE  CallsSucceed' /\ CleanShutdown'
<1>1. syscall_retvalue' = [syscall_retvalue EXCEPT ![running] = value]
  BY DEF Answers, Return
<1>2. machine' = "up"
  BY DEF Answers, Trap, Runs, processVars
<1>3. syscall_retvalue \in [PCB -> Int]
  BY DEF PInv, MQInv, IInv, TypeOK
<1>4. program' = "test" => \A p \in PCB : syscall_retvalue'[p] >= 0
  BY <1>1, <1>3 DEF CallsSucceed
<1>. QED  BY <1>2, <1>4 DEF CallsSucceed, CleanShutdown

-----------------------------------------------------------------------------
(* Init makes its next call, which is on the books.                        *)
Turn(call, arg) ==
  /\ CInv /\ PInv'
  /\ running = 0 /\ pc[0] < Len(Calls(0)) /\ NextCall(0) = <<call, arg>>
  /\ Makes(call, arg)
  /\ pc' = [pc EXCEPT ![0] = @ + 1]

LEMMA Turns ==
  ASSUME NEW call, NEW arg, Turn(call, arg)
  PROVE  /\ PInv /\ Booked /\ FunctionsTyped /\ 0 \in PCB
         /\ UNCHANGED <<program, code>>
         /\ pc[0] \in Nat /\ pc'[0] = pc[0] + 1 /\ \A p \in PCB \ {0} : pc'[p] = pc[p]
         /\ Effect(program, Now, <<call, arg>>, Then)
         /\ Now \in Ledgers(program) /\ Then \in Ledgers(program)
<1>1. PInv /\ Booked /\ FunctionsTyped /\ MqdsKnown /\ pc[0] < Len(Calls(0))
  BY DEF Turn, CInv, PInv, Booked
<1>2. 0 \in PCB
  BY <1>1, OthersFinite
<1>3. UNCHANGED <<program, code>>
  BY DEF Turn, Makes
<1>4. pc \in [PCB -> Nat] /\ pc' = [pc EXCEPT ![0] = @ + 1]
  BY <1>1 DEF FunctionsTyped, Turn
<1>5. /\ Effect(program, Now, NextCall(0), Then)
      /\ Now \in Ledgers(program) /\ Then \in Ledgers(program)
  BY <1>1, NextEffect
<1>6. NextCall(0) = <<call, arg>>
  BY DEF Turn
<1>7. pc[0] \in Nat /\ pc'[0] = pc[0] + 1 /\ \A p \in PCB \ {0} : pc'[p] = pc[p]
  BY <1>2, <1>4
<1>. HIDE DEF NextCall, Effect
<1>. QED  BY <1>1, <1>2, <1>3, <1>5, <1>6, <1>7

LEMMA PageTurned ==
  ASSUME NEW call, NEW arg, Turn(call, arg),
         mqd' \in [PCB -> Int], program # "test" => mqd'[0] = mqd[0]
  PROVE  Now' = Then /\ MqdsKnown'
<1>1. /\ PInv /\ Booked /\ FunctionsTyped /\ 0 \in PCB /\ UNCHANGED <<program, code>>
      /\ pc'[0] = pc[0] + 1
  BY Turns
<1>2. BooksSame
  BY <1>1 DEF BooksSame
<1>3. MqdsKnown /\ pc[0] < Len(Calls(0))
  BY <1>1 DEF Booked, Turn
<1>. QED  BY <1>1, <1>2, <1>3, NextPage, MqdsStay

(* A call on a queue.                                                      *)
LEMMA QueueTurn ==
  ASSUME NEW call, NEW arg, Turn(call, arg),
         mqd' \in [PCB -> Int], program # "test" => mqd'[0] = mqd[0],
         UNCHANGED <<pid, pcb_pool, zombie_list>>, ~InitWaits',
         \A p \in PCB \ {0} : mqd'[p] = mqd[p] /\ descrittori'[p] = descrittori[p],
         Then.family = Now.family,
         QueuesAsBooked', InitHolds', CallsSucceed', CleanShutdown',
         \A id \in DOMAIN messagequeues' :
           messagequeues'[id].users = One(id \in Then.open) + One(Used(id))
  PROVE  CInv'
<1>1. /\ PInv /\ Booked /\ FunctionsTyped /\ 0 \in PCB /\ UNCHANGED <<program, code>>
      /\ \A p \in PCB \ {0} : pc'[p] = pc[p]
      /\ Then \in Ledgers(program)
  BY Turns
<1>2. Now' = Then /\ MqdsKnown'
  BY PageTurned
<1>3. ChildrenSame
  BY <1>1 DEF ChildrenSame
<1>4. ChildrenHold /\ FamilyCounted /\ running = 0 /\ PInv'
  BY <1>1 DEF Booked, Turn
<1>5. ChildrenHold' /\ \A id : Used(id)' <=> Used(id)
  BY <1>1, <1>3, <1>4, ChildrenStay
<1>6. FamilyCounted'
  BY <1>1, <1>2, <1>4, FamilyStays
<1>7. UsersAre'
  BY <1>2, <1>5 DEF UsersAre, One
<1>. QED  BY <1>2, <1>4, <1>5, <1>6, <1>7 DEF CInv, Booked

LEMMA AnswerTurn ==
  ASSUME PInv, running = 0, NEW value, Answers(value)
  PROVE  UNCHANGED <<pid, pcb_pool, zombie_list>> /\ ~InitWaits'
<1>1. UNCHANGED <<pid, pcb_pool, zombie_list, waiting_list>>
  BY DEF Answers, processVars, pcbVars, poolVars, schedVars
<1>2. 0 \notin waiting_list
  BY DEF PInv, MQInv, IInv, Placement
<1>. QED  BY <1>1, <1>2 DEF InitWaits

(* Only the program that is meant to block does.                           *)
LEMMA BlocksTurn ==
  ASSUME CInv, running = 0, UNCHANGED program, program # "test",
         NEW retvalues, NEW error, Blocks(retvalues, error)
  PROVE  /\ UNCHANGED <<pid, pcb_pool, zombie_list>> /\ ~InitWaits'
         /\ CallsSucceed' /\ CleanShutdown'
<1>1. /\ UNCHANGED <<machine, pid, pcb_pool, zombie_list, mqVars>>
      /\ Runs /\ wait_arg' = [wait_arg EXCEPT ![0] = NULL]
  BY DEF Blocks, Trap, pcbVars, poolVars
<1>2. 0 \in PCB /\ wait_arg \in [PCB -> Int \cup {NULL}]
  BY OthersFinite DEF CInv, PInv, MQInv, IInv, TypeOK
<1>3. wait_arg'[0] = NULL
  BY <1>1, <1>2
<1>. QED  BY <1>1, <1>3 DEF InitWaits, CallsSucceed, CleanShutdown, Runs

(* The queue that init names by its mqd.                                   *)
LEMMA QueueOfInit ==
  ASSUME PInv, Booked, running = 0, Runs, NEW id \in Now.open
  PROVE  /\ HasMqd(id) /\ descrittori[running][id] = id /\ Queue(id) = messagequeues[id]
         /\ id \in DOMAIN messagequeues /\ messagequeues[id] \in QueueRecord
         /\ messagequeues[id].max_msg = Capacity /\ messagequeues[id].msg_size = 20
         /\ program = "test" => /\ messagequeues[id].msg_num = Now.load[id]
                                /\ messagequeues[id].max_msg = 10
<1>1. HasMqd(id) /\ descrittori[running][id] = id
  BY DEF Booked, InitHolds, HasMqd
<1>2. Queue(id) = messagequeues[id]
  BY <1>1 DEF Queue
<1>3. id \in DOMAIN messagequeues /\ messagequeues[id] \in QueueRecord
  <2>1. descrittori[running][id] \in DOMAIN messagequeues /\ Queue(id) \in QueueRecord
    BY <1>1, HasQueue
  <2>. QED  BY <1>1, <1>2, <2>1
<1>4. messagequeues[id].max_msg = Capacity
  BY <1>3 DEF PInv, QueuesKnown
<1>5. /\ messagequeues[id].msg_size = 20
      /\ program = "test" => messagequeues[id].msg_num = Now.load[id]
  BY <1>3 DEF Booked, QueuesAsBooked
<1>. QED  BY <1>1, <1>2, <1>3, <1>4, <1>5 DEF Capacity

(* The calls of init, one by one.  A queue is created when init has spawned *)
(* no child yet, so that nobody else has any open.                         *)
LEMMA InitCreates ==
  ASSUME NEW id \in QueueIds, Turn("create", id)
  PROVE  CInv'
<1>. DEFINE new == MessageQueue(0, 20, Capacity)
            with == With(messagequeues, id, new)
            o == last_mqd[running]
<1>1. /\ PInv /\ Booked /\ FunctionsTyped /\ 0 \in PCB /\ UNCHANGED <<program, code>>
      /\ Effect(program, Now, <<"create", id>>, Then)
      /\ Now \in Ledgers(program)
  BY Turns
<1>2. CInv /\ PInv' /\ running = 0
  BY DEF Turn
<1>3. /\ id \notin Now.queues /\ id = Now.last /\ Now.load[id] = 0
      /\ Then = Book(Now.queues \cup {id}, Now.open \cup {id}, Now.last + 1, Now.load, Now.family)
  BY <1>1 DEF Effect, QueueEffect
<1>4. /\ Then.queues = Now.queues \cup {id} /\ Then.open = Now.open \cup {id}
      /\ Then.last = Now.last + 1 /\ Then.load = Now.load /\ Then.family = Now.family
  BY <1>3, BookFields
<1>5. /\ DOMAIN messagequeues = Now.queues /\ Now.last \in Nat
      /\ Now.queues \subseteq QueueIds /\ Now.open \subseteq QueueIds
  BY <1>1 DEF Booked, QueuesAsBooked, Ledgers, Ids, QueueIds
<1>6. /\ internal_mq_open(id, 0, 20, Capacity, {DSOS_CREATE})
      /\ mqd' = [mqd EXCEPT ![0] = syscall_retvalue'[0]]
  BY <1>2 DEF Turn, Makes, OpensQueue, Capacity
<1>7. \A i : ~Used(i)
  <2>1. ~Stocked(program, Now)
    BY <1>3 DEF Stocked, QueueIds, Ids
  <2>2. Cardinality(Others) <= 1
    <3>1. Cardinality(Others) \in Nat /\ ~(Cardinality(Others) >= 2)
      BY <1>1, <2>1, OthersFinite DEF Booked, FamilyCounted
    <3>. QED  BY <3>1
  <2>. QED  BY <1>1, <2>2, NoneHolds DEF Used, Holds, IsChild
<1>8. descrittore_free > 0
  <2>1. \A i \in DOMAIN messagequeues : messagequeues[i].users <= 1
    BY <1>1, <1>7 DEF Booked, UsersAre, One
  <2>. QED  BY <1>1, <1>3, <1>5, <2>1, RoomForDescrittore
<1>9. Opens(id, 0, 20, Capacity, {DSOS_CREATE})
  <2>1. OpenError(id, 0, {DSOS_CREATE}) = NULL
    BY <1>3, <1>5 DEF OpenError, Exists
  <2>2. ~OpenRefused(id, 0, {DSOS_CREATE})
    BY <2>1 DEF OpenRefused
  <2>3. ~OpenWithoutDescrittore(id, 0, 20, Capacity, {DSOS_CREATE})
    <3>1. descrittore_free # 0
      BY <1>1, <1>8 DEF PInv, MQInv, Accounted, MQTyped
    <3>. QED  BY <3>1 DEF OpenWithoutDescrittore
  <2>4. ~OpenDies(id, 0, {DSOS_CREATE})
    BY <1>2 DEF OpenDies, Stop, PInv, Survives
  <2>. QED  BY <1>6, <2>2, <2>3, <2>4 DEF internal_mq_open
<1>10. o = id /\ last_mqd[0] = Now.last
  BY <1>1, <1>2, <1>3 DEF Booked, InitHolds
<1>11. /\ Answers(id)
       /\ messagequeues' = [with EXCEPT ![id].users = @ + 1]
       /\ descrittori' = [descrittori EXCEPT ![0] = With(@, id, id)]
       /\ last_mqd' = [last_mqd EXCEPT ![0] = id + 1]
  BY <1>2, <1>9, <1>10 DEF Opens, WithQueue
<1>12. mqd' = [mqd EXCEPT ![0] = id]
  <2>1. syscall_retvalue' = [syscall_retvalue EXCEPT ![0] = id] /\ syscall_retvalue \in [PCB -> Int]
    BY <1>1, <1>2, <1>11 DEF Answers, Return, PInv, MQInv, IInv, TypeOK
  <2>2. syscall_retvalue'[0] = id
    BY <1>1, <2>1
  <2>. QED  BY <1>6, <2>2
<1>13. id \in Nat /\ (program # "test" => id = 0)
  BY <1>3, <1>5 DEF QueueIds
<1>14. /\ mqd' \in [PCB -> Int] /\ (program # "test" => mqd'[0] = mqd[0])
       /\ \A p \in PCB \ {0} : mqd'[p] = mqd[p]
  BY <1>1, <1>12, <1>13 DEF Booked, MqdsKnown
<1>15. descrittori \in [PCB -> Tables(MaxMqd, MQIds)] /\ last_mqd \in [PCB -> 0 .. MaxMqd]
  BY <1>1 DEF PInv, MQInv, Accounted, MQTyped
<1>16. \A p \in PCB \ {0} : descrittori'[p] = descrittori[p]
  BY <1>11, <1>15
<1>17. /\ DOMAIN messagequeues' = Now.queues \cup {id}
       /\ messagequeues'[id].type = 0 /\ messagequeues'[id].msg_size = 20
       /\ messagequeues'[id].msg_num = 0 /\ messagequeues'[id].users = 1
       /\ \A i \in Now.queues : messagequeues'[i] = messagequeues[i]
  <2>1. /\ DOMAIN with = Now.queues \cup {id} /\ with[id] = new
        /\ \A i \in Now.queues : with[i] = messagequeues[i]
    <3>. HIDE DEF new
    <3>. QED  BY <1>3, <1>5 DEF With
  <2>2. /\ new.type = 0 /\ new.msg_size = 20 /\ new.msg_num = 0 /\ new.users = 0
        /\ new = [type |-> 0, msg_size |-> 20, max_msg |-> Capacity, msg_num |-> 0,
                  users |-> 0, messages |-> <<>>]
    BY DEF MessageQueue
  <2>. DEFINE q == [new EXCEPT !.users = @ + 1]
  <2>3. q.type = 0 /\ q.msg_size = 20 /\ q.msg_num = 0 /\ q.users = 1
    BY <2>2
  <2>. HIDE DEF new, with
  <2>4. messagequeues' = [with EXCEPT ![id] = q]
    BY <1>11, <2>1
  <2>. HIDE DEF q
  <2>5. /\ DOMAIN messagequeues' = Now.queues \cup {id} /\ messagequeues'[id] = q
        /\ \A i \in Now.queues : messagequeues'[i] = messagequeues[i]
    BY <1>3, <2>1, <2>4
  <2>. QED  BY <2>3, <2>5
<1>. HIDE DEF with, new
<1>18. QueuesAsBooked'
  <2>1. Now' = Then
    BY <1>14, PageTurned
  <2>2. \A i \in Now.queues : /\ messagequeues[i].type = 0 /\ messagequeues[i].msg_size = 20
                              /\ program = "test" => messagequeues[i].msg_num = Now.load[i]
    BY <1>1 DEF Booked, QueuesAsBooked
  <2>. QED  BY <1>1, <1>3, <1>4, <1>17, <2>1, <2>2 DEF QueuesAsBooked
<1>19. InitHolds'
  <2>1. Now' = Then
    BY <1>14, PageTurned
  <2>2. descrittori'[0] = With(descrittori[0], id, id) /\ last_mqd'[0] = id + 1
    BY <1>1, <1>11, <1>15
  <2>3. DOMAIN descrittori[0] = Now.open /\ \A i \in Now.open : descrittori[0][i] = i
    BY <1>1 DEF Booked, InitHolds
  <2>4. /\ DOMAIN descrittori'[0] = Now.open \cup {id}
        /\ \A i \in Now.open \cup {id} : descrittori'[0][i] = i
    BY <2>2, <2>3 DEF With
  <2>. QED  BY <1>3, <1>4, <2>1, <2>2, <2>4 DEF InitHolds
<1>20. \A i \in DOMAIN messagequeues' :
         messagequeues'[i].users = One(i \in Then.open) + One(Used(i))
  <2>1. \A i \in Now.queues : messagequeues[i].users = One(i \in Now.open) + One(Used(i))
    BY <1>1, <1>5 DEF Booked, UsersAre
  <2>2. messagequeues'[id].users = One(id \in Then.open) + One(Used(id))
    BY <1>4, <1>7, <1>17 DEF One
  <2>3. \A i \in Now.queues : One(i \in Now.open) = One(i \in Then.open)
    BY <1>3, <1>4 DEF One
  <2>4. \A i \in Now.queues : messagequeues'[i].users = messagequeues[i].users
    BY <1>17
  <2>. QED  BY <1>17, <2>1, <2>2, <2>3, <2>4
<1>21. CallsSucceed' /\ CleanShutdown'
  BY <1>1, <1>2, <1>11, <1>13, AnswersWell DEF CInv
<1>22. UNCHANGED <<pid, pcb_pool, zombie_list>> /\ ~InitWaits'
  BY <1>1, <1>2, <1>11, AnswerTurn
<1>. QED  BY <1>4, <1>14, <1>16, <1>18, <1>19, <1>20, <1>21, <1>22, QueueTurn

(* A call that moves at most messages.                                     *)
LEMMA MoveTurn ==
  ASSUME NEW call, NEW arg, Turn(call, arg),
         UNCHANGED <<pid, pcb_pool, zombie_list, mqd, descrittori, last_mqd>>, ~InitWaits',
         CallsSucceed', CleanShutdown',
         NEW m, Then = Book(Now.queues, Now.open, Now.last, m, Now.family),
         DOMAIN messagequeues' = DOMAIN messagequeues,
         \A i \in DOMAIN messagequeues :
           /\ messagequeues'[i].type = messagequeues[i].type
           /\ messagequeues'[i].msg_size = messagequeues[i].msg_size
           /\ messagequeues'[i].users = messagequeues[i].users
           /\ program = "test" => messagequeues'[i].msg_num = m[i]
  PROVE  CInv'
<1>1. /\ PInv /\ Booked /\ UNCHANGED program
  BY Turns
<1>2. /\ Then.queues = Now.queues /\ Then.open = Now.open /\ Then.last = Now.last
      /\ Then.load = m /\ Then.family = Now.family
  BY BookFields
<1>3. mqd' \in [PCB -> Int] /\ (program # "test" => mqd'[0] = mqd[0])
  BY <1>1 DEF Booked, MqdsKnown
<1>4. Now' = Then
  BY <1>3, PageTurned
<1>5. QueuesAsBooked'
  BY <1>1, <1>2, <1>4 DEF Booked, QueuesAsBooked
<1>6. InitHolds'
  BY <1>1, <1>2, <1>4 DEF Booked, InitHolds
<1>7. \A i \in DOMAIN messagequeues' :
        messagequeues'[i].users = One(i \in Then.open) + One(Used(i))
  BY <1>1, <1>2 DEF Booked, UsersAre
<1>8. \A p \in PCB \ {0} : mqd'[p] = mqd[p] /\ descrittori'[p] = descrittori[p]
  OBVIOUS
<1>. QED  BY <1>2, <1>3, <1>5, <1>6, <1>7, <1>8, QueueTurn

(* The queues of disastrOS_test are never full when init sends, nor empty  *)
(* when it receives.                                                       *)
LEMMA InitSends ==
  ASSUME NEW id \in QueueIds, Turn("send", id)
  PROVE  CInv'
<1>. DEFINE m == [Now.load EXCEPT ![id] = @ + 1]
            q == [messagequeues[id] EXCEPT !.messages = Append(@, sent + 1), !.msg_num = @ + 1]
<1>1. /\ PInv /\ Booked /\ UNCHANGED <<program, code>>
      /\ Effect(program, Now, <<"send", id>>, Then)
      /\ Now \in Ledgers(program)
  BY Turns
<1>2. CInv /\ PInv' /\ running = 0
  BY DEF Turn
<1>3. /\ id \in Now.open /\ (program = "test" => Now.load[id] < 10)
      /\ Then = Book(Now.queues, Now.open, Now.last, m, Now.family)
  BY <1>1 DEF Effect, QueueEffect
<1>4. internal_mq_send(id, 5) /\ UNCHANGED mqd
  BY <1>2 DEF Turn, Makes
<1>5. Runs
  BY <1>4 DEF internal_mq_send, SendRefused, SendBlocks, Sends, SendDies, MaySend
<1>6. /\ descrittori[running][id] = id /\ HasMqd(id) /\ Queue(id) = messagequeues[id]
      /\ id \in DOMAIN messagequeues /\ messagequeues[id] \in QueueRecord
      /\ messagequeues[id].msg_size = 20
      /\ program = "test" => /\ messagequeues[id].msg_num = Now.load[id]
                             /\ messagequeues[id].max_msg = 10
  BY <1>1, <1>2, <1>3, <1>5, QueueOfInit
<1>7. program = "test" => SendError(id, 5) = NULL /\ ~Full(id)
  <2>1. ASSUME program = "test" PROVE SendError(id, 5) = NULL
    BY <1>6, <2>1 DEF SendError
  <2>2. ASSUME program = "test" PROVE Now.load[id] # 10
    BY <1>1, <1>3, <2>2 DEF Ledgers, Ids, QueueIds
  <2>. QED  BY <1>6, <2>1, <2>2 DEF Full
<1>8. ~SendDies(id, 5)
  BY <1>2 DEF SendDies, BlocksAlone, Stop, PInv, Survives
<1>9. CASE program # "test" /\ SendRefused(id, 5)
  <2>1. /\ Answers(SendError(id, 5)) /\ UNCHANGED mqVars
    BY <1>9 DEF SendRefused, Fails
  <2>2. CallsSucceed' /\ CleanShutdown'
    BY <1>1, <1>2, <1>9, <2>1, AnswersWell DEF CInv
  <2>3. UNCHANGED <<pid, pcb_pool, zombie_list>> /\ ~InitWaits'
    BY <1>1, <1>2, <2>1, AnswerTurn
  <2>4. UNCHANGED <<messagequeues, descrittori, last_mqd>>
    BY <2>1 DEF mqVars
  <2>. HIDE DEF m
  <2>. QED  BY <1>3, <1>4, <1>9, <2>2, <2>3, <2>4, MoveTurn
<1>10. CASE program # "test" /\ SendBlocks(id, 5)
  <2>1. Blocks(syscall_retvalue, DSOS_EMESSAGEQUEUEFULL)
    BY <1>10 DEF SendBlocks
  <2>2. /\ UNCHANGED <<pid, pcb_pool, zombie_list>> /\ ~InitWaits'
        /\ CallsSucceed' /\ CleanShutdown'
    BY <1>1, <1>2, <1>10, <2>1, BlocksTurn
  <2>3. UNCHANGED <<messagequeues, descrittori, last_mqd>>
    BY <2>1 DEF Blocks, mqVars
  <2>. HIDE DEF m
  <2>. QED  BY <1>3, <1>4, <1>10, <2>2, <2>3, MoveTurn
<1>11. CASE Sends(id, 5)
  <2>1. /\ Answers(0)
        /\ messagequeues' = [messagequeues EXCEPT ![id] = q]
        /\ UNCHANGED <<descrittori, last_mqd>>
    BY <1>6, <1>11 DEF Sends
  <2>2. CallsSucceed' /\ CleanShutdown'
    BY <1>1, <1>2, <2>1, AnswersWell DEF CInv
  <2>3. UNCHANGED <<pid, pcb_pool, zombie_list>> /\ ~InitWaits'
    BY <1>1, <1>2, <2>1, AnswerTurn
  <2>4. /\ q.type = messagequeues[id].type /\ q.msg_size = messagequeues[id].msg_size
        /\ q.users = messagequeues[id].users /\ q.msg_num = messagequeues[id].msg_num + 1
    BY <1>6 DEF QueueRecord
  <2>5. ASSUME program = "test", NEW i \in DOMAIN messagequeues
        PROVE  IF i = id THEN messagequeues[i].msg_num + 1 = m[i]
                         ELSE messagequeues[i].msg_num = m[i]
    BY <1>1, <1>6, <2>5 DEF Booked, QueuesAsBooked, Ledgers
  <2>. HIDE DEF m, q
  <2>6. /\ DOMAIN messagequeues' = DOMAIN messagequeues
        /\ \A i \in DOMAIN messagequeues : messagequeues'[i] = IF i = id THEN q ELSE messagequeues[i]
    BY <1>6, <2>1
  <2>7. \A i \in DOMAIN messagequeues :
          /\ messagequeues'[i].type = messagequeues[i].type
          /\ messagequeues'[i].msg_size = messagequeues[i].msg_size
          /\ messagequeues'[i].users = messagequeues[i].users
          /\ program = "test" => messagequeues'[i].msg_num = m[i]
    BY <2>4, <2>5, <2>6
  <2>. QED  BY <1>3, <1>4, <2>1, <2>2, <2>3, <2>6, <2>7, MoveTurn
<1>. QED  BY <1>4, <1>7, <1>8, <1>9, <1>10, <1>11
     DEF internal_mq_send, SendRefused, SendBlocks

LEMMA InitReceives ==
  ASSUME NEW id \in QueueIds, Turn("receive", id)
  PROVE  CInv'
<1>. DEFINE m == [Now.load EXCEPT ![id] = @ - 1]
            q == [messagequeues[id] EXCEPT !.messages = Tail(@), !.msg_num = @ - 1]
<1>1. /\ PInv /\ Booked /\ UNCHANGED <<program, code>>
      /\ Effect(program, Now, <<"receive", id>>, Then)
      /\ Now \in Ledgers(program)
  BY Turns
<1>2. CInv /\ PInv' /\ running = 0
  BY DEF Turn
<1>3. /\ id \in Now.open /\ program = "test" /\ Now.load[id] > 0
      /\ Then = Book(Now.queues, Now.open, Now.last, m, Now.family)
  BY <1>1 DEF Effect, QueueEffect
<1>4. internal_mq_receive(id, 20) /\ UNCHANGED mqd
  BY <1>2 DEF Turn, Makes
<1>5. Runs
  BY <1>4 DEF internal_mq_receive, ReceiveRefused, ReceiveBlocks, Receives, ReceiveDies, MayReceive
<1>6. /\ descrittori[running][id] = id /\ HasMqd(id) /\ Queue(id) = messagequeues[id]
      /\ id \in DOMAIN messagequeues /\ messagequeues[id] \in QueueRecord
      /\ messagequeues[id].msg_num = Now.load[id] /\ messagequeues[id].max_msg = 10
  BY <1>1, <1>2, <1>3, <1>5, QueueOfInit
<1>7. Receives(id, 20)
  <2>1. ReceiveError(id) = NULL
    BY <1>6 DEF ReceiveError
  <2>2. Queue(id).msg_num # 0
    BY <1>3, <1>6
  <2>. QED  BY <1>4, <2>1, <2>2 DEF internal_mq_receive, ReceiveRefused, ReceiveBlocks, ReceiveDies
<1>8. /\ Answers(0)
      /\ messagequeues' = [messagequeues EXCEPT ![id] = q]
      /\ UNCHANGED <<descrittori, last_mqd>>
  BY <1>6, <1>7 DEF Receives
<1>9. CallsSucceed' /\ CleanShutdown'
  BY <1>1, <1>2, <1>8, AnswersWell DEF CInv
<1>10. UNCHANGED <<pid, pcb_pool, zombie_list>> /\ ~InitWaits'
  BY <1>1, <1>2, <1>8, AnswerTurn
<1>11. /\ q.type = messagequeues[id].type /\ q.msg_size = messagequeues[id].msg_size
       /\ q.users = messagequeues[id].users /\ q.msg_num = messagequeues[id].msg_num - 1
  BY <1>6 DEF QueueRecord
<1>12. ASSUME NEW i \in DOMAIN messagequeues
       PROVE  IF i = id THEN messagequeues[i].msg_num - 1 = m[i]
                        ELSE messagequeues[i].msg_num = m[i]
  BY <1>1, <1>3, <1>6 DEF Booked, QueuesAsBooked, Ledgers
<1>. HIDE DEF m, q
<1>13. /\ DOMAIN messagequeues' = DOMAIN messagequeues
       /\ \A i \in DOMAIN messagequeues : messagequeues'[i] = IF i = id THEN q ELSE messagequeues[i]
  BY <1>6, <1>8
<1>14. \A i \in DOMAIN messagequeues :
         /\ messagequeues'[i].type = messagequeues[i].type
         /\ messagequeues'[i].msg_size = messagequeues[i].msg_size
         /\ messagequeues'[i].users = messagequeues[i].users
         /\ program = "test" => messagequeues'[i].msg_num = m[i]
  BY <1>11, <1>12, <1>13
<1>. QED  BY <1>3, <1>4, <1>8, <1>9, <1>10, <1>13, <1>14, MoveTurn

LEMMA InitCloses ==
  ASSUME NEW id \in QueueIds, Turn("close", id)
  PROVE  CInv'
<1>. DEFINE q == [messagequeues[id] EXCEPT !.users = @ - 1]
<1>1. /\ PInv /\ Booked /\ UNCHANGED <<program, code>> /\ 0 \in PCB
      /\ Effect(program, Now, <<"close", id>>, Then)
      /\ Now \in Ledgers(program)
  BY Turns
<1>2. CInv /\ PInv' /\ running = 0
  BY DEF Turn
<1>3. /\ id \in Now.open
      /\ Then = Book(Now.queues, Now.open \ {id}, Now.last, Now.load, Now.family)
  BY <1>1 DEF Effect, QueueEffect
<1>4. /\ Then.queues = Now.queues /\ Then.open = Now.open \ {id} /\ Then.last = Now.last
      /\ Then.load = Now.load /\ Then.family = Now.family
  BY <1>3, BookFields
<1>5. internal_mq_close(id) /\ UNCHANGED mqd
  BY <1>2 DEF Turn, Makes
<1>6. Runs
  BY <1>5 DEF internal_mq_close, CloseUnknown, Closes, Fails, Answers, Trap
<1>7. /\ descrittori[running][id] = id /\ HasMqd(id)
      /\ id \in DOMAIN messagequeues /\ messagequeues[id] \in QueueRecord
  BY <1>1, <1>2, <1>3, <1>6, QueueOfInit
<1>8. /\ Answers(0)
      /\ messagequeues' = [messagequeues EXCEPT ![id] = q]
      /\ descrittori' = [descrittori EXCEPT ![0] = Without(@, id)]
      /\ last_mqd' = last_mqd
  BY <1>2, <1>5, <1>7 DEF internal_mq_close, CloseUnknown, Closes
<1>9. CallsSucceed' /\ CleanShutdown'
  BY <1>1, <1>2, <1>8, AnswersWell DEF CInv
<1>10. UNCHANGED <<pid, pcb_pool, zombie_list>> /\ ~InitWaits'
  BY <1>1, <1>2, <1>8, AnswerTurn
<1>11. /\ q.type = messagequeues[id].type /\ q.msg_size = messagequeues[id].msg_size
       /\ q.users = messagequeues[id].users - 1 /\ q.msg_num = messagequeues[id].msg_num
  BY <1>7 DEF QueueRecord
<1>. HIDE DEF q
<1>12. /\ DOMAIN messagequeues' = DOMAIN messagequeues
       /\ \A i \in DOMAIN messagequeues : messagequeues'[i] = IF i = id THEN q ELSE messagequeues[i]
  BY <1>7, <1>8
<1>13. mqd' \in [PCB -> Int] /\ Now' = Then
  <2>1. mqd' \in [PCB -> Int]
    BY <1>1, <1>5 DEF Booked, MqdsKnown
  <2>. QED  BY <1>5, <2>1, PageTurned
<1>14. descrittori \in [PCB -> Tables(MaxMqd, MQIds)]
  BY <1>1 DEF PInv, MQInv, Accounted, MQTyped
<1>15. QueuesAsBooked'
  BY <1>1, <1>4, <1>11, <1>12, <1>13 DEF Booked, QueuesAsBooked
<1>16. InitHolds'
  <2>1. descrittori'[0] = Without(descrittori[0], id)
    BY <1>1, <1>8, <1>14
  <2>2. DOMAIN descrittori[0] = Now.open /\ \A i \in Now.open : descrittori[0][i] = i
    BY <1>1 DEF Booked, InitHolds
  <2>3. /\ DOMAIN descrittori'[0] = Now.open \ {id}
        /\ \A i \in Now.open \ {id} : descrittori'[0][i] = i
    BY <2>1, <2>2 DEF Without, Restrict
  <2>. QED  BY <1>1, <1>4, <1>8, <1>13, <2>3 DEF Booked, InitHolds
<1>17. \A i \in DOMAIN messagequeues' :
         messagequeues'[i].users = One(i \in Then.open) + One(Used(i))
  <2>1. \A i \in DOMAIN messagequeues :
          messagequeues[i].users = One(i \in Now.open) + One(Used(i))
    BY <1>1 DEF Booked, UsersAre
  <2>2. messagequeues'[id].users = One(id \in Then.open) + One(Used(id))
    <3>1. messagequeues[id].users = 1 + One(Used(id)) /\ One(Used(id)) \in Nat
      BY <1>3, <1>7, <2>1 DEF One
    <3>2. One(id \in Then.open) = 0
      BY <1>4 DEF One
    <3>3. messagequeues'[id].users = messagequeues[id].users - 1
      BY <1>7, <1>11, <1>12
    <3>. QED  BY <3>1, <3>2, <3>3
  <2>3. \A i \in DOMAIN messagequeues \ {id} : One(i \in Now.open) = One(i \in Then.open)
    BY <1>4 DEF One
  <2>4. \A i \in DOMAIN messagequeues \ {id} : messagequeues'[i].users = messagequeues[i].users
    BY <1>12
  <2>. QED  BY <1>12, <2>1, <2>2, <2>3, <2>4
<1>18. \A p \in PCB \ {0} : mqd'[p] = mqd[p] /\ descrittori'[p] = descrittori[p]
  BY <1>5, <1>8, <1>14
<1>. QED  BY <1>4, <1>5, <1>9, <1>10, <1>13, <1>15, <1>16, <1>17, <1>18, QueueTurn

(* A queue is unlinked when init has waited for all children: none is left *)
(* that has it open.                                                       *)
LEMMA InitUnlinks ==
  ASSUME NEW id \in QueueIds, Turn("unlink", id)
  PROVE  CInv'
<1>1. /\ PInv /\ Booked /\ UNCHANGED <<program, code>> /\ 0 \in PCB
      /\ Effect(program, Now, <<"unlink", id>>, Then)
      /\ Now \in Ledgers(program)
  BY Turns
<1>2. CInv /\ PInv' /\ running = 0
  BY DEF Turn
<1>3. /\ id \in Now.queues /\ id \notin Now.open /\ Now.family = 1
      /\ Then = Book(Now.queues \ {id}, Now.open, Now.last, Now.load, Now.family)
  BY <1>1 DEF Effect, QueueEffect
<1>4. /\ Then.queues = Now.queues \ {id} /\ Then.open = Now.open /\ Then.last = Now.last
      /\ Then.load = Now.load /\ Then.family = Now.family
  BY <1>3, BookFields
<1>5. internal_mq_unlink(id) /\ UNCHANGED mqd
  BY <1>2 DEF Turn, Makes
<1>6. ~Used(id)
  <2>1. ~InitWaits
    BY <1>1, <1>2 DEF InitWaits, PInv, MQInv, IInv, Placement
  <2>2. Cardinality(Others) <= 1
    BY <1>1, <1>3, <2>1 DEF Booked, FamilyCounted, One
  <2>. QED  BY <1>1, <2>2, NoneHolds DEF Used, Holds, IsChild
<1>7. id \in DOMAIN messagequeues /\ messagequeues[id].users = 0
  BY <1>1, <1>3, <1>6 DEF Booked, QueuesAsBooked, UsersAre, One
<1>8. /\ Answers(0)
      /\ messagequeues' = Without(messagequeues, id)
      /\ UNCHANGED <<descrittori, last_mqd>>
  BY <1>5, <1>7 DEF internal_mq_unlink, UnlinkUnknown, UnlinkInUse, Unlinks, Exists, InUse
<1>9. CallsSucceed' /\ CleanShutdown'
  BY <1>1, <1>2, <1>8, AnswersWell DEF CInv
<1>10. UNCHANGED <<pid, pcb_pool, zombie_list>> /\ ~InitWaits'
  BY <1>1, <1>2, <1>8, AnswerTurn
<1>11. /\ DOMAIN messagequeues' = DOMAIN messagequeues \ {id}
       /\ \A i \in DOMAIN messagequeues \ {id} : messagequeues'[i] = messagequeues[i]
  BY <1>8 DEF Without, Restrict
<1>12. mqd' \in [PCB -> Int] /\ Now' = Then
  <2>1. mqd' \in [PCB -> Int]
    BY <1>1, <1>5 DEF Booked, MqdsKnown
  <2>. QED  BY <1>5, <2>1, PageTurned
<1>13. QueuesAsBooked'
  BY <1>1, <1>4, <1>11, <1>12 DEF Booked, QueuesAsBooked
<1>14. InitHolds'
  BY <1>1, <1>4, <1>8, <1>12 DEF Booked, InitHolds
<1>15. \A i \in DOMAIN messagequeues' :
         messagequeues'[i].users = One(i \in Then.open) + One(Used(i))
  BY <1>1, <1>4, <1>11 DEF Booked, UsersAre
<1>16. \A p \in PCB \ {0} : mqd'[p] = mqd[p] /\ descrittori'[p] = descrittori[p]
  BY <1>5, <1>8
<1>. QED  BY <1>4, <1>5, <1>9, <1>10, <1>12, <1>13, <1>14, <1>15, <1>16, QueueTurn

(* Init waits for a child: it finds one that has ended, or will be given   *)
(* one that ends.  Either way it is off the books.                         *)
LEMMA WaitTurn ==
  ASSUME NEW call, NEW arg, Turn(call, arg), UNCHANGED <<mqVars, mqd>>,
         Then = SameBut(Now, Then.family)
  PROVE  /\ MqdsKnown' /\ Now' = Then
         /\ QueuesAsBooked' /\ InitHolds'
<1>1. PInv /\ Booked /\ UNCHANGED program
  BY Turns
<1>2. /\ Then.queues = Now.queues /\ Then.open = Now.open /\ Then.last = Now.last
      /\ Then.load = Now.load
  <2>. DEFINE f == Then.family
  <2>1. Then = Book(Now.queues, Now.open, Now.last, Now.load, f)
    BY DEF SameBut
  <2>. HIDE DEF f
  <2>. QED  BY <2>1, BookFields
<1>3. Now' = Then /\ MqdsKnown'
  BY <1>1, PageTurned DEF Booked, MqdsKnown
<1>4. UNCHANGED <<messagequeues, descrittori, last_mqd>>
  BY DEF mqVars
<1>. QED  BY <1>1, <1>2, <1>3, <1>4 DEF Booked, QueuesAsBooked, InitHolds

LEMMA WaitEffect ==
  ASSUME Turn("wait", 0)
  PROVE  /\ Now.family \in Nat /\ Now.family >= 2 /\ Stocked(program, Now)
         /\ Then = SameBut(Now, Then.family) /\ Then.family = Now.family - 1
         /\ Then.open = Now.open /\ Stocked(program, Then)
<1>1. /\ Effect(program, Now, <<"wait", 0>>, Then) /\ Now \in Ledgers(program)
  BY Turns
<1>2. Now.family >= 2 /\ Then = SameBut(Now, Now.family - 1)
  BY <1>1 DEF Effect, QueueEffect
<1>3. Then.queues = Now.queues /\ Then.open = Now.open /\ Then.family = Now.family - 1
  <2>. DEFINE f == Now.family - 1
  <2>1. Then = Book(Now.queues, Now.open, Now.last, Now.load, f)
    BY <1>2 DEF SameBut
  <2>. HIDE DEF f
  <2>2. Then.queues = Now.queues /\ Then.open = Now.open /\ Then.family = f
    BY <2>1, BookFields
  <2>. QED  BY <2>2 DEF f
<1>4. Now.family \in Nat /\ Stocked(program, Now)
  BY <1>1, <1>2 DEF Ledgers
<1>. QED  BY <1>2, <1>3, <1>4 DEF Stocked

LEMMA InitWaitsFor ==
  ASSUME Turn("wait", 0)
  PROVE  CInv'
<1>1. /\ PInv /\ Booked /\ FunctionsTyped /\ 0 \in PCB /\ UNCHANGED <<program, code>>
      /\ \A p \in PCB \ {0} : pc'[p] = pc[p]
  BY Turns
<1>2. CInv /\ PInv' /\ running = 0
  BY DEF Turn
<1>3. internal_wait(0) /\ UNCHANGED mqVars /\ UNCHANGED mqd
  BY <1>2 DEF Turn, Makes
<1>4. /\ Now.family \in Nat /\ Now.family >= 2 /\ Stocked(program, Now)
      /\ Then = SameBut(Now, Then.family) /\ Then.family = Now.family - 1
      /\ Then.open = Now.open /\ Stocked(program, Then)
  BY WaitEffect
<1>5. /\ MqdsKnown' /\ Now' = Then /\ QueuesAsBooked' /\ InitHolds'
  BY <1>3, <1>4, WaitTurn
<1>6. UNCHANGED <<messagequeues, descrittori>>
  BY <1>3 DEF mqVars
<1>7. /\ IsFiniteSet(Others) /\ Cardinality(Others) = Now.family /\ ToSet(children[0]) = Others
      /\ 0 \notin Others /\ Others \subseteq PCB /\ Allocated = Others \cup {0}
  <2>1. ~InitWaits
    BY <1>1, <1>2 DEF InitWaits, PInv, MQInv, IInv, Placement
  <2>. QED  BY <1>1, <1>4, <2>1, OthersFinite DEF Booked, FamilyCounted, One
<1>8. children[0] \in Seq(PCB) /\ children[0] # <<>>
  <2>1. Others # {}
    BY <1>4, <1>7, FS_EmptySet
  <2>2. children[0] # <<>>
    BY <1>7, <2>1, EmptyList
  <2>. QED  BY <1>1, <2>2 DEF PInv, MQInv, IInv, TypeOK
<1>9. Stocked(program, Now)' <=> Stocked(program, Then)
  BY <1>1, <1>5 DEF Stocked, Ids
<1>10. CASE WaitReaps(0)
  <2>. DEFINE dead == Awaited(0)
  <2>1. dead \in Others /\ dead \in PCB /\ dead # 0
    BY <1>2, <1>7, <1>8, AwaitedIsAChild
  <2>2. /\ status[dead] = "Zombie" /\ zombie_list' = zombie_list \ {dead}
        /\ pcb_pool' = Cons(dead, pcb_pool)
        /\ syscall_retvalue' = [syscall_retvalue EXCEPT ![0] = pid[dead]]
        /\ UNCHANGED <<machine, pid, waiting_list>> /\ Runs
    BY <1>2, <1>10 DEF WaitReaps, Trap, Return
  <2>. HIDE DEF dead
  <2>3. dead \in zombie_list
    BY <1>1, <2>1, <2>2 DEF PInv, MQInv, IInv, StatusAgrees, Others, Allocated
  <2>4. Others' = Others \ {dead}
    <3>1. pcb_pool \in Seq(PCB)
      BY <1>1 DEF PInv, MQInv, IInv, TypeOK
    <3>2. ToSet(Cons(dead, pcb_pool)) = ToSet(pcb_pool) \cup {dead}
      BY <2>1, <3>1, InsertFirst
    <3>. QED  BY <2>2, <3>2 DEF Others, Allocated
  <2>5. Cardinality(Others') = Then.family
    BY <1>4, <1>7, <2>1, <2>4, FS_RemoveElement
  <2>6. FamilyCounted'
    <3>1. ~InitWaits'
      BY <1>1, <1>2, <2>2 DEF InitWaits, PInv, MQInv, IInv, Placement
    <3>2. One(InitWaits)' = 0 /\ Then.family \in Nat
      BY <1>4, <3>1 DEF One
    <3>. QED  BY <1>4, <1>5, <1>9, <2>5, <3>2 DEF FamilyCounted
  <2>7. ~Holds(dead)
    BY <1>1, <2>3 DEF Booked, ChildrenHold
  <2>8. ASSUME NEW p \in PCB PROVE (Holds(p))' <=> Holds(p)
    <3>1. LastUse' = LastUse
      BY <1>1 DEF LastUse
    <3>2. p # dead => (IsChild(p)' <=> IsChild(p))
      BY <1>1, <2>4 DEF IsChild
    <3>3. p = dead => ~IsChild(p)'
      BY <2>4 DEF IsChild
    <3>4. IsChild(p) => pc'[p] = pc[p]
      BY <1>1, <1>7 DEF IsChild
    <3>. QED  BY <2>7, <3>1, <3>2, <3>3, <3>4, Zenon DEF Holds
  <2>9. \A p \in PCB : QueueOf(p)' = QueueOf(p)
    BY <1>1, <2>2 DEF QueueOf
  <2>10. ChildrenHold'
    <3>1. ASSUME NEW p \in Others'
          PROVE  IF (Holds(p))' THEN /\ DOMAIN descrittori'[p] = {mqd'[p]}
                                     /\ descrittori'[p][mqd'[p]] = QueueOf(p)'
                                ELSE DOMAIN descrittori'[p] = {}
      <4>1. p \in Others /\ p \in PCB
        BY <1>7, <2>4
      <4>2. IF Holds(p) THEN DOMAIN descrittori[p] = {mqd[p]} /\ descrittori[p][mqd[p]] = QueueOf(p)
                        ELSE DOMAIN descrittori[p] = {}
        BY <1>1, <4>1 DEF Booked, ChildrenHold
      <4>. HIDE DEF Holds, QueueOf
      <4>. QED  BY <1>3, <1>6, <2>8, <2>9, <4>1, <4>2
    <3>2. \A p \in zombie_list' : (~Holds(p))'
      <4>1. zombie_list' \subseteq zombie_list /\ zombie_list \subseteq PCB
        BY <1>1, <2>2 DEF PInv, MQInv, IInv, TypeOK
      <4>. QED  BY <1>1, <2>8, <4>1 DEF Booked, ChildrenHold
    <3>. QED  BY <3>1, <3>2 DEF ChildrenHold
  <2>11. UsersAre'
    <3>1. \A id : Used(id)' <=> Used(id)
      BY <2>8, <2>9 DEF Used
    <3>. QED  BY <1>1, <1>4, <1>5, <1>6, <3>1 DEF Booked, UsersAre, One
  <2>12. CallsSucceed' /\ CleanShutdown'
    <3>1. syscall_retvalue \in [PCB -> Int] /\ pid[dead] \in Nat
      BY <1>1, <2>1 DEF PInv, MQInv, IInv, TypeOK
    <3>. QED  BY <1>1, <1>2, <2>2, <3>1 DEF CInv, CallsSucceed, CleanShutdown, Runs
  <2>. QED  BY <1>2, <1>5, <2>6, <2>10, <2>11, <2>12 DEF CInv, Booked
<1>11. CASE WaitBlocks(0)
  <2>1. /\ waiting_list' = waiting_list \cup {0}
        /\ wait_arg' = [wait_arg EXCEPT ![0] = 0]
        /\ UNCHANGED <<machine, pid, pcb_pool, zombie_list, syscall_retvalue>> /\ Runs
    BY <1>2, <1>11 DEF WaitBlocks, Trap, Block, pcbVars, poolVars
  <2>2. InitWaits'
    <3>1. wait_arg'[0] = 0
      BY <1>1, <2>1 DEF PInv, MQInv, IInv, TypeOK
    <3>. QED  BY <2>1, <3>1, NullIsNoPCB, <1>1 DEF InitWaits
  <2>3. ChildrenSame
    BY <1>1, <1>3, <1>6, <2>1 DEF ChildrenSame
  <2>4. ChildrenHold' /\ Others' = Others /\ \A id : Used(id)' <=> Used(id)
    BY <1>1, <2>3, ChildrenStay DEF Booked
  <2>5. FamilyCounted'
    <3>1. One(InitWaits)' = 1
      BY <2>2 DEF One
    <3>. QED  BY <1>4, <1>5, <1>7, <1>9, <2>4, <3>1 DEF FamilyCounted
  <2>6. UsersAre'
    BY <1>1, <1>4, <1>5, <1>6, <2>4 DEF Booked, UsersAre, One
  <2>7. CallsSucceed' /\ CleanShutdown'
    BY <1>1, <1>2, <2>1 DEF CInv, CallsSucceed, CleanShutdown, Runs
  <2>. QED  BY <1>2, <1>5, <2>4, <2>5, <2>6, <2>7 DEF CInv, Booked
<1>12. ~WaitDies(0)
  BY <1>2 DEF WaitDies, Stop, PInv, Survives
<1>13. ~WaitWithoutChildren(0)
  BY <1>2, <1>8 DEF WaitWithoutChildren
<1>. QED  BY <1>3, <1>10, <1>11, <1>12, <1>13 DEF internal_wait

(* At the shutdown the sleeper alone is left, which has no timer.          *)
LEMMA InitShutsDown ==
  ASSUME Turn("shutdown", 0)
  PROVE  CInv'
<1>1. /\ PInv /\ Booked /\ FunctionsTyped /\ 0 \in PCB /\ UNCHANGED <<program, code>>
      /\ pc'[0] = pc[0] + 1 /\ pc[0] \in Nat
      /\ \A p \in PCB \ {0} : pc'[p] = pc[p]
      /\ Effect(program, Now, <<"shutdown", 0>>, Then)
      /\ Now \in Ledgers(program) /\ Then \in Ledgers(program)
  BY Turns
<1>2. CInv /\ PInv' /\ running = 0
  BY DEF Turn
<1>3. Now.queues = {} /\ Now.family = 1 /\ Then = Now
  BY <1>1 DEF Effect, QueueEffect
<1>4. internal_shutdown /\ UNCHANGED mqVars /\ UNCHANGED mqd
  BY <1>2 DEF Turn, Makes
<1>5. UNCHANGED <<messagequeues, descrittori, last_mqd, descrittore_free, message_free>>
  BY <1>4 DEF mqVars
<1>6. UNCHANGED <<pid, pcb_pool, zombie_list, waiting_list, wait_arg, syscall_retvalue, timer_list>>
  BY <1>4 DEF internal_shutdown, Stop, pcbVars, poolVars, schedVars, callVars
<1>7. mqd' \in [PCB -> Int] /\ Now' = Then
  <2>1. mqd' \in [PCB -> Int]
    BY <1>1, <1>4 DEF Booked, MqdsKnown
  <2>. QED  BY <1>4, <2>1, PageTurned
<1>8. ~InitWaits' /\ ~InitWaits
  BY <1>1, <1>2, <1>6 DEF InitWaits, PInv, MQInv, IInv, Placement
<1>9. QueuesAsBooked' /\ InitHolds'
  BY <1>1, <1>3, <1>5, <1>7 DEF Booked, QueuesAsBooked, InitHolds
<1>10. \A i \in DOMAIN messagequeues' :
         messagequeues'[i].users = One(i \in Then.open) + One(Used(i))
  BY <1>1, <1>3, <1>5 DEF Booked, UsersAre
<1>11. DOMAIN messagequeues = {} /\ messagequeues = <<>>
  <2>1. DOMAIN messagequeues = {} /\ messagequeues = [i \in DOMAIN messagequeues |-> messagequeues[i]]
    BY <1>1, <1>3 DEF Booked, QueuesAsBooked, PInv, MQInv, Accounted, MQTyped
  <2>2. messagequeues = [i \in {} |-> messagequeues[i]]
    BY <2>1
  <2>3. <<>> = [i \in {} |-> messagequeues[i]]
    OBVIOUS
  <2>. QED  BY <2>1, <2>2, <2>3
<1>12. message_free = MAX_NUM_MESSAGES /\ descrittore_free = MAX_NUM_PROCESSES
  <2>1. /\ message_free \in Nat /\ descrittore_free \in Nat
        /\ descrittore_free + UsersSum = MAX_NUM_PROCESSES
        /\ message_free + LengthsSum = MAX_NUM_MESSAGES
    BY <1>1, Accounts DEF PInv, MQInv, Accounted, MQTyped
  <2>2. UsersSum = 0 /\ LengthsSum = 0
    BY <1>11, SumEmpty DEF UsersSum, LengthsSum
  <2>. QED  BY <2>1, <2>2
<1>13. timer_list = <<>>
  <2>1. Cardinality(Others) = 1 /\ IsFiniteSet(Others) /\ Allocated = Others \cup {0}
    BY <1>1, <1>3, <1>8, OthersFinite DEF Booked, FamilyCounted, One
  <2>2. pc[0] # 0
    <3>1. Others # {}
      BY <2>1, FS_EmptySet
    <3>. QED  BY <1>1, <3>1 DEF PInv, SleeperReady, Others
  <2>3. PICK s \in Others : s \notin waiting_list
    BY <1>1, <2>2, SleeperThere
  <2>4. PICK x : Others = {x}
    BY <2>1, FS_Singleton
  <2>5. waiting_list = {}
    <3>1. 0 \notin waiting_list /\ waiting_list \subseteq Allocated
      BY <1>1, <1>2 DEF PInv, MQInv, IInv, Placement, TypeOK, Allocated
    <3>. QED  BY <2>1, <2>3, <2>4, <3>1
  <2>6. timer_list \in Seq(Timer)
    BY <1>1 DEF PInv, MQInv, IInv, TypeOK
  <2>7. Len(timer_list) \in Nat /\ (Len(timer_list) = 0 => timer_list = <<>>)
    BY <2>6, Members
  <2>8. 1 \notin 1 .. Len(timer_list)
    <3>1. {timer_list[i].pcb : i \in 1 .. Len(timer_list)} = {}
      BY <1>1, <2>5 DEF PInv, MQInv, IInv, TimersMatchSleepers
    <3>. QED  BY <3>1
  <2>. QED  BY <2>7, <2>8
<1>14. CallsSucceed' /\ CleanShutdown'
  BY <1>1, <1>2, <1>5, <1>6, <1>11, <1>12, <1>13 DEF CInv, CallsSucceed, CleanShutdown
<1>15. /\ program # "test" => mqd'[0] = mqd[0]
       /\ \A p \in PCB \ {0} : mqd'[p] = mqd[p] /\ descrittori'[p] = descrittori[p]
  BY <1>4, <1>5
<1>. QED  BY <1>3, <1>6, <1>7, <1>8, <1>9, <1>10, <1>14, <1>15, QueueTurn

(* Init spawns a process, which has no queue open.                         *)
LEMMA InitSpawns ==
  ASSUME CInv, PInv', running = 0, pc[0] < Len(Calls(0)), NEW f, NextCall(0) = <<"spawn", f>>,
         Spawns(f)
  PROVE  CInv'
<1>. DEFINE new == Head(pcb_pool)
<1>1. PInv /\ Booked /\ FunctionsTyped /\ MqdsKnown
  BY DEF CInv, PInv, Booked
<1>2. /\ Effect(program, Now, <<"spawn", f>>, Then)
      /\ Now \in Ledgers(program) /\ Then \in Ledgers(program)
  <2>. HIDE DEF NextCall
  <2>. QED  BY <1>1, NextEffect
<1>3. Then = SameBut(Now, Now.family + 1) /\ Now.family \in Nat
  BY <1>2 DEF Effect, QueueEffect, Ledgers
<1>4. /\ Then.queues = Now.queues /\ Then.open = Now.open /\ Then.last = Now.last
      /\ Then.load = Now.load /\ Then.family = Now.family + 1
  <2>. DEFINE n == Now.family + 1
  <2>1. Then = Book(Now.queues, Now.open, Now.last, Now.load, n)
    BY <1>3 DEF SameBut
  <2>. HIDE DEF n
  <2>2. /\ Then.queues = Now.queues /\ Then.open = Now.open /\ Then.last = Now.last
        /\ Then.load = Now.load /\ Then.family = n
    BY <2>1, BookFields
  <2>. QED  BY <2>2 DEF n
<1>5. /\ internal_spawn /\ NewDescrittori
      /\ code' = [code EXCEPT ![new] = f]
      /\ pc' = [pc EXCEPT ![new] = 0, ![0] = @ + 1]
      /\ UNCHANGED <<program, mqd>>
  <2>1. ~NewProcessDies
    BY DEF NewProcessDies, Stop, PInv, Survives
  <2>. QED  BY <2>1 DEF Spawns
<1>6. /\ NewProcess
      /\ pid' = [pid EXCEPT ![new] = last_pid]
      /\ syscall_retvalue' = [syscall_retvalue EXCEPT ![0] = last_pid]
      /\ wait_arg' = [wait_arg EXCEPT ![0] = NULL]
      /\ UNCHANGED <<machine, running, waiting_list, zombie_list>> /\ Runs
  BY <1>5 DEF internal_spawn, NewProcess, PCB_alloc, Return, Trap
<1>7. /\ new \in PCB /\ new \notin Allocated /\ Allocated' = Allocated \cup {new}
  BY <1>1, <1>6, NewBlock DEF PInv, MQInv, Allocated
<1>8. /\ 0 \in PCB /\ 0 \in Allocated /\ new # 0 /\ Others \subseteq PCB /\ 0 \notin Others
      /\ IsFiniteSet(Others) /\ Cardinality(Others) \in Nat
      /\ new \notin Others /\ Others' = Others \cup {new}
  BY <1>1, <1>7, OthersFinite DEF Others
<1>9. /\ \A p \in PCB \ {new} : code'[p] = code[p] /\ pid'[p] = pid[p]
      /\ \A p \in PCB \ {0, new} : pc'[p] = pc[p]
      /\ pc'[new] = 0 /\ pc'[0] = pc[0] + 1
  <2>1. code \in [PCB -> Functions] /\ pid \in [PCB -> Nat] /\ pc \in [PCB -> Nat]
    BY <1>1 DEF FunctionsTyped, PInv, MQInv, IInv, TypeOK
  <2>2. \A p \in PCB \ {new} : code'[p] = code[p] /\ pid'[p] = pid[p]
    BY <1>5, <1>6, <2>1
  <2>3. /\ \A p \in PCB \ {0, new} : pc'[p] = pc[p]
        /\ pc'[new] = 0 /\ pc'[0] = pc[0] + 1
    BY <1>5, <1>7, <1>8, <2>1
  <2>. QED  BY <2>2, <2>3
<1>10. /\ \A p \in PCB \ {new} : descrittori'[p] = descrittori[p] /\ last_mqd'[p] = last_mqd[p]
       /\ descrittori'[new] = <<>>
       /\ messagequeues' = messagequeues
  BY <1>1, <1>5, <1>7 DEF NewDescrittori, PInv, MQInv, Accounted, MQTyped
<1>. HIDE DEF new
<1>11. MqdsKnown' /\ Now' = Then
  <2>1. BooksSame
    BY <1>5, <1>8, <1>9 DEF BooksSame
  <2>. QED  BY <1>1, <1>5, <1>9, <2>1, NextPage, MqdsStay DEF MqdsKnown
<1>12. QueuesAsBooked' /\ InitHolds'
  BY <1>1, <1>4, <1>5, <1>8, <1>10, <1>11 DEF Booked, QueuesAsBooked, InitHolds
<1>13. ~InitWaits /\ ~InitWaits'
  BY <1>1, <1>6 DEF InitWaits, PInv, MQInv, IInv, Placement
<1>14. FamilyCounted'
  <2>1. Cardinality(Others') = Now.family + 1
    <3>1. Cardinality(Others \cup {new}) = Cardinality(Others) + 1
      BY <1>8, FS_AddElement
    <3>2. Cardinality(Others) = Now.family
      BY <1>1, <1>3, <1>13 DEF Booked, FamilyCounted, One
    <3>. QED  BY <1>8, <3>1, <3>2
  <2>2. Then.family >= 2 => Stocked(program, Then)
    BY <1>2 DEF Ledgers
  <2>3. Stocked(program, Now)' <=> Stocked(program, Then)
    BY <1>5, <1>11 DEF Stocked, Ids
  <2>4. One(InitWaits)' = 0
    BY <1>13 DEF One
  <2>. QED  BY <1>3, <1>4, <1>11, <2>1, <2>2, <2>3, <2>4 DEF FamilyCounted
<1>15. ASSUME NEW p \in PCB, p = new PROVE ~Holds(p) /\ ~(Holds(p))'
  <2>1. ~Holds(p)
    BY <1>8, <1>15 DEF Holds, IsChild
  <2>2. pc'[p] = 0 /\ LastUse' = LastUse /\ 0 \notin 1 .. LastUse
    BY <1>5, <1>9, <1>15, TestProgramsAssumption DEF LastUse
  <2>. QED  BY <2>1, <2>2 DEF Holds
<1>16. ASSUME NEW p \in PCB, p # new
       PROVE  ((Holds(p))' <=> Holds(p)) /\ QueueOf(p)' = QueueOf(p)
  <2>1. LastUse' = LastUse
    BY <1>5 DEF LastUse
  <2>2. IsChild(p)' <=> IsChild(p)
    BY <1>8, <1>9, <1>16 DEF IsChild
  <2>3. IsChild(p) => pc'[p] = pc[p]
    BY <1>8, <1>9, <1>16 DEF IsChild
  <2>4. QueueOf(p)' = QueueOf(p)
    BY <1>5, <1>9, <1>16 DEF QueueOf
  <2>. QED  BY <2>1, <2>2, <2>3, <2>4, Zenon DEF Holds
<1>17. ChildrenHold'
  <2>1. ASSUME NEW p \in Others'
        PROVE  IF (Holds(p))' THEN /\ DOMAIN descrittori'[p] = {mqd'[p]}
                                   /\ descrittori'[p][mqd'[p]] = QueueOf(p)'
                              ELSE DOMAIN descrittori'[p] = {}
    <3>1. CASE p = new
      <4>1. DOMAIN descrittori'[p] = {}
        BY <1>10, <3>1
      <4>2. ~(Holds(p))'
        BY <1>7, <1>15, <3>1
      <4>. QED  BY <4>1, <4>2
    <3>2. CASE p # new
      <4>1. p \in Others /\ p \in PCB
        BY <1>8, <3>2
      <4>2. IF Holds(p) THEN DOMAIN descrittori[p] = {mqd[p]} /\ descrittori[p][mqd[p]] = QueueOf(p)
                        ELSE DOMAIN descrittori[p] = {}
        BY <1>1, <4>1 DEF Booked, ChildrenHold
      <4>. HIDE DEF Holds, QueueOf
      <4>. QED  BY <1>5, <1>10, <1>16, <3>2, <4>1, <4>2
    <3>. QED  BY <3>1, <3>2
  <2>2. \A p \in zombie_list' : (~Holds(p))'
    <3>1. zombie_list' = zombie_list /\ zombie_list \subseteq PCB
      BY <1>1, <1>6 DEF PInv, MQInv, IInv, TypeOK
    <3>. QED  BY <1>1, <1>15, <1>16, <3>1 DEF Booked, ChildrenHold
  <2>. QED  BY <2>1, <2>2 DEF ChildrenHold
<1>18. UsersAre'
  <2>1. \A id : Used(id)' <=> Used(id)
    BY <1>15, <1>16 DEF Used
  <2>. QED  BY <1>1, <1>4, <1>10, <1>11, <2>1 DEF Booked, UsersAre, One
<1>19. CallsSucceed' /\ CleanShutdown'
  <2>1. syscall_retvalue \in [PCB -> Int] /\ last_pid \in Nat
    BY <1>1 DEF PInv, MQInv, IInv, TypeOK
  <2>. QED  BY <1>5, <1>6, <2>1 DEF CInv, CallsSucceed, CleanShutdown, Runs
<1>. QED  BY <1>11, <1>12, <1>14, <1>17, <1>18, <1>19 DEF CInv, Booked

LEMMA InitStepCInv ==
  ASSUME CInv, Step(0)
  PROVE  CInv'
<1>. DEFINE c == NextCall(0)
<1>1. PInv /\ PInv' /\ FunctionsTyped /\ MqdsKnown /\ 0 \in PCB
  BY InitStep, OthersFinite DEF CInv, PInv, Booked
<1>2. /\ running = 0 /\ pc[0] < Len(Calls(0))
      /\ \/ c[1] = "spawn" /\ Spawns(c[2])
         \/ Makes(c[1], c[2]) /\ pc' = [pc EXCEPT ![0] = @ + 1]
  BY DEF Step, NextCall
<1>3. c \in SpawnCalls \cup QuietCalls(QueueIds, QueueIds)
  <2>1. c \in KnownCalls(program) /\ Ids(program) = QueueIds
    BY <1>1, <1>2, NextEffect DEF Ids, QueueIds
  <2>. QED  BY <2>1 DEF KnownCalls
<1>. HIDE DEF c
<1>4. CASE c \in SpawnCalls
  <2>1. c[1] = "spawn" /\ c = <<"spawn", c[2]>>
    BY <1>4 DEF SpawnCalls
  <2>2. Spawns(c[2])
    BY <1>2, <2>1 DEF Makes
  <2>3. NextCall(0) = <<"spawn", c[2]>>
    BY <2>1 DEF c
  <2>. QED  BY <1>1, <1>2, <2>2, <2>3, InitSpawns
<1>5. CASE c \in QuietCalls(QueueIds, QueueIds)
  <2>1. c[1] # "spawn" /\ c = <<c[1], c[2]>>
    BY <1>5 DEF QuietCalls
  <2>2. Turn(c[1], c[2])
    <3>1. NextCall(0) = <<c[1], c[2]>>
      BY <2>1 DEF c
    <3>. QED  BY <1>1, <1>2, <2>1, <3>1 DEF Turn
  <2>3. \/ c[1] \in {"create", "send", "receive", "close", "unlink"} /\ c[2] \in QueueIds
        \/ c[1] = "wait" /\ c[2] = 0
        \/ c[1] = "shutdown" /\ c[2] = 0
    BY <1>5 DEF QuietCalls
  <2>. QED  BY <2>2, <2>3, InitCreates, InitSends, InitReceives, InitCloses, InitUnlinks,
            InitWaitsFor, InitShutsDown
<1>. QED  BY <1>3, <1>4, <1>5

-----------------------------------------------------------------------------
(* The calls of a child: it opens its queue first, closes it after its     *)
(* last use, and sleeps before it exits.                                   *)
LEMMA ClosedAfter ==
  ASSUME NEW C, NEW f \in Seq(C), NEW c \in C, NEW naps \in Seq(C), NEW z, NEW e \in C,
         \A i \in 1 .. Len(naps) : naps[i] = z,
         NEW k \in 1 .. Len(f \o <<c>> \o naps \o <<e>>)
  PROVE  LET call == (f \o <<c>> \o naps \o <<e>>)[k]
         IN  /\ k <= Len(f) => call = f[k]
             /\ k = Len(f) + 1 => call = c
             /\ k > Len(f) + 1 => call \in {z, e}
<1>. DEFINE s1 == f \o <<c>>
            s2 == s1 \o naps
            s3 == s2 \o <<e>>
<1>1. <<c>> \in Seq(C) /\ <<e>> \in Seq(C) /\ Len(<<c>>) = 1 /\ Len(<<e>>) = 1
  OBVIOUS
<1>2. /\ s1 \in Seq(C) /\ Len(s1) = Len(f) + 1 /\ Len(f) \in Nat
      /\ \A i \in 1 .. Len(f) + 1 : s1[i] = IF i <= Len(f) THEN f[i] ELSE <<c>>[i - Len(f)]
  BY <1>1, ConcatProperties, LenProperties
<1>. HIDE DEF s1
<1>3. /\ s2 \in Seq(C) /\ Len(s2) = Len(s1) + Len(naps) /\ Len(naps) \in Nat
      /\ \A i \in 1 .. Len(s1) + Len(naps) :
           s2[i] = IF i <= Len(s1) THEN s1[i] ELSE naps[i - Len(s1)]
  <2>1. s1 \in Seq(C) /\ Len(naps) \in Nat
    BY <1>2, LenProperties
  <2>. QED  BY <2>1, ConcatProperties
<1>. HIDE DEF s2
<1>4. /\ Len(s3) = Len(s2) + 1
      /\ \A i \in 1 .. Len(s2) + 1 : s3[i] = IF i <= Len(s2) THEN s2[i] ELSE <<e>>[i - Len(s2)]
  BY <1>1, <1>3, ConcatProperties
<1>. HIDE DEF s3
<1>5. Len(s2) \in Nat /\ k \in 1 .. Len(s2) + 1
  <2>1. Len(s2) \in Nat
    BY <1>3, LenProperties
  <2>. QED  BY <1>4, <2>1 DEF s3, s2, s1
<1>6. k <= Len(f) => s3[k] = f[k]
  BY <1>2, <1>3, <1>4, <1>5
<1>7. k = Len(f) + 1 => s3[k] = c
  BY <1>2, <1>3, <1>4, <1>5
<1>8. k > Len(f) + 1 => s3[k] \in {z, e}
  <2>1. CASE k <= Len(s2)
    <3>1. k > Len(f) + 1 => k - Len(s1) \in 1 .. Len(naps) /\ s3[k] = naps[k - Len(s1)]
      BY <1>2, <1>3, <1>4, <1>5, <2>1
    <3>. QED  BY <3>1
  <2>2. CASE k > Len(s2)
    <3>1. k = Len(s2) + 1
      BY <1>5, <2>2
    <3>2. k - Len(s2) = 1 /\ s3[k] = <<e>>[k - Len(s2)]
      BY <1>4, <1>5, <3>1
    <3>. QED  BY <3>2
  <2>. QED  BY <1>2, <1>3, <1>5, <2>1, <2>2
<1>. QED  BY <1>6, <1>7, <1>8 DEF s3, s2, s1

LEMMA ChildCallAt ==
  ASSUME FunctionsTyped, NEW p \in PCB, pid[p] \in Nat, NEW k \in 1 .. Len(Child(p))
  PROVE  /\ k = 1 => Child(p)[k] = <<"open", QueueOf(p)>>
         /\ k \in 2 .. LastUse => program # "test" /\ Child(p)[k] = <<"receive", mqd[p]>>
         /\ k = LastUse + 1 => Child(p)[k] = <<"close", mqd[p]>>
         /\ k > LastUse + 1 => Child(p)[k] \in {<<"sleep", 2>>, <<"exit", 0>>}
<1>. DEFINE C == ChildCalls({QueueOf(p), mqd[p]})
            o == <<"open", QueueOf(p)>>
            r == <<"receive", mqd[p]>>
            c == <<"close", mqd[p]>>
            z == <<"sleep", 2>>
            e == <<"exit", 0>>
            naps == Repeat(pid[p] + 1, z)
            f == IF program = "test" THEN <<o>> ELSE <<o>> \o Repeat(NumMessages, r)
<1>1. o \in C /\ r \in C /\ c \in C /\ z \in C /\ e \in C
  BY DEF ChildCalls
<1>2. Child(p) = f \o <<c>> \o naps \o <<e>>
  BY DEF Child, Close, QueueOf
<1>3. NumMessages \in Nat /\ pid[p] + 1 \in Nat
  BY TestProgramsAssumption
<1>. HIDE DEF C, o, r, c, z, e
<1>4. naps \in Seq(C) /\ \A i \in 1 .. Len(naps) : naps[i] = z
  <2>1. naps \in Seq(C) /\ Len(naps) = pid[p] + 1
    BY <1>1, <1>3, Repeated
  <2>. QED  BY <2>1 DEF Repeat
<1>5. /\ f \in Seq(C) /\ Len(f) = LastUse
      /\ \A i \in 1 .. Len(f) : f[i] = IF i = 1 THEN o ELSE r
      /\ program = "test" => LastUse = 1
  <2>. DEFINE rs == Repeat(NumMessages, r)
  <2>1. /\ rs \in Seq(C) /\ Len(rs) = NumMessages
        /\ \A i \in 1 .. NumMessages : rs[i] = r
    <3>1. rs \in Seq(C) /\ Len(rs) = NumMessages
      BY <1>1, <1>3, Repeated
    <3>. QED  BY <3>1 DEF Repeat
  <2>2. <<o>> \in Seq(C) /\ Len(<<o>>) = 1 /\ <<o>>[1] = o
    BY <1>1
  <2>. HIDE DEF rs
  <2>3. /\ <<o>> \o rs \in Seq(C) /\ Len(<<o>> \o rs) = 1 + NumMessages
        /\ \A i \in 1 .. 1 + NumMessages :
             (<<o>> \o rs)[i] = IF i <= 1 THEN <<o>>[i] ELSE rs[i - 1]
    BY <2>1, <2>2, ConcatProperties
  <2>4. \A i \in 1 .. 1 + NumMessages : (<<o>> \o rs)[i] = IF i = 1 THEN o ELSE r
    BY <1>3, <2>1, <2>2, <2>3
  <2>5. CASE program = "test"
    BY <2>2, <2>5 DEF LastUse
  <2>6. CASE program # "test"
    <3>1. f = <<o>> \o rs
      BY <2>6 DEF rs
    <3>2. LastUse = 1 + NumMessages
      BY <1>3, <2>6 DEF LastUse
    <3>. HIDE DEF f
    <3>. QED  BY <2>3, <2>4, <2>6, <3>1, <3>2
  <2>. QED  BY <2>5, <2>6
<1>. HIDE DEF f, naps
<1>6. k \in 1 .. Len(f \o <<c>> \o naps \o <<e>>)
  BY <1>2
<1>7. /\ k <= Len(f) => Child(p)[k] = f[k]
      /\ k = Len(f) + 1 => Child(p)[k] = c
      /\ k > Len(f) + 1 => Child(p)[k] \in {z, e}
  BY <1>1, <1>2, <1>4, <1>5, <1>6, ClosedAfter
<1>8. LastUse \in Nat /\ LastUse >= 1 /\ k >= 1 /\ k \in Nat
  <2>1. LastUse \in Nat /\ LastUse >= 1
    BY <1>3 DEF LastUse
  <2>2. Child(p) \in Seq(ChildCalls({0, pid[p], mqd[p]}))
    BY ChildTyped
  <2>3. Len(Child(p)) \in Nat
    BY <2>2, LenProperties
  <2>. QED  BY <2>1, <2>3
<1>. HIDE DEF Child, LastUse
<1>9. k <= LastUse => Child(p)[k] = IF k = 1 THEN o ELSE r
  BY <1>5, <1>7, <1>8
<1>10. k \in 2 .. LastUse => program # "test"
  BY <1>5, <1>8
<1>. QED  BY <1>5, <1>7, <1>8, <1>9, <1>10 DEF o, r, c, z, e

-----------------------------------------------------------------------------
(* A child makes a call.                                                   *)
ChildTurn(p) ==
  /\ CInv /\ PInv'
  /\ running = p /\ p # 0 /\ IsChild(p)
  /\ pc' = [pc EXCEPT ![p] = @ + 1]
  /\ UNCHANGED <<program, code>>

LEMMA ChildTurns ==
  ASSUME NEW p \in PCB, ChildTurn(p)
  PROVE  /\ PInv /\ Booked /\ FunctionsTyped /\ 0 \in PCB /\ p \in Others
         /\ pc[p] \in Nat /\ pc'[p] = pc[p] + 1
         /\ \A q \in PCB \ {p} : pc'[q] = pc[q]
         /\ pc'[0] = pc[0]
         /\ p \notin zombie_list /\ p \notin waiting_list
         /\ LastUse \in Nat /\ LastUse >= 1 /\ LastUse' = LastUse
<1>1. PInv /\ Booked /\ FunctionsTyped /\ p \in Others
  BY DEF ChildTurn, CInv, PInv, IsChild
<1>2. 0 \in PCB
  BY <1>1, OthersFinite
<1>3. /\ pc[p] \in Nat /\ pc'[p] = pc[p] + 1 /\ \A q \in PCB \ {p} : pc'[q] = pc[q]
      /\ pc'[0] = pc[0]
  BY <1>1, <1>2 DEF ChildTurn, FunctionsTyped
<1>4. p \notin zombie_list /\ p \notin waiting_list
  BY <1>1 DEF ChildTurn, PInv, MQInv, IInv, Placement
<1>5. LastUse \in Nat /\ LastUse >= 1 /\ LastUse' = LastUse
  BY TestProgramsAssumption DEF LastUse, ChildTurn
<1>. QED  BY <1>1, <1>2, <1>3, <1>4, <1>5

LEMMA ChildKeepsPage ==
  ASSUME NEW p \in PCB, ChildTurn(p), mqd' \in [PCB -> Int], mqd'[0] = mqd[0]
  PROVE  Now' = Now /\ MqdsKnown'
<1>1. PInv /\ Booked /\ FunctionsTyped /\ pc'[0] = pc[0]
  BY ChildTurns
<1>2. BooksSame
  BY DEF BooksSame, ChildTurn
<1>. QED  BY <1>1, <1>2, SamePage, MqdsStay DEF Booked

(* The other processes hold what they held.                                *)
LEMMA OthersHoldOn ==
  ASSUME NEW p \in PCB, ChildTurn(p), UNCHANGED pid,
         NEW q \in PCB, q # p, q \in Others' <=> q \in Others
  PROVE  ((Holds(q))' <=> Holds(q)) /\ QueueOf(q)' = QueueOf(q)
<1>1. pc'[q] = pc[q] /\ LastUse' = LastUse
  BY ChildTurns
<1>2. IsChild(q)' <=> IsChild(q)
  BY DEF IsChild, ChildTurn
<1>3. QueueOf(q)' = QueueOf(q)
  BY DEF QueueOf, ChildTurn
<1>. QED  BY <1>1, <1>2, <1>3, Zenon DEF Holds

LEMMA ChildUses ==
  ASSUME NEW p \in PCB, ChildTurn(p), UNCHANGED <<pid, pcb_pool>>
  PROVE  /\ Others' = Others /\ QueueOf(p)' = QueueOf(p)
         /\ \A q \in PCB \ {p} : ((Holds(q))' <=> Holds(q)) /\ QueueOf(q)' = QueueOf(q)
         /\ \A i : i # QueueOf(p) => (Used(i)' <=> Used(i))
         /\ Used(QueueOf(p)) <=> Holds(p)
         /\ Used(QueueOf(p))' <=> (Holds(p))'
<1>1. Others' = Others
  BY DEF Others, Allocated
<1>2. QueueOf(p)' = QueueOf(p)
  BY DEF QueueOf, ChildTurn
<1>3. \A q \in PCB \ {p} : ((Holds(q))' <=> Holds(q)) /\ QueueOf(q)' = QueueOf(q)
  BY <1>1, OthersHoldOn
<1>4. \A q \in PCB \ {p} : Holds(q) => QueueOf(q) # QueueOf(p)
  <2>1. PInv /\ p \in Others /\ IsChild(p)
    BY ChildTurns DEF ChildTurn
  <2>. QED  BY <2>1, ChildrenApart DEF Holds, IsChild
<1>5. ASSUME NEW i, i # QueueOf(p) PROVE Used(i)' <=> Used(i)
  BY <1>2, <1>3, <1>5 DEF Used
<1>6. Used(QueueOf(p)) <=> Holds(p)
  BY <1>4 DEF Used
<1>7. Used(QueueOf(p))' <=> (Holds(p))'
  BY <1>2, <1>3, <1>4 DEF Used
<1>. QED  BY <1>1, <1>2, <1>3, <1>5, <1>6, <1>7

(* A call that leaves the child in the family.                             *)
LEMMA ChildQueueTurn ==
  ASSUME NEW p \in PCB, ChildTurn(p),
         mqd' \in [PCB -> Int],
         \A q \in PCB \ {p} : mqd'[q] = mqd[q] /\ descrittori'[q] = descrittori[q],
         last_mqd'[0] = last_mqd[0],
         UNCHANGED <<pid, pcb_pool>>, InitWaits' <=> InitWaits,
         zombie_list' \subseteq zombie_list \cup (IF (Holds(p))' THEN {} ELSE {p}),
         DOMAIN messagequeues' = DOMAIN messagequeues,
         \A i \in DOMAIN messagequeues :
           /\ messagequeues'[i].type = messagequeues[i].type
           /\ messagequeues'[i].msg_size = messagequeues[i].msg_size
           /\ program = "test" => messagequeues'[i].msg_num = messagequeues[i].msg_num
           /\ i # QueueOf(p) => messagequeues'[i].users = messagequeues[i].users,
         QueueOf(p) \in DOMAIN messagequeues =>
           messagequeues'[QueueOf(p)].users
             = (messagequeues[QueueOf(p)].users - One(Holds(p))) + One(Holds(p)'),
         IF (Holds(p))'
         THEN DOMAIN descrittori'[p] = {mqd'[p]} /\ descrittori'[p][mqd'[p]] = QueueOf(p)
         ELSE DOMAIN descrittori'[p] = {},
         CallsSucceed', CleanShutdown'
  PROVE  CInv'
<1>1. /\ PInv /\ Booked /\ 0 \in PCB /\ p \in Others /\ p # 0 /\ PInv' /\ UNCHANGED program
      /\ p \notin zombie_list
  BY ChildTurns DEF ChildTurn
<1>2. Now' = Now /\ MqdsKnown'
  BY <1>1, ChildKeepsPage
<1>3. QueuesAsBooked'
  BY <1>1, <1>2 DEF Booked, QueuesAsBooked
<1>4. InitHolds'
  BY <1>1, <1>2 DEF Booked, InitHolds
<1>5. /\ Others' = Others /\ QueueOf(p)' = QueueOf(p)
      /\ \A q \in PCB \ {p} : ((Holds(q))' <=> Holds(q)) /\ QueueOf(q)' = QueueOf(q)
      /\ \A i : i # QueueOf(p) => (Used(i)' <=> Used(i))
      /\ Used(QueueOf(p)) <=> Holds(p)
      /\ Used(QueueOf(p))' <=> (Holds(p))'
  BY ChildUses
<1>6. FamilyCounted'
  <2>1. One(InitWaits)' = One(InitWaits)
    BY DEF One
  <2>2. Stocked(program, Now)' <=> Stocked(program, Now)
    BY <1>1, <1>2 DEF Stocked, Ids
  <2>. QED  BY <1>1, <1>2, <1>5, <2>1, <2>2 DEF Booked, FamilyCounted
<1>. HIDE DEF Holds, QueueOf, Used
<1>7. ChildrenHold'
  <2>1. ASSUME NEW q \in Others
        PROVE  IF (Holds(q))' THEN /\ DOMAIN descrittori'[q] = {mqd'[q]}
                                   /\ descrittori'[q][mqd'[q]] = QueueOf(q)'
                              ELSE DOMAIN descrittori'[q] = {}
    <3>1. CASE q = p
      BY <1>5, <3>1
    <3>2. CASE q # p
      <4>1. q \in PCB /\ mqd'[q] = mqd[q] /\ descrittori'[q] = descrittori[q]
        BY <1>1, <3>2, OthersFinite
      <4>2. IF Holds(q) THEN DOMAIN descrittori[q] = {mqd[q]} /\ descrittori[q][mqd[q]] = QueueOf(q)
                        ELSE DOMAIN descrittori[q] = {}
        BY <1>1 DEF Booked, ChildrenHold
      <4>. QED  BY <1>5, <3>2, <4>1, <4>2
    <3>. QED  BY <3>1, <3>2
  <2>2. \A q \in zombie_list' : ~(Holds(q))'
    <3>1. zombie_list \subseteq PCB /\ \A q \in zombie_list : ~Holds(q)
      BY <1>1 DEF Booked, ChildrenHold, PInv, MQInv, IInv, TypeOK
    <3>2. \A q \in zombie_list \cup (IF (Holds(p))' THEN {} ELSE {p}) : ~(Holds(q))'
      BY <1>1, <1>5, <3>1
    <3>. QED  BY <3>2
  <2>. QED  BY <1>5, <2>1, <2>2 DEF ChildrenHold
<1>8. UsersAre'
  <2>1. ASSUME NEW i \in DOMAIN messagequeues
        PROVE  messagequeues'[i].users = One(i \in Now.open) + One(Used(i)')
    <3>1. messagequeues[i].users = One(i \in Now.open) + One(Used(i))
      BY <1>1 DEF Booked, UsersAre
    <3>2. CASE i # QueueOf(p)
      BY <1>5, <3>1, <3>2 DEF One
    <3>3. CASE i = QueueOf(p)
      <4>1. One(Used(i)) = One(Holds(p)) /\ One(Used(i)') = One(Holds(p)')
        BY <1>5, <3>3 DEF One
      <4>2. One(i \in Now.open) \in Nat /\ One(Holds(p)) \in Nat /\ One(Holds(p)') \in Nat
        BY DEF One
      <4>. QED  BY <3>1, <3>3, <4>1, <4>2
    <3>. QED  BY <3>2, <3>3
  <2>. QED  BY <1>2, <2>1 DEF UsersAre, One
<1>. QED  BY <1>1, <1>2, <1>3, <1>4, <1>6, <1>7, <1>8 DEF CInv, Booked

LEMMA InitWaitsOn ==
  ASSUME NEW p \in PCB, ChildTurn(p), Trap(NULL),
         waiting_list' \in {waiting_list, waiting_list \cup {p}}
  PROVE  InitWaits' <=> InitWaits
<1>1. wait_arg \in [PCB -> Int \cup {NULL}] /\ 0 \in PCB /\ p # 0
  BY ChildTurns DEF PInv, MQInv, IInv, TypeOK, ChildTurn
<1>2. wait_arg'[0] = wait_arg[0]
  BY <1>1 DEF Trap, ChildTurn
<1>. QED  BY <1>1, <1>2 DEF InitWaits

LEMMA ChildAnswered ==
  ASSUME NEW p \in PCB, ChildTurn(p), NEW value, Answers(value)
  PROVE  UNCHANGED <<pid, pcb_pool, zombie_list>> /\ (InitWaits' <=> InitWaits)
<1>1. UNCHANGED <<pid, pcb_pool, zombie_list, waiting_list>> /\ Trap(NULL)
  BY DEF Answers, processVars, pcbVars, poolVars, schedVars
<1>. QED  BY <1>1, InitWaitsOn

(* Its queue is there when a child opens it: children are spawned when all *)
(* queues are.                                                             *)
LEMMA ChildOpens ==
  ASSUME NEW p \in PCB, ChildTurn(p), pc[p] = 0, Makes("open", QueueOf(p))
  PROVE  CInv'
<1>. DEFINE id == QueueOf(p)
            o == last_mqd[p]
            q == [messagequeues[id] EXCEPT !.users = @ + 1]
<1>1. /\ PInv /\ Booked /\ 0 \in PCB /\ p \in Others /\ p # 0 /\ UNCHANGED program
      /\ running = p /\ PInv' /\ CInv /\ pc'[p] = 1
      /\ LastUse \in Nat /\ LastUse >= 1 /\ LastUse' = LastUse
      /\ IsChild(p)
  <2>1. /\ PInv /\ Booked /\ 0 \in PCB /\ p \in Others /\ pc'[p] = pc[p] + 1
        /\ LastUse \in Nat /\ LastUse >= 1 /\ LastUse' = LastUse
    BY ChildTurns
  <2>2. p # 0 /\ UNCHANGED program /\ running = p /\ PInv' /\ CInv /\ IsChild(p)
    BY DEF ChildTurn
  <2>. QED  BY <2>1, <2>2
<1>2. /\ internal_mq_open(id, 0, 20, Capacity, {})
      /\ mqd' = [mqd EXCEPT ![p] = syscall_retvalue'[p]]
  BY <1>1 DEF Makes, OpensQueue, Capacity
<1>3. Stocked(program, Now)
  <2>1. pc[0] # 0
    BY <1>1 DEF PInv, SleeperReady, Others
  <2>2. ~(Cardinality(Others) <= 1)
    BY <1>1, NoneHolds
  <2>3. Cardinality(Others) >= 2
    BY <1>1, <2>2, OthersFinite
  <2>. QED  BY <1>1, <2>3 DEF Booked, FamilyCounted
<1>4. ~Holds(p) /\ ~Used(id)
  <2>1. ~Holds(p)
    BY DEF Holds
  <2>2. \A r \in PCB : Holds(r) => QueueOf(r) # id
    BY <1>1, <2>1, ChildrenApart DEF Holds, IsChild
  <2>. QED  BY <2>1, <2>2 DEF Used
<1>5. /\ id \in QueueIds /\ id \in DOMAIN messagequeues
      /\ messagequeues[id] \in QueueRecord /\ messagequeues[id].type = 0
  <2>1. id \in QueueIds
    BY <1>1, ChildrenApart
  <2>2. DOMAIN messagequeues = QueueIds
    BY <1>1, <1>3 DEF Stocked, Booked, QueuesAsBooked, Ids, QueueIds
  <2>. QED  BY <1>1, <2>1, <2>2, QueueTyped DEF Booked, QueuesAsBooked
<1>6. descrittore_free > 0
  <2>1. ASSUME NEW i \in DOMAIN messagequeues PROVE messagequeues[i].users <= 1
    <3>1. messagequeues[i].users = One(i \in Now.open) + One(Used(i))
      BY <1>1 DEF Booked, UsersAre
    <3>2. CASE program = "test"
      BY <1>3, <3>1, <3>2 DEF Stocked, One
    <3>3. CASE program # "test"
      <4>1. i = id
        BY <1>1, <1>5, <3>3 DEF PInv, QueuesKnown, QueueIds
      <4>. QED  BY <1>4, <3>1, <4>1 DEF One
    <3>. QED  BY <3>2, <3>3
  <2>2. program = "test" => messagequeues[id].users = 0
    BY <1>1, <1>3, <1>4, <1>5 DEF Stocked, Booked, UsersAre, One
  <2>. QED  BY <1>1, <1>5, <2>1, <2>2, RoomForDescrittore
<1>. HIDE DEF id
<1>7. Opens(id, 0, 20, Capacity, {})
  <2>1. OpenError(id, 0, {}) = NULL
    BY <1>5 DEF OpenError, Exists
  <2>2. ~OpenRefused(id, 0, {})
    BY <2>1 DEF OpenRefused
  <2>3. ~OpenWithoutDescrittore(id, 0, 20, Capacity, {})
    <3>1. descrittore_free # 0
      BY <1>1, <1>6 DEF PInv, MQInv, Accounted, MQTyped
    <3>. QED  BY <3>1 DEF OpenWithoutDescrittore
  <2>4. ~OpenDies(id, 0, {})
    BY DEF OpenDies, NoQueueBlock
  <2>. QED  BY <1>2, <2>2, <2>3, <2>4 DEF internal_mq_open
<1>8. /\ Answers(o)
      /\ messagequeues' = [messagequeues EXCEPT ![id] = q]
      /\ descrittori' = [descrittori EXCEPT ![p] = With(@, o, id)]
      /\ last_mqd' = [last_mqd EXCEPT ![p] = o + 1]
  BY <1>1, <1>5, <1>7 DEF Opens, WithQueue
<1>9. /\ descrittori \in [PCB -> Tables(MaxMqd, MQIds)] /\ last_mqd \in [PCB -> 0 .. MaxMqd]
      /\ o \in Nat
  BY <1>1, MessageQueuesAssumption DEF PInv, MQInv, Accounted, MQTyped
<1>10. mqd' = [mqd EXCEPT ![p] = o]
  <2>1. syscall_retvalue' = [syscall_retvalue EXCEPT ![p] = o] /\ syscall_retvalue \in [PCB -> Int]
    BY <1>1, <1>8 DEF Answers, Return, PInv, MQInv, IInv, TypeOK
  <2>2. syscall_retvalue'[p] = o
    BY <2>1
  <2>. QED  BY <1>2, <2>2
<1>11. mqd' \in [PCB -> Int] /\ mqd'[p] = o /\ \A r \in PCB \ {p} : mqd'[r] = mqd[r]
  BY <1>1, <1>9, <1>10 DEF Booked, MqdsKnown
<1>12. /\ \A r \in PCB \ {p} : descrittori'[r] = descrittori[r]
       /\ last_mqd'[0] = last_mqd[0]
  BY <1>1, <1>8, <1>9
<1>13. CallsSucceed' /\ CleanShutdown'
  BY <1>1, <1>8, <1>9, AnswersWell DEF CInv
<1>14. UNCHANGED <<pid, pcb_pool, zombie_list>> /\ (InitWaits' <=> InitWaits)
  BY <1>8, ChildAnswered
<1>15. /\ q.type = messagequeues[id].type /\ q.msg_size = messagequeues[id].msg_size
       /\ q.users = messagequeues[id].users + 1 /\ q.msg_num = messagequeues[id].msg_num
       /\ messagequeues[id].users \in Nat
  BY <1>5 DEF QueueRecord
<1>. HIDE DEF q
<1>16. /\ DOMAIN messagequeues' = DOMAIN messagequeues
       /\ \A i \in DOMAIN messagequeues : messagequeues'[i] = IF i = id THEN q ELSE messagequeues[i]
  BY <1>5, <1>8
<1>17. \A i \in DOMAIN messagequeues :
         /\ messagequeues'[i].type = messagequeues[i].type
         /\ messagequeues'[i].msg_size = messagequeues[i].msg_size
         /\ program = "test" => messagequeues'[i].msg_num = messagequeues[i].msg_num
         /\ i # id => messagequeues'[i].users = messagequeues[i].users
  BY <1>15, <1>16
<1>18. (Holds(p))'
  <2>1. Others' = Others
    BY <1>14 DEF Others, Allocated
  <2>2. IsChild(p)'
    BY <1>1, <2>1 DEF IsChild, ChildTurn
  <2>. QED  BY <1>1, <2>2 DEF Holds
<1>19. messagequeues'[id].users = (messagequeues[id].users - One(Holds(p))) + One(Holds(p)')
  BY <1>4, <1>5, <1>15, <1>16, <1>18 DEF One
<1>20. DOMAIN descrittori'[p] = {mqd'[p]} /\ descrittori'[p][mqd'[p]] = id
  <2>1. DOMAIN descrittori[p] = {}
    BY <1>1, <1>4 DEF Booked, ChildrenHold
  <2>2. descrittori'[p] = With(descrittori[p], o, id)
    BY <1>8, <1>9
  <2>3. DOMAIN With(descrittori[p], o, id) = {o} /\ With(descrittori[p], o, id)[o] = id
    BY <2>1 DEF With
  <2>. QED  BY <1>11, <2>2, <2>3
<1>21. zombie_list' \subseteq zombie_list \cup (IF (Holds(p))' THEN {} ELSE {p})
  BY <1>14
<1>. QED  BY <1>11, <1>12, <1>13, <1>14, <1>16, <1>17, <1>18, <1>19, <1>20, <1>21,
          ChildQueueTurn DEF id

(* A call that does not change which queues are open.                      *)
LEMMA ChildStays ==
  ASSUME NEW p \in PCB, ChildTurn(p),
         UNCHANGED <<pid, pcb_pool, mqd, descrittori, last_mqd>>,
         InitWaits' <=> InitWaits, (Holds(p))' <=> Holds(p),
         zombie_list' \subseteq zombie_list \cup (IF Holds(p) THEN {} ELSE {p}),
         DOMAIN messagequeues' = DOMAIN messagequeues,
         \A i \in DOMAIN messagequeues :
           /\ messagequeues'[i].type = messagequeues[i].type
           /\ messagequeues'[i].msg_size = messagequeues[i].msg_size
           /\ messagequeues'[i].users = messagequeues[i].users
           /\ program = "test" => messagequeues'[i].msg_num = messagequeues[i].msg_num,
         CallsSucceed', CleanShutdown'
  PROVE  CInv'
<1>1. PInv /\ Booked /\ p \in Others
  BY ChildTurns
<1>2. mqd' \in [PCB -> Int]
  BY <1>1 DEF Booked, MqdsKnown
<1>3. QueueOf(p) \in DOMAIN messagequeues =>
        messagequeues'[QueueOf(p)].users
          = (messagequeues[QueueOf(p)].users - One(Holds(p))) + One(Holds(p)')
  <2>. SUFFICES ASSUME QueueOf(p) \in DOMAIN messagequeues
                PROVE  messagequeues'[QueueOf(p)].users
                         = (messagequeues[QueueOf(p)].users - One(Holds(p))) + One(Holds(p)')
    OBVIOUS
  <2>1. One(Holds(p)') = One(Holds(p)) /\ One(Holds(p)) \in Nat
    BY DEF One
  <2>2. messagequeues[QueueOf(p)].users \in Int
    BY <1>1, QueueTyped DEF QueueRecord
  <2>. QED  BY <2>1, <2>2
<1>4. IF (Holds(p))'
      THEN DOMAIN descrittori'[p] = {mqd'[p]} /\ descrittori'[p][mqd'[p]] = QueueOf(p)
      ELSE DOMAIN descrittori'[p] = {}
  <2>1. IF Holds(p) THEN DOMAIN descrittori[p] = {mqd[p]} /\ descrittori[p][mqd[p]] = QueueOf(p)
                    ELSE DOMAIN descrittori[p] = {}
    BY <1>1 DEF Booked, ChildrenHold
  <2>. HIDE DEF Holds, QueueOf
  <2>. QED  BY <2>1
<1>5. zombie_list' \subseteq zombie_list \cup (IF (Holds(p))' THEN {} ELSE {p})
  OBVIOUS
<1>. QED  BY <1>2, <1>3, <1>4, <1>5, ChildQueueTurn

LEMMA ChildHoldsOn ==
  ASSUME NEW p \in PCB, ChildTurn(p), UNCHANGED pcb_pool,
         pc[p] \in 1 .. LastUse <=> pc[p] + 1 \in 1 .. LastUse
  PROVE  (Holds(p))' <=> Holds(p)
<1>1. pc'[p] = pc[p] + 1 /\ LastUse' = LastUse
  BY ChildTurns
<1>2. IsChild(p)' /\ IsChild(p)
  BY DEF IsChild, ChildTurn, Others, Allocated
<1>. QED  BY <1>1, <1>2 DEF Holds

(* The child of disastrOS_test_mq_bloccanti receives: it may find its      *)
(* queue empty and sleep.                                                  *)
LEMMA ChildReceives ==
  ASSUME NEW p \in PCB, ChildTurn(p), program # "test", pc[p] + 1 \in 2 .. LastUse,
         Makes("receive", mqd[p])
  PROVE  CInv'
<1>1. /\ PInv /\ Booked /\ 0 \in PCB /\ pc[p] \in Nat /\ LastUse \in Nat
      /\ p \notin zombie_list
  BY ChildTurns
<1>2. CInv /\ PInv' /\ running = p /\ UNCHANGED program
  BY DEF ChildTurn
<1>3. internal_mq_receive(mqd[p], 20) /\ UNCHANGED mqd
  BY DEF Makes
<1>4. ASSUME UNCHANGED pcb_pool PROVE (Holds(p))' <=> Holds(p)
  <2>1. pc[p] \in 1 .. LastUse /\ pc[p] + 1 \in 1 .. LastUse
    BY <1>1
  <2>. QED  BY <1>4, <2>1, ChildHoldsOn
<1>. HIDE DEF Holds
<1>5. \A value : Answers(value) => CallsSucceed' /\ CleanShutdown'
  BY <1>1, <1>2, AnswersWell DEF CInv
<1>6. CASE ReceiveRefused(mqd[p])
  <2>1. PICK error : Answers(error) /\ UNCHANGED mqVars
    BY <1>6 DEF ReceiveRefused, Fails
  <2>2. UNCHANGED <<messagequeues, descrittori, last_mqd>>
    BY <2>1 DEF mqVars
  <2>3. UNCHANGED <<pid, pcb_pool, zombie_list>> /\ (InitWaits' <=> InitWaits)
    BY <2>1, ChildAnswered
  <2>. QED  BY <1>3, <1>4, <1>5, <2>1, <2>2, <2>3, ChildStays
<1>7. CASE ReceiveBlocks(mqd[p], 20)
  <2>1. PICK retvalues, error : Blocks(retvalues, error)
    BY <1>7 DEF ReceiveBlocks
  <2>2. /\ UNCHANGED <<machine, pid, pcb_pool, zombie_list>> /\ Trap(NULL)
        /\ UNCHANGED <<messagequeues, descrittori, last_mqd>>
        /\ waiting_list' \in {waiting_list, waiting_list \cup {p}}
    BY <1>2, <2>1 DEF Blocks, WaitOnTimer, Block, pcbVars, poolVars, mqVars
  <2>3. InitWaits' <=> InitWaits
    BY <2>2, InitWaitsOn
  <2>4. CallsSucceed' /\ CleanShutdown'
    BY <1>2, <2>2 DEF CallsSucceed, CleanShutdown, Trap, Runs
  <2>. QED  BY <1>3, <1>4, <2>2, <2>3, <2>4, ChildStays
<1>8. CASE Receives(mqd[p], 20)
  <2>. DEFINE id == descrittori[p][mqd[p]]
              q == [messagequeues[id] EXCEPT !.messages = Tail(@), !.msg_num = @ - 1]
  <2>1. HasMqd(mqd[p]) /\ Runs
    <3>1. Runs /\ ReceiveError(mqd[p]) = NULL
      BY <1>8 DEF Receives, MayReceive
    <3>. QED  BY <3>1, KernelAssumption DEF ReceiveError, DSOS_EMESSAGEQUEUECLOSE
  <2>2. id \in DOMAIN messagequeues /\ messagequeues[id] \in QueueRecord
    BY <1>1, <1>2, <2>1, HasQueue DEF Queue
  <2>3. /\ Answers(0)
        /\ messagequeues' = [messagequeues EXCEPT ![id] = q]
        /\ UNCHANGED <<descrittori, last_mqd>>
    BY <1>2, <1>8 DEF Receives
  <2>4. /\ q.type = messagequeues[id].type /\ q.msg_size = messagequeues[id].msg_size
        /\ q.users = messagequeues[id].users
    BY <2>2 DEF QueueRecord
  <2>. HIDE DEF q
  <2>5. /\ DOMAIN messagequeues' = DOMAIN messagequeues
        /\ \A i \in DOMAIN messagequeues : messagequeues'[i] = IF i = id THEN q ELSE messagequeues[i]
    BY <2>2, <2>3
  <2>6. \A i \in DOMAIN messagequeues :
          /\ messagequeues'[i].type = messagequeues[i].type
          /\ messagequeues'[i].msg_size = messagequeues[i].msg_size
          /\ messagequeues'[i].users = messagequeues[i].users
    BY <2>4, <2>5
  <2>7. UNCHANGED <<pid, pcb_pool, zombie_list>> /\ (InitWaits' <=> InitWaits)
    BY <2>3, ChildAnswered
  <2>. QED  BY <1>3, <1>4, <1>5, <2>3, <2>5, <2>6, <2>7, ChildStays
<1>9. ~ReceiveDies(mqd[p])
  BY <1>2 DEF ReceiveDies, BlocksAlone, Stop, PInv, Survives
<1>. QED  BY <1>3, <1>6, <1>7, <1>8, <1>9 DEF internal_mq_receive

(* The close of a child finds the queue it opened.                         *)
LEMMA ChildCloses ==
  ASSUME NEW p \in PCB, ChildTurn(p), pc[p] = LastUse, Makes("close", mqd[p])
  PROVE  CInv'
<1>. DEFINE id == QueueOf(p)
            q == [messagequeues[id] EXCEPT !.users = @ - 1]
            m == mqd[p]
<1>1. /\ PInv /\ Booked /\ p \in Others /\ pc'[p] = LastUse + 1
      /\ LastUse \in Nat /\ LastUse >= 1 /\ LastUse' = LastUse
  BY ChildTurns
<1>2. CInv /\ PInv' /\ running = p /\ UNCHANGED program /\ IsChild(p)
  BY DEF ChildTurn
<1>3. internal_mq_close(m) /\ UNCHANGED mqd
  BY DEF Makes
<1>4. Holds(p) /\ ~(Holds(p))'
  BY <1>1, <1>2 DEF Holds
<1>5. DOMAIN descrittori[p] = {m} /\ descrittori[p][m] = id
  BY <1>1, <1>4 DEF Booked, ChildrenHold
<1>. HIDE DEF Holds, id, m
<1>6. HasMqd(m)
  BY <1>2, <1>5 DEF HasMqd
<1>7. /\ Answers(0)
      /\ messagequeues' = [messagequeues EXCEPT ![id] = q]
      /\ descrittori' = [descrittori EXCEPT ![p] = Without(@, m)]
      /\ last_mqd' = last_mqd
  BY <1>2, <1>3, <1>5, <1>6 DEF internal_mq_close, CloseUnknown, Closes
<1>8. id \in DOMAIN messagequeues /\ messagequeues[id] \in QueueRecord
  <2>1. Runs
    BY <1>7 DEF Answers, Trap
  <2>. QED  BY <1>1, <1>2, <1>5, <1>6, <2>1, HasQueue DEF Queue
<1>9. CallsSucceed' /\ CleanShutdown'
  BY <1>1, <1>2, <1>7, AnswersWell DEF CInv
<1>10. UNCHANGED <<pid, pcb_pool, zombie_list>> /\ (InitWaits' <=> InitWaits)
  BY <1>7, ChildAnswered
<1>11. /\ q.type = messagequeues[id].type /\ q.msg_size = messagequeues[id].msg_size
       /\ q.users = messagequeues[id].users - 1 /\ q.msg_num = messagequeues[id].msg_num
       /\ messagequeues[id].users \in Nat
  BY <1>8 DEF QueueRecord
<1>. HIDE DEF q
<1>12. /\ DOMAIN messagequeues' = DOMAIN messagequeues
       /\ \A i \in DOMAIN messagequeues : messagequeues'[i] = IF i = id THEN q ELSE messagequeues[i]
  BY <1>7, <1>8
<1>13. \A i \in DOMAIN messagequeues :
         /\ messagequeues'[i].type = messagequeues[i].type
         /\ messagequeues'[i].msg_size = messagequeues[i].msg_size
         /\ program = "test" => messagequeues'[i].msg_num = messagequeues[i].msg_num
         /\ i # id => messagequeues'[i].users = messagequeues[i].users
  BY <1>11, <1>12
<1>14. messagequeues'[id].users = (messagequeues[id].users - One(Holds(p))) + One(Holds(p)')
  BY <1>4, <1>8, <1>11, <1>12 DEF One
<1>15. descrittori \in [PCB -> Tables(MaxMqd, MQIds)] /\ mqd' \in [PCB -> Int]
  BY <1>1, <1>3 DEF PInv, MQInv, Accounted, MQTyped, Booked, MqdsKnown
<1>16. DOMAIN descrittori'[p] = {} /\ \A r \in PCB \ {p} : descrittori'[r] = descrittori[r]
  <2>1. descrittori'[p] = Without(descrittori[p], m)
    BY <1>7, <1>15
  <2>2. DOMAIN descrittori'[p] = {}
    BY <1>5, <2>1 DEF Without, Restrict
  <2>. QED  BY <1>7, <1>15, <2>2
<1>17. zombie_list' \subseteq zombie_list \cup (IF (Holds(p))' THEN {} ELSE {p})
  BY <1>10
<1>. QED  BY <1>3, <1>4, <1>7, <1>9, <1>10, <1>12, <1>13, <1>14, <1>15, <1>16, <1>17,
          ChildQueueTurn DEF id

(* A child sleeps once it has closed its queue, and finds a timer.         *)
LEMMA ChildSleeps ==
  ASSUME NEW p \in PCB, ChildTurn(p), pc[p] > LastUse, NEW cycles, Makes("sleep", cycles)
  PROVE  CInv'
<1>1. /\ PInv /\ Booked /\ pc[p] \in Nat /\ LastUse \in Nat
  BY ChildTurns
<1>2. CInv /\ PInv' /\ running = p /\ UNCHANGED program
  BY DEF ChildTurn
<1>3. internal_sleep(cycles) /\ UNCHANGED <<mqVars, mqd>>
  BY DEF Makes
<1>4. Len(timer_list) < MAX_NUM_PROCESSES
  BY <1>1, RoomForTimer
<1>5. /\ UNCHANGED <<machine, pid, pcb_pool, zombie_list, syscall_retvalue>> /\ Trap(NULL)
      /\ UNCHANGED <<messagequeues, descrittori, last_mqd>>
      /\ waiting_list' = waiting_list \cup {p}
  BY <1>2, <1>3, <1>4 DEF internal_sleep, WaitOnTimer, Block, pcbVars, poolVars, mqVars
<1>6. InitWaits' <=> InitWaits
  BY <1>5, InitWaitsOn
<1>7. (Holds(p))' <=> Holds(p)
  <2>1. pc[p] \in 1 .. LastUse <=> pc[p] + 1 \in 1 .. LastUse
    BY <1>1
  <2>. QED  BY <1>5, <2>1, ChildHoldsOn
<1>. HIDE DEF Holds
<1>8. CallsSucceed' /\ CleanShutdown'
  BY <1>2, <1>5 DEF CInv, CallsSucceed, CleanShutdown, Trap, Runs
<1>. QED  BY <1>3, <1>5, <1>6, <1>7, <1>8, ChildStays

(* A child that exits while init waits is freed at once; it has no queue   *)
(* open.                                                                   *)
LEMMA ChildExitsToInit ==
  ASSUME NEW p \in PCB, ChildTurn(p), pc[p] > LastUse,
         ExitToParent, ReleaseDescrittori(p), UNCHANGED mqd
  PROVE  CInv'
<1>1. /\ PInv /\ Booked /\ FunctionsTyped /\ 0 \in PCB /\ p \in Others
      /\ pc[p] \in Nat /\ LastUse \in Nat
      /\ p \notin zombie_list
  BY ChildTurns
<1>2. CInv /\ PInv' /\ running = p /\ p # 0 /\ UNCHANGED <<program, code>>
  BY DEF ChildTurn
<1>3. parent[p] = 0
  BY <1>1 DEF PInv, Tree, Others
<1>4. /\ status[0] = "Waiting" /\ wait_arg[0] \in {0, pid[p]}
      /\ waiting_list' = waiting_list \ {0}
      /\ syscall_retvalue' = [syscall_retvalue EXCEPT ![0] = pid[p]]
      /\ UNCHANGED <<machine, pid, zombie_list>> /\ Runs
  BY <1>2, <1>3 DEF ExitToParent, ParentAwaits, Exiting, Trap
<1>5. InitWaits /\ ~InitWaits'
  <2>1. 0 \in waiting_list
    BY <1>1, <1>4 DEF PInv, MQInv, IInv, StatusAgrees
  <2>2. pid[p] \in Nat
    BY <1>1 DEF PInv, MQInv, IInv, TypeOK
  <2>. QED  BY <1>4, <2>1, <2>2, KernelAssumption DEF InitWaits
<1>6. Others' = Others \ {p}
  <2>1. PCB \ ToSet(pcb_pool') = (PCB \ ToSet(pcb_pool)) \ {p}
    BY <1>1, <1>2, ExitFreesBlock DEF PInv, MQInv
  <2>. QED  BY <2>1 DEF Others, Allocated
<1>7. ~Holds(p) /\ ~(Holds(p))'
  BY <1>1, <1>6 DEF Holds, IsChild
<1>8. ASSUME NEW q \in PCB, q # p PROVE ((Holds(q))' <=> Holds(q)) /\ QueueOf(q)' = QueueOf(q)
  BY <1>4, <1>6, <1>8, OthersHoldOn
<1>9. \A id : Used(id)' <=> Used(id)
  <2>. HIDE DEF Holds, QueueOf
  <2>. QED  BY <1>7, <1>8 DEF Used
<1>10. /\ descrittori' = [descrittori EXCEPT ![p] = <<>>] /\ last_mqd' = last_mqd
       /\ descrittori \in [PCB -> Tables(MaxMqd, MQIds)]
  BY <1>1 DEF ReleaseDescrittori, PInv, MQInv, Accounted, MQTyped
<1>11. \A q \in PCB \ {p} : descrittori'[q] = descrittori[q]
  BY <1>10
<1>12. /\ DOMAIN messagequeues' = DOMAIN messagequeues
       /\ \A id \in DOMAIN messagequeues :
            /\ messagequeues'[id].type = messagequeues[id].type
            /\ messagequeues'[id].msg_size = messagequeues[id].msg_size
            /\ messagequeues'[id].msg_num = messagequeues[id].msg_num
            /\ messagequeues'[id].users = messagequeues[id].users
  <2>1. DOMAIN descrittori[p] = {}
    <3>. HIDE DEF Holds, QueueOf
    <3>. QED  BY <1>1, <1>7 DEF Booked, ChildrenHold
  <2>2. ASSUME NEW id \in DOMAIN messagequeues
        PROVE  /\ messagequeues'[id].type = messagequeues[id].type
               /\ messagequeues'[id].msg_size = messagequeues[id].msg_size
               /\ messagequeues'[id].msg_num = messagequeues[id].msg_num
               /\ messagequeues'[id].users = messagequeues[id].users
    <3>1. Opened(p, id) = {}
      BY <2>1 DEF Opened
    <3>2. Cardinality(Opened(p, id)) = 0
      BY <3>1, FS_EmptySet
    <3>3. messagequeues'[id] = [messagequeues[id] EXCEPT !.users = @ - 0]
      BY <3>2 DEF ReleaseDescrittori
    <3>4. messagequeues[id] \in QueueRecord
      BY <1>1, QueueTyped
    <3>. QED  BY <3>3, <3>4 DEF QueueRecord
  <2>3. DOMAIN messagequeues' = DOMAIN messagequeues
    BY DEF ReleaseDescrittori
  <2>. QED  BY <2>2, <2>3
<1>13. Now' = Now /\ MqdsKnown'
  <2>1. mqd' \in [PCB -> Int]
    BY <1>1 DEF Booked, MqdsKnown
  <2>. QED  BY <2>1, ChildKeepsPage
<1>14. QueuesAsBooked' /\ InitHolds'
  BY <1>1, <1>2, <1>10, <1>11, <1>12, <1>13 DEF Booked, QueuesAsBooked, InitHolds
<1>15. FamilyCounted'
  <2>1. IsFiniteSet(Others) /\ Cardinality(Others) \in Nat
    BY <1>1, OthersFinite
  <2>2. Cardinality(Others') = Cardinality(Others) - 1
    BY <1>1, <1>6, <2>1, FS_RemoveElement
  <2>3. One(InitWaits) = 1 /\ One(InitWaits)' = 0
    BY <1>5 DEF One
  <2>4. Stocked(program, Now)' <=> Stocked(program, Now)
    BY <1>2, <1>13 DEF Stocked, Ids
  <2>5. /\ Cardinality(Others) = Now.family + One(InitWaits)
        /\ Cardinality(Others) >= 2 => Stocked(program, Now)
    BY <1>1 DEF Booked, FamilyCounted
  <2>6. Now.family \in Nat
    BY <1>1, NowIsLedger DEF Ledgers, Booked
  <2>. QED  BY <1>13, <2>1, <2>2, <2>3, <2>4, <2>5, <2>6 DEF FamilyCounted
<1>. HIDE DEF Holds, QueueOf
<1>16. ChildrenHold'
  <2>1. ASSUME NEW q \in Others'
        PROVE  IF (Holds(q))' THEN /\ DOMAIN descrittori'[q] = {mqd'[q]}
                                   /\ descrittori'[q][mqd'[q]] = QueueOf(q)'
                              ELSE DOMAIN descrittori'[q] = {}
    <3>1. q \in Others /\ q # p /\ q \in PCB
      BY <1>1, <1>6, OthersFinite
    <3>2. IF Holds(q) THEN DOMAIN descrittori[q] = {mqd[q]} /\ descrittori[q][mqd[q]] = QueueOf(q)
                      ELSE DOMAIN descrittori[q] = {}
      BY <1>1, <3>1 DEF Booked, ChildrenHold
    <3>. QED  BY <1>8, <1>11, <3>1, <3>2
  <2>2. \A q \in zombie_list' : ~(Holds(q))'
    <3>1. zombie_list \subseteq PCB /\ \A q \in zombie_list : ~Holds(q)
      BY <1>1 DEF Booked, ChildrenHold, PInv, MQInv, IInv, TypeOK
    <3>. QED  BY <1>1, <1>4, <1>8, <3>1
  <2>. QED  BY <2>1, <2>2 DEF ChildrenHold
<1>17. UsersAre'
  BY <1>1, <1>9, <1>12, <1>13 DEF Booked, UsersAre, One
<1>18. CallsSucceed' /\ CleanShutdown'
  <2>1. syscall_retvalue \in [PCB -> Int] /\ pid[p] \in Nat
    BY <1>1 DEF PInv, MQInv, IInv, TypeOK
  <2>. QED  BY <1>2, <1>4, <2>1 DEF CInv, CallsSucceed, CleanShutdown, Runs
<1>. QED  BY <1>2, <1>13, <1>14, <1>15, <1>16, <1>17, <1>18 DEF CInv, Booked

LEMMA ChildExits ==
  ASSUME NEW p \in PCB, ChildTurn(p), pc[p] > LastUse, NEW arg, Makes("exit", arg)
  PROVE  CInv'
<1>1. /\ PInv /\ Booked /\ 0 \in PCB /\ pc[p] \in Nat /\ LastUse \in Nat
  BY ChildTurns
<1>2. CInv /\ PInv' /\ running = p /\ UNCHANGED program
  BY DEF ChildTurn
<1>3. Exits /\ UNCHANGED mqd
  BY DEF Makes
<1>4. CASE ExitToParent /\ ReleaseDescrittori(p)
  BY <1>3, <1>4, ChildExitsToInit
<1>5. CASE ExitToReady /\ UNCHANGED mqVars
  <2>1. /\ UNCHANGED <<machine, pid, pcb_pool, waiting_list, syscall_retvalue>> /\ Trap(NULL)
        /\ zombie_list' = zombie_list \cup {p}
    BY <1>2, <1>5 DEF ExitToReady, Exiting, poolVars
  <2>2. UNCHANGED <<messagequeues, descrittori, last_mqd>>
    BY <1>5 DEF mqVars
  <2>3. InitWaits' <=> InitWaits
    BY <2>1, InitWaitsOn
  <2>4. ~Holds(p) /\ ((Holds(p))' <=> Holds(p))
    <3>1. pc[p] \notin 1 .. LastUse /\ pc[p] + 1 \notin 1 .. LastUse
      BY <1>1
    <3>. QED  BY <2>1, <3>1, ChildHoldsOn DEF Holds
  <2>. HIDE DEF Holds
  <2>5. CallsSucceed' /\ CleanShutdown'
    BY <1>2, <2>1 DEF CInv, CallsSucceed, CleanShutdown, Trap, Runs
  <2>. QED  BY <1>3, <2>1, <2>2, <2>3, <2>4, <2>5, ChildStays
<1>6. ~ExitDies
  BY <1>2 DEF ExitDies, Stop, PInv, Survives
<1>. QED  BY <1>2, <1>3, <1>4, <1>5, <1>6 DEF Exits

LEMMA ChildStepCInv ==
  ASSUME CInv, NEW p \in PCB \ {0}, Step(p)
  PROVE  CInv'
<1>. DEFINE c == Child(p)[pc[p] + 1]
<1>1. PInv /\ FunctionsTyped /\ PInv'
  BY ChildStep DEF CInv, PInv
<1>2. p = running /\ p \in Allocated /\ pc[p] \in Nat /\ code[p] # "sleeperFunction"
  BY <1>1, Callers
<1>3. IsChild(p) /\ pid[p] \in Nat
  <2>1. code[p] = "childFunction"
    BY <1>1, <1>2 DEF FunctionsTyped, Functions
  <2>. QED  BY <1>1, <1>2, <2>1 DEF IsChild, Others, PInv, MQInv, IInv, TypeOK
<1>4. /\ pc[p] < Len(Child(p))
      /\ \/ c[1] = "spawn" /\ Spawns(c[2])
         \/ Makes(c[1], c[2]) /\ pc' = [pc EXCEPT ![p] = @ + 1]
  <2>1. Calls(p) = Child(p)
    BY <1>3 DEF IsChild, Calls
  <2>. QED  BY <2>1 DEF Step
<1>5. pc[p] + 1 \in 1 .. Len(Child(p)) /\ LastUse \in Nat /\ LastUse >= 1
  <2>1. Len(Child(p)) \in Nat
    <3>1. Child(p) \in Seq(ChildCalls({0, pid[p], mqd[p]}))
      BY <1>1, <1>3, ChildTyped
    <3>. QED  BY <3>1, LenProperties
  <2>. QED  BY <1>2, <1>4, <2>1, TestProgramsAssumption DEF LastUse
<1>6. /\ pc[p] = 0 => c = <<"open", QueueOf(p)>>
      /\ pc[p] + 1 \in 2 .. LastUse => program # "test" /\ c = <<"receive", mqd[p]>>
      /\ pc[p] = LastUse => c = <<"close", mqd[p]>>
      /\ pc[p] > LastUse => c \in {<<"sleep", 2>>, <<"exit", 0>>}
  <2>. DEFINE k == pc[p] + 1
  <2>1. k \in 1 .. Len(Child(p)) /\ (pc[p] = 0 <=> k = 1) /\ (pc[p] = LastUse <=> k = LastUse + 1)
        /\ (pc[p] > LastUse <=> k > LastUse + 1)
    BY <1>2, <1>5
  <2>. HIDE DEF k
  <2>2. /\ k = 1 => Child(p)[k] = <<"open", QueueOf(p)>>
        /\ k \in 2 .. LastUse => program # "test" /\ Child(p)[k] = <<"receive", mqd[p]>>
        /\ k = LastUse + 1 => Child(p)[k] = <<"close", mqd[p]>>
        /\ k > LastUse + 1 => Child(p)[k] \in {<<"sleep", 2>>, <<"exit", 0>>}
    BY <1>1, <1>3, <2>1, ChildCallAt
  <2>. HIDE DEF Child, QueueOf, LastUse
  <2>. QED  BY <2>1, <2>2 DEF k
<1>. HIDE DEF c, Child, QueueOf, LastUse
<1>7. pc[p] = 0 \/ pc[p] + 1 \in 2 .. LastUse \/ pc[p] = LastUse \/ pc[p] > LastUse
  BY <1>2, <1>5
<1>8. c[1] # "spawn"
  BY <1>6, <1>7
<1>9. Makes(c[1], c[2]) /\ ChildTurn(p)
  <2>1. Makes(c[1], c[2]) /\ pc' = [pc EXCEPT ![p] = @ + 1]
    BY <1>4, <1>8
  <2>2. UNCHANGED <<program, code>>
    BY <2>1 DEF Makes
  <2>. QED  BY <1>1, <1>2, <1>3, <2>1, <2>2 DEF ChildTurn
<1>10. CASE pc[p] = 0
  <2>1. Makes("open", QueueOf(p))
    BY <1>6, <1>9, <1>10
  <2>. QED  BY <1>9, <1>10, <2>1, ChildOpens
<1>11. CASE pc[p] + 1 \in 2 .. LastUse
  <2>1. Makes("receive", mqd[p]) /\ program # "test"
    BY <1>6, <1>9, <1>11
  <2>. QED  BY <1>9, <1>11, <2>1, ChildReceives
<1>12. CASE pc[p] = LastUse
  <2>1. Makes("close", mqd[p])
    BY <1>6, <1>9, <1>12
  <2>. QED  BY <1>9, <1>12, <2>1, ChildCloses
<1>13. CASE pc[p] > LastUse
  <2>1. Makes("sleep", 2) \/ Makes("exit", 0)
    BY <1>6, <1>9, <1>13
  <2>. QED  BY <1>9, <1>13, <2>1, ChildSleeps, ChildExits
<1>. QED  BY <1>7, <1>10, <1>11, <1>12, <1>13

-----------------------------------------------------------------------------
(* A step in which nobody calls.                                           *)
LEMMA NobodyCalls ==
  ASSUME CInv, PInv', UNCHANGED <<mqVars, progVars>>,
         UNCHANGED <<machine, pid, pcb_pool, zombie_list, syscall_retvalue>>,
         machine' # "off" \/ UNCHANGED timer_list,
         InitWaits' <=> InitWaits
  PROVE  CInv'
<1>1. PInv /\ Booked /\ FunctionsTyped /\ MqdsKnown
  BY DEF CInv, PInv, Booked
<1>2. /\ UNCHANGED <<program, code, pc, mqd>>
      /\ UNCHANGED <<messagequeues, descrittori, last_mqd, descrittore_free, message_free>>
  BY DEF progVars, mqVars
<1>3. Now' = Now /\ MqdsKnown'
  <2>1. BooksSame /\ pc'[0] = pc[0] /\ mqd' \in [PCB -> Int]
    BY <1>1, <1>2 DEF BooksSame, MqdsKnown
  <2>. QED  BY <1>1, <2>1, SamePage, MqdsStay
<1>4. QueuesAsBooked' /\ InitHolds'
  BY <1>1, <1>2, <1>3 DEF Booked, QueuesAsBooked, InitHolds
<1>5. Others' = Others /\ ChildrenHold' /\ \A id : Used(id)' <=> Used(id)
  <2>1. ChildrenSame
    BY <1>2 DEF ChildrenSame
  <2>. QED  BY <1>1, <2>1, ChildrenStay DEF Booked
<1>6. FamilyCounted'
  <2>1. One(InitWaits)' = One(InitWaits)
    BY DEF One
  <2>2. Stocked(program, Now)' <=> Stocked(program, Now)
    BY <1>2, <1>3 DEF Stocked, Ids
  <2>. QED  BY <1>1, <1>3, <1>5, <2>1, <2>2 DEF Booked, FamilyCounted
<1>7. UsersAre'
  BY <1>1, <1>2, <1>3, <1>5 DEF Booked, UsersAre, One
<1>8. CallsSucceed' /\ CleanShutdown'
  BY <1>2 DEF CInv, CallsSucceed, CleanShutdown
<1>. QED  BY <1>3, <1>4, <1>5, <1>6, <1>7, <1>8 DEF CInv, Booked

(* A tick wakes those that sleep on a timer: init waits on if it does for  *)
(* a child.                                                                *)
LEMMA TickCInv ==
  ASSUME CInv, Ticks
  PROVE  CInv'
<1>1. /\ UNCHANGED <<mqVars, progVars>> /\ machine = "up"
      /\ UNCHANGED <<machine, pid, pcb_pool, zombie_list, syscall_retvalue, wait_arg>>
      /\ internal_schedule(Tick)
  BY DEF Ticks, timerInterrupt, internal_schedule, pcbVars, poolVars, callVars, Runs
<1>2. waiting_list' = waiting_list \ ToSet(Woken(Tick))
  BY <1>1 DEF internal_schedule, Woken
<1>3. \A p \in ToSet(Woken(Tick)) : wait_arg[p] = NULL
  <2>1. /\ timer_list \in Seq(Timer)
        /\ InOrder(timer_list)
        /\ Sleepers(timer_list) = {p \in waiting_list : wait_arg[p] = NULL}
    BY TimersInvariant DEF CInv, PInv, MQInv, IInv, TypeOK
  <2>2. Tick \in Nat
    BY KernelAssumption DEF CInv, PInv, MQInv, IInv, TypeOK, Tick
  <2>3. ToSet(Woken(Tick)) \subseteq Sleepers(timer_list)
    BY <2>1, <2>2, TimersRang
  <2>. QED  BY <2>1, <2>3
<1>4. InitWaits' <=> InitWaits
  BY <1>1, <1>2, <1>3 DEF InitWaits
<1>5. PInv'
  BY TickStep DEF CInv
<1>. QED  BY <1>1, <1>4, <1>5, NobodyCalls

LEMMA StutterCInv ==
  ASSUME CInv, UNCHANGED <<vars, mqVars, progVars>>
  PROVE  CInv'
<1>1. /\ UNCHANGED <<mqVars, progVars>>
      /\ UNCHANGED <<machine, pid, pcb_pool, zombie_list, syscall_retvalue, wait_arg,
                     waiting_list, timer_list>>
  BY DEF vars, pcbVars, poolVars, schedVars, callVars
<1>2. InitWaits' <=> InitWaits
  BY <1>1 DEF InitWaits
<1>3. PInv'
  BY StutterStep DEF CInv
<1>. QED  BY <1>1, <1>2, <1>3, NobodyCalls

LEMMA ProgramInitCInv == ProgramInit => CInv
BY ProgramInitPInv, ProgramInitBooked DEF CInv

LEMMA ProgramNextCInv ==
  CInv /\ [ProgramNext]_<<vars, mqVars, progVars>> => CInv'
<1>. SUFFICES ASSUME CInv, [ProgramNext]_<<vars, mqVars, progVars>> PROVE CInv'
  OBVIOUS
<1>1. ASSUME NEW p \in PCB, Step(p) PROVE CInv'
  <2>1. CASE p = 0
    BY <1>1, <2>1, InitStepCInv
  <2>2. CASE p # 0
    BY <1>1, <2>2, ChildStepCInv
  <2>. QED  BY <2>1, <2>2
<1>2. CASE Ticks
  BY <1>2, TickCInv
<1>3. CASE Ended /\ UNCHANGED <<mqVars, progVars>>
  BY <1>3, StutterCInv DEF Ended
<1>4. CASE UNCHANGED <<vars, mqVars, progVars>>
  BY <1>4, StutterCInv
<1>. QED  BY <1>1, <1>2, <1>3, <1>4 DEF ProgramNext

-----------------------------------------------------------------------------
(* The inductive invariant with the books: the system is at every moment   *)
(* as the calls that init has made so far and the places of its children   *)
(* in their function leave it (disastrOS_test.c, and                       *)
(* disastrOS_test_mq_bloccanti.c).                                         *)
THEOREM CInvariance == ProgramSpec => []CInv
BY ProgramInitCInv, ProgramNextCInv, PTL DEF ProgramSpec

(* No call of disastrOS_test fails, for any number of queues, messages and *)
(* children for which the pools suffice: mqds are the ids of the queues    *)
(* (disastrOS_test.c:69), and so are the pids of the children              *)
(* (disastrOS_test.c:22), and init unlinks a queue when no child has it    *)
(* open any more.                                                          *)
THEOREM CallsSucceedSafe == ProgramSpec => []CallsSucceed
<1>1. CInv => CallsSucceed
  BY DEF CInv
<1>. QED  BY <1>1, CInvariance, PTL

(* When the programs shut down no queue is left, all messages and          *)
(* descriptors are back in their pools, and no timer runs: whether a child *)
(* exits before or while init waits (disastrOS_exit.c:99), it has closed   *)
(* its queue and woken up.                                                 *)
THEOREM CleanShutdownSafe == ProgramSpec => []CleanShutdown
<1>1. CInv => CleanShutdown
  BY DEF CInv
<1>. QED  BY <1>1, CInvariance, PTL
=============================================================================
