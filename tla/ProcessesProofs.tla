--------------------------- MODULE ProcessesProofs --------------------------
(***************************************************************************)
(* Proofs about the process calls: the process lists stay a partition of   *)
(* the PCBs, and the calls implement the life of a pid, for any number of  *)
(* PCBs, pids, wait arguments and sleeps.                                  *)
(***************************************************************************)
EXTENDS Processes, CollectionLemmas

(* None of the parts is inductive alone.  Placement needs the others: that *)
(* a zombie child that a wait frees, and a waiting parent that an exit     *)
(* wakes, are where their status says (StatusAgrees), that the first child *)
(* with the pid of the process that exits is that process (PidsUnique),    *)
(* that a child is not in the pool already (Family), and that a process    *)
(* whose timer rings was waiting (TimersMatchSleepers).                    *)
IInv ==
  /\ TypeOK
  /\ Placement
  /\ StatusAgrees
  /\ PidsUnique
  /\ Family
  /\ TimersMatchSleepers

LEMMA NullIsNoPCB == NULL \notin PCB /\ NULL \notin Int /\ PCB \subseteq Nat
BY KernelAssumption DEF PCB

-----------------------------------------------------------------------------
(* Timers.                                                                 *)
InOrder(timers) ==
  \A i, j \in 1 .. Len(timers) : i < j =>
    /\ timers[i].pcb # timers[j].pcb
    /\ timers[i].awakening_time <= timers[j].awakening_time

Sleepers(timers) == {timers[i].pcb : i \in 1 .. Len(timers)}

(* The position a new timer gets: behind those that ring no later.         *)
LEMMA FirstLaterIsBetween ==
  ASSUME NEW timers \in Seq(Timer), NEW time \in Nat,
         InOrder(timers)
  PROVE  LET k == FirstLater(timers, time)
         IN  /\ k \in 1 .. Len(timers) + 1
             /\ \A i \in 1 .. Len(timers) : i < k <=> timers[i].awakening_time <= time
<1>. DEFINE I == {i \in 1 .. Len(timers) : timers[i].awakening_time > time}
<1>1. /\ Len(timers) \in Nat
      /\ \A i \in 1 .. Len(timers) : timers[i] \in Timer /\ timers[i].awakening_time \in Nat
  <2>1. Len(timers) \in Nat /\ \A i \in 1 .. Len(timers) : timers[i] \in Timer
    BY Members
  <2>. QED  BY <2>1 DEF Timer
<1>2. CASE I = {}
  <2>1. FirstLater(timers, time) = Len(timers) + 1
    BY <1>2 DEF FirstLater, SelectInSeq
  <2>2. \A i \in 1 .. Len(timers) : timers[i].awakening_time <= time
    BY <1>1, <1>2
  <2>. QED  BY <1>1, <2>1, <2>2
<1>3. CASE I # {}
  <2>1. Min(I) \in I /\ \A i \in I : Min(I) <= i
    <3>1. I \in SUBSET Nat
      OBVIOUS
    <3>. HIDE DEF I
    <3>. QED  BY <1>3, <3>1, FirstPosition
  <2>2. Min(I) # 0
    BY <2>1
  <2>3. FirstLater(timers, time) = Min(I)
    BY <1>3, <2>2 DEF FirstLater, SelectInSeq
  <2>. USE DEF InOrder
  <2>4. \A i \in 1 .. Len(timers) : i < Min(I) => timers[i].awakening_time <= time
    BY <1>1, <2>1
  <2>5. \A i \in 1 .. Len(timers) : ~(i < Min(I)) => timers[i].awakening_time > time
    <3>. DEFINE k == Min(I)
    <3>1. k \in 1 .. Len(timers) /\ timers[k].awakening_time > time
      BY <2>1
    <3>. HIDE DEF k
    <3>2. \A i \in 1 .. Len(timers) : ~(i < k) => timers[i].awakening_time > time
      BY <1>1, <3>1
    <3>. QED  BY <3>2 DEF k
  <2>6. Min(I) \in 1 .. Len(timers) + 1
    BY <1>1, <2>1
  <2>. QED  BY <1>1, <2>3, <2>4, <2>5, <2>6
<1>. QED  BY <1>2, <1>3

(* A process that has no timer gets one.                                   *)
LEMMA TimerAdded ==
  ASSUME NEW timers \in Seq(Timer), NEW time \in Nat, NEW p \in PCB,
         InOrder(timers), p \notin Sleepers(timers)
  PROVE  LET new == TimerList_add(timers, time, p)
         IN  /\ new \in Seq(Timer)
             /\ InOrder(new)
             /\ Sleepers(new) = Sleepers(timers) \cup {p}
<1>. DEFINE n == Len(timers)
            k == FirstLater(timers, time)
            t == [awakening_time |-> time, pcb |-> p]
            new == TimerList_add(timers, time, p)
<1>. HIDE DEF InOrder
<1>1. n \in Nat
  BY Members
<1>2. k \in 1 .. n + 1 /\ \A i \in 1 .. n : i < k <=> timers[i].awakening_time <= time
  BY FirstLaterIsBetween
<1>3. \A i \in 1 .. n : timers[i].awakening_time \in Nat /\ timers[i].pcb \in PCB
  <2>1. \A i \in 1 .. n : timers[i] \in Timer
    BY Members
  <2>. QED  BY <2>1 DEF Timer
<1>4. t \in Timer /\ t.pcb = p /\ t.awakening_time = time
  BY DEF Timer
<1>5. new = InsertAt(timers, k, t)
  BY DEF TimerList_add
<1>. HIDE DEF k, t, new
<1>6. /\ InsertAt(timers, k, t) \in Seq(Timer)
      /\ Len(InsertAt(timers, k, t)) = n + 1
      /\ \A i \in 1 .. n + 1 :
           /\ i < k => InsertAt(timers, k, t)[i] = timers[i]
           /\ i = k => InsertAt(timers, k, t)[i] = t
           /\ i > k => InsertAt(timers, k, t)[i] = timers[i - 1]
  BY <1>2, <1>4, InsertPosition
<1>. HIDE DEF n
<1>7. /\ new \in Seq(Timer)
      /\ Len(new) = n + 1
      /\ \A i \in 1 .. n + 1 :
           /\ i < k => new[i] = timers[i]
           /\ i = k => new[i] = t
           /\ i > k => new[i] = timers[i - 1]
  BY <1>5, <1>6
<1>8. \A i \in 1 .. n : timers[i].pcb # p
  BY DEF Sleepers, n
<1>9. InOrder(new)
  <2>1. SUFFICES ASSUME NEW i \in 1 .. n + 1, NEW j \in 1 .. n + 1, i < j
                 PROVE  /\ new[i].pcb # new[j].pcb
                        /\ new[i].awakening_time <= new[j].awakening_time
    BY <1>7 DEF InOrder
  <2>2. \A x, y \in 1 .. n : x < y =>
          /\ timers[x].pcb # timers[y].pcb
          /\ timers[x].awakening_time <= timers[y].awakening_time
    BY DEF InOrder, n
  <2>3. CASE j < k
    <3>1. i \in 1 .. n /\ j \in 1 .. n /\ new[i] = timers[i] /\ new[j] = timers[j]
      BY <1>1, <1>2, <1>7, <2>1, <2>3
    <3>. QED  BY <2>1, <2>2, <3>1
  <2>4. CASE j = k
    <3>1. i \in 1 .. n /\ i < k /\ new[i] = timers[i] /\ new[j] = t
      BY <1>1, <1>2, <1>7, <2>1, <2>4
    <3>. QED  BY <1>2, <1>4, <1>8, <3>1
  <2>5. CASE i < k /\ j > k
    <3>1. /\ i \in 1 .. n /\ j - 1 \in 1 .. n /\ i < j - 1
          /\ new[i] = timers[i] /\ new[j] = timers[j - 1]
      BY <1>1, <1>2, <1>7, <2>1, <2>5
    <3>. QED  BY <2>2, <3>1
  <2>6. CASE i = k /\ j > k
    <3>1. j - 1 \in 1 .. n /\ ~(j - 1 < k) /\ new[i] = t /\ new[j] = timers[j - 1]
      BY <1>1, <1>2, <1>7, <2>1, <2>6
    <3>2. ~(timers[j - 1].awakening_time <= time) /\ timers[j - 1].pcb # p
      BY <1>2, <1>8, <3>1
    <3>. QED  BY <1>3, <1>4, <3>1, <3>2
  <2>7. CASE i > k /\ j > k
    <3>1. /\ i - 1 \in 1 .. n /\ j - 1 \in 1 .. n /\ i - 1 < j - 1
          /\ new[i] = timers[i - 1] /\ new[j] = timers[j - 1]
      BY <1>1, <1>2, <1>7, <2>1, <2>7
    <3>. QED  BY <2>2, <3>1
  <2>. QED  BY <1>1, <1>2, <2>1, <2>3, <2>4, <2>5, <2>6, <2>7
<1>10. Sleepers(new) = Sleepers(timers) \cup {p}
  <2>1. \A i \in 1 .. n + 1 : new[i].pcb \in Sleepers(timers) \cup {p}
    <3>1. ASSUME NEW i \in 1 .. n + 1
          PROVE  \/ new[i] = t
                 \/ i \in 1 .. n /\ new[i] = timers[i]
                 \/ i - 1 \in 1 .. n /\ new[i] = timers[i - 1]
      BY <1>1, <1>2, <1>7
    <3>. QED  BY <1>4, <3>1 DEF Sleepers, n
  <2>2. k \in 1 .. n + 1 /\ new[k].pcb = p
    BY <1>2, <1>4, <1>7
  <2>3. ASSUME NEW i \in 1 .. n
        PROVE  \E j \in 1 .. n + 1 : new[j].pcb = timers[i].pcb
    <3>1. CASE i < k
      BY <1>1, <1>2, <1>7, <3>1
    <3>2. CASE ~(i < k)
      <4>1. i + 1 \in 1 .. n + 1 /\ ~(i + 1 < k) /\ i + 1 # k /\ i + 1 - 1 = i
        BY <1>1, <1>2, <3>2
      <4>. QED  BY <1>2, <1>7, <4>1
    <3>. QED  BY <3>1, <3>2
  <2>4. Sleepers(new) = {new[j].pcb : j \in 1 .. n + 1}
        /\ Sleepers(timers) = {timers[i].pcb : i \in 1 .. n}
    BY <1>7 DEF Sleepers, n
  <2>. QED  BY <2>1, <2>2, <2>3, <2>4
<1>. QED  BY <1>7, <1>9, <1>10 DEF new

(* The timers that rang are cut off the front of the list.                 *)
Woken(time) == [i \in 1 .. Len(Elapsed(time)) |-> Elapsed(time)[i].pcb]

LEMMA TimersRang ==
  ASSUME timer_list \in Seq(Timer), InOrder(timer_list), NEW time \in Nat
  PROVE  /\ Woken(time) \in Seq(PCB)
         /\ IsInjective(Woken(time))
         /\ Pending(time) \in Seq(Timer)
         /\ InOrder(Pending(time))
         /\ Sleepers(timer_list) = Sleepers(Pending(time)) \cup ToSet(Woken(time))
         /\ Sleepers(Pending(time)) \cap ToSet(Woken(time)) = {}
<1>. DEFINE n == Len(timer_list)
            m == FirstLater(timer_list, time) - 1
            rang == Elapsed(time)
            left == Pending(time)
            woken == Woken(time)
<1>. HIDE DEF InOrder
<1>1. n \in Nat /\ m \in Nat /\ m <= n
  <2>1. n \in Nat /\ FirstLater(timer_list, time) \in 1 .. n + 1
    BY Members, FirstLaterIsBetween
  <2>. QED  BY <2>1
<1>2. rang = SubSeq(timer_list, 1, m)
  BY DEF Elapsed
<1>. HIDE DEF n, m, rang, left, woken
<1>3. Len(rang) = m /\ \A i \in 1 .. m : rang[i] = timer_list[i]
  BY <1>1, <1>2, Cut DEF n
<1>4. left = SubSeq(timer_list, m + 1, n)
  BY <1>3 DEF Pending, left, rang, n
<1>5. left \in Seq(Timer) /\ Len(left) = n - m /\ \A i \in 1 .. n - m : left[i] = timer_list[m + i]
  BY <1>1, <1>4, Cut DEF n
<1>6. woken = [i \in 1 .. m |-> timer_list[i].pcb]
  BY <1>3 DEF woken, Woken, rang
<1>7. \A i \in 1 .. n : timer_list[i].pcb \in PCB
  <2>1. \A i \in 1 .. n : timer_list[i] \in Timer
    BY Members DEF n
  <2>. QED  BY <2>1 DEF Timer
<1>8. \A i, j \in 1 .. n : i < j =>
        /\ timer_list[i].pcb # timer_list[j].pcb
        /\ timer_list[i].awakening_time <= timer_list[j].awakening_time
  BY DEF InOrder, n
<1>9. /\ woken \in Seq(PCB) /\ Len(woken) = m
      /\ \A i \in 1 .. m : i \in 1 .. n /\ woken[i] = timer_list[i].pcb
  <2>1. \A i \in 1 .. m : i \in 1 .. n
    BY <1>1
  <2>. QED  BY <1>1, <1>6, <1>7, <2>1
<1>10. IsInjective(woken)
  <2>1. \A i, j \in 1 .. m : woken[i] = woken[j] => i = j
    BY <1>1, <1>8, <1>9
  <2>. QED  BY <1>9, <2>1, Injective
<1>11. \A i \in 1 .. n - m : m + i \in 1 .. n
  BY <1>1
<1>12. InOrder(left)
  <2>1. \A i, j \in 1 .. n - m : i < j => m + i < m + j
    BY <1>1
  <2>2. \A i, j \in 1 .. n - m : i < j =>
          /\ left[i].pcb # left[j].pcb
          /\ left[i].awakening_time <= left[j].awakening_time
    BY <1>5, <1>8, <1>11, <2>1
  <2>. QED  BY <1>5, <2>2 DEF InOrder
<1>13. /\ Sleepers(timer_list) = {timer_list[i].pcb : i \in 1 .. n}
       /\ Sleepers(left) = {left[i].pcb : i \in 1 .. n - m}
       /\ ToSet(woken) = {woken[i] : i \in 1 .. m}
  BY <1>5, <1>9, Members DEF Sleepers, n
<1>14. Sleepers(timer_list) = Sleepers(left) \cup ToSet(woken)
  <2>1. Sleepers(left) \cup ToSet(woken) \subseteq Sleepers(timer_list)
    <3>1. \A i \in 1 .. n - m : left[i].pcb \in Sleepers(timer_list)
      BY <1>5, <1>11, <1>13
    <3>2. \A i \in 1 .. m : woken[i] \in Sleepers(timer_list)
      BY <1>9, <1>13
    <3>. QED  BY <1>13, <3>1, <3>2
  <2>2. ASSUME NEW i \in 1 .. n
        PROVE  timer_list[i].pcb \in Sleepers(left) \cup ToSet(woken)
    <3>1. CASE i <= m
      <4>1. i \in 1 .. m
        BY <1>1, <3>1
      <4>. QED  BY <1>9, <1>13, <4>1
    <3>2. CASE ~(i <= m)
      <4>1. i - m \in 1 .. n - m /\ m + (i - m) = i
        BY <1>1, <3>2
      <4>2. left[i - m] = timer_list[i]
        BY <1>5, <4>1
      <4>. QED  BY <1>13, <4>1, <4>2
    <3>. QED  BY <3>1, <3>2
  <2>. QED  BY <1>13, <2>1, <2>2
<1>15. Sleepers(left) \cap ToSet(woken) = {}
  <2>1. ASSUME NEW i \in 1 .. n - m, NEW j \in 1 .. m
        PROVE  left[i].pcb # woken[j]
    <3>1. j < m + i /\ j \in 1 .. n /\ m + i \in 1 .. n
      BY <1>1, <1>9, <1>11
    <3>2. timer_list[j].pcb # timer_list[m + i].pcb
      BY <1>8, <3>1
    <3>. QED  BY <1>5, <1>9, <3>2
  <2>. QED  BY <1>13, <2>1
<1>. QED  BY <1>5, <1>9, <1>10, <1>12, <1>14, <1>15 DEF left, woken

-----------------------------------------------------------------------------
(* The inductive invariant.                                                *)

LEMMA TimersInvariant ==
  TimersMatchSleepers <=> /\ InOrder(timer_list)
                          /\ Sleepers(timer_list) = {p \in waiting_list : wait_arg[p] = NULL}
BY DEF TimersMatchSleepers, InOrder, Sleepers

LEMMA InitIInv == Init => IInv
<1>. SUFFICES ASSUME Init PROVE IInv
  OBVIOUS
<1>1. 0 \in PCB /\ MAX_NUM_PROCESSES \in Nat
  BY KernelAssumption DEF PCB
<1>2. /\ pcb_pool \in Seq(PCB)
      /\ IsInjective(pcb_pool)
      /\ ToSet(pcb_pool) = PCB \ {0}
  <2>1. pcb_pool = [i \in 1 .. MAX_NUM_PROCESSES - 1 |-> i]
    BY DEF Init
  <2>. QED  BY <1>1, <2>1 DEF PCB, ToSet, IsInjective
<1>3. TypeOK
  BY <1>1, <1>2, KernelAssumption DEF Init, TypeOK, Statuses, Machines
<1>4. Placement
  BY <1>1, <1>2, EmptyList DEF Init, Placement
<1>5. StatusAgrees
  BY <1>1, <1>2 DEF Init, StatusAgrees
<1>6. PidsUnique
  BY <1>2 DEF Init, PidsUnique
<1>7. Family
  <2>1. \A p \in PCB : children[p] = <<>> /\ parent[p] = NULL
    BY DEF Init
  <2>2. UNION {ToSet(children[p]) : p \in PCB} = {}
    BY <2>1, EmptyList
  <2>3. init_pcb = 0 /\ zombie_list = {}
    BY DEF Init
  <2>. QED  BY <1>1, <1>2, <2>1, <2>2, <2>3, EmptyList DEF Family
<1>8. TimersMatchSleepers
  BY DEF Init, TimersMatchSleepers
<1>. QED  BY <1>3, <1>4, <1>5, <1>6, <1>7, <1>8 DEF IInv

(* A step that leaves everything but machine as it is.                     *)
Stops ==
  /\ machine' \in Machines
  /\ UNCHANGED <<disastrOS_time, context, pcbVars, poolVars, schedVars, callVars>>

LEMMA StopIInv == IInv /\ Stops => IInv'
<1>. SUFFICES ASSUME IInv, Stops PROVE IInv'
  OBVIOUS
<1>. USE DEF Stops, pcbVars, poolVars, schedVars, callVars
<1>1. TypeOK'
  BY DEF IInv, TypeOK
<1>2. Placement'
  BY DEF IInv, Placement
<1>3. StatusAgrees'
  BY DEF IInv, StatusAgrees
<1>4. PidsUnique'
  BY DEF IInv, PidsUnique
<1>5. Family'
  BY DEF IInv, Family
<1>6. TimersMatchSleepers'
  BY DEF IInv, TimersMatchSleepers
<1>. QED  BY <1>1, <1>2, <1>3, <1>4, <1>5, <1>6 DEF IInv

(* A process is booted.                                                    *)
LEMMA RebootIInv == IInv /\ Reboot => IInv'
<1>. SUFFICES ASSUME IInv, Reboot PROVE IInv'
  OBVIOUS
<1>. DEFINE new == Head(pcb_pool)
<1>1. /\ new \in PCB
      /\ Tail(pcb_pool) \in Seq(PCB)
      /\ ToSet(pcb_pool) = ToSet(Tail(pcb_pool)) \cup {new}
      /\ IsInjective(Tail(pcb_pool))
      /\ new \notin ToSet(Tail(pcb_pool))
  BY DetachHead DEF Reboot, IInv, TypeOK, Placement
<1>2. /\ pcb_pool' = Tail(pcb_pool)
      /\ pid' = [pid EXCEPT ![new] = last_pid]
      /\ last_pid' = last_pid + 1
      /\ parent' = [parent EXCEPT ![new] = NULL]
      /\ signals' = [signals EXCEPT ![new] = {}]
      /\ running = NULL
      /\ running' = new
      /\ init_pcb' = new
      /\ status' = [status EXCEPT ![new] = "Running"]
      /\ children' = [children EXCEPT ![new] = <<>>]
      /\ context' = context \cup {new}
      /\ UNCHANGED <<machine, disastrOS_time, pcbptr_free, ready_list, waiting_list,
                     zombie_list, timer_list, wait_arg, syscall_retvalue>>
  BY DEF Reboot, PCB_alloc, callVars
<1>. HIDE DEF new
<1>3. TypeOK'
  <2>1. status' \in [PCB -> Statuses] /\ parent' \in [PCB -> PCB \cup {NULL}]
    BY <1>1, <1>2 DEF IInv, TypeOK, Statuses
  <2>2. pid' \in [PCB -> Nat] /\ last_pid' \in Nat
    BY <1>1, <1>2 DEF IInv, TypeOK
  <2>3. children' \in [PCB -> Seq(PCB)]
    BY <1>2, EmptySeq DEF IInv, TypeOK
  <2>4. signals' \in [PCB -> SUBSET Signals]
    BY <1>2 DEF IInv, TypeOK
  <2>. QED  BY <1>1, <1>2, <2>1, <2>2, <2>3, <2>4 DEF IInv, TypeOK
<1>4. Placement'
  <2>1. ToSet(pcb_pool)' = ToSet(Tail(pcb_pool)) /\ IsInjective(pcb_pool)'
    BY <1>1, <1>2
  <2>2. UNCHANGED <<ready_list, waiting_list, zombie_list>> /\ running' = new /\ running = NULL
    BY <1>2
  <2>. QED  BY <1>1, <2>1, <2>2, NullIsNoPCB DEF IInv, Placement
<1>5. StatusAgrees'
  BY <1>1, <1>2 DEF IInv, TypeOK, Placement, StatusAgrees
<1>6. PidsUnique'
  <2>1. ASSUME NEW p \in PCB \ ToSet(Tail(pcb_pool)), NEW q \in PCB \ ToSet(Tail(pcb_pool))
        PROVE  pid'[p] < last_pid' /\ (pid'[p] = pid'[q] => p = q)
    <3>1. \A x \in PCB \ ToSet(Tail(pcb_pool)) :
            IF x = new THEN pid'[x] = last_pid
                       ELSE pid'[x] = pid[x] /\ x \in PCB \ ToSet(pcb_pool) /\ pid[x] < last_pid
      BY <1>1, <1>2 DEF IInv, TypeOK, PidsUnique
    <3>2. last_pid \in Nat /\ last_pid' = last_pid + 1 /\ \A x \in PCB : pid[x] \in Nat
      BY <1>2 DEF IInv, TypeOK
    <3>. QED  BY <3>1, <3>2 DEF IInv, PidsUnique
  <2>. QED  BY <1>2, <2>1 DEF PidsUnique
<1>7. Family'
  <2>1. children[new] = <<>>
    BY <1>1 DEF IInv, Family
  <2>2. children' = children
    BY <1>1, <1>2, <2>1 DEF IInv, TypeOK
  <2>3. ToSet(pcb_pool)' = ToSet(Tail(pcb_pool)) /\ zombie_list' = zombie_list /\ init_pcb' = new
    BY <1>2
  <2>4. {p \in PCB \ ToSet(pcb_pool)' : parent'[p] # NULL}
          = {p \in PCB \ ToSet(pcb_pool) : parent[p] # NULL}
    BY <1>1, <1>2 DEF IInv, TypeOK
  <2>5. parent'[new] = NULL /\ new \notin zombie_list
    BY <1>1, <1>2 DEF IInv, TypeOK, Placement
  <2>6. \A p \in PCB : children'[p] # <<>> => p \notin zombie_list' \cup ToSet(pcb_pool)'
    BY <1>1, <2>2, <2>3 DEF IInv, Family
  <2>7. UNION {ToSet(children'[p]) : p \in PCB} = {p \in PCB \ ToSet(pcb_pool)' : parent'[p] # NULL}
    BY <2>2, <2>4 DEF IInv, Family
  <2>8. init_pcb' \notin zombie_list' \cup ToSet(pcb_pool)' /\ parent'[init_pcb'] = NULL
    BY <1>1, <2>3, <2>5
  <2>9. /\ \A p \in PCB : IsInjective(children'[p])
        /\ \A p, q \in PCB : p # q => ToSet(children'[p]) \cap ToSet(children'[q]) = {}
    BY <2>2 DEF IInv, Family
  <2>. QED  BY <2>6, <2>7, <2>8, <2>9 DEF Family
<1>8. TimersMatchSleepers'
  BY <1>2 DEF IInv, TimersMatchSleepers
<1>. QED  BY <1>3, <1>4, <1>5, <1>6, <1>7, <1>8 DEF IInv

(* Nothing of the families and of the pool changes.                        *)
LEMMA SamePIDs == IInv /\ UNCHANGED <<pid, last_pid, pcb_pool>> => PidsUnique'
BY DEF IInv, PidsUnique

LEMMA SameFamily ==
  IInv /\ UNCHANGED <<children, parent, init_pcb, zombie_list, pcb_pool>> => Family'
BY DEF IInv, Family

(* The timers that rang wake their processes, and one process has the      *)
(* processor.                                                              *)
LEMMA ScheduleIInv ==
  ASSUME IInv, running \in PCB, NEW time \in Nat,
         internal_schedule(time),
         disastrOS_time' \in 0 .. MaxTime,
         wait_arg' \in [PCB -> Int \cup {NULL}],
         \A p \in PCB \ {running} : wait_arg'[p] = wait_arg[p],
         UNCHANGED <<machine, context, pcbVars, poolVars, syscall_retvalue>>
  PROVE  IInv'
<1>. DEFINE woken == Woken(time)
            ready == woken \o ready_list
<1>1. /\ timer_list \in Seq(Timer)
      /\ InOrder(timer_list)
      /\ Sleepers(timer_list) = {p \in waiting_list : wait_arg[p] = NULL}
  BY TimersInvariant DEF IInv, TypeOK
<1>2. /\ woken \in Seq(PCB)
      /\ IsInjective(woken)
      /\ Pending(time) \in Seq(Timer)
      /\ InOrder(Pending(time))
      /\ Sleepers(timer_list) = Sleepers(Pending(time)) \cup ToSet(woken)
      /\ Sleepers(Pending(time)) \cap ToSet(woken) = {}
  BY <1>1, TimersRang
<1>3. /\ timer_list' = Pending(time)
      /\ waiting_list' = waiting_list \ ToSet(woken)
      /\ zombie_list' = zombie_list
      /\ IF ready = <<>>
         THEN UNCHANGED <<running, ready_list, status>>
         ELSE /\ running' = Head(ready)
              /\ ready_list' = Append(Tail(ready), running)
              /\ status' = [p \in PCB |->
                              CASE p = Head(ready) -> "Running"
                                [] p = running \/ p \in ToSet(woken) -> "Ready"
                                [] OTHER -> status[p]]
  BY DEF internal_schedule, RoundRobin, Woken
<1>4. UNCHANGED <<machine, context, pid, parent, children, signals, init_pcb, last_pid,
                  pcb_pool, pcbptr_free, zombie_list, syscall_retvalue>>
  BY <1>3 DEF pcbVars, poolVars
<1>5. /\ ready_list \in Seq(PCB)
      /\ IsInjective(ready_list)
      /\ ToSet(woken) \subseteq waiting_list
      /\ ToSet(woken) \cap ToSet(ready_list) = {}
  BY <1>1, <1>2 DEF IInv, TypeOK, Placement
<1>. HIDE DEF woken
<1>6. /\ ready \in Seq(PCB)
      /\ ToSet(ready) = ToSet(woken) \cup ToSet(ready_list)
      /\ IsInjective(ready)
  BY <1>2, <1>5, Concatenate
<1>. HIDE DEF ready
<1>7. \A p \in PCB \ {running} : wait_arg'[p] = wait_arg[p]
  OBVIOUS
<1>8. running \notin waiting_list
  BY DEF IInv, Placement
<1>9. TimersMatchSleepers'
  <2>1. Sleepers(Pending(time)) = {p \in waiting_list' : wait_arg'[p] = NULL}
    BY <1>1, <1>2, <1>3, <1>7, <1>8 DEF IInv, TypeOK
  <2>. QED  BY <1>2, <1>3, <2>1 DEF TimersMatchSleepers, InOrder, Sleepers
<1>10. PidsUnique' /\ Family'
  BY <1>4, SamePIDs, SameFamily
<1>11. CASE ready = <<>>
  <2>1. ToSet(woken) = {}
    BY <1>6, <1>11, EmptyList
  <2>2. UNCHANGED <<running, ready_list, status, waiting_list>>
    BY <1>3, <1>11, <2>1
  <2>3. TypeOK'
    BY <1>2, <1>3, <1>4, <2>2 DEF IInv, TypeOK
  <2>4. Placement' /\ StatusAgrees'
    BY <1>4, <2>2 DEF IInv, Placement, StatusAgrees
  <2>. QED  BY <1>9, <1>10, <2>3, <2>4 DEF IInv
<1>12. CASE ready # <<>>
  <2>. DEFINE next == Head(ready)
              last == Append(Tail(ready), running)
  <2>1. /\ next \in PCB
        /\ Tail(ready) \in Seq(PCB)
        /\ ToSet(ready) = ToSet(Tail(ready)) \cup {next}
        /\ IsInjective(Tail(ready))
        /\ next \notin ToSet(Tail(ready))
    BY <1>6, <1>12, DetachHead
  <2>2. running \notin ToSet(ready)
    BY <1>5, <1>6 DEF IInv, Placement
  <2>3. /\ last \in Seq(PCB)
        /\ ToSet(last) = ToSet(Tail(ready)) \cup {running}
        /\ IsInjective(last)
    <3>. DEFINE rest == Tail(ready)
    <3>1. rest \in Seq(PCB) /\ IsInjective(rest) /\ running \notin ToSet(rest)
      BY <2>1, <2>2
    <3>. HIDE DEF rest
    <3>2. /\ Append(rest, running) \in Seq(PCB)
          /\ ToSet(Append(rest, running)) = ToSet(rest) \cup {running}
          /\ IsInjective(Append(rest, running))
      BY <3>1, InsertLast
    <3>. QED  BY <3>2 DEF rest
  <2>4. /\ running' = next
        /\ ready_list' = last
        /\ status' = [p \in PCB |->
                        CASE p = next -> "Running"
                          [] p = running \/ p \in ToSet(woken) -> "Ready"
                          [] OTHER -> status[p]]
    BY <1>3, <1>12
  <2>. HIDE DEF next, last
  <2>5. TypeOK'
    <3>1. status' \in [PCB -> Statuses]
      BY <2>4 DEF IInv, TypeOK, Statuses
    <3>. QED  BY <1>2, <1>3, <1>4, <2>1, <2>3, <2>4, <3>1 DEF IInv, TypeOK
  <2>6. Placement'
    <3>1. ToSet(ready_list') = ToSet(last) /\ IsInjective(ready_list')
      BY <2>3, <2>4
    <3>. QED  BY <1>3, <1>4, <1>5, <1>6, <2>1, <2>2, <2>3, <2>4, <3>1 DEF IInv, Placement
  <2>7. StatusAgrees'
    <3>1. \A p \in PCB : p \in waiting_list' <=> status'[p] = "Waiting"
      BY <1>3, <1>5, <1>6, <1>8, <2>1, <2>4 DEF IInv, StatusAgrees, Placement
    <3>2. next \notin zombie_list /\ running \notin zombie_list \cup ToSet(pcb_pool)
          /\ next \notin ToSet(pcb_pool)
      BY <1>5, <1>6, <2>1 DEF IInv, Placement
    <3>3. \A p \in PCB : p \in zombie_list => p \notin ToSet(woken)
      BY <1>5 DEF IInv, Placement
    <3>4. \A p \in PCB : p \in zombie_list' <=> status'[p] = "Zombie" /\ p \notin ToSet(pcb_pool)
      BY <1>3, <2>4, <3>2, <3>3 DEF IInv, StatusAgrees
    <3>. QED  BY <1>4, <3>1, <3>4 DEF StatusAgrees
  <2>. QED  BY <1>9, <1>10, <2>5, <2>6, <2>7 DEF IInv
<1>. QED  BY <1>11, <1>12

-----------------------------------------------------------------------------
(* A process is spawned or forked.                                         *)
LEMMA NewProcessIInv ==
  ASSUME IInv, NewProcess, context' \in SUBSET PCB
  PROVE  IInv'
<1>. DEFINE new == Head(pcb_pool)
            rest == Tail(pcb_pool)
<1>1. /\ new \in PCB
      /\ rest \in Seq(PCB)
      /\ ToSet(pcb_pool) = ToSet(rest) \cup {new}
      /\ IsInjective(rest)
      /\ new \notin ToSet(rest)
  BY DetachHead DEF NewProcess, IInv, TypeOK, Placement
<1>2. /\ running \in PCB
      /\ pcbptr_free > 0
      /\ wait_arg' = [wait_arg EXCEPT ![running] = NULL]
      /\ pcb_pool' = rest
      /\ pcbptr_free' = pcbptr_free - 1
      /\ pid' = [pid EXCEPT ![new] = last_pid]
      /\ last_pid' = last_pid + 1
      /\ parent' = [parent EXCEPT ![new] = running]
      /\ signals' = [signals EXCEPT ![new] = {}]
      /\ status' = [status EXCEPT ![new] = "Ready"]
      /\ children' = [children EXCEPT ![new] = <<>>, ![running] = Append(@, new)]
      /\ ready_list' = Append(ready_list, new)
      /\ syscall_retvalue' = [syscall_retvalue EXCEPT ![running] = last_pid]
      /\ UNCHANGED <<machine, disastrOS_time, init_pcb, running, waiting_list,
                     zombie_list, timer_list>>
  BY DEF NewProcess, Trap, Runs, HasPCBPtr, PCB_alloc, Return, IInv, TypeOK
<1>. HIDE DEF new, rest
<1>3. /\ new \notin waiting_list \cup zombie_list \cup ToSet(ready_list) \cup {running}
      /\ running \notin waiting_list \cup zombie_list \cup ToSet(pcb_pool)
  BY <1>1 DEF IInv, Placement
<1>4. /\ Append(ready_list, new) \in Seq(PCB)
      /\ ToSet(Append(ready_list, new)) = ToSet(ready_list) \cup {new}
      /\ IsInjective(Append(ready_list, new))
  BY <1>1, <1>3, InsertLast DEF IInv, TypeOK, Placement
<1>5. /\ new \notin UNION {ToSet(children[p]) : p \in PCB}
      /\ children[new] = <<>>
      /\ children[running] \in Seq(PCB) /\ IsInjective(children[running])
      /\ new \notin ToSet(children[running])
  BY <1>1, <1>2 DEF IInv, TypeOK, Family
<1>6. /\ Append(children[running], new) \in Seq(PCB)
      /\ ToSet(Append(children[running], new)) = ToSet(children[running]) \cup {new}
      /\ IsInjective(Append(children[running], new))
  BY <1>1, <1>5, InsertLast
<1>7. \A p \in PCB : children'[p] = IF p = running THEN Append(children[running], new) ELSE children[p]
  BY <1>1, <1>2, <1>3, <1>5 DEF IInv, TypeOK
<1>8. TypeOK'
  <2>1. children' \in [PCB -> Seq(PCB)]
    BY <1>2, <1>6, <1>7 DEF IInv, TypeOK
  <2>2. pid' \in [PCB -> Nat] /\ last_pid' \in Nat /\ syscall_retvalue' \in [PCB -> Int]
    BY <1>1, <1>2, SMTT(30) DEF IInv, TypeOK
  <2>3. wait_arg' \in [PCB -> Int \cup {NULL}] /\ parent' \in [PCB -> PCB \cup {NULL}]
    BY <1>1, <1>2 DEF IInv, TypeOK
  <2>4. status' \in [PCB -> Statuses] /\ signals' \in [PCB -> SUBSET Signals]
    BY <1>1, <1>2 DEF IInv, TypeOK, Statuses
  <2>5. pcbptr_free' \in Nat
    BY <1>2 DEF IInv, TypeOK
  <2>. QED  BY <1>1, <1>2, <1>4, <2>1, <2>2, <2>3, <2>4, <2>5 DEF IInv, TypeOK
<1>9. Placement'
  BY <1>1, <1>2, <1>3, <1>4 DEF IInv, Placement
<1>10. StatusAgrees'
  BY <1>1, <1>2, <1>3 DEF IInv, TypeOK, StatusAgrees
<1>11. PidsUnique'
  <2>1. \A x \in PCB \ ToSet(rest) :
          IF x = new THEN pid'[x] = last_pid
                     ELSE pid'[x] = pid[x] /\ x \in PCB \ ToSet(pcb_pool) /\ pid[x] < last_pid
    BY <1>1, <1>2 DEF IInv, TypeOK, PidsUnique
  <2>2. last_pid \in Nat /\ last_pid' = last_pid + 1 /\ \A x \in PCB : pid[x] \in Nat
    BY <1>2 DEF IInv, TypeOK
  <2>3. ASSUME NEW p \in PCB \ ToSet(rest), NEW q \in PCB \ ToSet(rest)
        PROVE  pid'[p] < last_pid' /\ (pid'[p] = pid'[q] => p = q)
    BY <2>1, <2>2 DEF IInv, PidsUnique
  <2>. QED  BY <1>2, <2>3 DEF PidsUnique
<1>12. Family'
  <2>1. /\ \A p \in PCB : IsInjective(children'[p])
        /\ \A p \in PCB : ToSet(children'[p])
             = IF p = running THEN ToSet(children[running]) \cup {new} ELSE ToSet(children[p])
    BY <1>6, <1>7 DEF IInv, Family
  <2>2. \A p, q \in PCB : p # q => ToSet(children'[p]) \cap ToSet(children'[q]) = {}
    <3>1. SUFFICES ASSUME NEW p \in PCB, NEW q \in PCB, p # q
                   PROVE  ToSet(children'[p]) \cap ToSet(children'[q]) = {}
      OBVIOUS
    <3>2. ToSet(children[p]) \cap ToSet(children[q]) = {}
      BY <3>1 DEF IInv, Family
    <3>3. new \notin ToSet(children[p]) /\ new \notin ToSet(children[q])
      BY <1>5
    <3>. QED  BY <2>1, <3>1, <3>2, <3>3
  <2>3. \A p \in PCB : children'[p] # <<>> => p \notin zombie_list' \cup ToSet(pcb_pool')
    BY <1>1, <1>2, <1>3, <1>7 DEF IInv, Family
  <2>4. UNION {ToSet(children'[p]) : p \in PCB}
          = (UNION {ToSet(children[p]) : p \in PCB}) \cup {new}
    <3>1. ASSUME NEW p \in PCB
          PROVE  ToSet(children'[p]) \subseteq (UNION {ToSet(children[q]) : q \in PCB}) \cup {new}
      BY <2>1
    <3>2. ASSUME NEW p \in PCB
          PROVE  ToSet(children[p]) \subseteq UNION {ToSet(children'[q]) : q \in PCB}
      BY <2>1
    <3>3. new \in ToSet(children'[running])
      <4>1. running \in PCB
        BY <1>2
      <4>. QED  BY <2>1, <4>1
    <3>4. new \in UNION {ToSet(children'[q]) : q \in PCB}
      BY <1>2, <3>3
    <3>. QED  BY <3>1, <3>2, <3>4
  <2>5. {p \in PCB \ ToSet(pcb_pool') : parent'[p] # NULL}
          = {p \in PCB \ ToSet(pcb_pool) : parent[p] # NULL} \cup {new}
    <3>1. \A p \in PCB : parent'[p] = IF p = new THEN running ELSE parent[p]
      BY <1>1, <1>2 DEF IInv, TypeOK
    <3>2. running # NULL
      BY <1>2, NullIsNoPCB
    <3>. QED  BY <1>1, <1>2, <3>1, <3>2
  <2>6. parent'[init_pcb'] = NULL /\ init_pcb' \notin zombie_list' \cup ToSet(pcb_pool')
    BY <1>1, <1>2 DEF IInv, TypeOK, Family
  <2>7. UNION {ToSet(children'[p]) : p \in PCB} = {p \in PCB \ ToSet(pcb_pool') : parent'[p] # NULL}
    BY <2>4, <2>5 DEF IInv, Family
  <2>. QED  BY <2>1, <2>2, <2>3, <2>6, <2>7 DEF Family
<1>13. TimersMatchSleepers'
  <2>1. {p \in waiting_list' : wait_arg'[p] = NULL} = {p \in waiting_list : wait_arg[p] = NULL}
    BY <1>2, <1>3 DEF IInv, TypeOK
  <2>. QED  BY <1>2, <2>1 DEF IInv, TimersMatchSleepers
<1>. QED  BY <1>8, <1>9, <1>10, <1>11, <1>12, <1>13 DEF IInv

-----------------------------------------------------------------------------
(* The running process blocks, in wait or in sleep.                        *)
LEMMA BlockPlaces ==
  ASSUME IInv, running \in PCB, Block, UNCHANGED <<zombie_list, pcb_pool>>
  PROVE  /\ running' \in PCB \cup {NULL}
         /\ ready_list' \in Seq(PCB)
         /\ waiting_list' = waiting_list \cup {running}
         /\ status' \in [PCB -> Statuses]
         /\ Placement'
         /\ StatusAgrees'
<1>1. /\ status' = [status EXCEPT ![running] = "Waiting"]
      /\ waiting_list' = waiting_list \cup {running}
      /\ IF ready_list = <<>>
         THEN running' = NULL /\ ready_list' = ready_list
         ELSE running' = Head(ready_list) /\ ready_list' = Tail(ready_list)
  BY DEF Block, SwitchToReady
<1>2. running \notin zombie_list \cup ToSet(pcb_pool)
  BY DEF IInv, Placement
<1>3. status' \in [PCB -> Statuses] /\ StatusAgrees'
  BY <1>1, <1>2 DEF IInv, TypeOK, Statuses, StatusAgrees
<1>4. CASE ready_list = <<>>
  <2>1. running' = NULL /\ ready_list' = ready_list /\ ToSet(ready_list) = {}
    BY <1>1, <1>4, EmptyList
  <2>2. Placement'
    <3>1. ToSet(pcb_pool) \subseteq PCB /\ waiting_list' \cup zombie_list \subseteq PCB
      BY <1>1, Members DEF IInv, TypeOK
    <3>2. NULL \notin ToSet(ready_list') \cup waiting_list' \cup zombie_list \cup ToSet(pcb_pool)
      BY <2>1, <3>1, NullIsNoPCB
    <3>. QED  BY <1>1, <1>2, <2>1, <3>2 DEF IInv, Placement
  <2>. QED  BY <1>1, <1>3, <2>1, <2>2 DEF IInv, TypeOK
<1>5. CASE ready_list # <<>>
  <2>. DEFINE next == Head(ready_list)
              rest == Tail(ready_list)
  <2>1. /\ next \in PCB
        /\ rest \in Seq(PCB)
        /\ ToSet(ready_list) = ToSet(rest) \cup {next}
        /\ IsInjective(rest)
        /\ next \notin ToSet(rest)
    BY <1>5, DetachHead DEF IInv, TypeOK, Placement
  <2>2. running' = next /\ ready_list' = rest
    BY <1>1, <1>5
  <2>. HIDE DEF next, rest
  <2>3. Placement'
    BY <1>1, <1>2, <2>1, <2>2 DEF IInv, Placement
  <2>. QED  BY <1>1, <1>3, <2>1, <2>2, <2>3
<1>. QED  BY <1>4, <1>5

LEMMA WaitBlocksIInv ==
  ASSUME IInv, NEW q \in WaitPids, WaitBlocks(q)
  PROVE  IInv'
<1>1. /\ running \in PCB
      /\ wait_arg' = [wait_arg EXCEPT ![running] = q]
      /\ Block
      /\ UNCHANGED <<machine, disastrOS_time, context, pid, parent, children, signals,
                     init_pcb, last_pid, pcb_pool, pcbptr_free, zombie_list, timer_list,
                     syscall_retvalue>>
  BY DEF WaitBlocks, Trap, Runs, IInv, TypeOK, pcbVars, poolVars
<1>2. /\ running' \in PCB \cup {NULL}
      /\ ready_list' \in Seq(PCB)
      /\ waiting_list' = waiting_list \cup {running}
      /\ status' \in [PCB -> Statuses]
      /\ Placement'
      /\ StatusAgrees'
  BY <1>1, BlockPlaces
<1>3. q \in Int /\ q # NULL
  BY ProcessesAssumption, NullIsNoPCB
<1>4. TypeOK'
  BY <1>1, <1>2, <1>3 DEF IInv, TypeOK
<1>5. PidsUnique' /\ Family'
  BY <1>1, SamePIDs, SameFamily
<1>6. TimersMatchSleepers'
  <2>1. running \notin waiting_list
    BY DEF IInv, Placement
  <2>2. {p \in waiting_list' : wait_arg'[p] = NULL} = {p \in waiting_list : wait_arg[p] = NULL}
    BY <1>1, <1>2, <1>3, <2>1 DEF IInv, TypeOK
  <2>. QED  BY <1>1, <2>2 DEF IInv, TimersMatchSleepers
<1>. QED  BY <1>2, <1>4, <1>5, <1>6 DEF IInv

(* A call that answers at once and changes none of the processes.          *)
LEMMA AnswerIInv ==
  ASSUME IInv, running \in PCB,
         NEW arg \in Int \cup {NULL}, wait_arg' = [wait_arg EXCEPT ![running] = arg],
         syscall_retvalue' \in [PCB -> Int],
         UNCHANGED <<machine, disastrOS_time, context, pcbVars, poolVars, schedVars>>
  PROVE  IInv'
<1>. USE DEF pcbVars, poolVars, schedVars
<1>1. TypeOK'
  <2>1. wait_arg' \in [PCB -> Int \cup {NULL}]
    BY DEF IInv, TypeOK
  <2>. QED  BY <2>1 DEF IInv, TypeOK
<1>2. Placement' /\ StatusAgrees'
  BY DEF IInv, Placement, StatusAgrees
<1>3. PidsUnique' /\ Family'
  BY SamePIDs, SameFamily
<1>4. TimersMatchSleepers'
  <2>1. running \notin waiting_list
    BY DEF IInv, Placement
  <2>2. {p \in waiting_list' : wait_arg'[p] = NULL} = {p \in waiting_list : wait_arg[p] = NULL}
    BY <2>1 DEF IInv, TypeOK
  <2>. QED  BY <2>2 DEF IInv, TimersMatchSleepers
<1>. QED  BY <1>1, <1>2, <1>3, <1>4 DEF IInv

(* The running process waits on a timer.                                   *)
LEMMA WaitOnTimerIInv ==
  ASSUME IInv, running \in PCB, NEW wake_time \in Nat,
         wait_arg' = [wait_arg EXCEPT ![running] = NULL],
         WaitOnTimer(wake_time),
         syscall_retvalue' \in [PCB -> Int],
         UNCHANGED <<machine, disastrOS_time, context, pcbVars, poolVars, zombie_list>>
  PROVE  IInv'
<1>. USE DEF pcbVars, poolVars
<1>1. running \notin waiting_list
  BY DEF IInv, Placement
<1>2. PidsUnique' /\ Family'
  BY SamePIDs, SameFamily
<1>3. wait_arg' \in [PCB -> Int \cup {NULL}]
  BY DEF IInv, TypeOK
<1>4. /\ timer_list' = TimerList_add(timer_list, wake_time, running)
      /\ Block
  BY DEF WaitOnTimer
<1>5. /\ timer_list \in Seq(Timer)
      /\ InOrder(timer_list)
      /\ Sleepers(timer_list) = {p \in waiting_list : wait_arg[p] = NULL}
  BY TimersInvariant DEF IInv, TypeOK
<1>6. /\ timer_list' \in Seq(Timer)
      /\ InOrder(timer_list')
      /\ Sleepers(timer_list') = Sleepers(timer_list) \cup {running}
  BY <1>1, <1>4, <1>5, TimerAdded
<1>7. /\ running' \in PCB \cup {NULL}
      /\ ready_list' \in Seq(PCB)
      /\ waiting_list' = waiting_list \cup {running}
      /\ status' \in [PCB -> Statuses]
      /\ Placement'
      /\ StatusAgrees'
  BY <1>4, BlockPlaces
<1>8. TypeOK'
  BY <1>3, <1>6, <1>7 DEF IInv, TypeOK
<1>9. TimersMatchSleepers'
  <2>1. {p \in waiting_list' : wait_arg'[p] = NULL} = Sleepers(timer_list')
    BY <1>1, <1>5, <1>6, <1>7 DEF IInv, TypeOK
  <2>. QED  BY <1>6, <2>1 DEF TimersMatchSleepers, InOrder, Sleepers
<1>. QED  BY <1>2, <1>7, <1>8, <1>9 DEF IInv

LEMMA SleepIInv ==
  ASSUME IInv, NEW cycles \in SleepCycles, internal_sleep(cycles)
  PROVE  IInv'
<1>1. /\ running \in PCB
      /\ disastrOS_time + cycles \in Nat
      /\ wait_arg' = [wait_arg EXCEPT ![running] = NULL]
      /\ syscall_retvalue \in [PCB -> Int]
      /\ UNCHANGED <<machine, disastrOS_time, context, pcbVars, poolVars, zombie_list>>
  BY ProcessesAssumption DEF internal_sleep, Trap, Runs, IInv, TypeOK
<1>2. CASE Len(timer_list) < MAX_NUM_PROCESSES
  <2>1. WaitOnTimer(disastrOS_time + cycles) /\ UNCHANGED syscall_retvalue
    BY <1>2 DEF internal_sleep
  <2>. QED  BY <1>1, <2>1, WaitOnTimerIInv
<1>3. CASE ~(Len(timer_list) < MAX_NUM_PROCESSES)
  <2>1. /\ syscall_retvalue' = [syscall_retvalue EXCEPT ![running] = DSOS_ESLEEP]
        /\ UNCHANGED schedVars
    BY <1>1, <1>3 DEF internal_sleep, Return, schedVars
  <2>2. syscall_retvalue' \in [PCB -> Int]
    BY <1>1, <2>1 DEF DSOS_ESLEEP
  <2>. QED  BY <1>1, <2>1, <2>2, AnswerIInv
<1>. QED  BY <1>2, <1>3

-----------------------------------------------------------------------------
(* A wait returns at once, without children or with a zombie to reap.      *)
LEMMA WaitWithoutChildrenIInv ==
  ASSUME IInv, NEW q \in WaitPids, WaitWithoutChildren(q)
  PROVE  IInv'
<1>1. /\ running \in PCB
      /\ wait_arg' = [wait_arg EXCEPT ![running] = q]
      /\ syscall_retvalue' = [syscall_retvalue EXCEPT ![running] = DSOS_EWAIT]
      /\ UNCHANGED <<machine, disastrOS_time, context, pcbVars, poolVars, schedVars>>
  BY DEF WaitWithoutChildren, Trap, Return, Runs, IInv, TypeOK
<1>2. q \in Int \cup {NULL} /\ syscall_retvalue' \in [PCB -> Int]
  BY <1>1, ProcessesAssumption DEF IInv, TypeOK, DSOS_EWAIT
<1>. QED  BY <1>1, <1>2, AnswerIInv

LEMMA AwaitedIsAChild ==
  ASSUME NEW q, children[running] \in Seq(PCB), children[running] # <<>>
  PROVE  Awaited(q) \in ToSet(children[running])
<1>. DEFINE list == children[running]
            I == {i \in 1 .. Len(list) : IF q = 0 THEN status[list[i]] = "Zombie"
                                                 ELSE pid[list[i]] = q}
<1>1. Len(list) \in 1 .. Len(list) /\ \A i \in 1 .. Len(list) : list[i] \in ToSet(list)
  BY Members
<1>2. CASE I = {}
  <2>1. Awaited(q) = list[Len(list)]
    BY <1>2 DEF Awaited, SelectInSeq, Last
  <2>. QED  BY <1>1, <2>1
<1>3. CASE I # {}
  <2>1. Min(I) \in I
    <3>1. I \in SUBSET Nat
      OBVIOUS
    <3>. HIDE DEF I
    <3>. QED  BY <1>3, <3>1, FirstPosition
  <2>2. Min(I) \in 1 .. Len(list) /\ Min(I) # 0
    BY <2>1
  <2>3. Awaited(q) = list[Min(I)]
    BY <1>3, <2>2 DEF Awaited, SelectInSeq
  <2>. QED  BY <1>1, <2>2, <2>3
<1>. QED  BY <1>2, <1>3

LEMMA WaitReapsIInv ==
  ASSUME IInv, NEW q \in WaitPids, WaitReaps(q)
  PROVE  IInv'
<1>. DEFINE dead == Awaited(q)
            others == RemoveFirst(children[running], dead)
            pool == Cons(dead, pcb_pool)
<1>1. /\ running \in PCB
      /\ children[running] # <<>>
      /\ status[dead] = "Zombie"
      /\ wait_arg' = [wait_arg EXCEPT ![running] = q]
      /\ children' = [children EXCEPT ![running] = others]
      /\ pcbptr_free' = pcbptr_free + 1
      /\ zombie_list' = zombie_list \ {dead}
      /\ pcb_pool' = pool
      /\ syscall_retvalue' = [syscall_retvalue EXCEPT ![running] = pid[dead]]
      /\ UNCHANGED <<machine, disastrOS_time, context, pid, parent, signals, init_pcb,
                     last_pid, running, ready_list, waiting_list, timer_list, status>>
  BY DEF WaitReaps, Trap, Return, Runs, Detach, IInv, TypeOK
<1>2. /\ children[running] \in Seq(PCB)
      /\ dead \in ToSet(children[running])
  BY <1>1, AwaitedIsAChild DEF IInv, TypeOK
<1>. HIDE DEF dead
<1>3. /\ dead \in PCB
      /\ dead \notin ToSet(pcb_pool)
      /\ parent[dead] # NULL
      /\ dead \in zombie_list
      /\ dead # running
  <2>1. dead \in UNION {ToSet(children[p]) : p \in PCB}
    BY <1>1, <1>2
  <2>2. dead \in PCB \ ToSet(pcb_pool) /\ parent[dead] # NULL
    BY <2>1 DEF IInv, Family
  <2>3. dead \in zombie_list
    BY <1>1, <2>2 DEF IInv, StatusAgrees
  <2>. QED  BY <2>2, <2>3 DEF IInv, Placement
<1>4. /\ others \in Seq(PCB)
      /\ ToSet(children[running]) = ToSet(others) \cup {dead}
      /\ IsInjective(others) /\ dead \notin ToSet(others)
  BY <1>1, <1>2, DetachItem DEF IInv, Family
<1>5. /\ pool \in Seq(PCB)
      /\ ToSet(pool) = ToSet(pcb_pool) \cup {dead}
      /\ IsInjective(pool)
  BY <1>3, InsertFirst DEF IInv, TypeOK, Placement
<1>. HIDE DEF others, pool
<1>6. TypeOK'
  <2>1. wait_arg' \in [PCB -> Int \cup {NULL}]
    BY <1>1, ProcessesAssumption DEF IInv, TypeOK
  <2>2. syscall_retvalue' \in [PCB -> Int]
    BY <1>1, <1>3 DEF IInv, TypeOK
  <2>3. children' \in [PCB -> Seq(PCB)] /\ pcbptr_free' \in Nat
    BY <1>1, <1>4 DEF IInv, TypeOK
  <2>. QED  BY <1>1, <1>5, <2>1, <2>2, <2>3 DEF IInv, TypeOK
<1>7. Placement'
  BY <1>1, <1>3, <1>5 DEF IInv, Placement
<1>8. StatusAgrees'
  BY <1>1, <1>3, <1>5 DEF IInv, StatusAgrees
<1>9. PidsUnique'
  BY <1>1, <1>5 DEF IInv, PidsUnique
<1>10. Family'
  <2>1. \A p \in PCB : children'[p] = IF p = running THEN others ELSE children[p]
    BY <1>1 DEF IInv, TypeOK
  <2>2. \A p \in PCB : ToSet(children'[p]) = ToSet(children[p]) \ {dead}
    <3>1. ASSUME NEW p \in PCB, p # running PROVE dead \notin ToSet(children[p])
      BY <1>1, <1>2, <3>1 DEF IInv, Family
    <3>. QED  BY <1>4, <2>1, <3>1
  <2>3. /\ \A p \in PCB : IsInjective(children'[p])
        /\ \A p, q_1 \in PCB : p # q_1 => ToSet(children'[p]) \cap ToSet(children'[q_1]) = {}
    BY <1>4, <2>1, <2>2 DEF IInv, Family
  <2>4. \A p \in PCB : children'[p] # <<>> => p \notin zombie_list' \cup ToSet(pcb_pool')
    <3>1. children[dead] = <<>> /\ running \notin zombie_list \cup ToSet(pcb_pool)
      BY <1>3 DEF IInv, Family, Placement
    <3>. QED  BY <1>1, <1>3, <1>5, <2>1, <3>1 DEF IInv, Family
  <2>5. UNION {ToSet(children'[p]) : p \in PCB}
          = (UNION {ToSet(children[p]) : p \in PCB}) \ {dead}
    BY <2>2
  <2>6. {p \in PCB \ ToSet(pcb_pool') : parent'[p] # NULL}
          = {p \in PCB \ ToSet(pcb_pool) : parent[p] # NULL} \ {dead}
    BY <1>1, <1>5
  <2>7. UNION {ToSet(children'[p]) : p \in PCB} = {p \in PCB \ ToSet(pcb_pool') : parent'[p] # NULL}
    BY <2>5, <2>6 DEF IInv, Family
  <2>8. parent'[init_pcb'] = NULL /\ init_pcb' \notin zombie_list' \cup ToSet(pcb_pool')
    BY <1>1, <1>3, <1>5 DEF IInv, Family
  <2>. QED  BY <2>3, <2>4, <2>7, <2>8 DEF Family
<1>11. TimersMatchSleepers'
  <2>1. running \notin waiting_list
    BY DEF IInv, Placement
  <2>2. {p \in waiting_list' : wait_arg'[p] = NULL} = {p \in waiting_list : wait_arg[p] = NULL}
    BY <1>1, <2>1 DEF IInv, TypeOK
  <2>. QED  BY <1>1, <2>2 DEF IInv, TimersMatchSleepers
<1>. QED  BY <1>6, <1>7, <1>8, <1>9, <1>10, <1>11 DEF IInv

-----------------------------------------------------------------------------
(* Exit.                                                                   *)

(* The process that exits is not init, which has no parent; its children   *)
(* become init's.                                                          *)
LEMMA ReparentedFamily ==
  ASSUME IInv, running \in PCB, parent[running] # NULL
  PROVE  /\ init_pcb \in PCB \ {running}
         /\ Reparented \in [PCB -> Seq(PCB)]
         /\ Reparented[running] = <<>>
         /\ \A p \in PCB \ {running, init_pcb} : Reparented[p] = children[p]
         /\ \A p \in PCB : IsInjective(Reparented[p])
         /\ \A p, q \in PCB : p # q => ToSet(Reparented[p]) \cap ToSet(Reparented[q]) = {}
         /\ UNION {ToSet(Reparented[p]) : p \in PCB} = UNION {ToSet(children[p]) : p \in PCB}
<1>. DEFINE mine == children[running]
            his  == children[init_pcb]
            both == his \o mine
<1>1. init_pcb \in PCB /\ init_pcb # running
  BY DEF IInv, TypeOK, Family
<1>2. /\ mine \in Seq(PCB) /\ IsInjective(mine)
      /\ his \in Seq(PCB) /\ IsInjective(his)
      /\ ToSet(his) \cap ToSet(mine) = {}
  BY <1>1 DEF IInv, TypeOK, Family
<1>3. both \in Seq(PCB) /\ IsInjective(both) /\ ToSet(both) = ToSet(his) \cup ToSet(mine)
  <2>. HIDE DEF mine, his
  <2>. QED  BY <1>2, Concatenate
<1>. HIDE DEF mine, his, both
<1>4. Reparented = [p \in PCB |-> IF p = running THEN <<>>
                                  ELSE IF p = init_pcb THEN both ELSE children[p]]
  BY <1>1 DEF Reparented, IInv, TypeOK, mine, his, both
<1>5. \A p \in PCB :
        ToSet(Reparented[p]) = IF p = running THEN {}
                               ELSE IF p = init_pcb THEN ToSet(his) \cup ToSet(mine)
                               ELSE ToSet(children[p])
  BY <1>3, <1>4, EmptyList
<1>6. Reparented \in [PCB -> Seq(PCB)]
  BY <1>3, <1>4 DEF IInv, TypeOK
<1>7. \A p \in PCB : IsInjective(Reparented[p])
  BY <1>3, <1>4, EmptyList DEF IInv, Family
<1>8. \A p, q \in PCB : p # q => ToSet(Reparented[p]) \cap ToSet(Reparented[q]) = {}
  <2>1. SUFFICES ASSUME NEW p \in PCB, NEW q \in PCB, p # q,
                        NEW c \in ToSet(Reparented[p]), c \in ToSet(Reparented[q])
                 PROVE  FALSE
    OBVIOUS
  <2>2. \A x, y \in PCB : x # y => ToSet(children[x]) \cap ToSet(children[y]) = {}
    BY DEF IInv, Family
  <2>3. ASSUME NEW x \in PCB \ {init_pcb}, c \in ToSet(Reparented[x]),
               c \in ToSet(his) \cup ToSet(mine)
        PROVE  FALSE
    <3>1. x # running /\ c \in ToSet(children[x])
      BY <1>5, <2>3
    <3>. QED  BY <1>1, <2>2, <2>3, <3>1 DEF his, mine
  <2>4. CASE p = init_pcb
    BY <1>1, <1>5, <2>1, <2>3, <2>4
  <2>5. CASE q = init_pcb
    BY <1>1, <1>5, <2>1, <2>3, <2>5
  <2>6. CASE p # init_pcb /\ q # init_pcb
    <3>1. c \in ToSet(children[p]) /\ c \in ToSet(children[q])
      BY <1>5, <2>1, <2>6
    <3>. QED  BY <2>1, <2>2, <3>1
  <2>. QED  BY <2>4, <2>5, <2>6
<1>9. UNION {ToSet(Reparented[p]) : p \in PCB} = UNION {ToSet(children[p]) : p \in PCB}
  <2>1. ASSUME NEW p \in PCB
        PROVE  ToSet(Reparented[p]) \subseteq UNION {ToSet(children[q]) : q \in PCB}
    BY <1>1, <1>5 DEF his, mine
  <2>2. ASSUME NEW p \in PCB
        PROVE  ToSet(children[p]) \subseteq UNION {ToSet(Reparented[q]) : q \in PCB}
    <3>1. ToSet(mine) \cup ToSet(his) = ToSet(Reparented[init_pcb])
      BY <1>1, <1>5
    <3>2. CASE p = running \/ p = init_pcb
      BY <1>1, <3>1, <3>2 DEF his, mine
    <3>3. CASE p # running /\ p # init_pcb
      BY <1>5, <3>3
    <3>. QED  BY <3>2, <3>3
  <2>. QED  BY <2>1, <2>2
<1>. QED  BY <1>1, <1>4, <1>6, <1>7, <1>8, <1>9

LEMMA SignalsTyped ==
  ASSUME signals \in [PCB -> SUBSET Signals], SignalFamily
  PROVE  signals' \in [PCB -> SUBSET Signals]
BY DEF SignalFamily, Signals

LEMMA ExitToReadyIInv ==
  ASSUME IInv, ExitToReady
  PROVE  IInv'
<1>. DEFINE next == Head(ready_list)
            rest == Tail(ready_list)
<1>1. /\ running \in PCB
      /\ parent[running] # NULL
      /\ ready_list # <<>>
      /\ wait_arg' = [wait_arg EXCEPT ![running] = NULL]
      /\ children' = Reparented
      /\ SignalFamily
      /\ zombie_list' = zombie_list \cup {running}
      /\ running' = next
      /\ ready_list' = rest
      /\ status' = [status EXCEPT ![running] = "Zombie", ![next] = "Running"]
      /\ UNCHANGED <<machine, disastrOS_time, context, pid, parent, init_pcb, last_pid,
                     pcb_pool, pcbptr_free, waiting_list, timer_list, syscall_retvalue>>
  BY DEF ExitToReady, Exiting, Trap, Runs, IInv, TypeOK, poolVars
<1>2. /\ next \in PCB
      /\ rest \in Seq(PCB)
      /\ ToSet(ready_list) = ToSet(rest) \cup {next}
      /\ IsInjective(rest)
      /\ next \notin ToSet(rest)
  BY <1>1, DetachHead DEF IInv, TypeOK, Placement
<1>. HIDE DEF next, rest
<1>3. /\ next # running
      /\ next \notin waiting_list \cup zombie_list \cup ToSet(pcb_pool)
      /\ running \notin waiting_list \cup zombie_list \cup ToSet(pcb_pool)
      /\ running \notin ToSet(ready_list)
  BY <1>2 DEF IInv, Placement
<1>4. TypeOK'
  <2>1. children' \in [PCB -> Seq(PCB)] /\ signals' \in [PCB -> SUBSET Signals]
    BY <1>1, ReparentedFamily, SignalsTyped DEF IInv, TypeOK
  <2>2. status' \in [PCB -> Statuses] /\ wait_arg' \in [PCB -> Int \cup {NULL}]
    BY <1>1, <1>2 DEF IInv, TypeOK, Statuses
  <2>. QED  BY <1>1, <1>2, <2>1, <2>2 DEF IInv, TypeOK
<1>5. Placement'
  BY <1>1, <1>2, <1>3 DEF IInv, Placement
<1>6. StatusAgrees'
  BY <1>1, <1>2, <1>3 DEF IInv, TypeOK, StatusAgrees
<1>7. PidsUnique'
  BY <1>1, SamePIDs
<1>8. Family'
  <2>1. /\ init_pcb \in PCB \ {running}
        /\ Reparented[running] = <<>>
        /\ \A p \in PCB \ {running, init_pcb} : Reparented[p] = children[p]
        /\ \A p \in PCB : IsInjective(children'[p])
        /\ \A p, q \in PCB : p # q => ToSet(children'[p]) \cap ToSet(children'[q]) = {}
        /\ UNION {ToSet(children'[p]) : p \in PCB} = UNION {ToSet(children[p]) : p \in PCB}
    BY <1>1, ReparentedFamily
  <2>2. parent'[init_pcb'] = NULL /\ init_pcb' \notin zombie_list' \cup ToSet(pcb_pool')
    BY <1>1, <2>1 DEF IInv, Family
  <2>3. \A p \in PCB : children'[p] # <<>> => p \notin zombie_list' \cup ToSet(pcb_pool')
    BY <1>1, <2>1, <2>2 DEF IInv, Family
  <2>4. UNION {ToSet(children'[p]) : p \in PCB} = {p \in PCB \ ToSet(pcb_pool') : parent'[p] # NULL}
    BY <1>1, <2>1 DEF IInv, Family
  <2>. QED  BY <2>1, <2>2, <2>3, <2>4 DEF Family
<1>9. TimersMatchSleepers'
  <2>1. {p \in waiting_list' : wait_arg'[p] = NULL} = {p \in waiting_list : wait_arg[p] = NULL}
    BY <1>1, <1>3 DEF IInv, TypeOK
  <2>. QED  BY <1>1, <2>1 DEF IInv, TimersMatchSleepers
<1>. QED  BY <1>4, <1>5, <1>6, <1>7, <1>8, <1>9 DEF IInv

(* The process that exits is the one found by its pid in its parent's list.*)
LEMMA FoundByPID ==
  ASSUME NEW list \in Seq(PCB), NEW p \in PCB,
         PCBPtr_byPID(list, pid[p]),
         \A c \in ToSet(list) : pid[c] = pid[p] => c = p
  PROVE  /\ WithoutPID(list, pid[p]) \in Seq(PCB)
         /\ ToSet(list) = ToSet(WithoutPID(list, pid[p])) \cup {p}
         /\ IsInjective(list) => /\ IsInjective(WithoutPID(list, pid[p]))
                                /\ p \notin ToSet(WithoutPID(list, pid[p]))
<1>. DEFINE I == {i \in 1 .. Len(list) : pid[list[i]] = pid[p]}
            k == Min(I)
<1>1. I \in SUBSET Nat /\ I # {} /\ \E i \in 1 .. Len(list) : pid[list[i]] = pid[p]
  BY DEF PCBPtr_byPID
<1>2. k \in I
  <2>. HIDE DEF I
  <2>. QED  BY <1>1, FirstPosition
<1>3. SelectInSeq(list, LAMBDA c : pid[c] = pid[p]) = k
  BY <1>1 DEF SelectInSeq
<1>4. WithoutPID(list, pid[p]) = RemoveAt(list, k)
  <2>. HIDE DEF k, I
  <2>. QED  BY <1>1, <1>3 DEF WithoutPID, RemoveFirstMatch
<1>5. k \in 1 .. Len(list) /\ pid[list[k]] = pid[p]
  BY <1>2
<1>. HIDE DEF k, I
<1>6. list[k] = p
  BY <1>5, Members
<1>. QED  BY <1>4, <1>5, <1>6, DetachAt

LEMMA ExitToParentIInv ==
  ASSUME IInv, ExitToParent
  PROVE  IInv'
<1>. DEFINE par    == parent[running]
            others == WithoutPID(Reparented[par], pid[running])
            pool   == Cons(running, pcb_pool)
<1>1. /\ running \in PCB
      /\ par \in PCB
      /\ status[par] = "Waiting"
      /\ wait_arg[par] \in {0, pid[running]}
      /\ PCBPtr_byPID(Reparented[par], pid[running])
      /\ wait_arg' = [wait_arg EXCEPT ![running] = NULL]
      /\ children' = [Reparented EXCEPT ![par] = others]
      /\ SignalFamily
      /\ waiting_list' = waiting_list \ {par}
      /\ status' = [status EXCEPT ![running] = "Zombie", ![par] = "Running"]
      /\ syscall_retvalue' = [syscall_retvalue EXCEPT ![par] = pid[running]]
      /\ timer_list' = TimersWithout(running)
      /\ pcb_pool' = pool
      /\ running' = par
      /\ UNCHANGED <<machine, disastrOS_time, context, pid, parent, init_pcb, last_pid,
                     pcbptr_free, ready_list, zombie_list>>
  BY DEF ExitToParent, Exiting, Trap, Runs, ParentAwaits, IInv, TypeOK
<1>2. /\ parent[running] # NULL
      /\ pid[running] \in Nat /\ wait_arg[par] # NULL
  BY <1>1, NullIsNoPCB DEF IInv, TypeOK
<1>. HIDE DEF par
<1>3. /\ running \notin waiting_list \cup zombie_list \cup ToSet(pcb_pool) \cup ToSet(ready_list)
      /\ par \in waiting_list
      /\ par \notin zombie_list \cup ToSet(pcb_pool) \cup ToSet(ready_list)
      /\ par # running
  BY <1>1 DEF IInv, Placement, StatusAgrees
<1>4. /\ init_pcb \in PCB \ {running}
      /\ Reparented \in [PCB -> Seq(PCB)]
      /\ Reparented[running] = <<>>
      /\ \A p \in PCB \ {running, init_pcb} : Reparented[p] = children[p]
      /\ \A p \in PCB : IsInjective(Reparented[p])
      /\ \A p, q \in PCB : p # q => ToSet(Reparented[p]) \cap ToSet(Reparented[q]) = {}
      /\ UNION {ToSet(Reparented[p]) : p \in PCB} = UNION {ToSet(children[p]) : p \in PCB}
  BY <1>1, <1>2, ReparentedFamily
<1>5. \A c \in ToSet(Reparented[par]) : pid[c] = pid[running] => c = running
  <2>1. ToSet(Reparented[par]) \subseteq PCB \ ToSet(pcb_pool)
    BY <1>1, <1>4 DEF IInv, Family
  <2>. QED  BY <1>1, <1>3, <2>1 DEF IInv, PidsUnique
<1>6. /\ others \in Seq(PCB)
      /\ ToSet(Reparented[par]) = ToSet(others) \cup {running}
      /\ IsInjective(others) /\ running \notin ToSet(others)
  <2>1. Reparented[par] \in Seq(PCB) /\ IsInjective(Reparented[par])
    BY <1>1, <1>4
  <2>. QED  BY <1>1, <1>5, <2>1, FoundByPID
<1>7. /\ pool \in Seq(PCB)
      /\ ToSet(pool) = ToSet(pcb_pool) \cup {running}
      /\ IsInjective(pool)
  <2>1. /\ pcb_pool \in Seq(PCB) /\ IsInjective(pcb_pool)
        /\ running \in PCB /\ running \notin ToSet(pcb_pool)
    BY <1>1, <1>3 DEF IInv, TypeOK, Placement
  <2>. QED  BY <2>1, InsertFirst
<1>. HIDE DEF others, pool
<1>8. timer_list' = timer_list
  BY <1>1, <1>3 DEF TimersWithout, IInv, TimersMatchSleepers
<1>9. TypeOK'
  <2>1. children' \in [PCB -> Seq(PCB)] /\ signals' \in [PCB -> SUBSET Signals]
    BY <1>1, <1>4, <1>6, SignalsTyped DEF IInv, TypeOK
  <2>2. status' \in [PCB -> Statuses] /\ wait_arg' \in [PCB -> Int \cup {NULL}]
    BY <1>1 DEF IInv, TypeOK, Statuses
  <2>3. syscall_retvalue' \in [PCB -> Int]
    BY <1>1, <1>2 DEF IInv, TypeOK
  <2>. QED  BY <1>1, <1>7, <1>8, <2>1, <2>2, <2>3 DEF IInv, TypeOK
<1>10. Placement'
  BY <1>1, <1>3, <1>7 DEF IInv, Placement
<1>11. StatusAgrees'
  BY <1>1, <1>3, <1>7 DEF IInv, TypeOK, StatusAgrees
<1>12. PidsUnique'
  BY <1>1, <1>7 DEF IInv, PidsUnique
<1>13. Family'
  <2>1. \A p \in PCB : children'[p] = IF p = par THEN others ELSE Reparented[p]
    BY <1>1, <1>4
  <2>2. \A p \in PCB : ToSet(children'[p]) = ToSet(Reparented[p]) \ {running}
    <3>1. ASSUME NEW p \in PCB, p # par PROVE running \notin ToSet(Reparented[p])
      BY <1>1, <1>4, <1>6, <3>1
    <3>. QED  BY <1>6, <2>1, <3>1
  <2>3. /\ \A p \in PCB : IsInjective(children'[p])
        /\ \A p, q \in PCB : p # q => ToSet(children'[p]) \cap ToSet(children'[q]) = {}
    BY <1>4, <1>6, <2>1, <2>2
  <2>4. init_pcb \notin zombie_list \cup ToSet(pcb_pool) /\ parent[init_pcb] = NULL
    BY DEF IInv, Family
  <2>5. \A p \in PCB : children'[p] # <<>> => p \notin zombie_list' \cup ToSet(pcb_pool')
    <3>1. ASSUME NEW p \in PCB, children'[p] # <<>> PROVE p # running
      BY <1>3, <1>4, <2>1, <3>1
    <3>2. ASSUME NEW p \in PCB, children'[p] # <<>>
          PROVE  p \in {par, init_pcb} \/ children[p] # <<>>
      BY <1>4, <2>1, <3>1, <3>2
    <3>3. \A p \in PCB : children[p] # <<>> => p \notin zombie_list \cup ToSet(pcb_pool)
      BY DEF IInv, Family
    <3>. QED  BY <1>1, <1>3, <1>7, <2>4, <3>1, <3>2, <3>3
  <2>6. UNION {ToSet(children'[p]) : p \in PCB}
          = (UNION {ToSet(Reparented[p]) : p \in PCB}) \ {running}
    BY <2>2
  <2>7. {p \in PCB \ ToSet(pcb_pool') : parent'[p] # NULL}
          = {p \in PCB \ ToSet(pcb_pool) : parent[p] # NULL} \ {running}
    BY <1>1, <1>7
  <2>8. UNION {ToSet(children'[p]) : p \in PCB} = {p \in PCB \ ToSet(pcb_pool') : parent'[p] # NULL}
    BY <1>4, <2>6, <2>7 DEF IInv, Family
  <2>9. parent'[init_pcb'] = NULL /\ init_pcb' \notin zombie_list' \cup ToSet(pcb_pool')
    BY <1>1, <1>4, <1>7, <2>4
  <2>. QED  BY <2>3, <2>5, <2>8, <2>9 DEF Family
<1>14. TimersMatchSleepers'
  <2>1. {p \in waiting_list' : wait_arg'[p] = NULL} = {p \in waiting_list : wait_arg[p] = NULL}
    BY <1>1, <1>2, <1>3 DEF IInv, TypeOK
  <2>. QED  BY <1>8, <2>1 DEF IInv, TimersMatchSleepers
<1>. QED  BY <1>9, <1>10, <1>11, <1>12, <1>13, <1>14 DEF IInv

-----------------------------------------------------------------------------
LEMMA timerInterruptIInv == IInv /\ timerInterrupt => IInv'
<1>. SUFFICES ASSUME IInv, timerInterrupt PROVE IInv'
  OBVIOUS
<1>1. /\ running \in PCB
      /\ Tick \in Nat /\ Tick \in 0 .. MaxTime
      /\ wait_arg \in [PCB -> Int \cup {NULL}]
  BY KernelAssumption DEF timerInterrupt, Runs, Tick, IInv, TypeOK
<1>2. /\ internal_schedule(Tick)
      /\ disastrOS_time' \in 0 .. MaxTime
      /\ wait_arg' \in [PCB -> Int \cup {NULL}]
      /\ \A p \in PCB \ {running} : wait_arg'[p] = wait_arg[p]
      /\ UNCHANGED <<machine, context, pcbVars, poolVars, syscall_retvalue>>
  BY <1>1 DEF timerInterrupt, callVars
<1>. QED  BY <1>1, <1>2, ScheduleIInv

LEMMA PreemptIInv == IInv /\ internal_preempt => IInv'
<1>. SUFFICES ASSUME IInv, internal_preempt PROVE IInv'
  OBVIOUS
<1>1. /\ running \in PCB
      /\ disastrOS_time \in Nat /\ disastrOS_time \in 0 .. MaxTime
      /\ wait_arg \in [PCB -> Int \cup {NULL}]
  BY KernelAssumption DEF internal_preempt, Trap, Runs, IInv, TypeOK
<1>2. /\ internal_schedule(disastrOS_time)
      /\ disastrOS_time' \in 0 .. MaxTime
      /\ wait_arg' \in [PCB -> Int \cup {NULL}]
      /\ \A p \in PCB \ {running} : wait_arg'[p] = wait_arg[p]
      /\ UNCHANGED <<machine, context, pcbVars, poolVars, syscall_retvalue>>
  BY <1>1 DEF internal_preempt, Trap
<1>. QED  BY <1>1, <1>2, ScheduleIInv

LEMMA NextIInv == IInv /\ [Next]_vars => IInv'
<1>. SUFFICES ASSUME IInv, [Next]_vars PROVE IInv'
  OBVIOUS
<1>1. CASE timerInterrupt
  BY <1>1, timerInterruptIInv
<1>2. CASE internal_preempt
  BY <1>2, PreemptIInv
<1>3. CASE Reboot
  BY <1>3, RebootIInv
<1>4. CASE internal_spawn
  <2>1. NewProcess /\ context' = context \cup {Head(pcb_pool)}
    BY <1>4 DEF internal_spawn
  <2>2. Head(pcb_pool) \in PCB
    <3>1. pcb_pool \in Seq(PCB) /\ pcb_pool # <<>>
      BY <2>1 DEF NewProcess, IInv, TypeOK
    <3>. QED  BY <3>1, DetachHead
  <2>3. context' \in SUBSET PCB
    BY <2>1, <2>2 DEF IInv, TypeOK
  <2>. QED  BY <2>1, <2>3, NewProcessIInv
<1>5. CASE internal_fork
  <2>1. NewProcess /\ context' \in SUBSET PCB
    BY <1>5 DEF internal_fork, IInv, TypeOK
  <2>. QED  BY <2>1, NewProcessIInv
<1>6. CASE \E q \in WaitPids : internal_wait(q)
  <2>1. PICK q \in WaitPids : internal_wait(q)
    BY <1>6
  <2>2. CASE WaitWithoutChildren(q)
    BY <2>2, WaitWithoutChildrenIInv
  <2>3. CASE WaitReaps(q)
    BY <2>3, WaitReapsIInv
  <2>4. CASE WaitBlocks(q)
    BY <2>4, WaitBlocksIInv
  <2>5. CASE WaitDies(q)
    <3>1. Stops
      BY <2>5 DEF WaitDies, Stop, Stops, Machines
    <3>. QED  BY <3>1, StopIInv
  <2>. QED  BY <2>1, <2>2, <2>3, <2>4, <2>5 DEF internal_wait
<1>7. CASE internal_exit
  <2>1. CASE ExitToParent
    BY <2>1, ExitToParentIInv
  <2>2. CASE ExitToReady
    BY <2>2, ExitToReadyIInv
  <2>3. CASE ExitDies
    <3>1. Stops
      BY <2>3 DEF ExitDies, Stop, Stops, Machines
    <3>. QED  BY <3>1, StopIInv
  <2>. QED  BY <1>7, <2>1, <2>2, <2>3 DEF internal_exit
<1>8. CASE \E cycles \in SleepCycles : internal_sleep(cycles)
  BY <1>8, SleepIInv
<1>9. CASE timerInterruptDies \/ RebootDies \/ NoContext \/ NewProcessDies \/ internal_shutdown
  <2>1. Stops
    BY <1>9 DEF timerInterruptDies, RebootDies, NoContext, NewProcessDies, internal_shutdown,
                Stop, Stops, Machines
  <2>. QED  BY <2>1, StopIInv
<1>10. CASE Ended \/ UNCHANGED vars
  <2>1. Stops
    BY <1>10 DEF Ended, Stops, vars, IInv, TypeOK
  <2>. QED  BY <2>1, StopIInv
<1>. QED  BY <1>1, <1>2, <1>3, <1>4, <1>5, <1>6, <1>7, <1>8, <1>9, <1>10 DEF Next

-----------------------------------------------------------------------------
(* What the modules that add calls to those of the processes need: which   *)
(* blocks a step takes from the pool and which it gives back.              *)
LEMMA RunningInUse ==
  IInv /\ Runs => running \in PCB \ ToSet(pcb_pool)
BY DEF IInv, TypeOK, Placement, Runs

LEMMA NewBlock ==
  ASSUME IInv, Reboot \/ NewProcess
  PROVE  /\ Head(pcb_pool) \in ToSet(pcb_pool)
         /\ Head(pcb_pool) \in PCB
         /\ PCB \ ToSet(pcb_pool') = (PCB \ ToSet(pcb_pool)) \cup {Head(pcb_pool)}
<1>1. pcb_pool # <<>> /\ pcb_pool' = Tail(pcb_pool)
  BY DEF Reboot, NewProcess, PCB_alloc
<1>2. pcb_pool \in Seq(PCB) /\ IsInjective(pcb_pool)
  BY DEF IInv, TypeOK, Placement
<1>3. /\ Head(pcb_pool) \in PCB
      /\ ToSet(pcb_pool) = ToSet(Tail(pcb_pool)) \cup {Head(pcb_pool)}
      /\ Head(pcb_pool) \notin ToSet(Tail(pcb_pool))
  BY <1>1, <1>2, DetachHead
<1>. QED  BY <1>1, <1>3

LEMMA ExitFreesBlock ==
  ASSUME IInv, ExitToParent
  PROVE  PCB \ ToSet(pcb_pool') = (PCB \ ToSet(pcb_pool)) \ {running}
<1>1. running \in PCB /\ pcb_pool' = Cons(running, pcb_pool) /\ pcb_pool \in Seq(PCB)
  BY DEF ExitToParent, Exiting, Trap, Runs, IInv, TypeOK
<1>2. ToSet(Cons(running, pcb_pool)) = ToSet(pcb_pool) \cup {running}
  BY <1>1, InsertFirst
<1>. QED  BY <1>1, <1>2

LEMMA WaitFreesBlocks ==
  ASSUME IInv, NEW q \in WaitPids, internal_wait(q)
  PROVE  PCB \ ToSet(pcb_pool') \subseteq PCB \ ToSet(pcb_pool)
<1>1. CASE WaitReaps(q)
  <2>1. /\ children[running] \in Seq(PCB) /\ children[running] # <<>>
        /\ pcb_pool' = Cons(Awaited(q), pcb_pool)
        /\ pcb_pool \in Seq(PCB)
    BY <1>1 DEF WaitReaps, Trap, Runs, IInv, TypeOK
  <2>2. Awaited(q) \in PCB
    BY <2>1, AwaitedIsAChild, Members
  <2>3. \A p \in PCB : ToSet(Cons(p, pcb_pool)) = ToSet(pcb_pool) \cup {p}
    BY <2>1, InsertFirst
  <2>. QED  BY <2>1, <2>2, <2>3
<1>2. CASE ~WaitReaps(q)
  <2>1. UNCHANGED pcb_pool
    BY <1>2 DEF internal_wait, WaitWithoutChildren, WaitBlocks, WaitDies, Stop, poolVars
  <2>. QED  BY <2>1
<1>. QED  BY <1>1, <1>2

-----------------------------------------------------------------------------
(* The inductive invariant holds, whatever the processes call and whenever *)
(* the timer interrupts them.                                              *)
THEOREM Invariance == Spec => []IInv
BY InitIInv, NextIInv, PTL DEF Spec

(* Type correctness of the kernel's state.                                 *)
THEOREM TypeCorrect == Spec => []TypeOK
<1>1. IInv => TypeOK
  BY DEF IInv
<1>. QED  BY <1>1, Invariance, PTL

(* Every PCB block is in exactly one place, once: running, in one of the   *)
(* three lists, or free, although disastrOS_exit.c and disastrOS_wait.c    *)
(* move blocks on the word of a status, of a pid, and of a parent pointer  *)
(* that may be stale.                                                      *)
THEOREM PlacementSafe == Spec => []Placement
<1>1. IInv => Placement
  BY DEF IInv
<1>. QED  BY <1>1, Invariance, PTL

(* The status of a PCB tells the list it is in.                            *)
THEOREM StatusSafe == Spec => []StatusAgrees
<1>1. IInv => StatusAgrees
  BY DEF IInv
<1>. QED  BY <1>1, Invariance, PTL

(* A process that exits finds itself, and no other, by its pid.            *)
THEOREM PidsSafe == Spec => []PidsUnique
<1>1. IInv => PidsUnique
  BY DEF IInv
<1>. QED  BY <1>1, Invariance, PTL

(* The children lists share out the processes in use, through any spawns,  *)
(* exits, reparentings and waits (disastrOS_exit.c:20-31).                 *)
THEOREM FamilySafe == Spec => []Family
<1>1. IInv => Family
  BY DEF IInv
<1>. QED  BY <1>1, Invariance, PTL

(* The timers are in order and match the processes that sleep.             *)
THEOREM TimersSafe == Spec => []TimersMatchSleepers
<1>1. IInv => TimersMatchSleepers
  BY DEF IInv
<1>. QED  BY <1>1, Invariance, PTL

-----------------------------------------------------------------------------
(* The life cycle of a pid: every step of Processes is a step of Lifecycle, *)
(* or changes nothing that it speaks of.                                   *)
Allocated == PCB \ ToSet(pcb_pool)

(* What Lifecycle sees of the processes that wait, are ready, or run.      *)
LEMMA PidsApart ==
  ASSUME IInv, NEW S \in SUBSET Allocated, NEW T \in SUBSET Allocated
  PROVE  /\ PidsOf(S \ T) = PidsOf(S) \ PidsOf(T)
         /\ PidsOf(S \cup T) = PidsOf(S) \cup PidsOf(T)
         /\ PidsOf(S) \in SUBSET Nat
         /\ \A p \in Allocated : PidsOf({p}) = {pid[p]}
         /\ \A p \in Allocated : pid[p] \in PidsOf(S) <=> p \in S
         /\ \A p \in Allocated : pid[p] \in Nat /\ pid[p] # NULL
<1>1. \A p, q \in Allocated : pid[p] = pid[q] => p = q
  BY DEF IInv, PidsUnique, Allocated
<1>2. \A p \in Allocated : pid[p] \in Nat /\ pid[p] # NULL
  BY NullIsNoPCB DEF IInv, TypeOK, Allocated
<1>. HIDE DEF IInv
<1>. QED  BY <1>1, <1>2 DEF PidsOf

LEMMA ListsInUse ==
  IInv => /\ ToSet(ready_list) \in SUBSET Allocated
          /\ waiting_list \in SUBSET Allocated
          /\ zombie_list \in SUBSET Allocated
          /\ running # NULL => running \in Allocated
<1>. SUFFICES ASSUME IInv
              PROVE  /\ ToSet(ready_list) \in SUBSET Allocated
                     /\ waiting_list \in SUBSET Allocated
                     /\ zombie_list \in SUBSET Allocated
                     /\ running # NULL => running \in Allocated
  OBVIOUS
<1>1. ToSet(ready_list) \subseteq PCB
  BY Members DEF IInv, TypeOK
<1>. QED  BY <1>1 DEF IInv, TypeOK, Placement, Allocated

(* The state of Lifecycle, and the same after a step.                      *)
LEMMA InitLife == Init => Life!Init
<1>. SUFFICES ASSUME Init PROVE Life!Init
  OBVIOUS
<1>1. /\ running = 0 /\ running # NULL
      /\ PidsOf(ToSet(ready_list)) = {} /\ PidsOf(waiting_list) = {} /\ PidsOf(zombie_list) = {}
      /\ pid[running] = 0 /\ machine = "up" /\ last_pid = 1
  <2>1. 0 \in PCB /\ 0 # NULL
    BY KernelAssumption DEF PCB
  <2>. QED  BY <2>1, EmptyList DEF Init, PidsOf
<1>. QED  BY <1>1 DEF Life!Init

LEMMA StopLife ==
  ASSUME NEW how \in Machines \ {"up"}, machine = "up", Stop(how)
  PROVE  Life!Next
<1>1. Life!End
  <2>1. /\ machine' # "up"
        /\ UNCHANGED <<last_pid, running, pid, ready_list, waiting_list, zombie_list>>
    BY DEF Stop, pcbVars, schedVars
  <2>. QED  BY <2>1 DEF Life!End, PidsOf
<1>. QED  BY <1>1 DEF Life!Next

(* A step that changes nothing Lifecycle speaks of.                        *)
LEMMA SameLife ==
  ASSUME UNCHANGED <<machine, last_pid, running, pid, ready_list, waiting_list, zombie_list>>
  PROVE  UNCHANGED Life!vars
BY DEF Life!vars, PidsOf

(* The tick and preempt.                                                   *)
LEMMA ScheduleLife ==
  ASSUME IInv, running \in PCB, machine = "up", NEW time \in Nat, internal_schedule(time),
         UNCHANGED <<machine, pcbVars, poolVars>>
  PROVE  Life!Next \/ UNCHANGED Life!vars
<1>. DEFINE woken == Woken(time)
            ready == woken \o ready_list
            next  == Head(ready)
<1>1. /\ ready_list \in Seq(PCB)
      /\ woken \in Seq(PCB)
      /\ ToSet(woken) \subseteq waiting_list
      /\ running # NULL
  <2>1. /\ timer_list \in Seq(Timer)
        /\ InOrder(timer_list)
        /\ Sleepers(timer_list) = {p \in waiting_list : wait_arg[p] = NULL}
    BY TimersInvariant DEF IInv, TypeOK
  <2>2. woken \in Seq(PCB) /\ ToSet(woken) \subseteq Sleepers(timer_list)
    BY <2>1, TimersRang
  <2>. QED  BY <2>1, <2>2, NullIsNoPCB DEF IInv, TypeOK
<1>2. /\ UNCHANGED <<machine, last_pid, pid, zombie_list>>
      /\ waiting_list' = waiting_list \ ToSet(woken)
      /\ IF ready = <<>>
         THEN UNCHANGED <<running, ready_list>>
         ELSE running' = next /\ ready_list' = Append(Tail(ready), running)
  BY DEF internal_schedule, RoundRobin, Woken, pcbVars
<1>. HIDE DEF woken
<1>3. ready \in Seq(PCB) /\ ToSet(ready) = ToSet(woken) \cup ToSet(ready_list)
  BY <1>1, Concatenate
<1>4. IsInjective(ready)
  <2>1. IsInjective(woken)
    <3>1. timer_list \in Seq(Timer) /\ InOrder(timer_list)
      BY TimersInvariant DEF IInv, TypeOK
    <3>. QED  BY <3>1, TimersRang DEF woken
  <2>2. IsInjective(ready_list) /\ ToSet(woken) \cap ToSet(ready_list) = {}
    BY <1>1 DEF IInv, Placement
  <2>. QED  BY <1>1, <2>1, <2>2, Concatenate
<1>. HIDE DEF ready
<1>5. CASE ready = <<>>
  <2>1. ToSet(woken) = {}
    BY <1>3, <1>5, EmptyList
  <2>. QED  BY <1>2, <1>5, <2>1, SameLife
<1>6. CASE ready # <<>>
  <2>. DEFINE rest == Tail(ready)
  <2>1. /\ next \in PCB
        /\ rest \in Seq(PCB)
        /\ ToSet(ready) = ToSet(rest) \cup {next}
        /\ next \notin ToSet(rest)
    BY <1>3, <1>4, <1>6, DetachHead
  <2>2. running' = next /\ ready_list' = Append(rest, running)
    BY <1>2, <1>6
  <2>. HIDE DEF next, rest
  <2>3. ToSet(ready_list') = ((ToSet(ready_list) \cup ToSet(woken)) \ {next}) \cup {running}
    <3>1. ToSet(Append(rest, running)) = ToSet(rest) \cup {running}
      BY <2>1, InsertLast
    <3>. QED  BY <1>3, <2>1, <2>2, <3>1
  <2>4. /\ ToSet(ready_list) \in SUBSET Allocated /\ waiting_list \in SUBSET Allocated
        /\ ToSet(woken) \in SUBSET Allocated /\ running \in Allocated /\ next \in Allocated
        /\ next \in ToSet(ready_list) \cup ToSet(woken)
    BY <1>1, <1>3, <2>1, ListsInUse
  <2>. DEFINE R == ToSet(ready_list)
              W == ToSet(woken)
  <2>5. /\ PidsOf(((R \cup W) \ {next}) \cup {running})
             = ((PidsOf(R) \cup PidsOf(W)) \ {pid[next]}) \cup {pid[running]}
        /\ PidsOf(waiting_list \ W) = PidsOf(waiting_list) \ PidsOf(W)
        /\ pid[next] \in PidsOf(R) \cup PidsOf(W)
        /\ PidsOf(W) \subseteq PidsOf(waiting_list)
        /\ pid[running] # NULL /\ next # NULL
    <3>1. (R \cup W) \in SUBSET Allocated /\ ((R \cup W) \ {next}) \in SUBSET Allocated
          /\ {running} \in SUBSET Allocated /\ {next} \in SUBSET Allocated
      BY <2>4
    <3>. HIDE DEF R, W
    <3>2. PidsOf(R \cup W) = PidsOf(R) \cup PidsOf(W)
      BY <2>4, PidsApart DEF R, W
    <3>3. PidsOf((R \cup W) \ {next}) = PidsOf(R \cup W) \ PidsOf({next})
      BY <3>1, PidsApart
    <3>4. PidsOf(((R \cup W) \ {next}) \cup {running})
            = PidsOf((R \cup W) \ {next}) \cup PidsOf({running})
      <4>. DEFINE S == (R \cup W) \ {next}
                  T == {running}
      <4>1. S \in SUBSET Allocated /\ T \in SUBSET Allocated
        BY <3>1
      <4>. HIDE DEF S, T
      <4>2. PidsOf(S \cup T) = PidsOf(S) \cup PidsOf(T)
        BY <4>1, PidsApart
      <4>. QED  BY <4>2 DEF S, T
    <3>5. PidsOf({next}) = {pid[next]} /\ PidsOf({running}) = {pid[running]}
          /\ pid[running] # NULL /\ pid[next] \in PidsOf(R \cup W)
      BY <2>4, <3>1, PidsApart DEF R, W
    <3>6. PidsOf(waiting_list \ W) = PidsOf(waiting_list) \ PidsOf(W)
          /\ PidsOf(W) \subseteq PidsOf(waiting_list)
      <4>1. PidsOf(waiting_list \ W) = PidsOf(waiting_list) \ PidsOf(W)
        BY <2>4, PidsApart DEF W
      <4>2. PidsOf(W) \subseteq PidsOf(waiting_list)
        BY <1>1 DEF PidsOf, W
      <4>. QED  BY <4>1, <4>2
    <3>. QED  BY <2>4, <3>2, <3>3, <3>4, <3>5, <3>6, NullIsNoPCB DEF Allocated
  <2>6. Life!Switch(PidsOf(W))
    <3>1. PidsOf(ToSet(ready_list))' = PidsOf(((R \cup W) \ {next}) \cup {running})
      BY <1>2, <2>3 DEF PidsOf
    <3>2. PidsOf(waiting_list)' = PidsOf(waiting_list \ W)
      BY <1>2 DEF PidsOf
    <3>3. PidsOf(zombie_list)' = PidsOf(zombie_list)
      BY <1>2 DEF PidsOf
    <3>4. (IF running = NULL THEN NULL ELSE pid[running])' = pid[next]
      BY <1>2, <2>2, <2>5
    <3>5. (IF running = NULL THEN NULL ELSE pid[running]) = pid[running]
      BY <1>1
    <3>. HIDE DEF W
    <3>. QED  BY <1>2, <2>5, <3>1, <3>2, <3>3, <3>4, <3>5 DEF Life!Switch, R
  <2>. HIDE DEF W
  <2>. QED  BY <2>5, <2>6 DEF Life!Next
<1>. QED  BY <1>5, <1>6

-----------------------------------------------------------------------------
(* The first ready process, as Lifecycle sees it.                          *)
LEMMA HeadLife ==
  ASSUME IInv, ready_list # <<>>
  PROVE  /\ Head(ready_list) \in PCB /\ Head(ready_list) # NULL
         /\ pid[Head(ready_list)] \in PidsOf(ToSet(ready_list))
         /\ PidsOf(ToSet(Tail(ready_list)))
              = PidsOf(ToSet(ready_list)) \ {pid[Head(ready_list)]}
<1>. DEFINE next == Head(ready_list)
            rest == Tail(ready_list)
<1>1. /\ next \in PCB
      /\ ToSet(ready_list) = ToSet(rest) \cup {next}
      /\ next \notin ToSet(rest)
  BY DetachHead DEF IInv, TypeOK, Placement
<1>. HIDE DEF next, rest
<1>2. /\ ToSet(rest) = ToSet(ready_list) \ {next} /\ ToSet(ready_list) \in SUBSET Allocated
      /\ {next} \in SUBSET Allocated /\ next \in Allocated /\ next \in ToSet(ready_list)
  BY <1>1, ListsInUse
<1>3. /\ PidsOf(ToSet(ready_list) \ {next}) = PidsOf(ToSet(ready_list)) \ PidsOf({next})
      /\ PidsOf({next}) = {pid[next]}
      /\ pid[next] \in PidsOf(ToSet(ready_list))
  BY <1>2, PidsApart
<1>. QED  BY <1>1, <1>2, <1>3, NullIsNoPCB DEF next, rest

(* A wait or a sleep that blocks.                                          *)
LEMMA BlockLife ==
  ASSUME IInv, running \in PCB, machine = "up", Block,
         UNCHANGED <<machine, last_pid, pid, zombie_list>>
  PROVE  Life!Next
<1>1. /\ running \in Allocated /\ running # NULL /\ pid[running] # NULL
      /\ waiting_list \in SUBSET Allocated /\ {running} \in SUBSET Allocated
      /\ PidsOf(waiting_list \cup {running}) = PidsOf(waiting_list) \cup {pid[running]}
  <2>1. /\ running \in Allocated /\ running # NULL
        /\ waiting_list \in SUBSET Allocated /\ {running} \in SUBSET Allocated
    BY ListsInUse, NullIsNoPCB
  <2>2. /\ PidsOf(waiting_list \cup {running}) = PidsOf(waiting_list) \cup PidsOf({running})
        /\ PidsOf({running}) = {pid[running]}
    BY <2>1, PidsApart
  <2>3. pid[running] # NULL
    BY <2>1, PidsApart
  <2>. QED  BY <2>1, <2>2, <2>3
<1>2. PidsOf(waiting_list)' = PidsOf(waiting_list \cup {running})
  BY DEF Block, PidsOf
<1>3. PidsOf(zombie_list)' = PidsOf(zombie_list)
  BY DEF PidsOf
<1>4. (IF running = NULL THEN NULL ELSE pid[running]) = pid[running]
  BY <1>1
<1>5. CASE ready_list = <<>>
  <2>1. running' = NULL /\ ready_list' = ready_list
    BY <1>5 DEF Block, SwitchToReady
  <2>2. /\ PidsOf(ToSet(ready_list)) = {}
        /\ PidsOf(ToSet(ready_list))' = {}
    BY <1>5, <2>1, EmptyList DEF PidsOf
  <2>3. (IF running = NULL THEN NULL ELSE pid[running])' = NULL
    BY <2>1
  <2>4. Life!Block
    BY <1>1, <1>2, <1>3, <1>4, <2>2, <2>3 DEF Life!Block
  <2>. QED  BY <2>4 DEF Life!Next
<1>6. CASE ready_list # <<>>
  <2>. DEFINE next == Head(ready_list)
  <2>1. running' = next /\ ready_list' = Tail(ready_list)
    BY <1>6 DEF Block, SwitchToReady
  <2>2. /\ next # NULL /\ pid[next] \in PidsOf(ToSet(ready_list))
        /\ PidsOf(ToSet(Tail(ready_list))) = PidsOf(ToSet(ready_list)) \ {pid[next]}
    BY <1>6, HeadLife
  <2>. HIDE DEF next
  <2>3. PidsOf(ToSet(ready_list))' = PidsOf(ToSet(Tail(ready_list)))
    BY <2>1 DEF PidsOf
  <2>4. (IF running = NULL THEN NULL ELSE pid[running])' = pid[next]
    BY <2>1, <2>2
  <2>5. Life!Block
    BY <1>1, <1>2, <1>3, <1>4, <2>2, <2>3, <2>4 DEF Life!Block
  <2>. QED  BY <2>5 DEF Life!Next
<1>. QED  BY <1>5, <1>6

(* Boot, spawn and fork give a new pid to a block that nothing mentions.   *)
LEMMA NewPid ==
  ASSUME IInv, NEW new \in ToSet(pcb_pool), pid' = [pid EXCEPT ![new] = last_pid]
  PROVE  /\ \A S \in SUBSET Allocated : {pid'[p] : p \in S} = PidsOf(S)
         /\ running # NULL => pid'[running] = pid[running]
<1>1. \A p \in Allocated : pid'[p] = pid[p]
  BY DEF Allocated, IInv, TypeOK
<1>2. running # NULL => running \in Allocated
  BY ListsInUse
<1>. QED  BY <1>1, <1>2 DEF PidsOf

LEMMA RebootLife ==
  ASSUME IInv, Reboot
  PROVE  Life!Next
<1>. DEFINE new == Head(pcb_pool)
<1>1. new \in PCB /\ new \in ToSet(pcb_pool)
  BY DetachHead DEF Reboot, IInv, TypeOK
<1>2. /\ machine = "up" /\ running = NULL
      /\ pid' = [pid EXCEPT ![new] = last_pid]
      /\ last_pid' = last_pid + 1
      /\ running' = new
      /\ UNCHANGED <<machine, ready_list, waiting_list, zombie_list>>
  BY DEF Reboot, PCB_alloc
<1>. HIDE DEF new
<1>3. /\ PidsOf(ToSet(ready_list))' = PidsOf(ToSet(ready_list))
      /\ PidsOf(waiting_list)' = PidsOf(waiting_list)
      /\ PidsOf(zombie_list)' = PidsOf(zombie_list)
  <2>1. /\ ToSet(ready_list) \in SUBSET Allocated
        /\ waiting_list \in SUBSET Allocated
        /\ zombie_list \in SUBSET Allocated
    BY ListsInUse
  <2>2. \A S \in SUBSET Allocated : {pid'[p] : p \in S} = PidsOf(S)
    BY <1>1, <1>2, NewPid
  <2>. QED  BY <1>2, <2>1, <2>2 DEF PidsOf
<1>4. (IF running = NULL THEN NULL ELSE pid[running])' = last_pid
  BY <1>1, <1>2, NullIsNoPCB DEF IInv, TypeOK
<1>5. Life!Boot
  BY <1>2, <1>3, <1>4 DEF Life!Boot
<1>. QED  BY <1>2, <1>5 DEF Life!Next

LEMMA NewProcessLife ==
  ASSUME IInv, NewProcess
  PROVE  Life!Next
<1>. DEFINE new == Head(pcb_pool)
<1>1. new \in PCB /\ new \in ToSet(pcb_pool)
  BY DetachHead DEF NewProcess, IInv, TypeOK
<1>2. /\ machine = "up" /\ running # NULL
      /\ pid' = [pid EXCEPT ![new] = last_pid]
      /\ last_pid' = last_pid + 1
      /\ ready_list' = Append(ready_list, new)
      /\ UNCHANGED <<machine, running, waiting_list, zombie_list>>
  BY DEF NewProcess, Trap, Runs, PCB_alloc
<1>. HIDE DEF new
<1>3. /\ ToSet(ready_list) \in SUBSET Allocated
      /\ waiting_list \in SUBSET Allocated
      /\ zombie_list \in SUBSET Allocated
      /\ running \in Allocated
  BY <1>2, ListsInUse
<1>4. /\ \A S \in SUBSET Allocated : {pid'[p] : p \in S} = PidsOf(S)
      /\ pid'[running] = pid[running]
  BY <1>1, <1>2, NewPid
<1>5. /\ PidsOf(waiting_list)' = PidsOf(waiting_list)
      /\ PidsOf(zombie_list)' = PidsOf(zombie_list)
  BY <1>2, <1>3, <1>4 DEF PidsOf
<1>6. PidsOf(ToSet(ready_list))' = PidsOf(ToSet(ready_list)) \cup {last_pid}
  <2>1. ToSet(ready_list') = ToSet(ready_list) \cup {new}
    <3>1. ready_list \in Seq(PCB)
      BY DEF IInv, TypeOK
    <3>2. ToSet(Append(ready_list, new)) = ToSet(ready_list) \cup {new}
      BY <1>1, <3>1, InsertLast
    <3>. QED  BY <1>2, <3>2
  <2>2. pid'[new] = last_pid
    BY <1>1, <1>2 DEF IInv, TypeOK
  <2>3. {pid'[p] : p \in ToSet(ready_list)} = PidsOf(ToSet(ready_list))
    BY <1>3, <1>4
  <2>4. {pid'[p] : p \in ToSet(ready_list) \cup {new}}
          = {pid'[p] : p \in ToSet(ready_list)} \cup {last_pid}
    BY <2>2
  <2>. QED  BY <2>1, <2>3, <2>4 DEF PidsOf
<1>7. /\ (IF running = NULL THEN NULL ELSE pid[running]) = pid[running]
      /\ (IF running = NULL THEN NULL ELSE pid[running])' = pid[running]
      /\ pid[running] # NULL
  <2>1. pid[running] # NULL
    BY <1>3, PidsApart
  <2>. QED  BY <1>2, <1>4, <2>1
<1>8. Life!Spawn
  BY <1>2, <1>5, <1>6, <1>7 DEF Life!Spawn
<1>. QED  BY <1>2, <1>8 DEF Life!Next

-----------------------------------------------------------------------------
LEMMA WaitLife ==
  ASSUME IInv, NEW q \in WaitPids, internal_wait(q)
  PROVE  Life!Next \/ UNCHANGED Life!vars
<1>1. CASE WaitWithoutChildren(q)
  BY <1>1, SameLife DEF WaitWithoutChildren, pcbVars, schedVars
<1>2. CASE WaitBlocks(q)
  <2>1. /\ running \in PCB /\ machine = "up" /\ Block
        /\ UNCHANGED <<machine, last_pid, pid, zombie_list>>
    BY <1>2 DEF WaitBlocks, Trap, Runs, pcbVars, IInv, TypeOK
  <2>. QED  BY <2>1, BlockLife
<1>3. CASE WaitDies(q)
  <2>1. machine = "up" /\ Stop("wait: nobody ready")
    BY <1>3 DEF WaitDies, Runs
  <2>. QED  BY <2>1, StopLife DEF Machines
<1>4. CASE WaitReaps(q)
  <2>. DEFINE dead == Awaited(q)
  <2>1. /\ running \in PCB /\ running # NULL /\ machine = "up"
        /\ children[running] \in Seq(PCB) /\ children[running] # <<>>
        /\ status[dead] = "Zombie"
        /\ zombie_list' = zombie_list \ {dead}
        /\ UNCHANGED <<machine, last_pid, running, pid, ready_list, waiting_list>>
    BY <1>4 DEF WaitReaps, Trap, Runs, IInv, TypeOK
  <2>2. dead \in ToSet(children[running])
    BY <2>1, AwaitedIsAChild
  <2>. HIDE DEF dead
  <2>3. dead \in Allocated /\ dead \in zombie_list
    <3>1. dead \in UNION {ToSet(children[p]) : p \in PCB}
      BY <2>1, <2>2
    <3>. QED  BY <2>1, <3>1 DEF IInv, Family, StatusAgrees, Allocated
  <2>4. zombie_list \in SUBSET Allocated /\ {dead} \in SUBSET Allocated /\ running \in Allocated
    BY <2>1, <2>3, ListsInUse
  <2>5. /\ PidsOf(zombie_list \ {dead}) = PidsOf(zombie_list) \ PidsOf({dead})
        /\ PidsOf({dead}) = {pid[dead]}
        /\ pid[dead] \in PidsOf(zombie_list)
        /\ pid[running] # NULL
    BY <2>3, <2>4, PidsApart
  <2>6. /\ PidsOf(zombie_list)' = PidsOf(zombie_list \ {dead})
        /\ PidsOf(ToSet(ready_list))' = PidsOf(ToSet(ready_list))
        /\ PidsOf(waiting_list)' = PidsOf(waiting_list)
    BY <2>1 DEF PidsOf
  <2>7. Life!Reap(pid[dead])
    BY <2>1, <2>5, <2>6 DEF Life!Reap
  <2>. QED  BY <2>1, <2>5, <2>7 DEF Life!Next
<1>. QED  BY <1>1, <1>2, <1>3, <1>4 DEF internal_wait

LEMMA SleepLife ==
  ASSUME IInv, NEW cycles \in SleepCycles, internal_sleep(cycles)
  PROVE  Life!Next \/ UNCHANGED Life!vars
<1>1. CASE Len(timer_list) < MAX_NUM_PROCESSES
  <2>1. /\ running \in PCB /\ machine = "up" /\ Block
        /\ UNCHANGED <<machine, last_pid, pid, zombie_list>>
    BY <1>1 DEF internal_sleep, WaitOnTimer, Trap, Runs, pcbVars, IInv, TypeOK
  <2>. QED  BY <2>1, BlockLife
<1>2. CASE ~(Len(timer_list) < MAX_NUM_PROCESSES)
  BY <1>2, SameLife DEF internal_sleep, pcbVars
<1>. QED  BY <1>1, <1>2

LEMMA ExitLife ==
  ASSUME IInv, internal_exit
  PROVE  Life!Next
<1>1. CASE ExitToParent
  <2>. DEFINE par == parent[running]
  <2>1. /\ running \in PCB /\ running # NULL /\ machine = "up"
        /\ par \in PCB /\ par # NULL /\ status[par] = "Waiting"
        /\ waiting_list' = waiting_list \ {par}
        /\ running' = par
        /\ UNCHANGED <<machine, last_pid, pid, ready_list, zombie_list>>
    BY <1>1 DEF ExitToParent, ParentAwaits, Exiting, Trap, Runs, IInv, TypeOK
  <2>. HIDE DEF par
  <2>2. /\ par \in waiting_list /\ waiting_list \in SUBSET Allocated
        /\ par \in Allocated /\ {par} \in SUBSET Allocated /\ running \in Allocated
    BY <2>1, ListsInUse DEF IInv, StatusAgrees
  <2>3. /\ PidsOf(waiting_list \ {par}) = PidsOf(waiting_list) \ PidsOf({par})
        /\ PidsOf({par}) = {pid[par]}
        /\ pid[par] \in PidsOf(waiting_list)
        /\ pid[running] # NULL
    BY <2>2, PidsApart
  <2>4. /\ PidsOf(waiting_list)' = PidsOf(waiting_list \ {par})
        /\ PidsOf(ToSet(ready_list))' = PidsOf(ToSet(ready_list))
        /\ PidsOf(zombie_list)' = PidsOf(zombie_list)
        /\ (IF running = NULL THEN NULL ELSE pid[running])' = pid[par]
    BY <2>1 DEF PidsOf
  <2>5. Life!ExitAwaited
    BY <2>1, <2>3, <2>4 DEF Life!ExitAwaited
  <2>. QED  BY <2>1, <2>5 DEF Life!Next
<1>2. CASE ExitToReady
  <2>. DEFINE next == Head(ready_list)
  <2>1. /\ running \in PCB /\ running # NULL /\ machine = "up"
        /\ ready_list # <<>>
        /\ zombie_list' = zombie_list \cup {running}
        /\ running' = next
        /\ ready_list' = Tail(ready_list)
        /\ UNCHANGED <<machine, last_pid, pid, waiting_list>>
    BY <1>2 DEF ExitToReady, Exiting, Trap, Runs, IInv, TypeOK
  <2>2. /\ next # NULL
        /\ pid[next] \in PidsOf(ToSet(ready_list))
        /\ PidsOf(ToSet(Tail(ready_list))) = PidsOf(ToSet(ready_list)) \ {pid[next]}
    BY <2>1, HeadLife
  <2>. HIDE DEF next
  <2>3. running \in Allocated /\ {running} \in SUBSET Allocated /\ zombie_list \in SUBSET Allocated
    BY <2>1, ListsInUse
  <2>4. /\ PidsOf(zombie_list \cup {running}) = PidsOf(zombie_list) \cup PidsOf({running})
        /\ PidsOf({running}) = {pid[running]}
        /\ pid[running] # NULL
    BY <2>3, PidsApart
  <2>5. /\ PidsOf(zombie_list)' = PidsOf(zombie_list \cup {running})
        /\ PidsOf(ToSet(ready_list))' = PidsOf(ToSet(Tail(ready_list)))
        /\ PidsOf(waiting_list)' = PidsOf(waiting_list)
        /\ (IF running = NULL THEN NULL ELSE pid[running])' = pid[next]
    BY <2>1, <2>2 DEF PidsOf
  <2>6. Life!Exit
    BY <2>1, <2>2, <2>4, <2>5 DEF Life!Exit
  <2>. QED  BY <2>1, <2>6 DEF Life!Next
<1>3. CASE ExitDies
  <2>1. machine = "up" /\ \E how \in Machines \ {"up"} : Stop(how)
    BY <1>3 DEF ExitDies, Runs, Machines
  <2>. QED  BY <2>1, StopLife
<1>. QED  BY <1>1, <1>2, <1>3 DEF internal_exit

LEMMA StepLife ==
  ASSUME IInv, [Next]_vars
  PROVE  [Life!Next]_(Life!vars)
<1>1. CASE timerInterrupt
  <2>1. /\ running \in PCB /\ machine = "up"
        /\ Tick \in Nat /\ internal_schedule(Tick)
        /\ UNCHANGED <<machine, pcbVars, poolVars>>
    BY <1>1, KernelAssumption DEF timerInterrupt, Runs, Tick, IInv, TypeOK
  <2>. QED  BY <2>1, ScheduleLife
<1>2. CASE internal_preempt
  <2>1. /\ running \in PCB /\ machine = "up"
        /\ disastrOS_time \in Nat /\ internal_schedule(disastrOS_time)
        /\ UNCHANGED <<machine, pcbVars, poolVars>>
    BY <1>2 DEF internal_preempt, Trap, Runs, IInv, TypeOK
  <2>. QED  BY <2>1, ScheduleLife
<1>3. CASE Reboot
  BY <1>3, RebootLife
<1>4. CASE internal_spawn \/ internal_fork
  BY <1>4, NewProcessLife DEF internal_spawn, internal_fork
<1>5. CASE \E q \in WaitPids : internal_wait(q)
  BY <1>5, WaitLife
<1>6. CASE internal_exit
  BY <1>6, ExitLife
<1>7. CASE \E cycles \in SleepCycles : internal_sleep(cycles)
  BY <1>7, SleepLife
<1>8. CASE \/ timerInterruptDies \/ RebootDies \/ NewProcessDies \/ NoContext
           \/ internal_shutdown
  <2>1. machine = "up" /\ \E how \in Machines \ {"up"} : Stop(how)
    BY <1>8 DEF timerInterruptDies, RebootDies, NewProcessDies, NoContext, internal_shutdown,
                Runs, Machines
  <2>. QED  BY <2>1, StopLife
<1>9. CASE Ended \/ UNCHANGED vars
  BY <1>9, SameLife DEF Ended, vars, pcbVars, schedVars
<1>. QED  BY <1>1, <1>2, <1>3, <1>4, <1>5, <1>6, <1>7, <1>8, <1>9 DEF Next

(* The process calls implement the life cycle of a pid: given once, from   *)
(* ready to running to waiting and back, ended once and reaped once, with  *)
(* one process running, whatever PCB blocks and stale parent pointers the  *)
(* code passes through (disastrOS_exit.c, disastrOS_wait.c).               *)
THEOREM LifecycleImplemented == Spec => ImplementsLifecycle
<1>1. Init => Life!Init
  BY InitLife
<1>2. IInv /\ [Next]_vars => [Life!Next]_(Life!vars)
  BY StepLife
<1>. QED  BY <1>1, <1>2, Invariance, PTL DEF Spec, ImplementsLifecycle, Life!Spec

-----------------------------------------------------------------------------
(* What a call or a tick moves: none but the running process starts to     *)
(* wait or becomes a zombie, none leaves the ready list but for the        *)
(* processor, and at most the first free block is taken.                   *)
NoneElseBlocks ==
  waiting_list' \cup zombie_list' \subseteq waiting_list \cup zombie_list \cup {running}

ReadyStayOrRun == ToSet(ready_list) \subseteq ToSet(ready_list') \cup {running'}

TakesNoBlock == last_pid' = last_pid /\ Allocated' \subseteq Allocated

TakesFirstBlock ==
  /\ last_pid' # last_pid
  /\ Head(pcb_pool) \in PCB \cap ToSet(pcb_pool)
  /\ Allocated' = Allocated \cup {Head(pcb_pool)}

Moves ==
  /\ NoneElseBlocks
  /\ ReadyStayOrRun
  /\ TakesNoBlock \/ TakesFirstBlock

LEMMA ScheduleMoves ==
  ASSUME IInv, running \in PCB, NEW time \in Nat, internal_schedule(time),
         UNCHANGED <<last_pid, pcb_pool>>
  PROVE  /\ Moves
         /\ waiting_list' \subseteq waiting_list /\ zombie_list' = zombie_list
         /\ running' \in PCB
         /\ running \in ToSet(ready_list') \cup {running'}
<1>. DEFINE woken == Woken(time)
            ready == woken \o ready_list
            next  == Head(ready)
            rest  == Tail(ready)
<1>1. woken \in Seq(PCB) /\ ready_list \in Seq(PCB)
  BY TimersInvariant, TimersRang DEF IInv, TypeOK
<1>2. /\ waiting_list' = waiting_list \ ToSet(woken)
      /\ zombie_list' = zombie_list
      /\ IF ready = <<>>
         THEN UNCHANGED <<running, ready_list>>
         ELSE running' = next /\ ready_list' = Append(rest, running)
  BY DEF internal_schedule, RoundRobin, Woken
<1>. HIDE DEF woken
<1>3. ready \in Seq(PCB) /\ ToSet(ready) = ToSet(woken) \cup ToSet(ready_list)
  BY <1>1, Concatenate
<1>. HIDE DEF ready
<1>4. /\ ToSet(ready_list) \subseteq ToSet(ready_list') \cup {running'}
      /\ running' \in PCB
      /\ running \in ToSet(ready_list') \cup {running'}
  <2>1. CASE ready = <<>>
    BY <1>2, <2>1
  <2>2. CASE ready # <<>>
    <3>1. next \in PCB /\ rest \in Seq(PCB) /\ ToSet(ready) = ToSet(rest) \cup {next}
      BY <1>3, <2>2, DetachHead
    <3>2. running' = next /\ ready_list' = Append(rest, running)
      BY <1>2, <2>2
    <3>. HIDE DEF next, rest
    <3>3. ToSet(Append(rest, running)) = ToSet(rest) \cup {running}
      BY <3>1, InsertLast
    <3>. QED  BY <1>3, <3>1, <3>2, <3>3
  <2>. QED  BY <2>1, <2>2
<1>5. Allocated' = Allocated
  BY DEF Allocated
<1>. QED  BY <1>2, <1>4, <1>5 DEF Moves, NoneElseBlocks, ReadyStayOrRun, TakesNoBlock

(* The first ready process gets the processor.                             *)
LEMMA SwitchMoves ==
  ASSUME IInv, SwitchToReady
  PROVE  ReadyStayOrRun
<1>1. CASE ready_list = <<>>
  BY <1>1 DEF SwitchToReady, ReadyStayOrRun
<1>2. CASE ready_list # <<>>
  <2>1. ToSet(ready_list) = ToSet(Tail(ready_list)) \cup {Head(ready_list)}
    BY <1>2, DetachHead DEF IInv, TypeOK
  <2>. QED  BY <1>2, <2>1 DEF SwitchToReady, ReadyStayOrRun
<1>. QED  BY <1>1, <1>2

LEMMA NewProcessMoves == IInv /\ NewProcess => Moves
<1>. SUFFICES ASSUME IInv, NewProcess PROVE Moves
  OBVIOUS
<1>. DEFINE new == Head(pcb_pool)
<1>1. /\ ready_list' = Append(ready_list, new) /\ last_pid' = last_pid + 1
      /\ UNCHANGED <<running, waiting_list, zombie_list>>
  BY DEF NewProcess, PCB_alloc
<1>2. /\ new \in ToSet(pcb_pool) /\ new \in PCB
      /\ Allocated' = Allocated \cup {new}
  BY NewBlock DEF Allocated
<1>. HIDE DEF new
<1>3. ToSet(ready_list) \subseteq ToSet(ready_list')
  <2>1. ready_list \in Seq(PCB)
    BY DEF IInv, TypeOK
  <2>2. ToSet(Append(ready_list, new)) = ToSet(ready_list) \cup {new}
    BY <1>2, <2>1, InsertLast
  <2>. QED  BY <1>1, <2>2
<1>4. last_pid' # last_pid
  BY <1>1 DEF IInv, TypeOK
<1>. QED  BY <1>1, <1>2, <1>3, <1>4
          DEF Moves, NoneElseBlocks, ReadyStayOrRun, TakesFirstBlock, new

LEMMA WaitMoves ==
  ASSUME IInv, NEW q \in WaitPids, internal_wait(q)
  PROVE  Moves
<1>1. last_pid' = last_pid /\ Allocated' \subseteq Allocated
  <2>1. UNCHANGED last_pid
    BY DEF internal_wait, WaitWithoutChildren, WaitReaps, WaitBlocks, WaitDies, Stop, pcbVars
  <2>. QED  BY <2>1, WaitFreesBlocks DEF Allocated
<1>2. NoneElseBlocks
  BY DEF internal_wait, WaitWithoutChildren, WaitReaps, WaitBlocks, WaitDies, Stop, schedVars,
         Block, NoneElseBlocks
<1>3. ReadyStayOrRun
  <2>1. CASE WaitBlocks(q)
    BY <2>1, SwitchMoves DEF WaitBlocks, Block
  <2>2. CASE ~WaitBlocks(q)
    BY <2>2 DEF internal_wait, WaitWithoutChildren, WaitReaps, WaitDies, Stop, schedVars,
                ReadyStayOrRun
  <2>. QED  BY <2>1, <2>2
<1>. QED  BY <1>1, <1>2, <1>3 DEF Moves, TakesNoBlock

LEMMA SleepMoves ==
  ASSUME IInv, NEW cycles \in SleepCycles, internal_sleep(cycles)
  PROVE  Moves
<1>1. UNCHANGED <<last_pid, pcb_pool, zombie_list>>
  BY DEF internal_sleep, pcbVars, poolVars
<1>2. NoneElseBlocks
  BY <1>1 DEF internal_sleep, WaitOnTimer, Block, NoneElseBlocks
<1>3. ReadyStayOrRun
  <2>1. SwitchToReady \/ UNCHANGED ready_list
    BY DEF internal_sleep, WaitOnTimer, Block
  <2>. QED  BY <2>1, SwitchMoves DEF ReadyStayOrRun
<1>. QED  BY <1>1, <1>2, <1>3 DEF Moves, TakesNoBlock, Allocated

LEMMA ExitMoves == IInv /\ internal_exit => Moves
<1>. SUFFICES ASSUME IInv, internal_exit PROVE Moves
  OBVIOUS
<1>1. CASE ExitToParent
  <2>1. /\ waiting_list' \subseteq waiting_list
        /\ UNCHANGED <<last_pid, ready_list, zombie_list>>
    BY <1>1 DEF ExitToParent
  <2>2. Allocated' \subseteq Allocated
    BY <1>1, ExitFreesBlock DEF Allocated
  <2>. QED  BY <2>1, <2>2 DEF Moves, NoneElseBlocks, ReadyStayOrRun, TakesNoBlock
<1>2. CASE ExitToReady
  <2>1. /\ zombie_list' = zombie_list \cup {running}
        /\ SwitchToReady
        /\ UNCHANGED <<last_pid, pcb_pool, waiting_list>>
    BY <1>2 DEF ExitToReady, SwitchToReady, poolVars
  <2>. QED  BY <2>1, SwitchMoves DEF Moves, NoneElseBlocks, TakesNoBlock, Allocated
<1>3. CASE ExitDies
  BY <1>3 DEF ExitDies, Stop, pcbVars, poolVars, schedVars, Moves, NoneElseBlocks,
              ReadyStayOrRun, TakesNoBlock, Allocated
<1>. QED  BY <1>1, <1>2, <1>3 DEF internal_exit

LEMMA StopMoves ==
  ASSUME NEW how, Stop(how)
  PROVE  Moves
BY DEF Stop, pcbVars, poolVars, schedVars, Moves, NoneElseBlocks, ReadyStayOrRun, TakesNoBlock,
       Allocated

-----------------------------------------------------------------------------
(* A process's table of open descriptors, and its entries for one thing.   *)
Tables(N, V) == UNION {[D -> V] : D \in SUBSET (0 .. N - 1)}
Entries(t, v) == {d \in DOMAIN t : t[d] = v}

LEMMA TableFinite ==
  ASSUME NEW N \in Nat, NEW V, NEW t \in Tables(N, V)
  PROVE  /\ IsFiniteSet(DOMAIN t) /\ Cardinality(DOMAIN t) \in Nat
         /\ DOMAIN t \subseteq 0 .. N - 1
         /\ \A d \in DOMAIN t : t[d] \in V
         /\ \A v : IsFiniteSet(Entries(t, v)) /\ Cardinality(Entries(t, v)) \in Nat
<1>1. DOMAIN t \in SUBSET (0 .. N - 1) /\ \A d \in DOMAIN t : t[d] \in V
  BY DEF Tables
<1>2. IsFiniteSet(0 .. N - 1)
  <2>. DEFINE n == N - 1
  <2>1. n \in Int /\ 0 \in Int
    OBVIOUS
  <2>2. IsFiniteSet(0 .. n)
    <3>. HIDE DEF n
    <3>. QED  BY <2>1, FS_Interval
  <2>. QED  BY <2>2
<1>3. IsFiniteSet(DOMAIN t) /\ Cardinality(DOMAIN t) \in Nat
  <2>. DEFINE I == 0 .. N - 1
  <2>. HIDE DEF I
  <2>. QED  BY <1>1, <1>2, FS_Subset, FS_CardinalityType DEF I
<1>4. ASSUME NEW v PROVE IsFiniteSet(Entries(t, v)) /\ Cardinality(Entries(t, v)) \in Nat
  <2>1. Entries(t, v) \in SUBSET DOMAIN t
    BY DEF Entries
  <2>. QED  BY <1>3, <2>1, FS_Subset, FS_CardinalityType
<1>. QED  BY <1>1, <1>3, <1>4

(* The entries for each thing are the table.                               *)
LEMMA SumOfEntries ==
  ASSUME NEW V, IsFiniteSet(V), NEW t, IsFiniteSet(DOMAIN t), \A d \in DOMAIN t : t[d] \in V,
         NEW f, \A v \in V : f[v] = Cardinality(Entries(t, v))
  PROVE  SumFunctionOnSet(f, V) = Cardinality(DOMAIN t)
<1>. DEFINE D == DOMAIN t
<1>1. IsFiniteSet(D) /\ \A d \in D : t[d] \in V
  OBVIOUS
<1>2. \A v \in V : f[v] = Cardinality({d \in D : t[d] = v})
  BY DEF Entries
<1>3. SumFunctionOnSet(f, V) = Cardinality(D)
  <2>. HIDE DEF D
  <2>. QED  BY <1>1, <1>2, SumOfParts
<1>. QED  BY <1>3

LEMMA EmptyTable ==
  ASSUME NEW N \in Nat, NEW V
  PROVE  /\ <<>> \in Tables(N, V)
         /\ DOMAIN <<>> = {}
         /\ \A v : Entries(<<>>, v) = {}
<1>1. DOMAIN <<>> = {}
  OBVIOUS
<1>2. <<>> \in [{} -> V] /\ {} \in SUBSET (0 .. N - 1)
  OBVIOUS
<1>. QED  BY <1>1, <1>2 DEF Tables, Entries

(* A descriptor is opened.                                                 *)
LEMMA TableOpen ==
  ASSUME NEW N \in Nat, NEW V, NEW t \in Tables(N, V), NEW d \in 0 .. N - 1, NEW v \in V
  PROVE  With(t, d, v) \in Tables(N, V)
<1>1. DOMAIN t \in SUBSET (0 .. N - 1) /\ t \in [DOMAIN t -> V]
  BY DEF Tables
<1>2. With(t, d, v) \in [DOMAIN t \cup {d} -> V]
  BY <1>1 DEF With
<1>. QED  BY <1>1, <1>2 DEF Tables

LEMMA EntryAdded ==
  ASSUME NEW t, IsFiniteSet(DOMAIN t), NEW d, d \notin DOMAIN t, NEW v
  PROVE  LET new == With(t, d, v)
         IN  /\ DOMAIN new = DOMAIN t \cup {d}
             /\ Cardinality(Entries(new, v)) = Cardinality(Entries(t, v)) + 1
<1>. DEFINE new == With(t, d, v)
<1>1. /\ DOMAIN new = DOMAIN t \cup {d}
      /\ new[d] = v
      /\ \A c \in DOMAIN t : new[c] = t[c]
  BY DEF With
<1>. HIDE DEF new
<1>2. Entries(new, v) = Entries(t, v) \cup {d} /\ d \notin Entries(t, v)
  BY <1>1 DEF Entries
<1>3. Entries(t, v) \in SUBSET DOMAIN t
  BY DEF Entries
<1>4. Cardinality(Entries(new, v)) = Cardinality(Entries(t, v)) + 1
  BY <1>2, <1>3, FS_Subset, FS_AddElement
<1>. QED  BY <1>1, <1>4 DEF new

LEMMA OtherEntriesStay ==
  ASSUME NEW t, NEW d, d \notin DOMAIN t, NEW v, NEW u, u # v
  PROVE  Entries(With(t, d, v), u) = Entries(t, u)
BY DEF With, Entries

(* A descriptor is closed.                                                 *)
LEMMA TableClose ==
  ASSUME NEW N \in Nat, NEW V, NEW t \in Tables(N, V), NEW d
  PROVE  Without(t, d) \in Tables(N, V)
<1>1. DOMAIN t \in SUBSET (0 .. N - 1) /\ t \in [DOMAIN t -> V]
  BY DEF Tables
<1>2. Without(t, d) \in [DOMAIN t \ {d} -> V]
  BY <1>1 DEF Without, Restrict
<1>. QED  BY <1>1, <1>2 DEF Tables

LEMMA EntryRemoved ==
  ASSUME NEW t, IsFiniteSet(DOMAIN t), NEW d \in DOMAIN t
  PROVE  LET new == Without(t, d)
         IN  /\ DOMAIN new = DOMAIN t \ {d}
             /\ Cardinality(Entries(new, t[d])) = Cardinality(Entries(t, t[d])) - 1
<1>. DEFINE new == Without(t, d)
<1>1. DOMAIN new = DOMAIN t \ {d} /\ \A c \in DOMAIN t \ {d} : new[c] = t[c]
  BY DEF Without, Restrict
<1>. HIDE DEF new
<1>2. Entries(new, t[d]) = Entries(t, t[d]) \ {d} /\ d \in Entries(t, t[d])
  BY <1>1 DEF Entries
<1>3. Entries(t, t[d]) \in SUBSET DOMAIN t
  BY DEF Entries
<1>4. IsFiniteSet(Entries(t, t[d]))
  BY <1>3, FS_Subset
<1>5. Cardinality(Entries(new, t[d])) = Cardinality(Entries(t, t[d])) - 1
  BY <1>2, <1>4, FS_RemoveElement
<1>. QED  BY <1>1, <1>5 DEF new

LEMMA OtherEntriesKept ==
  ASSUME NEW t, NEW d \in DOMAIN t, NEW u, u # t[d]
  PROVE  Entries(Without(t, d), u) = Entries(t, u)
BY DEF Without, Restrict, Entries

-----------------------------------------------------------------------------
(* The number of descriptors that the processes in `live' hold on v.       *)
Held(tables, live, v) ==
  SumFunctionOnSet([p \in PCB |-> Cardinality(Entries(tables[p], v))], live)

LEMMA ProcessesFinite ==
  IsFiniteSet(PCB) /\ \A live \in SUBSET PCB : IsFiniteSet(live)
<1>. DEFINE n == MAX_NUM_PROCESSES - 1
<1>1. n \in Int /\ 0 \in Int
  BY KernelAssumption
<1>2. IsFiniteSet(0 .. n)
  <2>. HIDE DEF n
  <2>. QED  BY <1>1, FS_Interval
<1>3. IsFiniteSet(PCB)
  BY <1>2 DEF PCB
<1>. QED  BY <1>3, FS_Subset

LEMMA HeldType ==
  ASSUME NEW N \in Nat, NEW V, NEW tables \in [PCB -> Tables(N, V)],
         NEW live \in SUBSET PCB, NEW v
  PROVE  /\ Held(tables, live, v) \in Nat
         /\ \A p \in live : Cardinality(Entries(tables[p], v)) <= Held(tables, live, v)
<1>. DEFINE f == [p \in PCB |-> Cardinality(Entries(tables[p], v))]
<1>1. \A p \in PCB : f[p] \in Nat
  BY TableFinite
<1>2. IsFiniteSet(live)
  BY ProcessesFinite
<1>3. SumFunctionOnSet(f, live) \in Nat
  <2>. HIDE DEF f
  <2>. QED  BY <1>1, <1>2, SumType
<1>4. ASSUME NEW p \in live PROVE f[p] <= SumFunctionOnSet(f, live)
  <2>. HIDE DEF f
  <2>1. SumFunctionOnSet(f, live) = f[p] + SumFunctionOnSet(f, live \ {p})
    BY <1>1, <1>2, SumSplit
  <2>2. SumFunctionOnSet(f, live \ {p}) \in Nat
    <3>1. IsFiniteSet(live \ {p})
      BY <1>2, FS_RemoveElement
    <3>. QED  BY <1>1, <3>1, SumType
  <2>. QED  BY <1>1, <2>1, <2>2
<1>. QED  BY <1>3, <1>4 DEF Held

(* The table of one living process changes.                                *)
LEMMA HeldChange ==
  ASSUME NEW N \in Nat, NEW V, NEW tables \in [PCB -> Tables(N, V)],
         NEW after \in [PCB -> Tables(N, V)], NEW live \in SUBSET PCB, NEW p \in live,
         \A q \in PCB \ {p} : after[q] = tables[q], NEW v
  PROVE  Held(after, live, v)
           = Held(tables, live, v) - Cardinality(Entries(tables[p], v))
               + Cardinality(Entries(after[p], v))
<1>. DEFINE f == [q \in PCB |-> Cardinality(Entries(tables[q], v))]
            g == [q \in PCB |-> Cardinality(Entries(after[q], v))]
<1>1. p \in PCB
  OBVIOUS
<1>2. /\ \A q \in live : f[q] \in Nat /\ g[q] \in Nat
      /\ \A q \in live \ {p} : g[q] = f[q]
  BY <1>1, TableFinite
<1>3. f[p] = Cardinality(Entries(tables[p], v)) /\ g[p] = Cardinality(Entries(after[p], v))
  BY <1>1
<1>4. IsFiniteSet(live)
  BY ProcessesFinite
<1>5. SumFunctionOnSet(g, live) = SumFunctionOnSet(f, live) - f[p] + g[p]
  <2>. HIDE DEF f, g
  <2>. QED  BY <1>2, <1>4, SumUpdate
<1>. QED  BY <1>3, <1>5 DEF Held

(* A new process holds nothing.                                            *)
LEMMA HeldNew ==
  ASSUME NEW N \in Nat, NEW V, NEW tables \in [PCB -> Tables(N, V)],
         NEW after \in [PCB -> Tables(N, V)], NEW live \in SUBSET PCB,
         NEW p \in PCB, p \notin live, after[p] = <<>>,
         \A q \in PCB \ {p} : after[q] = tables[q], NEW v
  PROVE  Held(after, live \cup {p}, v) = Held(tables, live, v)
<1>. DEFINE f == [q \in PCB |-> Cardinality(Entries(tables[q], v))]
            g == [q \in PCB |-> Cardinality(Entries(after[q], v))]
<1>1. Entries(after[p], v) = {} /\ \A q \in live : after[q] = tables[q]
  BY EmptyTable
<1>2. \A q \in PCB : f[q] \in Nat /\ g[q] \in Nat
  BY <1>1, TableFinite
<1>3. g[p] = 0
  BY <1>1, FS_EmptySet
<1>4. \A q \in live : g[q] = f[q]
  BY <1>1
<1>5. IsFiniteSet(live) /\ IsFiniteSet(live \cup {p}) /\ (live \cup {p}) \ {p} = live
  BY ProcessesFinite
<1>6. SumFunctionOnSet(g, live \cup {p}) = SumFunctionOnSet(f, live)
  <2>. HIDE DEF f, g
  <2>1. SumFunctionOnSet(g, live \cup {p}) = g[p] + SumFunctionOnSet(g, live)
    <3>1. p \in live \cup {p} /\ \A q \in live \cup {p} : g[q] \in Nat
      BY <1>2
    <3>2. SumFunctionOnSet(g, live \cup {p})
            = g[p] + SumFunctionOnSet(g, (live \cup {p}) \ {p})
      BY <1>5, <3>1, SumSplit
    <3>. QED  BY <1>5, <3>2, Zenon
  <2>2. SumFunctionOnSet(g, live) = SumFunctionOnSet(f, live)
    BY <1>2, <1>4, <1>5, SumSame
  <2>3. SumFunctionOnSet(f, live) \in Nat
    BY <1>2, <1>5, SumType
  <2>. QED  BY <1>3, <2>1, <2>2, <2>3
<1>. QED  BY <1>6 DEF Held

(* A process gives up all it holds and is gone.                            *)
LEMMA HeldGone ==
  ASSUME NEW N \in Nat, NEW V, NEW tables \in [PCB -> Tables(N, V)],
         NEW after \in [PCB -> Tables(N, V)], NEW live \in SUBSET PCB, NEW p \in live,
         \A q \in PCB \ {p} : after[q] = tables[q],
         NEW less, less = live \ {p}, NEW v
  PROVE  Held(after, less, v)
           = Held(tables, live, v) - Cardinality(Entries(tables[p], v))
<1>. DEFINE f == [q \in PCB |-> Cardinality(Entries(tables[q], v))]
            g == [q \in PCB |-> Cardinality(Entries(after[q], v))]
<1>1. p \in PCB /\ live \ {p} \in SUBSET PCB /\ \A q \in live \ {p} : after[q] = tables[q]
  OBVIOUS
<1>2. \A q \in PCB : f[q] \in Nat
  BY TableFinite
<1>3. \A q \in live \ {p} : g[q] = f[q]
  BY <1>1
<1>4. IsFiniteSet(live) /\ IsFiniteSet(live \ {p})
  BY <1>1, ProcessesFinite
<1>5. f[p] = Cardinality(Entries(tables[p], v))
  BY <1>1
<1>6. SumFunctionOnSet(g, live \ {p}) = SumFunctionOnSet(f, live) - f[p]
  <2>. HIDE DEF f, g
  <2>1. SumFunctionOnSet(f, live) = f[p] + SumFunctionOnSet(f, live \ {p})
    BY <1>2, <1>4, SumSplit
  <2>2. SumFunctionOnSet(g, live \ {p}) = SumFunctionOnSet(f, live \ {p})
    BY <1>1, <1>2, <1>3, <1>4, SumSame
  <2>3. SumFunctionOnSet(f, live \ {p}) \in Nat /\ f[p] \in Nat
    BY <1>1, <1>2, <1>4, SumType
  <2>. QED  BY <2>1, <2>2, <2>3
<1>. QED  BY <1>5, <1>6 DEF Held

(* Fewer processes hold no more.                                           *)
LEMMA HeldFewer ==
  ASSUME NEW N \in Nat, NEW V, NEW tables \in [PCB -> Tables(N, V)],
         NEW live \in SUBSET PCB, NEW less \in SUBSET live, NEW v
  PROVE  Held(tables, less, v) <= Held(tables, live, v)
<1>. DEFINE f == [q \in PCB |-> Cardinality(Entries(tables[q], v))]
<1>1. \A q \in PCB : f[q] \in Nat
  BY TableFinite
<1>2. IsFiniteSet(live)
  BY ProcessesFinite
<1>3. SumFunctionOnSet(f, less) <= SumFunctionOnSet(f, live)
  <2>. HIDE DEF f
  <2>. QED  BY <1>1, <1>2, SumSubset
<1>. QED  BY <1>3 DEF Held
=============================================================================
