---------------------------- MODULE WakeupProofs ----------------------------
(***************************************************************************)
(* Proofs about who is woken and told: timers ring in time and never too   *)
(* early, a process that waits for a child of its own is woken by its exit *)
(* and by nothing else, orphans get SIGHUP, no PCBPtr is used twice, and no   *)
(* ready process is overtaken without limit, for any number of PCBs and    *)
(* any calls.                                                              *)
(***************************************************************************)
EXTENDS ProcessesProofs

-----------------------------------------------------------------------------
(* Timers.  A schedule leaves the timers from the first later one on.      *)
LEMMA PendingIsRest ==
  ASSUME timer_list \in Seq(Timer), InOrder(timer_list), NEW time \in Nat
  PROVE  \E m \in 0 .. Len(timer_list) :
           /\ \A i \in 1 .. Len(timer_list) : i <= m <=> timer_list[i].awakening_time <= time
           /\ Len(Pending(time)) = Len(timer_list) - m
           /\ \A i \in 1 .. Len(timer_list) - m : Pending(time)[i] = timer_list[m + i]
<1>. DEFINE n == Len(timer_list)
            k == FirstLater(timer_list, time)
            m == k - 1
<1>. HIDE DEF InOrder
<1>1. /\ n \in Nat /\ k \in 1 .. n + 1
      /\ \A i \in 1 .. n : i < k <=> timer_list[i].awakening_time <= time
  BY Members, FirstLaterIsBetween
<1>2. Elapsed(time) = SubSeq(timer_list, 1, m)
  BY DEF Elapsed
<1>. HIDE DEF k, n
<1>3. m \in Nat /\ m \in 0 .. n /\ m <= n /\ \A i \in 1 .. n : i <= m <=> i < k
  BY <1>1
<1>. HIDE DEF m
<1>4. Len(Elapsed(time)) = m
  BY <1>2, <1>3, Cut DEF n
<1>5. Pending(time) = SubSeq(timer_list, m + 1, n)
  BY <1>4 DEF Pending, n
<1>6. Len(Pending(time)) = n - m /\ \A i \in 1 .. n - m : Pending(time)[i] = timer_list[m + i]
  BY <1>3, <1>5, Cut DEF n
<1>. QED  BY <1>1, <1>3, <1>6 DEF n

(* A schedule leaves no timer behind, and wakes no process early.          *)
LEMMA ScheduleInTime ==
  ASSUME IInv, NEW time \in Nat, internal_schedule(time), disastrOS_time' = time
  PROVE  /\ NeverOverdue'
         /\ \A i \in 1 .. Len(timer_list) :
              timer_list[i].pcb \notin waiting_list' => timer_list[i].awakening_time <= time
<1>. DEFINE n == Len(timer_list)
<1>1. /\ timer_list \in Seq(Timer)
      /\ InOrder(timer_list)
      /\ Sleepers(timer_list) = {p \in waiting_list : wait_arg[p] = NULL}
  BY TimersInvariant DEF IInv, TypeOK
<1>2. timer_list' = Pending(time) /\ waiting_list' = waiting_list \ ToSet(Woken(time))
  BY DEF internal_schedule, Woken
<1>3. PICK m \in 0 .. n :
        /\ \A i \in 1 .. n : i <= m <=> timer_list[i].awakening_time <= time
        /\ Len(Pending(time)) = n - m
        /\ \A i \in 1 .. n - m : Pending(time)[i] = timer_list[m + i]
  BY <1>1, PendingIsRest
<1>4. n \in Nat /\ \A i \in 1 .. n : timer_list[i].awakening_time \in Nat
  <2>1. n \in Nat /\ \A i \in 1 .. n : timer_list[i] \in Timer
    BY <1>1, Members
  <2>. QED  BY <2>1 DEF Timer
<1>. HIDE DEF n
<1>5. NeverOverdue'
  <2>1. ASSUME NEW i \in 1 .. n - m
        PROVE  Pending(time)[i].awakening_time >= time
    <3>. DEFINE j == m + i
    <3>1. j \in 1 .. n /\ ~(j <= m) /\ Pending(time)[i] = timer_list[j]
      BY <1>3, <1>4
    <3>. HIDE DEF j
    <3>2. timer_list[j].awakening_time \in Nat /\ ~(timer_list[j].awakening_time <= time)
      BY <1>3, <1>4, <3>1
    <3>. QED  BY <3>1, <3>2
  <2>. QED  BY <1>2, <1>3, <2>1 DEF NeverOverdue
<1>6. ASSUME NEW i \in 1 .. n, timer_list[i].pcb \notin waiting_list'
      PROVE  timer_list[i].awakening_time <= time
  <2>1. timer_list[i].pcb \in ToSet(Woken(time))
    BY <1>1, <1>2, <1>6 DEF Sleepers, n
  <2>2. timer_list[i].pcb \notin Sleepers(Pending(time))
    BY <1>1, <2>1, TimersRang
  <2>3. CASE ~(i <= m)
    <3>1. i - m \in 1 .. n - m /\ m + (i - m) = i
      BY <1>4, <2>3
    <3>2. Pending(time)[i - m] = timer_list[i]
      BY <1>3, <3>1
    <3>. QED  BY <1>3, <2>2, <3>1, <3>2 DEF Sleepers
  <2>. QED  BY <1>3, <2>3
<1>. QED  BY <1>5, <1>6 DEF n

(* A new timer rings no earlier than now.                                  *)
LEMMA SleepInTime ==
  ASSUME IInv, NeverOverdue, NEW cycles \in SleepCycles, internal_sleep(cycles)
  PROVE  NeverOverdue'
<1>. DEFINE wake_time == disastrOS_time + cycles
            t == [awakening_time |-> wake_time, pcb |-> running]
            n == Len(timer_list)
            k == FirstLater(timer_list, wake_time)
<1>1. /\ wake_time \in Nat /\ wake_time >= disastrOS_time
      /\ timer_list \in Seq(Timer) /\ InOrder(timer_list)
      /\ t \in Timer
      /\ disastrOS_time' = disastrOS_time
  BY ProcessesAssumption, TimersInvariant
  DEF internal_sleep, Trap, Runs, IInv, TypeOK, Timer
<1>2. CASE n < MAX_NUM_PROCESSES
  <2>1. timer_list' = InsertAt(timer_list, k, t)
    BY <1>2 DEF internal_sleep, WaitOnTimer, TimerList_add
  <2>. HIDE DEF wake_time
  <2>2. k \in 1 .. n + 1 /\ n \in Nat
    BY <1>1, FirstLaterIsBetween, Members
  <2>. HIDE DEF k, t
  <2>3. /\ Len(InsertAt(timer_list, k, t)) = n + 1
        /\ \A i \in 1 .. n + 1 : /\ i < k => InsertAt(timer_list, k, t)[i] = timer_list[i]
                                 /\ i = k => InsertAt(timer_list, k, t)[i] = t
                                 /\ i > k => InsertAt(timer_list, k, t)[i] = timer_list[i - 1]
    BY <1>1, <2>2, InsertPosition, SMTT(30)
  <2>4. \A i \in 1 .. n : timer_list[i].awakening_time >= disastrOS_time
    BY DEF NeverOverdue
  <2>5. t.awakening_time >= disastrOS_time
    BY <1>1 DEF t
  <2>. HIDE DEF n
  <2>6. ASSUME NEW i \in 1 .. n + 1
        PROVE  timer_list'[i].awakening_time >= disastrOS_time
    <3>1. \/ i \in 1 .. n /\ timer_list'[i] = timer_list[i]
          \/ timer_list'[i] = t
          \/ i - 1 \in 1 .. n /\ timer_list'[i] = timer_list[i - 1]
      BY <2>1, <2>2, <2>3
    <3>. QED  BY <2>4, <2>5, <3>1
  <2>. QED  BY <1>1, <2>1, <2>3, <2>6 DEF NeverOverdue
<1>3. CASE ~(n < MAX_NUM_PROCESSES)
  BY <1>1, <1>3 DEF internal_sleep, NeverOverdue
<1>. QED  BY <1>2, <1>3

(* What a step may do to the processes that sleep.                         *)
WokenInTime ==
  \A i \in 1 .. Len(timer_list) :
    timer_list[i].pcb \notin waiting_list'
      => timer_list[i].awakening_time <= disastrOS_time'

(* A step that leaves timers, clock and sleepers alone.                    *)
LEMMA SleepersKept ==
  ASSUME IInv, NeverOverdue, UNCHANGED <<disastrOS_time, timer_list>>,
         \A p \in waiting_list : wait_arg[p] = NULL => p \in waiting_list'
  PROVE  NeverOverdue' /\ WokenInTime
<1>1. \A i \in 1 .. Len(timer_list) : timer_list[i].pcb \in waiting_list'
  BY DEF IInv, TimersMatchSleepers
<1>. QED  BY <1>1 DEF NeverOverdue, WokenInTime

LEMMA TimersStep ==
  ASSUME IInv, NeverOverdue, [Next]_vars
  PROVE  NeverOverdue' /\ WokenInTime
<1>1. CASE timerInterrupt
  <2>1. Tick \in Nat /\ internal_schedule(Tick) /\ disastrOS_time' = Tick
    BY <1>1, KernelAssumption DEF timerInterrupt, Tick, IInv, TypeOK
  <2>. QED  BY <2>1, ScheduleInTime DEF WokenInTime
<1>2. CASE internal_preempt
  <2>1. /\ disastrOS_time \in Nat /\ internal_schedule(disastrOS_time)
        /\ disastrOS_time' = disastrOS_time
    BY <1>2 DEF internal_preempt, IInv, TypeOK
  <2>. QED  BY <2>1, ScheduleInTime DEF WokenInTime
<1>3. CASE \E cycles \in SleepCycles : internal_sleep(cycles)
  <2>1. PICK cycles \in SleepCycles : internal_sleep(cycles)
    BY <1>3
  <2>2. waiting_list \subseteq waiting_list'
    BY <2>1 DEF internal_sleep, WaitOnTimer, Block
  <2>3. WokenInTime
    BY <2>2 DEF WokenInTime, IInv, TimersMatchSleepers
  <2>. QED  BY <2>1, <2>3, SleepInTime
<1>4. CASE ExitToParent
  <2>1. running \notin waiting_list /\ running \in PCB
    BY <1>4 DEF IInv, Placement, TypeOK, ExitToParent, Exiting, Trap, Runs
  <2>2. timer_list' = timer_list
    BY <1>4, <2>1 DEF ExitToParent, TimersWithout, IInv, TimersMatchSleepers
  <2>3. /\ wait_arg[parent[running]] # NULL
        /\ waiting_list' = waiting_list \ {parent[running]}
        /\ disastrOS_time' = disastrOS_time
    <3>1. pid[running] # NULL
      BY <2>1, NullIsNoPCB DEF IInv, TypeOK
    <3>. QED  BY <1>4, <3>1, NullIsNoPCB DEF ExitToParent, ParentAwaits
  <2>. QED  BY <2>2, <2>3, SleepersKept
<1>5. CASE \E q \in WaitPids : internal_wait(q)
  <2>1. UNCHANGED <<disastrOS_time, timer_list>> /\ waiting_list \subseteq waiting_list'
    BY <1>5 DEF internal_wait, WaitWithoutChildren, WaitReaps, WaitBlocks, WaitDies, Stop,
                Block, schedVars
  <2>. QED  BY <2>1, SleepersKept
<1>6. CASE \/ timerInterruptDies \/ Reboot \/ RebootDies \/ internal_spawn \/ internal_fork
           \/ NewProcessDies \/ NoContext \/ ExitToReady \/ ExitDies \/ internal_shutdown
           \/ Ended \/ UNCHANGED vars
  <2>1. UNCHANGED <<disastrOS_time, timer_list, waiting_list>>
    BY <1>6 DEF timerInterruptDies, Reboot, RebootDies, internal_spawn, internal_fork,
                NewProcess, NewProcessDies, NoContext, ExitToReady, ExitDies,
                internal_shutdown, Ended, Stop, vars, schedVars
  <2>. QED  BY <2>1, SleepersKept
<1>. QED  BY <1>1, <1>2, <1>3, <1>4, <1>5, <1>6 DEF Next, internal_exit

LEMMA InTime == Spec => [](IInv /\ NeverOverdue)
<1>1. Init => NeverOverdue
  BY DEF Init, NeverOverdue
<1>2. IInv /\ NeverOverdue /\ [Next]_vars => NeverOverdue'
  BY TimersStep
<1>. QED  BY <1>1, <1>2, Invariance, PTL DEF Spec

(* No timer is left behind when the clock passes it: each tick rings all   *)
(* that are due (disastrOS_schedule.c), and none is set in the past.       *)
THEOREM TimersRing == Spec => []NeverOverdue
BY InTime, PTL

(* A process that sleeps is not woken early, neither by a tick or another  *)
(* process's preempt, nor by the exit of a child (disastrOS_exit.c:44).    *)
THEOREM SleepSafe == Spec => SleepIsHonoured
<1>1. IInv /\ NeverOverdue /\ [Next]_vars => WokenInTime
  BY TimersStep
<1>. QED  BY <1>1, InTime, PTL DEF Spec, SleepIsHonoured, WokenInTime

-----------------------------------------------------------------------------
(* Parents and children.  Only a booted process, which has no parent and   *)
(* so never exits, has children of others in its list: no orphan is handed *)
(* on a second time, and none comes back to a list where its stale parent  *)
(* pointer leads.  NoLostWakeup is not inductive without it.               *)
Adopters ==
  \A p \in PCB : \A c \in ToSet(children[p]) : parent[c] # p => parent[p] = NULL

Heard ==
  /\ OrphansGotSIGHUP
  /\ Adopters
  /\ NoLostWakeup

(* What most steps do to the processes that wait for a child: they go on   *)
(* waiting for the same pid, and their children stay theirs.               *)
StillWaits(p) ==
  /\ p \in waiting_list'
  /\ wait_arg'[p] = wait_arg[p]
  /\ \A c \in ToSet(children[p]) :
       c \in ToSet(children'[p]) /\ parent'[c] = parent[c] /\ pid'[c] = pid[c]

WaitersStay == \A p \in waiting_list : wait_arg[p] # NULL => StillWaits(p)

(* The members of a children list are PCBs in use.                         *)
LEMMA ChildrenInUse ==
  ASSUME IInv, NEW p \in PCB, NEW c \in ToSet(children[p])
  PROVE  /\ c \in PCB \ ToSet(pcb_pool)
         /\ parent[c] # NULL
         /\ \A q \in PCB : c \in ToSet(children[q]) => q = p
<1>1. c \in UNION {ToSet(children[q]) : q \in PCB}
  OBVIOUS
<1>. QED  BY <1>1 DEF IInv, Family

(* A step that leaves the families alone, kills nobody, and after which    *)
(* nobody waits who did not before.                                        *)
LEMMA FamiliesKept ==
  ASSUME IInv, Heard, UNCHANGED <<children, parent, pid, signals>>,
         waiting_list' \subseteq waiting_list,
         \A p \in waiting_list : wait_arg[p] # NULL => p \in waiting_list',
         \A p \in waiting_list' : wait_arg'[p] = wait_arg[p],
         \A p \in PCB : status'[p] = "Zombie" => status[p] = "Zombie"
  PROVE  Heard' /\ WaitersStay
<1>1. \A p \in PCB : ToSet(children[p]) \subseteq PCB
  BY ChildrenInUse
<1>2. waiting_list \subseteq PCB
  BY DEF IInv, TypeOK
<1>3. OrphansGotSIGHUP' /\ Adopters'
  BY DEF Heard, OrphansGotSIGHUP, Adopters
<1>4. NoLostWakeup'
  <2>1. SUFFICES ASSUME NEW p \in waiting_list', NEW c \in ToSet(children[p]),
                        parent[c] = p, wait_arg[p] \in {0, pid[c]}
                 PROVE  status'[c] # "Zombie"
    BY DEF NoLostWakeup, Awaits
  <2>2. p \in waiting_list /\ c \in PCB
    BY <1>1, <1>2
  <2>. QED  BY <2>1, <2>2 DEF Heard, NoLostWakeup, Awaits
<1>5. WaitersStay
  BY DEF WaitersStay, StillWaits
<1>. QED  BY <1>3, <1>4, <1>5 DEF Heard

LEMMA ScheduleHeard ==
  ASSUME IInv, Heard, NEW time \in Nat, internal_schedule(time), running \in PCB,
         UNCHANGED pcbVars,
         \A p \in PCB \ {running} : wait_arg'[p] = wait_arg[p]
  PROVE  Heard' /\ WaitersStay
<1>1. waiting_list' \subseteq waiting_list
  BY DEF internal_schedule
<1>2. running \notin waiting_list /\ waiting_list \subseteq PCB
  BY DEF IInv, Placement, TypeOK
<1>3. \A p \in PCB : status'[p] = "Zombie" => status[p] = "Zombie"
  <2>. DEFINE woken == Woken(time)
              next == Head(woken \o ready_list)
  <2>1. \/ status' = status
        \/ status' = [p \in PCB |->
                        CASE p = next -> "Running"
                          [] p = running \/ p \in ToSet(woken) -> "Ready"
                          [] OTHER -> status[p]]
    BY DEF internal_schedule, Woken
  <2>. HIDE DEF woken, next
  <2>. QED  BY <2>1
<1>4. \A p \in waiting_list : wait_arg[p] # NULL => p \in waiting_list'
  <2>1. /\ timer_list \in Seq(Timer) /\ InOrder(timer_list)
        /\ Sleepers(timer_list) = {p \in waiting_list : wait_arg[p] = NULL}
    BY TimersInvariant DEF IInv, TypeOK
  <2>2. ToSet(Woken(time)) \subseteq Sleepers(timer_list)
    BY <2>1, TimersRang
  <2>3. waiting_list' = waiting_list \ ToSet(Woken(time))
    BY DEF internal_schedule, Woken
  <2>. QED  BY <2>1, <2>2, <2>3
<1>. QED  BY <1>1, <1>2, <1>3, <1>4, FamiliesKept DEF pcbVars

LEMMA RebootHeard ==
  ASSUME IInv, Heard, Reboot
  PROVE  Heard' /\ WaitersStay
<1>. DEFINE new == Head(pcb_pool)
<1>1. new \in PCB /\ new \in ToSet(pcb_pool)
  BY DetachHead DEF Reboot, IInv, TypeOK
<1>2. /\ pid' = [pid EXCEPT ![new] = last_pid]
      /\ parent' = [parent EXCEPT ![new] = NULL]
      /\ signals' = [signals EXCEPT ![new] = {}]
      /\ status' = [status EXCEPT ![new] = "Running"]
      /\ children' = [children EXCEPT ![new] = <<>>]
      /\ UNCHANGED <<waiting_list, wait_arg>>
  BY DEF Reboot, PCB_alloc, callVars
<1>. HIDE DEF new
<1>3. /\ children[new] = <<>> /\ new \notin waiting_list
      /\ waiting_list \subseteq PCB
  BY <1>1 DEF IInv, Family, Placement, TypeOK
<1>4. children' = children
  BY <1>1, <1>2, <1>3 DEF IInv, TypeOK
<1>5. ASSUME NEW p \in PCB, NEW c \in ToSet(children[p])
      PROVE  /\ c \in PCB /\ c # new /\ p # new
             /\ parent'[c] = parent[c] /\ parent'[p] = parent[p] /\ pid'[c] = pid[c]
             /\ signals'[c] = signals[c] /\ status'[c] = status[c]
  <2>1. c \in PCB /\ c # new
    BY <1>1, ChildrenInUse
  <2>2. p # new
    BY <1>3, EmptyList
  <2>. QED  BY <1>2, <2>1, <2>2 DEF IInv, TypeOK
<1>6. WaitersStay
  BY <1>2, <1>3, <1>4, <1>5 DEF WaitersStay, StillWaits
<1>7. OrphansGotSIGHUP' /\ Adopters'
  BY <1>4, <1>5 DEF Heard, OrphansGotSIGHUP, Adopters
<1>8. NoLostWakeup'
  BY <1>2, <1>3, <1>4, <1>5 DEF Heard, NoLostWakeup, Awaits
<1>. QED  BY <1>6, <1>7, <1>8 DEF Heard

LEMMA NewProcessHeard ==
  ASSUME IInv, Heard, NewProcess
  PROVE  Heard' /\ WaitersStay
<1>. DEFINE new == Head(pcb_pool)
<1>1. new \in PCB /\ new \in ToSet(pcb_pool)
  BY DetachHead DEF NewProcess, IInv, TypeOK
<1>2. /\ running \in PCB
      /\ wait_arg' = [wait_arg EXCEPT ![running] = NULL]
      /\ pid' = [pid EXCEPT ![new] = last_pid]
      /\ parent' = [parent EXCEPT ![new] = running]
      /\ signals' = [signals EXCEPT ![new] = {}]
      /\ status' = [status EXCEPT ![new] = "Ready"]
      /\ children' = [children EXCEPT ![new] = <<>>, ![running] = Append(@, new)]
      /\ UNCHANGED waiting_list
  BY DEF NewProcess, Trap, Runs, PCB_alloc, IInv, TypeOK
<1>. HIDE DEF new
<1>3. /\ children[new] = <<>> /\ new \notin waiting_list /\ running \notin waiting_list
      /\ waiting_list \subseteq PCB /\ running # new
      /\ children[running] \in Seq(PCB)
  BY <1>1, <1>2, SMTT(30) DEF IInv, Family, Placement, TypeOK
<1>4. /\ \A p \in PCB \ {running} : children'[p] = children[p]
      /\ ToSet(children'[running]) = ToSet(children[running]) \cup {new}
  BY <1>1, <1>2, <1>3, InsertLast DEF IInv, TypeOK
<1>5. ASSUME NEW p \in PCB, NEW c \in ToSet(children[p])
      PROVE  /\ c \in PCB /\ c # new /\ p # new
             /\ parent'[c] = parent[c] /\ parent'[p] = parent[p] /\ pid'[c] = pid[c]
             /\ signals'[c] = signals[c] /\ status'[c] = status[c]
  <2>1. c \in PCB /\ c # new
    BY <1>1, ChildrenInUse
  <2>2. p # new
    BY <1>3, EmptyList
  <2>. QED  BY <1>2, <2>1, <2>2 DEF IInv, TypeOK
<1>6. parent'[new] = running
  BY <1>1, <1>2 DEF IInv, TypeOK
<1>7. \A p \in waiting_list : p \in PCB \ {running} /\ wait_arg'[p] = wait_arg[p]
  BY <1>2, <1>3 DEF IInv, TypeOK
<1>8. WaitersStay
  <2>1. ASSUME NEW p \in waiting_list
        PROVE  StillWaits(p)
    <3>1. p \in waiting_list' /\ p \in PCB \ {running} /\ wait_arg'[p] = wait_arg[p]
      BY <1>2, <1>7
    <3>2. children'[p] = children[p]
      BY <1>4, <3>1
    <3>. QED  BY <1>5, <3>1, <3>2 DEF StillWaits
  <2>. QED  BY <2>1 DEF WaitersStay
<1>9. ASSUME NEW p \in PCB, NEW c \in ToSet(children'[p]), parent'[c] # p
      PROVE  c \in ToSet(children[p])
  BY <1>2, <1>4, <1>6, <1>9
<1>10. OrphansGotSIGHUP' /\ Adopters'
  BY <1>5, <1>9 DEF Heard, OrphansGotSIGHUP, Adopters
<1>11. NoLostWakeup'
  BY <1>2, <1>4, <1>5, <1>7 DEF Heard, NoLostWakeup, Awaits
<1>. QED  BY <1>8, <1>10, <1>11 DEF Heard

-----------------------------------------------------------------------------
(* The running process blocks.                                             *)
LEMMA SleepHeard ==
  ASSUME IInv, Heard, NEW cycles \in SleepCycles, internal_sleep(cycles)
  PROVE  Heard' /\ WaitersStay
<1>1. /\ running \in PCB
      /\ wait_arg' = [wait_arg EXCEPT ![running] = NULL]
      /\ waiting_list' \subseteq waiting_list \cup {running}
      /\ waiting_list \subseteq waiting_list' \ {running}
      /\ \A p \in PCB : status'[p] = "Zombie" => status[p] = "Zombie"
      /\ UNCHANGED <<children, parent, pid, signals>>
  BY DEF internal_sleep, Trap, Runs, WaitOnTimer, Block, pcbVars, IInv, TypeOK, Placement
<1>2. waiting_list \subseteq PCB /\ wait_arg'[running] = NULL
      /\ \A p \in PCB \ {running} : wait_arg'[p] = wait_arg[p]
  BY <1>1 DEF IInv, TypeOK
<1>3. OrphansGotSIGHUP' /\ Adopters'
  BY <1>1, <1>2 DEF Heard, OrphansGotSIGHUP, Adopters
<1>4. NoLostWakeup'
  <2>1. SUFFICES ASSUME NEW p \in waiting_list', NEW c \in ToSet(children[p]),
                        parent[c] = p, wait_arg'[p] \in {0, pid[c]}
                 PROVE  status'[c] # "Zombie"
    BY <1>1 DEF NoLostWakeup, Awaits
  <2>2. p \in PCB
    BY <1>1, <1>2
  <2>3. c \in PCB /\ pid[c] \in Nat
    BY <2>2, ChildrenInUse DEF IInv, TypeOK
  <2>4. p # running
    BY <1>2, <2>1, <2>3, NullIsNoPCB
  <2>. QED  BY <1>1, <1>2, <2>1, <2>2, <2>3, <2>4 DEF Heard, NoLostWakeup, Awaits
<1>5. WaitersStay
  BY <1>1, <1>2 DEF WaitersStay, StillWaits
<1>. QED  BY <1>3, <1>4, <1>5 DEF Heard

(* The scan of a wait passes no zombie that it was asked for.              *)
LEMMA AwaitedIsNoZombie ==
  ASSUME IInv, running \in PCB, NEW q, status[Awaited(q)] # "Zombie",
         NEW c \in ToSet(children[running]), q \in {0, pid[c]}
  PROVE  status[c] # "Zombie"
<1>. DEFINE list == children[running]
            I == {i \in 1 .. Len(list) : IF q = 0 THEN status[list[i]] = "Zombie"
                                                 ELSE pid[list[i]] = q}
<1>1. list \in Seq(PCB) /\ ToSet(list) = {list[i] : i \in 1 .. Len(list)}
  BY Members DEF IInv, TypeOK
<1>2. PICK k \in 1 .. Len(list) : list[k] = c
  BY <1>1
<1>3. CASE I = {}
  BY <1>2, <1>3
<1>4. CASE I # {}
  <2>1. Min(I) \in I
    <3>1. I \in SUBSET Nat
      OBVIOUS
    <3>. HIDE DEF I
    <3>. QED  BY <1>4, <3>1, FirstPosition
  <2>2. Min(I) \in 1 .. Len(list) /\ Min(I) # 0
    BY <2>1
  <2>3. Awaited(q) = list[Min(I)]
    BY <1>4, <2>2 DEF Awaited, SelectInSeq
  <2>4. q # 0 /\ pid[list[Min(I)]] = q /\ q = pid[c]
    BY <2>1, <2>3
  <2>5. list[Min(I)] \in ToSet(list)
    BY <1>1, <2>2
  <2>. HIDE DEF I
  <2>6. list[Min(I)] = c
    <3>1. /\ list[Min(I)] \in PCB \ ToSet(pcb_pool)
          /\ c \in PCB \ ToSet(pcb_pool)
      BY <2>5, ChildrenInUse
    <3>. QED  BY <2>4, <3>1 DEF IInv, PidsUnique
  <2>. QED  BY <2>3, <2>6
<1>. QED  BY <1>3, <1>4

LEMMA WaitBlocksHeard ==
  ASSUME IInv, Heard, NEW q \in WaitPids, WaitBlocks(q)
  PROVE  Heard' /\ WaitersStay
<1>1. /\ running \in PCB
      /\ children[running] # <<>>
      /\ status[Awaited(q)] # "Zombie"
      /\ wait_arg' = [wait_arg EXCEPT ![running] = q]
      /\ waiting_list' = waiting_list \cup {running}
      /\ \A p \in PCB : status'[p] = "Zombie" => status[p] = "Zombie"
      /\ UNCHANGED <<children, parent, pid, signals>>
  BY DEF WaitBlocks, Trap, Runs, Block, pcbVars, IInv, TypeOK
<1>2. waiting_list \subseteq PCB /\ wait_arg'[running] = q
      /\ \A p \in PCB \ {running} : wait_arg'[p] = wait_arg[p]
  BY <1>1 DEF IInv, TypeOK
<1>3. OrphansGotSIGHUP' /\ Adopters'
  BY <1>1, <1>2 DEF Heard, OrphansGotSIGHUP, Adopters
<1>4. NoLostWakeup'
  <2>1. SUFFICES ASSUME NEW p \in waiting_list', NEW c \in ToSet(children[p]),
                        parent[c] = p, wait_arg'[p] \in {0, pid[c]}
                 PROVE  status'[c] # "Zombie"
    BY <1>1 DEF NoLostWakeup, Awaits
  <2>2. p \in PCB /\ c \in PCB
    BY <1>1, <1>2, ChildrenInUse
  <2>3. CASE p = running
    BY <1>1, <1>2, <2>1, <2>2, <2>3, AwaitedIsNoZombie
  <2>4. CASE p # running
    BY <1>1, <1>2, <2>1, <2>2, <2>4 DEF Heard, NoLostWakeup, Awaits
  <2>. QED  BY <2>3, <2>4
<1>5. WaitersStay
  <2>1. running \notin waiting_list
    BY DEF IInv, Placement
  <2>. QED  BY <1>1, <1>2, <2>1 DEF WaitersStay, StillWaits
<1>. QED  BY <1>3, <1>4, <1>5 DEF Heard

-----------------------------------------------------------------------------
(* A wait that returns at once.                                            *)
LEMMA WaitReapsHeard ==
  ASSUME IInv, Heard, NEW q \in WaitPids, WaitReaps(q)
  PROVE  Heard' /\ WaitersStay
<1>. DEFINE dead == Awaited(q)
            others == RemoveFirst(children[running], dead)
<1>1. /\ running \in PCB
      /\ children[running] # <<>>
      /\ wait_arg' = [wait_arg EXCEPT ![running] = q]
      /\ children' = [children EXCEPT ![running] = others]
      /\ UNCHANGED <<parent, pid, signals, status, waiting_list>>
  BY DEF WaitReaps, Trap, Runs, Detach, IInv, TypeOK
<1>2. children[running] \in Seq(PCB) /\ dead \in ToSet(children[running])
  BY <1>1, AwaitedIsAChild DEF IInv, TypeOK
<1>3. ToSet(others) \subseteq ToSet(children[running])
  <2>. HIDE DEF dead
  <2>. QED  BY <1>2, DetachItem
<1>. HIDE DEF others
<1>4. \A p \in PCB : ToSet(children'[p]) \subseteq ToSet(children[p])
  BY <1>1, <1>3 DEF IInv, TypeOK
<1>5. \A p \in waiting_list :
        p \in PCB /\ children'[p] = children[p] /\ wait_arg'[p] = wait_arg[p]
  <2>1. running \notin waiting_list /\ waiting_list \subseteq PCB
    BY DEF IInv, Placement, TypeOK
  <2>. QED  BY <1>1, <2>1 DEF IInv, TypeOK
<1>6. NoLostWakeup' /\ WaitersStay
  BY <1>1, <1>5 DEF Heard, NoLostWakeup, Awaits, WaitersStay, StillWaits
<1>7. OrphansGotSIGHUP' /\ Adopters'
  BY <1>1, <1>4 DEF Heard, OrphansGotSIGHUP, Adopters
<1>. QED  BY <1>6, <1>7 DEF Heard

LEMMA WaitHeard ==
  ASSUME IInv, Heard, NEW q \in WaitPids, internal_wait(q)
  PROVE  Heard' /\ WaitersStay
<1>1. CASE WaitWithoutChildren(q)
  <2>1. /\ wait_arg' = [wait_arg EXCEPT ![running] = q]
        /\ UNCHANGED <<children, parent, pid, signals, status, waiting_list>>
    BY <1>1 DEF WaitWithoutChildren, Trap, pcbVars, schedVars
  <2>2. running \notin waiting_list /\ waiting_list \subseteq PCB
    BY DEF IInv, Placement, TypeOK
  <2>3. \A p \in waiting_list : wait_arg'[p] = wait_arg[p]
    BY <2>1, <2>2 DEF IInv, TypeOK
  <2>. QED  BY <2>1, <2>3, FamiliesKept
<1>2. CASE WaitDies(q)
  BY <1>2, FamiliesKept DEF WaitDies, Stop, pcbVars, schedVars, callVars
<1>. QED  BY <1>1, <1>2, WaitReapsHeard, WaitBlocksHeard DEF internal_wait

-----------------------------------------------------------------------------
(* Exit.  Who is in a list after the orphans moved, and what it was told.  *)
LEMMA OrphansMoved ==
  ASSUME IInv, Heard, running \in PCB, parent[running] # NULL, SignalFamily,
         NEW p \in PCB, NEW c \in ToSet(Reparented[p])
  PROVE  /\ c \in PCB /\ p # running
         /\ parent[c] = p => c \in ToSet(children[p])
         /\ parent[c] # p => parent[p] = NULL /\ "SIGHUP" \in signals'[c]
<1>1. /\ init_pcb \in PCB /\ init_pcb # running /\ parent[init_pcb] = NULL
      /\ children \in [PCB -> Seq(PCB)]
      /\ signals \in [PCB -> SUBSET Signals]
  BY DEF IInv, TypeOK, Family
<1>2. /\ Reparented[running] = <<>>
      /\ \A x \in PCB \ {running, init_pcb} : Reparented[x] = children[x]
  BY ReparentedFamily
<1>3. ToSet(Reparented[init_pcb]) = ToSet(children[init_pcb]) \cup ToSet(children[running])
  <2>1. Reparented[init_pcb] = children[init_pcb] \o children[running]
    BY <1>1 DEF Reparented
  <2>. QED  BY <1>1, <2>1, Concatenate
<1>4. p # running
  BY <1>2, EmptyList
<1>5. \/ c \in ToSet(children[p])
      \/ p = init_pcb /\ c \in ToSet(children[running])
  BY <1>2, <1>3, <1>4
<1>6. c \in PCB
  BY <1>1, <1>5, ChildrenInUse
<1>7. signals'[c] = signals[c] \cup (IF Contains(children[running], c) THEN {"SIGHUP"} ELSE {})
                               \cup (IF c = parent[running] THEN {"SIGCHLD"} ELSE {})
  BY <1>6 DEF SignalFamily
<1>8. CASE c \in ToSet(children[p])
  BY <1>4, <1>6, <1>7, <1>8 DEF Heard, OrphansGotSIGHUP, Adopters
<1>9. CASE p = init_pcb /\ c \in ToSet(children[running])
  <2>1. parent[c] = running
    BY <1>9 DEF Heard, Adopters
  <2>2. Contains(children[running], c)
    <3>. DEFINE list == children[running]
    <3>1. list \in Seq(PCB) /\ c \in ToSet(list)
      BY <1>1, <1>9
    <3>. HIDE DEF list
    <3>2. PICK i \in 1 .. Len(list) : list[i] = c
      BY <3>1, Members
    <3>. QED  BY <3>2 DEF Contains, list
  <2>. QED  BY <1>1, <1>4, <1>6, <1>7, <1>9, <2>1, <2>2
<1>. QED  BY <1>5, <1>8, <1>9

(* Nobody but the process that exits loses its children.                   *)
LEMMA StillHasChildren ==
  ASSUME IInv, running \in PCB, parent[running] # NULL, NEW p \in PCB, p # running
  PROVE  ToSet(children[p]) \subseteq ToSet(Reparented[p])
<1>1. children[p] \in Seq(PCB) /\ children[running] \in Seq(PCB)
  BY DEF IInv, TypeOK
<1>2. CASE p # init_pcb
  BY <1>2, ReparentedFamily
<1>3. CASE p = init_pcb
  <2>1. Reparented[p] = children[p] \o children[running]
    BY <1>3 DEF Reparented, IInv, TypeOK
  <2>. QED  BY <1>1, <2>1, Concatenate
<1>. QED  BY <1>2, <1>3

LEMMA ExitToReadyHeard ==
  ASSUME IInv, Heard, ExitToReady
  PROVE  Heard' /\ WaitersStay
<1>. DEFINE next == Head(ready_list)
<1>1. /\ running \in PCB
      /\ parent[running] # NULL
      /\ ~ParentAwaits
      /\ wait_arg' = [wait_arg EXCEPT ![running] = NULL]
      /\ children' = Reparented
      /\ SignalFamily
      /\ status' = [status EXCEPT ![running] = "Zombie", ![next] = "Running"]
      /\ UNCHANGED <<pid, parent, waiting_list>>
  BY DEF ExitToReady, Exiting, Trap, Runs, IInv, TypeOK
<1>2. /\ next \in PCB
      /\ running \notin waiting_list /\ waiting_list \subseteq PCB
  BY DetachHead DEF ExitToReady, IInv, Placement, TypeOK
<1>. HIDE DEF next
<1>3. \A p \in waiting_list : p \in PCB /\ p # running /\ wait_arg'[p] = wait_arg[p]
  BY <1>1, <1>2 DEF IInv, TypeOK
<1>4. WaitersStay
  BY <1>1, <1>3, StillHasChildren DEF WaitersStay, StillWaits
<1>5. OrphansGotSIGHUP' /\ Adopters'
  BY <1>1, OrphansMoved DEF OrphansGotSIGHUP, Adopters
<1>6. NoLostWakeup'
  <2>1. SUFFICES ASSUME NEW p \in waiting_list, NEW c \in ToSet(Reparented[p]),
                        parent[c] = p, wait_arg[p] \in {0, pid[c]}
                 PROVE  status'[c] # "Zombie"
    BY <1>1, <1>3 DEF NoLostWakeup, Awaits
  <2>2. c \in PCB /\ c \in ToSet(children[p]) /\ p \in PCB
    BY <1>1, <1>3, <2>1, OrphansMoved
  <2>3. status[c] # "Zombie"
    BY <2>1, <2>2 DEF Heard, NoLostWakeup, Awaits
  <2>4. c # running
    <3>1. status[p] = "Waiting"
      BY <2>2 DEF IInv, StatusAgrees
    <3>. QED  BY <1>1, <2>1, <3>1 DEF ParentAwaits
  <2>. QED  BY <1>1, <1>2, <2>2, <2>3, <2>4 DEF IInv, TypeOK
<1>. QED  BY <1>4, <1>5, <1>6 DEF Heard

LEMMA ExitToParentHeard ==
  ASSUME IInv, Heard, ExitToParent
  PROVE  /\ Heard'
         /\ \A p \in waiting_list \ {parent[running]} : StillWaits(p)
<1>. DEFINE par    == parent[running]
            others == WithoutPID(Reparented[par], pid[running])
<1>1. /\ running \in PCB
      /\ par \in PCB /\ par # NULL
      /\ PCBPtr_byPID(Reparented[par], pid[running])
      /\ wait_arg' = [wait_arg EXCEPT ![running] = NULL]
      /\ children' = [Reparented EXCEPT ![par] = others]
      /\ SignalFamily
      /\ waiting_list' = waiting_list \ {par}
      /\ status' = [status EXCEPT ![running] = "Zombie", ![par] = "Running"]
      /\ UNCHANGED <<pid, parent>>
  BY DEF ExitToParent, Exiting, Trap, Runs, ParentAwaits, IInv, TypeOK
<1>2. /\ Reparented \in [PCB -> Seq(PCB)]
      /\ UNION {ToSet(Reparented[p]) : p \in PCB} = UNION {ToSet(children[p]) : p \in PCB}
  BY <1>1, ReparentedFamily
<1>3. ToSet(others) \subseteq ToSet(Reparented[par])
  <2>1. \A c \in ToSet(Reparented[par]) : pid[c] = pid[running] => c = running
    <3>1. ToSet(Reparented[par]) \subseteq PCB \ ToSet(pcb_pool)
      BY <1>1, <1>2 DEF IInv, Family
    <3>2. running \notin ToSet(pcb_pool)
      BY DEF IInv, Placement
    <3>. QED  BY <1>1, <3>1, <3>2 DEF IInv, PidsUnique
  <2>. QED  BY <1>1, <1>2, <2>1, FoundByPID
<1>. HIDE DEF others
<1>4. /\ \A p \in PCB \ {par} : children'[p] = Reparented[p]
      /\ \A p \in PCB : ToSet(children'[p]) \subseteq ToSet(Reparented[p])
  BY <1>1, <1>2, <1>3
<1>5. \A p \in waiting_list' : p \in PCB \ {running, par} /\ wait_arg'[p] = wait_arg[p]
  <2>1. running \notin waiting_list /\ waiting_list \subseteq PCB
    BY DEF IInv, Placement, TypeOK
  <2>. QED  BY <1>1, <2>1 DEF IInv, TypeOK
<1>6. \A p \in waiting_list \ {par} : StillWaits(p)
  BY <1>1, <1>4, <1>5, StillHasChildren DEF StillWaits
<1>7. OrphansGotSIGHUP' /\ Adopters'
  BY <1>1, <1>4, OrphansMoved DEF OrphansGotSIGHUP, Adopters
<1>8. NoLostWakeup'
  <2>1. SUFFICES ASSUME NEW p \in waiting_list', NEW c \in ToSet(Reparented[p]),
                        parent[c] = p, wait_arg[p] \in {0, pid[c]}
                 PROVE  status'[c] # "Zombie"
    <3>1. \A p \in waiting_list' :
            /\ \A c \in ToSet(children'[p]) : c \in ToSet(Reparented[p])
            /\ wait_arg'[p] = wait_arg[p]
      BY <1>4, <1>5
    <3>2. parent' = parent /\ pid' = pid
      BY <1>1
    <3>. QED  BY <3>1, <3>2 DEF NoLostWakeup, Awaits
  <2>2. c \in PCB /\ c \in ToSet(children[p]) /\ p \in waiting_list
    BY <1>1, <1>5, <2>1, OrphansMoved
  <2>3. status[c] # "Zombie"
    BY <2>1, <2>2 DEF Heard, NoLostWakeup, Awaits
  <2>4. c # running
    BY <1>5, <2>1
  <2>. QED  BY <1>1, <2>2, <2>3, <2>4 DEF IInv, TypeOK
<1>. QED  BY <1>6, <1>7, <1>8 DEF Heard

(* The exit that wakes its parent is that of a child it waits for.         *)
LEMMA ParentIsWoken ==
  ASSUME IInv, IInv', Heard, ExitToParent
  PROVE  /\ parent[running] \notin waiting_list'
         /\ running \in ToSet(children[parent[running]]) \ ToSet(children'[parent[running]])
         /\ Awaits(parent[running], running)
         /\ running' = parent[running]
         /\ syscall_retvalue'[parent[running]] = pid[running]
<1>. DEFINE par == parent[running]
<1>1. /\ running \in PCB
      /\ par \in PCB /\ par # NULL
      /\ PCBPtr_byPID(Reparented[par], pid[running])
      /\ wait_arg[par] \in {0, pid[running]}
      /\ SignalFamily
      /\ waiting_list' = waiting_list \ {par}
      /\ syscall_retvalue' = [syscall_retvalue EXCEPT ![par] = pid[running]]
      /\ pcb_pool' = Cons(running, pcb_pool)
      /\ running' = par
  BY DEF ExitToParent, Exiting, Trap, Runs, ParentAwaits, IInv, TypeOK
<1>2. running \in ToSet(children[par])
  <2>1. PICK i \in 1 .. Len(Reparented[par]) : pid[Reparented[par][i]] = pid[running]
    BY <1>1 DEF PCBPtr_byPID
  <2>2. Reparented[par] \in Seq(PCB)
    BY <1>1, ReparentedFamily
  <2>3. Reparented[par][i] \in ToSet(Reparented[par])
    BY <2>1, <2>2, Members
  <2>4. Reparented[par][i] \in UNION {ToSet(children[p]) : p \in PCB}
    BY <1>1, <2>3, ReparentedFamily
  <2>5. Reparented[par][i] \in PCB \ ToSet(pcb_pool)
    BY <2>4 DEF IInv, Family
  <2>6. Reparented[par][i] = running
    BY <1>1, <2>1, <2>5 DEF IInv, PidsUnique, Placement
  <2>. QED  BY <1>1, <2>3, <2>6, OrphansMoved
<1>3. running \notin ToSet(children'[par])
  <2>1. running \in ToSet(pcb_pool')
    <3>1. pcb_pool \in Seq(PCB)
      BY DEF IInv, TypeOK
    <3>2. running \in ToSet(Cons(running, pcb_pool))
      BY <1>1, <3>1, InsertFirst
    <3>. QED  BY <1>1, <3>2
  <2>2. Family'
    BY DEF IInv
  <2>3. UNION {ToSet(children'[p]) : p \in PCB}
          = {p \in PCB \ ToSet(pcb_pool') : parent'[p] # NULL}
    BY <2>2 DEF Family
  <2>4. ToSet(children'[par]) \subseteq UNION {ToSet(children'[p]) : p \in PCB}
    BY <1>1
  <2>. QED  BY <2>1, <2>3, <2>4
<1>. QED  BY <1>1, <1>2, <1>3 DEF Awaits, IInv, TypeOK

LEMMA HeardStep ==
  ASSUME IInv, Heard, [Next]_vars
  PROVE  Heard' /\ (WaitersStay \/ ExitToParent)
<1>1. CASE timerInterrupt
  <2>1. /\ Tick \in Nat /\ internal_schedule(Tick) /\ running \in PCB
        /\ UNCHANGED pcbVars /\ wait_arg' = wait_arg
    BY <1>1, KernelAssumption DEF timerInterrupt, Runs, Tick, callVars, IInv, TypeOK
  <2>. QED  BY <2>1, ScheduleHeard
<1>2. CASE internal_preempt
  <2>1. /\ disastrOS_time \in Nat /\ internal_schedule(disastrOS_time) /\ running \in PCB
        /\ UNCHANGED pcbVars /\ \A p \in PCB \ {running} : wait_arg'[p] = wait_arg[p]
    BY <1>2 DEF internal_preempt, Trap, Runs, IInv, TypeOK
  <2>. QED  BY <2>1, ScheduleHeard
<1>3. CASE Reboot
  BY <1>3, RebootHeard
<1>4. CASE internal_spawn \/ internal_fork
  BY <1>4, NewProcessHeard DEF internal_spawn, internal_fork
<1>5. CASE \E q \in WaitPids : internal_wait(q)
  BY <1>5, WaitHeard
<1>6. CASE \E cycles \in SleepCycles : internal_sleep(cycles)
  BY <1>6, SleepHeard
<1>7. CASE ExitToParent \/ ExitToReady
  BY <1>7, ExitToParentHeard, ExitToReadyHeard
<1>8. CASE \/ timerInterruptDies \/ RebootDies \/ NewProcessDies \/ NoContext \/ ExitDies
           \/ internal_shutdown \/ Ended \/ UNCHANGED vars
  <2>1. UNCHANGED <<children, parent, pid, signals, waiting_list, wait_arg, status>>
    BY <1>8 DEF timerInterruptDies, RebootDies, NewProcessDies, NoContext, ExitDies,
                internal_shutdown, Ended, Stop, vars, pcbVars, schedVars, callVars
  <2>. QED  BY <2>1, FamiliesKept
<1>. QED  BY <1>1, <1>2, <1>3, <1>4, <1>5, <1>6, <1>7, <1>8 DEF Next, internal_exit

LEMMA HeardAlways == Spec => [](IInv /\ Heard)
<1>1. Init => Heard
  <2>1. ASSUME Init PROVE waiting_list = {} /\ \A p \in PCB : ToSet(children[p]) = {}
    BY <2>1, EmptyList DEF Init
  <2>. QED  BY <2>1 DEF Heard, OrphansGotSIGHUP, Adopters, NoLostWakeup, Awaits
<1>2. IInv /\ Heard /\ [Next]_vars => Heard'
  BY HeardStep
<1>. QED  BY <1>1, <1>2, Invariance, PTL DEF Spec

(* No exit of a process's own child is lost on it while it waits, though   *)
(* disastrOS_exit.c:44 asks the parent, disastrOS_wait.c the list, and the *)
(* two disagree on orphans.                                                *)
THEOREM NoWakeupIsLost == Spec => []NoLostWakeup
<1>1. Heard => NoLostWakeup
  BY DEF Heard
<1>. QED  BY <1>1, HeardAlways, PTL

(* What a step may do to the processes that wait for a child.              *)
WokenByChild ==
  \A p \in waiting_list : wait_arg[p] # NULL =>
    \/ /\ p \in waiting_list'
       /\ \A c \in ToSet(children[p]) :
            Awaits(p, c) => /\ c \in ToSet(children'[p])
                            /\ Awaits(p, c)'
                            /\ status'[c] # "Zombie"
    \/ /\ p \notin waiting_list'
       /\ running \in ToSet(children[p]) \ ToSet(children'[p])
       /\ Awaits(p, running)
       /\ running' = p
       /\ syscall_retvalue'[p] = pid[running]

LEMMA WakeStep ==
  ASSUME IInv, Heard, [Next]_vars
  PROVE  WokenByChild
<1>1. Heard' /\ (WaitersStay \/ ExitToParent) /\ IInv'
  BY HeardStep, NextIInv
<1>2. ASSUME NEW p \in waiting_list, StillWaits(p), NEW c \in ToSet(children[p]), Awaits(p, c)
      PROVE  /\ c \in ToSet(children'[p])
             /\ Awaits(p, c)'
             /\ status'[c] # "Zombie"
  <2>1. p \in waiting_list' /\ c \in ToSet(children'[p]) /\ Awaits(p, c)'
    BY <1>2 DEF StillWaits, Awaits
  <2>. QED  BY <1>1, <2>1 DEF Heard, NoLostWakeup
<1>3. CASE WaitersStay
  BY <1>2, <1>3 DEF WaitersStay, StillWaits, WokenByChild
<1>4. CASE ExitToParent
  <2>1. ASSUME NEW p \in waiting_list, p # parent[running]
        PROVE  StillWaits(p)
    BY <1>4, <2>1, ExitToParentHeard
  <2>. QED  BY <1>1, <1>2, <1>4, <2>1, ParentIsWoken DEF StillWaits, WokenByChild
<1>. QED  BY <1>1, <1>3, <1>4

(* A wait that blocked ends with the exit of a child that it asked for and *)
(* with nothing else, although disastrOS_exit.c:44 follows a parent        *)
(* pointer that may be stale; until then no such child is lost to others.  *)
THEOREM WaitersWokenByChild == Spec => WokenByAwaitedChild
<1>1. IInv /\ Heard /\ [Next]_vars => WokenByChild
  BY WakeStep
<1>. QED  BY <1>1, HeardAlways, PTL DEF Spec, WokenByAwaitedChild, WokenByChild

(* A process in the list of another than its parent was sent SIGHUP        *)
(* (disastrOS_exit.c:30).                                                  *)
THEOREM OrphansAreTold == Spec => []OrphansGotSIGHUP
<1>1. Heard => OrphansGotSIGHUP
  BY DEF Heard
<1>. QED  BY <1>1, HeardAlways, PTL

-----------------------------------------------------------------------------
(* PCBPtrs.  Those in lists are the processes in use that have a parent.   *)
Parented == {p \in PCB \ ToSet(pcb_pool) : parent[p] # NULL}

LEMMA SetOfPCBs ==
  ASSUME NEW S \in SUBSET PCB
  PROVE  IsFiniteSet(S) /\ Cardinality(S) \in Nat
<1>1. IsFiniteSet(PCB)
  BY KernelAssumption, FS_Interval DEF PCB
<1>2. IsFiniteSet(S)
  BY <1>1, FS_Subset
<1>. QED  BY <1>2, FS_CardinalityType

LEMMA AccountedByParents ==
  IInv => (PCBPtrsAccounted <=> pcbptr_free + Cardinality(Parented) <= MAX_NUM_PROCESSES)
BY DEF IInv, Family, PCBPtrsAccounted, Parented

(* PCB_free puts the block in front of the free ones.                      *)
LEMMA PCBReturned ==
  ASSUME IInv, NEW p \in PCB, pcb_pool' = Cons(p, pcb_pool)
  PROVE  ToSet(pcb_pool') = ToSet(pcb_pool) \cup {p}
<1>1. pcb_pool \in Seq(PCB)
  BY DEF IInv, TypeOK
<1>2. ToSet(Cons(p, pcb_pool)) = ToSet(pcb_pool) \cup {p}
  BY <1>1, InsertFirst
<1>. QED  BY <1>2

(* No call puts a PCBPtr in a list without taking it from the pool, nor in *)
(* the pool without taking it from a list.                                 *)
LEMMA PCBPtrsMove ==
  ASSUME IInv, [Next]_vars
  PROVE  \/ Parented' \subseteq Parented /\ pcbptr_free' = pcbptr_free
         \/ \E p \in PCB : /\ p \notin Parented /\ Parented' = Parented \cup {p}
                           /\ pcbptr_free' = pcbptr_free - 1
         \/ \E p \in Parented : /\ Parented' = Parented \ {p}
                                /\ pcbptr_free' = pcbptr_free + 1
<1>1. CASE Reboot
  <2>1. /\ Head(pcb_pool) \in PCB /\ pcb_pool' = Tail(pcb_pool)
        /\ ToSet(pcb_pool) = ToSet(Tail(pcb_pool)) \cup {Head(pcb_pool)}
        /\ parent' = [parent EXCEPT ![Head(pcb_pool)] = NULL]
        /\ pcbptr_free' = pcbptr_free
    BY <1>1, DetachHead DEF Reboot, PCB_alloc, IInv, TypeOK
  <2>. QED  BY <2>1 DEF Parented, IInv, TypeOK
<1>2. CASE internal_spawn \/ internal_fork
  <2>. DEFINE new == Head(pcb_pool)
  <2>1. /\ new \in PCB /\ pcb_pool' = Tail(pcb_pool)
        /\ ToSet(pcb_pool) = ToSet(Tail(pcb_pool)) \cup {new}
        /\ new \notin ToSet(Tail(pcb_pool))
        /\ parent' = [parent EXCEPT ![new] = running]
        /\ running # NULL
        /\ pcbptr_free' = pcbptr_free - 1
    BY <1>2, DetachHead
    DEF internal_spawn, internal_fork, NewProcess, Trap, Runs, PCB_alloc, IInv, TypeOK, Placement
  <2>2. new \notin Parented /\ Parented' = Parented \cup {new}
    BY <2>1, SMTT(30) DEF Parented, IInv, TypeOK
  <2>. QED  BY <2>1, <2>2
<1>3. CASE \E q \in WaitPids : WaitReaps(q)
  <2>1. PICK q \in WaitPids : WaitReaps(q)
    BY <1>3
  <2>. DEFINE dead == Awaited(q)
  <2>2. /\ pcb_pool' = Cons(dead, pcb_pool)
        /\ UNCHANGED parent
        /\ pcbptr_free' = pcbptr_free + 1
        /\ children[running] \in Seq(PCB) /\ children[running] # <<>> /\ running \in PCB
    BY <2>1 DEF WaitReaps, Trap, Runs, IInv, TypeOK
  <2>3. dead \in ToSet(children[running])
    BY <2>2, AwaitedIsAChild
  <2>4. dead \in Parented
    BY <2>2, <2>3 DEF Parented, IInv, Family
  <2>5. ToSet(pcb_pool') = ToSet(pcb_pool) \cup {dead}
    <3>1. dead \in PCB
      BY <2>4 DEF Parented
    <3>. HIDE DEF dead
    <3>. QED  BY <2>2, <3>1, PCBReturned
  <2>6. Parented' = Parented \ {dead}
    BY <2>2, <2>5 DEF Parented
  <2>. QED  BY <2>2, <2>4, <2>6
<1>4. CASE ExitToParent
  <2>1. /\ pcb_pool' = Cons(running, pcb_pool) /\ running \in PCB
        /\ UNCHANGED <<parent, pcbptr_free>>
    BY <1>4 DEF ExitToParent, Exiting, Trap, Runs, IInv, TypeOK
  <2>2. ToSet(pcb_pool') = ToSet(pcb_pool) \cup {running}
    BY <2>1, PCBReturned
  <2>. QED  BY <2>1, <2>2 DEF Parented
<1>5. CASE UNCHANGED <<pcb_pool, parent, pcbptr_free>>
  BY <1>5 DEF Parented
<1>6. CASE \/ timerInterrupt \/ timerInterruptDies \/ RebootDies \/ internal_preempt
           \/ NewProcessDies \/ NoContext \/ ExitToReady \/ ExitDies \/ internal_shutdown
           \/ (\E q \in WaitPids : WaitWithoutChildren(q) \/ WaitBlocks(q) \/ WaitDies(q))
           \/ (\E cycles \in SleepCycles : internal_sleep(cycles))
           \/ Ended \/ UNCHANGED vars
  <2>1. UNCHANGED <<pcb_pool, parent, pcbptr_free>>
    BY <1>6 DEF timerInterrupt, timerInterruptDies, RebootDies, internal_preempt,
                NewProcessDies, NoContext, ExitToReady, ExitDies, internal_shutdown,
                WaitWithoutChildren, WaitBlocks, WaitDies, internal_sleep, Ended,
                Stop, vars, pcbVars, poolVars
  <2>. QED  BY <2>1, <1>5
<1>. QED  BY <1>1, <1>2, <1>3, <1>4, <1>6 DEF Next, internal_wait, internal_exit

LEMMA PCBPtrsStep == IInv /\ PCBPtrsAccounted /\ [Next]_vars => PCBPtrsAccounted'
<1>. SUFFICES ASSUME IInv, PCBPtrsAccounted, [Next]_vars PROVE PCBPtrsAccounted'
  OBVIOUS
<1>. DEFINE n == Cardinality(Parented)
<1>1. /\ pcbptr_free \in Nat /\ IsFiniteSet(Parented) /\ n \in Nat
      /\ Cardinality(Parented') \in Nat
      /\ pcbptr_free + n <= MAX_NUM_PROCESSES
  <2>1. Parented \in SUBSET PCB /\ Parented' \in SUBSET PCB
    BY DEF Parented
  <2>. QED  BY <2>1, SetOfPCBs, AccountedByParents DEF IInv, TypeOK
<1>2. IInv'
  BY NextIInv
<1>3. pcbptr_free' + Cardinality(Parented') <= MAX_NUM_PROCESSES
  <2>1. CASE Parented' \subseteq Parented /\ pcbptr_free' = pcbptr_free
    BY <1>1, <2>1, FS_Subset, KernelAssumption
  <2>2. ASSUME NEW p \in PCB, p \notin Parented, Parented' = Parented \cup {p},
               pcbptr_free' = pcbptr_free - 1
        PROVE  pcbptr_free' + Cardinality(Parented') <= MAX_NUM_PROCESSES
    <3>1. Cardinality(Parented') = n + 1
      BY <1>1, <2>2, FS_AddElement
    <3>. QED  BY <1>1, <2>2, <3>1, KernelAssumption
  <2>3. ASSUME NEW p \in Parented, Parented' = Parented \ {p}, pcbptr_free' = pcbptr_free + 1
        PROVE  pcbptr_free' + Cardinality(Parented') <= MAX_NUM_PROCESSES
    <3>1. Cardinality(Parented') = n - 1
      BY <1>1, <2>3, FS_RemoveElement
    <3>. QED  BY <1>1, <2>3, <3>1, KernelAssumption
  <2>. QED  BY <2>1, <2>2, <2>3, PCBPtrsMove
<1>4. (PCBPtrsAccounted <=> pcbptr_free + Cardinality(Parented) <= MAX_NUM_PROCESSES)'
  BY <1>2 DEF IInv, Family, PCBPtrsAccounted, Parented
<1>. QED  BY <1>3, <1>4

(* The free PCBPtrs and those in lists are never more than there are,      *)
(* though exit and wait release them differently (disastrOS_exit.c:53,     *)
(* disastrOS_wait.c): an upper bound, as an awaited exit loses one.        *)
THEOREM PCBPtrsSafe == Spec => []PCBPtrsAccounted
<1>1. Init => PCBPtrsAccounted
  <2>1. ASSUME Init PROVE Parented = {} /\ pcbptr_free = MAX_NUM_PROCESSES
    BY <2>1 DEF Init, Parented
  <2>2. Cardinality({}) = 0
    BY FS_EmptySet
  <2>. QED  BY <2>1, <2>2, InitIInv, AccountedByParents, KernelAssumption
<1>. QED  BY <1>1, PCBPtrsStep, Invariance, PTL DEF Spec

-----------------------------------------------------------------------------
(* Overtaking: a ready process is overtaken once by each timer that is     *)
(* set, and by nobody else.                                                *)
(* Positions in lists without duplicates.                                  *)
LEMMA PositionIs ==
  ASSUME NEW list \in Seq(PCB), IsInjective(list), NEW i \in 1 .. Len(list)
  PROVE  Position(list, list[i]) = i
<1>1. \A j \in 1 .. Len(list) : list[j] = list[i] <=> j = i
  BY Injective
<1>. QED  BY <1>1 DEF Position

LEMMA PositionInList ==
  ASSUME NEW list \in Seq(PCB), IsInjective(list), NEW p \in ToSet(list)
  PROVE  Position(list, p) \in 1 .. Len(list) /\ list[Position(list, p)] = p
<1>1. PICK i \in 1 .. Len(list) : list[i] = p
  BY Members
<1>. QED  BY <1>1, PositionIs

(* What precedes a list moves its members back.                            *)
LEMMA PositionBehind ==
  ASSUME NEW s \in Seq(PCB), NEW t \in Seq(PCB), IsInjective(t), IsInjective(s \o t),
         NEW p \in ToSet(t)
  PROVE  Position(s \o t, p) = Len(s) + Position(t, p)
<1>. DEFINE i == Position(t, p)
            k == Len(s) + i
<1>1. i \in 1 .. Len(t) /\ t[i] = p /\ Len(s) \in Nat /\ Len(t) \in Nat
  BY PositionInList, Members
<1>. HIDE DEF i
<1>2. s \o t \in Seq(PCB) /\ Len(s \o t) = Len(s) + Len(t)
  BY ConcatProperties
<1>3. k \in 1 .. Len(s \o t) /\ (s \o t)[k] = t[k - Len(s)] /\ k - Len(s) = i
  BY <1>1, <1>2, ConcatProperties
<1>. HIDE DEF k
<1>4. Position(s \o t, (s \o t)[k]) = k
  BY <1>2, <1>3, PositionIs
<1>. QED  BY <1>1, <1>3, <1>4 DEF k, i

LEMMA PositionAhead ==
  ASSUME NEW s \in Seq(PCB), NEW e \in PCB, IsInjective(s), IsInjective(Append(s, e)),
         NEW p \in ToSet(s)
  PROVE  Position(Append(s, e), p) = Position(s, p)
<1>. DEFINE i == Position(s, p)
<1>1. i \in 1 .. Len(s) /\ s[i] = p /\ Len(s) \in Nat
  BY PositionInList, Members
<1>. HIDE DEF i
<1>2. /\ Append(s, e) \in Seq(PCB) /\ i \in 1 .. Len(Append(s, e))
      /\ Append(s, e)[i] = p
  BY <1>1
<1>3. Position(Append(s, e), Append(s, e)[i]) = i
  BY <1>2, PositionIs
<1>. QED  BY <1>2, <1>3 DEF i

LEMMA PositionInTail ==
  ASSUME NEW s \in Seq(PCB), s # <<>>, IsInjective(s), NEW p \in ToSet(Tail(s))
  PROVE  p \in ToSet(s) /\ Position(Tail(s), p) = Position(s, p) - 1
<1>. DEFINE i == Position(Tail(s), p)
<1>1. Tail(s) \in Seq(PCB) /\ IsInjective(Tail(s)) /\ ToSet(Tail(s)) \subseteq ToSet(s)
  BY DetachHead
<1>2. i \in 1 .. Len(Tail(s)) /\ Tail(s)[i] = p
  BY <1>1, PositionInList
<1>. HIDE DEF i
<1>3. Len(s) \in Nat /\ i + 1 \in 1 .. Len(s) /\ s[i + 1] = p /\ i \in Nat
  BY <1>2, HeadTailProperties, Members
<1>4. Position(s, s[i + 1]) = i + 1
  BY <1>3, PositionIs
<1>. QED  BY <1>1, <1>3, <1>4 DEF i

(* Each timer that rings puts one process in front.                        *)
LEMMA WokenAndPending ==
  ASSUME timer_list \in Seq(Timer), InOrder(timer_list), NEW time \in Nat
  PROVE  /\ Len(Woken(time)) \in Nat /\ Len(Pending(time)) \in Nat
         /\ Len(Woken(time)) + Len(Pending(time)) = Len(timer_list)
<1>. DEFINE n == Len(timer_list)
            k == FirstLater(timer_list, time)
            m == k - 1
<1>1. n \in Nat /\ k \in 1 .. n + 1
  BY Members, FirstLaterIsBetween
<1>2. Elapsed(time) = SubSeq(timer_list, 1, m)
  BY DEF Elapsed
<1>. HIDE DEF k, n
<1>3. m \in Nat /\ m <= n
  BY <1>1
<1>. HIDE DEF m
<1>4. Len(Elapsed(time)) = m
  BY <1>2, <1>3, Cut DEF n
<1>5. Len(Woken(time)) = m
  BY <1>3, <1>4 DEF Woken
<1>6. Pending(time) = SubSeq(timer_list, m + 1, n)
  BY <1>4 DEF Pending, n
<1>7. Len(Pending(time)) = n - m
  BY <1>3, <1>6, Cut DEF n
<1>. QED  BY <1>1, <1>3, <1>5, <1>7 DEF n

-----------------------------------------------------------------------------
(* What a step may do to those that were ready and still are.              *)
NotOvertaken ==
  \A p \in ToSet(ready_list) \cap ToSet(ready_list') :
    LET before == Position(ready_list, p) + Len(timer_list)
        after  == Position(ready_list', p) + Len(timer_list')
    IN  /\ after <= before
        /\ running \in ToSet(ready_list') => after < before

(* A step that changes neither list.                                       *)
LEMMA ReadyKept ==
  ASSUME IInv, UNCHANGED <<ready_list, timer_list>>
  PROVE  NotOvertaken
<1>1. \A p \in ToSet(ready_list) : Position(ready_list, p) \in Nat
  BY PositionInList DEF IInv, TypeOK, Placement
<1>2. Len(timer_list) \in Nat /\ running \notin ToSet(ready_list)
  BY Members DEF IInv, TypeOK, Placement
<1>. QED  BY <1>1, <1>2 DEF NotOvertaken

(* A new process goes to the end.                                          *)
LEMMA ReadyGrows ==
  ASSUME IInv, NewProcess
  PROVE  NotOvertaken
<1>. DEFINE new == Head(pcb_pool)
<1>1. new \in PCB /\ new \in ToSet(pcb_pool) /\ running \in PCB
  BY DetachHead DEF NewProcess, Trap, Runs, IInv, TypeOK
<1>2. ready_list' = Append(ready_list, new) /\ timer_list' = timer_list
  BY DEF NewProcess
<1>. HIDE DEF new
<1>3. /\ ready_list \in Seq(PCB) /\ IsInjective(ready_list)
      /\ new \notin ToSet(ready_list) /\ running \notin ToSet(ready_list) /\ running # new
  BY <1>1 DEF IInv, TypeOK, Placement
<1>4. /\ IsInjective(Append(ready_list, new))
      /\ ToSet(Append(ready_list, new)) = ToSet(ready_list) \cup {new}
  BY <1>1, <1>3, InsertLast
<1>5. ASSUME NEW p \in ToSet(ready_list)
      PROVE  /\ Position(ready_list, p) \in Nat
             /\ Position(Append(ready_list, new), p) = Position(ready_list, p)
  BY <1>1, <1>3, <1>4, PositionInList, PositionAhead
<1>6. Len(timer_list) \in Nat
  BY Members DEF IInv, TypeOK
<1>. QED  BY <1>2, <1>3, <1>4, <1>5, <1>6 DEF NotOvertaken

(* The first ready process gets the processor, and at most one timer is    *)
(* set.                                                                    *)
LEMMA ReadyAdvances ==
  ASSUME IInv, ready_list # <<>>, ready_list' = Tail(ready_list),
         Len(timer_list') \in Nat, Len(timer_list') <= Len(timer_list) + 1
  PROVE  NotOvertaken
<1>1. /\ ready_list \in Seq(PCB) /\ IsInjective(ready_list) /\ running \notin ToSet(ready_list)
      /\ Len(timer_list) \in Nat
  BY Members DEF IInv, TypeOK, Placement
<1>2. ToSet(ready_list') \subseteq ToSet(ready_list)
  <2>1. ToSet(Tail(ready_list)) \subseteq ToSet(ready_list)
    BY <1>1, DetachHead
  <2>. QED  BY <2>1
<1>3. ASSUME NEW p \in ToSet(Tail(ready_list))
      PROVE  /\ Position(ready_list, p) \in Nat
             /\ Position(Tail(ready_list), p) = Position(ready_list, p) - 1
  BY <1>1, PositionInList, PositionInTail
<1>4. \A p \in ToSet(ready_list') :
        /\ Position(ready_list, p) \in Nat
        /\ Position(ready_list', p) = Position(ready_list, p) - 1
  BY <1>3
<1>. QED  BY <1>1, <1>2, <1>4 DEF NotOvertaken

(* The running process blocks.                                             *)
LEMMA BlockOvertakesNone ==
  ASSUME IInv, Block, Len(timer_list') \in Nat, Len(timer_list') <= Len(timer_list) + 1
  PROVE  NotOvertaken
<1>1. CASE ready_list = <<>>
  BY <1>1, EmptyList DEF NotOvertaken
<1>2. CASE ready_list # <<>>
  BY <1>2, ReadyAdvances DEF Block, SwitchToReady
<1>. QED  BY <1>1, <1>2

(* The tick and preempt: each woken process takes one timer off the list,  *)
(* and one of those in front gets the processor.                           *)
LEMMA ScheduleOvertakesNone ==
  ASSUME IInv, running \in PCB, NEW time \in Nat, internal_schedule(time)
  PROVE  NotOvertaken
<1>. DEFINE woken == Woken(time)
            ready == woken \o ready_list
            left  == Pending(time)
            rest  == Tail(ready)
<1>1. timer_list \in Seq(Timer) /\ InOrder(timer_list)
      /\ Sleepers(timer_list) = {p \in waiting_list : wait_arg[p] = NULL}
  BY TimersInvariant DEF IInv, TypeOK
<1>2. /\ woken \in Seq(PCB) /\ IsInjective(woken)
      /\ ToSet(woken) \subseteq Sleepers(timer_list)
  BY <1>1, TimersRang
<1>3. /\ Len(woken) \in Nat /\ Len(left) \in Nat
      /\ Len(woken) + Len(left) = Len(timer_list)
  BY <1>1, WokenAndPending
<1>4. /\ timer_list' = left
      /\ IF ready = <<>>
         THEN ready_list' = ready_list
         ELSE ready_list' = Append(rest, running)
  BY DEF internal_schedule, RoundRobin, Woken
<1>. HIDE DEF woken, left
<1>5. /\ ready_list \in Seq(PCB) /\ IsInjective(ready_list)
      /\ ToSet(woken) \cap ToSet(ready_list) = {}
      /\ running \notin ToSet(woken) \cup ToSet(ready_list)
  BY <1>1, <1>2 DEF IInv, TypeOK, Placement
<1>6. /\ ready \in Seq(PCB) /\ IsInjective(ready)
      /\ ToSet(ready) = ToSet(woken) \cup ToSet(ready_list)
  BY <1>2, <1>5, Concatenate
<1>7. ASSUME NEW p \in ToSet(ready_list)
      PROVE  /\ Position(ready_list, p) \in Nat
             /\ Position(ready, p) = Len(woken) + Position(ready_list, p)
  BY <1>2, <1>5, <1>6, PositionInList, PositionBehind
<1>. HIDE DEF ready
<1>8. CASE ready = <<>>
  <2>1. ToSet(ready_list) = {}
    BY <1>6, <1>8, EmptyList
  <2>. QED  BY <2>1 DEF NotOvertaken
<1>9. CASE ready # <<>>
  <2>1. /\ rest \in Seq(PCB) /\ IsInjective(rest) /\ ToSet(rest) \subseteq ToSet(ready)
    BY <1>6, <1>9, DetachHead
  <2>2. ASSUME NEW p \in ToSet(rest)
        PROVE  Position(rest, p) = Position(ready, p) - 1
    BY <1>6, <1>9, PositionInTail
  <2>. HIDE DEF rest
  <2>3. running \notin ToSet(rest)
    BY <1>5, <1>6, <2>1
  <2>4. /\ IsInjective(Append(rest, running))
        /\ ToSet(Append(rest, running)) = ToSet(rest) \cup {running}
    BY <2>1, <2>3, InsertLast
  <2>5. ASSUME NEW p \in ToSet(rest)
        PROVE  Position(Append(rest, running), p) = Position(rest, p)
    BY <2>1, <2>4, PositionAhead
  <2>6. \A p \in ToSet(ready_list) \cap ToSet(ready_list') :
          /\ p \in ToSet(rest)
          /\ Position(ready_list', p) = Len(woken) + Position(ready_list, p) - 1
    <3>1. ready_list' = Append(rest, running)
      BY <1>4, <1>9
    <3>. QED  BY <1>5, <1>7, <2>2, <2>4, <2>5, <3>1
  <2>. QED  BY <1>3, <1>4, <1>7, <2>6 DEF NotOvertaken
<1>. QED  BY <1>8, <1>9

LEMMA SleepOvertakesNone ==
  ASSUME IInv, NEW cycles \in SleepCycles, internal_sleep(cycles)
  PROVE  NotOvertaken
<1>. DEFINE wake_time == disastrOS_time + cycles
            t == [awakening_time |-> wake_time, pcb |-> running]
            k == FirstLater(timer_list, wake_time)
<1>1. /\ wake_time \in Nat /\ t \in Timer
      /\ timer_list \in Seq(Timer) /\ InOrder(timer_list)
  BY ProcessesAssumption, TimersInvariant DEF internal_sleep, Trap, Runs, IInv, TypeOK, Timer
<1>2. CASE Len(timer_list) < MAX_NUM_PROCESSES
  <2>1. timer_list' = InsertAt(timer_list, k, t) /\ Block
    BY <1>2 DEF internal_sleep, WaitOnTimer, TimerList_add
  <2>. HIDE DEF wake_time
  <2>2. k \in 1 .. Len(timer_list) + 1 /\ Len(timer_list) \in Nat
    BY <1>1, FirstLaterIsBetween, Members
  <2>. HIDE DEF k, t
  <2>3. Len(InsertAt(timer_list, k, t)) = Len(timer_list) + 1
    BY <1>1, <2>2, InsertPosition
  <2>. QED  BY <2>1, <2>2, <2>3, BlockOvertakesNone
<1>3. CASE ~(Len(timer_list) < MAX_NUM_PROCESSES)
  BY <1>3, ReadyKept DEF internal_sleep
<1>. QED  BY <1>2, <1>3

LEMMA NotOvertakenStep ==
  ASSUME IInv, [Next]_vars
  PROVE  NotOvertaken
<1>0. Len(timer_list) \in Nat
  BY Members DEF IInv, TypeOK
<1>1. CASE timerInterrupt
  <2>1. running \in PCB /\ Tick \in Nat /\ internal_schedule(Tick)
    BY <1>1, KernelAssumption DEF timerInterrupt, Runs, Tick, IInv, TypeOK
  <2>. QED  BY <2>1, ScheduleOvertakesNone
<1>2. CASE internal_preempt
  <2>1. running \in PCB /\ disastrOS_time \in Nat /\ internal_schedule(disastrOS_time)
    BY <1>2 DEF internal_preempt, Trap, Runs, IInv, TypeOK
  <2>. QED  BY <2>1, ScheduleOvertakesNone
<1>3. CASE internal_spawn \/ internal_fork
  BY <1>3, ReadyGrows DEF internal_spawn, internal_fork
<1>4. CASE \E q \in WaitPids : WaitBlocks(q)
  BY <1>0, <1>4, BlockOvertakesNone DEF WaitBlocks
<1>5. CASE \E cycles \in SleepCycles : internal_sleep(cycles)
  BY <1>5, SleepOvertakesNone
<1>6. CASE ExitToReady
  BY <1>0, <1>6, ReadyAdvances DEF ExitToReady
<1>7. CASE ExitToParent
  <2>1. running \notin waiting_list /\ running \in PCB
    BY <1>7 DEF IInv, Placement, TypeOK, ExitToParent, Exiting, Trap, Runs
  <2>2. timer_list' = timer_list /\ ready_list' = ready_list
    BY <1>7, <2>1 DEF ExitToParent, TimersWithout, IInv, TimersMatchSleepers
  <2>. QED  BY <2>2, ReadyKept
<1>8. CASE \/ timerInterruptDies \/ Reboot \/ RebootDies \/ NewProcessDies \/ NoContext
           \/ (\E q \in WaitPids : WaitWithoutChildren(q) \/ WaitReaps(q) \/ WaitDies(q))
           \/ ExitDies \/ internal_shutdown \/ Ended \/ UNCHANGED vars
  <2>1. UNCHANGED <<ready_list, timer_list>>
    BY <1>8 DEF timerInterruptDies, Reboot, RebootDies, NewProcessDies, NoContext,
                WaitWithoutChildren, WaitReaps, WaitDies, ExitDies, internal_shutdown,
                Ended, Stop, vars, schedVars
  <2>. QED  BY <2>1, ReadyKept
<1>. QED  BY <1>1, <1>2, <1>3, <1>4, <1>5, <1>6, <1>7, <1>8
          DEF Next, internal_wait, internal_exit

(* Ready processes are passed by woken ones (disastrOS_schedule.c puts     *)
(* those in front), but only so often: the position of a ready process and *)
(* the number of timers together never grow, and each turn reduces them.   *)
THEOREM BypassBounded == Spec => BypassBound
<1>1. IInv /\ [Next]_vars => NotOvertaken
  BY NotOvertakenStep
<1>. QED  BY <1>1, Invariance, PTL DEF Spec, BypassBound, NotOvertaken
=============================================================================
