------------------------------ MODULE Processes -----------------------------
(***************************************************************************)
(* Processes of disastrOS: boot, spawn and fork, wait, exit, sleep,        *)
(* preemption, the timer interrupt and the shutdown.  Each system call     *)
(* runs with SIGALRM blocked, from the trap to the return to a process, so *)
(* it is one step.  The processes call what they like in any order.        *)
(***************************************************************************)
EXTENDS Kernel

CONSTANTS
  MaxPid,        \* bound: spawn and fork stop once last_pid is MaxPid
  WaitPids,      \* the arguments of wait that are tried
  SleepCycles    \* the arguments of sleep that are tried

ASSUME ProcessesAssumption ==
  /\ MaxPid \in Nat
  /\ WaitPids \subseteq Int
  /\ SleepCycles \subseteq Nat

-----------------------------------------------------------------------------
(* disastrOS_start: the pools are full and every list is empty, the blocks *)
(* are the zeroes of a static buffer, and the first process has the        *)
(* processor.                                                              *)
Init ==
  /\ machine = "up"
  /\ disastrOS_time = 0
  /\ running = 0
  /\ init_pcb = 0
  /\ last_pid = 1
  /\ context = {0}
  /\ pcb_pool = [i \in 1 .. MAX_NUM_PROCESSES - 1 |-> i]
  /\ pcbptr_free = MAX_NUM_PROCESSES
  /\ ready_list = <<>>
  /\ waiting_list = {}
  /\ zombie_list = {}
  /\ timer_list = <<>>
  /\ pid = [p \in PCB |-> 0]
  /\ status = [p \in PCB |-> IF p = 0 THEN "Running" ELSE "Created"]
  /\ parent = [p \in PCB |-> NULL]
  /\ children = [p \in PCB |-> <<>>]
  /\ signals = [p \in PCB |-> {}]
  /\ wait_arg = [p \in PCB |-> NULL]
  /\ syscall_retvalue = [p \in PCB |-> 0]

(* Mutant: last_pid is not incremented.                                    *)
PCB_allocSamePid(par) ==
  LET new == Head(pcb_pool)
  IN  /\ pcb_pool' = Tail(pcb_pool)
      /\ pid' = [pid EXCEPT ![new] = last_pid]
      /\ UNCHANGED last_pid
      /\ parent' = [parent EXCEPT ![new] = par]
      /\ signals' = [signals EXCEPT ![new] = {}]

(* PCB_alloc takes the first free block and clears it, except for the call *)
(* and the return value its last owner left there.                         *)
PCB_alloc(par) ==
  LET new == Head(pcb_pool)
  IN  /\ pcb_pool' = Tail(pcb_pool)
      /\ pid' = [pid EXCEPT ![new] = last_pid]
      /\ last_pid' = last_pid + 1
      /\ parent' = [parent EXCEPT ![new] = par]
      /\ signals' = [signals EXCEPT ![new] = {}]

(* When the call that put the last process to sleep returns with nothing   *)
(* running, control falls back to main_context, inside disastrOS_start,    *)
(* which boots a first process once more beside the ones that sleep.       *)
Reboot ==
  /\ machine = "up"
  /\ running = NULL
  /\ pcb_pool # <<>>
  /\ PCB_alloc(NULL)
  /\ running' = Head(pcb_pool)
  /\ init_pcb' = Head(pcb_pool)
  /\ status' = [status EXCEPT ![Head(pcb_pool)] = "Running"]
  /\ children' = [children EXCEPT ![Head(pcb_pool)] = <<>>]
  /\ context' = context \cup {Head(pcb_pool)}
  /\ UNCHANGED <<machine, disastrOS_time, pcbptr_free, ready_list, waiting_list,
                 zombie_list, timer_list, callVars>>

RebootDies ==
  /\ machine = "up"
  /\ running = NULL
  /\ pcb_pool = <<>>
  /\ Stop("reboot: no PCB")

-----------------------------------------------------------------------------
(* Mutant: the clock stands still.                                         *)
TickForgotten == disastrOS_time

(* The timer.  main_context does not block SIGALRM, so a tick that comes   *)
(* while nobody runs makes timerHandler follow the null running.           *)
Tick == IF disastrOS_time < MaxTime THEN disastrOS_time + 1 ELSE disastrOS_time

timerInterrupt ==
  /\ Runs
  /\ disastrOS_time' = Tick
  /\ internal_schedule(Tick)
  /\ UNCHANGED <<machine, context, pcbVars, poolVars, callVars>>

timerInterruptDies ==
  /\ machine = "up"
  /\ running = NULL
  /\ Stop("timer: nobody runs")

internal_preempt ==
  /\ Trap(NULL)
  /\ internal_schedule(disastrOS_time)
  /\ UNCHANGED <<machine, disastrOS_time, context, pcbVars, poolVars, syscall_retvalue>>

-----------------------------------------------------------------------------
(* spawn and fork do the same to the process lists, but only spawn gives   *)
(* the new process registers to run with; a forked one has those that the  *)
(* last owner of its block left, or none.  A pool that has no block left   *)
(* is found out by following the null pointer it returned, before the test.*)
HasPCBPtr == pcbptr_free > 0

NewProcess ==
  LET new == Head(pcb_pool)
  IN  /\ Trap(NULL)
      /\ last_pid < MaxPid
      /\ pcb_pool # <<>>
      /\ HasPCBPtr
      /\ PCB_alloc(running)
      /\ pcbptr_free' = pcbptr_free - 1
      /\ status' = [status EXCEPT ![new] = "Ready"]
      /\ children' = [children EXCEPT ![new] = <<>>, ![running] = Append(@, new)]
      /\ ready_list' = Append(ready_list, new)
      /\ Return(last_pid)
      /\ UNCHANGED <<machine, disastrOS_time, init_pcb, running, waiting_list,
                     zombie_list, timer_list>>

internal_spawn == NewProcess /\ context' = context \cup {Head(pcb_pool)}
internal_fork == NewProcess /\ UNCHANGED context

(* The switch to a forked process that has no registers.                   *)
NoContext ==
  /\ machine = "up"
  /\ running # NULL
  /\ running \notin context
  /\ Stop("fork: no context")

NewProcessDies ==
  /\ Runs
  /\ last_pid < MaxPid
  /\ \/ pcb_pool = <<>> /\ Stop("spawn: no PCB")
     \/ pcb_pool # <<>> /\ ~HasPCBPtr /\ Stop("spawn: no PCBPtr")

-----------------------------------------------------------------------------
(* wait(q): the scan of the children stops at the first zombie when q = 0, *)
(* at the child with pid q otherwise, and at the last child when there is  *)
(* none: the test for a child not found never holds after it.              *)
Awaited(q) ==
  LET i == SelectInSeq(children[running],
             LAMBDA c : IF q = 0 THEN status[c] = "Zombie" ELSE pid[c] = q)
  IN  IF i = 0 THEN Last(children[running]) ELSE children[running][i]

WaitWithoutChildren(q) ==
  /\ Trap(q)
  /\ children[running] = <<>>
  /\ Return(DSOS_EWAIT)
  /\ UNCHANGED <<machine, disastrOS_time, context, pcbVars, poolVars, schedVars>>

WaitReaps(q) ==
  LET dead == Awaited(q)
  IN  /\ Trap(q)
      /\ children[running] # <<>>
      /\ status[dead] = "Zombie"
      /\ children' = [children EXCEPT ![running] = Detach(@, dead)]
      /\ pcbptr_free' = pcbptr_free + 1
      /\ zombie_list' = zombie_list \ {dead}
      /\ pcb_pool' = Cons(dead, pcb_pool)
      /\ Return(pid[dead])
      /\ UNCHANGED <<machine, disastrOS_time, context, pid, parent, signals, init_pcb, last_pid,
                     running, ready_list, waiting_list, timer_list, status>>

WaitBlocks(q) ==
  /\ Trap(q)
  /\ children[running] # <<>>
  /\ status[Awaited(q)] # "Zombie"
  /\ ready_list # <<>>
  /\ Block
  /\ UNCHANGED <<machine, disastrOS_time, context, pcbVars, poolVars, zombie_list, timer_list,
                 syscall_retvalue>>

(* With nobody ready, the detach of the first ready process follows null.  *)
WaitDies(q) ==
  /\ Runs
  /\ children[running] # <<>>
  /\ status[Awaited(q)] # "Zombie"
  /\ ready_list = <<>>
  /\ Stop("wait: nobody ready")

internal_wait(q) ==
  \/ WaitWithoutChildren(q)
  \/ WaitReaps(q)
  \/ WaitBlocks(q)
  \/ WaitDies(q)

-----------------------------------------------------------------------------
(* Mutant: the children stay in the list of the process that exits.        *)
ReparentedTwice == [children EXCEPT ![init_pcb] = @ \o children[running]]

(* exit: the children go to the back of init's list, though their parent   *)
(* pointer stays as it is, and get SIGHUP; the parent, if there is one at  *)
(* all, gets SIGCHLD.                                                      *)
Reparented ==
  [children EXCEPT ![running] = <<>>,
                   ![init_pcb] = @ \o children[running]]

(* Mutant: the list of children is read after it was emptied.              *)
SignalParentOnly ==
  signals' = [p \in PCB |->
    signals[p] \cup (IF Contains(Reparented[running], p) THEN {"SIGHUP"} ELSE {})
               \cup (IF p = parent[running] THEN {"SIGCHLD"} ELSE {})]

SignalFamily ==
  signals' = [p \in PCB |->
    signals[p] \cup (IF Contains(children[running], p) THEN {"SIGHUP"} ELSE {})
               \cup (IF p = parent[running] THEN {"SIGCHLD"} ELSE {})]

(* Init exiting with children moves them to its own list for ever.         *)
ExitLoops == running = init_pcb /\ children[running] # <<>>

Exiting ==
  /\ Trap(NULL)
  /\ ~ExitLoops

(* Mutant: a parent that waits for any child is passed over.               *)
ParentAwaitsPid ==
  /\ parent[running] # NULL
  /\ status[parent[running]] = "Waiting"
  /\ wait_arg[parent[running]] = pid[running]

(* Mutant: the pid the parent asked for is not compared.                   *)
ParentAwaitsAny ==
  /\ parent[running] # NULL
  /\ status[parent[running]] = "Waiting"
  /\ wait_arg[parent[running]] # NULL

ParentAwaits ==
  /\ parent[running] # NULL
  /\ status[parent[running]] = "Waiting"
  /\ wait_arg[parent[running]] \in {0, pid[running]}

(* The first child with a pid, looked up and detached.                     *)
PCBPtr_byPID(list, q) == \E i \in 1 .. Len(list) : pid[list[i]] = q
WithoutPID(list, q) == RemoveFirstMatch(list, LAMBDA c : pid[c] = q)

(* The timers of the process that exits are looked for and released.       *)
TimersWithout(p) ==
  IF \E i \in 1 .. Len(timer_list) : timer_list[i].pcb = p
  THEN SelectSeq(timer_list, LAMBDA t : t.pcb # p)
  ELSE timer_list

(* The parent waits for this process: it gets the pid and the processor,   *)
(* and the PCB is freed, but not the PCBPtr detached from the parent.      *)
ExitToParent ==
  LET par == parent[running]
  IN  /\ Exiting
      /\ ParentAwaits
      /\ PCBPtr_byPID(Reparented[par], pid[running])
      /\ children' = [Reparented EXCEPT ![par] = WithoutPID(@, pid[running])]
      /\ SignalFamily
      /\ waiting_list' = waiting_list \ {par}
      /\ status' = [status EXCEPT ![running] = "Zombie", ![par] = "Running"]
      /\ syscall_retvalue' = [syscall_retvalue EXCEPT ![par] = pid[running]]
      /\ timer_list' = TimersWithout(running)
      /\ pcb_pool' = Cons(running, pcb_pool)
      /\ running' = par
      /\ UNCHANGED <<machine, disastrOS_time, context, pid, parent, init_pcb, last_pid,
                     pcbptr_free, ready_list, zombie_list>>

(* Nobody waits for it: it stays as a zombie and a ready process runs.     *)
ExitToReady ==
  /\ Exiting
  /\ parent[running] # NULL
  /\ ~ParentAwaits
  /\ ready_list # <<>>
  /\ children' = Reparented
  /\ SignalFamily
  /\ zombie_list' = zombie_list \cup {running}
  /\ running' = Head(ready_list)
  /\ ready_list' = Tail(ready_list)
  /\ status' = [status EXCEPT ![running] = "Zombie", ![Head(ready_list)] = "Running"]
  /\ UNCHANGED <<machine, disastrOS_time, context, pid, parent, init_pcb, last_pid, poolVars,
                 waiting_list, timer_list, syscall_retvalue>>

ExitDies ==
  /\ Runs
  /\ \/ ExitLoops /\ Stop("exit: endless loop")
     \/ ~ExitLoops /\ parent[running] = NULL /\ Stop("exit: no parent")
     \/ /\ ~ExitLoops
        /\ ParentAwaits
        /\ ~PCBPtr_byPID(Reparented[parent[running]], pid[running])
        /\ Stop("exit: not a child")
     \/ /\ ~ExitLoops
        /\ parent[running] # NULL
        /\ ~ParentAwaits
        /\ ready_list = <<>>
        /\ Stop("exit: nobody ready")

internal_exit == ExitToParent \/ ExitToReady \/ ExitDies

-----------------------------------------------------------------------------
(* sleep(cycles).  The bound of the clock keeps every timer within it.     *)
internal_sleep(cycles) ==
  /\ Trap(NULL)
  /\ disastrOS_time + cycles <= MaxTime
  /\ IF Len(timer_list) < MAX_NUM_PROCESSES
     THEN /\ WaitOnTimer(disastrOS_time + cycles)
          /\ UNCHANGED syscall_retvalue
     ELSE /\ Return(DSOS_ESLEEP)
          /\ UNCHANGED <<running, ready_list, waiting_list, timer_list, status>>
  /\ UNCHANGED <<machine, disastrOS_time, context, pcbVars, poolVars, zombie_list>>

internal_shutdown ==
  /\ Runs
  /\ Stop("off")

(* The program has ended, one way or the other.                            *)
Ended == machine # "up" /\ UNCHANGED vars

Next ==
  \/ timerInterrupt
  \/ timerInterruptDies
  \/ Reboot
  \/ RebootDies
  \/ internal_preempt
  \/ internal_spawn
  \/ internal_fork
  \/ NewProcessDies
  \/ NoContext
  \/ \E q \in WaitPids : internal_wait(q)
  \/ internal_exit
  \/ \E cycles \in SleepCycles : internal_sleep(cycles)
  \/ internal_shutdown
  \/ Ended

Spec == Init /\ [][Next]_vars

(* The interval timer keeps sending SIGALRM, which no process blocks, and  *)
(* a switch and the way back through main_context are straight-line code.  *)
(* Nothing is assumed of the processes: any of them may compute for ever.  *)
FairSpec ==
  /\ Spec
  /\ WF_vars(timerInterrupt)
  /\ WF_vars(Reboot \/ RebootDies \/ NoContext)

-----------------------------------------------------------------------------
TypeOK ==
  /\ machine \in Machines
  /\ disastrOS_time \in 0 .. MaxTime
  /\ running \in PCB \cup {NULL}
  /\ init_pcb \in PCB
  /\ context \in SUBSET PCB
  /\ last_pid \in Nat
  /\ pcb_pool \in Seq(PCB)
  /\ pcbptr_free \in Nat
  /\ ready_list \in Seq(PCB)
  /\ waiting_list \in SUBSET PCB
  /\ zombie_list \in SUBSET PCB
  /\ timer_list \in Seq(Timer)
  /\ pid \in [PCB -> Nat]
  /\ status \in [PCB -> Statuses]
  /\ parent \in [PCB -> PCB \cup {NULL}]
  /\ children \in [PCB -> Seq(PCB)]
  /\ signals \in [PCB -> SUBSET Signals]
  /\ wait_arg \in [PCB -> Int \cup {NULL}]
  /\ syscall_retvalue \in [PCB -> Int]

(* Every PCB block is in exactly one place, once: it has the processor, or *)
(* is in the ready, waiting or zombie list, or is free (disastrOS_exit.c,  *)
(* disastrOS_wait.c and disastrOS_schedule.c move it between them).        *)
Placement ==
  /\ IsInjective(ready_list)
  /\ IsInjective(pcb_pool)
  /\ running \notin ToSet(ready_list) \cup waiting_list \cup zombie_list \cup ToSet(pcb_pool)
  /\ ToSet(ready_list) \cap (waiting_list \cup zombie_list \cup ToSet(pcb_pool)) = {}
  /\ waiting_list \cap (zombie_list \cup ToSet(pcb_pool)) = {}
  /\ zombie_list \cap ToSet(pcb_pool) = {}
  /\ PCB \subseteq {running} \cup ToSet(ready_list) \cup waiting_list
                   \cup zombie_list \cup ToSet(pcb_pool)

(* The status of a PCB tells its list: the exit of a child wakes a parent, *)
(* and a wait reaps a child, on the word of the status alone, and the      *)
(* parent may be a block that was freed since.                             *)
StatusAgrees ==
  \A p \in PCB :
    /\ p \in waiting_list <=> status[p] = "Waiting"
    /\ p \in zombie_list <=> status[p] = "Zombie" /\ p \notin ToSet(pcb_pool)

(* Two PCBs in use never have the same pid, so that exit, which looks      *)
(* itself up by pid in its parent's list, finds itself.                    *)
PidsUnique ==
  \A p, q \in PCB \ ToSet(pcb_pool) :
    pid[p] < last_pid /\ (pid[p] = pid[q] => p = q)

(* The children lists share out the processes in use: each one but those   *)
(* that were booted is in the list of exactly one process, once; a list    *)
(* never holds a freed PCB, only a living process has children, and the    *)
(* one that orphans are handed to (disastrOS_exit.c:27) is alive.          *)
Family ==
  /\ \A p \in PCB : IsInjective(children[p])
  /\ \A p, q \in PCB : p # q => ToSet(children[p]) \cap ToSet(children[q]) = {}
  /\ \A p \in PCB : children[p] # <<>> => p \notin zombie_list \cup ToSet(pcb_pool)
  /\ UNION {ToSet(children[p]) : p \in PCB}
       = {p \in PCB \ ToSet(pcb_pool) : parent[p] # NULL}
  /\ parent[init_pcb] = NULL
  /\ init_pcb \notin zombie_list \cup ToSet(pcb_pool)

(* A PCBPtr block is never free and in a children list at the same time:   *)
(* the free blocks and the children together are at most the pool, and     *)
(* fewer after each awaited exit, which loses one (SpawnFindsPCBPtr).      *)
PCBPtrsAccounted ==
  pcbptr_free + Cardinality(UNION {ToSet(children[p]) : p \in PCB}) <= MAX_NUM_PROCESSES

(* Each process that waits on a timer has one timer, and only those have   *)
(* any: a timer never wakes a process that waits for a child, nor one that *)
(* is gone; timer_list is sorted, so that its first timer is the next.     *)
TimersMatchSleepers ==
  /\ \A i, j \in 1 .. Len(timer_list) : i < j =>
       /\ timer_list[i].pcb # timer_list[j].pcb
       /\ timer_list[i].awakening_time <= timer_list[j].awakening_time
  /\ {timer_list[i].pcb : i \in 1 .. Len(timer_list)}
       = {p \in waiting_list : wait_arg[p] = NULL}

(* No timer is left behind: the clock never passes an awakening time       *)
(* without the tick's schedule waking the process (disastrOS_schedule.c).  *)
NeverOverdue ==
  \A i \in 1 .. Len(timer_list) : timer_list[i].awakening_time >= disastrOS_time

(* The exit of child c would wake p.                                       *)
Awaits(p, c) == parent[c] = p /\ wait_arg[p] \in {0, pid[c]}

(* No lost wake-up: a process blocked in wait has no child of its own that *)
(* is a zombie and that it asked for, however exits, waits and             *)
(* reparentings follow each other.                                         *)
NoLostWakeup ==
  \A p \in waiting_list : \A c \in ToSet(children[p]) : Awaits(p, c) => status[c] # "Zombie"

(* A process found in the list of another than its parent was orphaned,    *)
(* and was told so by SIGHUP (disastrOS_exit.c:30).                        *)
OrphansGotSIGHUP ==
  \A p \in PCB : \A c \in ToSet(children[p]) : parent[c] # p => "SIGHUP" \in signals[c]

(* Only the exit of a child of its own that it asked for ends the wait of  *)
(* a process that blocked in wait: not a tick, the exit of a process that  *)
(* has it as a stale parent, or another boot.  The child then leaves its   *)
(* list, and it gets the processor and the pid of the child.  Until then   *)
(* each such child stays its child, alive.  A process that has no such     *)
(* child, because it named a pid that none has or has only orphans in its  *)
(* list, waits for ever, see AwaitedIsChild and InitHearsOrphans.          *)
WokenByAwaitedChild ==
  [][\A p \in waiting_list : wait_arg[p] # NULL =>
       \/ /\ p \in waiting_list'
          /\ \A c \in ToSet(children[p]) :
               Awaits(p, c) => /\ c \in ToSet(children'[p])
                               /\ Awaits(p, c)'
                               /\ status'[c] # "Zombie"
       \/ /\ p \notin waiting_list'
          /\ running \in ToSet(children[p]) \ ToSet(children'[p])
          /\ Awaits(p, running)
          /\ running' = p
          /\ syscall_retvalue'[p] = pid[running]]_vars

(* A process that sleeps stays asleep until its awakening time.            *)
SleepIsHonoured ==
  [][\A i \in 1 .. Len(timer_list) :
       timer_list[i].pcb \notin waiting_list'
         => timer_list[i].awakening_time <= disastrOS_time']_vars

(* Woken processes pass the ready ones, but only so often: the position of *)
(* a ready process plus the number of timers never grows, and shrinks each *)
(* time the running process is sent to the back of the list.               *)
Position(list, p) == CHOOSE i \in 1 .. Len(list) : list[i] = p

BypassBound ==
  [][\A p \in ToSet(ready_list) \cap ToSet(ready_list') :
       LET before == Position(ready_list, p) + Len(timer_list)
           after  == Position(ready_list', p) + Len(timer_list')
       IN  /\ after <= before
           /\ running \in ToSet(ready_list') => after < before]_vars

(* The process calls implement the life cycle of a pid.                    *)
PidsOf(S) == {pid[p] : p \in S}

Life == INSTANCE Lifecycle WITH
  NoPid   <- NULL,
  up      <- machine = "up",
  born    <- last_pid,
  run     <- IF running = NULL THEN NULL ELSE pid[running],
  ready   <- PidsOf(ToSet(ready_list)),
  waiting <- PidsOf(waiting_list),
  zombies <- PidsOf(zombie_list)

ImplementsLifecycle == Life!Spec

(* A process that sleeps is woken, unless the program ends.                *)
SleeperWakes ==
  \A p \in PCB :
    p \in waiting_list /\ wait_arg[p] = NULL ~> p \notin waiting_list \/ machine # "up"

(* A ready process runs, unless the program ends: processes woken by       *)
(* timers go in front of it, but cannot starve it.                         *)
ReadyRuns ==
  \A p \in PCB : Contains(ready_list, p) ~> running = p \/ machine # "up"

-----------------------------------------------------------------------------
(* What the comments and assertions of the code say and it does not keep.  *)

(* disastrOS_exit.c:11-15: orphans are reparented to init, and a parent    *)
(* that waits for a process is awakened by its exit: so init never waits   *)
(* for any child while one in its list is a zombie.                        *)
InitHearsOrphans ==
  init_pcb \in waiting_list /\ wait_arg[init_pcb] = 0
    => \A c \in ToSet(children[init_pcb]) : status[c] # "Zombie"

(* disastrOS_wait.c:33, "if we were looking for a process not in child     *)
(* list we need to return an error": so nobody is blocked in a wait for a  *)
(* pid that no process in its list has.                                    *)
AwaitedIsChild ==
  \A p \in waiting_list :
    wait_arg[p] # NULL /\ wait_arg[p] > 0 => \E c \in ToSet(children[p]) : pid[c] = wait_arg[p]

(* disastrOS_spawn.c:26, assert(new_pcb_ptr): while there are PCBs there   *)
(* are PCBPtrs for them.                                                   *)
SpawnFindsPCBPtr == machine # "spawn: no PCBPtr"
=============================================================================
