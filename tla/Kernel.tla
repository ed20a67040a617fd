------------------------------- MODULE Kernel -------------------------------
(***************************************************************************)
(* The state that every system call of disastrOS works on, and the steps   *)
(* that several of them share: the process control blocks and their pool,  *)
(* the ready, waiting and zombie lists, the timers and the clock.          *)
(*                                                                         *)
(* A PCB is named by its block in the pool, as the code's pointers do, so  *)
(* a pointer kept to a block that was freed and given to another process   *)
(* is a pointer to that other process.  The lists whose order the code     *)
(* reads (ready_list, timer_list, a process's children) are sequences;     *)
(* waiting_list and zombie_list, which are only inserted into and detached *)
(* from, are sets.  Left out as data: what is in the saved registers and   *)
(* the stack of a process, its exit value, and running->timer, which is    *)
(* only ever assigned 0, so that `if (running->timer)' never holds.        *)
(***************************************************************************)
EXTENDS Integers, SequencesExt

CONSTANTS
  MAX_NUM_PROCESSES,   \* size of the PCB, PCBPtr and TimerItem pools
  NULL,                \* the null pointer
  MaxTime              \* bound: the clock stays at MaxTime once it gets there

PCB == 0 .. MAX_NUM_PROCESSES - 1

ASSUME KernelAssumption ==
  /\ MAX_NUM_PROCESSES \in Nat \ {0}
  /\ NULL \notin Int
  /\ MaxTime \in Nat

VARIABLES
  machine,            \* "up", "off" after a shutdown, or how the program died
  disastrOS_time,     \* ticks since the start
  running,            \* the PCB that has the processor, NULL when all sleep
  init_pcb,           \* the PCB orphans are handed to
  last_pid,           \* the next pid to give
  pcb_pool,           \* free PCB blocks, the next one to be handed out first
  pcbptr_free,        \* number of free PCBPtr blocks
  ready_list, waiting_list, zombie_list,
  timer_list,         \* [awakening_time, pcb], in the order of the list
  pid, status, parent, children, signals,   \* fields of each PCB
  context,            \* the PCB blocks whose saved registers were ever set
  wait_arg,           \* the argument of its last call if that was a wait, else NULL
  syscall_retvalue    \* what its last call returns when the process runs again

pcbVars   == <<pid, parent, children, signals, init_pcb, last_pid>>
poolVars  == <<pcb_pool, pcbptr_free>>
schedVars == <<running, ready_list, waiting_list, zombie_list, timer_list, status>>
callVars  == <<wait_arg, syscall_retvalue>>
vars == <<machine, disastrOS_time, context, pcbVars, poolVars, schedVars, callVars>>

Statuses == {"Created", "Running", "Ready", "Waiting", "Zombie"}
Signals == {"SIGCHLD", "SIGHUP"}
Timer == [awakening_time : Nat, pcb : PCB]

(* Up, shut down, or dead, and where: at a null pointer that is followed,  *)
(* an assertion that fails or a loop that does not end.                    *)
Machines ==
  {"up", "off",
   "reboot: no PCB", "timer: nobody runs", "fork: no context",
   "spawn: no PCB", "spawn: no PCBPtr", "wait: nobody ready",
   "exit: endless loop", "exit: no parent", "exit: not a child", "exit: nobody ready",
   "open_resource: no Resource",
   "trap: past the table", "setcontext: frame overwritten",
   "mq_open: no MessageQueue", "mq_send: no Message", "mq: nobody ready"}

DSOS_EWAIT  == -5
DSOS_ESLEEP == -7

(* An open_mode is the set of its bits; DSOS_WRITE is {0, 1}, so opening   *)
(* for writing is opening to create.                                       *)
DSOS_CREATE == 0
DSOS_EXCL   == 2

-----------------------------------------------------------------------------
(* What a system call and the timer interrupt have in common.              *)

(* A process has the processor, and registers to run with.                 *)
Runs == machine = "up" /\ running # NULL /\ running \in context

(* The running process traps into the kernel.  Of syscall_num the code     *)
(* only asks whether it is DSOS_CALL_WAIT, and of the arguments which pid  *)
(* a wait was given, so every other call is NULL here.                     *)
Trap(arg) ==
  /\ Runs
  /\ wait_arg' = [wait_arg EXCEPT ![running] = arg]

Return(value) ==
  syscall_retvalue' = [syscall_retvalue EXCEPT ![running] = value]

(* The program ends (shutdown, null pointer, endless loop).                *)
Stop(how) ==
  /\ machine' = how
  /\ UNCHANGED <<disastrOS_time, context, pcbVars, poolVars, schedVars, callVars>>

(* Mutant: the item stays linked.                                          *)
DetachNothing(list, item) == list

(* List_detach of an item that is in the list, or of none.                 *)
Detach(list, item) == RemoveFirst(list, item)

(* List_insert and List_detach in a list that is only looked up by a key:  *)
(* the descriptors of a process by fd, the message queues by id.           *)
With(list, key, item) ==
  [k \in DOMAIN list \cup {key} |-> IF k = key THEN item ELSE list[k]]

Without(list, key) == Restrict(list, DOMAIN list \ {key})

-----------------------------------------------------------------------------
(* Timers: timer_list is kept in the order of the awakening times.         *)

(* Mutant: timers ring one tick early.                                     *)
FirstLaterOffByOne(timers, time) ==
  LET i == SelectInSeq(timers, LAMBDA t : t.awakening_time > time + 1)
  IN  IF i = 0 THEN Len(timers) + 1 ELSE i

(* The position of the first timer that rings after time.                  *)
FirstLater(timers, time) ==
  LET i == SelectInSeq(timers, LAMBDA t : t.awakening_time > time)
  IN  IF i = 0 THEN Len(timers) + 1 ELSE i

(* Mutant: a new timer goes to the end, whatever its time.                 *)
TimerList_addLast(timers, time, p) ==
  Append(timers, [awakening_time |-> time, pcb |-> p])

TimerList_add(timers, time, p) ==
  InsertAt(timers, FirstLater(timers, time), [awakening_time |-> time, pcb |-> p])

(* Mutant: one timer per tick, an `if' where the code has a `while'.       *)
ElapsedFirst(time) ==
  LET n == FirstLater(timer_list, time) - 1
  IN  SubSeq(timer_list, 1, IF n > 1 THEN 1 ELSE n)

(* The timers that TimerList_current returns one after the other.          *)
Elapsed(time) == SubSeq(timer_list, 1, FirstLater(timer_list, time) - 1)

(* Mutant: the timers that rang stay in the list.                          *)
PendingAll(time) == timer_list

Pending(time) == SubSeq(timer_list, Len(Elapsed(time)) + 1, Len(timer_list))

(* Mutant: the process that gets the processor stays in the ready list.    *)
SwitchToReadyUndetached ==
  IF ready_list = <<>>
  THEN running' = NULL /\ UNCHANGED ready_list
  ELSE running' = Head(ready_list) /\ UNCHANGED ready_list

(* The first ready process, whose status is left as it is, gets the        *)
(* processor; nobody does when none is ready.                              *)
SwitchToReady ==
  IF ready_list = <<>>
  THEN running' = NULL /\ UNCHANGED ready_list
  ELSE running' = Head(ready_list) /\ ready_list' = Tail(ready_list)

(* Mutant: the status is not set.                                          *)
BlockUnmarked ==
  /\ UNCHANGED status
  /\ waiting_list' = waiting_list \cup {running}
  /\ SwitchToReady

(* Mutant: the switch comes before the insertion in the waiting list.      *)
BlockAfterSwitch ==
  /\ SwitchToReady
  /\ status' = [status EXCEPT ![running] = "Waiting"]
  /\ waiting_list' = waiting_list \cup {running'}

(* The running process waits.                                              *)
Block ==
  /\ status' = [status EXCEPT ![running] = "Waiting"]
  /\ waiting_list' = waiting_list \cup {running}
  /\ SwitchToReady

WaitOnTimer(wake_time) ==
  /\ timer_list' = TimerList_add(timer_list, wake_time, running)
  /\ Block

(* Mutant: the running process goes to the front.                          *)
LastInFirstOut(ready) ==
  /\ running' = Head(ready)
  /\ ready_list' = Cons(running, Tail(ready))

(* The first of the ready processes takes the place of the running one,    *)
(* which goes to the back.                                                 *)
RoundRobin(ready) ==
  /\ running' = Head(ready)
  /\ ready_list' = Append(Tail(ready), running)

(* internal_schedule: the processes whose timer rang go in front of the    *)
(* ready list, in the order of the timers; then the running one is         *)
(* replaced, unless no process is ready.                                   *)
internal_schedule(time) ==
  LET rang  == Elapsed(time)
      woken == [i \in 1 .. Len(rang) |-> rang[i].pcb]
      ready == woken \o ready_list
  IN  /\ timer_list' = Pending(time)
      /\ waiting_list' = waiting_list \ ToSet(woken)
      /\ UNCHANGED zombie_list
      /\ IF ready = <<>>
         THEN UNCHANGED <<running, ready_list, status>>
         ELSE /\ RoundRobin(ready)
              /\ status' = [p \in PCB |->
                              CASE p = Head(ready) -> "Running"
                                [] p = running \/ p \in ToSet(woken) -> "Ready"
                                [] OTHER -> status[p]]
=============================================================================
