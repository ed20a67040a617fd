---------------------------- MODULE TrapAndAlarm ----------------------------
(***************************************************************************)
(* How a process gets into the kernel and out of it: the switches between  *)
(* its registers and those of disastrOS_trap and timerInterrupt, the       *)
(* signal mask that goes with each of them, and the SIGALRM that comes in  *)
(* at any moment.  Processes describes what happens when no alarm comes    *)
(* inside the kernel or inside a switch; here it may.                      *)
(*                                                                         *)
(* A switch of the C library (external, x86-64) saves the registers, then  *)
(* swaps the signal mask, then loads the other registers, and an alarm     *)
(* that the new mask lets through comes in between, still on the old       *)
(* stack.  An alarm that comes before the last register is saved is left   *)
(* out: it leaves a mixture of two sets of registers.  So are fork, whose  *)
(* process has no registers, and syscall numbers out of range, for which   *)
(* disastrOS_syscall returns before it changes anything.                   *)
(***************************************************************************)
EXTENDS Processes

VARIABLES
  at,             \* the code that has the processor
  alarm,          \* a SIGALRM was sent and not yet delivered
  alarm_blocked,  \* SIGALRM is in the signal mask
  saved,          \* the cpu_state of each PCB
  call,           \* the call each process is in, NULL if in none
  served          \* how often the trap ran it, up to 2

trapVars == <<at, alarm, alarm_blocked, saved, call, served>>

(* "saving" is swapcontext on the way to the trap, "entering" the one on   *)
(* the way to timerInterrupt, before the mask is swapped and after it;     *)
(* "leaving trap" and "leaving interrupt" are setcontext on the way back,  *)
(* after the mask was swapped; "main" is main_context.                     *)
Places == {"user", "saving", "trap", "leaving trap",
           "entering", "interrupt", "leaving interrupt", "main"}

KernelStack == {"trap", "leaving trap", "interrupt", "leaving interrupt"}

(* Saved registers: who saved them, the code they lead back to, and the    *)
(* mask.  Those of a handler on the kernel's stack lead nowhere, as        *)
(* timerInterrupt, which has the same stack, writes over their frame.      *)
Registers == [by : {"makecontext", "syscall", "handler"},
              to : Places \cup {"overwritten"},
              blocked : BOOLEAN]

Calls == ({"PREEMPT", "SPAWN", "EXIT", "SHUTDOWN", "UNUSED", "PAST_END"} \X {NULL})
           \cup ({"WAIT"} \X WaitPids) \cup ({"SLEEP"} \X SleepCycles)

DSOS_ESYSCALL_NOT_IMPLEMENTED == -2

(* Mutant: spawn keeps the mask that getcontext found in the trap.         *)
NewRegistersMasked == [by |-> "makecontext", to |-> "user", blocked |-> alarm_blocked]

(* A new process starts with its function, and with an empty mask.         *)
NewRegisters == [by |-> "makecontext", to |-> "user", blocked |-> FALSE]

TrapInit ==
  /\ Init
  /\ at = "user"
  /\ alarm = FALSE
  /\ alarm_blocked = FALSE
  /\ saved = [p \in PCB |-> NewRegisters]
  /\ call = [p \in PCB |-> NULL]
  /\ served = [p \in PCB |-> 0]

(* An alarm that is not blocked is delivered before anything else happens. *)
Undisturbed == machine = "up" /\ ~(alarm /\ ~alarm_blocked)

-----------------------------------------------------------------------------
(* Mutant: setcontext where the code has swapcontext.                      *)
disastrOS_syscallUnsaved(c) ==
  /\ at = "user"
  /\ Undisturbed
  /\ c[1] = "SPAWN" => last_pid + 1 < MaxPid
  /\ at' = "saving"
  /\ call' = [call EXCEPT ![running] = c]
  /\ served' = [served EXCEPT ![running] = 0]
  /\ UNCHANGED <<alarm, alarm_blocked, saved, vars>>

(* The way in: disastrOS_syscall saves the registers, and loads those of   *)
(* the trap, which come with SIGALRM blocked.  A process that was served   *)
(* twice without returning may spawn twice, hence the bound.               *)
disastrOS_syscall(c) ==
  /\ at = "user"
  /\ Undisturbed
  /\ c[1] = "SPAWN" => last_pid + 1 < MaxPid
  /\ at' = "saving"
  /\ saved' = [saved EXCEPT ![running].by = "syscall", ![running].to = "user"]
  /\ call' = [call EXCEPT ![running] = c]
  /\ served' = [served EXCEPT ![running] = 0]
  /\ UNCHANGED <<alarm, alarm_blocked, vars>>

SwapToTrap ==
  /\ at = "saving"
  /\ Undisturbed
  /\ at' = "trap"
  /\ saved' = [saved EXCEPT ![running].blocked = alarm_blocked]
  /\ alarm_blocked' = TRUE
  /\ UNCHANGED <<alarm, call, served, vars>>

(* A number without a function, and the number one past the table: what is *)
(* there depends on the build, nothing or something that is no function.   *)
NotImplemented ==
  /\ Trap(NULL)
  /\ Return(DSOS_ESYSCALL_NOT_IMPLEMENTED)
  /\ UNCHANGED <<machine, disastrOS_time, context, pcbVars, poolVars, schedVars>>

syscall_vector(num, arg) ==
  \/ num = "PREEMPT"  /\ internal_preempt
  \/ num = "SPAWN"    /\ (internal_spawn \/ NewProcessDies)
  \/ num = "WAIT"     /\ internal_wait(arg)
  \/ num = "EXIT"     /\ internal_exit
  \/ num = "SLEEP"    /\ internal_sleep(arg)
  \/ num = "SHUTDOWN" /\ internal_shutdown
  \/ num = "UNUSED"   /\ NotImplemented
  \/ num = "PAST_END" /\ (NotImplemented \/ Stop("trap: past the table"))

(* setcontext to the running process: the mask comes first.                *)
Leave(place) ==
  /\ at' = place
  /\ alarm_blocked' = saved'[running'].blocked

(* With nobody running the trap returns, to main_context.                  *)
disastrOS_trap ==
  /\ at = "trap"
  /\ Undisturbed
  /\ syscall_vector(call[running][1], call[running][2])
  /\ served' = [served EXCEPT ![running] = IF @ < 2 THEN @ + 1 ELSE @]
  /\ saved' = [p \in PCB |->
                 IF last_pid' # last_pid /\ p = Head(pcb_pool) THEN NewRegisters ELSE saved[p]]
  /\ IF running' = NULL
     THEN at' = "main" /\ alarm_blocked' = FALSE
     ELSE Leave("leaving trap")
  /\ UNCHANGED <<alarm, call>>

-----------------------------------------------------------------------------
(* The alarm.                                                              *)
SIGALRM ==
  /\ machine = "up"
  /\ ~alarm
  /\ alarm' = TRUE
  /\ UNCHANGED <<at, alarm_blocked, saved, call, served, vars>>

(* Mutant: the handler goes to the interrupt without saving its registers. *)
HandlerRegistersKept == saved[running]

(* The handler saves its own registers, over those of a switch it          *)
(* interrupted, with SIGALRM blocked as in any handler for it.             *)
HandlerRegisters ==
  [by |-> "handler",
   to |-> IF at \in KernelStack \/ (at = "entering" /\ saved[running].to = "overwritten")
          THEN "overwritten" ELSE at,
   blocked |-> TRUE]

timerHandler ==
  /\ machine = "up"
  /\ alarm
  /\ ~alarm_blocked
  /\ alarm' = FALSE
  /\ IF running = NULL
     THEN timerInterruptDies /\ UNCHANGED <<at, saved>>
     ELSE /\ at' = "entering"
          /\ saved' = [saved EXCEPT ![running] = HandlerRegisters]
          /\ UNCHANGED vars
  /\ UNCHANGED <<alarm_blocked, call, served>>

SwapToInterrupt ==
  /\ at = "entering"
  /\ Undisturbed
  /\ at' = "interrupt"
  /\ UNCHANGED <<alarm, alarm_blocked, saved, call, served, vars>>

Interrupt ==
  /\ at = "interrupt"
  /\ Undisturbed
  /\ timerInterrupt
  /\ UNCHANGED <<alarm, saved, call, served>>
  /\ Leave("leaving interrupt")

-----------------------------------------------------------------------------
(* The way out: the registers are loaded; a handler returns to what it     *)
(* interrupted, where SIGALRM was not blocked.                             *)
Resume ==
  /\ at \in {"leaving trap", "leaving interrupt"}
  /\ Undisturbed
  /\ saved[running].to # "overwritten"
  /\ at' = saved[running].to
  /\ alarm_blocked' = (alarm_blocked /\ saved[running].by # "handler")
  /\ IF saved[running].by = "handler"
     THEN UNCHANGED <<call, served>>
     ELSE /\ call' = [call EXCEPT ![running] = NULL]
          /\ served' = [served EXCEPT ![running] = 0]
  /\ UNCHANGED <<alarm, saved, vars>>

(* The registers lead into a frame that timerInterrupt wrote over.         *)
ResumeDies ==
  /\ at \in {"leaving trap", "leaving interrupt"}
  /\ Undisturbed
  /\ saved[running].to = "overwritten"
  /\ Stop("setcontext: frame overwritten")
  /\ UNCHANGED trapVars

MainContext ==
  /\ at = "main"
  /\ Undisturbed
  /\ Reboot \/ RebootDies
  /\ at' = "user"
  /\ saved' = [p \in PCB |-> IF p = running' THEN NewRegisters ELSE saved[p]]
  /\ UNCHANGED <<alarm, alarm_blocked, call, served>>

KernelStep ==
  \/ SwapToTrap
  \/ disastrOS_trap
  \/ timerHandler
  \/ SwapToInterrupt
  \/ Interrupt
  \/ Resume
  \/ ResumeDies
  \/ MainContext

TrapNext ==
  \/ \E c \in Calls : disastrOS_syscall(c)
  \/ SIGALRM
  \/ KernelStep
  \/ Ended /\ UNCHANGED trapVars

(* The kernel's code goes on; the processes need not make calls.           *)
TrapSpec ==
  /\ TrapInit
  /\ [][TrapNext]_<<vars, trapVars>>
  /\ WF_<<vars, trapVars>>(KernelStep)

-----------------------------------------------------------------------------
TrapTypeOK ==
  /\ TypeOK
  /\ at \in Places
  /\ alarm \in BOOLEAN
  /\ alarm_blocked \in BOOLEAN
  /\ saved \in [PCB -> Registers]
  /\ call \in [PCB -> Calls \cup {NULL}]
  /\ served \in [PCB -> 0 .. 2]

(* A call returns to the process that made it after the trap ran it once,  *)
(* and not without that or after two times, whatever alarms and other      *)
(* processes come between the steps of the switches (disastrOS.c:107).     *)
(* One whose registers an alarm replaced, between the steps of its own     *)
(* switch, is served again and again and does not return at all.           *)
CallsReturnServedOnce ==
  [][(at \in KernelStack /\ at' = "user" /\ saved[running].by = "syscall")
       => served[running] = 1]_<<vars, trapVars>>

(* A process that waits or is a zombie got there by a call of its own that *)
(* the trap ran, and one that an alarm interrupted in its own code is      *)
(* neither: its registers and the lists agree (disastrOS.c:52).            *)
SavedAgrees ==
  \A p \in PCB :
    /\ p \in waiting_list \cup zombie_list => served[p] > 0 /\ saved[p].by # "makecontext"
    /\ saved[p].by = "handler" /\ saved[p].to = "user" /\ p # running
         => Contains(ready_list, p)

(* No process runs with SIGALRM blocked for good: an alarm is delivered,   *)
(* also when the process that runs never makes a call, as every set of     *)
(* registers brings an empty mask back (disastrOS_spawn.c:39).             *)
AlarmIsHeard == alarm ~> ~alarm \/ machine # "up"

-----------------------------------------------------------------------------
(* What a comment of the code says and it does not keep.                   *)

(* disastrOS.c:234: the mask disables the alarm during the system trap: so *)
(* no handler starts on its stack.                                         *)
AlarmDisabledInTrap ==
  [][(at \in {"trap", "leaving trap"}) => at' # "entering"]_<<vars, trapVars>>
=============================================================================
