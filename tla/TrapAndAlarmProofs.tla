------------------------- MODULE TrapAndAlarmProofs -------------------------
(***************************************************************************)
(* Proofs about the way into the kernel and out of it: saved registers and *)
(* lists agree, and a call that returns was served once, for any number of *)
(* PCBs, any calls, and alarms that come at any moment.                    *)
(***************************************************************************)
EXTENDS TrapAndAlarm, ProcessesProofs

(* Where the processor is, and who has it: in main_context nobody has, and *)
(* on the way into the kernel the registers are those of a call or of an   *)
(* alarm that came after the call was made.                                *)
PlaceAgrees ==
  /\ machine = "up" => (running = NULL <=> at = "main")
  /\ at \in {"saving", "trap", "entering", "interrupt"}
       => running # NULL /\ saved[running].by # "makecontext"
  /\ at \in {"saving", "trap"}
       => /\ call[running] \in Calls
          /\ saved[running].by = "handler" => saved[running].to # "user"
  /\ at \in {"entering", "interrupt"} => saved[running].by = "handler"

(* Only a handler saves registers that lead anywhere but to the process's  *)
(* own code, and none that lead to main_context or into the trap.          *)
RegistersLead ==
  \A p \in PCB :
    /\ saved[p].by # "handler" => saved[p].to = "user"
    /\ saved[p].to \in {"user", "saving", "entering", "overwritten"}
    /\ saved[p].to = "saving" => call[p] \in Calls

(* A call whose registers are those that disastrOS_syscall saved was       *)
(* served once, unless it is still on its way in or has returned.          *)
ServedOnce ==
  \A p \in PCB \ ToSet(pcb_pool) :
    saved[p].by = "syscall"
      => served[p] = IF p = running /\ at \in {"user", "saving", "trap"} THEN 0 ELSE 1

MaskTyped == alarm \in BOOLEAN /\ alarm_blocked \in BOOLEAN

TrapTyped ==
  /\ at \in Places
  /\ saved \in [PCB -> Registers]
  /\ call \in [PCB -> Calls \cup {NULL}]
  /\ served \in [PCB -> 0 .. 2]

TInv ==
  /\ IInv
  /\ MaskTyped
  /\ TrapTyped
  /\ PlaceAgrees
  /\ RegistersLead
  /\ ServedOnce
  /\ SavedAgrees

-----------------------------------------------------------------------------
(* Whatever the trap finds in the table of calls.                          *)
LEMMA NotImplementedMoves == IInv /\ NotImplemented => IInv' /\ Moves
<1>. SUFFICES ASSUME IInv, NotImplemented PROVE IInv' /\ Moves
  OBVIOUS
<1>1. /\ running \in PCB /\ wait_arg' = [wait_arg EXCEPT ![running] = NULL]
      /\ syscall_retvalue' \in [PCB -> Int]
      /\ UNCHANGED <<machine, disastrOS_time, context, pcbVars, poolVars, schedVars>>
  BY DEF NotImplemented, Trap, Runs, Return, DSOS_ESYSCALL_NOT_IMPLEMENTED, IInv, TypeOK
<1>2. IInv'
  BY <1>1, AnswerIInv
<1>3. Moves
  BY <1>1 DEF pcbVars, poolVars, schedVars, Moves, NoneElseBlocks, ReadyStayOrRun,
              TakesNoBlock, Allocated
<1>. QED  BY <1>2, <1>3

LEMMA VectorMoves ==
  ASSUME IInv, NEW c \in Calls, syscall_vector(c[1], c[2])
  PROVE  IInv' /\ Moves
<1>1. CASE internal_preempt
  <2>1. /\ running \in PCB /\ disastrOS_time \in Nat /\ internal_schedule(disastrOS_time)
        /\ UNCHANGED <<last_pid, pcb_pool>>
    BY <1>1, KernelAssumption
       DEF internal_preempt, Trap, Runs, IInv, TypeOK, pcbVars, poolVars
  <2>. QED  BY <1>1, <2>1, ScheduleMoves, PreemptIInv
<1>2. CASE internal_spawn
  <2>1. Next
    BY <1>2, Zenon DEF Next
  <2>. QED  BY <1>2, <2>1, NextIInv, NewProcessMoves DEF internal_spawn
<1>3. CASE \E q \in WaitPids : internal_wait(q)
  <2>1. Next
    BY <1>3, Zenon DEF Next
  <2>. QED  BY <1>3, <2>1, NextIInv, WaitMoves
<1>4. CASE internal_exit
  <2>1. Next
    BY <1>4, Zenon DEF Next
  <2>. QED  BY <1>4, <2>1, NextIInv, ExitMoves
<1>5. CASE \E cycles \in SleepCycles : internal_sleep(cycles)
  BY <1>5, SleepIInv, SleepMoves
<1>6. CASE NotImplemented
  BY <1>6, NotImplementedMoves
<1>7. CASE NewProcessDies \/ internal_shutdown \/ Stop("trap: past the table")
  <2>1. PICK how \in Machines : Stop(how)
    BY <1>7 DEF NewProcessDies, internal_shutdown, Machines
  <2>2. Stops
    BY <2>1 DEF Stop, Stops
  <2>. QED  BY <2>1, <2>2, StopIInv, StopMoves
<1>8. /\ c[1] = "WAIT" => c[2] \in WaitPids
      /\ c[1] = "SLEEP" => c[2] \in SleepCycles
  BY DEF Calls
<1>. QED  BY <1>1, <1>2, <1>3, <1>4, <1>5, <1>6, <1>7, <1>8 DEF syscall_vector

-----------------------------------------------------------------------------
(* The invariant in each step.                                             *)
LEMMA NewRegistersTyped == NewRegisters \in Registers
BY DEF NewRegisters, Registers, Places

LEMMA InitTInv == TrapInit => TInv
<1>. SUFFICES ASSUME TrapInit PROVE TInv
  OBVIOUS
<1>1. /\ Init /\ IInv /\ running \in PCB /\ running # NULL /\ machine = "up"
      /\ waiting_list = {} /\ zombie_list = {} /\ at = "user"
  BY InitIInv, NullIsNoPCB, KernelAssumption DEF TrapInit, Init, PCB
<1>2. MaskTyped
  BY Zenon DEF TrapInit, MaskTyped
<1>3. TrapTyped
  BY <1>1, NewRegistersTyped DEF TrapInit, TrapTyped, Places
<1>4. PlaceAgrees
  BY <1>1 DEF PlaceAgrees
<1>5. RegistersLead /\ ServedOnce /\ SavedAgrees
  BY <1>1 DEF TrapInit, NewRegisters, RegistersLead, ServedOnce, SavedAgrees
<1>. QED  BY <1>1, <1>2, <1>3, <1>4, <1>5 DEF TInv

LEMMA SameProcesses ==
  IInv /\ UNCHANGED vars
    => /\ IInv'
       /\ UNCHANGED <<machine, pcb_pool, running, ready_list, waiting_list, zombie_list>>
BY NextIInv DEF vars, poolVars, schedVars

LEMMA Inside ==
  ASSUME TInv, machine = "up", at # "main"
  PROVE  /\ running \in PCB \ ToSet(pcb_pool) /\ running # NULL
         /\ running \notin ToSet(ready_list) \cup waiting_list \cup zombie_list
         /\ saved[running] \in Registers
BY NullIsNoPCB DEF TInv, IInv, TypeOK, Placement, TrapTyped, PlaceAgrees

LEMMA SyscallTInv ==
  ASSUME TInv, NEW c \in Calls, disastrOS_syscall(c), MaskTyped'
  PROVE  TInv'
<1>. DEFINE regs == [saved[running] EXCEPT !.by = "syscall", !.to = "user"]
<1>1. /\ at = "user" /\ at' = "saving" /\ machine = "up"
      /\ saved' = [saved EXCEPT ![running] = regs]
      /\ call' = [call EXCEPT ![running] = c]
      /\ served' = [served EXCEPT ![running] = 0]
      /\ UNCHANGED vars
  BY DEF disastrOS_syscall, Undisturbed
<1>2. /\ running \in PCB /\ running # NULL
      /\ running \notin waiting_list \cup zombie_list
      /\ saved[running] \in Registers
  BY <1>1, Inside
<1>3. /\ IInv'
      /\ UNCHANGED <<machine, pcb_pool, running, ready_list, waiting_list, zombie_list>>
  BY <1>1, SameProcesses DEF TInv
<1>4. regs \in Registers /\ regs.by = "syscall" /\ regs.to = "user"
  BY <1>2 DEF Registers, Places
<1>. HIDE DEF regs
<1>5. TrapTyped'
  BY <1>1, <1>2, <1>4 DEF TInv, TrapTyped, Places
<1>6. PlaceAgrees'
  BY <1>1, <1>2, <1>3, <1>4 DEF TInv, TrapTyped, PlaceAgrees
<1>7. RegistersLead'
  BY <1>1, <1>2, <1>4 DEF TInv, TrapTyped, RegistersLead
<1>8. ServedOnce'
  BY <1>1, <1>2, <1>3, <1>4 DEF TInv, TrapTyped, ServedOnce
<1>9. SavedAgrees'
  BY <1>1, <1>2, <1>3, <1>4 DEF TInv, TrapTyped, SavedAgrees
<1>. QED  BY <1>3, <1>5, <1>6, <1>7, <1>8, <1>9 DEF TInv

LEMMA SwapToTrapTInv ==
  ASSUME TInv, SwapToTrap, MaskTyped'
  PROVE  TInv'
<1>. DEFINE regs == [saved[running] EXCEPT !.blocked = alarm_blocked]
<1>1. /\ at = "saving" /\ at' = "trap" /\ machine = "up"
      /\ saved' = [saved EXCEPT ![running] = regs]
      /\ UNCHANGED <<call, served>> /\ UNCHANGED vars
  BY DEF SwapToTrap, Undisturbed
<1>2. /\ running \in PCB /\ running # NULL
      /\ saved[running] \in Registers
  BY <1>1, Inside
<1>3. /\ IInv'
      /\ UNCHANGED <<machine, pcb_pool, running, ready_list, waiting_list, zombie_list>>
  BY <1>1, SameProcesses DEF TInv
<1>4. regs.by = saved[running].by /\ regs.to = saved[running].to
  BY <1>2 DEF Registers
<1>5. regs \in Registers
  <2>1. alarm_blocked \in BOOLEAN
    BY DEF TInv, MaskTyped
  <2>. DEFINE b == alarm_blocked
              r == saved[running]
  <2>2. /\ r.by \in {"makecontext", "syscall", "handler"}
        /\ r.to \in Places \cup {"overwritten"}
        /\ regs = [by |-> r.by, to |-> r.to, blocked |-> b]
    BY <1>2 DEF Registers
  <2>. HIDE DEF r, b, regs
  <2>3. b \in BOOLEAN
    BY <2>1 DEF b
  <2>. QED  BY <2>2, <2>3, Zenon DEF Registers
<1>. HIDE DEF regs
<1>6. TrapTyped'
  BY <1>1, <1>2, <1>5 DEF TInv, TrapTyped, Places
<1>7. PlaceAgrees'
  BY <1>1, <1>2, <1>3, <1>4 DEF TInv, TrapTyped, PlaceAgrees
<1>8. RegistersLead'
  BY <1>1, <1>2, <1>4 DEF TInv, TrapTyped, RegistersLead
<1>9. ServedOnce'
  BY <1>1, <1>2, <1>3, <1>4 DEF TInv, TrapTyped, ServedOnce
<1>10. SavedAgrees'
  BY <1>1, <1>2, <1>3, <1>4 DEF TInv, TrapTyped, SavedAgrees
<1>. QED  BY <1>3, <1>6, <1>7, <1>8, <1>9, <1>10 DEF TInv

(* The program has stopped; or nothing but the place changed.              *)
LEMMA StoppedTInv ==
  ASSUME TInv, NEW how \in Machines \ {"up"}, Stop(how), UNCHANGED <<saved, call, served>>,
         at' = at \/ (at' = "user" /\ running = NULL), MaskTyped'
  PROVE  TInv'
<1>1. /\ machine' # "up"
      /\ UNCHANGED <<pcb_pool, running, ready_list, waiting_list, zombie_list>>
  BY DEF Stop, poolVars, schedVars
<1>2. IInv'
  <2>1. Stops
    BY DEF Stop, Stops
  <2>. QED  BY <2>1, StopIInv DEF TInv
<1>3. TrapTyped'
  BY <1>1 DEF TInv, TrapTyped, Places
<1>4. PlaceAgrees'
  BY <1>1 DEF TInv, PlaceAgrees
<1>5. RegistersLead' /\ SavedAgrees'
  BY <1>1 DEF TInv, RegistersLead, SavedAgrees
<1>6. ServedOnce'
  BY <1>1, NullIsNoPCB DEF TInv, ServedOnce
<1>. QED  BY <1>2, <1>3, <1>4, <1>5, <1>6 DEF TInv

LEMMA HandlerTInv ==
  ASSUME TInv, timerHandler, MaskTyped'
  PROVE  TInv'
<1>1. CASE running = NULL
  <2>1. Stop("timer: nobody runs") /\ UNCHANGED <<at, saved, call, served>>
    BY <1>1 DEF timerHandler, timerInterruptDies
  <2>. QED  BY <2>1, StoppedTInv DEF Machines
<1>2. CASE running # NULL
  <2>. DEFINE regs == HandlerRegisters
  <2>1. /\ at' = "entering" /\ machine = "up"
        /\ saved' = [saved EXCEPT ![running] = regs]
        /\ UNCHANGED <<call, served>> /\ UNCHANGED vars
    BY <1>2 DEF timerHandler
  <2>2. at # "main"
    BY <1>2, <2>1 DEF TInv, PlaceAgrees
  <2>3. /\ running \in PCB /\ running # NULL
        /\ running \notin waiting_list \cup zombie_list
        /\ saved[running] \in Registers
    BY <2>1, <2>2, Inside
  <2>4. /\ IInv'
        /\ UNCHANGED <<machine, pcb_pool, running, ready_list, waiting_list, zombie_list>>
    BY <2>1, SameProcesses DEF TInv
  <2>5. /\ regs \in Registers /\ regs.by = "handler"
        /\ regs.to \in {"user", "saving", "entering", "overwritten"}
        /\ regs.to = "saving" => at = "saving"
    BY <2>2 DEF TInv, TrapTyped, HandlerRegisters, KernelStack, Registers, Places
  <2>. HIDE DEF regs
  <2>6. TrapTyped'
    BY <2>1, <2>3, <2>5 DEF TInv, TrapTyped, Places
  <2>7. PlaceAgrees'
    BY <2>1, <2>3, <2>4, <2>5 DEF TInv, TrapTyped, PlaceAgrees
  <2>8. RegistersLead'
    BY <2>1, <2>3, <2>5 DEF TInv, TrapTyped, PlaceAgrees, RegistersLead
  <2>9. ServedOnce'
    BY <2>1, <2>3, <2>4, <2>5 DEF TInv, TrapTyped, ServedOnce
  <2>10. SavedAgrees'
    BY <2>1, <2>3, <2>4, <2>5 DEF TInv, TrapTyped, SavedAgrees
  <2>. QED  BY <2>4, <2>6, <2>7, <2>8, <2>9, <2>10 DEF TInv
<1>. QED  BY <1>1, <1>2

LEMMA SwapToInterruptTInv ==
  ASSUME TInv, SwapToInterrupt, MaskTyped'
  PROVE  TInv'
<1>1. /\ at = "entering" /\ at' = "interrupt"
      /\ UNCHANGED <<saved, call, served>> /\ UNCHANGED vars
  BY DEF SwapToInterrupt
<1>2. /\ IInv'
      /\ UNCHANGED <<machine, pcb_pool, running, ready_list, waiting_list, zombie_list>>
  BY <1>1, SameProcesses DEF TInv
<1>3. TrapTyped' /\ PlaceAgrees'
  BY <1>1, <1>2 DEF TInv, TrapTyped, PlaceAgrees, Places
<1>4. RegistersLead' /\ ServedOnce' /\ SavedAgrees'
  BY <1>1, <1>2 DEF TInv, RegistersLead, PlaceAgrees, ServedOnce, SavedAgrees
<1>. QED  BY <1>2, <1>3, <1>4 DEF TInv

LEMMA Contained == \A p : Contains(ready_list, p) <=> p \in ToSet(ready_list)
BY DEF Contains, ToSet

LEMMA ContainedAfter == \A p : Contains(ready_list', p) <=> p \in ToSet(ready_list')
BY DEF Contains, ToSet

(* The processes move with a tick.                                         *)
LEMMA InterruptTInv ==
  ASSUME TInv, Interrupt, MaskTyped'
  PROVE  TInv'
<1>1. /\ at = "interrupt" /\ at' = "leaving interrupt" /\ timerInterrupt /\ machine = "up"
      /\ UNCHANGED <<saved, call, served>>
  BY DEF Interrupt, Leave, Undisturbed
<1>2. /\ running \in PCB \ ToSet(pcb_pool) /\ running # NULL
      /\ running \notin ToSet(ready_list) \cup waiting_list \cup zombie_list
  BY <1>1, Inside
<1>3. IInv'
  BY <1>1, timerInterruptIInv DEF TInv
<1>4. /\ internal_schedule(Tick) /\ Tick \in Nat
      /\ UNCHANGED <<machine, last_pid, pcb_pool>>
  <2>1. Tick \in Nat
    BY KernelAssumption DEF Tick, TInv, IInv, TypeOK
  <2>2. internal_schedule(Tick) /\ UNCHANGED <<machine, last_pid, pcb_pool>>
    BY <1>1 DEF timerInterrupt, pcbVars, poolVars
  <2>. QED  BY <2>1, <2>2
<1>5. /\ Moves
      /\ waiting_list' \subseteq waiting_list /\ zombie_list' = zombie_list
      /\ running' \in PCB
      /\ running \in ToSet(ready_list') \cup {running'}
  BY <1>2, <1>4, ScheduleMoves DEF TInv
<1>6. TrapTyped'
  BY <1>1 DEF TInv, TrapTyped, Places
<1>7. PlaceAgrees' /\ RegistersLead'
  BY <1>1, <1>4, <1>5, NullIsNoPCB DEF TInv, PlaceAgrees, RegistersLead
<1>8. ServedOnce'
  BY <1>1, <1>4 DEF TInv, ServedOnce, PlaceAgrees
<1>9. SavedAgrees'
  <2>1. SUFFICES ASSUME NEW p \in PCB
                 PROVE  /\ p \in waiting_list' \cup zombie_list'
                             => served'[p] > 0 /\ saved'[p].by # "makecontext"
                        /\ saved'[p].by = "handler" /\ saved'[p].to = "user" /\ p # running'
                             => p \in ToSet(ready_list')
    BY ContainedAfter DEF SavedAgrees
  <2>2. /\ p \in waiting_list \cup zombie_list
             => served[p] > 0 /\ saved[p].by # "makecontext"
        /\ saved[p].by = "handler" /\ saved[p].to = "user" /\ p # running
             => p \in ToSet(ready_list)
    BY Contained DEF TInv, SavedAgrees
  <2>. QED  BY <1>1, <1>5, <2>2 DEF Moves, ReadyStayOrRun
<1>. QED  BY <1>3, <1>6, <1>7, <1>8, <1>9 DEF TInv

LEMMA ResumeTInv ==
  ASSUME TInv, Resume, MaskTyped'
  PROVE  TInv'
<1>. DEFINE by == saved[running].by
            to == saved[running].to
<1>1. /\ at \in {"leaving trap", "leaving interrupt"} /\ machine = "up"
      /\ to # "overwritten" /\ at' = to
      /\ IF by = "handler"
         THEN UNCHANGED <<call, served>>
         ELSE /\ call' = [call EXCEPT ![running] = NULL]
              /\ served' = [served EXCEPT ![running] = 0]
      /\ UNCHANGED saved /\ UNCHANGED vars
  BY DEF Resume, Undisturbed
<1>2. /\ running \in PCB \ ToSet(pcb_pool) /\ running # NULL
      /\ running \notin waiting_list \cup zombie_list
  BY <1>1, Inside
<1>3. /\ IInv'
      /\ UNCHANGED <<machine, pcb_pool, running, ready_list, waiting_list, zombie_list>>
  BY <1>1, SameProcesses DEF TInv
<1>4. /\ to \in {"user", "saving", "entering"}
      /\ by # "handler" => to = "user"
      /\ to = "saving" => call[running] \in Calls
  BY <1>1, <1>2 DEF TInv, RegistersLead
<1>5. TrapTyped'
  <2>1. at' \in Places /\ saved' \in [PCB -> Registers]
    BY <1>1, <1>4 DEF TInv, TrapTyped, Places
  <2>2. call' \in [PCB -> Calls \cup {NULL}]
    BY <1>1, <1>2 DEF TInv, TrapTyped
  <2>3. served' \in [PCB -> 0 .. 2]
    <3>1. 0 \in 0 .. 2 /\ served \in [PCB -> 0 .. 2]
      BY DEF TInv, TrapTyped
    <3>. QED  BY <1>1, <1>2, <3>1
  <2>. QED  BY <2>1, <2>2, <2>3 DEF TrapTyped
<1>6. PlaceAgrees'
  BY <1>1, <1>2, <1>3, <1>4 DEF TInv, TrapTyped, PlaceAgrees
<1>7. RegistersLead'
  BY <1>1, <1>2 DEF TInv, TrapTyped, RegistersLead
<1>8. ServedOnce'
  BY <1>1, <1>2, <1>3, <1>4 DEF TInv, TrapTyped, ServedOnce
<1>9. SavedAgrees'
  BY <1>1, <1>2, <1>3 DEF TInv, TrapTyped, SavedAgrees
<1>. QED  BY <1>3, <1>5, <1>6, <1>7, <1>8, <1>9 DEF TInv

LEMMA ResumeDiesTInv ==
  ASSUME TInv, ResumeDies, MaskTyped'
  PROVE  TInv'
<1>1. Stop("setcontext: frame overwritten") /\ UNCHANGED <<at, saved, call, served>>
  BY DEF ResumeDies, trapVars
<1>. QED  BY <1>1, StoppedTInv DEF Machines

(* The first process is booted once more, or cannot be.                    *)
LEMMA MainContextTInv ==
  ASSUME TInv, MainContext, MaskTyped'
  PROVE  TInv'
<1>1. /\ at = "main" /\ at' = "user" /\ machine = "up" /\ (Reboot \/ RebootDies)
      /\ saved' = [p \in PCB |-> IF p = running' THEN NewRegisters ELSE saved[p]]
      /\ UNCHANGED <<call, served>>
  BY DEF MainContext, Undisturbed
<1>2. running = NULL
  BY <1>1 DEF TInv, PlaceAgrees
<1>3. CASE RebootDies
  <2>1. Stop("reboot: no PCB")
    BY <1>3 DEF RebootDies
  <2>2. running' = NULL
    BY <1>2, <2>1 DEF Stop, schedVars
  <2>3. saved' = saved
    BY <1>1, <2>2, NullIsNoPCB DEF TInv, TrapTyped
  <2>. QED  BY <1>1, <1>2, <2>1, <2>3, StoppedTInv DEF Machines
<1>4. CASE Reboot
  <2>. DEFINE new == Head(pcb_pool)
  <2>1. /\ new \in ToSet(pcb_pool) /\ new \in PCB
        /\ PCB \ ToSet(pcb_pool') = (PCB \ ToSet(pcb_pool)) \cup {new}
    BY <1>4, NewBlock DEF TInv
  <2>2. running' = new /\ UNCHANGED <<machine, ready_list, waiting_list, zombie_list>>
    BY <1>4 DEF Reboot
  <2>3. IInv'
    BY <1>4, RebootIInv DEF TInv
  <2>4. new \notin waiting_list \cup zombie_list /\ new # NULL
    BY <2>1, NullIsNoPCB DEF TInv, IInv, Placement
  <2>. HIDE DEF new
  <2>5. NewRegisters.by = "makecontext" /\ NewRegisters.to = "user"
    BY DEF NewRegisters
  <2>6. TrapTyped'
    BY <1>1, NewRegistersTyped DEF TInv, TrapTyped, Places
  <2>7. PlaceAgrees'
    BY <1>1, <2>2, <2>4 DEF TInv, PlaceAgrees
  <2>8. RegistersLead'
    BY <1>1, <2>5 DEF TInv, RegistersLead
  <2>9. ServedOnce'
    BY <1>1, <1>2, <2>1, <2>2, <2>5, NullIsNoPCB DEF TInv, ServedOnce
  <2>10. SavedAgrees'
    BY <1>1, <1>2, <2>2, <2>4, <2>5, NullIsNoPCB DEF TInv, SavedAgrees
  <2>. QED  BY <2>3, <2>6, <2>7, <2>8, <2>9, <2>10 DEF TInv
<1>. QED  BY <1>1, <1>3, <1>4

(* The trap serves the call of the running process, and another one may    *)
(* leave in its place.                                                     *)
LEMMA TrapTInv ==
  ASSUME TInv, disastrOS_trap, MaskTyped'
  PROVE  TInv'
<1>. DEFINE c == call[running]
            new == Head(pcb_pool)
<1>1. /\ at = "trap" /\ machine = "up"
      /\ syscall_vector(c[1], c[2])
      /\ served' = [served EXCEPT ![running] = IF @ < 2 THEN @ + 1 ELSE @]
      /\ saved' = [p \in PCB |->
                     IF last_pid' # last_pid /\ p = new THEN NewRegisters ELSE saved[p]]
      /\ IF running' = NULL THEN at' = "main" ELSE at' = "leaving trap"
      /\ UNCHANGED call
  BY DEF disastrOS_trap, Leave, Undisturbed
<1>2. /\ running \in PCB \ ToSet(pcb_pool) /\ running # NULL
      /\ running \notin waiting_list \cup zombie_list
      /\ saved[running].by # "makecontext"
      /\ saved[running].by = "handler" => saved[running].to # "user"
      /\ c \in Calls
  BY <1>1, Inside DEF TInv, PlaceAgrees
<1>3. IInv' /\ Moves
  <2>. HIDE DEF c
  <2>. QED  BY <1>1, <1>2, VectorMoves DEF TInv
<1>. HIDE DEF c
<1>4. NewRegisters.by = "makecontext" /\ NewRegisters.to = "user"
  BY DEF NewRegisters
<1>5. /\ served' \in [PCB -> 0 .. 2]
      /\ served'[running] > 0
      /\ \A p \in PCB \ {running} : served'[p] = served[p]
      /\ served[running] = 0 => served'[running] = 1
  <2>. DEFINE n == served[running]
              m == IF n < 2 THEN n + 1 ELSE n
  <2>1. served' = [served EXCEPT ![running] = m] /\ served \in [PCB -> 0 .. 2]
    BY <1>1 DEF TInv, TrapTyped
  <2>2. n \in 0 .. 2 /\ m \in 0 .. 2 /\ m > 0 /\ (n = 0 => m = 1)
    BY <1>2, <2>1
  <2>. HIDE DEF m
  <2>. QED  BY <1>2, <2>1, <2>2
<1>6. TrapTyped'
  BY <1>1, <1>5, NewRegistersTyped DEF TInv, TrapTyped, Places
<1>7. PlaceAgrees'
  BY <1>1 DEF PlaceAgrees
<1>8. RegistersLead'
  BY <1>1, <1>4 DEF TInv, RegistersLead
<1>9. ServedOnce'
  <2>1. SUFFICES ASSUME NEW p \in Allocated', saved'[p].by = "syscall"
                 PROVE  served'[p] = 1
    BY <1>1 DEF ServedOnce, Allocated
  <2>2. p \in PCB /\ saved[p].by = "syscall" /\ ~(last_pid' # last_pid /\ p = new)
    BY <1>1, <1>4, <2>1 DEF Allocated
  <2>3. p \in Allocated
    BY <1>3, <2>1, <2>2 DEF Moves, TakesNoBlock, TakesFirstBlock
  <2>4. served[p] = IF p = running THEN 0 ELSE 1
    BY <1>1, <2>2, <2>3 DEF TInv, ServedOnce, Allocated
  <2>. QED  BY <1>5, <2>2, <2>4
<1>10. SavedAgrees'
  <2>1. SUFFICES ASSUME NEW p \in PCB
                 PROVE  /\ p \in waiting_list' \cup zombie_list'
                             => served'[p] > 0 /\ saved'[p].by # "makecontext"
                        /\ saved'[p].by = "handler" /\ saved'[p].to = "user" /\ p # running'
                             => p \in ToSet(ready_list')
    BY ContainedAfter DEF SavedAgrees
  <2>2. /\ p \in waiting_list \cup zombie_list
             => served[p] > 0 /\ saved[p].by # "makecontext"
        /\ saved[p].by = "handler" /\ saved[p].to = "user" /\ p # running
             => p \in ToSet(ready_list)
    BY Contained DEF TInv, SavedAgrees
  <2>3. CASE last_pid' # last_pid /\ p = new
    <3>1. p \in ToSet(pcb_pool)
      BY <1>3, <2>3 DEF Moves, TakesNoBlock, TakesFirstBlock
    <3>2. p \notin waiting_list \cup zombie_list \cup {running}
      BY <1>2, <3>1 DEF TInv, IInv, Placement
    <3>3. p \notin waiting_list' \cup zombie_list'
      BY <1>3, <3>2 DEF Moves, NoneElseBlocks
    <3>. QED  BY <1>1, <1>4, <2>3, <3>3
  <2>4. CASE ~(last_pid' # last_pid /\ p = new)
    <3>1. saved'[p] = saved[p]
      BY <1>1, <2>4
    <3>2. p \in waiting_list' \cup zombie_list'
            => p \in waiting_list \cup zombie_list \cup {running}
      BY <1>3 DEF Moves, NoneElseBlocks
    <3>3. p \in ToSet(ready_list) => p \in ToSet(ready_list') \cup {running'}
      BY <1>3 DEF Moves, ReadyStayOrRun
    <3>. QED  BY <1>2, <1>5, <2>2, <3>1, <3>2, <3>3
  <2>. QED  BY <2>3, <2>4
<1>. QED  BY <1>3, <1>6, <1>7, <1>8, <1>9, <1>10 DEF TInv

-----------------------------------------------------------------------------
(* The signal mask is a mask: it comes from the registers of some process. *)
LEMMA BlockedIsBoolean ==
  ASSUME NEW r \in Registers
  PROVE  r.blocked \in BOOLEAN
BY DEF Registers

LEMMA SavedByTrap ==
  ASSUME TInv, disastrOS_trap
  PROVE  saved' \in [PCB -> Registers] /\ running' \in PCB \cup {NULL}
<1>. DEFINE c == call[running]
<1>1. /\ at = "trap" /\ syscall_vector(c[1], c[2])
      /\ saved' = [p \in PCB |->
                     IF last_pid' # last_pid /\ p = Head(pcb_pool) THEN NewRegisters ELSE saved[p]]
  BY DEF disastrOS_trap
<1>2. c \in Calls
  BY <1>1 DEF TInv, PlaceAgrees
<1>. HIDE DEF c
<1>3. IInv'
  BY <1>1, <1>2, VectorMoves DEF TInv
<1>. QED  BY <1>1, <1>3, NewRegistersTyped DEF TInv, TrapTyped, IInv, TypeOK

LEMMA MaskAfter ==
  ASSUME TInv, [TrapNext]_<<vars, trapVars>>
  PROVE  MaskTyped'
<1>1. alarm \in BOOLEAN /\ alarm_blocked \in BOOLEAN
  BY DEF TInv, MaskTyped
<1>2. CASE UNCHANGED trapVars
  BY <1>1, <1>2, Zenon DEF trapVars, MaskTyped
<1>3. CASE SIGALRM
  BY <1>1, <1>3, Zenon DEF SIGALRM, MaskTyped
<1>4. CASE \E c \in Calls : disastrOS_syscall(c)
  <2>1. UNCHANGED <<alarm, alarm_blocked>>
    BY <1>4 DEF disastrOS_syscall
  <2>. QED  BY <1>1, <2>1, Zenon DEF MaskTyped
<1>5. CASE SwapToTrap
  BY <1>1, <1>5, Zenon DEF SwapToTrap, MaskTyped
<1>6. CASE disastrOS_trap
  <2>1. alarm' = alarm
    BY <1>6 DEF disastrOS_trap
  <2>2. CASE running' = NULL
    <3>1. alarm_blocked' = FALSE
      BY <1>6, <2>2 DEF disastrOS_trap
    <3>. QED  BY <1>1, <2>1, <3>1, Zenon DEF MaskTyped
  <2>3. CASE running' # NULL
    <3>1. alarm_blocked' = saved'[running'].blocked
      BY <1>6, <2>3 DEF disastrOS_trap, Leave
    <3>2. saved'[running'] \in Registers
      BY <1>6, <2>3, SavedByTrap
    <3>3. saved'[running'].blocked \in BOOLEAN
      BY <3>2, BlockedIsBoolean
    <3>. QED  BY <1>1, <2>1, <3>1, <3>3, Zenon DEF MaskTyped
  <2>. QED  BY <2>2, <2>3
<1>7. CASE timerHandler
  BY <1>1, <1>7, Zenon DEF timerHandler, MaskTyped
<1>8. CASE SwapToInterrupt
  BY <1>1, <1>8, Zenon DEF SwapToInterrupt, MaskTyped
<1>9. CASE Interrupt
  <2>1. /\ alarm_blocked' = saved'[running'].blocked /\ saved' = saved /\ timerInterrupt
        /\ UNCHANGED alarm
    BY <1>9 DEF Interrupt, Leave
  <2>2. internal_schedule(Tick) /\ UNCHANGED <<last_pid, pcb_pool>> /\ Tick \in Nat
        /\ running \in PCB
    <3>1. Tick \in Nat
      BY KernelAssumption DEF Tick, TInv, IInv, TypeOK
    <3>. QED  BY <2>1, <3>1 DEF timerInterrupt, Runs, pcbVars, poolVars, TInv, IInv, TypeOK
  <2>3. saved'[running'] \in Registers
    BY <2>1, <2>2, ScheduleMoves DEF TInv, TrapTyped
  <2>4. saved'[running'].blocked \in BOOLEAN
    BY <2>3, BlockedIsBoolean
  <2>. QED  BY <1>1, <2>1, <2>4, Zenon DEF MaskTyped
<1>10. CASE Resume
  BY <1>1, <1>10, Zenon DEF Resume, MaskTyped
<1>11. CASE ResumeDies
  BY <1>2, <1>11, Zenon DEF ResumeDies
<1>12. CASE MainContext
  BY <1>1, <1>12, Zenon DEF MainContext, MaskTyped
<1>13. [TrapNext]_<<vars, trapVars>>
  OBVIOUS
<1>. QED  BY <1>2, <1>3, <1>4, <1>5, <1>6, <1>7, <1>8, <1>9, <1>10, <1>11, <1>12, <1>13, Zenon
          DEF TrapNext, KernelStep

LEMMA NextTInv ==
  ASSUME TInv, [TrapNext]_<<vars, trapVars>>
  PROVE  TInv'
<1>1. MaskTyped'
  BY MaskAfter
<1>2. CASE UNCHANGED <<at, saved, call, served>> /\ UNCHANGED vars
  <2>1. /\ IInv'
        /\ UNCHANGED <<machine, pcb_pool, running, ready_list, waiting_list, zombie_list>>
    BY <1>2, SameProcesses DEF TInv
  <2>2. TrapTyped' /\ PlaceAgrees' /\ RegistersLead' /\ ServedOnce' /\ SavedAgrees'
    BY <1>2, <2>1 DEF TInv, TrapTyped, PlaceAgrees, RegistersLead, ServedOnce, SavedAgrees
  <2>. QED  BY <1>1, <2>1, <2>2 DEF TInv
<1>3. CASE SIGALRM
  BY <1>2, <1>3 DEF SIGALRM
<1>4. CASE (Ended /\ UNCHANGED trapVars) \/ UNCHANGED <<vars, trapVars>>
  BY <1>2, <1>4 DEF Ended, trapVars
<1>5. CASE \E c \in Calls : disastrOS_syscall(c)
  BY <1>1, <1>5, SyscallTInv
<1>6. CASE SwapToTrap
  BY <1>1, <1>6, SwapToTrapTInv
<1>7. CASE disastrOS_trap
  BY <1>1, <1>7, TrapTInv
<1>8. CASE timerHandler
  BY <1>1, <1>8, HandlerTInv
<1>9. CASE SwapToInterrupt
  BY <1>1, <1>9, SwapToInterruptTInv
<1>10. CASE Interrupt
  BY <1>1, <1>10, InterruptTInv
<1>11. CASE Resume
  BY <1>1, <1>11, ResumeTInv
<1>12. CASE ResumeDies
  BY <1>1, <1>12, ResumeDiesTInv
<1>13. CASE MainContext
  BY <1>1, <1>13, MainContextTInv
<1>14. [TrapNext]_<<vars, trapVars>>
  OBVIOUS
<1>. QED  BY <1>3, <1>4, <1>5, <1>6, <1>7, <1>8, <1>9, <1>10, <1>11, <1>12, <1>13, <1>14, Zenon
          DEF TrapNext, KernelStep

-----------------------------------------------------------------------------
(* The inductive invariant holds, whatever is called and whenever an alarm *)
(* comes.                                                                  *)
THEOREM TrapInvariance == TrapSpec => []TInv
BY InitTInv, NextTInv, PTL DEF TrapSpec

(* Type correctness of the registers, the mask and the calls.              *)
THEOREM TrapTypeCorrect == TrapSpec => []TrapTypeOK
<1>1. TInv => TrapTypeOK
  <2>1. TInv => TypeOK /\ MaskTyped /\ TrapTyped
    BY DEF TInv, IInv
  <2>. QED  BY <2>1, Zenon DEF TrapTypeOK, MaskTyped, TrapTyped
<1>. QED  BY <1>1, TrapInvariance, PTL

(* The registers of a process and the lists it is in agree, although the   *)
(* handler writes over what a call has saved (disastrOS.c:52): who waits   *)
(* or is a zombie was served, and who was interrupted in its own code is   *)
(* ready.                                                                  *)
THEOREM SavedAgreesSafe == TrapSpec => []SavedAgrees
<1>1. TInv => SavedAgrees
  BY DEF TInv
<1>. QED  BY <1>1, TrapInvariance, PTL

(* No alarm makes a call return that was not served, or was served twice   *)
(* (disastrOS.c:107).                                                      *)
THEOREM CallsReturnServedOnceSafe == TrapSpec => CallsReturnServedOnce
<1>. DEFINE Returns == at \in KernelStack /\ at' = "user" /\ saved[running].by = "syscall"
<1>1. ASSUME TInv, [TrapNext]_<<vars, trapVars>>, Returns
      PROVE  served[running] = 1
  <2>1. CASE Resume
    <3>1. machine = "up" /\ at \notin {"main", "user", "saving", "trap"}
      BY <2>1 DEF Resume, Undisturbed
    <3>2. running \in PCB \ ToSet(pcb_pool)
      BY <1>1, <3>1, Inside
    <3>. QED  BY <1>1, <3>1, <3>2 DEF TInv, ServedOnce
  <2>2. CASE ~Resume
    <3>1. at # at' /\ at \in KernelStack /\ at' = "user"
      BY <1>1 DEF KernelStack
    <3>2. /\ ~UNCHANGED <<vars, trapVars>> /\ ~SIGALRM /\ ~UNCHANGED trapVars
          /\ ~\E c \in Calls : disastrOS_syscall(c)
          /\ ~SwapToTrap /\ ~timerHandler /\ ~SwapToInterrupt /\ ~Interrupt /\ ~ResumeDies
          /\ ~MainContext /\ ~disastrOS_trap
      BY <3>1 DEF trapVars, SIGALRM, disastrOS_syscall, SwapToTrap, timerHandler, SwapToInterrupt,
                  Interrupt, Leave, ResumeDies, MainContext, disastrOS_trap, KernelStack
    <3>3. [TrapNext]_<<vars, trapVars>>
      BY <1>1
    <3>. QED  BY <2>2, <3>2, <3>3, Zenon DEF TrapNext, KernelStep
  <2>. QED  BY <2>1, <2>2
<1>2. TInv /\ [TrapNext]_<<vars, trapVars>>
        => [Returns => served[running] = 1]_<<vars, trapVars>>
  BY <1>1
<1>. QED  BY <1>2, TrapInvariance, PTL DEF TrapSpec, CallsReturnServedOnce

-----------------------------------------------------------------------------
(* The mask of the saved registers: only those that a handler saved have   *)
(* SIGALRM blocked, but for a process on its way into the trap, which has  *)
(* yet to save its mask, and where processes run the alarm is let through. *)
Unblocked == ~alarm_blocked

MaskRestored ==
  /\ at \in {"user", "saving", "entering", "interrupt", "main"} => Unblocked
  /\ at \in {"leaving trap", "leaving interrupt"}
       => Unblocked \/ saved[running].by = "handler"
  /\ \A p \in PCB :
       saved[p].blocked => saved[p].by = "handler" \/ (p = running /\ at = "saving")

(* Who leaves the kernel takes its mask from its registers.                *)
LEMMA LeaveMask ==
  ASSUME MaskRestored, at # "saving", NEW place \in {"leaving trap", "leaving interrupt"},
         Leave(place), running' \in PCB,
         \A p \in PCB : saved'[p] \in {saved[p], NewRegisters}
  PROVE  MaskRestored'
<1>1. \A p \in PCB : saved[p].blocked => saved[p].by = "handler"
  BY DEF MaskRestored
<1>2. \A p \in PCB : saved'[p].blocked => saved'[p].by = "handler"
  <2>1. SUFFICES ASSUME NEW p \in PCB, saved'[p].blocked PROVE saved'[p].by = "handler"
    OBVIOUS
  <2>2. CASE saved'[p] = saved[p]
    BY <1>1, <2>1, <2>2
  <2>3. CASE saved'[p] = NewRegisters
    <3>1. NewRegisters.blocked = FALSE
      BY DEF NewRegisters
    <3>. QED  BY <2>1, <2>3, <3>1, Zenon
  <2>. QED  BY <2>2, <2>3
<1>3. at' = place /\ alarm_blocked' = saved'[running'].blocked
  BY DEF Leave
<1>4. Unblocked' \/ saved'[running'].by = "handler"
  BY <1>2, <1>3, Zenon DEF Unblocked
<1>. QED  BY <1>2, <1>3, <1>4 DEF MaskRestored

LEMMA NextMaskRestored ==
  ASSUME TInv, MaskRestored, [TrapNext]_<<vars, trapVars>>
  PROVE  MaskRestored'
<1>1. CASE UNCHANGED <<at, alarm_blocked, saved, running>>
  BY <1>1 DEF MaskRestored, Unblocked
<1>2. CASE SIGALRM
  BY <1>1, <1>2 DEF SIGALRM, vars, schedVars
<1>3. CASE (Ended /\ UNCHANGED trapVars) \/ UNCHANGED <<vars, trapVars>>
  BY <1>1, <1>3 DEF Ended, trapVars, vars, schedVars
<1>4. CASE \E c \in Calls : disastrOS_syscall(c)
  <2>1. /\ at = "user" /\ at' = "saving" /\ UNCHANGED <<alarm_blocked, running>>
        /\ saved' = [saved EXCEPT ![running].by = "syscall", ![running].to = "user"]
    BY <1>4 DEF disastrOS_syscall, vars, schedVars
  <2>2. Unblocked'
    BY <2>1 DEF MaskRestored, Unblocked
  <2>3. \A p \in PCB \ {running} : saved'[p] = saved[p]
    BY <2>1 DEF TInv, TrapTyped
  <2>. QED  BY <2>1, <2>2, <2>3 DEF MaskRestored
<1>5. CASE SwapToTrap
  <2>1. /\ at = "saving" /\ at' = "trap" /\ running' = running
        /\ saved' = [saved EXCEPT ![running].blocked = alarm_blocked]
    BY <1>5 DEF SwapToTrap, vars, schedVars
  <2>2. alarm_blocked = FALSE
    BY <2>1, Zenon DEF TInv, MaskTyped, MaskRestored, Unblocked
  <2>3. \A p \in PCB : saved'[p].blocked => saved'[p].by = "handler"
    <3>1. SUFFICES ASSUME NEW p \in PCB, saved'[p].blocked PROVE saved'[p].by = "handler"
      OBVIOUS
    <3>2. CASE p = running
      BY <2>1, <2>2, <3>1, <3>2 DEF TInv, TrapTyped, Registers
    <3>3. CASE p # running
      BY <2>1, <3>1, <3>3 DEF TInv, TrapTyped, MaskRestored
    <3>. QED  BY <3>2, <3>3
  <2>. QED  BY <2>1, <2>3 DEF MaskRestored
<1>6. CASE disastrOS_trap
  <2>1. at = "trap" /\ \A p \in PCB : saved'[p] \in {saved[p], NewRegisters}
    BY <1>6 DEF disastrOS_trap
  <2>2. CASE running' = NULL
    <3>1. at' = "main" /\ alarm_blocked' = FALSE
      BY <1>6, <2>2 DEF disastrOS_trap
    <3>2. \A p \in PCB : saved'[p].blocked => saved'[p].by = "handler"
      BY <2>1 DEF MaskRestored, NewRegisters
    <3>. QED  BY <3>1, <3>2 DEF MaskRestored, Unblocked
  <2>3. CASE running' # NULL
    <3>1. Leave("leaving trap")
      BY <1>6, <2>3 DEF disastrOS_trap
    <3>2. running' \in PCB
      BY <1>6, <2>3, SavedByTrap
    <3>. QED  BY <2>1, <3>1, <3>2, LeaveMask
  <2>. QED  BY <2>2, <2>3
<1>7. CASE timerHandler
  <2>1. CASE running = NULL
    BY <1>1, <1>7, <2>1 DEF timerHandler, timerInterruptDies, Stop, schedVars
  <2>2. CASE running # NULL
    <3>1. /\ at' = "entering" /\ running' = running
          /\ saved' = [saved EXCEPT ![running] = HandlerRegisters]
      BY <1>7, <2>2 DEF timerHandler, vars, schedVars
    <3>2. Unblocked'
      BY <1>7, Zenon DEF timerHandler, Unblocked
    <3>3. \A p \in PCB : saved'[p].blocked => saved'[p].by = "handler"
      <4>1. HandlerRegisters.by = "handler"
        BY DEF HandlerRegisters
      <4>. QED  BY <3>1, <4>1 DEF TInv, TrapTyped, MaskRestored
    <3>. QED  BY <3>1, <3>2, <3>3 DEF MaskRestored
  <2>. QED  BY <2>1, <2>2
<1>8. CASE SwapToInterrupt
  <2>1. at = "entering" /\ at' = "interrupt" /\ UNCHANGED <<alarm_blocked, saved, running>>
    BY <1>8 DEF SwapToInterrupt, vars, schedVars
  <2>. QED  BY <2>1 DEF MaskRestored, Unblocked
<1>9. CASE Interrupt
  <2>1. at = "interrupt" /\ Leave("leaving interrupt") /\ saved' = saved /\ timerInterrupt
    BY <1>9 DEF Interrupt
  <2>2. internal_schedule(Tick) /\ UNCHANGED <<last_pid, pcb_pool>> /\ Tick \in Nat
        /\ running \in PCB
    <3>1. Tick \in Nat
      BY KernelAssumption DEF Tick, TInv, IInv, TypeOK
    <3>. QED  BY <2>1, <3>1 DEF timerInterrupt, Runs, pcbVars, poolVars, TInv, IInv, TypeOK
  <2>3. running' \in PCB
    BY <2>2, ScheduleMoves DEF TInv
  <2>. QED  BY <2>1, <2>3, LeaveMask
<1>10. CASE Resume
  <2>1. /\ at \in {"leaving trap", "leaving interrupt"} /\ at' = saved[running].to
        /\ UNCHANGED <<saved, running>>
    BY <1>10 DEF Resume, vars, schedVars
  <2>2. Unblocked'
    <3>1. Unblocked \/ saved[running].by = "handler"
      BY <2>1 DEF MaskRestored
    <3>. QED  BY <1>10, <3>1, Zenon DEF Resume, Unblocked
  <2>3. at' \in {"user", "saving", "entering"}
    <3>1. machine = "up" /\ saved[running].to # "overwritten"
      BY <1>10 DEF Resume, Undisturbed
    <3>2. running \in PCB
      BY <2>1, <3>1, Inside
    <3>. QED  BY <2>1, <3>1, <3>2 DEF TInv, RegistersLead
  <2>4. \A p \in PCB : saved[p].blocked => saved[p].by = "handler"
    BY <2>1 DEF MaskRestored
  <2>. QED  BY <2>1, <2>2, <2>3, <2>4 DEF MaskRestored
<1>11. CASE ResumeDies
  BY <1>1, <1>11 DEF ResumeDies, Stop, trapVars, schedVars
<1>12. CASE MainContext
  <2>1. /\ at = "main" /\ at' = "user" /\ alarm_blocked' = alarm_blocked
        /\ \A p \in PCB : saved'[p] \in {saved[p], NewRegisters}
    BY <1>12 DEF MainContext
  <2>2. Unblocked'
    BY <2>1 DEF MaskRestored, Unblocked
  <2>3. \A p \in PCB : saved'[p].blocked => saved'[p].by = "handler"
    BY <2>1 DEF MaskRestored, NewRegisters
  <2>. QED  BY <2>1, <2>2, <2>3 DEF MaskRestored
<1>13. [TrapNext]_<<vars, trapVars>>
  OBVIOUS
<1>. QED  BY <1>2, <1>3, <1>4, <1>5, <1>6, <1>7, <1>8, <1>9, <1>10, <1>11, <1>12, <1>13, Zenon
          DEF TrapNext, KernelStep

(* Where the code of a process runs, the alarm is not blocked: whatever    *)
(* registers a switch loads, those of a new process (disastrOS_spawn.c:39) *)
(* or those a handler saved with its own mask, SIGALRM is let through when *)
(* they are in place.  No call and no alarm leaves a process that can not  *)
(* be preempted.                                                           *)
THEOREM ProcessesPreemptible == TrapSpec => [](at \in {"user", "interrupt"} => ~alarm_blocked)
<1>1. TrapInit => MaskRestored
  BY DEF TrapInit, MaskRestored, Unblocked, NewRegisters
<1>2. TInv /\ MaskRestored /\ [TrapNext]_<<vars, trapVars>> => MaskRestored'
  BY NextMaskRestored
<1>3. MaskRestored => (at \in {"user", "interrupt"} => ~alarm_blocked)
  BY DEF MaskRestored, Unblocked
<1>. QED  BY <1>1, <1>2, <1>3, TrapInvariance, PTL DEF TrapSpec
=============================================================================
