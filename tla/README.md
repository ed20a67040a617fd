# TLA+ specification of disastrOS

disastrOS is a small operating system that runs inside one Unix process.  Its
processes are `ucontext`s that take turns on one thread; SIGALRM is the timer
interrupt, and a system call is a switch to a kernel context in which SIGALRM is
blocked.  This directory models the kernel of `src/` in TLA+, checks it with TLC
on small instances, and proves with TLAPS, for every number of processes, queues,
resources, messages and blocks, all invariants, action properties and refinements
of the runs that pass.  Liveness stays with TLC.

## 1. Inventory

| part | state | operations | talks to |
|---|---|---|---|
| boot, main context (`disastrOS.c:148-274`) | `main_context`, `init_pcb`, `shutdown_now` | `disastrOS_start`; run again when a system call leaves nobody running | PCBs, all lists |
| system call entry, trap (`disastrOS.c:92-146`) | arguments, number and return value in the PCB | `disastrOS_syscall`, `disastrOS_trap` | every call |
| timer interrupt, scheduler (`disastrOS.c:51-64`, `disastrOS_schedule.c`, `disastrOS_preempt.c`) | `running`, `ready_list`, `waiting_list`, `disastrOS_time` | tick, `internal_schedule`, `internal_preempt` | timers, PCB statuses |
| timers (`disastrOS_timer.c`) | `timer_list`, a pool of TimerItems | add, current, removeCurrent | sleep, send, receive, schedule, exit |
| PCBs (`disastrOS_pcb.c`) | pools of PCBs and PCBPtrs, `last_pid`; per process pid, status, parent, children, signals | alloc, free, lookup by pid | all process calls |
| process calls (`disastrOS_{spawn,fork,wait,exit,sleep,shutdown}.c`) | `zombie_list` and all of the above | one system call each | each other, through the statuses and lists of parents and children |
| message queues (`disastrOS_messagequeue.c`, `disastrOS_mq_*.c`) | `messagequeues_list`, messages, pools of queues and messages | open, close, unlink, send, receive | descriptors; timers and lists when they block |
| descrittori (`disastrOS_descrittore.c`) | list of each process and of each queue, two pools, `last_mqd` | alloc, free, lookup by mqd | queues, exit |
| resources, descriptors (`disastrOS_resource.c`, `disastrOS_descriptor.c`, `disastrOS_*_resource.c`) | the same for resources | open, close, destroy | exit |
| linked lists (`linked_list.c`) | intrusive `prev`/`next`, heads with `size` | init, insert, detach | everything |
| pool allocator (`pool_allocator.c`) | array of indices, first free index | init, getBlock, releaseBlock | every pool |
| test programs (`disastrOS_test.c`, `disastrOS_test_mq_bloccanti.c`) | where each process is in its function, its `mqd` | spawn, wait, sleep, exit and the queue calls, in a fixed order | the whole kernel |
| printing, log file, Makefile | none of the kernel's | - | - |

Parts interact by shared state only: there is one thread, and a call runs with
SIGALRM blocked.  What is hard is the *sequence* of calls of several processes,
and what SIGALRM does around and between the switches:

- a child exits before, while or after its parent waits, and the parent may be
  gone, its PCB freed and given to somebody else (`disastrOS_exit.c:38-47`);
- four files move PCBs between lists and write their statuses separately, and
  decisions are taken on the status;
- timers keep pointers to PCBs, and wake processes ahead of the ready ones;
- send and receive block in the middle, and change `running` before they store
  their error;
- pools run out, and most callers follow the null pointer;
- when everybody sleeps, control falls back into `disastrOS_start`;
- a switch is not atomic: it saves registers, swaps the signal mask, and loads
  registers, and an alarm may be delivered in between, on either stack.

What makes each part correct is stated in section 4; `PROJECT.json` lists every
hazard at its line, with the properties that watch it.

## 2. Modules

| module | models | extends / instantiates |
|---|---|---|
| `Kernel` | the state of the kernel, and what calls share: trap and return, timers, blocking, `internal_schedule` | |
| `Processes` | boot, tick, preempt, spawn, fork, wait, exit, sleep, shutdown: one action each, with their error paths and the ways in which the program dies | `Kernel`, `Lifecycle` |
| `Lifecycle` | abstract: the life of a pid | |
| `MessageQueues` | the queue calls, composed with every process call; boot, spawn and exit also act on descriptors | `Processes`, `Channels` |
| `Channels` | abstract: bounded first-in-first-out channels | |
| `Resources` | open, close and destroy of resources, composed with every process call but fork | `Processes` |
| `TrapAndAlarm` | the switches between processes, trap and interrupt, step by step, with signal masks and saved registers, around the process calls | `Processes` |
| `TestPrograms` | the two programs of the repository, call by call, on the whole kernel | `MessageQueues` |
| `PoolAllocator` | `pool_allocator.c`, index by index | `Pool` |
| `Pool` | abstract: a pool of blocks, last in first out | |
| `LinkedList` | `linked_list.c`, pointer by pointer | `Lists` |
| `Lists` | abstract: sequences | |
| `PooledLists` | lists of blocks of a pool, as every `X_alloc`, `List_insert`, `List_detach` and `X_free` use them | `PoolAllocator`, `LinkedList` |
| `MCProcesses`, `MCMessageQueues`, `MCResources`, `MCTrapAndAlarm`, `MCTestPrograms`, `MCPooledLists` | constants and views for TLC | |
| `CollectionLemmas` | lemmas on `Append`, `Tail`, `InsertAt`, `RemoveFirst`, `FlattenSeq`..., and on sums over finite sets, with proofs | |
| `ProcessesProofs` | the inductive invariant of `Processes` and its proof; that `Processes` implements `Lifecycle`; what opens, closes and exits do to the tables of processes | `Processes`, `CollectionLemmas` |
| `WakeupProofs` | proofs about wake-ups, timers, orphans, PCBPtrs and overtaking | `ProcessesProofs` |
| `MessageQueuesProofs` | the accounts of queues, descrittori and messages; that `MessageQueues` implements `Channels` | `MessageQueues`, `ProcessesProofs` |
| `ResourcesProofs` | the accounts of resources and descriptors; that fds keep their resource | `Resources`, `ProcessesProofs` |
| `TrapAndAlarmProofs` | proofs about saved registers, the signal mask and calls that return | `TrapAndAlarm`, `ProcessesProofs` |
| `PooledListsProofs` | proofs about `PoolAllocator`, and about `PooledLists`, which implements `Pool` and `Lists` | `PooledLists`, `CollectionLemmas` |
| `TestProgramsProofs` | proofs that the test programs survive, that no call of `disastrOS_test` fails, and that nothing is left at the shutdown | `TestPrograms`, `MessageQueuesProofs` |

`Processes`, `MessageQueues` and `Resources` use sequences for lists and a
sequence or a number for a pool.  `PooledLists` justifies that: the pointers and
indices of the code, used together, implement sequences and pools, which is
proved for any number of blocks and lists (`PoolRefined`, `ListsRefined`).

### How the state corresponds to the code

A PCB is its block in the pool (`0 .. MAX_NUM_PROCESSES-1`), because the code's
pointers are: `parent[p]` may name a block that was freed and reused.
`ready_list`, `timer_list`, `children[p]` and the free list `pcb_pool` are
sequences, since the code depends on their order.  `waiting_list` and
`zombie_list` are sets, as nothing looks at their order.  `pcbptr_free` counts
free PCBPtrs; those in lists are the entries of `children`.  The TimerItem pool has
as many blocks as there are PCBs, so a free one is the test on the length of
`timer_list`.  `syscall_retvalue` is the field of the PCB, and
`wait_arg` stands for `syscall_num` and `syscall_args[0]`: it is the argument if
the last call was a wait, `NULL` otherwise, which is all the code asks of them.
`context` is the set of blocks whose saved registers were ever set, because
`fork` sets none.  `machine` is `"up"`, `"off"` after a shutdown, or
names the place where the program dies (null pointer, failed assertion, endless
loop): the actions `...Dies` are the calls that get there, and no step follows.
The status of a new PCB in the pool is `Created`, as a zeroed buffer has it.

In `MessageQueues` a queue is a record under its id, with `msg_num` and the
messages themselves, kept apart as in the code, and `users` for the size of
`descrittori_ptrs`.  `descrittori[p]` maps the open mqds of a process to ids.
A message is the number of its send.  An open mode is the set of its bits.

In `Resources` a resource is its block, because a `Descriptor` keeps a pointer
to it: the block may come back under another id, and nothing but the count of
`DescriptorPtr`s prevents a stale fd.

In all modules but `TrapAndAlarm` each call is one step, from `swapcontext`
(`disastrOS.c:107`) to `setcontext` (`disastrOS.c:141`), and so is a tick.  They
describe the executions in which no alarm is delivered inside the kernel or
inside a switch; a tick comes in the process's own code, or in `main_context`.
`TrapAndAlarm` says what happens in the others.  There the processor is in one
of the `Places`; a switch of the C library (x86-64 glibc) saves the registers,
swaps the mask with a system call, and then loads the other registers, so that
an alarm which the new mask lets through is delivered *before* the stack is
changed.  `saved[p]` stands for the `cpu_state` of a PCB: who wrote it, where
it leads, and the mask.  The handler overwrites it (`disastrOS.c:52`), whatever was
in it.  What the model shows of the code:

- an alarm that came during a system call is delivered when the trap leaves, on
  `system_stack`; `timerInterrupt` starts on the same stack and writes over the
  handler's frame; the process dies when it is its turn (run `late_alarm`);
- so it is with an alarm that comes during `timerInterrupt`
  (`disastrOS.c:242` leaves SIGALRM open);
- an alarm between the two halves of the `swapcontext` of a call replaces the
  registers that were just saved: from then on each return of the trap leads
  back into the middle of the switch, the call is served again and again
  (`served` goes to 2 and stays) and never returns;
- a call that does return was served exactly once (`CallsReturnServedOnce`);
- every set of registers brings an empty mask or restores the one it
  interrupted, so the alarm is always heard (`AlarmIsHeard`).

`TestPrograms` restricts `MessageQueues`: each process makes the calls of its
function in order.  Reboot and the tick that finds nobody are left out of its
next-state relation because `Survives` shows that somebody always runs.

Processes are otherwise unconstrained: the running one may make any call with
any of the arguments, or compute until the next tick.  One thing is assumed of
them: they end by `exit` or `shutdown` and do not return from their function
(`disastrOS.c:259`).

Left out: register and stack contents, exit values, what is printed and logged,
and `running->timer`, which is only ever assigned 0 and therefore never holds
up a sleep.

## 3. Bounds

`MAX_NUM_PROCESSES` is 1024 in the code and 2 to 4 in the runs (14 for the test
programs): 3 PCBs are init, a child and a grandchild or two siblings, which is
enough for a stale parent, a reused block, an orphan, two sleepers and a full
pool; `orphans` has 4, for an orphan beside a child of init's own.  `MaxPid` stops spawn and fork, so that blocks are reused once or twice.
The repeated boot is not bounded by it, only by the pool.  The clock stays at
`MaxTime` when it gets there, and no timer is set past it, so that no timer is
cut off.

- `queues` has 2 PCBs, a sender and a receiver, and a third process that takes
  over a block; two ids for one queue block, so that an mqd and an id differ and
  the pool runs out.  A blocked call sleeps for `MQCycles`, 25 in the code and 1
  in the run.  `MaxMqd` bounds how often a process opens, `MaxSends` the messages
  ever sent, one more than a queue holds and as many as the pool.  `max_msg` is
  also 0 and negative, which the code accepts.
- `resources` has three ids for two blocks, one of them with two types, and more
  opens (`MaxFd` for each process) than descriptors.  The clock is not needed.
- `trap` has 2 PCBs and three pids.  The clock stands at 0, so a sleeper is
  woken by the next tick; `served` counts to 2, as more than once is all that is asked.
- `test_programs` has the numbers of the sources: 10 queues of 10 messages, bursts
  of 5, three children; 10 messages through a queue of 7, and blocked calls that
  sleep for 25 ticks.  Of the pools only the messages are fewer, 100 for 1024,
  and the PCBs and descrittori, 14.  `MaxTime` is never reached.
- `pooled_lists` has four blocks and two lists: the front, the back, the middle
  and the only item, a pool that is empty and one that is full.

Five runs have a `VIEW`.  Those of `queues`, `resources` and `trap` leave out
`signals` and `syscall_retvalue`, which no guard reads, and of the properties of
these runs only the type invariants, which are theorems.  That of `processes` keeps
SIGHUP, which `OrphansGotSIGHUP` reads, and leaves out besides the arguments of
calls of processes that do not wait, and the fields of free blocks, which are set
when a block is handed out.  A stale parent pointer may lead to the status of a free
block, but `disastrOS_exit.c:44` asks only whether it is `Waiting`, which it is not
(`StatusSafe`, proved without a view).  The pid that `WokenByAwaitedChild` looks
for in `syscall_retvalue` is put there by the very step.  The view of `test_programs` takes the timers relative to the clock, which
the code reads only to compare it with them.  Two states with the same view
therefore have the same steps up to the view, and the temporal properties
(`SleeperWakes`, `ReadyRuns`, `AlarmIsHeard`, `Terminates`) do not tell them apart.

## 4. Runs

Runs that pass:

| run | what it shows |
|---|---|
| `processes` | every PCB in one place (`Placement`), status and list agree (`StatusAgrees`), pids unique (`PidsUnique`), children lists share out the processes (`Family`), PCBPtrs no more than there are (`PCBPtrsAccounted`), one timer per sleeper (`TimersMatchSleepers`), none overdue (`NeverOverdue`), who waits has no zombie of its own that it asked for (`NoLostWakeup`), only the exit of such a child ends its wait, and until then each of them stays its child (`WokenByAwaitedChild`), orphans were told (`OrphansGotSIGHUP`), sleep is not cut short (`SleepIsHonoured`), ready processes are not overtaken without limit (`BypassBound`); and the calls implement `Lifecycle` (`ImplementsLifecycle`): a pid is born once, reaped once, and runs alone.  A sleeper is woken (`SleeperWakes`) and a ready process runs (`ReadyRuns`), unless the program ends |
| `queues` | queue calls and process calls interleaved: no dangling descriptor (`OpenQueuesExist`), blocks add up (`DescrittoriAccounted`, where those that dead processes left in a queue count as its users, and `MessagesAccounted`), and the queues implement `Channels` (`ImplementsChannels`): bounded, each message once and in its turn, and nothing done by a call that blocks or fails |
| `resources` | no block in two places or in none (`ResourcesAccounted`, `DescriptorsAccounted`), no dangling descriptor (`OpenResourcesListed`), and an fd names what it was opened on as long as it is open (`FdsKeepTheirResource`) |
| `trap` | a call that returns was served once (`CallsReturnServedOnce`), saved registers and lists agree (`SavedAgrees`), and the alarm is not blocked for good (`AlarmIsHeard`), with an alarm at any moment |
| `test_programs` | both programs of the repository survive every schedule that ticks in the code of the processes can make, none falling in the kernel or in a switch (`Survives`), come to their shutdown (`Terminates`) with nothing left behind (`CleanShutdown`), and `disastrOS_test` prints no error (`CallsSucceed`) |
| `pooled_lists` | the index array is a chain of exactly the free blocks (`ChainIsFree`) and implements `Pool`, whatever is released; both directions of every list agree (`BothWaysAgree`), a detached or newly allocated item can be inserted (`DetachedIsUnlinked`), and the lists implement `Lists` |

Runs that show that the code does not do what it says:

| run | the code says | what happens |
|---|---|---|
| `orphans` | an exit wakes the parent that waits, and orphans become init's (`disastrOS_exit.c:11-15`) | only the list is handed over, not the `parent` pointer: init sleeps beside the zombie |
| `stranger` | a wait for a process that is not in the list returns an error (`disastrOS_wait.c:33`) | the scan leaves the last child, never null: the call blocks, or reaps that child if it is a zombie |
| `pcbptr_leak` | `assert(new_pcb_ptr)` (`disastrOS_spawn.c:26`) | an awaited exit loses a PCBPtr, until none is left |
| `blocked_retvalue` | failures return negative numbers (`README.md:10`) | a blocked send or receive stores its error in the next process and returns an old value |
| `leaked_users` | queues are released on termination (`disastrOS_exit.c:85`) | only if the parent waits at that moment |
| `late_alarm` | the mask disables the alarm during the system trap (`disastrOS.c:234`) | the alarm is delivered when the trap leaves, on its stack, and the interrupt writes over the handler's frame |

More are in the models without a run of their own:

- all asleep, control comes back to `main_context`, which by `disastrOS.c:224` is for
  the shutdown, and a second init is booted (`Reboot`);
- an exit that nobody awaits, with everybody else asleep, follows a null
  pointer before its `assert(next_running)` (`disastrOS_exit.c:101`, `ExitDies`);
- a receive into a buffer that is too short copies the message and returns 0
  (`disastrOS_mq_receive.c:51`, `Receives`);
- `DSOS_WRITE` contains the bit of `DSOS_CREATE` (`disastrOS_constants.h:65`), so that
  opening for writing is opening to create.

### Fairness

`processes` uses `FairSpec`: weak fairness of the tick, because the interval timer
sends SIGALRM for ever and every process runs with it unblocked, and of what the
machine does by itself, the way back through `main_context` and the switch to a
forked process.  Nothing is assumed of processes: no call is fair, so a
process may compute for ever.  The properties allow for the end of the
program.  They do so because the code has ways to die (a tick while nobody runs,
for one); a hang of the kernel inside a call counts as the end.

`trap` assumes that the kernel's code goes on (weak fairness of `KernelStep`) and
nothing of the alarm or of the processes.  `test_programs` assumes that ticks keep
coming (weak fairness), and that, when processes with a call to make get the
processor again and again, one of them comes to make it (strong fairness of
some step: a process is interrupted and does not make its call in every slice,
but its code between two calls is short and the slice is 100 ms).  The
sleeper, which reads its input for ever, has no call to make.

Deadlock is checked in every run.  A program that ended stutters in `Ended`; in
all other states some step must be possible.

## 5. Proofs

`ProcessesProofs` proves, for every `MAX_NUM_PROCESSES`, every set of arguments
and all bounds, that

    IInv == TypeOK /\ Placement /\ StatusAgrees /\ PidsUnique /\ Family
                   /\ TimersMatchSleepers

is inductive, and from it the theorems `TypeCorrect`, `PlacementSafe`,
`StatusSafe`, `PidsSafe`, `FamilySafe` and `TimersSafe`.

No part is inductive by itself.  `Placement` of an exit needs `StatusAgrees`, since the
parent is detached from `waiting_list` because its *status* is `Waiting`;
and of a tick it needs `TimersMatchSleepers`, because the processes woken are
those of the timers.  `StatusAgrees` of a wait needs `Family`: the zombie reaped
must be no freed block, and children lists hold none.  `Family` of an exit needs
`PidsUnique`, because the process is looked up in the parent's list by pid, and that `init_pcb` is alive,
because its list grows.  `TimersMatchSleepers` of an exit needs `Placement`: the
process that runs has no timer to be released, and the parent that wakes waits
for a child and not for a timer.

The proof has one lemma per action.  Steps shared by several actions (spawn and
fork, the tick and preempt, sleep and the rest of blocking) are proved once.
`CollectionLemmas` holds what is needed about lists: who is a member after an
insertion, a cut or a detach, and that no item occurs twice.

All assumptions are those named in the modules of the components, and TLC
evaluates them in every run.  There is at least one PCB, `NULL` is not an integer,
sleep is not called with a negative number; what a process waits for, the
capacity of a queue and the id and type of a resource are integers, numbers of
blocks and bounds of the model natural numbers; a pool has at least one item,
items have a positive size, and released offsets are integers; `NULL` is no list.

The other modules build on `IInv`, which holds in every state, so that each needs
only what it adds to it:

- `WakeupProofs` proves `NeverOverdue` by itself (`TimersRing`), with the same
  case analysis that shows that no step wakes a sleeper early (`SleepSafe`): a schedule
  cuts off exactly the timers that are due, and the parent that an exit wakes has
  no timer.  `OrphansGotSIGHUP` and `NoLostWakeup` are inductive
  together with `Adopters`: only a process without a parent has children of
  others in its list.  Without it, an orphan could be handed on to the very process
  its stale parent pointer leads to, already a zombie.  It holds since only
  booted processes are ever `init_pcb`, and their exit ends the program.
  `WaitersWokenByChild` goes through the steps once more with these: all but an awaited
  exit leave who waits waiting, with its children (`WaitersStay`), and in an awaited
  exit the parent pointer leads to the list the process is in (`ParentIsWoken`).
  It says nothing of a process that blocked without a child of its own to wake it, by
  a pid that none has (run `stranger`) or with orphans only (run `orphans`).
  `PCBPtrsSafe` counts the processes that have a parent, which by `Family` are those
  in the lists: spawn adds one and takes a block, a wait removes one and gives it
  back, an awaited exit removes one and gives nothing back (the leak of
  section 4).
- `ProcessesProofs` proves `LifecycleImplemented`: `Init` maps to the initial state of
  `Lifecycle`, and each action to one of its steps or to a stutter.  Sets of PCBs
  become sets of pids, and `PidsUnique` is what makes removing a PCB the same as
  removing its pid.
- `WakeupProofs` proves `BypassBounded` from the positions in lists without
  duplicates: each woken process moves the ready ones back by one and
  takes one timer off the list.
- `MessageQueuesProofs` proves that `MQInv == IInv /\ Accounted` is inductive, and from it
  all properties of the run `queues`.  `OpenQueuesExist` is not inductive: it
  compares the users of a queue with what *one* process has open, and two that
  have it open may close it one after the other only if both are counted.
  `Accounted` therefore compares the users with the sum over all processes in use
  (`UsersCoverHeld`).  It is an inequality, not an equation, because of the users
  that a dead process leaves behind (run `leaked_users`).  `QueuesCounted` relates
  `msg_num` to the messages, so that what `MessageQueue_free` counts is what is there
  (`MessagesAccounted`), and that a queue is full or not is so in `Channels` too.
  `ChannelsRefined` needs nothing else.
- `ResourcesProofs` has the same shape, with `RInv`.  There the blocks matter too:
  a block that is created has no users because it was not in the list, and an fd
  is new because it is above all others.  `FdsKeepSafe` follows from the step that
  destroys: a resource some living process has open has users.
- `CollectionLemmas` proves what both need of sums: a sum over a finite set grows by as
  much as one of its terms does, or by the term that is added, and what an exit
  takes away from each queue adds up to what it gives back.  The community
  modules define these sums by recursion; they are shown to be the number of pairs of an element
  and a unit of its value, by looking at a least subset for which that fails, as
  the prover has no induction.
- `TrapAndAlarmProofs` proves that `TInv` is inductive: `IInv`, the types, and
  where the processor is (`PlaceAgrees`), where saved registers lead
  (`RegistersLead`), how often each call was served (`ServedOnce`) and
  `SavedAgrees`.  Of a process with registers saved by `disastrOS_syscall`,
  `ServedOnce` says that it was served exactly once unless it has not been in the
  trap; that the registers an alarm saved lead back into the switch, and never
  into the trap or to `main_context`, is what `RegistersLead` adds.  `SavedAgrees`
  needs from the process calls that none but the running process starts to wait
  or becomes a zombie, and that none leaves the ready list but for the processor
  (`Moves`).  `ProcessesPreemptible` is the safety part of `AlarmIsHeard`: where the
  code of a process runs the alarm is let through, because only registers saved
  by a handler have SIGALRM blocked, and the handler's return unblocks it
  (`MaskRestored`).
- `PooledListsProofs` is about pointers.  A walk from `first_idx`, from `first` or from
  `last` is a recursive function; `WalkMeets` shows that it meets a given sequence if
  each item of it leads to the next.  `PoolInv` says that there is such a sequence of
  the free blocks, in the order in which they will be handed out, and `PooledInv`
  adds one for each list, which `prev` and `next` run through in both
  directions, that unlinked items have no neighbours, and that only blocks that
  are handed out are in lists.  Without the last, an allocation could clear the
  links of an item that is in a list.  `PoolRefined` and `ListsRefined` follow
  from what get, release, insert and detach do to these sequences.
- `TestProgramsProofs` proves `Survives` from `PInv`, which adds to `MQInv` why none
  of the ways to die is open to these programs.  Somebody is always ready:
  the sleeper makes no call, so after init's first one it runs or is ready
  (`SleeperReady`), and any call that gives up the processor is another's.
  Only init has children and is everybody's parent (`Tree`), so an exit finds itself in
  its parent's list and never loops over children of init's own.  A spawn finds a PCB and a PCBPtr
  because each pid used up is one of the places in init's function
  where it spawns (`SpawnPlaces`, `SpawnsCounted`); of PCBs that are free nothing is
  said, but if all were in use their pids would all differ and be fewer
  than they are.  A send finds a message because only the
  program's queues exist, each of its capacity (`QueuesKnown`), and all of them full take no more
  than the pool.  That `FlattenSeq` of sequences of calls is a sequence of calls (`FlattenTyped`)
  is proved by looking at the first prefix that would not be one.  The proof is for any
  number of queues, messages and children; `PoolsSuffice` is assumed, that
  the pools are large enough for them, as they are in the sources (1024 messages and
  PCBs, 10 queues of 10, 5 processes), and that the arguments of the calls are in the
  sets `MessageQueues` takes them from.
- The same module proves `CallsSucceed` and `CleanShutdown` from `CInv`.  A call of
  init succeeds because of the calls that init made before, and these are data: a
  sequence put together with `FlattenSeq`.  So the proof keeps *books*, one page after each
  of init's calls (`Ledgers`): the queues that exist, those that init has open, its next
  mqd, the messages in each queue, and the size of its family.  `Effect` says
  which pages a call may lead from and to: a queue is created when it is not there and
  its id is the next mqd, a receive finds a message, an unlink a queue that is closed
  when the family is only the sleeper.  `Leads` is shown for each part of init's
  function, and for the whole of it (`TestInitLeads`, `BloccantiInitLeads`), so the books
  exist; `FlattenStepwise` takes `FlattenSeq` apart.  `Now` is the page that
  the `pc` of init is at, and `Booked` says that the system is as it says: the queues
  (`QueuesAsBooked`) and the descriptors of init (`InitHolds`) directly; the processes
  (`FamilyCounted`) with one more while init waits, for then its call is made and
  no child is reaped yet; and the users of a queue (`UsersAre`) are init, if it has it
  open, and the child whose pid it is, from its open to its close (`ChildrenHold`, `Holds`).  None
  of this is inductive without the rest: the open of a child succeeds because all queues
  are there whenever the family is two or more, and so does the unlink because none is open
  by a child when it is not.  A descrittore is free for each open because no queue has two users,
  except in `disastrOS_test_mq_bloccanti`, which has one queue for two; a timer is, because
  the process that runs has none.  Calls that block return errors, but only
  `disastrOS_test_mq_bloccanti` has any, so that `CallsSucceed` is about `disastrOS_test`.
  `QueuesSuffice` is assumed besides `PoolsSuffice`: bursts fit the queues (5 and 10 in the
  sources), there is a queue for the pid of each child (10, and the pids are 2 to 4),
  and a descrittore for each queue.

With these, every invariant, action property and refinement of all runs is
proved for all values of the constants.

Only model-checked:

- liveness (`SleeperWakes`, `ReadyRuns`, `AlarmIsHeard`, `Terminates`), which needs
  ENABLED, and the prover cannot do that;
- the runs that show a disagreement: a trace refutes, there is nothing to prove.

## 6. Not modelled

- An alarm in the middle of a list operation of `internal_schedule`, or before
  `swapcontext` has saved the last register; in `TrapAndAlarm` the interrupt is one step
  and so is the saving of registers.
- An alarm between `setupSignals` and the first switch (`disastrOS.c:265-273`).
- A tick between the return of a call and the read of its return value
  (`disastrOS.c:108`) while another process's blocked send stores an error there:
  `TrapAndAlarm` has no queues.
- Call numbers out of range, for which `disastrOS_syscall` returns at once; fork in
  `TrapAndAlarm`, `Resources` and the test programs.
- Process functions that return.
- The check of `PoolAllocator_init` that the buffer is large enough
  (`pool_allocator.c:29`): the static buffers of the pools always are.
- Integer overflow of the clock and of pids.
- Printing and the log file, with which `disastrOS.c:137` follows null when
  everybody sleeps.

## 7. Plan

1. done: `Kernel`, `Processes`, `Lifecycle`, their runs, `ProcessesProofs`.
2. done: `MessageQueues`, `PoolAllocator`, `LinkedList` and what they implement.
3. done: `Resources`, `TrapAndAlarm`, `TestPrograms`, `PooledLists`, `Channels`.
4. done: the proofs of every invariant, action property and refinement of
   `Processes`, `MessageQueues`, `Resources`, `TrapAndAlarm`, `PoolAllocator`, `PooledLists`
   and the test programs.
5. `TrapAndAlarm` with queues, for the race at `disastrOS.c:108`; the interrupt at the
   grain of list operations.
