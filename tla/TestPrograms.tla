---------------------------- MODULE TestPrograms ----------------------------
(***************************************************************************)
(* The two programs of the repository, disastrOS_test and                  *)
(* disastrOS_test_mq_bloccanti, as they run on the kernel.  A process is   *)
(* the sequence of the calls its function makes; what it prints is left    *)
(* out.  Ticks come at any moment between the calls, so a process may be   *)
(* as slow as it likes and all interleavings are there.                    *)
(***************************************************************************)
EXTENDS MessageQueues

CONSTANTS
  NumQueues,      \* disastrOS_test makes 10 queues,
  NumBurst,       \* moves 5 messages at a time,
  NumChildren,    \* and spawns 3 children
  NumMessages,    \* disastrOS_test_mq_bloccanti sends and receives 10 messages
  MaxMsg          \* through a queue of 7

ASSUME TestProgramsAssumption ==
  /\ {NumQueues, NumBurst, NumChildren, NumMessages, MaxMsg} \subseteq Nat
  /\ 0 \in MQIds /\ 0 .. NumQueues - 1 \subseteq MQIds
  /\ 0 \in Types /\ 20 \in MsgSizes /\ {10, MaxMsg} \subseteq MaxMsgs
  /\ 0 \in WaitPids /\ 2 \in SleepCycles

(* The pools are large enough for init, the sleeper and the children, for  *)
(* the queues, and for as many messages as the queues hold when full.      *)
ASSUME PoolsSuffice ==
  /\ MAX_NUM_PROCESSES >= 3 /\ MAX_NUM_PROCESSES >= NumChildren + 2
  /\ MAX_NUM_MESSAGEQUEUES >= 1 /\ MAX_NUM_MESSAGEQUEUES >= NumQueues
  /\ MAX_NUM_MESSAGES >= MaxMsg /\ MAX_NUM_MESSAGES >= 10 * NumQueues

(* A burst fits a queue of disastrOS_test, which has a queue for the pid   *)
(* of every child, from 2 to 4 in the sources, and there are descrittori   *)
(* for all queues, as many as PCBs.                                        *)
ASSUME QueuesSuffice ==
  /\ NumBurst <= 10
  /\ NumChildren + 2 <= NumQueues
  /\ NumQueues <= MAX_NUM_PROCESSES

VARIABLES
  program,    \* which of the two runs
  code,       \* the function of each process
  pc,         \* how many of its calls it has made
  mqd         \* its variable mqd

progVars == <<program, code, pc, mqd>>

Programs == {"test", "test_mq_bloccanti"}
Functions == {"initFunction", "childFunction", "sleeperFunction"}

-----------------------------------------------------------------------------
(* The functions, as sequences of <<call, argument>>.                      *)
Repeat(n, step) == [i \in 1 .. n |-> step]
ForEach(n, Steps(_)) == FlattenSeq([i \in 1 .. n |-> Steps(i - 1)])

(* disastrOS_test: the mqd of a queue that init opens is its id.           *)
OpenAndSend(i) == <<<<"create", i>>>> \o Repeat(NumBurst, <<"send", i>>)
SendAll(i)     == Repeat(NumBurst, <<"send", i>>)
ReceiveAll(i)  == Repeat(NumBurst, <<"receive", i>>)
Close(i)       == <<<<"close", i>>>>
Unlink(i)      == <<<<"unlink", i>>>>

TestInit ==
  <<<<"spawn", "sleeperFunction">>>>
    \o ForEach(NumQueues, OpenAndSend)
    \o ForEach(NumQueues, ReceiveAll)
    \o ForEach(NumQueues, SendAll)
    \o ForEach(NumQueues, Close)
    \o Repeat(NumChildren, <<"spawn", "childFunction">>)
    \o Repeat(NumChildren, <<"wait", 0>>)
    \o ForEach(NumQueues, Unlink)
    \o <<<<"shutdown", 0>>>>

(* Mutant: the child ends before it closes its queue.                      *)
ChildEndsOpen(p) ==
  IF program = "test"
  THEN <<<<"open", pid[p]>>>> \o Repeat(pid[p] + 1, <<"sleep", 2>>) \o <<<<"exit", 0>>>>
  ELSE <<<<"open", 0>>>> \o Repeat(NumMessages, <<"receive", mqd[p]>>)
         \o Repeat(pid[p] + 1, <<"sleep", 2>>) \o <<<<"exit", 0>>>>

Child(p) ==
  IF program = "test"
  THEN <<<<"open", pid[p]>>>> \o Close(mqd[p])
         \o Repeat(pid[p] + 1, <<"sleep", 2>>) \o <<<<"exit", 0>>>>
  ELSE <<<<"open", 0>>>> \o Repeat(NumMessages, <<"receive", mqd[p]>>) \o Close(mqd[p])
         \o Repeat(pid[p] + 1, <<"sleep", 2>>) \o <<<<"exit", 0>>>>

BloccantiInit(p) ==
  <<<<"spawn", "sleeperFunction">>, <<"create", 0>>, <<"spawn", "childFunction">>>>
    \o Repeat(NumMessages, <<"send", mqd[p]>>)
    \o <<<<"wait", 0>>>>
    \o Close(mqd[p])
    \o Unlink(mqd[p])
    \o <<<<"shutdown", 0>>>>

(* Mutant: the sleeper ends when there is no more input.                   *)
SleeperEnds == <<<<"exit", 0>>>>

(* The sleeper reads its input for ever, and makes no call.                *)
Sleeper == <<>>

Calls(p) ==
  CASE code[p] = "sleeperFunction" -> Sleeper
    [] code[p] = "childFunction"   -> Child(p)
    [] code[p] = "initFunction"    -> IF program = "test" THEN TestInit ELSE BloccantiInit(p)

-----------------------------------------------------------------------------
ProgramInit ==
  /\ MQInit
  /\ program \in Programs
  /\ code = [p \in PCB |-> "initFunction"]
  /\ pc = [p \in PCB |-> 0]
  /\ mqd = [p \in PCB |-> 0]

(* A new process starts its function.                                      *)
Spawns(f) ==
  \/ /\ internal_spawn
     /\ NewDescrittori
     /\ code' = [code EXCEPT ![Head(pcb_pool)] = f]
     /\ pc' = [pc EXCEPT ![Head(pcb_pool)] = 0, ![running] = @ + 1]
     /\ UNCHANGED <<program, mqd>>
  \/ NewProcessDies /\ UNCHANGED <<mqVars, progVars>>

OpensQueue(id, mode) ==
  /\ internal_mq_open(id, 0, 20, IF program = "test" THEN 10 ELSE MaxMsg, mode)
  /\ mqd' = [mqd EXCEPT ![running] = syscall_retvalue'[running]]

Exits ==
  \/ ExitToParent /\ ReleaseDescrittori(running)
  \/ (ExitToReady \/ ExitDies) /\ UNCHANGED mqVars

Makes(call, arg) ==
  \/ /\ \/ call = "create"  /\ OpensQueue(arg, {DSOS_CREATE})
        \/ call = "open"    /\ OpensQueue(arg, {})
     /\ UNCHANGED <<program, code>>
  \/ /\ \/ call = "send"     /\ internal_mq_send(arg, 5)
        \/ call = "receive"  /\ internal_mq_receive(arg, 20)
        \/ call = "close"    /\ internal_mq_close(arg)
        \/ call = "unlink"   /\ internal_mq_unlink(arg)
        \/ call = "wait"     /\ internal_wait(arg) /\ UNCHANGED mqVars
        \/ call = "sleep"    /\ internal_sleep(arg) /\ UNCHANGED mqVars
        \/ call = "exit"     /\ Exits
        \/ call = "shutdown" /\ internal_shutdown /\ UNCHANGED mqVars
     /\ UNCHANGED <<program, code, mqd>>

(* The next call of a process.                                             *)
Step(p) ==
  /\ machine = "up"
  /\ running = p
  /\ pc[p] < Len(Calls(p))
  /\ LET next == Calls(p)[pc[p] + 1]
     IN  \/ next[1] = "spawn" /\ Spawns(next[2])
         \/ Makes(next[1], next[2]) /\ pc' = [pc EXCEPT ![p] = @ + 1]

Ticks == timerInterrupt /\ UNCHANGED <<mqVars, progVars>>

ProgramNext ==
  \/ \E p \in PCB : Step(p)
  \/ Ticks
  \/ Ended /\ UNCHANGED <<mqVars, progVars>>

(* The interval timer goes on, and when processes that have a call to make *)
(* get the processor again and again, one of them comes to make it: their  *)
(* code between two calls is short.                                        *)
ProgramSpec ==
  /\ ProgramInit
  /\ [][ProgramNext]_<<vars, mqVars, progVars>>
  /\ WF_<<vars, mqVars, progVars>>(Ticks)
  /\ SF_<<vars, mqVars, progVars>>(\E p \in PCB : Step(p))

-----------------------------------------------------------------------------
(* However the ticks in their own code schedule the processes, the         *)
(* programs do not run into what kills the kernel: somebody always runs,   *)
(* thanks to the sleeper, so that no wait, exit or blocked call finds an   *)
(* empty ready list (disastrOS_wait.c:64) and no tick finds nobody         *)
(* (disastrOS.c:52).                                                       *)
Survives == machine \in {"up", "off"} /\ running # NULL

(* At the shutdown every queue was unlinked, and every message, descriptor *)
(* and timer was given back: a child that exits while init does not wait   *)
(* would keep its queue in use had it not closed it (disastrOS_exit.c:99). *)
CleanShutdown ==
  machine = "off" =>
    /\ messagequeues = <<>>
    /\ message_free = MAX_NUM_MESSAGES
    /\ descrittore_free = MAX_NUM_PROCESSES
    /\ timer_list = <<>>

(* No call of disastrOS_test fails, so that it prints no error: the mqd of *)
(* each queue is its id, as init takes for granted (disastrOS_test.c:69),  *)
(* the pids of the children are ids of queues (disastrOS_test.c:22), and   *)
(* no queue is in use when it is unlinked, however late the children are.  *)
CallsSucceed == program = "test" => \A p \in PCB : syscall_retvalue[p] >= 0

(* The programs come to their shutdown: no child sleeps, and no send or    *)
(* receive blocks, for ever.                                               *)
Terminates == <>(machine = "off")
=============================================================================
