---------------------------- MODULE MessageQueues ---------------------------
(***************************************************************************)
(* The message queues of disastrOS, on top of the processes that use them: *)
(* open, close, unlink, send, receive, and what boot, spawn and exit do to *)
(* the descriptors (descrittori) of a process.                             *)
(*                                                                         *)
(* A queue is named by its id and a descrittore by its process and mqd.  Of *)
(* a queue's list of DescrittorePtr the code reads only the size, which is *)
(* `users' here.  The Descrittore and DescrittorePtr pools have the same   *)
(* size and are used in step, so one number stands for both.  The payload  *)
(* of a message is the number of the send that brought it, so that order,  *)
(* loss and duplication can be told; the type and the sizes are integers.  *)
(***************************************************************************)
EXTENDS Processes

CONSTANTS
  MAX_NUM_MESSAGEQUEUES,    \* size of the MessageQueue pool
  MAX_NUM_MESSAGES,         \* size of the Message pool
  MQCycles,                 \* how long a blocked send or receive sleeps
  MQIds, Types, MsgSizes, MaxMsgs, Modes,   \* the arguments of mq_open tried
  MsgLens,                  \* the lengths send and receive are called with
  MaxMqd,                   \* bound: a process opens at most MaxMqd times
  MaxSends                  \* bound: number of messages ever sent

ASSUME MessageQueuesAssumption ==
  /\ MAX_NUM_MESSAGEQUEUES \in Nat
  /\ MAX_NUM_MESSAGES \in Nat
  /\ MQCycles \in Nat
  /\ MaxMsgs \subseteq Int
  /\ MaxMqd \in Nat
  /\ MaxSends \in Nat

VARIABLES
  messagequeues,     \* the queues in messagequeues_list, by id
  descrittori,       \* the open descriptors of each process: mqd to id
  last_mqd,          \* the next mqd of each process
  descrittore_free,  \* number of free Descrittore blocks
  message_free,      \* number of free Message blocks
  sent,              \* number of messages sent so far
  received           \* the message last copied to each process

mqVars == <<messagequeues, descrittori, last_mqd, descrittore_free, message_free,
            sent, received>>
processVars == <<machine, disastrOS_time, context, pcbVars, poolVars, schedVars>>

DSOS_EMESSAGEQUEUECREATE == -8
DSOS_EMESSAGEQUEUEOPEN   == -9
DSOS_EMESSAGEQUEUENOEXCL == -10
DSOS_EMESSAGEQUEUENOFD   == -11
DSOS_EMESSAGEQUEUECLOSE  == -12
DSOS_EMESSAGEQUEUEINUSE  == -13
DSOS_EMESSAGEQUEUEFULL   == -14
DSOS_EMESSAGEQUEUEEMPTY  == -15
DSOS_EMESSAGESIZE        == -16

MQInit ==
  /\ Init
  /\ messagequeues = <<>>
  /\ descrittori = [p \in PCB |-> <<>>]
  /\ last_mqd = [p \in PCB |-> 0]
  /\ descrittore_free = MAX_NUM_PROCESSES
  /\ message_free = MAX_NUM_MESSAGES
  /\ sent = 0
  /\ received = [p \in PCB |-> NULL]

(* A call that ends at once and changes nothing but queues.                *)
Answers(value) ==
  /\ Trap(NULL)
  /\ Return(value)
  /\ UNCHANGED processVars

Fails(error) == Answers(error) /\ UNCHANGED mqVars

-----------------------------------------------------------------------------
(* mq_open *)

Exists(id) == id \in DOMAIN messagequeues

MessageQueue(type, msg_size, max_msg) ==
  [type |-> type, msg_size |-> msg_size, max_msg |-> max_msg,
   msg_num |-> 0, users |-> 0, messages |-> <<>>]

(* The queue list once a queue to be created is in it.                     *)
WithQueue(id, type, msg_size, max_msg, mode) ==
  IF DSOS_CREATE \in mode
  THEN With(messagequeues, id, MessageQueue(type, msg_size, max_msg))
  ELSE messagequeues

(* Mutant: one user too many is overlooked.                                *)
InUseOffByOne(id) == messagequeues[id].users > 1

InUse(id) == messagequeues[id].users > 0

(* The test an open fails before it asks for a descrittore, if any.        *)
OpenError(id, type, mode) ==
  IF DSOS_CREATE \in mode
  THEN IF Exists(id) THEN DSOS_EMESSAGEQUEUECREATE ELSE NULL
  ELSE IF ~Exists(id) \/ messagequeues[id].type # type THEN DSOS_EMESSAGEQUEUEOPEN
  ELSE IF DSOS_EXCL \in mode /\ InUse(id) THEN DSOS_EMESSAGEQUEUENOEXCL
  ELSE NULL

OpenRefused(id, type, mode) ==
  /\ OpenError(id, type, mode) # NULL
  /\ Fails(OpenError(id, type, mode))

NoQueueBlock(mode) ==
  DSOS_CREATE \in mode /\ Cardinality(DOMAIN messagequeues) = MAX_NUM_MESSAGEQUEUES

(* Without a descrittore the open fails, but a queue it created stays.     *)
OpenWithoutDescrittore(id, type, msg_size, max_msg, mode) ==
  /\ OpenError(id, type, mode) = NULL
  /\ ~NoQueueBlock(mode)
  /\ descrittore_free = 0
  /\ Answers(DSOS_EMESSAGEQUEUENOFD)
  /\ messagequeues' = WithQueue(id, type, msg_size, max_msg, mode)
  /\ UNCHANGED <<descrittori, last_mqd, descrittore_free, message_free, sent, received>>

Opens(id, type, msg_size, max_msg, mode) ==
  LET mqd == last_mqd[running]
  IN  /\ Answers(mqd)
      /\ mqd < MaxMqd
      /\ OpenError(id, type, mode) = NULL
      /\ ~NoQueueBlock(mode)
      /\ descrittore_free > 0
      /\ messagequeues' = [WithQueue(id, type, msg_size, max_msg, mode)
                             EXCEPT ![id].users = @ + 1]
      /\ descrittori' = [descrittori EXCEPT ![running] = With(@, mqd, id)]
      /\ last_mqd' = [last_mqd EXCEPT ![running] = mqd + 1]
      /\ descrittore_free' = descrittore_free - 1
      /\ UNCHANGED <<message_free, sent, received>>

OpenDies(id, type, mode) ==
  /\ Runs
  /\ OpenError(id, type, mode) = NULL
  /\ NoQueueBlock(mode)
  /\ Stop("mq_open: no MessageQueue")
  /\ UNCHANGED mqVars

internal_mq_open(id, type, msg_size, max_msg, mode) ==
  \/ OpenRefused(id, type, mode)
  \/ OpenWithoutDescrittore(id, type, msg_size, max_msg, mode)
  \/ Opens(id, type, msg_size, max_msg, mode)
  \/ OpenDies(id, type, mode)

-----------------------------------------------------------------------------
(* mq_close and mq_unlink *)

HasMqd(mqd) == mqd \in DOMAIN descrittori[running]

CloseUnknown(mqd) == Fails(DSOS_EMESSAGEQUEUECLOSE) /\ ~HasMqd(mqd)

(* Mutant: the mqd is taken for the id of the queue.                       *)
ClosesWrongQueue(mqd) ==
  /\ Answers(0)
  /\ HasMqd(mqd)
  /\ messagequeues' = [messagequeues EXCEPT ![mqd].users = @ - 1]
  /\ descrittori' = [descrittori EXCEPT ![running] = Without(@, mqd)]
  /\ descrittore_free' = descrittore_free + 1
  /\ UNCHANGED <<last_mqd, message_free, sent, received>>

Closes(mqd) ==
  /\ Answers(0)
  /\ HasMqd(mqd)
  /\ messagequeues' = [messagequeues EXCEPT ![descrittori[running][mqd]].users = @ - 1]
  /\ descrittori' = [descrittori EXCEPT ![running] = Without(@, mqd)]
  /\ descrittore_free' = descrittore_free + 1
  /\ UNCHANGED <<last_mqd, message_free, sent, received>>

internal_mq_close(mqd) == CloseUnknown(mqd) \/ Closes(mqd)

UnlinkUnknown(id) == ~Exists(id) /\ Fails(DSOS_EMESSAGEQUEUECLOSE)

UnlinkInUse(id) ==
  /\ Exists(id)
  /\ InUse(id)
  /\ Fails(DSOS_EMESSAGEQUEUEINUSE)

(* Mutants: as many messages are given back as would fit, or none.         *)
LeftoversMax(id) == messagequeues[id].max_msg
LeftoversNone(id) == 0

(* MessageQueue_free gives the messages back that nobody received, as many *)
(* as msg_num says.                                                        *)
Leftovers(id) == messagequeues[id].msg_num

Unlinks(id) ==
  /\ Answers(0)
  /\ Exists(id)
  /\ ~InUse(id)
  /\ messagequeues' = Without(messagequeues, id)
  /\ message_free' = message_free + Leftovers(id)
  /\ UNCHANGED <<descrittori, last_mqd, descrittore_free, sent, received>>

internal_mq_unlink(id) == UnlinkUnknown(id) \/ UnlinkInUse(id) \/ Unlinks(id)

-----------------------------------------------------------------------------
(* mq_send and mq_receive *)

(* On a full or an empty queue the caller sleeps for a while, and the error *)
(* is stored through running, which is another process by then; with       *)
(* nobody ready it is stored through null.  Nothing is tried again later.   *)
Blocks(retvalues, error) ==
  /\ Trap(NULL)
  /\ disastrOS_time + MQCycles <= MaxTime
  /\ IF Len(timer_list) < MAX_NUM_PROCESSES
     THEN /\ ready_list # <<>>
          /\ WaitOnTimer(disastrOS_time + MQCycles)
          /\ syscall_retvalue' = [retvalues EXCEPT ![running'] = error]
     ELSE /\ Return(DSOS_ESLEEP)
          /\ UNCHANGED <<running, ready_list, waiting_list, timer_list, status>>
  /\ UNCHANGED <<machine, disastrOS_time, context, pcbVars, poolVars, zombie_list, mqVars>>

BlocksAlone ==
  /\ Runs
  /\ Len(timer_list) < MAX_NUM_PROCESSES
  /\ ready_list = <<>>
  /\ Stop("mq: nobody ready")
  /\ UNCHANGED mqVars

Queue(mqd) == messagequeues[descrittori[running][mqd]]

(* The tests that come before a send looks at the messages.                *)
SendError(mqd, msg_len) ==
  IF ~HasMqd(mqd) THEN DSOS_EMESSAGEQUEUECLOSE
  ELSE IF msg_len > Queue(mqd).msg_size THEN DSOS_EMESSAGESIZE
  ELSE IF Queue(mqd).max_msg = 0 THEN DSOS_EMESSAGESIZE
  ELSE NULL

MaySend(mqd, msg_len) == Runs /\ SendError(mqd, msg_len) = NULL

FullOffByOne(mqd) == Queue(mqd).msg_num > Queue(mqd).max_msg   \* mutant

Full(mqd) == Queue(mqd).msg_num = Queue(mqd).max_msg

SendRefused(mqd, msg_len) ==
  /\ Runs
  /\ SendError(mqd, msg_len) # NULL
  /\ Fails(SendError(mqd, msg_len))

SendBlocks(mqd, msg_len) ==
  /\ MaySend(mqd, msg_len)
  /\ Full(mqd)
  /\ Blocks(syscall_retvalue, DSOS_EMESSAGEQUEUEFULL)

Sends(mqd, msg_len) ==
  LET id == descrittori[running][mqd]
  IN  /\ MaySend(mqd, msg_len)
      /\ sent < MaxSends
      /\ ~Full(mqd)
      /\ message_free > 0
      /\ Answers(0)
      /\ messagequeues' = [messagequeues EXCEPT
                             ![id].messages = Append(@, sent + 1),
                             ![id].msg_num = @ + 1]
      /\ message_free' = message_free - 1
      /\ sent' = sent + 1
      /\ UNCHANGED <<descrittori, last_mqd, descrittore_free, received>>

SendDies(mqd, msg_len) ==
  /\ MaySend(mqd, msg_len)
  /\ \/ Full(mqd) /\ BlocksAlone
     \/ ~Full(mqd) /\ message_free = 0 /\ Stop("mq_send: no Message") /\ UNCHANGED mqVars

internal_mq_send(mqd, msg_len) ==
  \/ SendRefused(mqd, msg_len)
  \/ SendBlocks(mqd, msg_len)
  \/ Sends(mqd, msg_len)
  \/ SendDies(mqd, msg_len)

ReceiveError(mqd) ==
  IF ~HasMqd(mqd) THEN DSOS_EMESSAGEQUEUECLOSE
  ELSE IF Queue(mqd).max_msg = 0 THEN DSOS_EMESSAGESIZE
  ELSE NULL

MayReceive(mqd) == Runs /\ ReceiveError(mqd) = NULL

ReceiveRefused(mqd) ==
  /\ Runs
  /\ ReceiveError(mqd) # NULL
  /\ Fails(ReceiveError(mqd))

(* A buffer that is too short only sets the return value, and goes on.     *)
ReceiveBlocks(mqd, msg_len) ==
  /\ MayReceive(mqd)
  /\ Queue(mqd).msg_num = 0
  /\ Blocks(IF msg_len < Queue(mqd).msg_size
            THEN [syscall_retvalue EXCEPT ![running] = DSOS_EMESSAGESIZE]
            ELSE syscall_retvalue,
            DSOS_EMESSAGEQUEUEEMPTY)

Receives(mqd, msg_len) ==
  LET id == descrittori[running][mqd]
  IN  /\ MayReceive(mqd)
      /\ Queue(mqd).msg_num # 0
      /\ Answers(0)
      /\ messagequeues' = [messagequeues EXCEPT
                             ![id].messages = Tail(@),
                             ![id].msg_num = @ - 1]
      /\ received' = [received EXCEPT
                        ![running] = [from |-> id, number |-> Head(Queue(mqd).messages)]]
      /\ message_free' = message_free + 1
      /\ UNCHANGED <<descrittori, last_mqd, descrittore_free, sent>>

ReceiveDies(mqd) ==
  /\ MayReceive(mqd)
  /\ Queue(mqd).msg_num = 0
  /\ BlocksAlone

internal_mq_receive(mqd, msg_len) ==
  \/ ReceiveRefused(mqd)
  \/ ReceiveBlocks(mqd, msg_len)
  \/ Receives(mqd, msg_len)
  \/ ReceiveDies(mqd)

-----------------------------------------------------------------------------
(* The process calls, and what they do to descriptors: a new process has   *)
(* none, in a block that may have held some; an exit releases them only    *)
(* when the parent waits for it.                                           *)
NewDescrittori ==
  /\ descrittori' = [descrittori EXCEPT ![Head(pcb_pool)] = <<>>]
  /\ last_mqd' = [last_mqd EXCEPT ![Head(pcb_pool)] = 0]
  /\ received' = [received EXCEPT ![Head(pcb_pool)] = NULL]
  /\ UNCHANGED <<messagequeues, descrittore_free, message_free, sent>>

Opened(p, id) == {mqd \in DOMAIN descrittori[p] : descrittori[p][mqd] = id}

(* Mutant: the descriptors are unlinked but their blocks are not freed.    *)
ForgetDescrittori(p) ==
  /\ messagequeues' = [id \in DOMAIN messagequeues |->
                         [messagequeues[id] EXCEPT !.users = @ - Cardinality(Opened(p, id))]]
  /\ descrittori' = [descrittori EXCEPT ![p] = <<>>]
  /\ UNCHANGED <<last_mqd, descrittore_free, message_free, sent, received>>

ReleaseDescrittori(p) ==
  /\ messagequeues' = [id \in DOMAIN messagequeues |->
                         [messagequeues[id] EXCEPT !.users = @ - Cardinality(Opened(p, id))]]
  /\ descrittori' = [descrittori EXCEPT ![p] = <<>>]
  /\ descrittore_free' = descrittore_free + Cardinality(DOMAIN descrittori[p])
  /\ UNCHANGED <<last_mqd, message_free, sent, received>>

ProcessCall ==
  \/ (internal_spawn \/ internal_fork \/ Reboot) /\ NewDescrittori
  \/ ExitToParent /\ ReleaseDescrittori(running)
  \/ /\ \/ timerInterrupt
        \/ timerInterruptDies
        \/ RebootDies
        \/ internal_preempt
        \/ NewProcessDies
        \/ NoContext
        \/ \E q \in WaitPids : internal_wait(q)
        \/ ExitToReady
        \/ ExitDies
        \/ \E cycles \in SleepCycles : internal_sleep(cycles)
        \/ internal_shutdown
     /\ UNCHANGED mqVars

MessageQueueCall ==
  \/ \E id \in MQIds, type \in Types, size \in MsgSizes, max \in MaxMsgs, mode \in Modes :
       internal_mq_open(id, type, size, max, mode)
  \/ \E mqd \in 0 .. MaxMqd : internal_mq_close(mqd)
  \/ \E id \in MQIds : internal_mq_unlink(id)
  \/ \E mqd \in 0 .. MaxMqd, len \in MsgLens : internal_mq_send(mqd, len)
  \/ \E mqd \in 0 .. MaxMqd, len \in MsgLens : internal_mq_receive(mqd, len)

MQNext == ProcessCall \/ MessageQueueCall \/ (Ended /\ UNCHANGED mqVars)

MQSpec == MQInit /\ [][MQNext]_<<vars, mqVars>>

-----------------------------------------------------------------------------
MQTypeOK ==
  /\ TypeOK
  /\ DOMAIN messagequeues \subseteq MQIds
  /\ \A id \in DOMAIN messagequeues :
       messagequeues[id] \in [type : Types, msg_size : MsgSizes, max_msg : MaxMsgs,
                              msg_num : Int, users : Int, messages : Seq(1 .. MaxSends)]
  /\ \A p \in PCB : /\ DOMAIN descrittori[p] \subseteq 0 .. MaxMqd - 1
                    /\ \A mqd \in DOMAIN descrittori[p] : descrittori[p][mqd] \in MQIds
  /\ last_mqd \in [PCB -> 0 .. MaxMqd]
  /\ descrittore_free \in 0 .. MAX_NUM_PROCESSES
  /\ message_free \in 0 .. MAX_NUM_MESSAGES
  /\ sent \in 0 .. MaxSends
  /\ received \in [PCB -> [from : MQIds, number : 1 .. MaxSends] \cup {NULL}]

(* No descriptor dangles: a queue that a process has open is in the list,  *)
(* whoever unlinks it, and mqds keep naming the queue they were opened on  *)
(* (disastrOS_mq_unlink.c tests only the number of DescrittorePtrs).       *)
OpenQueuesExist ==
  \A p \in PCB \ ToSet(pcb_pool) : \A id \in MQIds :
    Opened(p, id) # {} =>
      Exists(id) /\ messagequeues[id].users >= Cardinality(Opened(p, id))

(* Descrittore blocks add up: the free ones and the users of the queues    *)
(* are together as many as there are, so none is freed twice, nor dropped  *)
(* by a failed open.  Among the users are blocks of processes that were    *)
(* reaped with queues open: those are lost to use, see UsersExist.         *)
DescrittoriAccounted ==
  descrittore_free + SumFunction([id \in DOMAIN messagequeues |-> messagequeues[id].users])
    = MAX_NUM_PROCESSES

(* Neither are Message blocks, though unlink counts them by msg_num, and   *)
(* send and receive keep msg_num and the list apart.                       *)
MessagesAccounted ==
  message_free
    + SumFunction([id \in DOMAIN messagequeues |-> Len(messagequeues[id].messages)])
    = MAX_NUM_MESSAGES

(* The queues implement bounded first-in-first-out channels: whoever sends *)
(* and receives, blocks in between, opens, closes and unlinks, a message   *)
(* comes out once and in its turn, none gets past max_msg unless that is   *)
(* negative, and a call that blocks has done nothing.                      *)
TheChannels == INSTANCE Channels WITH
  Ids <- MQIds, Capacities <- MaxMsgs, Readers <- PCB,
  channels <- [id \in DOMAIN messagequeues |->
                 [capacity |-> messagequeues[id].max_msg,
                  messages |-> messagequeues[id].messages]]

ImplementsChannels == TheChannels!Spec

-----------------------------------------------------------------------------
(* What the documentation says and the code does not keep.                 *)

(* README.md:10: a send or receive that fails returns a negative number;   *)
(* so does one that blocks, as it has moved no message when it returns.    *)
BlockedCallFails ==
  [][\A mqd \in 0 .. MaxMqd, len \in MsgLens :
       SendBlocks(mqd, len) \/ ReceiveBlocks(mqd, len)
         => syscall_retvalue'[running] < 0]_<<vars, mqVars>>

(* disastrOS_exit.c:85: the queues of a process are released upon its      *)
(* termination: a queue in use was opened by a process whose PCB was not   *)
(* freed since, so that it can be unlinked some day.                       *)
UsersExist ==
  \A id \in DOMAIN messagequeues :
    InUse(id) => \E p \in PCB \ ToSet(pcb_pool) : Opened(p, id) # {}
=============================================================================
