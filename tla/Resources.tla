------------------------------ MODULE Resources -----------------------------
(***************************************************************************)
(* The resources of disastrOS, on top of the processes that use them: open *)
(* (which also creates), close, destroy, and what boot, spawn and exit do  *)
(* to the descriptors of a process.                                        *)
(*                                                                         *)
(* A resource is named by its block in the pool, as the code's pointers    *)
(* do: the id of a block that was freed and handed out again is another    *)
(* one, and a descriptor that still pointed to it would not notice.  A     *)
(* descriptor is named by its process and fd.  Of the list of              *)
(* DescriptorPtr of a resource the code reads only the size, `users' here. *)
(* The Descriptor and DescriptorPtr pools have the same size and are used  *)
(* in step, so one number stands for both.                                 *)
(***************************************************************************)
EXTENDS Processes

CONSTANTS
  MAX_NUM_RESOURCES,     \* size of the Resource pool
  OpenArgs,              \* the pairs of id and type that open is called with
  OpenModes,             \* and the modes
  MaxFd                  \* bound: a process opens at most MaxFd times

ASSUME ResourcesAssumption ==
  /\ MAX_NUM_RESOURCES \in Nat
  /\ OpenArgs \subseteq Int \X Int
  /\ MaxFd \in Nat

Resource == 0 .. MAX_NUM_RESOURCES - 1
ResourceIds == {arg[1] : arg \in OpenArgs}

VARIABLES
  resource_pool,      \* free Resource blocks, the next one to be handed out first
  resources_list,     \* the blocks in the list, in its order
  res,                \* the fields id, type and users of each block
  descriptors,        \* the open descriptors of each process: fd to block
  last_fd,            \* the next fd of each process
  descriptor_free     \* number of free Descriptor blocks

resourceVars == <<resource_pool, resources_list, res, descriptors, last_fd, descriptor_free>>
processVars == <<machine, disastrOS_time, context, pcbVars, poolVars, schedVars>>

DSOS_ERESOURCECREATE == -8
DSOS_ERESOURCEOPEN   == -9
DSOS_ERESOURCENOEXCL == -10
DSOS_ERESOURCENOFD   == -11
DSOS_ERESOURCECLOSE  == -12
DSOS_ERESOURCEINUSE  == -13

(* The blocks are the zeroes of a static buffer.                           *)
ResourcesInit ==
  /\ Init
  /\ resource_pool = [i \in 1 .. MAX_NUM_RESOURCES |-> i - 1]
  /\ resources_list = <<>>
  /\ res = [r \in Resource |-> [id |-> 0, type |-> 0, users |-> 0]]
  /\ descriptors = [p \in PCB |-> <<>>]
  /\ last_fd = [p \in PCB |-> 0]
  /\ descriptor_free = MAX_NUM_PROCESSES

(* A call that ends at once and changes nothing but resources.             *)
Answers(value) ==
  /\ Trap(NULL)
  /\ Return(value)
  /\ UNCHANGED processVars

Fails(error) == Answers(error) /\ UNCHANGED resourceVars

-----------------------------------------------------------------------------
(* open *)

(* The first block in the list that has the id, NULL when there is none.   *)
ResourceList_byId(id) ==
  LET i == SelectInSeq(resources_list, LAMBDA r : res[r].id = id)
  IN  IF i = 0 THEN NULL ELSE resources_list[i]

Creates(mode) == DSOS_CREATE \in mode

(* What is tested before a descriptor is asked for.                        *)
OpenError(id, type, mode) ==
  LET r == ResourceList_byId(id)
  IN  IF Creates(mode) THEN IF r # NULL THEN DSOS_ERESOURCECREATE ELSE NULL
      ELSE IF r = NULL THEN DSOS_ERESOURCEOPEN
      ELSE IF res[r].type # type THEN DSOS_ERESOURCEOPEN
      ELSE IF DSOS_EXCL \in mode /\ res[r].users > 0 THEN DSOS_ERESOURCENOEXCL
      ELSE NULL

OpenRefused(id, type, mode) ==
  /\ OpenError(id, type, mode) # NULL
  /\ Fails(OpenError(id, type, mode))

NoBlock(mode) == Creates(mode) /\ resource_pool = <<>>

(* An open gets past the tests: a resource to be created is taken from the *)
(* pool and put in the list, with the users it will have.                  *)
Gets(id, type, mode, users) ==
  /\ OpenError(id, type, mode) = NULL
  /\ ~NoBlock(mode)
  /\ IF Creates(mode)
     THEN /\ resource_pool' = Tail(resource_pool)
          /\ resources_list' = Append(resources_list, Head(resource_pool))
          /\ res' = [res EXCEPT ![Head(resource_pool)] =
                       [id |-> id, type |-> type, users |-> users]]
     ELSE /\ UNCHANGED <<resource_pool, resources_list>>
          /\ res' = [res EXCEPT ![ResourceList_byId(id)].users = @ + users]

(* Without a descriptor the open fails, but a resource it created stays.   *)
OpenWithoutDescriptor(id, type, mode) ==
  /\ descriptor_free = 0
  /\ Gets(id, type, mode, 0)
  /\ Answers(DSOS_ERESOURCENOFD)
  /\ UNCHANGED <<descriptors, last_fd, descriptor_free>>

Opens(id, type, mode) ==
  LET fd == last_fd[running]
      r  == IF Creates(mode) THEN Head(resource_pool) ELSE ResourceList_byId(id)
  IN  /\ Answers(fd)
      /\ fd < MaxFd
      /\ descriptor_free > 0
      /\ Gets(id, type, mode, 1)
      /\ descriptors' = [descriptors EXCEPT ![running] = With(@, fd, r)]
      /\ last_fd' = [last_fd EXCEPT ![running] = fd + 1]
      /\ descriptor_free' = descriptor_free - 1

(* The list insertion follows the null pointer of the empty pool.          *)
OpenDies(id, type, mode) ==
  /\ Runs
  /\ OpenError(id, type, mode) = NULL
  /\ NoBlock(mode)
  /\ Stop("open_resource: no Resource")
  /\ UNCHANGED resourceVars

internal_openResource(id, type, mode) ==
  \/ OpenRefused(id, type, mode)
  \/ OpenWithoutDescriptor(id, type, mode)
  \/ Opens(id, type, mode)
  \/ OpenDies(id, type, mode)

-----------------------------------------------------------------------------
(* close and destroy *)

HasFd(fd) == fd \in DOMAIN descriptors[running]

CloseUnknown(fd) == Fails(DSOS_ERESOURCECLOSE) /\ ~HasFd(fd)

(* Mutant: the DescriptorPtr of the oldest descriptor is taken, whatever   *)
(* resource that one is on.                                                *)
ClosesOldest(fd) ==
  /\ Answers(0)
  /\ HasFd(fd)
  /\ res' = [res EXCEPT ![descriptors[running][Min(DOMAIN descriptors[running])]].users = @ - 1]
  /\ descriptors' = [descriptors EXCEPT ![running] = Without(@, fd)]
  /\ descriptor_free' = descriptor_free + 1
  /\ UNCHANGED <<resource_pool, resources_list, last_fd>>

Closes(fd) ==
  /\ Answers(0)
  /\ HasFd(fd)
  /\ res' = [res EXCEPT ![descriptors[running][fd]].users = @ - 1]
  /\ descriptors' = [descriptors EXCEPT ![running] = Without(@, fd)]
  /\ descriptor_free' = descriptor_free + 1
  /\ UNCHANGED <<resource_pool, resources_list, last_fd>>

internal_closeResource(fd) == CloseUnknown(fd) \/ Closes(fd)

DestroyUnknown(id) == ResourceList_byId(id) = NULL /\ Fails(DSOS_ERESOURCECLOSE)

(* Mutant: only the caller's own descriptors are looked at.                *)
InUseByCaller(r) ==
  \E p \in PCB : p = running /\ \E fd \in DOMAIN descriptors[p] : descriptors[p][fd] = r

InUse(r) == res[r].users > 0

DestroyInUse(id) ==
  /\ ResourceList_byId(id) # NULL
  /\ InUse(ResourceList_byId(id))
  /\ Fails(DSOS_ERESOURCEINUSE)

(* Mutant: the block is given back but stays in the list.                  *)
DestroysListed(id) ==
  LET r == ResourceList_byId(id)
  IN  /\ Answers(0)
      /\ r # NULL
      /\ ~InUse(r)
      /\ UNCHANGED resources_list
      /\ resource_pool' = Cons(r, resource_pool)
      /\ UNCHANGED <<res, descriptors, last_fd, descriptor_free>>

Destroys(id) ==
  LET r == ResourceList_byId(id)
  IN  /\ Answers(0)
      /\ r # NULL
      /\ ~InUse(r)
      /\ resources_list' = Detach(resources_list, r)
      /\ resource_pool' = Cons(r, resource_pool)
      /\ UNCHANGED <<res, descriptors, last_fd, descriptor_free>>

internal_destroyResource(id) == DestroyUnknown(id) \/ DestroyInUse(id) \/ Destroys(id)

-----------------------------------------------------------------------------
(* The process calls, and what they do to descriptors: a new process has   *)
(* none, in a block that may have held some; an exit releases them only    *)
(* when the parent waits for it.                                           *)
NewDescriptors ==
  /\ descriptors' = [descriptors EXCEPT ![Head(pcb_pool)] = <<>>]
  /\ last_fd' = [last_fd EXCEPT ![Head(pcb_pool)] = 0]
  /\ UNCHANGED <<resource_pool, resources_list, res, descriptor_free>>

FdsOn(p, r) == {fd \in DOMAIN descriptors[p] : descriptors[p][fd] = r}

(* Mutant: one descriptor is released, an `if' where the code has `while'. *)
ReleaseOneDescriptor(p) ==
  LET fds == DOMAIN descriptors[p]
  IN  IF fds = {} THEN UNCHANGED resourceVars
      ELSE /\ res' = [res EXCEPT ![descriptors[p][Min(fds)]].users = @ - 1]
           /\ descriptors' = [descriptors EXCEPT ![p] = <<>>]
           /\ descriptor_free' = descriptor_free + Cardinality(fds)
           /\ UNCHANGED <<resource_pool, resources_list, last_fd>>

ReleaseDescriptors(p) ==
  /\ res' = [r \in Resource |-> [res[r] EXCEPT !.users = @ - Cardinality(FdsOn(p, r))]]
  /\ descriptors' = [descriptors EXCEPT ![p] = <<>>]
  /\ descriptor_free' = descriptor_free + Cardinality(DOMAIN descriptors[p])
  /\ UNCHANGED <<resource_pool, resources_list, last_fd>>

ProcessCall ==
  \/ (internal_spawn \/ Reboot) /\ NewDescriptors
  \/ ExitToParent /\ ReleaseDescriptors(running)
  \/ /\ \/ timerInterrupt
        \/ timerInterruptDies
        \/ RebootDies
        \/ internal_preempt
        \/ NewProcessDies
        \/ \E q \in WaitPids : internal_wait(q)
        \/ ExitToReady
        \/ ExitDies
        \/ \E cycles \in SleepCycles : internal_sleep(cycles)
        \/ internal_shutdown
     /\ UNCHANGED resourceVars

ResourceCall ==
  \/ \E arg \in OpenArgs, mode \in OpenModes : internal_openResource(arg[1], arg[2], mode)
  \/ \E fd \in 0 .. MaxFd : internal_closeResource(fd)
  \/ \E id \in ResourceIds : internal_destroyResource(id)

ResourcesNext == ProcessCall \/ ResourceCall \/ (Ended /\ UNCHANGED resourceVars)

ResourcesSpec == ResourcesInit /\ [][ResourcesNext]_<<vars, resourceVars>>

-----------------------------------------------------------------------------
ResourcesTypeOK ==
  /\ TypeOK
  /\ resource_pool \in Seq(Resource)
  /\ resources_list \in Seq(Resource)
  /\ res \in [Resource -> [id : Int, type : Int, users : Nat]]
  /\ \A p \in PCB : /\ DOMAIN descriptors[p] \subseteq 0 .. MaxFd - 1
                    /\ \A fd \in DOMAIN descriptors[p] : descriptors[p][fd] \in Resource
  /\ last_fd \in [PCB -> 0 .. MaxFd]
  /\ descriptor_free \in 0 .. MAX_NUM_PROCESSES

(* A Resource block is in the list or in the pool, once, whatever is       *)
(* created, destroyed, or created by an open that fails afterwards         *)
(* (disastrOS_open_resource.c:53).                                         *)
ResourcesAccounted ==
  /\ IsInjective(resources_list \o resource_pool)
  /\ ToSet(resources_list \o resource_pool) = Resource

(* No descriptor dangles: the resource that a process has open is in the   *)
(* list, and counts each of the process's descriptors among its users, so  *)
(* that nobody can destroy it (disastrOS_destroy_resource.c:25).           *)
OpenResourcesListed ==
  \A r \in Resource :
    /\ r \notin ToSet(resources_list) => res[r].users = 0
    /\ SumFunctionOnSet([p \in PCB |-> Cardinality(FdsOn(p, r))], PCB \ ToSet(pcb_pool))
         <= res[r].users

(* Descriptor blocks add up: the free ones and the users of the resources  *)
(* are together as many as there are, so none is freed twice, nor dropped  *)
(* by a failed open.  Among the users are blocks of processes that were    *)
(* reaped with resources open: those are lost to use (disastrOS_exit.c:99).*)
DescriptorsAccounted ==
  descriptor_free + SumFunction([r \in Resource |-> res[r].users]) = MAX_NUM_PROCESSES

(* An fd names the resource it was opened on until it is closed, although  *)
(* Resource blocks and ids are used again: id and type stay what they were *)
(* at the open, whatever other processes create and destroy.               *)
FdsKeepTheirResource ==
  [][\A p \in PCB \ ToSet(pcb_pool) : \A fd \in DOMAIN descriptors[p] \cap DOMAIN descriptors'[p] :
       LET r == descriptors[p][fd]
       IN  /\ descriptors'[p][fd] = r
           /\ res'[r].id = res[r].id
           /\ res'[r].type = res[r].type]_<<vars, resourceVars>>
=============================================================================
