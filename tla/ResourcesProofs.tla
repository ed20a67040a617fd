--------------------------- MODULE ResourcesProofs --------------------------
(***************************************************************************)
(* Proofs about resources and descriptors: no block is lost or used twice, *)
(* no descriptor dangles and an fd keeps its resource, for any number of   *)
(* PCBs, resources, ids and fds.                                           *)
(***************************************************************************)
EXTENDS Resources, ProcessesProofs

ResourcesTyped ==
  /\ resource_pool \in Seq(Resource)
  /\ resources_list \in Seq(Resource)
  /\ res \in [Resource -> [id : Int, type : Int, users : Nat]]
  /\ descriptors \in [PCB -> Tables(MaxFd, Resource)]
  /\ last_fd \in [PCB -> 0 .. MaxFd]
  /\ descriptor_free \in Nat
  /\ \A p \in PCB : \A fd \in DOMAIN descriptors[p] : fd < last_fd[p]

Accounted ==
  /\ ResourcesTyped
  /\ ResourcesAccounted
  /\ OpenResourcesListed
  /\ DescriptorsAccounted

(* The accounts are inductive together, and with the placement of the      *)
(* processes: a close finds a user to take away because the processes in   *)
(* use hold no more descriptors than the resource counts users, a block    *)
(* that is created had none because it was not in the list, and the fd     *)
(* that an open hands out is new because it is above all others.           *)
RInv == IInv /\ Accounted

Live == PCB \ ToSet(pcb_pool)

UserCount == [r \in Resource |-> res[r].users]

LEMMA ResourcesFinite == IsFiniteSet(Resource) /\ Resource \subseteq Int /\ NULL \notin Resource
<1>. DEFINE n == MAX_NUM_RESOURCES - 1
<1>1. n \in Int /\ 0 \in Int
  BY ResourcesAssumption
<1>2. IsFiniteSet(0 .. n)
  <2>. HIDE DEF n
  <2>. QED  BY <1>1, FS_Interval
<1>. QED  BY <1>2, KernelAssumption DEF Resource

(* What the invariants say, in the terms of the lemmas on accounts.        *)
LEMMA Accounts ==
  /\ OpenResourcesListed <=>
       \A r \in Resource : /\ r \notin ToSet(resources_list) => res[r].users = 0
                           /\ Held(descriptors, Live, r) <= res[r].users
  /\ DescriptorsAccounted <=>
       descriptor_free + SumFunctionOnSet(UserCount, Resource) = MAX_NUM_PROCESSES
BY DEF OpenResourcesListed, DescriptorsAccounted, Held, Entries, FdsOn, Live, UserCount, SumFunction

LEMMA AccountsAfter ==
  /\ OpenResourcesListed' <=>
       \A r \in Resource : /\ r \notin ToSet(resources_list') => res'[r].users = 0
                           /\ Held(descriptors', Live', r) <= res'[r].users
  /\ DescriptorsAccounted' <=>
       descriptor_free' + SumFunctionOnSet(UserCount', Resource) = MAX_NUM_PROCESSES
BY DEF OpenResourcesListed, DescriptorsAccounted, Held, Entries, FdsOn, Live, UserCount, SumFunction

LEMMA UsersTyped ==
  ASSUME ResourcesTyped
  PROVE  /\ \A r \in Resource : UserCount[r] = res[r].users /\ UserCount[r] \in Nat
         /\ SumFunctionOnSet(UserCount, Resource) \in Nat
<1>1. \A r \in Resource : UserCount[r] = res[r].users /\ UserCount[r] \in Nat
  BY DEF ResourcesTyped, UserCount
<1>2. SumFunctionOnSet(UserCount, Resource) \in Nat
  BY <1>1, ResourcesFinite, SumType
<1>. QED  BY <1>1, <1>2

(* The users of one resource change.                                       *)
LEMMA UsersChange ==
  ASSUME ResourcesTyped, NEW x \in Resource,
         \A r \in Resource : res'[r].users \in Nat,
         \A r \in Resource \ {x} : res'[r].users = res[r].users
  PROVE  SumFunctionOnSet(UserCount', Resource)
           = SumFunctionOnSet(UserCount, Resource) - res[x].users + res'[x].users
<1>. DEFINE f == UserCount
            g == UserCount'
<1>1. \A r \in Resource : f[r] = res[r].users /\ f[r] \in Nat
  BY UsersTyped
<1>2. \A r \in Resource : g[r] = res'[r].users /\ g[r] \in Nat
  BY DEF UserCount
<1>3. \A r \in Resource \ {x} : g[r] = f[r]
  BY <1>1, <1>2
<1>. HIDE DEF f, g
<1>4. SumFunctionOnSet(g, Resource) = SumFunctionOnSet(f, Resource) - f[x] + g[x]
  <2>1. \A r \in Resource : f[r] \in Nat /\ g[r] \in Nat
    BY <1>1, <1>2
  <2>2. IsFiniteSet(Resource)
    BY ResourcesFinite
  <2>. QED  BY <1>3, <2>1, <2>2, SumUpdate
<1>. QED  BY <1>1, <1>2, <1>4 DEF f, g

(* The resource that an id is looked up to is in the list.                 *)
LEMMA FoundById ==
  ASSUME ResourcesTyped, NEW id, ResourceList_byId(id) # NULL
  PROVE  ResourceList_byId(id) \in ToSet(resources_list) /\ ResourceList_byId(id) \in Resource
<1>. DEFINE I == {i \in 1 .. Len(resources_list) : res[resources_list[i]].id = id}
<1>1. \A i \in 1 .. Len(resources_list) :
        resources_list[i] \in ToSet(resources_list) /\ resources_list[i] \in Resource
  BY Members DEF ResourcesTyped
<1>2. I # {}
  BY DEF ResourceList_byId, SelectInSeq
<1>3. Min(I) \in I
  <2>1. I \in SUBSET Nat
    OBVIOUS
  <2>. HIDE DEF I
  <2>. QED  BY <1>2, <2>1, FirstPosition
<1>4. Min(I) # 0
  BY <1>3
<1>5. ResourceList_byId(id) = resources_list[Min(I)]
  BY <1>2, <1>4 DEF ResourceList_byId, SelectInSeq
<1>. QED  BY <1>1, <1>3, <1>5

-----------------------------------------------------------------------------
(* The process calls.                                                      *)

(* A call that leaves resources alone, and puts no process to use.         *)
LEMMA SameAccounts ==
  ASSUME RInv, UNCHANGED resourceVars, Live' \subseteq Live
  PROVE  Accounted'
<1>. USE DEF resourceVars
<1>1. ResourcesTyped' /\ ResourcesAccounted'
  BY DEF RInv, Accounted, ResourcesTyped, ResourcesAccounted
<1>2. OpenResourcesListed'
  <2>1. ASSUME NEW r \in Resource
        PROVE  /\ r \notin ToSet(resources_list) => res[r].users = 0
               /\ Held(descriptors, Live', r) <= res[r].users
    <3>1. /\ r \notin ToSet(resources_list) => res[r].users = 0
          /\ Held(descriptors, Live, r) <= res[r].users
      BY Accounts DEF RInv, Accounted
    <3>2. /\ MaxFd \in Nat
          /\ descriptors \in [PCB -> Tables(MaxFd, Resource)]
          /\ res[r].users \in Nat
      BY ResourcesAssumption DEF RInv, Accounted, ResourcesTyped
    <3>3. Live \in SUBSET PCB /\ Live' \in SUBSET PCB /\ Live' \in SUBSET Live
      BY DEF Live
    <3>4. /\ Held(descriptors, Live', r) <= Held(descriptors, Live, r)
          /\ Held(descriptors, Live', r) \in Nat
          /\ Held(descriptors, Live, r) \in Nat
      BY <3>2, <3>3, HeldFewer, HeldType
    <3>. QED  BY <3>1, <3>2, <3>4
  <2>. QED  BY <2>1, AccountsAfter
<1>3. DescriptorsAccounted'
  BY DEF RInv, Accounted, DescriptorsAccounted
<1>. QED  BY <1>1, <1>2, <1>3 DEF Accounted

(* Boot and spawn: the new process gets an empty table, whatever the block *)
(* held before.                                                            *)
LEMMA NewDescriptorsAccounted ==
  ASSUME RInv, Reboot \/ NewProcess, NewDescriptors
  PROVE  Accounted'
<1>. DEFINE new == Head(pcb_pool)
<1>1. /\ new \in PCB /\ new \notin Live /\ Live \in SUBSET PCB
      /\ Live' = Live \cup {new}
  BY NewBlock DEF RInv, Live
<1>2. /\ descriptors' = [descriptors EXCEPT ![new] = <<>>]
      /\ last_fd' = [last_fd EXCEPT ![new] = 0]
      /\ UNCHANGED <<resource_pool, resources_list, res, descriptor_free>>
  BY DEF NewDescriptors
<1>3. MaxFd \in Nat /\ descriptors \in [PCB -> Tables(MaxFd, Resource)]
  BY ResourcesAssumption DEF RInv, Accounted, ResourcesTyped
<1>. HIDE DEF new
<1>4. ResourcesTyped'
  <2>1. <<>> \in Tables(MaxFd, Resource) /\ DOMAIN <<>> = {}
    BY <1>3, EmptyTable
  <2>2. descriptors' \in [PCB -> Tables(MaxFd, Resource)]
    BY <1>2, <1>3, <2>1
  <2>3. last_fd' \in [PCB -> 0 .. MaxFd]
    <3>1. 0 \in 0 .. MaxFd /\ last_fd \in [PCB -> 0 .. MaxFd]
      BY <1>3 DEF RInv, Accounted, ResourcesTyped
    <3>. QED  BY <1>2, <3>1
  <2>4. \A p \in PCB : \A fd \in DOMAIN descriptors'[p] : fd < last_fd'[p]
    BY <1>1, <1>2, <1>3, <2>1 DEF RInv, Accounted, ResourcesTyped
  <2>. QED  BY <1>2, <2>2, <2>3, <2>4 DEF RInv, Accounted, ResourcesTyped
<1>5. ResourcesAccounted'
  BY <1>2 DEF RInv, Accounted, ResourcesAccounted
<1>6. OpenResourcesListed'
  <2>1. \A r \in Resource : Held(descriptors', Live', r) = Held(descriptors, Live, r)
    <3>1. /\ descriptors' \in [PCB -> Tables(MaxFd, Resource)]
          /\ descriptors'[new] = <<>>
          /\ \A q \in PCB \ {new} : descriptors'[q] = descriptors[q]
      BY <1>1, <1>2, <1>3, <1>4 DEF ResourcesTyped
    <3>2. \A r \in Resource :
            Held(descriptors', Live \cup {new}, r) = Held(descriptors, Live, r)
      BY <1>1, <1>3, <3>1, HeldNew
    <3>. QED  BY <1>1, <3>2
  <2>. QED  BY <1>2, <2>1, Accounts, AccountsAfter DEF RInv, Accounted
<1>7. DescriptorsAccounted'
  BY <1>2 DEF RInv, Accounted, DescriptorsAccounted
<1>. QED  BY <1>4, <1>5, <1>6, <1>7 DEF Accounted

(* An exit to a waiting parent: the users that the process was are taken   *)
(* away from each resource, and its descriptors go back to the pool.       *)
LEMMA ReleaseAccounted ==
  ASSUME RInv, ExitToParent, ReleaseDescriptors(running)
  PROVE  Accounted'
<1>. DEFINE t == descriptors[running]
            n(r) == Cardinality(Entries(t, r))
<1>1. /\ running \in Live /\ running \in PCB /\ Live \in SUBSET PCB
      /\ Live' = Live \ {running}
  <2>1. Runs
    BY DEF ExitToParent, Exiting, Trap
  <2>. QED  BY <2>1, RunningInUse, ExitFreesBlock DEF RInv, Live
<1>2. /\ res' = [r \in Resource |-> [res[r] EXCEPT !.users = @ - n(r)]]
      /\ descriptors' = [descriptors EXCEPT ![running] = <<>>]
      /\ descriptor_free' = descriptor_free + Cardinality(DOMAIN t)
      /\ UNCHANGED <<resource_pool, resources_list, last_fd>>
  BY DEF ReleaseDescriptors, FdsOn, Entries
<1>3. /\ MaxFd \in Nat
      /\ descriptors \in [PCB -> Tables(MaxFd, Resource)]
      /\ t \in Tables(MaxFd, Resource)
      /\ res \in [Resource -> [id : Int, type : Int, users : Nat]]
  BY <1>1, ResourcesAssumption DEF RInv, Accounted, ResourcesTyped
<1>4. /\ IsFiniteSet(DOMAIN t) /\ Cardinality(DOMAIN t) \in Nat
      /\ \A fd \in DOMAIN t : t[fd] \in Resource
      /\ \A r \in Resource : n(r) \in Nat
  BY <1>3, TableFinite
<1>5. \A r \in Resource : n(r) <= res[r].users
  <2>1. \A r \in Resource : /\ Held(descriptors, Live, r) \in Nat
                            /\ n(r) <= Held(descriptors, Live, r)
    BY <1>1, <1>3, HeldType
  <2>2. \A r \in Resource : Held(descriptors, Live, r) <= res[r].users
    BY Accounts DEF RInv, Accounted
  <2>3. \A r \in Resource : res[r].users \in Nat
    BY <1>3
  <2>. HIDE DEF n
  <2>. QED  BY <1>4, <2>1, <2>2, <2>3
<1>. HIDE DEF n
<1>6. \A r \in Resource : /\ res'[r].users = res[r].users - n(r)
                          /\ res'[r] \in [id : Int, type : Int, users : Nat]
  <2>1. ASSUME NEW r \in Resource
        PROVE  /\ res'[r].users = res[r].users - n(r)
               /\ res'[r] \in [id : Int, type : Int, users : Nat]
    <3>1. /\ res[r] \in [id : Int, type : Int, users : Nat]
          /\ res'[r] = [res[r] EXCEPT !.users = @ - n(r)]
      BY <1>2, <1>3
    <3>2. res[r].users - n(r) \in Nat
      BY <1>4, <1>5, <3>1
    <3>. QED  BY <3>1, <3>2
  <2>. QED  BY <2>1
<1>7. /\ descriptors' \in [PCB -> Tables(MaxFd, Resource)]
      /\ descriptors'[running] = <<>>
      /\ \A q \in PCB \ {running} : descriptors'[q] = descriptors[q]
  <2>1. <<>> \in Tables(MaxFd, Resource)
    BY <1>3, EmptyTable
  <2>. QED  BY <1>1, <1>2, <1>3, <2>1
<1>8. ResourcesTyped'
  <2>1. res' \in [Resource -> [id : Int, type : Int, users : Nat]]
    BY <1>2, <1>6
  <2>2. descriptor_free' \in Nat
    BY <1>2, <1>4 DEF RInv, Accounted, ResourcesTyped
  <2>3. \A p \in PCB : \A fd \in DOMAIN descriptors'[p] : fd < last_fd'[p]
    <3>1. DOMAIN <<>> = {}
      OBVIOUS
    <3>. QED  BY <1>2, <1>7, <3>1 DEF RInv, Accounted, ResourcesTyped
  <2>. QED  BY <1>2, <1>7, <2>1, <2>2, <2>3 DEF RInv, Accounted, ResourcesTyped
<1>9. ResourcesAccounted'
  BY <1>2 DEF RInv, Accounted, ResourcesAccounted
<1>10. OpenResourcesListed'
  <2>1. ASSUME NEW r \in Resource
        PROVE  /\ r \notin ToSet(resources_list') => res'[r].users = 0
               /\ Held(descriptors', Live', r) <= res'[r].users
    <3>1. Held(descriptors', Live', r) = Held(descriptors, Live, r) - n(r)
      <4>1. /\ running \in Live /\ Live \in SUBSET PCB /\ Live' = Live \ {running}
            /\ \A q \in PCB \ {running} : descriptors'[q] = descriptors[q]
        BY <1>1, <1>7
      <4>2. /\ MaxFd \in Nat
            /\ descriptors \in [PCB -> Tables(MaxFd, Resource)]
            /\ descriptors' \in [PCB -> Tables(MaxFd, Resource)]
        BY <1>3, <1>7
      <4>3. \A v : Held(descriptors', Live', v)
                    = Held(descriptors, Live, v) - Cardinality(Entries(descriptors[running], v))
        BY <4>1, <4>2, HeldGone
      <4>. QED  BY <4>3 DEF n
    <3>2. Held(descriptors, Live, r) \in Nat
      BY <1>1, <1>3, HeldType
    <3>3. /\ r \notin ToSet(resources_list) => res[r].users = 0
          /\ Held(descriptors, Live, r) <= res[r].users
      BY Accounts DEF RInv, Accounted
    <3>4. /\ res[r].users \in Nat /\ n(r) \in Nat /\ n(r) <= res[r].users
          /\ res'[r].users = res[r].users - n(r)
      BY <1>3, <1>4, <1>5, <1>6
    <3>. QED  BY <1>2, <3>1, <3>2, <3>3, <3>4
  <2>. QED  BY <2>1, AccountsAfter
<1>11. DescriptorsAccounted'
  <2>. DEFINE f == UserCount'
              g == [r \in Resource |-> n(r)]
              h == UserCount
  <2>1. SumFunctionOnSet(g, Resource) = Cardinality(DOMAIN t)
    <3>1. \A r \in Resource : g[r] = Cardinality(Entries(t, r))
      BY DEF n
    <3>2. IsFiniteSet(Resource)
      BY ResourcesFinite
    <3>. HIDE DEF g, t
    <3>. QED  BY <1>4, <3>1, <3>2, SumOfEntries
  <2>2. \A r \in Resource : /\ f[r] = res'[r].users /\ g[r] = n(r)
                            /\ h[r] = res[r].users
    BY DEF UserCount
  <2>3. \A r \in Resource : f[r] \in Nat /\ g[r] \in Nat /\ h[r] = f[r] + g[r]
    <3>. HIDE DEF f, g, h
    <3>1. \A r \in Resource : res[r].users \in Nat /\ res'[r].users \in Nat /\ n(r) \in Nat
      BY <1>3, <1>4, <1>6
    <3>. QED  BY <1>6, <2>2, <3>1
  <2>4. SumFunctionOnSet(h, Resource)
          = SumFunctionOnSet(f, Resource) + SumFunctionOnSet(g, Resource)
    <3>1. IsFiniteSet(Resource)
      BY ResourcesFinite
    <3>. HIDE DEF f, g, h
    <3>. QED  BY <2>3, <3>1, SumOfSums
  <2>5. SumFunctionOnSet(f, Resource) \in Nat
    <3>1. IsFiniteSet(Resource)
      BY ResourcesFinite
    <3>. HIDE DEF f, g, h
    <3>. QED  BY <2>3, <3>1, SumType
  <2>6. descriptor_free + SumFunctionOnSet(h, Resource) = MAX_NUM_PROCESSES
        /\ descriptor_free \in Nat /\ MAX_NUM_PROCESSES \in Nat
    BY Accounts, KernelAssumption DEF RInv, Accounted, ResourcesTyped
  <2>7. descriptor_free' + SumFunctionOnSet(f, Resource) = MAX_NUM_PROCESSES
    <3>. HIDE DEF f, g, h, t
    <3>. QED  BY <1>2, <1>4, <2>1, <2>4, <2>5, <2>6
  <2>. QED  BY <2>7, AccountsAfter
<1>. QED  BY <1>8, <1>9, <1>10, <1>11 DEF Accounted

-----------------------------------------------------------------------------
(* The calls on resources.                                                 *)

LEMMA ListsShareBlocks ==
  ASSUME ResourcesTyped
  PROVE  ResourcesAccounted <=>
           /\ IsInjective(resources_list) /\ IsInjective(resource_pool)
           /\ ToSet(resources_list) \cap ToSet(resource_pool) = {}
           /\ ToSet(resources_list) \cup ToSet(resource_pool) = Resource
<1>1. resources_list \in Seq(Resource) /\ resource_pool \in Seq(Resource)
  BY DEF ResourcesTyped
<1>2. ToSet(resources_list \o resource_pool) = ToSet(resources_list) \cup ToSet(resource_pool)
  BY <1>1, Concatenate
<1>3. IsInjective(resources_list \o resource_pool)
        <=> /\ IsInjective(resources_list) /\ IsInjective(resource_pool)
            /\ ToSet(resources_list) \cap ToSet(resource_pool) = {}
  BY <1>1, ConcatenateInjective
<1>. QED  BY <1>2, <1>3 DEF ResourcesAccounted

LEMMA ListsShareBlocksAfter ==
  ASSUME resources_list' \in Seq(Resource), resource_pool' \in Seq(Resource),
         IsInjective(resources_list'), IsInjective(resource_pool'),
         ToSet(resources_list') \cap ToSet(resource_pool') = {},
         ToSet(resources_list') \cup ToSet(resource_pool') = Resource
  PROVE  ResourcesAccounted'
<1>. DEFINE both == resources_list' \o resource_pool'
<1>1. ToSet(both) = ToSet(resources_list') \cup ToSet(resource_pool')
  BY Concatenate
<1>2. IsInjective(both)
  BY ConcatenateInjective
<1>. QED  BY <1>1, <1>2 DEF ResourcesAccounted

(* A call that answers leaves the processes where they are.                *)
LEMMA Answered ==
  ASSUME RInv, NEW value \in Int, Answers(value)
  PROVE  /\ IInv'
         /\ running \in Live /\ running \in PCB /\ Live \in SUBSET PCB /\ Live' = Live
<1>1. Runs
  BY DEF Answers, Trap
<1>2. running \in PCB \ ToSet(pcb_pool)
  BY <1>1, RunningInUse DEF RInv
<1>3. /\ wait_arg' = [wait_arg EXCEPT ![running] = NULL]
      /\ syscall_retvalue' = [syscall_retvalue EXCEPT ![running] = value]
      /\ UNCHANGED <<machine, disastrOS_time, context, pcbVars, poolVars, schedVars>>
  BY DEF Answers, Trap, Return, processVars
<1>4. syscall_retvalue' \in [PCB -> Int]
  BY <1>2, <1>3 DEF RInv, IInv, TypeOK
<1>5. IInv'
  BY <1>2, <1>3, <1>4, AnswerIInv DEF RInv
<1>. QED  BY <1>2, <1>3, <1>5 DEF Live, poolVars

(* The block that an open works on: the one it takes from the pool, which  *)
(* had no users, or the one it finds in the list.                          *)
Opened(id, mode) == IF Creates(mode) THEN Head(resource_pool) ELSE ResourceList_byId(id)

LEMMA OpenedBlock ==
  ASSUME RInv, NEW id \in Int, NEW type \in Int, NEW mode, NEW users \in Nat,
         Gets(id, type, mode, users)
  PROVE  LET r == Opened(id, mode)
         IN  /\ r \in Resource
             /\ resource_pool' \in Seq(Resource) /\ resources_list' \in Seq(Resource)
             /\ ToSet(resources_list') = ToSet(resources_list) \cup {r}
             /\ ResourcesAccounted'
             /\ res' \in [Resource -> [id : Int, type : Int, users : Nat]]
             /\ res'[r].users = res[r].users + users
             /\ \A q \in Resource \ {r} : res'[q] = res[q]
             /\ \A q \in ToSet(resources_list) : res'[q].id = res[q].id
                                                /\ res'[q].type = res[q].type
<1>. DEFINE r == Opened(id, mode)
<1>1. /\ resource_pool \in Seq(Resource) /\ resources_list \in Seq(Resource)
      /\ res \in [Resource -> [id : Int, type : Int, users : Nat]]
  BY DEF RInv, Accounted, ResourcesTyped
<1>2. /\ IsInjective(resources_list) /\ IsInjective(resource_pool)
      /\ ToSet(resources_list) \cap ToSet(resource_pool) = {}
      /\ ToSet(resources_list) \cup ToSet(resource_pool) = Resource
  BY ListsShareBlocks DEF RInv, Accounted
<1>3. CASE Creates(mode)
  <2>1. /\ resource_pool # <<>>
        /\ r = Head(resource_pool)
        /\ resource_pool' = Tail(resource_pool)
        /\ resources_list' = Append(resources_list, r)
        /\ res' = [res EXCEPT ![r] = [id |-> id, type |-> type, users |-> users]]
    BY <1>3 DEF Gets, NoBlock, Opened
  <2>. HIDE DEF r
  <2>2. /\ r \in Resource
        /\ Tail(resource_pool) \in Seq(Resource)
        /\ ToSet(resource_pool) = ToSet(Tail(resource_pool)) \cup {r}
        /\ IsInjective(Tail(resource_pool)) /\ r \notin ToSet(Tail(resource_pool))
    BY <1>1, <1>2, <2>1, DetachHead
  <2>3. /\ Append(resources_list, r) \in Seq(Resource)
        /\ ToSet(Append(resources_list, r)) = ToSet(resources_list) \cup {r}
        /\ r \notin ToSet(resources_list)
    BY <1>1, <1>2, <2>2, InsertLast
  <2>4. IsInjective(Append(resources_list, r))
    BY <1>1, <1>2, <2>2, <2>3, InsertLast
  <2>5. ResourcesAccounted'
    BY <1>2, <2>1, <2>2, <2>3, <2>4, ListsShareBlocksAfter
  <2>6. res[r].users = 0
    BY <2>2, <2>3, Accounts DEF RInv, Accounted
  <2>7. \A q \in ToSet(resources_list) : q \in Resource /\ q # r
    BY <1>2, <2>3
  <2>8. res' \in [Resource -> [id : Int, type : Int, users : Nat]]
    BY <1>1, <2>1, <2>2
  <2>9. /\ res'[r].users = users
        /\ \A q \in Resource \ {r} : res'[q] = res[q]
    BY <1>1, <2>1, <2>2
  <2>. QED  BY <2>1, <2>2, <2>3, <2>5, <2>6, <2>7, <2>8, <2>9 DEF r
<1>4. CASE ~Creates(mode)
  <2>1. /\ r = ResourceList_byId(id)
        /\ UNCHANGED <<resource_pool, resources_list>>
        /\ res' = [res EXCEPT ![r].users = @ + users]
    BY <1>4 DEF Gets, Opened
  <2>2. r # NULL
    BY <1>4, KernelAssumption
    DEF Gets, OpenError, Opened, DSOS_ERESOURCEOPEN, DSOS_ERESOURCENOEXCL
  <2>3. r \in ToSet(resources_list) /\ r \in Resource
    BY <2>1, <2>2, FoundById DEF RInv, Accounted
  <2>. HIDE DEF r
  <2>4. ResourcesAccounted'
    BY <2>1 DEF RInv, Accounted, ResourcesAccounted
  <2>5. res[r] \in [id : Int, type : Int, users : Nat] /\ res[r].users + users \in Nat
    BY <1>1, <2>3
  <2>6. /\ res'[r] = [res[r] EXCEPT !.users = @ + users]
        /\ \A q \in Resource \ {r} : res'[q] = res[q]
        /\ res' \in [Resource -> [id : Int, type : Int, users : Nat]]
    BY <1>1, <2>1, <2>3, <2>5
  <2>7. /\ res'[r].users = res[r].users + users
        /\ res'[r].id = res[r].id /\ res'[r].type = res[r].type
    BY <2>5, <2>6
  <2>8. ToSet(resources_list) \subseteq Resource
    BY <1>2
  <2>. QED  BY <1>1, <2>1, <2>3, <2>4, <2>6, <2>7, <2>8 DEF r
<1>. QED  BY <1>3, <1>4

LEMMA OpensAccounted ==
  ASSUME RInv, NEW id \in Int, NEW type \in Int, NEW mode, Opens(id, type, mode)
  PROVE  RInv'
<1>. DEFINE fd == last_fd[running]
            r  == Opened(id, mode)
            t  == descriptors[running]
<1>1. /\ Answers(fd) /\ fd < MaxFd /\ descriptor_free > 0
      /\ Gets(id, type, mode, 1)
      /\ descriptors' = [descriptors EXCEPT ![running] = With(t, fd, r)]
      /\ last_fd' = [last_fd EXCEPT ![running] = fd + 1]
      /\ descriptor_free' = descriptor_free - 1
  BY DEF Opens, Opened
<1>2. running \in PCB
  BY <1>1, RunningInUse DEF RInv, Answers, Trap
<1>3. /\ MaxFd \in Nat /\ fd \in 0 .. MaxFd - 1 /\ fd \in Int
      /\ descriptors \in [PCB -> Tables(MaxFd, Resource)]
      /\ t \in Tables(MaxFd, Resource)
      /\ last_fd \in [PCB -> 0 .. MaxFd] /\ fd + 1 \in 0 .. MaxFd
      /\ fd \notin DOMAIN t
      /\ descriptor_free \in Nat
  <2>1. /\ MaxFd \in Nat /\ fd \in 0 .. MaxFd
        /\ descriptors \in [PCB -> Tables(MaxFd, Resource)]
        /\ t \in Tables(MaxFd, Resource)
        /\ last_fd \in [PCB -> 0 .. MaxFd]
        /\ \A d \in DOMAIN t : d < fd
        /\ descriptor_free \in Nat
    BY <1>2, ResourcesAssumption DEF RInv, Accounted, ResourcesTyped
  <2>. QED  BY <1>1, <2>1
<1>4. /\ IInv' /\ running \in Live /\ Live \in SUBSET PCB /\ Live' = Live
  BY <1>1, <1>3, Answered
<1>5. /\ r \in Resource
      /\ resource_pool' \in Seq(Resource) /\ resources_list' \in Seq(Resource)
      /\ ToSet(resources_list') = ToSet(resources_list) \cup {r}
      /\ ResourcesAccounted'
      /\ res' \in [Resource -> [id : Int, type : Int, users : Nat]]
      /\ res'[r].users = res[r].users + 1
      /\ \A q \in Resource \ {r} : res'[q] = res[q]
  BY <1>1, OpenedBlock
<1>. HIDE DEF r
<1>6. /\ descriptors'[running] = With(t, fd, r)
      /\ \A q \in PCB \ {running} : descriptors'[q] = descriptors[q]
  BY <1>1, <1>2, <1>3
<1>7. /\ descriptors'[running] \in Tables(MaxFd, Resource)
      /\ DOMAIN descriptors'[running] = DOMAIN t \cup {fd}
      /\ Cardinality(Entries(descriptors'[running], r)) = Cardinality(Entries(t, r)) + 1
      /\ \A u : u # r => Entries(descriptors'[running], u) = Entries(t, u)
  <2>1. IsFiniteSet(DOMAIN t)
    BY <1>3, TableFinite
  <2>2. With(t, fd, r) \in Tables(MaxFd, Resource)
    BY <1>3, <1>5, TableOpen
  <2>3. /\ DOMAIN With(t, fd, r) = DOMAIN t \cup {fd}
        /\ Cardinality(Entries(With(t, fd, r), r)) = Cardinality(Entries(t, r)) + 1
    BY <1>3, <2>1, EntryAdded
  <2>4. \A u : u # r => Entries(With(t, fd, r), u) = Entries(t, u)
    BY <1>3, OtherEntriesStay
  <2>. QED  BY <1>6, <2>2, <2>3, <2>4
<1>8. ResourcesTyped'
  <2>1. descriptors' \in [PCB -> Tables(MaxFd, Resource)]
    BY <1>1, <1>3, <1>6, <1>7
  <2>2. last_fd' \in [PCB -> 0 .. MaxFd]
    BY <1>1, <1>3
  <2>3. descriptor_free' \in Nat
    BY <1>1, <1>3
  <2>4. ASSUME NEW p \in PCB, NEW d \in DOMAIN descriptors'[p]
        PROVE  d < last_fd'[p]
    <3>1. CASE p = running
      <4>1. /\ last_fd'[p] = fd + 1 /\ d \in DOMAIN t \cup {fd}
            /\ \A c \in DOMAIN t : c < fd /\ c \in Int
        <5>1. last_fd'[p] = fd + 1 /\ d \in DOMAIN t \cup {fd}
          BY <1>1, <1>2, <1>3, <1>7, <3>1
        <5>2. DOMAIN t \subseteq 0 .. MaxFd - 1
          BY <1>3, TableFinite
        <5>. QED  BY <1>2, <5>1, <5>2 DEF RInv, Accounted, ResourcesTyped
      <4>. QED  BY <1>3, <4>1
    <3>2. CASE p # running
      <4>1. last_fd'[p] = last_fd[p] /\ descriptors'[p] = descriptors[p]
        BY <1>1, <1>3, <1>6, <3>2
      <4>. QED  BY <4>1 DEF RInv, Accounted, ResourcesTyped
    <3>. QED  BY <3>1, <3>2
  <2>. QED  BY <1>5, <2>1, <2>2, <2>3, <2>4 DEF ResourcesTyped
<1>9. OpenResourcesListed'
  <2>1. ASSUME NEW q \in Resource
        PROVE  /\ q \notin ToSet(resources_list') => res'[q].users = 0
               /\ Held(descriptors', Live', q) <= res'[q].users
    <3>1. descriptors' \in [PCB -> Tables(MaxFd, Resource)]
      BY <1>8 DEF ResourcesTyped
    <3>2. \A v : Held(descriptors', Live, v)
                  = Held(descriptors, Live, v) - Cardinality(Entries(t, v))
                      + Cardinality(Entries(descriptors'[running], v))
      BY <1>3, <1>4, <1>6, <3>1, HeldChange
    <3>3. Held(descriptors, Live, q) \in Nat
      BY <1>3, <1>4, HeldType
    <3>4. Cardinality(Entries(t, q)) \in Nat
      BY <1>3, TableFinite
    <3>5. /\ q \notin ToSet(resources_list) => res[q].users = 0
          /\ Held(descriptors, Live, q) <= res[q].users
          /\ res[q].users \in Nat
      BY Accounts DEF RInv, Accounted, ResourcesTyped
    <3>6. CASE q = r
      <4>1. Held(descriptors', Live', q) = Held(descriptors, Live, q) + 1
        BY <1>4, <1>7, <3>2, <3>3, <3>4, <3>6
      <4>. QED  BY <1>5, <3>3, <3>5, <3>6, <4>1
    <3>7. CASE q # r
      <4>1. Held(descriptors', Live', q) = Held(descriptors, Live, q)
        BY <1>4, <1>7, <3>2, <3>3, <3>4, <3>7
      <4>. QED  BY <1>5, <3>5, <3>7, <4>1
    <3>. QED  BY <3>6, <3>7
  <2>. QED  BY <2>1, AccountsAfter
<1>10. DescriptorsAccounted'
  <2>1. SumFunctionOnSet(UserCount', Resource)
          = SumFunctionOnSet(UserCount, Resource) - res[r].users + res'[r].users
    <3>1. /\ \A q \in Resource : res'[q].users \in Nat
          /\ \A q \in Resource \ {r} : res'[q].users = res[q].users
      BY <1>5
    <3>. QED  BY <1>5, <3>1, UsersChange DEF RInv, Accounted
  <2>2. /\ descriptor_free + SumFunctionOnSet(UserCount, Resource) = MAX_NUM_PROCESSES
        /\ SumFunctionOnSet(UserCount, Resource) \in Nat
        /\ res[r].users \in Nat
    BY <1>5, Accounts, UsersTyped DEF RInv, Accounted, ResourcesTyped
  <2>3. /\ descriptor_free' = descriptor_free - 1 /\ descriptor_free \in Nat
        /\ res'[r].users = res[r].users + 1
    BY <1>1, <1>3, <1>5
  <2>4. descriptor_free' + SumFunctionOnSet(UserCount', Resource) = MAX_NUM_PROCESSES
    BY <2>1, <2>2, <2>3
  <2>. QED  BY <2>4, AccountsAfter
<1>. QED  BY <1>4, <1>5, <1>8, <1>9, <1>10 DEF RInv, Accounted

(* A resource that an open without a descriptor leaves behind has no users.*)
LEMMA OpenWithoutDescriptorAccounted ==
  ASSUME RInv, NEW id \in Int, NEW type \in Int, NEW mode,
         OpenWithoutDescriptor(id, type, mode)
  PROVE  RInv'
<1>. DEFINE r == Opened(id, mode)
<1>1. /\ Answers(DSOS_ERESOURCENOFD) /\ DSOS_ERESOURCENOFD \in Int
      /\ Gets(id, type, mode, 0)
      /\ UNCHANGED <<descriptors, last_fd, descriptor_free>>
  BY DEF OpenWithoutDescriptor, DSOS_ERESOURCENOFD
<1>2. IInv' /\ Live' = Live
  BY <1>1, Answered
<1>3. /\ r \in Resource
      /\ resource_pool' \in Seq(Resource) /\ resources_list' \in Seq(Resource)
      /\ ToSet(resources_list') = ToSet(resources_list) \cup {r}
      /\ ResourcesAccounted'
      /\ res' \in [Resource -> [id : Int, type : Int, users : Nat]]
      /\ res'[r].users = res[r].users + 0
      /\ \A q \in Resource \ {r} : res'[q] = res[q]
  BY <1>1, OpenedBlock
<1>. HIDE DEF r
<1>4. \A q \in Resource : res'[q].users = res[q].users /\ res[q].users \in Nat
  <2>1. \A q \in Resource : res[q].users \in Nat
    BY DEF RInv, Accounted, ResourcesTyped
  <2>2. res'[r].users = res[r].users
    BY <1>3, <2>1
  <2>. QED  BY <1>3, <2>1, <2>2
<1>5. ResourcesTyped'
  BY <1>1, <1>3 DEF RInv, Accounted, ResourcesTyped
<1>6. OpenResourcesListed'
  BY <1>1, <1>2, <1>3, <1>4, Accounts, AccountsAfter DEF RInv, Accounted
<1>7. DescriptorsAccounted'
  <2>1. UserCount' = UserCount
    BY <1>4 DEF UserCount
  <2>. QED  BY <1>1, <2>1, Accounts, AccountsAfter DEF RInv, Accounted
<1>. QED  BY <1>2, <1>3, <1>5, <1>6, <1>7 DEF RInv, Accounted

(* A close finds a user to take away.                                      *)
LEMMA ClosesAccounted ==
  ASSUME RInv, NEW fd, Closes(fd)
  PROVE  RInv'
<1>. DEFINE t == descriptors[running]
            r == t[fd]
<1>1. /\ Answers(0) /\ fd \in DOMAIN t
      /\ res' = [res EXCEPT ![r].users = @ - 1]
      /\ descriptors' = [descriptors EXCEPT ![running] = Without(t, fd)]
      /\ descriptor_free' = descriptor_free + 1
      /\ UNCHANGED <<resource_pool, resources_list, last_fd>>
  BY DEF Closes, HasFd
<1>2. /\ IInv' /\ running \in Live /\ running \in PCB /\ Live \in SUBSET PCB
      /\ Live' = Live
  BY <1>1, Answered
<1>3. /\ MaxFd \in Nat
      /\ descriptors \in [PCB -> Tables(MaxFd, Resource)]
      /\ t \in Tables(MaxFd, Resource)
      /\ res \in [Resource -> [id : Int, type : Int, users : Nat]]
      /\ descriptor_free \in Nat
  BY <1>2, ResourcesAssumption DEF RInv, Accounted, ResourcesTyped
<1>4. IsFiniteSet(DOMAIN t) /\ r \in Resource
  BY <1>1, <1>3, TableFinite
<1>5. \A q \in Resource :
        /\ Held(descriptors, Live, q) \in Nat
        /\ Cardinality(Entries(t, q)) \in Nat
        /\ Cardinality(Entries(t, q)) <= Held(descriptors, Live, q)
  <2>1. \A q : Cardinality(Entries(t, q)) \in Nat
    BY <1>3, TableFinite
  <2>2. \A q : Held(descriptors, Live, q) \in Nat
    BY <1>2, <1>3, HeldType
  <2>3. \A q : Cardinality(Entries(t, q)) <= Held(descriptors, Live, q)
    BY <1>2, <1>3, HeldType
  <2>. QED  BY <2>1, <2>2, <2>3
<1>6. \A q \in Resource : /\ q \notin ToSet(resources_list) => res[q].users = 0
                          /\ Held(descriptors, Live, q) <= res[q].users
                          /\ res[q].users \in Nat
  BY Accounts DEF RInv, Accounted, ResourcesTyped
<1>7. Without(t, fd) \in Tables(MaxFd, Resource)
  BY <1>3, TableClose
<1>8. /\ DOMAIN Without(t, fd) = DOMAIN t \ {fd}
      /\ Cardinality(Entries(Without(t, fd), r)) = Cardinality(Entries(t, r)) - 1
  BY <1>1, <1>4, EntryRemoved
<1>9. Cardinality(Entries(Without(t, fd), r)) \in Nat
  BY <1>3, <1>7, TableFinite
<1>10. res[r].users >= 1
  BY <1>4, <1>5, <1>6, <1>8, <1>9
<1>11. \A u : u # r => Entries(Without(t, fd), u) = Entries(t, u)
  BY <1>1, OtherEntriesKept
<1>12. /\ descriptors' \in [PCB -> Tables(MaxFd, Resource)]
       /\ descriptors'[running] = Without(t, fd)
       /\ \A q \in PCB \ {running} : descriptors'[q] = descriptors[q]
  BY <1>1, <1>2, <1>3, <1>7
<1>13. /\ res' \in [Resource -> [id : Int, type : Int, users : Nat]]
       /\ res'[r].users = res[r].users - 1
       /\ \A q \in Resource \ {r} : res'[q] = res[q]
  <2>1. res[r] \in [id : Int, type : Int, users : Nat] /\ res[r].users - 1 \in Nat
    BY <1>3, <1>4, <1>10
  <2>. HIDE DEF r
  <2>. QED  BY <1>1, <1>3, <1>4, <2>1
<1>14. ResourcesTyped'
  <2>1. descriptor_free' \in Nat
    BY <1>1, <1>3
  <2>2. ASSUME NEW p \in PCB, NEW d \in DOMAIN descriptors'[p]
        PROVE  d < last_fd'[p]
    <3>1. d \in DOMAIN descriptors[p]
      BY <1>8, <1>12
    <3>. QED  BY <1>1, <3>1 DEF RInv, Accounted, ResourcesTyped
  <2>. QED  BY <1>1, <1>12, <1>13, <2>1, <2>2 DEF RInv, Accounted, ResourcesTyped
<1>. HIDE DEF r
<1>15. OpenResourcesListed'
  <2>1. ASSUME NEW q \in Resource
        PROVE  /\ q \notin ToSet(resources_list') => res'[q].users = 0
               /\ Held(descriptors', Live', q) <= res'[q].users
    <3>1. \A v : Held(descriptors', Live, v)
                  = Held(descriptors, Live, v) - Cardinality(Entries(t, v))
                      + Cardinality(Entries(descriptors'[running], v))
      BY <1>2, <1>3, <1>12, HeldChange
    <3>2. CASE q = r
      <4>1. Held(descriptors', Live', q) = Held(descriptors, Live, q) - 1
        BY <1>2, <1>5, <1>8, <1>12, <3>1, <3>2
      <4>. QED  BY <1>1, <1>5, <1>6, <1>10, <1>13, <3>2, <4>1
    <3>3. CASE q # r
      <4>1. Held(descriptors', Live', q) = Held(descriptors, Live, q)
        BY <1>2, <1>5, <1>11, <1>12, <3>1, <3>3
      <4>. QED  BY <1>1, <1>6, <1>13, <3>3, <4>1
    <3>. QED  BY <3>2, <3>3
  <2>. QED  BY <2>1, AccountsAfter
<1>16. DescriptorsAccounted'
  <2>1. SumFunctionOnSet(UserCount', Resource)
          = SumFunctionOnSet(UserCount, Resource) - res[r].users + res'[r].users
    <3>1. /\ \A q \in Resource : res'[q].users \in Nat
          /\ \A q \in Resource \ {r} : res'[q].users = res[q].users
      BY <1>13
    <3>. QED  BY <1>4, <3>1, UsersChange DEF RInv, Accounted
  <2>2. /\ descriptor_free + SumFunctionOnSet(UserCount, Resource) = MAX_NUM_PROCESSES
        /\ SumFunctionOnSet(UserCount, Resource) \in Nat
        /\ res[r].users \in Nat
    BY <1>4, Accounts, UsersTyped DEF RInv, Accounted, ResourcesTyped
  <2>3. descriptor_free' + SumFunctionOnSet(UserCount', Resource) = MAX_NUM_PROCESSES
    BY <1>1, <1>3, <1>13, <2>1, <2>2
  <2>. QED  BY <2>3, AccountsAfter
<1>17. ResourcesAccounted'
  BY <1>1 DEF RInv, Accounted, ResourcesAccounted
<1>. QED  BY <1>2, <1>14, <1>15, <1>16, <1>17 DEF RInv, Accounted

LEMMA DestroysAccounted ==
  ASSUME RInv, NEW id, Destroys(id)
  PROVE  RInv'
<1>. DEFINE r == ResourceList_byId(id)
<1>1. /\ Answers(0) /\ r # NULL /\ ~(res[r].users > 0)
      /\ resources_list' = RemoveFirst(resources_list, r)
      /\ resource_pool' = Cons(r, resource_pool)
      /\ UNCHANGED <<res, descriptors, last_fd, descriptor_free>>
  BY DEF Destroys, InUse, Detach
<1>2. IInv' /\ Live' = Live
  BY <1>1, Answered
<1>3. r \in ToSet(resources_list) /\ r \in Resource
  BY <1>1, FoundById DEF RInv, Accounted
<1>. HIDE DEF r
<1>4. /\ resource_pool \in Seq(Resource) /\ resources_list \in Seq(Resource)
      /\ res[r].users \in Nat
  BY <1>3 DEF RInv, Accounted, ResourcesTyped
<1>5. /\ IsInjective(resources_list) /\ IsInjective(resource_pool)
      /\ ToSet(resources_list) \cap ToSet(resource_pool) = {}
      /\ ToSet(resources_list) \cup ToSet(resource_pool) = Resource
  BY ListsShareBlocks DEF RInv, Accounted
<1>6. /\ resources_list' \in Seq(Resource)
      /\ ToSet(resources_list) = ToSet(resources_list') \cup {r}
      /\ IsInjective(resources_list') /\ r \notin ToSet(resources_list')
  BY <1>1, <1>3, <1>4, <1>5, DetachItem
<1>7. /\ resource_pool' \in Seq(Resource)
      /\ ToSet(resource_pool') = ToSet(resource_pool) \cup {r}
      /\ IsInjective(resource_pool')
  <2>1. r \notin ToSet(resource_pool)
    BY <1>3, <1>5
  <2>. QED  BY <1>1, <1>3, <1>4, <1>5, <2>1, InsertFirst
<1>8. ResourcesAccounted'
  BY <1>5, <1>6, <1>7, ListsShareBlocksAfter
<1>9. ResourcesTyped'
  BY <1>1, <1>6, <1>7 DEF RInv, Accounted, ResourcesTyped
<1>10. OpenResourcesListed'
  <2>1. ASSUME NEW q \in Resource
        PROVE  /\ q \notin ToSet(resources_list') => res'[q].users = 0
               /\ Held(descriptors', Live', q) <= res'[q].users
    <3>1. /\ q \notin ToSet(resources_list) => res[q].users = 0
          /\ Held(descriptors, Live, q) <= res[q].users
      BY Accounts DEF RInv, Accounted
    <3>2. res[r].users = 0
      BY <1>1, <1>4
    <3>. QED  BY <1>1, <1>2, <1>6, <3>1, <3>2
  <2>. QED  BY <2>1, AccountsAfter
<1>11. DescriptorsAccounted'
  BY <1>1 DEF RInv, Accounted, DescriptorsAccounted
<1>. QED  BY <1>2, <1>8, <1>9, <1>10, <1>11 DEF RInv, Accounted

-----------------------------------------------------------------------------
LEMMA InitRInv == ResourcesInit => RInv
<1>. SUFFICES ASSUME ResourcesInit PROVE RInv
  OBVIOUS
<1>1. IInv
  BY InitIInv DEF ResourcesInit
<1>2. MAX_NUM_RESOURCES \in Nat /\ MaxFd \in Nat /\ MAX_NUM_PROCESSES \in Nat
  BY ResourcesAssumption, KernelAssumption
<1>3. /\ resource_pool \in Seq(Resource)
      /\ IsInjective(resource_pool)
      /\ ToSet(resource_pool) = Resource
  <2>1. resource_pool = [i \in 1 .. MAX_NUM_RESOURCES |-> i - 1]
    BY DEF ResourcesInit
  <2>. QED  BY <1>2, <2>1 DEF Resource, ToSet, IsInjective
<1>4. resources_list = <<>> /\ resources_list \in Seq(Resource)
  BY EmptySeq DEF ResourcesInit
<1>5. ToSet(resources_list) = {} /\ IsInjective(resources_list)
  BY <1>4, EmptyList
<1>6. ResourcesTyped
  <2>1. <<>> \in Tables(MaxFd, Resource) /\ DOMAIN <<>> = {}
    BY <1>2, EmptyTable
  <2>2. res \in [Resource -> [id : Int, type : Int, users : Nat]]
    BY DEF ResourcesInit
  <2>3. descriptors \in [PCB -> Tables(MaxFd, Resource)]
    BY <2>1 DEF ResourcesInit
  <2>4. last_fd \in [PCB -> 0 .. MaxFd] /\ descriptor_free \in Nat
    BY <1>2 DEF ResourcesInit
  <2>5. \A p \in PCB : DOMAIN descriptors[p] = {}
    BY <2>1 DEF ResourcesInit
  <2>. QED  BY <1>3, <1>4, <2>2, <2>3, <2>4, <2>5 DEF ResourcesTyped
<1>7. ResourcesAccounted
  BY <1>3, <1>5, <1>6, ListsShareBlocks
<1>8. OpenResourcesListed
  <2>1. ASSUME NEW r \in Resource PROVE Held(descriptors, Live, r) = 0
    <3>. DEFINE f == [p \in PCB |-> Cardinality(Entries(descriptors[p], r))]
    <3>1. \A p \in PCB : Entries(descriptors[p], r) = {}
      BY <1>2, EmptyTable DEF ResourcesInit
    <3>2. \A p \in PCB : f[p] = 0
      BY <3>1, FS_EmptySet
    <3>3. IsFiniteSet(Live) /\ Live \subseteq PCB
      BY ProcessesFinite DEF Live
    <3>4. SumFunctionOnSet(f, Live) = 0
      <4>. HIDE DEF f
      <4>. QED  BY <3>2, <3>3, SumZero
    <3>. QED  BY <3>4 DEF Held
  <2>2. \A r \in Resource : res[r].users = 0
    BY DEF ResourcesInit
  <2>. QED  BY <2>1, <2>2, Accounts
<1>9. DescriptorsAccounted
  <2>1. \A r \in Resource : UserCount[r] = 0
    BY DEF ResourcesInit, UserCount
  <2>2. SumFunctionOnSet(UserCount, Resource) = 0
    BY <2>1, ResourcesFinite, SumZero
  <2>3. descriptor_free = MAX_NUM_PROCESSES
    BY DEF ResourcesInit
  <2>. QED  BY <1>2, <2>2, <2>3, Accounts
<1>. QED  BY <1>1, <1>6, <1>7, <1>8, <1>9 DEF RInv, Accounted

(* The process calls that leave resources alone.                           *)
OtherCall ==
  \/ timerInterrupt
  \/ timerInterruptDies
  \/ RebootDies
  \/ internal_preempt
  \/ NewProcessDies
  \/ \E q \in WaitPids : internal_wait(q)
  \/ ExitToReady
  \/ ExitDies
  \/ \E cycles \in SleepCycles : internal_sleep(cycles)
  \/ internal_shutdown

LEMMA OtherCallPutsNoneToUse ==
  ASSUME IInv, OtherCall
  PROVE  Live' \subseteq Live
<1>1. CASE \E q \in WaitPids : internal_wait(q)
  BY <1>1, WaitFreesBlocks DEF Live
<1>2. CASE ~\E q \in WaitPids : internal_wait(q)
  <2>1. UNCHANGED pcb_pool
    BY <1>2
    DEF OtherCall, timerInterrupt, timerInterruptDies, RebootDies, internal_preempt,
        NewProcessDies, ExitToReady, ExitDies, internal_sleep, internal_shutdown, Stop, poolVars
  <2>. QED  BY <2>1 DEF Live
<1>. QED  BY <1>1, <1>2

LEMMA ProcessCallIInv ==
  IInv /\ (internal_spawn \/ Reboot \/ ExitToParent \/ OtherCall) => IInv'
<1>1. internal_spawn \/ Reboot \/ ExitToParent \/ OtherCall => Next
  BY Zenon DEF OtherCall, Next, internal_exit
<1>. QED  BY <1>1, NextIInv

LEMMA NextRInv == RInv /\ [ResourcesNext]_<<vars, resourceVars>> => RInv'
<1>. SUFFICES ASSUME RInv, [ResourcesNext]_<<vars, resourceVars>> PROVE RInv'
  OBVIOUS
<1>. USE DEF RInv
<1>1. CASE (internal_spawn \/ Reboot) /\ NewDescriptors
  <2>1. Reboot \/ NewProcess
    BY <1>1 DEF internal_spawn
  <2>. QED  BY <1>1, <2>1, ProcessCallIInv, NewDescriptorsAccounted
<1>2. CASE ExitToParent /\ ReleaseDescriptors(running)
  BY <1>2, ProcessCallIInv, ReleaseAccounted
<1>3. CASE OtherCall /\ UNCHANGED resourceVars
  BY <1>3, ProcessCallIInv, OtherCallPutsNoneToUse, SameAccounts
<1>4. CASE UNCHANGED <<vars, resourceVars>>
  <2>1. IInv'
    BY <1>4, NextIInv
  <2>2. Live' \subseteq Live
    BY <1>4 DEF Live, vars, poolVars
  <2>. QED  BY <1>4, <2>1, <2>2, SameAccounts
<1>5. CASE Ended /\ UNCHANGED resourceVars
  BY <1>4, <1>5 DEF Ended
<1>6. ASSUME NEW value \in Int, Fails(value) PROVE RInv'
  <2>1. Answers(value) /\ UNCHANGED resourceVars
    BY <1>6 DEF Fails
  <2>2. IInv' /\ Live' = Live
    BY <2>1, Answered
  <2>. QED  BY <2>1, <2>2, SameAccounts
<1>7. ASSUME NEW arg \in OpenArgs, NEW mode \in OpenModes,
             internal_openResource(arg[1], arg[2], mode)
      PROVE  RInv'
  <2>1. arg[1] \in Int /\ arg[2] \in Int
    BY ResourcesAssumption
  <2>2. CASE OpenRefused(arg[1], arg[2], mode)
    <3>1. /\ OpenError(arg[1], arg[2], mode) # NULL
          /\ Fails(OpenError(arg[1], arg[2], mode))
      BY <2>2 DEF OpenRefused
    <3>2. OpenError(arg[1], arg[2], mode) \in Int
      BY <3>1 DEF OpenError, DSOS_ERESOURCECREATE, DSOS_ERESOURCEOPEN, DSOS_ERESOURCENOEXCL
    <3>. QED  BY <1>6, <3>1, <3>2
  <2>3. CASE OpenWithoutDescriptor(arg[1], arg[2], mode)
    BY <2>1, <2>3, OpenWithoutDescriptorAccounted
  <2>4. CASE Opens(arg[1], arg[2], mode)
    BY <2>1, <2>4, OpensAccounted
  <2>5. CASE OpenDies(arg[1], arg[2], mode)
    <3>1. Stops /\ UNCHANGED resourceVars /\ UNCHANGED pcb_pool
      BY <2>5 DEF OpenDies, Stop, Stops, Machines, poolVars
    <3>2. IInv' /\ Live' \subseteq Live
      BY <3>1, StopIInv DEF Live
    <3>. QED  BY <3>1, <3>2, SameAccounts
  <2>. QED  BY <1>7, <2>2, <2>3, <2>4, <2>5 DEF internal_openResource
<1>8. ASSUME NEW fd, internal_closeResource(fd) PROVE RInv'
  <2>1. CASE CloseUnknown(fd)
    BY <1>6, <2>1 DEF CloseUnknown, DSOS_ERESOURCECLOSE
  <2>2. CASE Closes(fd)
    BY <2>2, ClosesAccounted
  <2>. QED  BY <1>8, <2>1, <2>2 DEF internal_closeResource
<1>9. ASSUME NEW id, internal_destroyResource(id) PROVE RInv'
  <2>1. CASE DestroyUnknown(id)
    BY <1>6, <2>1 DEF DestroyUnknown, DSOS_ERESOURCECLOSE
  <2>2. CASE DestroyInUse(id)
    BY <1>6, <2>2 DEF DestroyInUse, DSOS_ERESOURCEINUSE
  <2>3. CASE Destroys(id)
    BY <2>3, DestroysAccounted
  <2>. QED  BY <1>9, <2>1, <2>2, <2>3 DEF internal_destroyResource
<1>10. CASE ProcessCall
  BY <1>1, <1>2, <1>3, <1>10, Zenon DEF ProcessCall, OtherCall
<1>11. CASE ResourceCall
  BY <1>7, <1>8, <1>9, <1>11, Zenon DEF ResourceCall
<1>. QED  BY <1>4, <1>5, <1>10, <1>11, Zenon DEF ResourcesNext

-----------------------------------------------------------------------------
(* What an fd names.                                                       *)
SameIds ==
  \A r \in ToSet(resources_list) : res'[r].id = res[r].id /\ res'[r].type = res[r].type

SameFds ==
  \A p \in Live : \A fd \in DOMAIN descriptors[p] \cap DOMAIN descriptors'[p] :
    descriptors'[p][fd] = descriptors[p][fd]

(* What is open is in the list, because it has a user.                     *)
LEMMA OpenIsListed ==
  ASSUME RInv, NEW p \in Live, NEW fd \in DOMAIN descriptors[p]
  PROVE  descriptors[p][fd] \in ToSet(resources_list)
<1>. DEFINE t == descriptors[p]
            r == t[fd]
<1>1. /\ MaxFd \in Nat /\ p \in PCB /\ Live \in SUBSET PCB
      /\ descriptors \in [PCB -> Tables(MaxFd, Resource)]
      /\ t \in Tables(MaxFd, Resource)
  BY ResourcesAssumption DEF RInv, Accounted, ResourcesTyped, Live
<1>2. r \in Resource /\ IsFiniteSet(DOMAIN t)
  BY <1>1, TableFinite
<1>3. \A q : IsFiniteSet(Entries(t, q)) /\ Cardinality(Entries(t, q)) \in Nat
  BY <1>1, TableFinite
<1>4. Cardinality(Entries(t, r)) # 0
  <2>1. fd \in Entries(t, r)
    BY DEF Entries
  <2>. HIDE DEF t, r
  <2>. QED  BY <1>3, <2>1, FS_EmptySet
<1>5. \A q : Held(descriptors, Live, q) \in Nat
  BY <1>1, HeldType
<1>6. \A q : Cardinality(Entries(t, q)) <= Held(descriptors, Live, q)
  BY <1>1, HeldType
<1>7. /\ r \notin ToSet(resources_list) => res[r].users = 0
      /\ Held(descriptors, Live, r) <= res[r].users
      /\ res[r].users \in Nat
  BY <1>2, Accounts DEF RInv, Accounted, ResourcesTyped
<1>. HIDE DEF t, r
<1>8. r \in ToSet(resources_list)
  BY <1>3, <1>4, <1>5, <1>6, <1>7
<1>. QED  BY <1>8 DEF t, r

LEMMA ReleaseKeepsFds ==
  ASSUME RInv, running \in PCB, ReleaseDescriptors(running)
  PROVE  SameIds /\ SameFds
<1>1. /\ res \in [Resource -> [id : Int, type : Int, users : Nat]]
      /\ descriptors \in [PCB -> Tables(MaxFd, Resource)]
      /\ ToSet(resources_list) \subseteq Resource
  BY Members DEF RInv, Accounted, ResourcesTyped
<1>2. SameIds
  BY <1>1 DEF SameIds, ReleaseDescriptors
<1>3. SameFds
  <2>1. DOMAIN <<>> = {}
    OBVIOUS
  <2>2. \A p \in PCB : descriptors'[p] = IF p = running THEN <<>> ELSE descriptors[p]
    BY <1>1 DEF ReleaseDescriptors
  <2>. QED  BY <2>1, <2>2 DEF SameFds, Live
<1>. QED  BY <1>2, <1>3

LEMMA OpensKeepsFds ==
  ASSUME RInv, NEW id \in Int, NEW type \in Int, NEW mode, Opens(id, type, mode)
  PROVE  SameIds /\ SameFds
<1>. DEFINE fd == last_fd[running]
            t  == descriptors[running]
<1>1. SameIds
  BY OpenedBlock DEF Opens, SameIds
<1>2. running \in PCB
  BY RunningInUse DEF Opens, RInv, Answers, Trap
<1>3. /\ descriptors \in [PCB -> Tables(MaxFd, Resource)]
      /\ fd \in 0 .. MaxFd /\ MaxFd \in Nat
      /\ \A d \in DOMAIN t : d < fd
  BY <1>2, ResourcesAssumption DEF RInv, Accounted, ResourcesTyped
<1>4. fd \notin DOMAIN t
  BY <1>3
<1>5. \A p \in PCB : descriptors'[p] = IF p = running THEN With(t, fd, Opened(id, mode))
                                       ELSE descriptors[p]
  BY <1>3 DEF Opens, Opened
<1>6. \A d \in DOMAIN t : With(t, fd, Opened(id, mode))[d] = t[d]
  BY <1>4 DEF With
<1>7. SameFds
  <2>. HIDE DEF t, fd
  <2>1. SUFFICES ASSUME NEW p \in PCB, NEW d \in DOMAIN descriptors[p]
                 PROVE  descriptors'[p][d] = descriptors[p][d]
    BY DEF SameFds, Live
  <2>2. CASE p = running
    <3>1. descriptors[p] = t /\ descriptors'[p] = With(t, fd, Opened(id, mode))
      BY <1>5, <2>2 DEF t
    <3>. QED  BY <1>6, <3>1
  <2>3. CASE p # running
    BY <1>5, <2>3
  <2>. QED  BY <2>2, <2>3
<1>. QED  BY <1>1, <1>7

LEMMA ClosesKeepsFds ==
  ASSUME RInv, NEW fd, Closes(fd)
  PROVE  SameIds /\ SameFds
<1>1. /\ res \in [Resource -> [id : Int, type : Int, users : Nat]]
      /\ descriptors \in [PCB -> Tables(MaxFd, Resource)]
      /\ ToSet(resources_list) \subseteq Resource
  BY Members DEF RInv, Accounted, ResourcesTyped
<1>2. SameIds
  BY <1>1 DEF SameIds, Closes
<1>3. \A p \in PCB : descriptors'[p] = IF p = running THEN Without(descriptors[p], fd)
                                       ELSE descriptors[p]
  BY <1>1 DEF Closes
<1>4. SameFds
  BY <1>3 DEF SameFds, Live, Without, Restrict
<1>. QED  BY <1>2, <1>4

LEMMA NextKeepsFds ==
  ASSUME RInv, [ResourcesNext]_<<vars, resourceVars>>
  PROVE  SameIds /\ SameFds
<1>1. CASE UNCHANGED <<res, descriptors>>
  BY <1>1 DEF SameIds, SameFds
<1>2. CASE UNCHANGED resourceVars
  BY <1>1, <1>2 DEF resourceVars
<1>3. CASE (internal_spawn \/ Reboot) /\ NewDescriptors
  <2>1. Head(pcb_pool) \notin Live
    BY <1>3, NewBlock DEF RInv, Live, internal_spawn
  <2>2. \A p \in Live : descriptors'[p] = descriptors[p]
    BY <1>3, <2>1 DEF NewDescriptors, Live, RInv, Accounted, ResourcesTyped
  <2>. QED  BY <1>3, <2>2 DEF SameIds, SameFds, NewDescriptors
<1>4. CASE ExitToParent /\ ReleaseDescriptors(running)
  <2>1. running \in PCB
    BY <1>4, RunningInUse DEF RInv, ExitToParent, Exiting, Trap
  <2>. QED  BY <1>4, <2>1, ReleaseKeepsFds
<1>5. ASSUME NEW arg \in OpenArgs, NEW mode \in OpenModes,
             internal_openResource(arg[1], arg[2], mode)
      PROVE  SameIds /\ SameFds
  <2>1. arg[1] \in Int /\ arg[2] \in Int
    BY ResourcesAssumption
  <2>2. CASE OpenRefused(arg[1], arg[2], mode) \/ OpenDies(arg[1], arg[2], mode)
    BY <1>2, <2>2 DEF OpenRefused, OpenDies, Fails
  <2>3. CASE OpenWithoutDescriptor(arg[1], arg[2], mode)
    <3>1. SameIds
      BY <2>1, <2>3, OpenedBlock DEF OpenWithoutDescriptor, SameIds
    <3>. QED  BY <2>3, <3>1 DEF OpenWithoutDescriptor, SameFds
  <2>4. CASE Opens(arg[1], arg[2], mode)
    BY <2>1, <2>4, OpensKeepsFds
  <2>. QED  BY <1>5, <2>2, <2>3, <2>4 DEF internal_openResource
<1>6. ASSUME NEW fd, internal_closeResource(fd) PROVE SameIds /\ SameFds
  BY <1>2, <1>6, ClosesKeepsFds DEF internal_closeResource, CloseUnknown, Fails
<1>7. ASSUME NEW id, internal_destroyResource(id) PROVE SameIds /\ SameFds
  <2>1. UNCHANGED <<res, descriptors>>
    BY <1>7
    DEF internal_destroyResource, DestroyUnknown, DestroyInUse, Destroys, Fails, resourceVars
  <2>. QED  BY <1>1, <2>1
<1>8. CASE ProcessCall
  BY <1>2, <1>3, <1>4, <1>8, Zenon DEF ProcessCall
<1>9. CASE ResourceCall
  BY <1>5, <1>6, <1>7, <1>9, Zenon DEF ResourceCall
<1>. QED  BY <1>2, <1>8, <1>9 DEF ResourcesNext

-----------------------------------------------------------------------------
(* The accounts of resources and descriptors hold whatever processes open, *)
(* close, destroy, spawn and exit with descriptors open.                   *)
THEOREM ResourcesInvariance == ResourcesSpec => []RInv
BY InitRInv, NextRInv, PTL DEF ResourcesSpec

(* Type correctness; that no more descriptors are free than there are      *)
(* blocks (disastrOS_descriptor.c) follows from their account.             *)
THEOREM ResourcesTypeCorrect == ResourcesSpec => []ResourcesTypeOK
<1>1. RInv => ResourcesTypeOK
  <2>1. SUFFICES ASSUME RInv PROVE ResourcesTypeOK
    OBVIOUS
  <2>2. TypeOK
    BY <2>1 DEF RInv, IInv
  <2>3. ASSUME NEW p \in PCB
        PROVE  /\ DOMAIN descriptors[p] \subseteq 0 .. MaxFd - 1
               /\ \A fd \in DOMAIN descriptors[p] : descriptors[p][fd] \in Resource
    <3>1. descriptors[p] \in Tables(MaxFd, Resource) /\ MaxFd \in Nat
      BY <2>1, ResourcesAssumption DEF RInv, Accounted, ResourcesTyped
    <3>. QED  BY <3>1, TableFinite
  <2>4. descriptor_free \in 0 .. MAX_NUM_PROCESSES
    <3>1. /\ descriptor_free + SumFunctionOnSet(UserCount, Resource) = MAX_NUM_PROCESSES
          /\ SumFunctionOnSet(UserCount, Resource) \in Nat
          /\ descriptor_free \in Nat
      BY <2>1, Accounts, UsersTyped DEF RInv, Accounted, ResourcesTyped
    <3>. QED  BY <3>1, KernelAssumption
  <2>. QED  BY <2>1, <2>2, <2>3, <2>4 DEF RInv, Accounted, ResourcesTyped, ResourcesTypeOK
<1>. QED  BY <1>1, ResourcesInvariance, PTL

(* No Resource block is lost or handed out twice, although an open that    *)
(* fails for want of a descriptor leaves what it created behind            *)
(* (disastrOS_open_resource.c:53).                                         *)
THEOREM ResourcesAccountedSafe == ResourcesSpec => []ResourcesAccounted
<1>1. RInv => ResourcesAccounted
  BY DEF RInv, Accounted
<1>. QED  BY <1>1, ResourcesInvariance, PTL

(* No descriptor dangles: what the test of disastrOS_destroy_resource.c:25 *)
(* counts is never less than what the living processes have open.          *)
THEOREM OpenResourcesListedSafe == ResourcesSpec => []OpenResourcesListed
<1>1. RInv => OpenResourcesListed
  BY DEF RInv, Accounted
<1>. QED  BY <1>1, ResourcesInvariance, PTL

(* Descriptor blocks add up: the free ones and the users of the resources  *)
(* are as many as there are, counting those that dead processes left       *)
(* behind (disastrOS_exit.c:75-83).                                        *)
THEOREM DescriptorsAccountedSafe == ResourcesSpec => []DescriptorsAccounted
<1>1. RInv => DescriptorsAccounted
  BY DEF RInv, Accounted
<1>. QED  BY <1>1, ResourcesInvariance, PTL

(* The step formula of FdsKeepTheirResource.                               *)
FdsKeep ==
  \A p \in PCB \ ToSet(pcb_pool) : \A fd \in DOMAIN descriptors[p] \cap DOMAIN descriptors'[p] :
    LET r == descriptors[p][fd]
    IN  /\ descriptors'[p][fd] = r
        /\ res'[r].id = res[r].id
        /\ res'[r].type = res[r].type

(* An fd names the resource it was opened on, with its id and type, until  *)
(* it is closed: no other process can destroy the block and create another *)
(* resource in it (disastrOS_destroy_resource.c:25).                       *)
THEOREM FdsKeepSafe == ResourcesSpec => FdsKeepTheirResource
<1>1. RInv /\ [ResourcesNext]_<<vars, resourceVars>> => FdsKeep
  <2>1. SUFFICES ASSUME RInv, [ResourcesNext]_<<vars, resourceVars>> PROVE FdsKeep
    OBVIOUS
  <2>2. SameIds /\ SameFds
    BY <2>1, NextKeepsFds
  <2>3. ASSUME NEW p \in Live, NEW fd \in DOMAIN descriptors[p] \cap DOMAIN descriptors'[p]
        PROVE  LET r == descriptors[p][fd]
               IN  /\ descriptors'[p][fd] = r
                   /\ res'[r].id = res[r].id
                   /\ res'[r].type = res[r].type
    <3>1. descriptors[p][fd] \in ToSet(resources_list)
      BY <2>1, OpenIsListed
    <3>. QED  BY <2>2, <3>1 DEF SameIds, SameFds
  <2>. QED  BY <2>3 DEF FdsKeep, Live
<1>2. [][FdsKeep]_<<vars, resourceVars>> <=> FdsKeepTheirResource
  BY PTL DEF FdsKeep, FdsKeepTheirResource
<1>. QED  BY <1>1, <1>2, ResourcesInvariance, PTL DEF ResourcesSpec
=============================================================================
