----------------------------- MODULE PooledLists ----------------------------
(***************************************************************************)
(* The linked lists over the pool allocator, as all of disastrOS uses      *)
(* them: an item is a block of a pool, taken with PCB_alloc, PCBPtr_alloc, *)
(* TimerItem_alloc, Descriptor_alloc, MessageQueue_alloc and so on, which  *)
(* clear its links, then inserted in one list after another, and given     *)
(* back when it is in none.  Callers also release what is not theirs.      *)
(***************************************************************************)
EXTENDS PoolAllocator

CONSTANT Heads     \* the lists

ASSUME PooledListsAssumption == NULL \notin Heads

VARIABLES first, last, length, prev, next, owner

listVars == <<first, last, length, prev, next, owner>>

Links == INSTANCE LinkedList WITH Items <- Block, size <- length

PooledInit == Init /\ Links!Init

Alloc ==
  /\ Get
  /\ prev' = [prev EXCEPT ![first_idx] = NULL]
  /\ next' = [next EXCEPT ![first_idx] = NULL]
  /\ UNCHANGED <<first, last, length, owner>>

AllocFails == GetNothing /\ UNCHANGED listVars

HandedOut(b) == free_list[b] = DetachedIdx

(* The functions X_free release the block of an item that is in no list.   *)
Free ==
  \E b \in Block :
    /\ HandedOut(b)
    /\ owner[b] = NULL
    /\ Release(b * item_size)
    /\ UNCHANGED listVars

(* A block that is free, or no block at all.                               *)
FreeRefused == \E offset \in Offsets : Refuse(offset) /\ UNCHANGED listVars

Inserts ==
  \E b \in Block : HandedOut(b) /\ Links!Inserts(b) /\ UNCHANGED vars

Detaches == Links!Detaches /\ UNCHANGED vars

PooledNext == Alloc \/ AllocFails \/ Free \/ FreeRefused \/ Inserts \/ Detaches

PooledSpec == PooledInit /\ [][PooledNext]_<<vars, listVars>>

-----------------------------------------------------------------------------
PooledTypeOK == TypeOK /\ Links!TypeOK

(* The lists hold what was inserted and not detached, both ways, although  *)
(* blocks come and go with the links their last life left in them.         *)
BothWaysAgree == Links!BothWaysAgree

(* A block that is in no list, free or not, has no neighbour, so that      *)
(* List_insert never refuses it and silently leaves it out of every list.  *)
DetachedIsUnlinked == Links!DetachedIsUnlinked

(* The lists implement sequences.                                          *)
ImplementsLists == Links!ImplementsLists
=============================================================================
