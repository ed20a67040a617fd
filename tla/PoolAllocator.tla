---------------------------- MODULE PoolAllocator ---------------------------
(***************************************************************************)
(* The pool allocator under every PCB, PCBPtr, TimerItem, descriptor,      *)
(* queue and message: a free list threaded through an array of indices.    *)
(* A block is named by its index and an address by its offset in the       *)
(* buffer.  Callers may release any offset.                                *)
(***************************************************************************)
EXTENDS Integers, SequencesExt

CONSTANTS
  num_items,     \* number of blocks
  item_size,     \* bytes in a block
  Offsets,       \* the offsets that are released
  NULL

ASSUME PoolAllocatorAssumption ==
  /\ num_items \in Nat \ {0}
  /\ item_size \in Nat \ {0}
  /\ Offsets \subseteq Int
  /\ NULL \notin Int

NullIdx == -1
DetachedIdx == -2
Block == 0 .. num_items - 1

VARIABLES
  free_list,     \* the index after each free block, NullIdx, or DetachedIdx
  first_idx,     \* the first free block, or NullIdx
  size,          \* number of free blocks
  block,         \* what the last getBlock returned
  result         \* what the last releaseBlock returned

vars == <<free_list, first_idx, size, block, result>>

(* Mutant: the last block is not the end of the list.                      *)
InitUnterminated ==
  /\ free_list = [i \in Block |-> i + 1]
  /\ first_idx = 0
  /\ size = num_items
  /\ block = NULL
  /\ result = "Success"

Init ==
  /\ free_list = [i \in Block |-> IF i = num_items - 1 THEN NullIdx ELSE i + 1]
  /\ first_idx = 0
  /\ size = num_items
  /\ block = NULL
  /\ result = "Success"

(* Mutant: the block is not marked as detached.                            *)
GetUnmarked ==
  /\ first_idx # NullIdx
  /\ block' = first_idx
  /\ first_idx' = free_list[first_idx]
  /\ size' = size - 1
  /\ UNCHANGED <<free_list, result>>

Get ==
  /\ first_idx # NullIdx
  /\ block' = first_idx
  /\ first_idx' = free_list[first_idx]
  /\ size' = size - 1
  /\ UNCHANGED result
  /\ free_list' = [free_list EXCEPT ![first_idx] = DetachedIdx]

GetNothing ==
  /\ first_idx = NullIdx
  /\ block' = NULL
  /\ UNCHANGED <<free_list, first_idx, size, result>>

PoolAllocator_getBlock == Get \/ GetNothing

(* C's quotient of an offset that is a multiple of item_size.              *)
Index(offset) == offset \div item_size

ReleaseError(offset) ==
  IF offset % item_size # 0 THEN "UnalignedFree"
  ELSE IF Index(offset) \notin Block THEN "OutOfRange"
  ELSE IF free_list[Index(offset)] # DetachedIdx THEN "DoubleFree"
  ELSE "Success"

(* Mutant: the block that comes back ends the free list.                   *)
ReleaseCut(offset) ==
  /\ ReleaseError(offset) = "Success"
  /\ result' = "Success"
  /\ UNCHANGED block
  /\ free_list' = [free_list EXCEPT ![Index(offset)] = NullIdx]
  /\ first_idx' = Index(offset)
  /\ size' = size + 1

Release(offset) ==
  /\ ReleaseError(offset) = "Success"
  /\ result' = "Success"
  /\ UNCHANGED block
  /\ free_list' = [free_list EXCEPT ![Index(offset)] = first_idx]
  /\ first_idx' = Index(offset)
  /\ size' = size + 1

Refuse(offset) ==
  /\ ReleaseError(offset) # "Success"
  /\ result' = ReleaseError(offset)
  /\ UNCHANGED <<free_list, first_idx, size, block>>

PoolAllocator_releaseBlock(offset) == Release(offset) \/ Refuse(offset)

Next ==
  \/ PoolAllocator_getBlock
  \/ \E offset \in Offsets : PoolAllocator_releaseBlock(offset)

Spec == Init /\ [][Next]_vars

-----------------------------------------------------------------------------
(* s is the chain of free blocks that starts at first_idx.                 *)
IsFreeChain(s) ==
  /\ first_idx = IF s = <<>> THEN NullIdx ELSE s[1]
  /\ \A i \in 1 .. Len(s) :
       free_list[s[i]] = IF i = Len(s) THEN NullIdx ELSE s[i + 1]

TypeOK ==
  /\ free_list \in [Block -> Block \cup {NullIdx, DetachedIdx}]
  /\ first_idx \in Block \cup {NullIdx}
  /\ size \in 0 .. num_items
  /\ block \in Block \cup {NULL}
  /\ result \in {"Success", "UnalignedFree", "OutOfRange", "DoubleFree"}

(* The chain has no cycle, holds exactly the blocks that are not handed    *)
(* out, and size is its length, however blocks are released: in another    *)
(* order than they were handed out, twice, or not blocks at all.           *)
ChainIsFree ==
  \E s \in SeqOf(Block, num_items) :
    /\ IsFreeChain(s)
    /\ IsInjective(s)
    /\ ToSet(s) = {b \in Block : free_list[b] # DetachedIdx}
    /\ Len(s) = size

(* The free blocks in the order of the chain.                              *)
FreeBlocks ==
  LET met[n \in 0 .. num_items] ==
        IF n = 0 THEN <<>>
        ELSE LET s == met[n - 1]
                 b == IF s = <<>> THEN first_idx ELSE free_list[Last(s)]
             IN  IF Len(s) = n - 1 /\ b \in Block THEN Append(s, b) ELSE s
  IN  met[num_items]

(* The allocator implements a pool of blocks.                              *)
ThePool == INSTANCE Pool WITH free <- FreeBlocks

ImplementsPool == ThePool!Spec
=============================================================================
