-------------------------------- MODULE Pool --------------------------------
(***************************************************************************)
(* What a pool of blocks promises: it hands out each free block once, the  *)
(* one that came back last first, gives nothing when all are out, and      *)
(* refuses what is not one of its blocks or was not handed out.            *)
(***************************************************************************)
EXTENDS Integers, SequencesExt

CONSTANTS Block, NULL

VARIABLES
  free,      \* the free blocks, the next one to be handed out first
  block,     \* what the last request returned, NULL when all are out
  result     \* what the last release returned

Init ==
  /\ ToSet(free) = Block
  /\ IsInjective(free)
  /\ block = NULL
  /\ result = "Success"

Get ==
  /\ IF free = <<>>
     THEN block' = NULL /\ UNCHANGED free
     ELSE block' = Head(free) /\ free' = Tail(free)
  /\ UNCHANGED result

Release(b) ==
  /\ b \notin ToSet(free)
  /\ free' = Cons(b, free)
  /\ result' = "Success"
  /\ UNCHANGED block

Refuse ==
  /\ result' \in {"UnalignedFree", "OutOfRange", "DoubleFree"}
  /\ UNCHANGED <<free, block>>

Next == Get \/ (\E b \in Block : Release(b)) \/ Refuse

Spec == Init /\ [][Next]_<<free, block, result>>
=============================================================================
