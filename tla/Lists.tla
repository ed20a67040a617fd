-------------------------------- MODULE Lists -------------------------------
(***************************************************************************)
(* What the lists promise: sequences of items, into which an item can be   *)
(* inserted after another or in front, and from which it can be detached.  *)
(***************************************************************************)
EXTENDS SequencesExt

CONSTANTS Heads, Items, NULL

VARIABLE lists       \* the items of each list

Init == lists = [h \in Heads |-> <<>>]

Position(h, prev) ==
  IF prev = NULL THEN 0 ELSE CHOOSE i \in DOMAIN lists[h] : lists[h][i] = prev

Insert(h, prev, item) ==
  lists' = [lists EXCEPT ![h] = InsertAt(@, Position(h, prev) + 1, item)]

Detach(h, item) ==
  lists' = [lists EXCEPT ![h] = RemoveFirst(@, item)]

(* An item is in one list at most.                                         *)
Free(item) == \A h \in Heads : ~Contains(lists[h], item)

Next ==
  \E h \in Heads :
    /\ lists'[h] # lists[h]
    /\ \/ \E item \in Items, prev \in ToSet(lists[h]) \cup {NULL} :
            Free(item) /\ Insert(h, prev, item)
       \/ \E item \in ToSet(lists[h]) : Detach(h, item)

Spec == Init /\ [][Next]_lists
=============================================================================
