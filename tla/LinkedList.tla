----------------------------- MODULE LinkedList -----------------------------
(***************************************************************************)
(* The intrusive doubly linked lists of disastrOS, pointer by pointer.     *)
(* An item has one prev and one next, whatever list it is in, so it can be *)
(* in one list at a time; callers insert items that are in no list, after  *)
(* an item that is in it, and detach items from the list they are in       *)
(* (Placement and Family of Processes say so of the lists of PCBs).        *)
(***************************************************************************)
EXTENDS Integers, SequencesExt

CONSTANTS
  Heads,       \* the lists
  Items,       \* the items
  NULL         \* the null pointer, no item

VARIABLES
  first, last, size,    \* the fields of each ListHead
  prev, next,           \* the fields of each ListItem
  owner                 \* the list the callers put an item in, or NULL

vars == <<first, last, size, prev, next, owner>>

Init ==
  /\ first = [h \in Heads |-> NULL]
  /\ last = [h \in Heads |-> NULL]
  /\ size = [h \in Heads |-> 0]
  /\ prev = [i \in Items |-> NULL]
  /\ next = [i \in Items |-> NULL]
  /\ owner = [i \in Items |-> NULL]

(* Assigning through a pointer, if it is not null.                         *)
Set(field, at, value) == [i \in DOMAIN field |-> IF i = at THEN value ELSE field[i]]

(* Mutant: the last item of the list is not kept up to date.               *)
List_insertNotLast(h, before, item) ==
  LET after == IF before # NULL THEN next[before] ELSE first[h]
  IN  /\ prev' = Set(Set(prev, item, before), after, item)
      /\ next' = Set(Set(next, item, after), before, item)
      /\ first' = IF before = NULL THEN [first EXCEPT ![h] = item] ELSE first
      /\ UNCHANGED last
      /\ size' = [size EXCEPT ![h] = @ + 1]
      /\ owner' = [owner EXCEPT ![item] = h]

List_insert(h, before, item) ==
  LET after == IF before # NULL THEN next[before] ELSE first[h]
  IN  /\ prev' = Set(Set(prev, item, before), after, item)
      /\ next' = Set(Set(next, item, after), before, item)
      /\ first' = IF before = NULL THEN [first EXCEPT ![h] = item] ELSE first
      /\ last' = IF after = NULL THEN [last EXCEPT ![h] = item] ELSE last
      /\ size' = [size EXCEPT ![h] = @ + 1]
      /\ owner' = [owner EXCEPT ![item] = h]

(* Mutant: the item keeps its own pointers.                                *)
List_detachLinked(h, item) ==
  LET before == prev[item]
      after  == next[item]
  IN  /\ next' = Set(next, before, after)
      /\ prev' = Set(prev, after, before)
      /\ first' = IF item = first[h] THEN [first EXCEPT ![h] = after] ELSE first
      /\ last' = IF item = last[h] THEN [last EXCEPT ![h] = before] ELSE last
      /\ size' = [size EXCEPT ![h] = @ - 1]
      /\ owner' = [owner EXCEPT ![item] = NULL]

(* Mutant: the front of the list is forgotten.                             *)
List_detachNotFirst(h, item) ==
  LET before == prev[item]
      after  == next[item]
  IN  /\ next' = Set(Set(next, before, after), item, NULL)
      /\ prev' = Set(Set(prev, after, before), item, NULL)
      /\ UNCHANGED first
      /\ last' = IF item = last[h] THEN [last EXCEPT ![h] = before] ELSE last
      /\ size' = [size EXCEPT ![h] = @ - 1]
      /\ owner' = [owner EXCEPT ![item] = NULL]

List_detach(h, item) ==
  LET before == prev[item]
      after  == next[item]
  IN  /\ next' = Set(Set(next, before, after), item, NULL)
      /\ prev' = Set(Set(prev, after, before), item, NULL)
      /\ first' = IF item = first[h] THEN [first EXCEPT ![h] = after] ELSE first
      /\ last' = IF item = last[h] THEN [last EXCEPT ![h] = before] ELSE last
      /\ size' = [size EXCEPT ![h] = @ - 1]
      /\ owner' = [owner EXCEPT ![item] = NULL]

(* An item with a neighbour is refused; that it has none does not mean     *)
(* that it is in no list.                                                  *)
Linked(item) == next[item] # NULL \/ prev[item] # NULL

Inserts(item) ==
  \E h \in Heads :
    /\ owner[item] = NULL
    /\ ~Linked(item)
    /\ \E before \in {i \in Items : owner[i] = h} \cup {NULL} : List_insert(h, before, item)

Detaches ==
  \E item \in Items : owner[item] # NULL /\ List_detach(owner[item], item)

Next == (\E item \in Items : Inserts(item)) \/ Detaches

Spec == Init /\ [][Next]_vars

-----------------------------------------------------------------------------
(* s is what one meets from `from' on, following the pointers of field.    *)
IsChain(s, from, field) ==
  /\ from = IF s = <<>> THEN NULL ELSE s[1]
  /\ \A i \in 1 .. Len(s) : field[s[i]] = IF i = Len(s) THEN NULL ELSE s[i + 1]

(* The items one meets from `from' on, at most as many as there are.       *)
Walk(from, field) ==
  LET met[n \in 0 .. Cardinality(Items)] ==
        IF n = 0 THEN <<>>
        ELSE LET s    == met[n - 1]
                 item == IF s = <<>> THEN from ELSE field[Last(s)]
             IN  IF Len(s) = n - 1 /\ item \in Items THEN Append(s, item) ELSE s
  IN  met[Cardinality(Items)]

TypeOK ==
  /\ {first, last} \subseteq [Heads -> Items \cup {NULL}]
  /\ {prev, next} \subseteq [Items -> Items \cup {NULL}]
  /\ size \in [Heads -> 0 .. Cardinality(Items)]
  /\ owner \in [Items -> Heads \cup {NULL}]

(* Read from the front or from the back, a list holds the items that were  *)
(* inserted into it and not detached, each once, and as many as its size:  *)
(* no insertion or detach at an end, in the middle or of the only item     *)
(* leaves a pointer behind.                                                *)
BothWaysAgree ==
  \A h \in Heads :
    LET s == Walk(first[h], next)
    IN  /\ IsChain(s, first[h], next)
        /\ IsChain(Reverse(s), last[h], prev)
        /\ IsInjective(s)
        /\ ToSet(s) = {i \in Items : owner[i] = h}
        /\ Len(s) = size[h]

(* An item that is in no list has no neighbour, so that List_insert never  *)
(* refuses it and silently leaves a PCB out of every list.                 *)
DetachedIsUnlinked == \A i \in Items : owner[i] = NULL => ~Linked(i)

(* The lists implement sequences.                                          *)
TheLists == INSTANCE Lists WITH lists <- [h \in Heads |-> Walk(first[h], next)]

ImplementsLists == TheLists!Spec
=============================================================================
