-------------------------- MODULE PooledListsProofs -------------------------
(***************************************************************************)
(* Proofs about the data structures under all the rest: the pool allocator *)
(* keeps a chain of exactly the free blocks and implements Pool, and the   *)
(* lists hold what was put into them, both ways, and implement Lists, for  *)
(* any number and size of blocks, any lists, and any offsets released.     *)
(***************************************************************************)
EXTENDS PooledLists, CollectionLemmas

-----------------------------------------------------------------------------
(* s is what one meets from `from' on, until `end'.                        *)
Chain(s, from, field, end) ==
  /\ from = IF s = <<>> THEN end ELSE s[1]
  /\ \A i \in 1 .. Len(s) : field[s[i]] = IF i = Len(s) THEN end ELSE s[i + 1]

(* One more step from the items t met so far, the n-th if there is one.    *)
Met(t, n, from, field, S) ==
  LET b == IF t = <<>> THEN from ELSE field[Last(t)]
  IN  IF Len(t) = n - 1 /\ b \in S THEN Append(t, b) ELSE t

Meets(g, N, from, field, S) ==
  g = [n \in 0 .. N |-> IF n = 0 THEN <<>> ELSE Met(g[n - 1], n, from, field, S)]

(* The first items of s, all of them if there are fewer than m.            *)
Upto(s, m) == SubSeq(s, 1, IF m <= Len(s) THEN m ELSE Len(s))

(* Each step of a walk adds the next item of the chain; once it has come   *)
(* to the end, the walk stays there.                                       *)
LEMMA OneMore ==
  ASSUME NEW S, NEW s \in Seq(S), NEW from, NEW field, NEW end, end \notin S,
         Chain(s, from, field, end), NEW n \in Nat \ {0}
  PROVE  Met(Upto(s, n - 1), n, from, field, S) = Upto(s, n)
<1>. DEFINE len == Len(s)
            k == IF n - 1 <= len THEN n - 1 ELSE len
            t == SubSeq(s, 1, k)
            b == IF t = <<>> THEN from ELSE field[Last(t)]
<1>1. len \in Nat /\ k \in Nat /\ k <= len
  BY Members
<1>2. t \in Seq(S) /\ Len(t) = k /\ \A i \in 1 .. k : t[i] = s[i]
  <2>. HIDE DEF k
  <2>. QED  BY <1>1, Cut
<1>3. SubSeq(s, 1, len) = s /\ Upto(s, n - 1) = t
  BY DEF Upto
<1>4. CASE n <= len
  <2>1. k = n - 1 /\ k + 1 \in 1 .. len
    BY <1>1, <1>4
  <2>2. b = s[n]
    <3>1. CASE n = 1
      <4>1. t = <<>> /\ s # <<>>
        BY <1>1, <1>2, <1>4, <2>1, <3>1
      <4>. QED  BY <3>1, <4>1 DEF Chain
    <3>2. CASE n # 1
      <4>1. k \in 1 .. len /\ k # len /\ t # <<>> /\ Last(t) = s[k]
        BY <1>1, <1>2, <1>4, <2>1, <3>2 DEF Last
      <4>2. field[s[k]] = s[k + 1]
        BY <4>1 DEF Chain
      <4>. QED  BY <2>1, <4>1, <4>2
    <3>. QED  BY <3>1, <3>2
  <2>3. b \in S
    BY <1>1, <1>4, <2>2, Members
  <2>4. Append(SubSeq(s, 1, n - 1), s[n]) = SubSeq(s, 1, n) /\ Upto(s, n) = SubSeq(s, 1, n)
    BY <1>1, <1>4 DEF Upto
  <2>5. Met(t, n, from, field, S) = Append(t, b)
    <3>. HIDE DEF t
    <3>. QED  BY <1>2, <2>1, <2>3 DEF Met
  <2>. HIDE DEF b
  <2>. QED  BY <1>3, <2>1, <2>2, <2>4, <2>5
<1>5. CASE n > len
  <2>1. k = len /\ t = s /\ Upto(s, n) = s
    <3>1. k = len /\ ~(n <= len)
      BY <1>1, <1>5
    <3>. QED  BY <1>3, <3>1 DEF Upto
  <2>2. Len(s) # n - 1 \/ b \notin S
    <3>1. CASE s = <<>>
      BY <2>1, <3>1 DEF Chain
    <3>2. CASE s # <<>>
      <4>1. len \in 1 .. len
        BY <3>2, Members
      <4>2. field[s[len]] = end
        BY <4>1 DEF Chain
      <4>. QED  BY <2>1, <3>2, <4>2 DEF Last
    <3>. QED  BY <3>1, <3>2
  <2>3. b = IF s = <<>> THEN from ELSE field[Last(s)]
    BY <2>1
  <2>. HIDE DEF b, t, k, len
  <2>4. Met(s, n, from, field, S) = s
    BY <2>2, <2>3 DEF Met
  <2>. QED  BY <1>3, <2>1, <2>4
<1>. QED  BY <1>1, <1>4, <1>5

(* A walk that makes as many steps as there are items meets the chain.     *)
LEMMA WalkMeets ==
  ASSUME NEW S, NEW s \in Seq(S), NEW from, NEW field, NEW end, end \notin S,
         Chain(s, from, field, end), NEW N \in Nat, Len(s) <= N
  PROVE  (CHOOSE g : Meets(g, N, from, field, S))[N] = s
<1>. DEFINE met == CHOOSE g : Meets(g, N, from, field, S)
            chain == [n \in 0 .. N |-> Upto(s, n)]
            F == {n \in 0 .. N : met[n] # chain[n]}
<1>1. Len(s) \in Nat /\ Upto(s, 0) = <<>> /\ Upto(s, N) = s
  <2>1. Len(s) \in Nat
    BY Members
  <2>2. Upto(s, 0) = <<>>
    BY <2>1 DEF Upto
  <2>3. Upto(s, N) = SubSeq(s, 1, Len(s))
    BY <2>1 DEF Upto
  <2>. QED  BY <2>1, <2>2, <2>3
<1>2. \A n \in 0 .. N : n # 0 => Met(Upto(s, n - 1), n, from, field, S) = Upto(s, n)
  BY OneMore
<1>3. Meets(chain, N, from, field, S)
  <2>1. \A n \in 0 .. N :
          Upto(s, n) = IF n = 0 THEN <<>> ELSE Met(chain[n - 1], n, from, field, S)
    <3>1. \A n \in 0 .. N : n # 0 => chain[n - 1] = Upto(s, n - 1)
      OBVIOUS
    <3>. HIDE DEF chain
    <3>. QED  BY <1>1, <1>2, <3>1
  <2>. QED  BY <2>1 DEF Meets
<1>4. Meets(met, N, from, field, S)
  <2>. HIDE DEF chain
  <2>. QED  BY <1>3
<1>5. \A n \in 0 .. N :
        met[n] = IF n = 0 THEN <<>> ELSE Met(met[n - 1], n, from, field, S)
  <2>. HIDE DEF met
  <2>. QED  BY <1>4 DEF Meets
<1>6. \A n \in 0 .. N :
        chain[n] = IF n = 0 THEN <<>> ELSE Met(chain[n - 1], n, from, field, S)
  <2>. HIDE DEF chain
  <2>. QED  BY <1>3 DEF Meets
<1>7. chain[N] = s
  BY <1>1
<1>. HIDE DEF met, chain
<1>8. ASSUME F # {} PROVE FALSE
  <2>. DEFINE n == Min(F)
  <2>1. n \in F /\ \A i \in F : n <= i
    <3>1. F \in SUBSET Nat
      OBVIOUS
    <3>. HIDE DEF F
    <3>. QED  BY <1>8, <3>1, FirstPosition
  <2>. HIDE DEF n
  <2>2. n \in 0 .. N /\ n # 0
    BY <1>5, <1>6, <2>1
  <2>3. n - 1 \in 0 .. N /\ n - 1 \notin F
    BY <2>1, <2>2
  <2>4. met[n - 1] = chain[n - 1]
    BY <2>3
  <2>. QED  BY <1>5, <1>6, <2>1, <2>2, <2>4
<1>9. met[N] = s
  BY <1>7, <1>8
<1>. QED  BY <1>9 DEF met

-----------------------------------------------------------------------------
(* The pool allocator.                                                     *)
FreeSet == {b \in Block : free_list[b] # DetachedIdx}

(* s is the chain of the free blocks.                                      *)
FreeChain(s) ==
  /\ s \in Seq(Block)
  /\ Chain(s, first_idx, free_list, NullIdx)
  /\ IsInjective(s)
  /\ ToSet(s) = FreeSet
  /\ Len(s) = size

PoolInv == TypeOK /\ \E s : FreeChain(s)

LEMMA BlocksFinite == IsFiniteSet(Block) /\ Cardinality(Block) = num_items
<1>1. num_items \in Nat \ {0}
  BY PoolAllocatorAssumption
<1>2. /\ IsFiniteSet(0 .. num_items - 1)
      /\ Cardinality(0 .. num_items - 1) = num_items - 1 - 0 + 1
  BY <1>1, FS_Interval
<1>. QED  BY <1>1, <1>2 DEF Block

(* A list without repetitions is as long as the set of its members.        *)
LEMMA LengthIsCardinality ==
  ASSUME NEW S, IsFiniteSet(S), NEW s \in Seq(S), IsInjective(s)
  PROVE  /\ Len(s) = Cardinality(ToSet(s))
         /\ Len(s) <= Cardinality(S)
<1>1. Len(s) \in Nat /\ DOMAIN s = 1 .. Len(s) /\ ToSet(s) \subseteq S
  BY Members
<1>2. IsFiniteSet(ToSet(s)) /\ Cardinality(ToSet(s)) <= Cardinality(S)
  BY <1>1, FS_Subset
<1>3. s \in [1 .. Len(s) -> ToSet(s)] /\ \A e \in ToSet(s) : \E i \in 1 .. Len(s) : s[i] = e
  BY Members
<1>4. s \in Injection(1 .. Len(s), ToSet(s)) /\ s \in Surjection(1 .. Len(s), ToSet(s))
  BY <1>3 DEF Injection, Surjection
<1>5. ExistsBijection(1 .. Len(s), ToSet(s))
  BY <1>4 DEF ExistsBijection, Bijection
<1>. QED  BY <1>1, <1>2, <1>5, FS_CountingElements

(* The walk from first_idx meets the chain.                                *)
LEMMA FreeBlocksAre == PoolInv => \A s : FreeChain(s) => FreeBlocks = s
<1>1. SUFFICES ASSUME PoolInv, NEW s, FreeChain(s) PROVE FreeBlocks = s
  OBVIOUS
<1>2. num_items \in Nat /\ NullIdx \notin Block
  BY PoolAllocatorAssumption DEF NullIdx, Block
<1>3. s \in Seq(Block) /\ Len(s) <= num_items
  BY <1>1, LengthIsCardinality, BlocksFinite DEF FreeChain
<1>4. (CHOOSE g : Meets(g, num_items, first_idx, free_list, Block))[num_items] = s
  BY <1>1, <1>2, <1>3, WalkMeets DEF FreeChain
<1>. QED  BY <1>4, Zenon DEF FreeBlocks, Meets, Met

(* The state at boot: PoolAllocator_init links the blocks in order.        *)
LEMMA InitChain == Init => TypeOK /\ FreeChain([i \in 1 .. num_items |-> i - 1])
<1>1. SUFFICES ASSUME Init PROVE TypeOK /\ FreeChain([i \in 1 .. num_items |-> i - 1])
  OBVIOUS
<1>. DEFINE s == [i \in 1 .. num_items |-> i - 1]
<1>2. num_items \in Nat \ {0} /\ NULL \notin Int
  BY PoolAllocatorAssumption
<1>3. TypeOK
  BY <1>1, <1>2 DEF Init, TypeOK, Block, NullIdx, DetachedIdx
<1>4. s \in Seq(Block) /\ Len(s) = num_items
  BY <1>2 DEF Block
<1>5. \A i \in 1 .. num_items : s[i] = i - 1
  OBVIOUS
<1>6. s # <<>> /\ ToSet(s) = {s[i] : i \in 1 .. num_items}
  BY <1>2, <1>4, Members
<1>. HIDE DEF s
<1>7. Chain(s, first_idx, free_list, NullIdx)
  <2>1. first_idx = s[1]
    BY <1>1, <1>2, <1>5 DEF Init
  <2>2. ASSUME NEW i \in 1 .. num_items
        PROVE  free_list[s[i]] = IF i = num_items THEN NullIdx ELSE s[i + 1]
    <3>1. i - 1 \in Block /\ s[i] = i - 1
      BY <1>2, <1>5 DEF Block
    <3>2. CASE i = num_items
      BY <1>1, <1>2, <3>1, <3>2 DEF Init
    <3>3. CASE i # num_items
      <4>1. s[i + 1] = i
        BY <1>2, <1>5, <3>3
      <4>. QED  BY <1>1, <1>2, <3>1, <3>3, <4>1 DEF Init
    <3>. QED  BY <3>2, <3>3
  <2>. QED  BY <1>4, <1>6, <2>1, <2>2 DEF Chain
<1>8. IsInjective(s)
  BY <1>4, <1>5, Injective
<1>9. ToSet(s) = FreeSet
  <2>1. FreeSet = Block
    BY <1>1, <1>2 DEF Init, FreeSet, Block, NullIdx, DetachedIdx
  <2>2. ASSUME NEW b \in Block PROVE b \in ToSet(s)
    <3>1. b + 1 \in 1 .. num_items /\ s[b + 1] = b
      BY <1>2, <1>5 DEF Block
    <3>. QED  BY <1>6, <3>1
  <2>. QED  BY <1>4, <2>1, <2>2, Members
<1>10. Len(s) = size
  BY <1>1, <1>4 DEF Init
<1>11. FreeChain(s)
  BY <1>4, <1>7, <1>8, <1>9, <1>10 DEF FreeChain
<1>. QED  BY <1>3, <1>11 DEF s

(* PoolAllocator_getBlock takes the first block of the chain.              *)
LEMMA GetChain ==
  ASSUME TypeOK, NEW s, FreeChain(s), Get
  PROVE  s # <<>> /\ block' = Head(s) /\ FreeChain(Tail(s))' /\ TypeOK'
<1>1. num_items \in Nat \ {0} /\ NULL \notin Int
  BY PoolAllocatorAssumption
<1>2. /\ s \in Seq(Block) /\ IsInjective(s) /\ ToSet(s) = FreeSet /\ Len(s) = size
      /\ first_idx = IF s = <<>> THEN NullIdx ELSE s[1]
      /\ \A i \in 1 .. Len(s) : free_list[s[i]] = IF i = Len(s) THEN NullIdx ELSE s[i + 1]
  BY DEF FreeChain, Chain
<1>. DEFINE t == Tail(s)
<1>3. s # <<>> /\ first_idx = s[1] /\ first_idx \in Block /\ Head(s) = s[1]
  BY <1>2 DEF Get, TypeOK
<1>4. /\ t \in Seq(Block) /\ IsInjective(t)
      /\ s[1] \notin ToSet(t) /\ ToSet(s) = ToSet(t) \cup {s[1]}
  BY <1>2, <1>3, DetachHead
<1>5. /\ Len(s) \in Nat \ {0} /\ Len(t) = Len(s) - 1
      /\ \A i \in 1 .. Len(t) : t[i] = s[i + 1]
  <2>1. Len(s) \in Nat \ {0}
    BY <1>2, <1>3, Members
  <2>2. /\ Len(t) = Len(s) - 1
        /\ \A i \in 1 .. Len(t) : t[i] = s[i + 1]
    BY <1>2, <1>3, HeadTailProperties
  <2>. QED  BY <2>1, <2>2
<1>6. /\ block' = s[1] /\ size' = size - 1 /\ UNCHANGED result
      /\ first_idx' = free_list[s[1]]
      /\ free_list' = [free_list EXCEPT ![s[1]] = DetachedIdx]
      /\ free_list \in [Block -> Block \cup {NullIdx, DetachedIdx}]
  BY <1>3 DEF Get, TypeOK
<1>7. first_idx' = IF Len(s) = 1 THEN NullIdx ELSE s[2]
  BY <1>2, <1>5, <1>6
<1>8. TypeOK'
  <2>1. first_idx' \in Block \cup {NullIdx}
    <3>1. Len(s) # 1 => s[2] \in Block
      BY <1>2, <1>5, Members
    <3>. QED  BY <1>7, <3>1
  <2>2. size' \in 0 .. num_items
    BY <1>1, <1>2, <1>5, <1>6 DEF TypeOK
  <2>. QED  BY <1>3, <1>6, <2>1, <2>2 DEF TypeOK
<1>. HIDE DEF t
<1>9. Chain(t, first_idx', free_list', NullIdx)
  <2>1. first_idx' = IF t = <<>> THEN NullIdx ELSE t[1]
    <3>1. t = <<>> <=> Len(t) = 0
      BY <1>4, Members
    <3>2. Len(s) # 1 => t[1] = s[2]
      BY <1>5
    <3>. QED  BY <1>5, <1>7, <3>1, <3>2
  <2>2. ASSUME NEW i \in 1 .. Len(t)
        PROVE  free_list'[t[i]] = IF i = Len(t) THEN NullIdx ELSE t[i + 1]
    <3>1. t[i] # s[1] /\ t[i] \in Block
      BY <1>4, <2>2, Members
    <3>2. free_list'[t[i]] = free_list[s[i + 1]]
      BY <1>5, <1>6, <2>2, <3>1
    <3>3. i + 1 \in 1 .. Len(s)
      BY <1>5, <2>2
    <3>4. free_list[s[i + 1]] = IF i + 1 = Len(s) THEN NullIdx ELSE s[i + 1 + 1]
      BY <1>2, <3>3
    <3>5. i # Len(t) => t[i + 1] = s[i + 1 + 1]
      BY <1>5, <2>2
    <3>. QED  BY <1>5, <3>2, <3>4, <3>5
  <2>. QED  BY <2>1, <2>2 DEF Chain
<1>10. ToSet(t) = FreeSet'
  BY <1>2, <1>3, <1>4, <1>6 DEF FreeSet
<1>11. FreeChain(t)'
  BY <1>2, <1>4, <1>5, <1>6, <1>9, <1>10 DEF FreeChain
<1>. QED  BY <1>3, <1>6, <1>8, <1>11 DEF t

(* PoolAllocator_releaseBlock puts the block at the front of the chain; it *)
(* succeeds for a block that is handed out, and for nothing else.          *)
LEMMA ReleaseChain ==
  ASSUME TypeOK, NEW s, FreeChain(s), NEW offset \in Int, Release(offset)
  PROVE  /\ Index(offset) \in Block
         /\ Index(offset) \notin ToSet(s)
         /\ FreeChain(Cons(Index(offset), s))'
         /\ TypeOK'
         /\ result' = "Success" /\ UNCHANGED block
<1>1. num_items \in Nat \ {0} /\ NULL \notin Int
  BY PoolAllocatorAssumption
<1>2. PICK b : b = Index(offset)
  OBVIOUS
<1>. DEFINE t == Cons(b, s)
<1>3. /\ s \in Seq(Block) /\ IsInjective(s) /\ ToSet(s) = FreeSet /\ Len(s) = size
      /\ first_idx = IF s = <<>> THEN NullIdx ELSE s[1]
      /\ \A i \in 1 .. Len(s) : free_list[s[i]] = IF i = Len(s) THEN NullIdx ELSE s[i + 1]
  BY DEF FreeChain, Chain
<1>4. b \in Block /\ free_list[b] = DetachedIdx
  BY <1>2 DEF Release, ReleaseError
<1>5. /\ result' = "Success" /\ UNCHANGED block /\ size' = size + 1
      /\ first_idx' = b
      /\ free_list' = [free_list EXCEPT ![b] = first_idx]
      /\ free_list \in [Block -> Block \cup {NullIdx, DetachedIdx}]
      /\ first_idx \in Block \cup {NullIdx}
  BY <1>2 DEF Release, TypeOK
<1>6. b \notin ToSet(s)
  BY <1>3, <1>4 DEF FreeSet
<1>7. t \in Seq(Block) /\ ToSet(t) = ToSet(s) \cup {b} /\ IsInjective(t)
  BY <1>3, <1>4, <1>6, InsertFirst
<1>8. Len(s) \in Nat /\ (s = <<>> <=> Len(s) = 0)
  BY <1>3, Members
<1>9. /\ Len(t) = Len(s) + 1 /\ t[1] = b
      /\ \A i \in 1 .. Len(s) : t[i + 1] = s[i]
  <2>1. t = <<b>> \o s
    BY DEF Cons
  <2>2. <<b>> \in Seq(Block) /\ Len(<<b>>) = 1 /\ <<b>>[1] = b
    BY <1>4
  <2>3. /\ Len(<<b>> \o s) = Len(<<b>>) + Len(s)
        /\ \A i \in 1 .. Len(<<b>>) + Len(s) :
             (<<b>> \o s)[i] = IF i <= Len(<<b>>) THEN <<b>>[i] ELSE s[i - Len(<<b>>)]
    BY <1>3, <2>2, ConcatProperties
  <2>. HIDE DEF t
  <2>4. Len(t) = 1 + Len(s)
    BY <2>1, <2>2, <2>3
  <2>5. \A i \in 1 .. 1 + Len(s) : t[i] = IF i <= 1 THEN <<b>>[i] ELSE s[i - 1]
    BY <2>1, <2>2, <2>3
  <2>. QED  BY <1>8, <2>2, <2>4, <2>5
<1>. HIDE DEF t
<1>10. Len(t) <= num_items
  BY <1>7, LengthIsCardinality, BlocksFinite
<1>11. TypeOK'
  <2>1. size' \in 0 .. num_items
    BY <1>1, <1>3, <1>5, <1>8, <1>9, <1>10
  <2>. QED  BY <1>4, <1>5, <2>1 DEF TypeOK
<1>12. Chain(t, first_idx', free_list', NullIdx)
  <2>1. t # <<>>
    BY <1>7, <1>8, <1>9, Members
  <2>2. ASSUME NEW i \in 1 .. Len(t)
        PROVE  free_list'[t[i]] = IF i = Len(t) THEN NullIdx ELSE t[i + 1]
    <3>1. CASE i = 1
      <4>1. free_list'[t[i]] = first_idx
        BY <1>4, <1>5, <1>9, <3>1
      <4>2. Len(s) # 0 => t[2] = s[1]
        BY <1>8, <1>9
      <4>. QED  BY <1>3, <1>8, <1>9, <3>1, <4>1, <4>2
    <3>2. CASE i # 1
      <4>. DEFINE j == i - 1
      <4>1. j \in 1 .. Len(s) /\ i = j + 1
        BY <1>8, <1>9, <2>2, <3>2
      <4>. HIDE DEF j
      <4>2. t[i] = s[j] /\ s[j] \in Block /\ s[j] # b
        BY <1>3, <1>6, <1>9, <4>1, Members
      <4>3. free_list'[t[i]] = IF j = Len(s) THEN NullIdx ELSE s[j + 1]
        BY <1>3, <1>5, <4>1, <4>2
      <4>4. j # Len(s) => t[i + 1] = s[j + 1]
        BY <1>8, <1>9, <4>1
      <4>. QED  BY <1>8, <1>9, <4>1, <4>3, <4>4
    <3>. QED  BY <3>1, <3>2
  <2>. QED  BY <1>5, <1>9, <2>1, <2>2 DEF Chain
<1>13. ToSet(t) = FreeSet'
  <2>1. first_idx # DetachedIdx
    BY <1>5 DEF Block, NullIdx, DetachedIdx
  <2>. QED  BY <1>3, <1>4, <1>5, <1>7, <2>1 DEF FreeSet
<1>14. FreeChain(t)'
  BY <1>3, <1>5, <1>7, <1>9, <1>12, <1>13 DEF FreeChain
<1>. QED  BY <1>2, <1>4, <1>5, <1>6, <1>11, <1>14 DEF t

LEMMA RefuseChain ==
  ASSUME TypeOK, NEW s, FreeChain(s), NEW offset, Refuse(offset)
  PROVE  /\ FreeChain(s)' /\ TypeOK'
         /\ result' \in {"UnalignedFree", "OutOfRange", "DoubleFree"} /\ UNCHANGED block
BY DEF TypeOK, FreeChain, Chain, FreeSet, Refuse, ReleaseError

LEMMA GetNothingChain ==
  ASSUME TypeOK, NEW s, FreeChain(s), GetNothing
  PROVE  s = <<>> /\ block' = NULL /\ FreeChain(s)' /\ TypeOK' /\ UNCHANGED result
<1>1. s = <<>>
  <2>1. s # <<>> => s[1] \in Block
    BY Members DEF FreeChain
  <2>. QED  BY <2>1 DEF FreeChain, Chain, GetNothing, Block, NullIdx
<1>. QED  BY <1>1 DEF TypeOK, FreeChain, Chain, FreeSet, GetNothing

(* Whatever is done with a pool is one of these calls.                     *)
PoolStep ==
  \/ Get
  \/ GetNothing
  \/ \E offset \in Int : Release(offset) \/ Refuse(offset)
  \/ UNCHANGED vars

LEMMA AllocatorSteps == [Next]_vars => PoolStep
BY PoolAllocatorAssumption
   DEF Next, PoolAllocator_getBlock, PoolAllocator_releaseBlock, PoolStep

LEMMA PooledSteps == [PooledNext]_<<vars, listVars>> => PoolStep
<1>1. \A b \in Block : b * item_size \in Int
  BY PoolAllocatorAssumption DEF Block
<1>2. Offsets \subseteq Int
  BY PoolAllocatorAssumption
<1>3. Alloc => Get
  BY DEF Alloc
<1>4. AllocFails => GetNothing
  BY DEF AllocFails
<1>5. Free => \E offset \in Int : Release(offset)
  BY <1>1 DEF Free
<1>6. FreeRefused => \E offset \in Int : Refuse(offset)
  BY <1>2 DEF FreeRefused
<1>7. Inserts => UNCHANGED vars
  BY DEF Inserts
<1>8. Detaches => UNCHANGED vars
  BY DEF Detaches
<1>. QED  BY <1>3, <1>4, <1>5, <1>6, <1>7, <1>8, Zenon DEF PooledNext, PoolStep

(* The pool before and after a call, and what the call is to the callers.  *)
LEMMA PoolKeeps == PoolInv /\ PoolStep => PoolInv'
<1>1. SUFFICES ASSUME TypeOK, NEW s, FreeChain(s), PoolStep PROVE PoolInv'
  BY DEF PoolInv
<1>2. CASE Get
  BY <1>1, <1>2, GetChain DEF PoolInv
<1>3. CASE GetNothing
  BY <1>1, <1>3, GetNothingChain DEF PoolInv
<1>4. ASSUME NEW offset \in Int, Release(offset) PROVE PoolInv'
  BY <1>1, <1>4, ReleaseChain DEF PoolInv
<1>5. ASSUME NEW offset \in Int, Refuse(offset) PROVE PoolInv'
  BY <1>1, <1>5, RefuseChain DEF PoolInv
<1>6. CASE UNCHANGED vars
  BY <1>1, <1>6 DEF PoolInv, vars, TypeOK, FreeChain, Chain, FreeSet
<1>. QED  BY <1>1, <1>2, <1>3, <1>4, <1>5, <1>6 DEF PoolStep

(* The calls that hand out, take back and refuse blocks are those of Pool. *)
LEMMA PoolImplements ==
  PoolInv /\ PoolStep => [ThePool!Next]_<<FreeBlocks, block, result>>
<1>1. (PoolInv => \A s : FreeChain(s) => FreeBlocks = s)'
  BY FreeBlocksAre, PTL
<1>2. SUFFICES ASSUME TypeOK, NEW s, FreeChain(s), PoolStep
               PROVE  ThePool!Next \/ UNCHANGED <<FreeBlocks, block, result>>
  BY DEF PoolInv
<1>3. PoolInv /\ PoolInv'
  BY <1>2, PoolKeeps DEF PoolInv
<1>4. FreeBlocks = s /\ \A t : FreeChain(t)' => FreeBlocks' = t
  BY <1>1, <1>2, <1>3, FreeBlocksAre
<1>5. CASE Get
  <2>1. s # <<>> /\ block' = Head(s) /\ FreeBlocks' = Tail(s) /\ UNCHANGED result
    BY <1>2, <1>4, <1>5, GetChain DEF Get
  <2>. QED  BY <1>4, <2>1 DEF ThePool!Next, ThePool!Get
<1>6. CASE GetNothing
  <2>1. s = <<>> /\ block' = NULL /\ FreeBlocks' = s /\ UNCHANGED result
    BY <1>2, <1>4, <1>6, GetNothingChain
  <2>. QED  BY <1>4, <2>1 DEF ThePool!Next, ThePool!Get
<1>7. ASSUME NEW offset \in Int, Release(offset) PROVE ThePool!Next
  <2>1. PICK b : b = Index(offset)
    OBVIOUS
  <2>2. /\ b \in Block /\ b \notin ToSet(s) /\ FreeBlocks' = Cons(b, s)
        /\ result' = "Success" /\ UNCHANGED block
    BY <1>2, <1>4, <1>7, <2>1, ReleaseChain
  <2>3. ThePool!ToSet(s) = ToSet(s) /\ ThePool!Cons(b, s) = Cons(b, s)
    BY DEF ToSet, Cons, ThePool!ToSet, ThePool!Cons
  <2>. QED  BY <1>4, <2>2, <2>3 DEF ThePool!Next, ThePool!Release
<1>8. ASSUME NEW offset \in Int, Refuse(offset) PROVE ThePool!Next
  <2>1. /\ FreeBlocks' = s /\ UNCHANGED block
        /\ result' \in {"UnalignedFree", "OutOfRange", "DoubleFree"}
    BY <1>2, <1>4, <1>8, RefuseChain
  <2>. QED  BY <1>4, <2>1 DEF ThePool!Next, ThePool!Refuse
<1>9. CASE UNCHANGED vars
  <2>1. FreeChain(s)' /\ UNCHANGED <<block, result>>
    BY <1>2, <1>9 DEF vars, FreeChain, Chain, FreeSet
  <2>. QED  BY <1>4, <2>1
<1>. QED  BY <1>2, <1>5, <1>6, <1>7, <1>8, <1>9 DEF PoolStep

(* PoolInv gives the invariant of the allocator that the run checks.       *)
LEMMA PoolSafe == PoolInv => ChainIsFree
<1>1. SUFFICES ASSUME TypeOK, NEW s, FreeChain(s) PROVE ChainIsFree
  BY DEF PoolInv
<1>2. s \in Seq(Block) /\ IsInjective(s) /\ Len(s) = size /\ ToSet(s) = FreeSet
  BY <1>1 DEF FreeChain
<1>3. Len(s) \in 0 .. num_items /\ s \in [1 .. Len(s) -> Block]
  BY <1>1, <1>2, Members DEF TypeOK
<1>4. s \in SeqOf(Block, num_items)
  BY <1>3 DEF SeqOf
<1>5. IsFreeChain(s)
  BY <1>1 DEF FreeChain, Chain, IsFreeChain
<1>. QED  BY <1>2, <1>4, <1>5 DEF ChainIsFree, FreeSet

LEMMA InitPool == Init => PoolInv /\ ThePool!Init
<1>. DEFINE s == [i \in 1 .. num_items |-> i - 1]
<1>1. SUFFICES ASSUME Init PROVE PoolInv /\ ThePool!Init
  OBVIOUS
<1>2. TypeOK /\ FreeChain(s)
  BY <1>1, InitChain
<1>. HIDE DEF s
<1>3. PoolInv
  BY <1>2 DEF PoolInv
<1>4. FreeBlocks = s
  BY <1>2, <1>3, FreeBlocksAre
<1>5. FreeSet = Block
  BY <1>1, PoolAllocatorAssumption DEF FreeSet, Init, Block, NullIdx, DetachedIdx
<1>6. ToSet(s) = Block /\ IsInjective(s)
  BY <1>2, <1>5 DEF FreeChain
<1>7. ThePool!ToSet(s) = ToSet(s) /\ ThePool!IsInjective(s) = IsInjective(s)
  BY DEF ToSet, IsInjective, ThePool!ToSet, ThePool!IsInjective
<1>. QED  BY <1>1, <1>3, <1>4, <1>6, <1>7 DEF ThePool!Init, Init

(* The allocator by itself: whatever offsets are released, whenever, the   *)
(* chain from first_idx has no cycle and holds exactly the blocks that are *)
(* not handed out (pool_allocator.c:49-91).                               *)
THEOREM AllocatorSafe == Spec => []ChainIsFree
<1>1. Init => PoolInv
  BY InitPool
<1>2. PoolInv /\ [Next]_vars => PoolInv'
  BY PoolKeeps, AllocatorSteps
<1>. QED  BY <1>1, <1>2, PoolSafe, PTL DEF Spec


-----------------------------------------------------------------------------
(* The lists.                                                              *)
LinksTyped ==
  /\ first \in [Heads -> Block \cup {NULL}]
  /\ last \in [Heads -> Block \cup {NULL}]
  /\ prev \in [Block -> Block \cup {NULL}]
  /\ next \in [Block -> Block \cup {NULL}]
  /\ length \in [Heads -> Nat]
  /\ owner \in [Block -> Heads \cup {NULL}]

(* s is the list h: the same items from the front and from the back.       *)
ListIs(h, s) ==
  /\ s \in Seq(Block)
  /\ first[h] = IF s = <<>> THEN NULL ELSE s[1]
  /\ last[h] = IF s = <<>> THEN NULL ELSE s[Len(s)]
  /\ \A i \in 1 .. Len(s) : next[s[i]] = IF i = Len(s) THEN NULL ELSE s[i + 1]
  /\ \A i \in 1 .. Len(s) : prev[s[i]] = IF i = 1 THEN NULL ELSE s[i - 1]
  /\ IsInjective(s)
  /\ ToSet(s) = {b \in Block : owner[b] = h}
  /\ Len(s) = length[h]

Unlinked == \A b \in Block : owner[b] = NULL => prev[b] = NULL /\ next[b] = NULL

(* Only blocks that are handed out are in lists.                           *)
ListedOut == \A b \in Block : owner[b] # NULL => HandedOut(b)

PooledInv ==
  /\ PoolInv
  /\ LinksTyped
  /\ \A h \in Heads : \E s : ListIs(h, s)
  /\ Unlinked
  /\ ListedOut

LEMMA NullNowhere == NULL \notin Block /\ NULL \notin Heads
BY PoolAllocatorAssumption, PooledListsAssumption DEF Block

(* The walk from the front of a list meets the list.                       *)
LEMMA WalkIs ==
  ASSUME NEW h \in Heads, NEW s, ListIs(h, s)
  PROVE  Links!Walk(first[h], next) = s
<1>1. num_items \in Nat /\ Cardinality(Block) = num_items /\ NULL \notin Block
  BY PoolAllocatorAssumption, NullNowhere, BlocksFinite
<1>2. s \in Seq(Block) /\ Len(s) <= num_items
  BY <1>1, LengthIsCardinality, BlocksFinite DEF ListIs
<1>3. Chain(s, first[h], next, NULL)
  BY DEF ListIs, Chain
<1>4. (CHOOSE g : Meets(g, num_items, first[h], next, Block))[num_items] = s
  BY <1>1, <1>2, <1>3, WalkMeets
<1>5. Links!Cardinality(Block) = num_items
  BY <1>1 DEF Links!Cardinality, Cardinality
<1>. QED  BY <1>4, <1>5, Zenon DEF Links!Walk, Links!Last, Meets, Met, Last

(* Read from the back, the list comes in reverse.                          *)
LEMMA BackwardsIs ==
  ASSUME NEW h \in Heads, NEW s, ListIs(h, s)
  PROVE  Links!IsChain(Reverse(s), last[h], prev)
<1>. DEFINE t == Reverse(s)
            n == Len(s)
<1>1. /\ s \in Seq(Block) /\ n \in Nat /\ (s = <<>> <=> n = 0)
      /\ last[h] = IF s = <<>> THEN NULL ELSE s[n]
      /\ \A i \in 1 .. n : prev[s[i]] = IF i = 1 THEN NULL ELSE s[i - 1]
  BY Members DEF ListIs
<1>2. t = [i \in 1 .. n |-> s[n - i + 1]]
  BY Zenon DEF Reverse
<1>3. t \in Seq(Block) /\ Len(t) = n /\ (t = <<>> <=> n = 0)
  <2>1. \A i \in 1 .. n : n - i + 1 \in 1 .. n
    BY <1>1
  <2>2. \A i \in 1 .. n : s[n - i + 1] \in Block
    BY <1>1, <2>1, Members
  <2>3. t \in Seq(Block) /\ Len(t) = n
    <3>. HIDE DEF n, t
    <3>. QED  BY <1>1, <1>2, <2>2, IsASeq
  <2>. HIDE DEF n, t
  <2>. QED  BY <2>3, Members
<1>. HIDE DEF t, n
<1>4. \A i \in 1 .. n : t[i] = s[n - i + 1]
  BY <1>2
<1>5. last[h] = IF t = <<>> THEN NULL ELSE t[1]
  <2>1. n # 0 => t[1] = s[n]
    BY <1>1, <1>4
  <2>. QED  BY <1>1, <1>3, <2>1
<1>6. ASSUME NEW i \in 1 .. Len(t)
      PROVE  prev[t[i]] = IF i = Len(t) THEN NULL ELSE t[i + 1]
  <2>. DEFINE j == n - i + 1
  <2>1. j \in 1 .. n /\ i \in 1 .. n /\ (j = 1 <=> i = n)
    BY <1>1, <1>3, <1>6
  <2>2. prev[t[i]] = IF j = 1 THEN NULL ELSE s[j - 1]
    <3>1. t[i] = s[j]
      BY <1>4, <2>1
    <3>. HIDE DEF j
    <3>. QED  BY <1>1, <2>1, <3>1
  <2>3. i # n => t[i + 1] = s[j - 1]
    <3>1. i # n => i + 1 \in 1 .. n /\ n - (i + 1) + 1 = j - 1
      BY <1>1, <2>1
    <3>. QED  BY <1>4, <3>1
  <2>. QED  BY <1>3, <2>1, <2>2, <2>3
<1>7. /\ last[h] = IF t = <<>> THEN NULL ELSE t[1]
      /\ \A i \in 1 .. Len(t) : prev[t[i]] = IF i = Len(t) THEN NULL ELSE t[i + 1]
  BY <1>5, <1>6
<1>. QED  BY <1>7 DEF Links!IsChain, t

(* A call that puts an item in the list h or takes it out leaves the items *)
(* that are not in h alone, and the other lists.                           *)
Elsewhere(h, item) ==
  /\ \A b \in Block : b # item => owner'[b] = owner[b]
  /\ \A b \in Block : b # item /\ owner[b] # h => prev'[b] = prev[b] /\ next'[b] = next[b]
  /\ \A g \in Heads :
       g # h => first'[g] = first[g] /\ last'[g] = last[g] /\ length'[g] = length[g]

(* What List_insert writes, field by field, between `before' and `after'.  *)
LEMMA InsertWrites ==
  ASSUME LinksTyped, NEW h \in Heads, NEW item \in Block,
         NEW before \in Block \cup {NULL}, before # item,
         Links!List_insert(h, before, item),
         NEW after, after = (IF before # NULL THEN next[before] ELSE first[h]), after # item
  PROVE  /\ \A b \in Block :
              /\ prev'[b] = IF b = after THEN item ELSE IF b = item THEN before ELSE prev[b]
              /\ next'[b] = IF b = before THEN item ELSE IF b = item THEN after ELSE next[b]
         /\ first' = IF before = NULL THEN [first EXCEPT ![h] = item] ELSE first
         /\ last' = IF after = NULL THEN [last EXCEPT ![h] = item] ELSE last
         /\ length' = [length EXCEPT ![h] = @ + 1]
         /\ owner' = [owner EXCEPT ![item] = h]
         /\ LinksTyped'
<1>1. after \in Block \cup {NULL}
  BY DEF LinksTyped
<1>2. /\ first' = IF before = NULL THEN [first EXCEPT ![h] = item] ELSE first
      /\ last' = IF after = NULL THEN [last EXCEPT ![h] = item] ELSE last
      /\ length' = [length EXCEPT ![h] = @ + 1]
      /\ owner' = [owner EXCEPT ![item] = h]
  BY DEF Links!List_insert
<1>3. /\ prev' = Links!Set(Links!Set(prev, item, before), after, item)
      /\ next' = Links!Set(Links!Set(next, item, after), before, item)
  BY DEF Links!List_insert
<1>4. DOMAIN prev = Block /\ DOMAIN next = Block
  BY DEF LinksTyped
<1>5. /\ prev' = [b \in Block |-> IF b = after THEN item
                                  ELSE IF b = item THEN before ELSE prev[b]]
      /\ next' = [b \in Block |-> IF b = before THEN item
                                  ELSE IF b = item THEN after ELSE next[b]]
  BY <1>3, <1>4 DEF Links!Set
<1>6. LinksTyped'
  BY <1>1, <1>2, <1>5 DEF LinksTyped
<1>. QED  BY <1>2, <1>5, <1>6

(* List_insert into the list of the item's new owner, behind its k-th      *)
(* item, at the front if k is 0.                                           *)
LEMMA InsertList ==
  ASSUME LinksTyped, NEW h \in Heads, NEW s, ListIs(h, s),
         NEW item \in Block, owner[item] = NULL,
         NEW k \in 0 .. Len(s), NEW before, before = (IF k = 0 THEN NULL ELSE s[k]),
         Links!List_insert(h, before, item)
  PROVE  /\ LinksTyped'
         /\ ListIs(h, InsertAt(s, k + 1, item))'
         /\ Elsewhere(h, item)
         /\ owner'[item] = h
<1>. DEFINE n == Len(s)
            t == InsertAt(s, k + 1, item)
<1>1. /\ s \in Seq(Block) /\ n \in Nat /\ (s = <<>> <=> n = 0)
      /\ first[h] = IF n = 0 THEN NULL ELSE s[1]
      /\ last[h] = IF n = 0 THEN NULL ELSE s[n]
      /\ \A i \in 1 .. n : next[s[i]] = IF i = n THEN NULL ELSE s[i + 1]
      /\ \A i \in 1 .. n : prev[s[i]] = IF i = 1 THEN NULL ELSE s[i - 1]
      /\ ToSet(s) = {b \in Block : owner[b] = h}
      /\ n = length[h]
  BY Members DEF ListIs
<1>2. \A i, j \in 1 .. n : s[i] = s[j] => i = j
  BY Injective DEF ListIs
<1>3. \A i \in 1 .. n : s[i] \in Block /\ s[i] # item
  BY <1>1, NullNowhere, Members
<1>4. k \in 0 .. n /\ before \in Block \cup {NULL} /\ before # item
  BY <1>1, <1>3, NullNowhere
<1>. DEFINE after == IF k = n THEN NULL ELSE s[k + 1]
<1>5. after = (IF before # NULL THEN next[before] ELSE first[h]) /\ after # item
  <2>1. CASE k = 0
    BY <1>1, <1>3, <2>1, NullNowhere
  <2>2. CASE k # 0
    <3>1. k \in 1 .. n /\ before # NULL
      BY <1>3, <1>4, <2>2, NullNowhere
    <3>2. k # n => k + 1 \in 1 .. n
      BY <1>1, <3>1
    <3>. QED  BY <1>1, <1>3, <2>2, <3>1, <3>2, NullNowhere
  <2>. QED  BY <2>1, <2>2
<1>6. PICK a : a = after
  OBVIOUS
<1>. HIDE DEF after
<1>7. /\ \A b \in Block :
           /\ prev'[b] = IF b = a THEN item ELSE IF b = item THEN before ELSE prev[b]
           /\ next'[b] = IF b = before THEN item ELSE IF b = item THEN a ELSE next[b]
      /\ first' = IF before = NULL THEN [first EXCEPT ![h] = item] ELSE first
      /\ last' = IF a = NULL THEN [last EXCEPT ![h] = item] ELSE last
      /\ length' = [length EXCEPT ![h] = @ + 1]
      /\ owner' = [owner EXCEPT ![item] = h]
      /\ LinksTyped'
  BY <1>4, <1>5, <1>6, InsertWrites
<1>8. a = IF k = n THEN NULL ELSE s[k + 1]
  BY <1>6 DEF after
<1>9. /\ t \in Seq(Block) /\ Len(t) = n + 1
      /\ \A i \in 1 .. n + 1 :
           /\ i < k + 1 => t[i] = s[i]
           /\ i = k + 1 => t[i] = item
           /\ i > k + 1 => t[i] = s[i - 1]
  <2>1. k + 1 \in 1 .. Len(s) + 1
    BY <1>1
  <2>. QED  BY <1>1, <2>1, InsertPosition
<1>15. ToSet(t) = ToSet(s) \cup {item} /\ IsInjective(t)
  <2>1. k + 1 \in 1 .. Len(s) + 1
    BY <1>1
  <2>2. item \notin ToSet(s) /\ IsInjective(s)
    BY <1>1, NullNowhere DEF ListIs
  <2>. QED  BY <1>1, <2>1, <2>2, InsertMembers
<1>. HIDE DEF t, n
<1>10. ASSUME NEW i \in 1 .. n + 1
       PROVE  next'[t[i]] = IF i = n + 1 THEN NULL ELSE t[i + 1]
  <2>1. CASE i < k
    <3>1. i \in 1 .. n /\ i # n /\ k \in 1 .. n /\ i # k
      BY <1>1, <1>4, <2>1
    <3>2. t[i] = s[i] /\ t[i + 1] = s[i + 1]
      BY <1>1, <1>4, <1>9, <2>1
    <3>3. s[i] # before /\ s[i] # item /\ s[i] \in Block
      BY <1>2, <1>3, <3>1
    <3>4. next'[s[i]] = s[i + 1]
      BY <1>1, <1>7, <3>1, <3>3
    <3>. QED  BY <1>1, <3>1, <3>2, <3>4
  <2>2. CASE i = k
    <3>1. k \in 1 .. n /\ i # n + 1 /\ k + 1 \in 1 .. n + 1 /\ k < k + 1
      BY <1>1, <1>4, <2>2
    <3>3. t[i] = s[k] /\ t[i + 1] = item
      BY <1>9, <2>2, <3>1
    <3>2. before = s[k] /\ before \in Block
      BY <1>3, <3>1
    <3>. QED  BY <1>7, <3>1, <3>2, <3>3
  <2>3. CASE i = k + 1
    <3>1. t[i] = item
      BY <1>1, <1>4, <1>9, <2>3
    <3>2. next'[item] = a
      BY <1>4, <1>7
    <3>3. k # n => t[i + 1] = s[k + 1]
      BY <1>1, <1>4, <1>9, <2>3
    <3>. QED  BY <1>1, <1>4, <1>8, <2>3, <3>1, <3>2, <3>3
  <2>4. CASE i > k + 1
    <3>. DEFINE j == i - 1
    <3>1. j \in 1 .. n /\ j > k /\ i = j + 1
      BY <1>1, <1>4, <2>4
    <3>2. t[i] = s[j]
      BY <1>9, <2>4
    <3>3. j # n => t[i + 1] = s[j + 1]
      <4>1. j # n => i + 1 \in 1 .. n + 1 /\ i + 1 > k + 1 /\ i + 1 - 1 = j + 1
        <5>1. n \in Nat /\ k \in Nat
          BY <1>1
        <5>. QED  BY <5>1, <2>4
      <4>. HIDE DEF j
      <4>. QED  BY <1>9, <4>1
    <3>. HIDE DEF j
    <3>4. s[j] # before /\ s[j] # item /\ s[j] \in Block
      BY <1>2, <1>3, <1>4, <3>1, NullNowhere
    <3>5. next'[s[j]] = IF j = n THEN NULL ELSE s[j + 1]
      BY <1>1, <1>7, <3>1, <3>4
    <3>. QED  BY <1>1, <3>1, <3>2, <3>3, <3>5
  <2>. QED  BY <1>4, <2>1, <2>2, <2>3, <2>4
<1>11. ASSUME NEW i \in 1 .. n + 1
       PROVE  prev'[t[i]] = IF i = 1 THEN NULL ELSE t[i - 1]
  <2>1. CASE i < k + 1
    <3>1. i \in 1 .. n /\ k \in 1 .. n
      BY <1>1, <1>4, <2>1
    <3>2. t[i] = s[i] /\ (i # 1 => t[i - 1] = s[i - 1])
      BY <1>1, <1>4, <1>9, <2>1
    <3>3. s[i] # a /\ s[i] # item /\ s[i] \in Block
      <4>1. k # n => k + 1 \in 1 .. n /\ k + 1 # i
        BY <1>1, <1>4, <2>1, <3>1
      <4>. QED  BY <1>2, <1>3, <1>8, <3>1, <4>1, NullNowhere
    <3>4. prev'[s[i]] = IF i = 1 THEN NULL ELSE s[i - 1]
      BY <1>1, <1>7, <3>1, <3>3, SMTT(30)
    <3>. QED  BY <3>2, <3>4
  <2>2. CASE i = k + 1
    <3>1. t[i] = item /\ (i # 1 => t[i - 1] = s[k])
      BY <1>1, <1>4, <1>9, <2>2
    <3>2. prev'[item] = before
      BY <1>5, <1>6, <1>7
    <3>. QED  BY <1>4, <2>2, <3>1, <3>2
  <2>3. CASE i = k + 1 + 1
    <3>1. k # n /\ k + 1 \in 1 .. n /\ i # 1
      BY <1>1, <1>4, <2>3
    <3>2. t[i] = s[k + 1] /\ t[i - 1] = item
      BY <1>1, <1>4, <1>9, <2>3
    <3>3. prev'[s[k + 1]] = item
      BY <1>3, <1>7, <1>8, <3>1
    <3>. QED  BY <3>1, <3>2, <3>3
  <2>4. CASE i > k + 1 + 1
    <3>. DEFINE j == i - 1
    <3>1. j \in 1 .. n /\ j > k + 1 /\ i = j + 1 /\ j # 1 /\ i # 1
      BY <1>1, <1>4, <2>4
    <3>2. t[i] = s[j] /\ t[i - 1] = s[j - 1]
      BY <1>1, <1>4, <1>9, <2>4
    <3>. HIDE DEF j
    <3>3. s[j] # a /\ s[j] # item /\ s[j] \in Block
      <4>1. k # n => k + 1 \in 1 .. n /\ k + 1 # j
        BY <1>1, <1>4, <3>1
      <4>. QED  BY <1>2, <1>3, <1>8, <3>1, <4>1, NullNowhere
    <3>4. prev'[s[j]] = s[j - 1]
      BY <1>1, <1>7, <3>1, <3>3
    <3>. QED  BY <3>1, <3>2, <3>4
  <2>. QED  BY <1>4, <2>1, <2>2, <2>3, <2>4
<1>12. t # <<>>
  BY <1>1, <1>9, Members
<1>13. first'[h] = t[1]
  <2>1. CASE k = 0
    <3>1. t[1] = item /\ before = NULL
      BY <1>1, <1>9, <2>1
    <3>. QED  BY <1>7, <3>1 DEF LinksTyped
  <2>2. CASE k # 0
    <3>1. k \in 1 .. n /\ n # 0 /\ t[1] = s[1]
      BY <1>1, <1>4, <1>9, <2>2
    <3>2. before # NULL
      BY <1>3, <2>2, <3>1, NullNowhere
    <3>. QED  BY <1>1, <1>7, <3>1, <3>2
  <2>. QED  BY <2>1, <2>2
<1>14. last'[h] = t[n + 1]
  <2>1. CASE k = n
    <3>1. t[n + 1] = item /\ a = NULL
      BY <1>1, <1>8, <1>9, <2>1
    <3>. QED  BY <1>7, <3>1 DEF LinksTyped
  <2>2. CASE k # n
    <3>1. k + 1 \in 1 .. n /\ n # 0 /\ t[n + 1] = s[n]
      <4>1. /\ k + 1 \in 1 .. n /\ n # 0
        BY <1>1, <1>4, <2>2
      <4>2. PICK m : m = n + 1
        OBVIOUS
      <4>3. m \in 1 .. n + 1 /\ m > k + 1 /\ m - 1 = n
        BY <1>1, <1>4, <2>2, <4>2
      <4>4. t[m] = s[m - 1]
        BY <1>9, <4>3
      <4>. QED  BY <4>1, <4>2, <4>3, <4>4
    <3>2. a # NULL
      BY <1>3, <1>8, <2>2, <3>1, NullNowhere
    <3>. QED  BY <1>1, <1>7, <3>1, <3>2
  <2>. QED  BY <2>1, <2>2
<1>16. ToSet(t) = {b \in Block : owner'[b] = h}
  BY <1>1, <1>7, <1>15 DEF LinksTyped
<1>18. length'[h] = n + 1
  BY <1>1, <1>7 DEF LinksTyped
<1>19. ListIs(h, t)'
  BY <1>9, <1>10, <1>11, <1>12, <1>13, <1>14, <1>15, <1>16, <1>18 DEF ListIs
<1>20. Elsewhere(h, item)
  <2>1. before \in ToSet(s) \cup {NULL} /\ a \in ToSet(s) \cup {NULL}
    <3>1. k # 0 => k \in 1 .. n
      BY <1>1, <1>4
    <3>2. k # n => k + 1 \in 1 .. n
      BY <1>1, <1>4
    <3>. QED  BY <1>1, <1>8, <3>1, <3>2, Members DEF n
  <2>2. \A b \in Block : owner[b] # h => b # before /\ b # a
    BY <1>1, <2>1, NullNowhere
  <2>. QED  BY <1>7, <2>2 DEF Elsewhere, LinksTyped
<1>21. owner'[item] = h
  BY <1>7 DEF LinksTyped
<1>. QED  BY <1>7, <1>19, <1>20, <1>21 DEF t

LEMMA OthersKept ==
  ASSUME NEW h \in Heads, NEW item \in Block, Elsewhere(h, item),
         owner[item] \in {NULL, h}, owner'[item] \in {NULL, h},
         NEW g \in Heads, g # h, NEW u, ListIs(g, u)
  PROVE  ListIs(g, u)'
<1>1. /\ u \in Seq(Block) /\ IsInjective(u) /\ ToSet(u) = {b \in Block : owner[b] = g}
      /\ Len(u) = length[g]
  BY DEF ListIs
<1>2. ToSet(u) = {b \in Block : owner'[b] = g}
  BY <1>1, NullNowhere DEF Elsewhere
<1>3. \A b \in ToSet(u) : prev'[b] = prev[b] /\ next'[b] = next[b]
  BY <1>1, NullNowhere DEF Elsewhere
<1>4. \A i \in 1 .. Len(u) : u[i] \in ToSet(u)
  BY <1>1, Members
<1>5. first'[g] = first[g] /\ last'[g] = last[g] /\ length'[g] = length[g]
  BY DEF Elsewhere
<1>6. ASSUME NEW i \in 1 .. Len(u)
      PROVE  /\ next'[u[i]] = IF i = Len(u) THEN NULL ELSE u[i + 1]
             /\ prev'[u[i]] = IF i = 1 THEN NULL ELSE u[i - 1]
  BY <1>3, <1>4, <1>6 DEF ListIs
<1>. QED  BY <1>1, <1>2, <1>5, <1>6 DEF ListIs

(* What List_detach writes, field by field.                                *)
LEMMA DetachWrites ==
  ASSUME LinksTyped, NEW h \in Heads, NEW item \in Block, Links!List_detach(h, item),
         length[h] # 0
  PROVE  /\ \A b \in Block :
              /\ next'[b] = IF b = item THEN NULL ELSE IF b = prev[item] THEN next[item]
                           ELSE next[b]
              /\ prev'[b] = IF b = item THEN NULL ELSE IF b = next[item] THEN prev[item]
                           ELSE prev[b]
         /\ first' = IF item = first[h] THEN [first EXCEPT ![h] = next[item]] ELSE first
         /\ last' = IF item = last[h] THEN [last EXCEPT ![h] = prev[item]] ELSE last
         /\ length' = [length EXCEPT ![h] = @ - 1]
         /\ owner' = [owner EXCEPT ![item] = NULL]
         /\ LinksTyped'
<1>. DEFINE before == prev[item]
            after == next[item]
<1>1. before \in Block \cup {NULL} /\ after \in Block \cup {NULL}
  BY DEF LinksTyped
<1>2. /\ first' = IF item = first[h] THEN [first EXCEPT ![h] = after] ELSE first
      /\ last' = IF item = last[h] THEN [last EXCEPT ![h] = before] ELSE last
      /\ length' = [length EXCEPT ![h] = @ - 1]
      /\ owner' = [owner EXCEPT ![item] = NULL]
  BY DEF Links!List_detach
<1>3. /\ next' = Links!Set(Links!Set(next, before, after), item, NULL)
      /\ prev' = Links!Set(Links!Set(prev, after, before), item, NULL)
  BY DEF Links!List_detach
<1>4. DOMAIN prev = Block /\ DOMAIN next = Block
  BY DEF LinksTyped
<1>5. /\ next' = [b \in Block |-> IF b = item THEN NULL
                                  ELSE IF b = before THEN after ELSE next[b]]
      /\ prev' = [b \in Block |-> IF b = item THEN NULL
                                  ELSE IF b = after THEN before ELSE prev[b]]
  BY <1>3, <1>4 DEF Links!Set
<1>6. length[h] - 1 \in Nat
  BY DEF LinksTyped
<1>7. LinksTyped'
  BY <1>1, <1>2, <1>5, <1>6 DEF LinksTyped
<1>. QED  BY <1>2, <1>5, <1>7

(* List_detach of the k-th item of a list.                                 *)
LEMMA DetachList ==
  ASSUME LinksTyped, NEW h \in Heads, NEW s, ListIs(h, s),
         NEW k \in 1 .. Len(s), NEW item, item = s[k], Links!List_detach(h, item)
  PROVE  /\ LinksTyped'
         /\ ListIs(h, RemoveAt(s, k))'
         /\ Elsewhere(h, item)
         /\ owner'[item] = NULL /\ prev'[item] = NULL /\ next'[item] = NULL
<1>. DEFINE n == Len(s)
            t == RemoveAt(s, k)
<1>1. /\ s \in Seq(Block) /\ n \in Nat /\ k \in 1 .. n
      /\ first[h] = s[1]
      /\ last[h] = s[n]
      /\ \A i \in 1 .. n : next[s[i]] = IF i = n THEN NULL ELSE s[i + 1]
      /\ \A i \in 1 .. n : prev[s[i]] = IF i = 1 THEN NULL ELSE s[i - 1]
      /\ ToSet(s) = {b \in Block : owner[b] = h}
      /\ n = length[h]
  BY Members DEF ListIs
<1>0. k \in Nat /\ n \in Nat /\ 1 <= k /\ k <= n
  BY <1>1
<1>2. \A i, j \in 1 .. n : s[i] = s[j] => i = j
  BY Injective DEF ListIs
<1>3. (\A i \in 1 .. n : s[i] \in Block) /\ item \in Block
  BY <1>1, Members
<1>4. PICK before, after :
        /\ before = prev[item] /\ before = IF k = 1 THEN NULL ELSE s[k - 1]
        /\ after = next[item] /\ after = IF k = n THEN NULL ELSE s[k + 1]
  BY <1>1
<1>5. /\ \A b \in Block :
           /\ next'[b] = IF b = item THEN NULL ELSE IF b = before THEN after ELSE next[b]
           /\ prev'[b] = IF b = item THEN NULL ELSE IF b = after THEN before ELSE prev[b]
      /\ first' = IF item = first[h] THEN [first EXCEPT ![h] = after] ELSE first
      /\ last' = IF item = last[h] THEN [last EXCEPT ![h] = before] ELSE last
      /\ length' = [length EXCEPT ![h] = @ - 1]
      /\ owner' = [owner EXCEPT ![item] = NULL]
      /\ LinksTyped'
  <2>1. length[h] # 0
    BY <1>0, <1>1
  <2>2. before = prev[item] /\ after = next[item] /\ item \in Block
    BY <1>3, <1>4
  <2>. HIDE DEF n, t
  <2>. QED  BY <2>1, <2>2, DetachWrites
<1>6. /\ t \in Seq(Block) /\ Len(t) = n - 1
      /\ \A i \in 1 .. n - 1 :
           /\ i < k => t[i] = s[i]
           /\ i >= k => t[i] = s[i + 1]
  <2>1. t \in Seq(Block)
    BY <1>1, DetachAt
  <2>. QED  BY <1>1, <2>1, DetachPosition
<1>7. ToSet(t) = ToSet(s) \ {item} /\ IsInjective(t)
  BY <1>1, DetachAt DEF ListIs
<1>. HIDE DEF t, n
<1>8. ASSUME NEW i \in 1 .. n - 1
      PROVE  next'[t[i]] = IF i = n - 1 THEN NULL ELSE t[i + 1]
  <2>0. i \in Nat /\ i <= n - 1
    BY <1>0
  <2>1. CASE i < k - 1
    <3>1. i \in 1 .. n /\ i + 1 \in 1 .. n - 1 /\ i # k /\ i # n /\ i # n - 1
      BY <1>0, <2>0, <2>1
    <3>2. t[i] = s[i] /\ t[i + 1] = s[i + 1]
      BY <1>0, <1>6, <2>0, <2>1, <3>1
    <3>3. s[i] # before /\ s[i] # item /\ s[i] \in Block
      <4>1. k # 1 => k - 1 \in 1 .. n /\ k - 1 # i
        BY <1>0, <2>0, <2>1
      <4>. QED  BY <1>1, <1>2, <1>3, <1>4, <3>1, <4>1, NullNowhere, SMTT(30)
    <3>4. next'[s[i]] = next[s[i]]
      BY <1>5, <3>3
    <3>5. next[s[i]] = s[i + 1]
      BY <1>1, <3>1
    <3>. QED  BY <3>1, <3>2, <3>4, <3>5
  <2>2. CASE i = k - 1
    <3>1. k # 1 /\ k - 1 \in 1 .. n /\ k - 1 # k /\ i < k
      BY <1>0, <2>0, <2>2
    <3>2. t[i] = s[k - 1] /\ s[k - 1] = before /\ before # item /\ before \in Block
      BY <1>1, <1>2, <1>3, <1>4, <1>6, <2>2, <3>1
    <3>3. next'[before] = after
      BY <1>5, <3>2
    <3>4. i = n - 1 <=> k = n
      BY <1>0, <2>2
    <3>5. k # n => k \in 1 .. n - 1
      BY <1>0
    <3>6. k # n => t[k] = s[k + 1]
      BY <1>0, <1>6, <3>5
    <3>7. i + 1 = k
      BY <1>0, <2>2
    <3>. QED  BY <1>4, <3>2, <3>3, <3>4, <3>6, <3>7
  <2>3. CASE i >= k
    <3>. DEFINE j == i + 1
    <3>1. j \in 1 .. n /\ j > k /\ j # k /\ j - 1 = i /\ (i = n - 1 <=> j = n)
      BY <1>0, <2>0, <2>3
    <3>2. t[i] = s[j]
      BY <1>6, <2>3
    <3>3. j # n => t[j] = s[j + 1]
      <4>1. j # n => j \in 1 .. n - 1 /\ j >= k
        BY <1>0, <2>0, <2>3
      <4>. HIDE DEF j
      <4>. QED  BY <1>6, <4>1
    <3>4. i + 1 = j
      OBVIOUS
    <3>. HIDE DEF j
    <3>5. s[j] # before /\ s[j] # item /\ s[j] \in Block
      <4>1. k # 1 => k - 1 \in 1 .. n /\ k - 1 # j
        BY <1>0, <3>1
      <4>. QED  BY <1>1, <1>2, <1>3, <1>4, <3>1, <4>1, NullNowhere
    <3>6. next'[s[j]] = next[s[j]]
      BY <1>5, <3>5
    <3>7. next[s[j]] = IF j = n THEN NULL ELSE s[j + 1]
      BY <1>1, <3>1
    <3>. QED  BY <3>1, <3>2, <3>3, <3>4, <3>6, <3>7
  <2>. QED  BY <1>0, <2>0, <2>1, <2>2, <2>3
<1>9. ASSUME NEW i \in 1 .. n - 1
      PROVE  prev'[t[i]] = IF i = 1 THEN NULL ELSE t[i - 1]
  <2>0. i \in Nat /\ i <= n - 1 /\ i >= 1
    BY <1>0
  <2>1. CASE i < k
    <3>1. i \in 1 .. n /\ i # k /\ (i # 1 => i - 1 \in 1 .. n - 1 /\ i - 1 < k)
      BY <1>0, <2>0, <2>1
    <3>2. t[i] = s[i] /\ (i # 1 => t[i - 1] = s[i - 1])
      BY <1>6, <2>1, <3>1
    <3>3. s[i] # after /\ s[i] # item /\ s[i] \in Block
      <4>1. k # n => k + 1 \in 1 .. n /\ k + 1 # i
        BY <1>0, <2>0, <2>1
      <4>. QED  BY <1>1, <1>2, <1>3, <1>4, <3>1, <4>1, NullNowhere
    <3>4. prev'[s[i]] = prev[s[i]]
      BY <1>5, <3>3
    <3>5. prev[s[i]] = IF i = 1 THEN NULL ELSE s[i - 1]
      BY <1>1, <3>1
    <3>. QED  BY <3>2, <3>4, <3>5
  <2>2. CASE i = k
    <3>1. k # n /\ k + 1 \in 1 .. n /\ k + 1 # k /\ i >= k
      BY <1>0, <2>0, <2>2
    <3>2. t[i] = s[k + 1] /\ s[k + 1] = after /\ after # item /\ after \in Block
      BY <1>1, <1>2, <1>3, <1>4, <1>6, <2>2, <3>1
    <3>3. prev'[after] = before
      BY <1>5, <3>2
    <3>4. k # 1 => k - 1 \in 1 .. n - 1 /\ k - 1 < k
      BY <1>0
    <3>5. k # 1 => t[k - 1] = s[k - 1]
      BY <1>6, <3>4
    <3>. QED  BY <1>4, <2>2, <3>2, <3>3, <3>5
  <2>3. CASE i > k
    <3>1. PICK j : j = i + 1
      OBVIOUS
    <3>2. PICK m : m = i - 1
      OBVIOUS
    <3>3. /\ j \in 1 .. n /\ j # k /\ j # k + 1 /\ j # 1 /\ j - 1 = i
          /\ m \in 1 .. n - 1 /\ m >= k /\ m + 1 = i /\ i # 1 /\ i >= k
      BY <1>0, <2>0, <2>3, <3>1, <3>2
    <3>4. t[i] = s[j] /\ t[m] = s[i]
      BY <1>6, <3>1, <3>3
    <3>5. s[j] # after /\ s[j] # item /\ s[j] \in Block
      <4>1. k # n => k + 1 \in 1 .. n
        BY <1>0
      <4>. QED  BY <1>1, <1>2, <1>3, <1>4, <3>3, <4>1, NullNowhere
    <3>6. prev'[s[j]] = s[i]
      <4>1. prev[s[j]] = s[j - 1]
        BY <1>1, <3>3
      <4>. QED  BY <1>5, <3>3, <3>5, <4>1
    <3>. QED  BY <3>2, <3>3, <3>4, <3>6
  <2>. QED  BY <1>0, <2>0, <2>1, <2>2, <2>3
<1>10. t = <<>> <=> n = 1
  <2>1. n - 1 = 0 <=> n = 1
    BY <1>0
  <2>. QED  BY <1>6, <2>1, Members
<1>11. first'[h] = IF n = 1 THEN NULL ELSE t[1]
  <2>1. CASE k = 1
    <3>1. first'[h] = after
      BY <1>1, <1>5, <2>1 DEF LinksTyped
    <3>2. n # 1 => 1 \in 1 .. n - 1 /\ 1 >= k
      BY <1>0, <2>1
    <3>3. n # 1 => t[1] = s[1 + 1]
      BY <1>6, <3>2
    <3>. QED  BY <1>4, <2>1, <3>1, <3>3
  <2>2. CASE k # 1
    <3>1. n # 1 /\ 1 \in 1 .. n - 1 /\ 1 < k /\ 1 \in 1 .. n
      BY <1>0, <2>2
    <3>2. t[1] = s[1] /\ item # s[1]
      BY <1>1, <1>2, <1>6, <2>2, <3>1
    <3>. QED  BY <1>1, <1>5, <3>1, <3>2
  <2>. QED  BY <2>1, <2>2
<1>12. last'[h] = IF n = 1 THEN NULL ELSE t[n - 1]
  <2>1. CASE k = n
    <3>1. last'[h] = before
      BY <1>1, <1>5, <2>1 DEF LinksTyped
    <3>2. n # 1 => n - 1 \in 1 .. n - 1 /\ n - 1 < k
      BY <1>0, <2>1
    <3>3. n # 1 => t[n - 1] = s[n - 1]
      BY <1>6, <3>2
    <3>. QED  BY <1>4, <2>1, <3>1, <3>3
  <2>2. CASE k # n
    <3>1. PICK m : m = n - 1
      OBVIOUS
    <3>2. n # 1 /\ m \in 1 .. n - 1 /\ m >= k /\ m + 1 = n /\ n \in 1 .. n
      BY <1>0, <2>2, <3>1
    <3>3. t[m] = s[n] /\ item # s[n]
      BY <1>1, <1>2, <1>6, <2>2, <3>2
    <3>. QED  BY <1>1, <1>5, <3>1, <3>2, <3>3
  <2>. QED  BY <2>1, <2>2
<1>13. owner'[item] = NULL /\ prev'[item] = NULL /\ next'[item] = NULL
  BY <1>3, <1>5 DEF LinksTyped
<1>14. \A b \in Block : b # item => owner'[b] = owner[b]
  BY <1>5 DEF LinksTyped
<1>15. ToSet(t) = {b \in Block : owner'[b] = h}
  BY <1>1, <1>7, <1>13, <1>14, NullNowhere
<1>16. length'[h] = n - 1
  BY <1>1, <1>5 DEF LinksTyped
<1>17. ListIs(h, t)'
  BY <1>6, <1>7, <1>8, <1>9, <1>10, <1>11, <1>12, <1>15, <1>16 DEF ListIs
<1>18. Elsewhere(h, item)
  <2>1. before \in ToSet(s) \cup {NULL} /\ after \in ToSet(s) \cup {NULL}
    <3>1. k # 1 => k - 1 \in 1 .. n
      BY <1>0
    <3>2. k # n => k + 1 \in 1 .. n
      BY <1>0
    <3>. QED  BY <1>1, <1>4, <3>1, <3>2, Members DEF n
  <2>2. \A b \in Block : owner[b] # h => b # before /\ b # after
    BY <1>1, <2>1, NullNowhere
  <2>. QED  BY <1>5, <2>2 DEF Elsewhere, LinksTyped
<1>. QED  BY <1>5, <1>13, <1>17, <1>18 DEF t

-----------------------------------------------------------------------------
(* The steps of the callers.                                               *)

(* The list h becomes t, the others stay.                                  *)
Becomes(h, t) ==
  /\ ListIs(h, t)'
  /\ \A g \in Heads : g # h => \A u : ListIs(g, u) => ListIs(g, u)'

(* A step that writes no list, and takes no listed block back.             *)
LEMMA ListsKept ==
  ASSUME PooledInv, PoolInv', UNCHANGED listVars,
         \A b \in Block : HandedOut(b) /\ owner[b] # NULL => HandedOut(b)'
  PROVE  PooledInv'
<1>1. \A h \in Heads : \A s : ListIs(h, s) => ListIs(h, s)'
  BY DEF ListIs, listVars
<1>2. LinksTyped' /\ Unlinked'
  BY DEF PooledInv, LinksTyped, Unlinked, listVars
<1>3. ListedOut'
  BY DEF PooledInv, ListedOut, listVars
<1>. QED  BY <1>1, <1>2, <1>3 DEF PooledInv

(* A block that comes from the pool is in no list, so that clearing its    *)
(* links writes nothing new.                                               *)
LEMMA AllocKeeps ==
  ASSUME PooledInv, Alloc
  PROVE  PooledInv' /\ UNCHANGED listVars
<1>1. PICK s : FreeChain(s)
  BY DEF PooledInv, PoolInv
<1>2. TypeOK /\ PoolInv /\ Get
  BY DEF PooledInv, PoolInv, Alloc
<1>3. s # <<>> /\ first_idx = Head(s)
  BY <1>1, <1>2, GetChain DEF Get
<1>4. first_idx \in Block /\ ~HandedOut(first_idx)
  BY <1>1, <1>3, DetachHead DEF FreeChain, FreeSet, HandedOut
<1>5. owner[first_idx] = NULL
  BY <1>4 DEF PooledInv, ListedOut
<1>6. prev[first_idx] = NULL /\ next[first_idx] = NULL
  BY <1>4, <1>5 DEF PooledInv, Unlinked
<1>7. prev' = prev /\ next' = next
  BY <1>4, <1>6 DEF Alloc, PooledInv, LinksTyped
<1>8. UNCHANGED listVars
  BY <1>7 DEF Alloc, listVars
<1>9. \A b \in Block : HandedOut(b) => HandedOut(b)'
  BY <1>2, <1>4 DEF HandedOut, Get, TypeOK
<1>10. PoolInv'
  BY <1>2, PoolKeeps DEF PoolStep
<1>. QED  BY <1>8, <1>9, <1>10, ListsKept

(* The address of a block is the offset of that block.                     *)
LEMMA IndexOfAddress ==
  ASSUME NEW b \in Block
  PROVE  b * item_size \in Int /\ Index(b * item_size) = b
<1>1. b \in Int /\ item_size \in Int /\ item_size > 0
  BY PoolAllocatorAssumption DEF Block
<1>2. (b * item_size) \div item_size = b
  BY <1>1
<1>. QED  BY <1>1, <1>2 DEF Index

LEMMA FreeKeeps ==
  ASSUME PooledInv, Free
  PROVE  PooledInv' /\ UNCHANGED listVars
<1>1. PICK b \in Block : owner[b] = NULL /\ Release(b * item_size) /\ UNCHANGED listVars
  BY DEF Free
<1>2. b * item_size \in Int /\ Index(b * item_size) = b
  BY IndexOfAddress
<1>3. PoolInv'
  <2>1. PoolStep
    BY <1>1, <1>2 DEF PoolStep
  <2>. QED  BY <2>1, PoolKeeps DEF PooledInv
<1>4. free_list' = [free_list EXCEPT ![b] = first_idx]
  BY <1>1, <1>2 DEF Release
<1>5. \A c \in Block : HandedOut(c) /\ owner[c] # NULL => HandedOut(c)'
  BY <1>1, <1>4 DEF HandedOut, PooledInv, PoolInv, TypeOK
<1>. QED  BY <1>1, <1>3, <1>5, ListsKept

LEMMA OthersKeep ==
  ASSUME PooledInv, AllocFails \/ FreeRefused \/ UNCHANGED <<vars, listVars>>
  PROVE  PooledInv' /\ UNCHANGED listVars
<1>1. UNCHANGED listVars /\ UNCHANGED free_list
  BY DEF AllocFails, FreeRefused, GetNothing, Refuse, vars
<1>2. PoolStep
  <2>1. AllocFails => GetNothing
    BY DEF AllocFails
  <2>2. FreeRefused => \E offset \in Int : Refuse(offset)
    BY PoolAllocatorAssumption DEF FreeRefused
  <2>3. UNCHANGED <<vars, listVars>> => UNCHANGED vars
    OBVIOUS
  <2>. QED  BY <2>1, <2>2, <2>3, Zenon DEF PoolStep
<1>3. PoolInv'
  BY <1>2, PoolKeeps DEF PooledInv
<1>4. \A b \in Block : HandedOut(b) => HandedOut(b)'
  BY <1>1 DEF HandedOut
<1>. QED  BY <1>1, <1>3, <1>4, ListsKept

(* Insertions and detaches leave the pool alone.                           *)
LEMMA PoolAlone == PoolInv /\ UNCHANGED vars => PoolInv'
BY PoolKeeps DEF PoolStep

(* The item goes behind another of the list, or to its front.              *)
LEMMA InsertsStep ==
  ASSUME PooledInv, Inserts
  PROVE  /\ PooledInv'
         /\ \E h \in Heads, item \in Block : \E s : \E k \in 0 .. Len(s) :
              /\ ListIs(h, s) /\ owner[item] = NULL
              /\ Becomes(h, InsertAt(s, k + 1, item))
<1>1. PICK item \in Block : HandedOut(item) /\ Links!Inserts(item) /\ UNCHANGED vars
  BY DEF Inserts
<1>2. PICK h \in Heads :
        /\ owner[item] = NULL
        /\ \E b \in {i \in Block : owner[i] = h} \cup {NULL} : Links!List_insert(h, b, item)
  BY <1>1 DEF Links!Inserts
<1>3. PICK before \in {i \in Block : owner[i] = h} \cup {NULL} :
        Links!List_insert(h, before, item)
  BY <1>2
<1>4. PICK s : ListIs(h, s)
  BY DEF PooledInv
<1>5. LinksTyped
  BY DEF PooledInv
<1>6. s \in Seq(Block) /\ Len(s) \in Nat /\ ToSet(s) = {i \in Block : owner[i] = h}
  BY <1>4, Members DEF ListIs
<1>7. PICK k \in 0 .. Len(s) : before = IF k = 0 THEN NULL ELSE s[k]
  <2>1. CASE before = NULL
    <3>1. 0 \in 0 .. Len(s)
      BY <1>6
    <3>. QED  BY <2>1, <3>1
  <2>2. CASE before # NULL
    <3>1. PICK k \in 1 .. Len(s) : before = s[k]
      BY <1>3, <1>6, <2>2, Members
    <3>2. k \in 0 .. Len(s) /\ k # 0
      BY <1>6
    <3>. QED  BY <3>1, <3>2
  <2>. QED  BY <2>1, <2>2
<1>8. PICK t : t = InsertAt(s, k + 1, item)
  OBVIOUS
<1>9. LinksTyped' /\ ListIs(h, t)' /\ Elsewhere(h, item) /\ owner'[item] = h
  BY <1>2, <1>3, <1>4, <1>5, <1>7, <1>8, InsertList
<1>10. ASSUME NEW g \in Heads, g # h, NEW u, ListIs(g, u) PROVE ListIs(g, u)'
  BY <1>2, <1>9, <1>10, OthersKept
<1>11. Becomes(h, t)
  BY <1>9, <1>10 DEF Becomes
<1>12. \A g \in Heads : \E u : ListIs(g, u)'
  BY <1>9, <1>10 DEF PooledInv
<1>13. Unlinked'
  BY <1>2, <1>9, NullNowhere DEF PooledInv, Unlinked, Elsewhere
<1>14. ListedOut'
  BY <1>1, <1>9 DEF PooledInv, ListedOut, HandedOut, Elsewhere, vars
<1>15. PooledInv'
  BY <1>1, <1>9, <1>12, <1>13, <1>14, PoolAlone DEF PooledInv
<1>. QED  BY <1>2, <1>4, <1>8, <1>11, <1>15

LEMMA DetachesStep ==
  ASSUME PooledInv, Detaches
  PROVE  /\ PooledInv'
         /\ \E h \in Heads : \E s : \E k \in 1 .. Len(s) :
              ListIs(h, s) /\ Becomes(h, RemoveAt(s, k))
<1>1. PICK item \in Block :
        owner[item] # NULL /\ Links!List_detach(owner[item], item) /\ UNCHANGED vars
  BY DEF Detaches, Links!Detaches
<1>2. LinksTyped
  BY DEF PooledInv
<1>3. PICK h \in Heads : h = owner[item]
  BY <1>1, <1>2 DEF LinksTyped
<1>4. PICK s : ListIs(h, s)
  BY DEF PooledInv
<1>5. s \in Seq(Block) /\ ToSet(s) = {i \in Block : owner[i] = h}
  BY <1>4 DEF ListIs
<1>6. PICK k \in 1 .. Len(s) : item = s[k]
  BY <1>3, <1>5, Members
<1>7. PICK t : t = RemoveAt(s, k)
  OBVIOUS
<1>8. /\ LinksTyped' /\ ListIs(h, t)' /\ Elsewhere(h, item)
      /\ owner'[item] = NULL /\ prev'[item] = NULL /\ next'[item] = NULL
  BY <1>1, <1>2, <1>3, <1>4, <1>6, <1>7, DetachList
<1>9. ASSUME NEW g \in Heads, g # h, NEW u, ListIs(g, u) PROVE ListIs(g, u)'
  BY <1>3, <1>8, <1>9, OthersKept
<1>10. Becomes(h, t)
  BY <1>8, <1>9 DEF Becomes
<1>11. \A g \in Heads : \E u : ListIs(g, u)'
  BY <1>8, <1>9 DEF PooledInv
<1>12. Unlinked'
  BY <1>8, NullNowhere DEF PooledInv, Unlinked, Elsewhere
<1>13. ListedOut'
  BY <1>1, <1>8 DEF PooledInv, ListedOut, HandedOut, Elsewhere, vars
<1>14. PooledInv'
  BY <1>1, <1>8, <1>11, <1>12, <1>13, PoolAlone DEF PooledInv
<1>. QED  BY <1>4, <1>7, <1>10, <1>14

LEMMA PooledNextInv ==
  PooledInv /\ [PooledNext]_<<vars, listVars>> => PooledInv'
<1>1. SUFFICES ASSUME PooledInv, [PooledNext]_<<vars, listVars>> PROVE PooledInv'
  OBVIOUS
<1>2. Alloc => PooledInv'
  BY <1>1, AllocKeeps
<1>3. Free => PooledInv'
  BY <1>1, FreeKeeps
<1>4. Inserts => PooledInv'
  BY <1>1, InsertsStep
<1>5. Detaches => PooledInv'
  BY <1>1, DetachesStep
<1>6. AllocFails \/ FreeRefused \/ UNCHANGED <<vars, listVars>> => PooledInv'
  BY <1>1, OthersKeep
<1>. QED  BY <1>1, <1>2, <1>3, <1>4, <1>5, <1>6, Zenon DEF PooledNext

LEMMA PooledInitInv == PooledInit => PooledInv
<1>1. SUFFICES ASSUME Init, Links!Init PROVE PooledInv
  BY DEF PooledInit
<1>2. PoolInv
  BY <1>1, InitPool
<1>3. /\ first = [h \in Heads |-> NULL] /\ last = [h \in Heads |-> NULL]
      /\ length = [h \in Heads |-> 0] /\ owner = [i \in Block |-> NULL]
      /\ prev = [i \in Block |-> NULL] /\ next = [i \in Block |-> NULL]
  BY <1>1 DEF Links!Init
<1>4. LinksTyped
  BY <1>3 DEF LinksTyped
<1>5. ASSUME NEW h \in Heads PROVE ListIs(h, <<>>)
  <2>1. <<>> \in Seq(Block) /\ Len(<<>>) = 0 /\ ToSet(<<>>) = {} /\ IsInjective(<<>>)
    BY EmptyList
  <2>2. {b \in Block : owner[b] = h} = {}
    BY <1>3, NullNowhere
  <2>3. first[h] = NULL /\ last[h] = NULL /\ length[h] = 0
    BY <1>3
  <2>. QED  BY <2>1, <2>2, <2>3 DEF ListIs
<1>6. Unlinked /\ ListedOut
  BY <1>3 DEF Unlinked, ListedOut
<1>. QED  BY <1>2, <1>4, <1>5, <1>6 DEF PooledInv

(* The pool and the lists over it, whatever is allocated, freed, inserted  *)
(* and detached, and whatever else is released.                            *)
THEOREM PooledInvariance == PooledSpec => []PooledInv
BY PooledInitInv, PooledNextInv, PTL DEF PooledSpec

-----------------------------------------------------------------------------
(* What the lists are, from the invariant.                                 *)
LEMMA ListsWalked ==
  PooledInv => \A h \in Heads : \A s : ListIs(h, s) => Links!Walk(first[h], next) = s
BY WalkIs

LEMMA ListsWalkedNext ==
  (PooledInv => \A h \in Heads : \A s : ListIs(h, s) => Links!Walk(first[h], next) = s)'
BY ListsWalked, PTL

LEMMA PooledTyped == PooledInv => PooledTypeOK
<1>1. SUFFICES ASSUME PooledInv PROVE PooledTypeOK
  OBVIOUS
<1>2. TypeOK /\ LinksTyped
  BY <1>1 DEF PooledInv, PoolInv
<1>3. Links!Cardinality(Block) = num_items /\ num_items \in Nat
  BY BlocksFinite, PoolAllocatorAssumption DEF Links!Cardinality, Cardinality
<1>4. ASSUME NEW h \in Heads PROVE length[h] \in 0 .. num_items
  <2>1. PICK s : ListIs(h, s)
    BY <1>1 DEF PooledInv
  <2>2. s \in Seq(Block) /\ IsInjective(s) /\ Len(s) = length[h]
    BY <2>1 DEF ListIs
  <2>3. Len(s) <= num_items /\ Len(s) \in Nat
    BY <2>2, BlocksFinite, LengthIsCardinality, Members
  <2>. QED  BY <1>3, <2>2, <2>3
<1>5. length \in [Heads -> 0 .. num_items]
  BY <1>2, <1>4 DEF LinksTyped
<1>. QED  BY <1>2, <1>3, <1>5 DEF PooledTypeOK, Links!TypeOK, LinksTyped

LEMMA BothWays == PooledInv => BothWaysAgree
<1>1. SUFFICES ASSUME PooledInv PROVE BothWaysAgree
  OBVIOUS
<1>2. ASSUME NEW h \in Heads
      PROVE  LET s == Links!Walk(first[h], next)
             IN  /\ Links!IsChain(s, first[h], next)
                 /\ Links!IsChain(Links!Reverse(s), last[h], prev)
                 /\ Links!IsInjective(s)
                 /\ Links!ToSet(s) = {i \in Block : owner[i] = h}
                 /\ Len(s) = length[h]
  <2>1. PICK s : ListIs(h, s)
    BY <1>1 DEF PooledInv
  <2>2. Links!Walk(first[h], next) = s
    BY <2>1, WalkIs
  <2>3. Links!IsChain(s, first[h], next)
    BY <2>1 DEF ListIs, Links!IsChain
  <2>4. Links!IsChain(Reverse(s), last[h], prev)
    BY <2>1, BackwardsIs
  <2>5. Links!Reverse(s) = Reverse(s)
    BY DEF Links!Reverse, Reverse
  <2>6. Links!IsInjective(s) /\ Links!ToSet(s) = ToSet(s)
    BY <2>1 DEF ListIs, Links!IsInjective, IsInjective, Links!ToSet, ToSet
  <2>. QED  BY <2>1, <2>2, <2>3, <2>4, <2>5, <2>6 DEF ListIs
<1>. QED  BY <1>2, Zenon DEF BothWaysAgree, Links!BothWaysAgree

LEMMA Detached == PooledInv => DetachedIsUnlinked
BY DEF PooledInv, Unlinked, DetachedIsUnlinked, Links!DetachedIsUnlinked, Links!Linked

(* The types of the pool and of the lists, the sizes within the number of  *)
(* blocks.                                                                 *)
THEOREM PooledTypeCorrect == PooledSpec => []PooledTypeOK
BY PooledTyped, PooledInvariance, PTL

(* The chain of free blocks under the lists (pool_allocator.c:49-91).      *)
THEOREM ChainIsFreeSafe == PooledSpec => []ChainIsFree
<1>1. PooledInv => ChainIsFree
  BY PoolSafe DEF PooledInv
<1>. QED  BY <1>1, PooledInvariance, PTL

(* Every list holds the same items from its first and from its last, those *)
(* that were inserted and not detached, and as many as its size            *)
(* (linked_list.c:21-79), although blocks come and go.                     *)
THEOREM BothWaysAgreeSafe == PooledSpec => []BothWaysAgree
BY BothWays, PooledInvariance, PTL

(* An item in no list has no neighbours, so that List_insert refuses none  *)
(* of them (linked_list.c:22-23).                                          *)
THEOREM DetachedIsUnlinkedSafe == PooledSpec => []DetachedIsUnlinked
BY Detached, PooledInvariance, PTL

(* The allocator hands out each free block once, the one that came back    *)
(* last first, and refuses what was not handed out: it implements Pool.    *)
THEOREM PoolRefined == PooledSpec => ImplementsPool
<1>1. PooledInit => ThePool!Init
  BY InitPool DEF PooledInit
<1>2. PooledInv /\ [PooledNext]_<<vars, listVars>>
        => [ThePool!Next]_<<FreeBlocks, block, result>>
  BY PooledSteps, PoolImplements DEF PooledInv
<1>3. PooledSpec => ThePool!Init /\ [][ThePool!Next]_<<FreeBlocks, block, result>>
  BY <1>1, <1>2, PooledInvariance, PTL DEF PooledSpec
<1>4. ThePool!Spec <=> ThePool!Init /\ [][ThePool!Next]_<<FreeBlocks, block, result>>
  BY PTL DEF ThePool!Spec
<1>. QED  BY <1>3, <1>4, PTL DEF ImplementsPool

(* The lists as sequences.                                                 *)
TheSeqs == [h \in Heads |-> Links!Walk(first[h], next)]

(* One list changes: what it was and what it becomes.                      *)
LEMMA SeqsChange ==
  ASSUME PooledInv, PooledInv', NEW h \in Heads, NEW s, ListIs(h, s), NEW t, Becomes(h, t)
  PROVE  /\ TheSeqs[h] = s
         /\ TheSeqs' = [TheSeqs EXCEPT ![h] = t]
         /\ TheSeqs'[h] = t
<1>1. \A g \in Heads : \A u : ListIs(g, u)' => Links!Walk(first[g], next)' = u
  BY ListsWalkedNext
<1>2. \A g \in Heads : TheSeqs'[g] = Links!Walk(first[g], next)'
  BY DEF TheSeqs
<1>3. TheSeqs[h] = s
  BY ListsWalked DEF TheSeqs
<1>4. TheSeqs'[h] = t
  BY <1>1, <1>2 DEF Becomes
<1>5. ASSUME NEW g \in Heads, g # h PROVE TheSeqs'[g] = TheSeqs[g]
  <2>1. PICK u : ListIs(g, u)
    BY DEF PooledInv
  <2>2. ListIs(g, u)'
    BY <1>5, <2>1 DEF Becomes
  <2>3. TheSeqs'[g] = u
    BY <1>1, <1>2, <2>2
  <2>4. TheSeqs[g] = u
    BY <2>1, ListsWalked DEF TheSeqs
  <2>. QED  BY <2>3, <2>4
<1>6. TheSeqs' = [g \in Heads |-> Links!Walk(first[g], next)']
  BY DEF TheSeqs
<1>7. TheSeqs' = [TheSeqs EXCEPT ![h] = t]
  BY <1>4, <1>5, <1>6 DEF TheSeqs
<1>. QED  BY <1>3, <1>4, <1>7

(* A list that contains an item is the one it is in.                       *)
LEMMA InNone ==
  ASSUME PooledInv, NEW item \in Block, owner[item] = NULL
  PROVE  Links!TheLists!Free(item)
<1>1. ASSUME NEW g \in Heads, NEW i \in 1 .. Len(TheSeqs[g]), TheSeqs[g][i] = item
      PROVE  FALSE
  <2>1. PICK u : ListIs(g, u)
    BY DEF PooledInv
  <2>2. TheSeqs[g] = u
    BY <2>1, ListsWalked DEF TheSeqs
  <2>3. item \in ToSet(u)
    BY <1>1, <2>1, <2>2, Members DEF ListIs
  <2>. QED  BY <2>1, <2>3, NullNowhere DEF ListIs
<1>. QED  BY <1>1, Zenon DEF Links!TheLists!Free, Links!TheLists!Contains, TheSeqs

LEMMA InsertsRefine ==
  ASSUME PooledInv, Inserts
  PROVE  Links!TheLists!Next
<1>1. PooledInv'
  BY InsertsStep
<1>2. PICK h \in Heads, item \in Block : \E s : \E k \in 0 .. Len(s) :
        /\ ListIs(h, s) /\ owner[item] = NULL
        /\ Becomes(h, InsertAt(s, k + 1, item))
  BY InsertsStep
<1>3. PICK s : \E k \in 0 .. Len(s) :
        /\ ListIs(h, s) /\ owner[item] = NULL
        /\ Becomes(h, InsertAt(s, k + 1, item))
  BY <1>2
<1>4. PICK k \in 0 .. Len(s) :
        /\ ListIs(h, s) /\ owner[item] = NULL
        /\ Becomes(h, InsertAt(s, k + 1, item))
  BY <1>3
<1>5. PICK t : t = InsertAt(s, k + 1, item)
  OBVIOUS
<1>6. s \in Seq(Block) /\ Len(s) \in Nat /\ IsInjective(s) /\ DOMAIN s = 1 .. Len(s)
  BY <1>4, Members DEF ListIs
<1>7. TheSeqs[h] = s /\ TheSeqs' = [TheSeqs EXCEPT ![h] = t] /\ TheSeqs'[h] = t
  BY <1>1, <1>4, <1>5, SeqsChange
<1>8. TheSeqs'[h] # TheSeqs[h]
  <2>1. Len(t) = Len(s) + 1
    BY <1>5, <1>6, InsertPosition
  <2>. QED  BY <1>6, <1>7, <2>1
<1>. DEFINE before == IF k = 0 THEN NULL ELSE s[k]
<1>9. before \in ToSet(s) \cup {NULL}
  <2>1. k # 0 => k \in 1 .. Len(s)
    BY <1>6
  <2>. QED  BY <1>6, <2>1, Members
<1>10. Links!TheLists!Position(h, before) = k
  <2>1. CASE k = 0
    BY <2>1 DEF Links!TheLists!Position
  <2>2. CASE k # 0
    <3>1. k \in 1 .. Len(s) /\ s[k] # NULL
      BY <1>6, <2>2, Members, NullNowhere
    <3>2. \A i \in DOMAIN s : s[i] = s[k] <=> i = k
      BY <1>6, <3>1, Injective
    <3>3. (CHOOSE i \in DOMAIN s : s[i] = s[k]) = k
      BY <1>6, <3>1, <3>2
    <3>4. Links!TheLists!Position(h, before)
            = CHOOSE i \in DOMAIN TheSeqs[h] : TheSeqs[h][i] = s[k]
      BY <2>2, <3>1 DEF Links!TheLists!Position, TheSeqs
    <3>. QED  BY <1>7, <3>3, <3>4
  <2>. QED  BY <2>1, <2>2
<1>11. PICK b : b = before
  OBVIOUS
<1>12. Links!TheLists!Insert(h, b, item)
  <2>1. TheSeqs' = [TheSeqs EXCEPT ![h] = InsertAt(TheSeqs[h], k + 1, item)]
    BY <1>5, <1>7
  <2>2. Links!TheLists!InsertAt(s, k + 1, item) = InsertAt(s, k + 1, item)
    BY DEF Links!TheLists!InsertAt, InsertAt
  <2>3. Links!TheLists!Position(h, b) = k
    BY <1>10, <1>11
  <2>4. TheSeqs' = [TheSeqs EXCEPT ![h] =
                      Links!TheLists!InsertAt(TheSeqs[h], Links!TheLists!Position(h, b) + 1, item)]
    BY <1>7, <2>1, <2>2, <2>3
  <2>. QED  BY <2>4, Zenon DEF Links!TheLists!Insert, TheSeqs
<1>13. Links!TheLists!Free(item)
  BY <1>4, InNone
<1>14. b \in Links!TheLists!ToSet(TheSeqs[h]) \cup {NULL}
  BY <1>7, <1>9, <1>11 DEF Links!TheLists!ToSet, ToSet
<1>. QED  BY <1>8, <1>12, <1>13, <1>14, Zenon DEF Links!TheLists!Next, TheSeqs

LEMMA DetachesRefine ==
  ASSUME PooledInv, Detaches
  PROVE  Links!TheLists!Next
<1>1. PooledInv'
  BY DetachesStep
<1>2. PICK h \in Heads : \E s : \E k \in 1 .. Len(s) :
        ListIs(h, s) /\ Becomes(h, RemoveAt(s, k))
  BY DetachesStep
<1>3. PICK s : \E k \in 1 .. Len(s) : ListIs(h, s) /\ Becomes(h, RemoveAt(s, k))
  BY <1>2
<1>4. PICK k \in 1 .. Len(s) : ListIs(h, s) /\ Becomes(h, RemoveAt(s, k))
  BY <1>3
<1>5. PICK t : t = RemoveAt(s, k)
  OBVIOUS
<1>6. s \in Seq(Block) /\ Len(s) \in Nat /\ IsInjective(s) /\ DOMAIN s = 1 .. Len(s)
  BY <1>4, Members DEF ListIs
<1>7. TheSeqs[h] = s /\ TheSeqs' = [TheSeqs EXCEPT ![h] = t] /\ TheSeqs'[h] = t
  BY <1>1, <1>4, <1>5, SeqsChange
<1>8. TheSeqs'[h] # TheSeqs[h]
  <2>1. Len(t) = Len(s) - 1
    BY <1>5, <1>6, DetachPosition
  <2>. QED  BY <1>6, <1>7, <2>1
<1>9. PICK item : item = s[k]
  OBVIOUS
<1>10. item \in ToSet(s)
  BY <1>6, <1>9, Members
<1>11. t = RemoveFirst(s, item)
  BY <1>5, <1>6, <1>9, FirstIs
<1>12. Links!TheLists!RemoveFirst(s, item) = RemoveFirst(s, item)
  <2>. DEFINE I == {i \in 1 .. Len(s) : s[i] = item}
  <2>1. Links!TheLists!Min(I) = Min(I)
    BY DEF Links!TheLists!Min, Min
  <2>2. SelectInSeq(s, LAMBDA v : v = item) = IF I # {} THEN Min(I) ELSE 0
    BY Zenon DEF SelectInSeq
  <2>3. Links!TheLists!SelectInSeq(s, LAMBDA v : v = item)
          = IF I # {} THEN Links!TheLists!Min(I) ELSE 0
    BY Zenon DEF Links!TheLists!SelectInSeq
  <2>4. \A i : Links!TheLists!RemoveAt(s, i) = RemoveAt(s, i)
    BY DEF Links!TheLists!RemoveAt, RemoveAt
  <2>. HIDE DEF I
  <2>. QED  BY <2>1, <2>2, <2>3, <2>4 DEF Links!TheLists!RemoveFirst, RemoveFirst
<1>13. Links!TheLists!Detach(h, item)
  <2>1. TheSeqs' = [TheSeqs EXCEPT ![h] = Links!TheLists!RemoveFirst(TheSeqs[h], item)]
    BY <1>7, <1>11, <1>12
  <2>. QED  BY <2>1, Zenon DEF Links!TheLists!Detach, TheSeqs
<1>14. item \in Links!TheLists!ToSet(TheSeqs[h])
  BY <1>7, <1>10 DEF Links!TheLists!ToSet, ToSet
<1>. QED  BY <1>8, <1>13, <1>14, Zenon DEF Links!TheLists!Next, TheSeqs

LEMMA SeqsKept == UNCHANGED listVars => UNCHANGED TheSeqs
BY DEF listVars, TheSeqs

LEMMA ListsStep ==
  PooledInv /\ [PooledNext]_<<vars, listVars>> => [Links!TheLists!Next]_TheSeqs
<1>1. SUFFICES ASSUME PooledInv, [PooledNext]_<<vars, listVars>>
               PROVE  Links!TheLists!Next \/ UNCHANGED TheSeqs
  OBVIOUS
<1>2. Alloc => UNCHANGED TheSeqs
  BY <1>1, AllocKeeps, SeqsKept
<1>3. Free => UNCHANGED TheSeqs
  BY <1>1, FreeKeeps, SeqsKept
<1>4. AllocFails \/ FreeRefused \/ UNCHANGED <<vars, listVars>> => UNCHANGED TheSeqs
  BY <1>1, OthersKeep, SeqsKept
<1>5. Inserts => Links!TheLists!Next
  BY <1>1, InsertsRefine
<1>6. Detaches => Links!TheLists!Next
  BY <1>1, DetachesRefine
<1>. QED  BY <1>1, <1>2, <1>3, <1>4, <1>5, <1>6, Zenon DEF PooledNext

LEMMA ListsInit == PooledInit => Links!TheLists!Init
<1>1. SUFFICES ASSUME PooledInit PROVE Links!TheLists!Init
  OBVIOUS
<1>2. PooledInv
  BY <1>1, PooledInitInv
<1>3. ASSUME NEW h \in Heads PROVE TheSeqs[h] = <<>>
  <2>1. PICK s : ListIs(h, s)
    BY <1>2 DEF PooledInv
  <2>2. Len(s) = 0
    BY <1>1, <2>1 DEF ListIs, PooledInit, Links!Init
  <2>3. s = <<>>
    BY <2>1, <2>2, Members DEF ListIs
  <2>. QED  BY <1>2, <2>1, <2>3, ListsWalked DEF TheSeqs
<1>4. TheSeqs = [h \in Heads |-> <<>>]
  BY <1>3 DEF TheSeqs
<1>. QED  BY <1>4, Zenon DEF Links!TheLists!Init, TheSeqs

(* The lists, pointer by pointer, implement sequences: an item goes behind *)
(* the one it was inserted after, or to the front, and a detach takes out  *)
(* that item and nothing else (linked_list.c:21-79).                       *)
THEOREM ListsRefined == PooledSpec => ImplementsLists
<1>1. PooledSpec => Links!TheLists!Init /\ [][Links!TheLists!Next]_TheSeqs
  BY ListsInit, ListsStep, PooledInvariance, PTL DEF PooledSpec
<1>2. Links!TheLists!Spec <=> Links!TheLists!Init /\ [][Links!TheLists!Next]_TheSeqs
  BY PTL DEF Links!TheLists!Spec, TheSeqs
<1>. QED  BY <1>1, <1>2, PTL DEF ImplementsLists, Links!ImplementsLists
=============================================================================
