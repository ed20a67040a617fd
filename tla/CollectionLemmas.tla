-------------------------- MODULE CollectionLemmas --------------------------
(***************************************************************************)
(* Lists and sums.                                                         *)
(*                                                                         *)
(* What the list operations of the kernel (the operators of the sequences  *)
(* modules that stand for List_insert and List_detach) do to the set of    *)
(* the members of a list and to its having each member once.               *)
(*                                                                         *)
(* Sums of a function over a finite set, as the accounts of the kernel's   *)
(* pools take them.  Such a sum is a fold, defined by recursion over the   *)
(* subsets of the set; it is shown to be the number of pairs of an element *)
(* and a unit of its value, from which the rest follows.  Induction over a *)
(* finite set is done by looking at a least subset for which the claim     *)
(* would fail (LeastSubset).                                               *)
(***************************************************************************)
EXTENDS Integers, SequencesExt, SequenceTheorems, FiniteSetTheorems,
        WellFoundedInduction, TLAPS

(* The members of a list, by position.                                     *)
LEMMA Members ==
  ASSUME NEW S, NEW s \in Seq(S)
  PROVE  /\ Len(s) \in Nat
         /\ DOMAIN s = 1 .. Len(s)
         /\ ToSet(s) = {s[i] : i \in 1 .. Len(s)}
         /\ ToSet(s) \subseteq S
         /\ \A i \in 1 .. Len(s) : s[i] \in S /\ s[i] \in ToSet(s)
         /\ s = <<>> <=> Len(s) = 0
         /\ s = <<>> <=> ToSet(s) = {}
<1>1. Len(s) \in Nat /\ DOMAIN s = 1 .. Len(s) /\ s \in [1 .. Len(s) -> S]
  BY LenProperties
<1>2. \A i \in 1 .. Len(s) : s[i] \in S
  BY ElementOfSeq
<1>3. ToSet(s) = {s[i] : i \in 1 .. Len(s)}
  BY <1>1 DEF ToSet
<1>4. s = <<>> <=> Len(s) = 0
  BY <1>1, EmptySeq
<1>5. ASSUME s # <<>> PROVE s[1] \in ToSet(s)
  BY <1>1, <1>3, <1>4, <1>5
<1>6. ToSet(s) \subseteq S /\ \A i \in 1 .. Len(s) : s[i] \in ToSet(s)
  BY <1>2, <1>3
<1>7. s = <<>> => ToSet(s) = {}
  BY <1>1, <1>3, <1>4
<1>. QED  BY <1>1, <1>2, <1>3, <1>4, <1>5, <1>6, <1>7

(* Each member once, by position.                                          *)
LEMMA Injective ==
  ASSUME NEW S, NEW s \in Seq(S)
  PROVE  IsInjective(s) <=> \A i, j \in 1 .. Len(s) : s[i] = s[j] => i = j
BY LenProperties DEF IsInjective

LEMMA EmptyList == ToSet(<<>>) = {} /\ IsInjective(<<>>)
BY DEF ToSet, IsInjective

(* List_detach of the first item.                                          *)
LEMMA DetachHead ==
  ASSUME NEW S, NEW s \in Seq(S), s # <<>>
  PROVE  /\ Head(s) \in S
         /\ Tail(s) \in Seq(S)
         /\ Head(s) \in ToSet(s)
         /\ ToSet(s) = ToSet(Tail(s)) \cup {Head(s)}
         /\ IsInjective(s) => IsInjective(Tail(s)) /\ Head(s) \notin ToSet(Tail(s))
<1>1. /\ Head(s) \in S
      /\ Tail(s) \in Seq(S)
      /\ Len(Tail(s)) = Len(s) - 1
      /\ \A i \in 1 .. Len(Tail(s)) : Tail(s)[i] = s[i + 1]
  BY HeadTailProperties
<1>2. Head(s) = s[1] /\ Len(s) \in Nat \ {0}
  BY EmptySeq, LenProperties
<1>3. ToSet(s) = {s[i] : i \in 1 .. Len(s)}
      /\ ToSet(Tail(s)) = {Tail(s)[i] : i \in 1 .. Len(Tail(s))}
  BY <1>1, Members
<1>4. ToSet(s) \subseteq ToSet(Tail(s)) \cup {Head(s)}
  <2>1. ASSUME NEW i \in 1 .. Len(s), i # 1
        PROVE  i - 1 \in 1 .. Len(Tail(s)) /\ s[i] = Tail(s)[i - 1]
    BY <1>1, <1>2, <2>1
  <2>2. ASSUME NEW i \in 1 .. Len(s)
        PROVE  s[i] \in ToSet(Tail(s)) \cup {Head(s)}
    BY <1>2, <1>3, <2>1
  <2>. QED  BY <1>3, <2>2
<1>5. ToSet(Tail(s)) \cup {Head(s)} \subseteq ToSet(s)
  <2>1. ASSUME NEW i \in 1 .. Len(Tail(s))
        PROVE  i + 1 \in 1 .. Len(s) /\ s[i + 1] = Tail(s)[i]
    BY <1>1, <1>2, <2>1
  <2>. QED  BY <1>2, <1>3, <2>1
<1>6. ASSUME IsInjective(s) PROVE IsInjective(Tail(s))
  <2>1. \A i, j \in 1 .. Len(s) : s[i] = s[j] => i = j
    BY <1>6, Injective
  <2>2. \A i, j \in 1 .. Len(Tail(s)) : Tail(s)[i] = Tail(s)[j] => i = j
    BY <1>1, <1>2, <2>1
  <2>. QED  BY <1>1, <2>2, Injective
<1>7. ASSUME IsInjective(s) PROVE Head(s) \notin ToSet(Tail(s))
  <2>1. \A i, j \in 1 .. Len(s) : s[i] = s[j] => i = j
    BY <1>7, Injective
  <2>2. \A i \in 1 .. Len(Tail(s)) : Tail(s)[i] # s[1]
    BY <1>1, <1>2, <2>1
  <2>. QED  BY <1>2, <1>3, <2>2
<1>. QED  BY <1>1, <1>4, <1>5, <1>6, <1>7

(* List_insert of one list's items behind those of another.                *)
LEMMA Concatenate ==
  ASSUME NEW S, NEW s \in Seq(S), NEW t \in Seq(S)
  PROVE  /\ s \o t \in Seq(S)
         /\ ToSet(s \o t) = ToSet(s) \cup ToSet(t)
         /\ IsInjective(s) /\ IsInjective(t) /\ ToSet(s) \cap ToSet(t) = {}
              => IsInjective(s \o t)
<1>1. /\ s \o t \in Seq(S)
      /\ Len(s \o t) = Len(s) + Len(t)
      /\ \A i \in 1 .. Len(s) + Len(t) :
           (s \o t)[i] = IF i <= Len(s) THEN s[i] ELSE t[i - Len(s)]
  BY ConcatProperties
<1>2. Len(s) \in Nat /\ Len(t) \in Nat
  BY LenProperties
<1>3. /\ ToSet(s) = {s[i] : i \in 1 .. Len(s)}
      /\ ToSet(t) = {t[i] : i \in 1 .. Len(t)}
      /\ ToSet(s \o t) = {(s \o t)[i] : i \in 1 .. Len(s \o t)}
  BY <1>1, Members
<1>4. ToSet(s \o t) \subseteq ToSet(s) \cup ToSet(t)
  <2>1. ASSUME NEW i \in 1 .. Len(s \o t)
        PROVE  (s \o t)[i] \in ToSet(s) \cup ToSet(t)
    <3>1. CASE i <= Len(s)
      BY <1>1, <1>2, <1>3, <3>1
    <3>2. CASE ~(i <= Len(s))
      <4>1. i - Len(s) \in 1 .. Len(t)
        BY <1>1, <1>2, <3>2
      <4>. QED  BY <1>1, <1>2, <1>3, <3>2, <4>1
    <3>. QED  BY <3>1, <3>2
  <2>. QED  BY <1>3, <2>1
<1>5. ToSet(s) \cup ToSet(t) \subseteq ToSet(s \o t)
  <2>1. ASSUME NEW i \in 1 .. Len(s)
        PROVE  i \in 1 .. Len(s \o t) /\ (s \o t)[i] = s[i]
    BY <1>1, <1>2
  <2>2. ASSUME NEW i \in 1 .. Len(t)
        PROVE  i + Len(s) \in 1 .. Len(s \o t) /\ (s \o t)[i + Len(s)] = t[i]
    BY <1>1, <1>2
  <2>. QED  BY <1>3, <2>1, <2>2
<1>6. ASSUME IsInjective(s), IsInjective(t), ToSet(s) \cap ToSet(t) = {}
      PROVE  IsInjective(s \o t)
  <2>1. /\ \A i, j \in 1 .. Len(s) : s[i] = s[j] => i = j
        /\ \A i, j \in 1 .. Len(t) : t[i] = t[j] => i = j
    BY <1>6, Injective
  <2>2. \A i \in 1 .. Len(s), j \in 1 .. Len(t) : s[i] # t[j]
    BY <1>3, <1>6
  <2>3. ASSUME NEW i \in 1 .. Len(s \o t), NEW j \in 1 .. Len(s \o t),
               (s \o t)[i] = (s \o t)[j]
        PROVE  i = j
    <3>1. CASE i <= Len(s) /\ j <= Len(s)
      BY <1>1, <1>2, <2>1, <2>3, <3>1
    <3>2. CASE ~(i <= Len(s)) /\ ~(j <= Len(s))
      <4>1. i - Len(s) \in 1 .. Len(t) /\ j - Len(s) \in 1 .. Len(t)
        BY <1>1, <1>2, <3>2
      <4>2. (s \o t)[i] = t[i - Len(s)] /\ (s \o t)[j] = t[j - Len(s)]
        BY <1>1, <1>2, <3>2
      <4>3. i - Len(s) = j - Len(s)
        BY <2>1, <2>3, <4>1, <4>2
      <4>. QED  BY <1>1, <1>2, <4>3
    <3>3. CASE i <= Len(s) /\ ~(j <= Len(s))
      <4>1. i \in 1 .. Len(s) /\ j - Len(s) \in 1 .. Len(t)
        BY <1>1, <1>2, <3>3
      <4>. QED  BY <1>1, <1>2, <2>2, <2>3, <3>3, <4>1
    <3>4. CASE ~(i <= Len(s)) /\ j <= Len(s)
      <4>1. j \in 1 .. Len(s) /\ i - Len(s) \in 1 .. Len(t)
        BY <1>1, <1>2, <3>4
      <4>. QED  BY <1>1, <1>2, <2>2, <2>3, <3>4, <4>1
    <3>. QED  BY <3>1, <3>2, <3>3, <3>4
  <2>. QED  BY <1>1, <2>3, Injective
<1>. QED  BY <1>1, <1>4, <1>5, <1>6

(* Two lists that together hold each item once.                            *)
LEMMA ConcatenateInjective ==
  ASSUME NEW S, NEW s \in Seq(S), NEW t \in Seq(S)
  PROVE  IsInjective(s \o t)
           <=> IsInjective(s) /\ IsInjective(t) /\ ToSet(s) \cap ToSet(t) = {}
<1>1. /\ s \o t \in Seq(S)
      /\ Len(s \o t) = Len(s) + Len(t)
      /\ \A i \in 1 .. Len(s) + Len(t) :
           (s \o t)[i] = IF i <= Len(s) THEN s[i] ELSE t[i - Len(s)]
  BY ConcatProperties
<1>2. Len(s) \in Nat /\ Len(t) \in Nat
  BY LenProperties
<1>3. SUFFICES ASSUME IsInjective(s \o t)
               PROVE  IsInjective(s) /\ IsInjective(t) /\ ToSet(s) \cap ToSet(t) = {}
  BY Concatenate
<1>4. \A i, j \in 1 .. Len(s) + Len(t) : (s \o t)[i] = (s \o t)[j] => i = j
  BY <1>1, <1>3, Injective
<1>5. ASSUME NEW i \in 1 .. Len(s)
      PROVE  i \in 1 .. Len(s) + Len(t) /\ (s \o t)[i] = s[i]
  BY <1>1, <1>2
<1>6. ASSUME NEW i \in 1 .. Len(t)
      PROVE  i + Len(s) \in 1 .. Len(s) + Len(t) /\ (s \o t)[i + Len(s)] = t[i]
  BY <1>1, <1>2
<1>7. IsInjective(s)
  <2>1. \A i, j \in 1 .. Len(s) : s[i] = s[j] => i = j
    BY <1>4, <1>5
  <2>. QED  BY <2>1, Injective
<1>8. IsInjective(t)
  <2>1. ASSUME NEW i \in 1 .. Len(t), NEW j \in 1 .. Len(t), t[i] = t[j] PROVE i = j
    <3>1. i + Len(s) = j + Len(s)
      BY <1>4, <1>6, <2>1
    <3>. QED  BY <1>2, <3>1
  <2>. QED  BY <2>1, Injective
<1>9. ToSet(s) \cap ToSet(t) = {}
  <2>1. ASSUME NEW i \in 1 .. Len(s), NEW j \in 1 .. Len(t) PROVE s[i] # t[j]
    <3>1. i # j + Len(s)
      BY <1>2
    <3>. QED  BY <1>4, <1>5, <1>6, <3>1
  <2>2. ToSet(s) = {s[i] : i \in 1 .. Len(s)} /\ ToSet(t) = {t[i] : i \in 1 .. Len(t)}
    BY Members
  <2>. QED  BY <2>1, <2>2
<1>. QED  BY <1>7, <1>8, <1>9

LEMMA Singleton ==
  ASSUME NEW S, NEW e \in S
  PROVE  /\ <<e>> \in Seq(S)
         /\ ToSet(<<e>>) = {e}
         /\ IsInjective(<<e>>)
BY DEF ToSet, IsInjective

(* List_insert at the end of a list.                                       *)
LEMMA InsertLast ==
  ASSUME NEW S, NEW s \in Seq(S), NEW e \in S
  PROVE  /\ Append(s, e) \in Seq(S)
         /\ ToSet(Append(s, e)) = ToSet(s) \cup {e}
         /\ IsInjective(s) /\ e \notin ToSet(s) => IsInjective(Append(s, e))
<1>1. Append(s, e) = s \o <<e>>
  BY AppendIsConcat
<1>2. /\ s \o <<e>> \in Seq(S)
      /\ ToSet(s \o <<e>>) = ToSet(s) \cup ToSet(<<e>>)
      /\ IsInjective(s) /\ IsInjective(<<e>>) /\ ToSet(s) \cap ToSet(<<e>>) = {}
           => IsInjective(s \o <<e>>)
  <2>. HIDE <1>1
  <2>. QED  BY Singleton, Concatenate
<1>. QED  BY <1>1, <1>2, Singleton, Zenon

(* List_insert at the front, or the release of a block to its pool.        *)
LEMMA InsertFirst ==
  ASSUME NEW S, NEW s \in Seq(S), NEW e \in S
  PROVE  /\ Cons(e, s) \in Seq(S)
         /\ ToSet(Cons(e, s)) = ToSet(s) \cup {e}
         /\ IsInjective(s) /\ e \notin ToSet(s) => IsInjective(Cons(e, s))
<1>1. /\ <<e>> \o s \in Seq(S)
      /\ ToSet(<<e>> \o s) = ToSet(<<e>>) \cup ToSet(s)
      /\ IsInjective(<<e>>) /\ IsInjective(s) /\ ToSet(<<e>>) \cap ToSet(s) = {}
           => IsInjective(<<e>> \o s)
  BY Singleton, Concatenate
<1>. QED  BY <1>1, Singleton, Zenon DEF Cons

(* A list cut in two.                                                      *)
LEMMA Cut ==
  ASSUME NEW S, NEW s \in Seq(S), NEW m \in Nat, m <= Len(s)
  PROVE  /\ SubSeq(s, 1, m) \in Seq(S)
         /\ Len(SubSeq(s, 1, m)) = m
         /\ \A i \in 1 .. m : SubSeq(s, 1, m)[i] = s[i]
         /\ SubSeq(s, m + 1, Len(s)) \in Seq(S)
         /\ Len(SubSeq(s, m + 1, Len(s))) = Len(s) - m
         /\ \A i \in 1 .. Len(s) - m : SubSeq(s, m + 1, Len(s))[i] = s[m + i]
<1>1. Len(s) \in Nat
  BY LenProperties
<1>2. \A i \in 1 .. Len(s) : s[i] \in S
  BY ElementOfSeq
<1>3. \A i \in 1 .. m : s[i] \in S
  BY <1>1, <1>2
<1>4. \A i \in m + 1 .. Len(s) : s[i] \in S
  BY <1>1, <1>2
<1>5. /\ SubSeq(s, 1, m) \in Seq(S)
      /\ Len(SubSeq(s, 1, m)) = IF 1 <= m THEN m - 1 + 1 ELSE 0
      /\ \A i \in 1 .. m - 1 + 1 : SubSeq(s, 1, m)[i] = s[1 + i - 1]
  BY <1>3, SubSeqProperties
<1>6. /\ SubSeq(s, m + 1, Len(s)) \in Seq(S)
      /\ Len(SubSeq(s, m + 1, Len(s)))
           = IF m + 1 <= Len(s) THEN Len(s) - (m + 1) + 1 ELSE 0
      /\ \A i \in 1 .. Len(s) - (m + 1) + 1 :
           SubSeq(s, m + 1, Len(s))[i] = s[m + 1 + i - 1]
  <2>1. m + 1 \in Int /\ Len(s) \in Int
    BY <1>1
  <2>. QED  BY <1>4, <2>1, SubSeqProperties
<1>. QED  BY <1>1, <1>5, <1>6

(* Of the positions that satisfy a condition one is the first.             *)
LEMMA FirstPosition ==
  ASSUME NEW I \in SUBSET Nat, I # {}
  PROVE  Min(I) \in I /\ \A i \in I : Min(I) <= i
<1>. DEFINE below == {ss \in Nat \X Nat : ss[1] < ss[2]}
<1>1. OpToRel(<, Nat) = below
  BY Zenon DEF OpToRel
<1>2. IsWellFoundedOn(below, Nat)
  BY <1>1, NatLessThanWellFounded, Zenon
<1>3. PICK x \in I : \A y \in I : <<y, x>> \notin below
  <2>. HIDE DEF below
  <2>. QED  BY <1>2, WFMin
<1>4. ASSUME NEW y \in I, y < x PROVE FALSE
  <2>1. <<y, x>> \in below
    BY <1>4
  <2>. QED  BY <1>3, <2>1
<1>5. \A y \in I : x <= y
  <2>. HIDE DEF below
  <2>. QED  BY <1>4
<1>. QED  BY <1>5 DEF Min

(* List_detach of the item at a position.                                  *)
LEMMA DetachAt ==
  ASSUME NEW S, NEW s \in Seq(S), NEW k \in 1 .. Len(s)
  PROVE  /\ RemoveAt(s, k) \in Seq(S)
         /\ s[k] \in ToSet(s)
         /\ ToSet(s) = ToSet(RemoveAt(s, k)) \cup {s[k]}
         /\ IsInjective(s) => IsInjective(RemoveAt(s, k)) /\ s[k] \notin ToSet(RemoveAt(s, k))
<1>. DEFINE a == SubSeq(s, 1, k - 1)
            b == SubSeq(s, k + 1, Len(s))
<1>1. Len(s) \in Nat /\ k \in Nat /\ k - 1 \in Nat /\ k - 1 <= Len(s) /\ k <= Len(s)
  BY LenProperties
<1>2. /\ a \in Seq(S) /\ Len(a) = k - 1 /\ \A i \in 1 .. k - 1 : a[i] = s[i]
      /\ b \in Seq(S) /\ Len(b) = Len(s) - k /\ \A i \in 1 .. Len(s) - k : b[i] = s[k + i]
  BY <1>1, Cut
<1>3. RemoveAt(s, k) = a \o b
  BY DEF RemoveAt
<1>. HIDE DEF a, b
<1>4. /\ ToSet(s) = {s[i] : i \in 1 .. Len(s)}
      /\ ToSet(a) = {a[i] : i \in 1 .. k - 1}
      /\ ToSet(b) = {b[i] : i \in 1 .. Len(s) - k}
  BY <1>2, Members
<1>5. /\ a \o b \in Seq(S)
      /\ ToSet(a \o b) = ToSet(a) \cup ToSet(b)
  BY <1>2, Concatenate
<1>6. ToSet(a) \subseteq ToSet(s)
  BY <1>1, <1>2, <1>4
<1>7. ToSet(b) \subseteq ToSet(s)
  <2>1. \A i \in 1 .. Len(s) - k : k + i \in 1 .. Len(s)
    BY <1>1
  <2>. QED  BY <1>2, <1>4, <2>1
<1>8. ToSet(s) \subseteq ToSet(a) \cup ToSet(b) \cup {s[k]}
  <2>1. ASSUME NEW i \in 1 .. Len(s)
        PROVE  s[i] \in ToSet(a) \cup ToSet(b) \cup {s[k]}
    <3>1. CASE i < k
      <4>1. i \in 1 .. k - 1
        BY <1>1, <3>1
      <4>. QED  BY <1>2, <1>4, <4>1
    <3>2. CASE i > k
      <4>1. i - k \in 1 .. Len(s) - k /\ k + (i - k) = i
        BY <1>1, <3>2
      <4>. QED  BY <1>2, <1>4, <4>1
    <3>. QED  BY <1>1, <3>1, <3>2
  <2>. QED  BY <1>4, <2>1
<1>9. ASSUME IsInjective(s)
      PROVE  IsInjective(a \o b) /\ s[k] \notin ToSet(a) \cup ToSet(b)
  <2>1. \A i, j \in 1 .. Len(s) : s[i] = s[j] => i = j
    BY <1>9, Injective
  <2>2. \A i \in 1 .. k - 1 : i \in 1 .. Len(s) /\ i # k
    BY <1>1
  <2>3. \A i \in 1 .. Len(s) - k : k + i \in 1 .. Len(s) /\ k + i # k
    BY <1>1
  <2>4. s[k] \notin ToSet(a) \cup ToSet(b)
    BY <1>2, <1>4, <2>1, <2>2, <2>3
  <2>5. IsInjective(a)
    BY <1>2, <2>1, <2>2, Injective
  <2>6. IsInjective(b)
    <3>1. ASSUME NEW i \in 1 .. Len(s) - k, NEW j \in 1 .. Len(s) - k, b[i] = b[j]
          PROVE  i = j
      <4>1. s[k + i] = s[k + j]
        BY <1>2, <3>1
      <4>2. k + i = k + j
        BY <2>1, <2>3, <4>1
      <4>. QED  BY <1>1, <4>2
    <3>. QED  BY <1>2, <3>1, Injective
  <2>7. ToSet(a) \cap ToSet(b) = {}
    <3>1. ASSUME NEW i \in 1 .. k - 1, NEW j \in 1 .. Len(s) - k, a[i] = b[j]
          PROVE  FALSE
      <4>1. s[i] = s[k + j]
        BY <1>2, <3>1
      <4>2. i = k + j
        BY <2>1, <2>2, <2>3, <4>1
      <4>. QED  BY <1>1, <4>2
    <3>. QED  BY <1>4, <3>1
  <2>. QED  BY <1>2, <2>4, <2>5, <2>6, <2>7, Concatenate
<1>. QED  BY <1>1, <1>3, <1>4, <1>5, <1>6, <1>7, <1>8, <1>9

(* List_detach of an item that is in the list.                             *)
LEMMA DetachItem ==
  ASSUME NEW S, NEW s \in Seq(S), NEW e \in ToSet(s)
  PROVE  /\ RemoveFirst(s, e) \in Seq(S)
         /\ ToSet(s) = ToSet(RemoveFirst(s, e)) \cup {e}
         /\ IsInjective(s) => IsInjective(RemoveFirst(s, e)) /\ e \notin ToSet(RemoveFirst(s, e))
<1>. DEFINE I == {i \in 1 .. Len(s) : s[i] = e}
<1>1. I \in SUBSET Nat /\ I # {} /\ \E i \in 1 .. Len(s) : s[i] = e
  BY Members
<1>2. Min(I) \in I
  <2>. HIDE DEF I
  <2>. QED  BY <1>1, FirstPosition
<1>3. SelectInSeq(s, LAMBDA v : v = e) = Min(I)
  BY <1>1 DEF SelectInSeq
<1>4. RemoveFirst(s, e) = RemoveAt(s, Min(I))
  <2>. HIDE DEF I
  <2>. QED  BY <1>1, <1>3 DEF RemoveFirst
<1>5. Min(I) \in 1 .. Len(s) /\ s[Min(I)] = e
  BY <1>2
<1>. HIDE DEF I
<1>6. /\ RemoveAt(s, Min(I)) \in Seq(S)
      /\ ToSet(s) = ToSet(RemoveAt(s, Min(I))) \cup {e}
      /\ IsInjective(s) => /\ IsInjective(RemoveAt(s, Min(I)))
                           /\ e \notin ToSet(RemoveAt(s, Min(I)))
  BY <1>5, DetachAt
<1>. QED  BY <1>4, <1>6

(* List_insert of an item at a position.                                   *)
LEMMA InsertPosition ==
  ASSUME NEW S, NEW s \in Seq(S), NEW e \in S, NEW k \in 1 .. Len(s) + 1
  PROVE  /\ InsertAt(s, k, e) \in Seq(S)
         /\ Len(InsertAt(s, k, e)) = Len(s) + 1
         /\ \A i \in 1 .. Len(s) + 1 :
              /\ i < k => InsertAt(s, k, e)[i] = s[i]
              /\ i = k => InsertAt(s, k, e)[i] = e
              /\ i > k => InsertAt(s, k, e)[i] = s[i - 1]
<1>. DEFINE n == Len(s)
            a == SubSeq(s, 1, k - 1)
            b == SubSeq(s, k, n)
            c == a \o <<e>>
<1>1. n \in Nat /\ k - 1 \in Nat /\ k - 1 <= n /\ (k - 1) + 1 = k
  BY LenProperties
<1>2. InsertAt(s, k, e) = c \o b
  BY DEF InsertAt
<1>3. /\ a \in Seq(S) /\ Len(a) = k - 1 /\ \A i \in 1 .. k - 1 : a[i] = s[i]
      /\ b \in Seq(S) /\ Len(b) = n - (k - 1)
      /\ \A i \in 1 .. n - (k - 1) : b[i] = s[k - 1 + i]
  BY <1>1, Cut
<1>4. <<e>> \in Seq(S) /\ Len(<<e>>) = 1 /\ <<e>>[1] = e
  OBVIOUS
<1>. HIDE DEF n, a, b
<1>5. /\ c \in Seq(S)
      /\ Len(c) = Len(a) + Len(<<e>>)
      /\ \A i \in 1 .. Len(a) + Len(<<e>>) :
           c[i] = IF i <= Len(a) THEN a[i] ELSE <<e>>[i - Len(a)]
  BY <1>3, <1>4, ConcatProperties
<1>6. Len(c) = k /\ c[k] = e /\ \A i \in 1 .. k - 1 : c[i] = s[i]
  <2>1. Len(a) + Len(<<e>>) = k /\ k \in 1 .. k /\ k - Len(a) = 1 /\ ~(k <= Len(a))
    BY <1>1, <1>3, <1>4
  <2>2. \A i \in 1 .. k - 1 : i \in 1 .. k /\ i <= Len(a)
    BY <1>1, <1>3
  <2>3. c[k] = e
    BY <1>4, <1>5, <2>1
  <2>4. \A i \in 1 .. k - 1 : c[i] = a[i]
    BY <1>5, <2>1, <2>2
  <2>. QED  BY <1>3, <1>5, <2>1, <2>3, <2>4
<1>. HIDE DEF c
<1>7. /\ c \o b \in Seq(S)
      /\ Len(c \o b) = Len(c) + Len(b)
      /\ \A i \in 1 .. Len(c) + Len(b) :
           (c \o b)[i] = IF i <= Len(c) THEN c[i] ELSE b[i - Len(c)]
  <2>1. c \in Seq(S) /\ b \in Seq(S)
    BY <1>3, <1>5
  <2>. QED  BY <2>1, ConcatProperties
<1>8. Len(c) + Len(b) = n + 1
  BY <1>1, <1>3, <1>6
<1>9. ASSUME NEW i \in 1 .. n + 1
      PROVE  /\ i < k => (c \o b)[i] = s[i]
             /\ i = k => (c \o b)[i] = e
             /\ i > k => (c \o b)[i] = s[i - 1]
  <2>1. ASSUME i < k PROVE (c \o b)[i] = s[i]
    <3>1. i \in 1 .. k - 1 /\ i <= Len(c)
      BY <1>1, <1>6, <2>1
    <3>. QED  BY <1>6, <1>7, <1>8, <3>1
  <2>2. ASSUME i = k PROVE (c \o b)[i] = e
    BY <1>6, <1>7, <1>8, <2>2
  <2>3. ASSUME i > k PROVE (c \o b)[i] = s[i - 1]
    <3>1. ~(i <= Len(c)) /\ i - k \in 1 .. n - (k - 1) /\ k - 1 + (i - k) = i - 1
      BY <1>1, <1>6, <2>3
    <3>. QED  BY <1>3, <1>6, <1>7, <1>8, <3>1
  <2>. QED  BY <2>1, <2>2, <2>3
<1>. QED  BY <1>2, <1>7, <1>8, <1>9 DEF n

LEMMA InsertMembers ==
  ASSUME NEW S, NEW s \in Seq(S), NEW e \in S, NEW k \in 1 .. Len(s) + 1
  PROVE  /\ ToSet(InsertAt(s, k, e)) = ToSet(s) \cup {e}
         /\ IsInjective(s) /\ e \notin ToSet(s) => IsInjective(InsertAt(s, k, e))
<1>. DEFINE t == InsertAt(s, k, e)
            n == Len(s)
<1>1. /\ t \in Seq(S) /\ Len(t) = n + 1 /\ n \in Nat
      /\ \A i \in 1 .. n + 1 :
           /\ i < k => t[i] = s[i]
           /\ i = k => t[i] = e
           /\ i > k => t[i] = s[i - 1]
  BY InsertPosition, LenProperties
<1>. HIDE DEF t, n
<1>2. /\ ToSet(t) = {t[i] : i \in 1 .. n + 1}
      /\ ToSet(s) = {s[i] : i \in 1 .. n}
      /\ k \in 1 .. n + 1
  BY <1>1, Members DEF n
<1>3. ToSet(t) = ToSet(s) \cup {e}
  <2>1. ASSUME NEW i \in 1 .. n + 1 PROVE t[i] \in ToSet(s) \cup {e}
    <3>1. i < k => i \in 1 .. n
      BY <1>1, <1>2
    <3>2. i > k => i - 1 \in 1 .. n
      BY <1>1, <1>2
    <3>. QED  BY <1>1, <1>2, <3>1, <3>2
  <2>2. ASSUME NEW i \in 1 .. n PROVE s[i] \in ToSet(t)
    <3>1. i < k => i \in 1 .. n + 1 /\ t[i] = s[i]
      BY <1>1, <1>2
    <3>2. i >= k => i + 1 \in 1 .. n + 1 /\ i + 1 > k /\ i + 1 - 1 = i
      BY <1>1, <1>2
    <3>3. i >= k => t[i + 1] = s[i]
      BY <1>1, <3>2
    <3>. QED  BY <1>1, <1>2, <3>1, <3>2, <3>3
  <2>3. e \in ToSet(t)
    BY <1>1, <1>2
  <2>. QED  BY <1>2, <2>1, <2>2, <2>3
<1>4. ASSUME IsInjective(s), e \notin ToSet(s) PROVE IsInjective(t)
  <2>1. \A i, j \in 1 .. n : s[i] = s[j] => i = j
    BY <1>4, Injective DEF n
  <2>2. ASSUME NEW i \in 1 .. n + 1, NEW j \in 1 .. n + 1, i < j PROVE t[i] # t[j]
    <3>1. \A m \in 1 .. n : s[m] # e
      BY <1>2, <1>4
    <3>2. CASE j < k
      <4>1. i \in 1 .. n /\ j \in 1 .. n /\ i < k /\ i # j
        BY <1>1, <1>2, <2>2, <3>2
      <4>. QED  BY <1>1, <2>1, <3>2, <4>1
    <3>3. CASE j = k
      <4>1. i \in 1 .. n /\ i < k
        BY <1>1, <1>2, <2>2, <3>3
      <4>. QED  BY <1>1, <3>1, <3>3, <4>1
    <3>4. CASE j > k
      <4>1. j - 1 \in 1 .. n /\ t[j] = s[j - 1]
        BY <1>1, <1>2, <2>2, <3>4
      <4>2. CASE i < k
        <5>1. i \in 1 .. n /\ t[i] = s[i] /\ i # j - 1
          BY <1>1, <1>2, <2>2, <3>4, <4>2
        <5>. QED  BY <2>1, <4>1, <5>1
      <4>3. CASE i = k
        BY <1>1, <3>1, <4>1, <4>3
      <4>4. CASE i > k
        <5>1. i - 1 \in 1 .. n /\ t[i] = s[i - 1] /\ i - 1 # j - 1
          BY <1>1, <1>2, <2>2, <4>4
        <5>. QED  BY <2>1, <4>1, <5>1
      <4>. QED  BY <1>2, <2>2, <4>2, <4>3, <4>4
    <3>. QED  BY <1>2, <2>2, <3>2, <3>3, <3>4
  <2>3. \A i, j \in 1 .. n + 1 : t[i] = t[j] => i = j
    <3>1. ASSUME NEW i \in 1 .. n + 1, NEW j \in 1 .. n + 1, t[i] = t[j], i # j PROVE FALSE
      <4>1. i < j \/ j < i
        BY <1>1, <3>1
      <4>. QED  BY <2>2, <3>1, <4>1
    <3>. QED  BY <3>1
  <2>. QED  BY <1>1, <2>3, Injective
<1>. QED  BY <1>3, <1>4 DEF t

LEMMA DetachPosition ==
  ASSUME NEW S, NEW s \in Seq(S), NEW k \in 1 .. Len(s)
  PROVE  /\ Len(RemoveAt(s, k)) = Len(s) - 1
         /\ \A i \in 1 .. Len(s) - 1 :
              /\ i < k => RemoveAt(s, k)[i] = s[i]
              /\ i >= k => RemoveAt(s, k)[i] = s[i + 1]
<1>. DEFINE n == Len(s)
            a == SubSeq(s, 1, k - 1)
            b == SubSeq(s, k + 1, n)
<1>1. n \in Nat /\ k \in 1 .. n /\ k - 1 \in Nat /\ k \in Nat
  BY LenProperties
<1>2. RemoveAt(s, k) = a \o b
  BY DEF RemoveAt
<1>3. /\ a \in Seq(S) /\ Len(a) = k - 1 /\ \A i \in 1 .. k - 1 : a[i] = s[i]
      /\ b \in Seq(S) /\ Len(b) = n - k
      /\ \A i \in 1 .. n - k : b[i] = s[k + i]
  BY <1>1, Cut
<1>. HIDE DEF a, b, n
<1>4. /\ Len(a \o b) = Len(a) + Len(b)
      /\ \A i \in 1 .. Len(a) + Len(b) :
           (a \o b)[i] = IF i <= Len(a) THEN a[i] ELSE b[i - Len(a)]
  BY <1>3, ConcatProperties
<1>5. Len(a) + Len(b) = n - 1
  BY <1>1, <1>3
<1>6. ASSUME NEW i \in 1 .. n - 1
      PROVE  /\ i < k => (a \o b)[i] = s[i]
             /\ i >= k => (a \o b)[i] = s[i + 1]
  <2>1. (a \o b)[i] = IF i <= k - 1 THEN a[i] ELSE b[i - (k - 1)]
    BY <1>3, <1>4, <1>5
  <2>2. CASE i < k
    <3>1. i \in 1 .. k - 1 /\ i <= k - 1
      BY <1>1, <2>2
    <3>. QED  BY <1>3, <2>1, <2>2, <3>1, <1>1
  <2>3. CASE i >= k
    <3>1. PICK j : j = i - (k - 1)
      OBVIOUS
    <3>2. j \in 1 .. n - k /\ k + j = i + 1 /\ ~(i <= k - 1) /\ ~(i < k)
      BY <1>1, <2>3, <3>1
    <3>3. b[j] = s[k + j]
      BY <1>3, <3>2
    <3>. QED  BY <2>1, <3>1, <3>2, <3>3
  <2>. QED  BY <1>1, <2>2, <2>3
<1>. QED  BY <1>2, <1>4, <1>5, <1>6 DEF n

(* Where an item is that the list has once, the first occurrence is.       *)
LEMMA FirstIs ==
  ASSUME NEW S, NEW s \in Seq(S), IsInjective(s), NEW k \in 1 .. Len(s)
  PROVE  RemoveFirst(s, s[k]) = RemoveAt(s, k)
<1>. DEFINE I == {i \in 1 .. Len(s) : s[i] = s[k]}
<1>1. I = {k}
  BY Injective
<1>2. I \in SUBSET Nat /\ I # {}
  BY <1>1
<1>3. Min(I) = k
  <2>. HIDE DEF I
  <2>. QED  BY <1>1, <1>2, FirstPosition
<1>4. SelectInSeq(s, LAMBDA v : v = s[k]) = Min(I)
  BY <1>2, Zenon DEF SelectInSeq
<1>. QED  BY <1>3, <1>4 DEF RemoveFirst

-----------------------------------------------------------------------------
(* Sums over finite sets.                                                  *)
(* Of some finite sets one has no other of them inside.                    *)
LEMMA LeastSubset ==
  ASSUME NEW S, IsFiniteSet(S), NEW F \in SUBSET SUBSET S, F # {}
  PROVE  \E T \in F : \A U \in F : U \subseteq T => U = T
<1>1. IsWellFoundedOn(StrictSubsetOrdering(S), SUBSET S)
  BY FS_StrictSubsetOrderingWellFounded, FS_FiniteSubsetsOfFinite
<1>2. PICK T \in F : \A U \in F : <<U, T>> \notin StrictSubsetOrdering(S)
  BY <1>1, WFMin
<1>3. ASSUME NEW U \in F, U \subseteq T, U # T PROVE FALSE
  <2>1. <<U, T>> \in StrictSubsetOrdering(S)
    BY <1>3 DEF StrictSubsetOrdering
  <2>. QED  BY <1>2, <2>1
<1>. QED  BY <1>3

(* A unit of f at x is a pair of x and a number below f[x].                *)
UnitsAt(f, x) == {x} \X (0 .. f[x] - 1)
Units(f, T) == UNION {UnitsAt(f, x) : x \in T}

LEMMA CountUnitsAt ==
  ASSUME NEW f, NEW x, f[x] \in Nat
  PROVE  IsFiniteSet(UnitsAt(f, x)) /\ Cardinality(UnitsAt(f, x)) = f[x]
<1>1. IsFiniteSet({x}) /\ Cardinality({x}) = 1
  BY FS_Singleton
<1>2. IsFiniteSet(0 .. f[x] - 1) /\ Cardinality(0 .. f[x] - 1) = f[x]
  <2>. DEFINE n == f[x] - 1
  <2>1. n \in Int /\ 0 \in Int
    OBVIOUS
  <2>2. IsFiniteSet(0 .. n) /\ Cardinality(0 .. n) = IF 0 > n THEN 0 ELSE n - 0 + 1
    <3>. HIDE DEF n
    <3>. QED  BY <2>1, FS_Interval
  <2>. QED  BY <2>2
<1>3. /\ IsFiniteSet({x} \X (0 .. f[x] - 1))
      /\ Cardinality({x} \X (0 .. f[x] - 1)) = 1 * f[x]
  <2>. DEFINE S == {x}
              T == 0 .. f[x] - 1
  <2>1. IsFiniteSet(S) /\ IsFiniteSet(T) /\ Cardinality(S) = 1 /\ Cardinality(T) = f[x]
    BY <1>1, <1>2
  <2>. HIDE DEF S, T
  <2>2. IsFiniteSet(S \X T) /\ Cardinality(S \X T) = Cardinality(S) * Cardinality(T)
    BY <2>1, FS_Product
  <2>3. IsFiniteSet(S \X T) /\ Cardinality(S \X T) = 1 * f[x]
    BY <2>1, <2>2
  <2>. QED  BY <2>3 DEF S, T
<1>. QED  BY <1>3 DEF UnitsAt

LEMMA UnitsWithout ==
  ASSUME NEW f, NEW T, NEW x \in T
  PROVE  /\ Units(f, T) = Units(f, T \ {x}) \cup UnitsAt(f, x)
         /\ Units(f, T \ {x}) \cap UnitsAt(f, x) = {}
BY DEF Units, UnitsAt

LEMMA UnitsFinite ==
  ASSUME NEW S, IsFiniteSet(S), NEW f, \A x \in S : f[x] \in Nat
  PROVE  \A T \in SUBSET S : IsFiniteSet(Units(f, T))
<1>. DEFINE F == {T \in SUBSET S : ~IsFiniteSet(Units(f, T))}
<1>1. ASSUME F # {} PROVE FALSE
  <2>1. PICK T \in F : \A U \in F : U \subseteq T => U = T
    <3>. HIDE DEF F
    <3>1. F \in SUBSET SUBSET S
      BY DEF F
    <3>. QED  BY <1>1, <3>1, LeastSubset
  <2>2. Units(f, {}) = {}
    BY DEF Units
  <2>3. PICK x \in T : TRUE
    BY <2>2, FS_EmptySet
  <2>4. IsFiniteSet(Units(f, T \ {x}))
    BY <2>1
  <2>5. IsFiniteSet(UnitsAt(f, x))
    BY CountUnitsAt
  <2>6. Units(f, T) = Units(f, T \ {x}) \cup UnitsAt(f, x)
    BY UnitsWithout
  <2>. QED  BY <2>4, <2>5, <2>6, FS_Union
<1>. QED  BY <1>1

(* The number of units goes up by f[x] with each x.                        *)
LEMMA CountUnits ==
  ASSUME NEW S, IsFiniteSet(S), NEW f, \A x \in S : f[x] \in Nat
  PROVE  /\ Cardinality(Units(f, {})) = 0
         /\ \A T \in SUBSET S : Cardinality(Units(f, T)) \in Nat
         /\ \A T \in SUBSET S : \A x \in T :
              Cardinality(Units(f, T)) = f[x] + Cardinality(Units(f, T \ {x}))
<1>1. \A T \in SUBSET S : IsFiniteSet(Units(f, T)) /\ Cardinality(Units(f, T)) \in Nat
  BY UnitsFinite, FS_CardinalityType
<1>2. Cardinality(Units(f, {})) = 0
  <2>1. Units(f, {}) = {}
    BY DEF Units
  <2>. QED  BY <2>1, FS_EmptySet
<1>3. ASSUME NEW T \in SUBSET S, NEW x \in T
      PROVE  Cardinality(Units(f, T)) = f[x] + Cardinality(Units(f, T \ {x}))
  <2>. DEFINE rest == Units(f, T \ {x})
              at == UnitsAt(f, x)
  <2>1. IsFiniteSet(rest) /\ Cardinality(rest) \in Nat
    BY <1>1
  <2>2. IsFiniteSet(at) /\ Cardinality(at) = f[x] /\ f[x] \in Nat
    BY CountUnitsAt
  <2>3. Units(f, T) = rest \cup at /\ rest \cap at = {}
    BY UnitsWithout
  <2>4. Cardinality(rest \cap at) = 0
    BY <2>3, FS_EmptySet
  <2>. HIDE DEF rest, at
  <2>5. Cardinality(rest \cup at)
          = Cardinality(rest) + Cardinality(at) - Cardinality(rest \cap at)
    BY <2>1, <2>2, FS_Union
  <2>. QED  BY <2>1, <2>2, <2>3, <2>4, <2>5 DEF rest, at
<1>. QED  BY <1>1, <1>2, <1>3

(* The fold that defines a sum has a value, and it is the number of units. *)
LEMMA SumIsCount ==
  ASSUME NEW S, IsFiniteSet(S), NEW f, \A x \in S : f[x] \in Nat
  PROVE  SumFunctionOnSet(f, S) = Cardinality(Units(f, S))
<1>. DEFINE pick(s) == CHOOSE x \in s : TRUE
            Fold(g) == g = [s \in SUBSET S |->
                              IF s = {} THEN 0 ELSE f[pick(s)] + g[s \ {pick(s)}]]
            iter == CHOOSE g : Fold(g)
            count == [T \in SUBSET S |-> Cardinality(Units(f, T))]
<1>1. SumFunctionOnSet(f, S) = iter[S]
  BY Zenon DEF SumFunctionOnSet, FoldFunctionOnSet, MapThenFoldSet
<1>2. ASSUME NEW s \in SUBSET S, s # {} PROVE pick(s) \in s
  BY <1>2
<1>3. Fold(count)
  <2>1. \A s \in SUBSET S : count[s] = Cardinality(Units(f, s))
    OBVIOUS
  <2>2. ASSUME NEW s \in SUBSET S, s # {}
        PROVE  count[s] = f[pick(s)] + count[s \ {pick(s)}]
    <3>1. pick(s) \in s
      BY <1>2, <2>2
    <3>. HIDE DEF pick
    <3>. QED  BY <3>1, CountUnits
  <2>3. ASSUME NEW s \in SUBSET S, s = {}
        PROVE  count[s] = 0
    BY <2>3, CountUnits
  <2>. HIDE DEF pick
  <2>. QED  BY <2>2, <2>3
<1>4. Fold(iter)
  <2>. HIDE DEF Fold
  <2>. QED  BY <1>3
<1>5. \A s \in SUBSET S : iter[s] = IF s = {} THEN 0 ELSE f[pick(s)] + iter[s \ {pick(s)}]
  <2>. HIDE DEF iter, pick
  <2>. QED  BY <1>4
<1>6. \A s \in SUBSET S : count[s] = IF s = {} THEN 0 ELSE f[pick(s)] + count[s \ {pick(s)}]
  <2>. HIDE DEF count, pick
  <2>. QED  BY <1>3
<1>. DEFINE F == {s \in SUBSET S : iter[s] # count[s]}
<1>. HIDE DEF iter, count
<1>7. ASSUME F # {} PROVE FALSE
  <2>1. PICK s \in F : \A u \in F : u \subseteq s => u = s
    <3>. HIDE DEF F
    <3>1. F \in SUBSET SUBSET S
      BY DEF F
    <3>. QED  BY <1>7, <3>1, LeastSubset
  <2>2. s # {}
    BY <1>5, <1>6
  <2>3. pick(s) \in s
    BY <1>2, <2>2
  <2>. HIDE DEF pick
  <2>4. iter[s \ {pick(s)}] = count[s \ {pick(s)}]
    BY <2>1, <2>3
  <2>. QED  BY <1>5, <1>6, <2>2, <2>4
<1>8. iter[S] = count[S]
  BY <1>7
<1>. QED  BY <1>1, <1>8 DEF count

-----------------------------------------------------------------------------
LEMMA SumEmpty == \A f : SumFunctionOnSet(f, {}) = 0
<1>. SUFFICES ASSUME NEW f PROVE SumFunctionOnSet(f, {}) = 0
  OBVIOUS
<1>1. IsFiniteSet({}) /\ \A x \in {} : f[x] \in Nat
  BY FS_EmptySet
<1>. QED  BY <1>1, SumIsCount, CountUnits

LEMMA SumType ==
  ASSUME NEW S, IsFiniteSet(S), NEW f, \A x \in S : f[x] \in Nat
  PROVE  SumFunctionOnSet(f, S) \in Nat
BY SumIsCount, CountUnits

(* Whichever element is taken out, its value is what the sum loses.        *)
LEMMA SumSplit ==
  ASSUME NEW S, IsFiniteSet(S), NEW f, \A x \in S : f[x] \in Nat, NEW x \in S
  PROVE  SumFunctionOnSet(f, S) = f[x] + SumFunctionOnSet(f, S \ {x})
<1>1. IsFiniteSet(S \ {x}) /\ \A y \in S \ {x} : f[y] \in Nat
  BY FS_RemoveElement
<1>2. SumFunctionOnSet(f, S \ {x}) = Cardinality(Units(f, S \ {x}))
  BY <1>1, SumIsCount
<1>3. SumFunctionOnSet(f, S) = Cardinality(Units(f, S))
  BY SumIsCount
<1>4. Cardinality(Units(f, S)) = f[x] + Cardinality(Units(f, S \ {x}))
  BY CountUnits
<1>. QED  BY <1>2, <1>3, <1>4

LEMMA SumSame ==
  ASSUME NEW S, IsFiniteSet(S), NEW f, NEW g,
         \A x \in S : f[x] \in Nat /\ g[x] = f[x]
  PROVE  SumFunctionOnSet(g, S) = SumFunctionOnSet(f, S)
<1>1. Units(g, S) = Units(f, S)
  BY DEF Units, UnitsAt
<1>2. SumFunctionOnSet(f, S) = Cardinality(Units(f, S))
  BY SumIsCount
<1>3. SumFunctionOnSet(g, S) = Cardinality(Units(g, S))
  BY SumIsCount
<1>. QED  BY <1>1, <1>2, <1>3

LEMMA SumZero ==
  ASSUME NEW S, IsFiniteSet(S), NEW f, \A x \in S : f[x] = 0
  PROVE  SumFunctionOnSet(f, S) = 0
<1>1. Units(f, S) = {}
  BY DEF Units, UnitsAt
<1>2. SumFunctionOnSet(f, S) = Cardinality(Units(f, S))
  BY SumIsCount
<1>. QED  BY <1>1, <1>2, FS_EmptySet

(* Part of the sum.                                                        *)
LEMMA SumSubset ==
  ASSUME NEW S, IsFiniteSet(S), NEW f, \A x \in S : f[x] \in Nat, NEW T \in SUBSET S
  PROVE  SumFunctionOnSet(f, T) <= SumFunctionOnSet(f, S)
<1>1. IsFiniteSet(T) /\ \A x \in T : f[x] \in Nat
  BY FS_Subset
<1>2. /\ SumFunctionOnSet(f, T) = Cardinality(Units(f, T))
      /\ SumFunctionOnSet(f, S) = Cardinality(Units(f, S))
  BY <1>1, SumIsCount
<1>3. IsFiniteSet(Units(f, S)) /\ Units(f, T) \in SUBSET Units(f, S)
  BY UnitsFinite DEF Units
<1>. QED  BY <1>2, <1>3, FS_Subset

(* One value changes.                                                      *)
LEMMA SumUpdate ==
  ASSUME NEW S, IsFiniteSet(S), NEW f, NEW g, NEW x \in S,
         \A y \in S : f[y] \in Nat /\ g[y] \in Nat,
         \A y \in S \ {x} : g[y] = f[y]
  PROVE  SumFunctionOnSet(g, S) = SumFunctionOnSet(f, S) - f[x] + g[x]
<1>1. SumFunctionOnSet(f, S) = f[x] + SumFunctionOnSet(f, S \ {x})
  BY SumSplit
<1>2. SumFunctionOnSet(g, S) = g[x] + SumFunctionOnSet(g, S \ {x})
  BY SumSplit
<1>3. IsFiniteSet(S \ {x})
  BY FS_RemoveElement
<1>4. SumFunctionOnSet(g, S \ {x}) = SumFunctionOnSet(f, S \ {x})
  BY <1>3, SumSame
<1>5. SumFunctionOnSet(f, S \ {x}) \in Nat
  BY <1>3, SumType
<1>6. f[x] \in Nat /\ g[x] \in Nat
  OBVIOUS
<1>. QED  BY <1>1, <1>2, <1>4, <1>5, <1>6

(* The set gains or loses an element.                                      *)
LEMMA SumWith ==
  ASSUME NEW S, IsFiniteSet(S), NEW x, x \notin S, NEW f, NEW g,
         \A y \in S : f[y] \in Nat /\ g[y] = f[y], g[x] \in Nat,
         NEW T, T = S \cup {x}
  PROVE  SumFunctionOnSet(g, T) = SumFunctionOnSet(f, S) + g[x]
<1>1. IsFiniteSet(T) /\ x \in T /\ T \ {x} = S /\ \A y \in T : g[y] \in Nat
  BY FS_AddElement
<1>2. SumFunctionOnSet(g, T) = g[x] + SumFunctionOnSet(g, T \ {x})
  BY <1>1, SumSplit
<1>3. SumFunctionOnSet(g, S) = SumFunctionOnSet(f, S)
  BY SumSame
<1>4. SumFunctionOnSet(f, S) \in Nat
  BY SumType
<1>5. SumFunctionOnSet(g, T \ {x}) = SumFunctionOnSet(g, S)
  BY <1>1, Zenon
<1>. QED  BY <1>2, <1>3, <1>4, <1>5

LEMMA SumWithout ==
  ASSUME NEW S, IsFiniteSet(S), NEW x \in S, NEW f, NEW g,
         \A y \in S : f[y] \in Nat, \A y \in S \ {x} : g[y] = f[y],
         NEW T, T = S \ {x}
  PROVE  SumFunctionOnSet(g, T) = SumFunctionOnSet(f, S) - f[x]
<1>1. IsFiniteSet(T) /\ \A y \in T : f[y] \in Nat /\ g[y] = f[y]
  BY FS_RemoveElement
<1>2. SumFunctionOnSet(f, S) = f[x] + SumFunctionOnSet(f, S \ {x})
  BY SumSplit
<1>3. SumFunctionOnSet(g, T) = SumFunctionOnSet(f, T)
  BY <1>1, SumSame
<1>4. SumFunctionOnSet(f, T) \in Nat
  BY <1>1, SumType
<1>5. SumFunctionOnSet(f, S \ {x}) = SumFunctionOnSet(f, T) /\ f[x] \in Nat
  BY Zenon
<1>. QED  BY <1>2, <1>3, <1>4, <1>5

(* Sums add up.                                                            *)
LEMMA SumOfSums ==
  ASSUME NEW S, IsFiniteSet(S), NEW f, NEW g, NEW h,
         \A x \in S : f[x] \in Nat /\ g[x] \in Nat /\ h[x] = f[x] + g[x]
  PROVE  SumFunctionOnSet(h, S) = SumFunctionOnSet(f, S) + SumFunctionOnSet(g, S)
<1>. DEFINE Holds(T) ==
       SumFunctionOnSet(h, T) = SumFunctionOnSet(f, T) + SumFunctionOnSet(g, T)
            F == {T \in SUBSET S : ~Holds(T)}
<1>1. \A x \in S : h[x] \in Nat
  OBVIOUS
<1>2. ASSUME F # {} PROVE FALSE
  <2>1. PICK T \in F : \A U \in F : U \subseteq T => U = T
    <3>. HIDE DEF F
    <3>1. F \in SUBSET SUBSET S
      BY DEF F
    <3>. QED  BY <1>2, <3>1, LeastSubset
  <2>2. T # {}
    <3>1. /\ SumFunctionOnSet(f, {}) = 0
          /\ SumFunctionOnSet(g, {}) = 0
          /\ SumFunctionOnSet(h, {}) = 0
      BY SumEmpty, Zenon
    <3>2. Holds({})
      BY <3>1
    <3>. HIDE DEF Holds
    <3>. QED  BY <3>2
  <2>3. PICK x \in T : TRUE
    BY <2>2
  <2>4. IsFiniteSet(T) /\ IsFiniteSet(T \ {x}) /\ T \subseteq S
    <3>1. T \in SUBSET S
      OBVIOUS
    <3>2. IsFiniteSet(T)
      <4>. HIDE DEF F
      <4>. QED  BY <3>1, FS_Subset
    <3>. QED  BY <3>1, <3>2, FS_RemoveElement
  <2>5. Holds(T \ {x})
    <3>. HIDE DEF Holds
    <3>. QED  BY <2>1, <2>3
  <2>6. /\ SumFunctionOnSet(f, T) = f[x] + SumFunctionOnSet(f, T \ {x})
        /\ SumFunctionOnSet(g, T) = g[x] + SumFunctionOnSet(g, T \ {x})
        /\ SumFunctionOnSet(h, T) = h[x] + SumFunctionOnSet(h, T \ {x})
    <3>. HIDE DEF F
    <3>1. \A y \in T : f[y] \in Nat /\ g[y] \in Nat /\ h[y] \in Nat
      BY <1>1, <2>4
    <3>2. SumFunctionOnSet(f, T) = f[x] + SumFunctionOnSet(f, T \ {x})
      BY <2>3, <2>4, <3>1, SumSplit
    <3>3. SumFunctionOnSet(g, T) = g[x] + SumFunctionOnSet(g, T \ {x})
      BY <2>3, <2>4, <3>1, SumSplit
    <3>4. SumFunctionOnSet(h, T) = h[x] + SumFunctionOnSet(h, T \ {x})
      BY <2>3, <2>4, <3>1, SumSplit
    <3>. QED  BY <3>2, <3>3, <3>4
  <2>7. SumFunctionOnSet(f, T \ {x}) \in Nat /\ SumFunctionOnSet(g, T \ {x}) \in Nat
    <3>. HIDE DEF F
    <3>1. \A y \in T \ {x} : f[y] \in Nat /\ g[y] \in Nat
      BY <2>4
    <3>. QED  BY <2>4, <3>1, SumType
  <2>8. f[x] \in Nat /\ g[x] \in Nat /\ h[x] = f[x] + g[x]
    BY <2>3, <2>4
  <2>. QED  BY <2>5, <2>6, <2>7, <2>8
<1>. QED  BY <1>2

(* The parts of D on which g has each of its values are D together.        *)
LEMMA SumOfParts ==
  ASSUME NEW R, IsFiniteSet(R), NEW D, IsFiniteSet(D), NEW g,
         \A d \in D : g[d] \in R,
         NEW f, \A r \in R : f[r] = Cardinality({d \in D : g[d] = r})
  PROVE  SumFunctionOnSet(f, R) = Cardinality(D)
<1>. DEFINE Part(T) == {d \in D : g[d] \in T}
            At(r) == {d \in D : g[d] = r}
            Holds(T) == SumFunctionOnSet(f, T) = Cardinality(Part(T))
            F == {T \in SUBSET R : ~Holds(T)}
<1>1. \A T : IsFiniteSet(Part(T)) /\ Cardinality(Part(T)) \in Nat
  BY FS_Subset, FS_CardinalityType
<1>2. \A r : IsFiniteSet(At(r)) /\ Cardinality(At(r)) \in Nat
  BY FS_Subset, FS_CardinalityType
<1>3. ASSUME F # {} PROVE FALSE
  <2>1. PICK T \in F : \A U \in F : U \subseteq T => U = T
    <3>. HIDE DEF F
    <3>1. F \in SUBSET SUBSET R
      BY DEF F
    <3>. QED  BY <1>3, <3>1, LeastSubset
  <2>2. T # {}
    <3>1. Part({}) = {}
      OBVIOUS
    <3>2. Holds({})
      BY <3>1, SumEmpty, FS_EmptySet
    <3>. HIDE DEF Holds
    <3>. QED  BY <3>2
  <2>3. PICK r \in T : TRUE
    BY <2>2
  <2>4. T \subseteq R
    OBVIOUS
  <2>5. Holds(T \ {r})
    <3>. HIDE DEF Holds
    <3>. QED  BY <2>1, <2>3
  <2>. HIDE DEF F
  <2>6. IsFiniteSet(T) /\ \A t \in T : f[t] \in Nat
    <3>1. T \in SUBSET R
      BY <2>4
    <3>2. IsFiniteSet(T)
      BY <3>1, FS_Subset
    <3>3. \A t \in T : f[t] = Cardinality(At(t))
      BY <2>4
    <3>. HIDE DEF At
    <3>. QED  BY <1>2, <3>2, <3>3
  <2>7. SumFunctionOnSet(f, T) = f[r] + SumFunctionOnSet(f, T \ {r})
    BY <2>3, <2>6, SumSplit
  <2>8. f[r] = Cardinality(At(r))
    BY <2>3, <2>4
  <2>9. Part(T) = Part(T \ {r}) \cup At(r) /\ Part(T \ {r}) \cap At(r) = {}
    BY <2>3
  <2>10. Cardinality(Part(T)) = Cardinality(Part(T \ {r})) + Cardinality(At(r))
    <3>. HIDE DEF Part, At
    <3>1. Cardinality(Part(T \ {r}) \cup At(r))
            = Cardinality(Part(T \ {r})) + Cardinality(At(r))
                - Cardinality(Part(T \ {r}) \cap At(r))
      BY <1>1, <1>2, FS_Union
    <3>2. Cardinality(Part(T \ {r}) \cap At(r)) = 0
      BY <2>9, FS_EmptySet
    <3>. QED  BY <1>1, <1>2, <2>9, <3>1, <3>2
  <2>11. ~Holds(T)
    BY <2>1 DEF F
  <2>. HIDE DEF Part, At
  <2>. QED  BY <1>1, <1>2, <2>5, <2>7, <2>8, <2>10, <2>11
<1>4. Holds(R)
  <2>. HIDE DEF Holds
  <2>. QED  BY <1>3
<1>5. Part(R) = D
  OBVIOUS
<1>. QED  BY <1>4, <1>5

(* Every value is at most c.                                               *)
LEMMA SumBound ==
  ASSUME NEW S, IsFiniteSet(S), NEW c \in Nat, NEW f,
         \A x \in S : f[x] \in Nat /\ f[x] <= c
  PROVE  SumFunctionOnSet(f, S) <= c * Cardinality(S)
<1>1. IsFiniteSet(0 .. c - 1) /\ Cardinality(0 .. c - 1) = c
  <2>. DEFINE n == c - 1
  <2>1. n \in Int /\ 0 \in Int
    OBVIOUS
  <2>2. IsFiniteSet(0 .. n) /\ Cardinality(0 .. n) = IF 0 > n THEN 0 ELSE n - 0 + 1
    <3>. HIDE DEF n
    <3>. QED  BY <2>1, FS_Interval
  <2>. QED  BY <2>2
<1>. DEFINE units == 0 .. c - 1
<1>. HIDE DEF units
<1>2. IsFiniteSet(S \X units) /\ Cardinality(S \X units) = Cardinality(S) * Cardinality(units)
  BY <1>1, FS_Product DEF units
<1>3. Units(f, S) \in SUBSET (S \X units)
  BY DEF Units, UnitsAt, units
<1>4. SumFunctionOnSet(f, S) = Cardinality(Units(f, S))
  BY SumIsCount
<1>5. Cardinality(Units(f, S)) <= Cardinality(S \X units)
  BY <1>2, <1>3, FS_Subset
<1>6. Cardinality(S) \in Nat /\ Cardinality(units) = c
  BY <1>1, FS_CardinalityType DEF units
<1>7. Cardinality(S) * Cardinality(units) = c * Cardinality(S)
  <2>1. \A m, n \in Nat : m * n = n * m
    OBVIOUS
  <2>. QED  BY <1>6, <2>1
<1>. QED  BY <1>2, <1>4, <1>5, <1>7

-----------------------------------------------------------------------------
(* A list of lists, one after the other, is put together list by list.     *)
LEMMA FlattenStepwise ==
  ASSUME NEW S, NEW ss \in Seq(Seq(S))
  PROVE  \E J \in [0 .. Len(ss) -> Seq(S)] :
           /\ J[0] = <<>>
           /\ J[Len(ss)] = FlattenSeq(ss)
           /\ \A i \in 1 .. Len(ss) : J[i] = J[i - 1] \o ss[i]
<1>. DEFINE N == Len(ss)
            At(g, i) == IF i = 1 THEN ss[i] ELSE g[i - 1] \o ss[i]
            Joins(g, n) == g = [i \in 1 .. n |-> At(g, i)]
            joined == CHOOSE g : Joins(g, N)
<1>1. N \in Nat /\ \A i \in 1 .. N : ss[i] \in Seq(S)
  BY Members
<1>2. FlattenSeq(ss) = IF N = 0 THEN ss ELSE joined[N]
  BY Zenon DEF FlattenSeq
<1>3. N \in Nat /\ \E g : Joins(g, N)
  <2>. DEFINE Bad == {n \in 0 .. N : ~\E g : Joins(g, n)}
  <2>1. ASSUME Bad # {} PROVE FALSE
    <3>. DEFINE m == Min(Bad)
    <3>1. m \in Bad /\ \A n \in Bad : m <= n
      <4>1. Bad \in SUBSET Nat
        <5>. HIDE DEF Joins
        <5>. QED  BY <1>1
      <4>. HIDE DEF Bad
      <4>. QED  BY <2>1, <4>1, FirstPosition
    <3>. HIDE DEF m
    <3>2. m \in 0 .. N /\ ~\E g : Joins(g, m)
      BY <3>1
    <3>3. m # 0
      <4>1. Joins([i \in 1 .. 0 |-> ss[i]], 0)
        OBVIOUS
      <4>. QED  BY <3>2, <4>1
    <3>4. m - 1 \in 0 .. N /\ m - 1 \notin Bad
      <4>1. m - 1 \in 0 .. N /\ ~(m <= m - 1)
        BY <1>1, <3>2, <3>3
      <4>. HIDE DEF Bad
      <4>. QED  BY <3>1, <4>1
    <3>5. PICK g : Joins(g, m - 1)
      <4>. HIDE DEF Joins
      <4>. QED  BY <3>4
    <3>. DEFINE h == [i \in 1 .. m |-> IF i < m THEN g[i] ELSE At(g, m)]
    <3>6. \A i \in 1 .. m - 1 : g[i] = At(g, i)
      <4>. HIDE DEF At
      <4>. QED  BY <3>5
    <3>7. \A i \in 1 .. m : h[i] = At(h, i)
      <4>1. ASSUME NEW i \in 1 .. m, i < m PROVE h[i] = At(h, i)
        <5>1. h[i] = g[i] /\ g[i] = At(g, i) /\ (i # 1 => h[i - 1] = g[i - 1])
          BY <3>2, <3>6, <4>1
        <5>. HIDE DEF h
        <5>. QED  BY <5>1
      <4>2. h[m] = At(h, m)
        <5>1. h[m] = At(g, m) /\ (m # 1 => h[m - 1] = g[m - 1])
          BY <3>2, <3>3
        <5>. HIDE DEF h
        <5>. QED  BY <5>1
      <4>. HIDE DEF h, At
      <4>. QED  BY <3>2, <4>1, <4>2
    <3>8. Joins(h, m)
      <4>1. h = [i \in 1 .. m |-> h[i]]
        OBVIOUS
      <4>. HIDE DEF h, At
      <4>. QED  BY <3>7, <4>1
    <3>. QED  BY <3>2, <3>8, Zenon
  <2>2. N \in 0 .. N
    BY <1>1
  <2>. HIDE DEF Joins
  <2>. QED  BY <1>1, <2>1, <2>2
<1>4. Joins(joined, N)
  <2>. HIDE DEF Joins
  <2>. QED  BY <1>3
<1>5. \A i \in 1 .. N : joined[i] = At(joined, i)
  <2>. HIDE DEF joined, At
  <2>. QED  BY <1>4
<1>6. \A i \in 1 .. N : joined[i] \in Seq(S)
  <2>. DEFINE Bad == {i \in 1 .. N : joined[i] \notin Seq(S)}
  <2>1. ASSUME Bad # {} PROVE FALSE
    <3>. DEFINE m == Min(Bad)
    <3>1. m \in Bad /\ \A i \in Bad : m <= i
      <4>1. Bad \in SUBSET Nat
        <5>. HIDE DEF joined
        <5>. QED  BY <1>1
      <4>. HIDE DEF Bad
      <4>. QED  BY <2>1, <4>1, FirstPosition
    <3>. HIDE DEF m, joined
    <3>2. m \in 1 .. N /\ ss[m] \in Seq(S)
      BY <1>1, <3>1
    <3>3. m # 1
      BY <1>5, <3>1, <3>2
    <3>4. m - 1 \in 1 .. N /\ m - 1 \notin Bad
      BY <1>1, <3>1, <3>2, <3>3
    <3>5. joined[m - 1] \in Seq(S)
      BY <3>4
    <3>6. joined[m - 1] \o ss[m] \in Seq(S)
      BY <3>2, <3>5, Concatenate
    <3>7. joined[m] = joined[m - 1] \o ss[m]
      BY <1>5, <3>2, <3>3
    <3>. QED  BY <3>1, <3>6, <3>7
  <2>. QED  BY <2>1
<1>. DEFINE J == [i \in 0 .. N |-> IF i = 0 THEN <<>> ELSE joined[i]]
<1>. HIDE DEF joined
<1>7. J \in [0 .. N -> Seq(S)]
  <2>1. \A i \in 0 .. N : i # 0 => i \in 1 .. N
    BY <1>1
  <2>2. <<>> \in Seq(S)
    OBVIOUS
  <2>3. \A i \in 0 .. N : (IF i = 0 THEN <<>> ELSE joined[i]) \in Seq(S)
    BY <1>6, <2>1, <2>2
  <2>. QED  BY <2>3
<1>8. J[0] = <<>> /\ J[N] = FlattenSeq(ss)
  <2>1. 0 \in 0 .. N /\ N \in 0 .. N
    BY <1>1
  <2>2. N = 0 => ss = <<>>
    BY EmptySeq
  <2>. QED  BY <1>2, <2>1, <2>2
<1>9. ASSUME NEW i \in 1 .. N PROVE J[i] = J[i - 1] \o ss[i]
  <2>1. /\ i \in 0 .. N /\ i - 1 \in 0 .. N /\ i # 0 /\ (i - 1 = 0 <=> i = 1)
        /\ ss[i] \in Seq(S)
    BY <1>1
  <2>2. J[i] = joined[i] /\ J[i - 1] = IF i = 1 THEN <<>> ELSE joined[i - 1]
    BY <2>1
  <2>3. joined[i] = At(joined, i)
    BY <1>5
  <2>. HIDE DEF J
  <2>4. CASE i = 1
    <3>1. J[i] = ss[i] /\ J[i - 1] = <<>>
      BY <2>2, <2>3, <2>4
    <3>2. <<>> \o ss[i] = ss[i]
      BY <2>1
    <3>. QED  BY <3>1, <3>2
  <2>5. CASE i # 1
    BY <2>2, <2>3, <2>5
  <2>. QED  BY <2>4, <2>5
<1>. HIDE DEF J
<1>. QED  BY <1>7, <1>8, <1>9

LEMMA FlattenTyped ==
  ASSUME NEW S, NEW ss \in Seq(Seq(S))
  PROVE  FlattenSeq(ss) \in Seq(S)
<1>1. Len(ss) \in 0 .. Len(ss)
  BY Members
<1>2. PICK J \in [0 .. Len(ss) -> Seq(S)] : J[Len(ss)] = FlattenSeq(ss)
  BY FlattenStepwise
<1>. QED  BY <1>1, <1>2
=============================================================================
