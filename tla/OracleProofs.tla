---------------------------- MODULE OracleProofs ----------------------------
(***************************************************************************)
(* Proofs about the price-history index (OracleHistory.tla), for every set *)
(* of denoms and times that DenomsAssumption and TimesAssumption allow.    *)
(* The lookups are functions of the store alone, so the invariants follow  *)
(* from the type invariant and a lemma per lookup that holds for every     *)
(* store of well-formed keys.                                              *)
(***************************************************************************)
EXTENDS OracleHistory, FiniteSetTheorems, SequenceTheorems, TLAPS

(* Keys over Int: the domain on which the key order is total.             *)
IntKeys == Int \X Int

(* Every history key is a pair of naturals.                                *)
LEMMA KeysNat == Keys \subseteq Nat \X Nat
BY DenomsAssumption, TimesAssumption DEF Keys

---------------------------------------------------------------------------
(* Lemmas about the key order and the ordered-store primitives.           *)

(* Two keys neither of which sorts before the other are the same key.     *)
LEMMA KeyLessTotal ==
    ASSUME NEW a \in IntKeys, NEW b \in IntKeys, ~KeyLess(a, b), ~KeyLess(b, a)
    PROVE  a = b
BY DEF IntKeys, KeyLess

(* A greatest element of a set of keys is what Highest picks.             *)
LEMMA HighestIs ==
    ASSUME NEW S \in SUBSET IntKeys, NEW m \in S,
           \A j \in S : ~KeyLess(m, j)
    PROVE  Highest(S) = m
<1>1. /\ Highest(S) \in S
      /\ \A j \in S : ~KeyLess(Highest(S), j)
    BY DEF Highest
<1> QED
    BY <1>1, KeyLessTotal

(* A key of the store is never the nil end key.                            *)
LEMMA KeyNotNil ==
    ASSUME NEW d, NEW t
    PROVE  <<d, t>> # Nil
BY DEF Nil

(***************************************************************************)
(* The reverse iterator over [prefix(d), key(d, t)) visits exactly the     *)
(* entries of d strictly before t: the end key is excluded.                *)
(***************************************************************************)
LEMMA PrefixRangeStrict ==
    ASSUME NEW st \in SUBSET Keys, NEW d \in Nat, NEW t \in Nat
    PROVE  InRange(st, DenomPrefix(d), <<d, t>>)
              = { k \in st : k[1] = d /\ k[2] < t }
<1>1. \A k \in st : k[1] \in Nat /\ k[2] \in Nat
    BY KeysNat
<1>2. \A k \in st : (~KeyLess(k, DenomPrefix(d)) /\ KeyLess(k, <<d, t>>))
                      <=> (k[1] = d /\ k[2] < t)
    BY <1>1 DEF DenomPrefix, KeyLess
<1>3. <<d, t>> # Nil
    BY KeyNotNil
<1> QED
    BY <1>2, <1>3 DEF InRange

(* Without key(d, t) in the store, the same iterator visits the entries of *)
(* d at or before t.                                                       *)
LEMMA PrefixRange ==
    ASSUME NEW st \in SUBSET Keys, NEW d \in Nat, NEW t \in Nat,
           <<d, t>> \notin st
    PROVE  InRange(st, DenomPrefix(d), <<d, t>>)
              = { k \in st : k[1] = d /\ k[2] <= t }
<1>1. \A k \in st : k = <<k[1], k[2]>> /\ k[2] \in Nat
    BY KeysNat
<1> QED
    BY <1>1, PrefixRangeStrict

(***************************************************************************)
(* The reverse iterator over [key(d, s), key(d, e)) of a store without     *)
(* key(d, e) visits exactly the entries of d within [s, e].                *)
(***************************************************************************)
LEMMA BetweenRange ==
    ASSUME NEW st \in SUBSET Keys, NEW d \in Nat, NEW s \in Nat, NEW e \in Nat,
           <<d, e>> \notin st
    PROVE  InRange(st, <<d, s>>, <<d, e>>)
              = { k \in st : k[1] = d /\ s <= k[2] /\ k[2] <= e }
<1>1. \A k \in st : k = <<k[1], k[2]>> /\ k[1] \in Nat /\ k[2] \in Nat
    BY KeysNat
<1>2. \A k \in st : (~KeyLess(k, <<d, s>>) /\ KeyLess(k, <<d, e>>))
                      <=> (k[1] = d /\ s <= k[2] /\ k[2] <= e)
    BY <1>1 DEF KeyLess
<1>3. <<d, e>> # Nil
    BY KeyNotNil
<1> QED
    BY <1>2, <1>3 DEF InRange

(***************************************************************************)
(* For every store of well-formed keys, getHistoryEntryAtOrBeforeTime is   *)
(* the latest entry of the denom at or before t.                           *)
(***************************************************************************)
LEMMA AtOrBeforeEqualsRef ==
    ASSUME NEW st \in SUBSET Keys, NEW d \in Nat, NEW t \in Nat
    PROVE  AtOrBefore(st, d, t) = RefAtOrBefore(st, d, t)
<1> DEFINE C == { k \in st : k[1] = d /\ k[2] <= t }
<1>1. C \in SUBSET IntKeys
    BY KeysNat DEF IntKeys
<1>2. CASE <<d, t>> \in st
    <2>1. \A j \in C : ~KeyLess(<<d, t>>, j)
        BY KeysNat DEF KeyLess
    <2>2. Highest(C) = <<d, t>>
        BY <1>1, <1>2, <2>1, HighestIs
    <2>3. C # {}
        BY <1>2
    <2> QED
        BY <1>2, <2>2, <2>3 DEF AtOrBefore, RefAtOrBefore
<1>3. CASE <<d, t>> \notin st
    <2>1. InRange(st, DenomPrefix(d), <<d, t>>) = C
        BY <1>3, PrefixRange
    <2>2. <<d, t>> # Nil
        BY KeyNotNil
    <2> QED
        BY <1>3, <2>1, <2>2
        DEF AtOrBefore, RefAtOrBefore, GetFirstValueInRange, FirstOfIterator
<1> QED
    BY <1>2, <1>3

(***************************************************************************)
(* For every store of well-formed keys and s <= e,                         *)
(* getHistoryEntryBetweenTime is the latest entry of the denom within      *)
(* [s, e].                                                                 *)
(***************************************************************************)
LEMMA BetweenEqualsRef ==
    ASSUME NEW st \in SUBSET Keys, NEW d \in Nat, NEW s \in Nat, NEW e \in Nat,
           s <= e
    PROVE  Between(st, d, s, e) = RefBetween(st, d, s, e)
<1> DEFINE C == { k \in st : k[1] = d /\ s <= k[2] /\ k[2] <= e }
<1>1. C \in SUBSET IntKeys
    BY KeysNat DEF IntKeys
<1>2. CASE <<d, e>> \in st
    <2>1. \A j \in C : ~KeyLess(<<d, e>>, j)
        BY KeysNat DEF KeyLess
    <2>2. Highest(C) = <<d, e>>
        BY <1>1, <1>2, <2>1, HighestIs
    <2>3. <<d, e>> # Nil
        BY KeyNotNil
    <2>4. C # {}
        BY <1>2
    <2> QED
        BY <1>2, <2>2, <2>3, <2>4 DEF Between, RefBetween, GetFirstValueInRange
<1>3. CASE <<d, e>> \notin st
    <2>1. InRange(st, <<d, s>>, <<d, e>>) = C
        BY <1>3, BetweenRange
    <2>2. <<d, e>> # Nil
        BY KeyNotNil
    <2> QED
        BY <1>3, <2>1, <2>2
        DEF Between, RefBetween, GetFirstValueInRange, FirstOfIterator
<1> QED
    BY <1>2, <1>3

(***************************************************************************)
(* RemoveHistoryEntryAtOrBeforeTime(d, t) deletes exactly the entries of d *)
(* strictly before t, for every store: RemoveValueInRange deletes what its *)
(* iterator visits, and the iterator excludes the end key, so the entry at *)
(* t itself, the one its name promises to remove, survives, as do the     *)
(* entries of every other denom.                                           *)
(***************************************************************************)
THEOREM RemoveAtOrBeforeKeepsBoundary ==
    ASSUME NEW st \in SUBSET Keys, NEW d \in Nat, NEW t \in Nat
    PROVE  RemoveValueInRange(st, DenomPrefix(d), <<d, t>>, TRUE)
              = st \ { k \in st : k[1] = d /\ k[2] < t }
BY PrefixRangeStrict DEF RemoveValueInRange

---------------------------------------------------------------------------
(* Lemmas about the order in which an iterator yields keys.               *)

(* The iteration order is a strict total order on keys over Int.          *)
LEMMA IterBeforeOrder ==
    ASSUME NEW rev \in BOOLEAN
    PROVE  /\ \A a \in IntKeys : ~IterBefore(a, a, rev)
           /\ \A a, b, c \in IntKeys :
                 IterBefore(a, b, rev) /\ IterBefore(b, c, rev) => IterBefore(a, c, rev)
           /\ \A a, b \in IntKeys : a # b => IterBefore(a, b, rev) \/ IterBefore(b, a, rev)
<1>1. CASE rev
    BY <1>1 DEF IterBefore, KeyLess, IntKeys
<1>2. CASE ~rev
    BY <1>2 DEF IterBefore, KeyLess, IntKeys
<1> QED
    BY <1>1, <1>2

(* The keys yielded before k are finitely many, and k is not among them.   *)
LEMMA BeforeSet ==
    ASSUME NEW R \in SUBSET IntKeys, IsFiniteSet(R), NEW rev \in BOOLEAN, NEW k \in R
    PROVE  /\ IsFiniteSet({j \in R : IterBefore(j, k, rev)})
           /\ Cardinality({j \in R : IterBefore(j, k, rev)}) \in Nat
           /\ Cardinality({j \in R : IterBefore(j, k, rev)}) <= Cardinality(R) - 1
<1> DEFINE B == {j \in R : IterBefore(j, k, rev)}
<1>1. B \subseteq R \ {k}
    BY IterBeforeOrder
<1>2. IsFiniteSet(R \ {k}) /\ Cardinality(R \ {k}) = Cardinality(R) - 1
    BY FS_RemoveElement
<1>3. IsFiniteSet(B) /\ Cardinality(B) <= Cardinality(R \ {k})
    BY <1>1, <1>2, FS_Subset
<1>4. Cardinality(B) \in Nat
    BY <1>3, FS_CardinalityType
<1> QED
    BY <1>2, <1>3, <1>4

(* An iterator over R yields every key of R at a position in 1..|R|.     *)
LEMMA IterPosRange ==
    ASSUME NEW R \in SUBSET IntKeys, IsFiniteSet(R), NEW rev \in BOOLEAN, NEW k \in R
    PROVE  IterPos(R, k, rev) \in 1..Cardinality(R)
<1>1. /\ Cardinality({j \in R : IterBefore(j, k, rev)}) \in Nat
      /\ Cardinality({j \in R : IterBefore(j, k, rev)}) <= Cardinality(R) - 1
    BY BeforeSet
<1>2. Cardinality(R) \in Nat
    BY FS_CardinalityType
<1> QED
    BY <1>1, <1>2 DEF IterPos

(* A key that comes earlier in the order is yielded at an earlier position. *)
LEMMA IterPosMonotone ==
    ASSUME NEW R \in SUBSET IntKeys, IsFiniteSet(R), NEW rev \in BOOLEAN,
           NEW a \in R, NEW b \in R, IterBefore(a, b, rev)
    PROVE  IterPos(R, a, rev) < IterPos(R, b, rev)
<1> DEFINE Ba == {j \in R : IterBefore(j, a, rev)}
           Bb == {j \in R : IterBefore(j, b, rev)}
<1>1. Ba \subseteq Bb \ {a}
    BY IterBeforeOrder
<1>2. a \in Bb
    OBVIOUS
<1>3. IsFiniteSet(Bb) /\ Cardinality(Bb) \in Nat
    BY BeforeSet
<1>4. IsFiniteSet(Bb \ {a}) /\ Cardinality(Bb \ {a}) = Cardinality(Bb) - 1
    BY <1>2, <1>3, FS_RemoveElement
<1>5. Cardinality(Ba) <= Cardinality(Bb \ {a})
    BY <1>1, <1>4, FS_Subset
<1>6. Cardinality(Ba) \in Nat
    BY BeforeSet
<1> QED
    BY <1>3, <1>4, <1>5, <1>6 DEF IterPos

(* No two keys of R are yielded at the same position.                      *)
LEMMA IterPosInjective ==
    ASSUME NEW R \in SUBSET IntKeys, IsFiniteSet(R), NEW rev \in BOOLEAN,
           NEW a \in R, NEW b \in R, IterPos(R, a, rev) = IterPos(R, b, rev)
    PROVE  a = b
<1> SUFFICES ASSUME a # b PROVE FALSE
    OBVIOUS
<1>1. IterBefore(a, b, rev) \/ IterBefore(b, a, rev)
    BY IterBeforeOrder
<1>2. IterPos(R, a, rev) \in Int /\ IterPos(R, b, rev) \in Int
    BY IterPosRange
<1>3. IterPos(R, a, rev) # IterPos(R, b, rev)
    BY <1>1, <1>2, IterPosMonotone
<1> QED
    BY <1>3

(* Every position in 1..|R| is taken by some key of R: the positions are  *)
(* an injection of R into 1..|R|, which has as many elements as R.        *)
LEMMA IterPosOnto ==
    ASSUME NEW R \in SUBSET IntKeys, IsFiniteSet(R), NEW rev \in BOOLEAN
    PROVE  \A n \in 1..Cardinality(R) : \E k \in R : IterPos(R, k, rev) = n
<1> DEFINE f == [k \in R |-> IterPos(R, k, rev)]
           N == 1..Cardinality(R)
<1>1. f \in [R -> N]
    BY IterPosRange
<1>2. f \in Injection(R, N)
    BY <1>1, IterPosInjective DEF Injection, IsInjective
<1>3. Cardinality(R) \in Nat
    BY FS_CardinalityType
<1>4. IsFiniteSet(N) /\ Cardinality(N) = Cardinality(R)
    BY <1>3, FS_Interval
<1>5. f \in Surjection(R, N)
    BY <1>2, <1>4, FS_Injection
<1> QED
    BY <1>5 DEF Surjection

(***************************************************************************)
(* The iterator over a finite range of keys yields a sequence that lists  *)
(* every key of the range exactly once, in the iteration order.           *)
(***************************************************************************)
LEMMA IteratorSeqFacts ==
    ASSUME NEW st, NEW start, NEW end, NEW rev \in BOOLEAN,
           InRange(st, start, end) \subseteq IntKeys,
           IsFiniteSet(InRange(st, start, end))
    PROVE  LET L == IteratorSeq(st, start, end, rev)
           IN  /\ L \in Seq(IntKeys)
               /\ Len(L) = Cardinality(InRange(st, start, end))
               /\ ToSet(L) = InRange(st, start, end)
               /\ \A i \in 1..Len(L) : L[i] \in InRange(st, start, end)
               /\ \A i, j \in 1..Len(L) : i < j => IterBefore(L[i], L[j], rev)
<1> DEFINE R == InRange(st, start, end)
           L == IteratorSeq(st, start, end, rev)
           n == Cardinality(R)
<1>1. n \in Nat
    BY FS_CardinalityType
<1>2. L = [i \in 1..n |-> CHOOSE k \in R : IterPos(R, k, rev) = i]
    BY DEF IteratorSeq
<1>3. \A i \in 1..n : L[i] \in R /\ IterPos(R, L[i], rev) = i
    BY <1>2, IterPosOnto
<1>4. L \in Seq(IntKeys) /\ Len(L) = n
    BY <1>1, <1>2, <1>3
<1>5. ToSet(L) = R
    <2>1. \A k \in R : \E i \in 1..n : L[i] = k
        <3> TAKE k \in R
        <3>1. IterPos(R, k, rev) \in 1..n
            BY IterPosRange
        <3>2. L[IterPos(R, k, rev)] = k
            BY <1>3, <3>1, IterPosInjective
        <3> QED
            BY <3>1, <3>2
    <2> QED
        BY <1>3, <1>4, <2>1 DEF ToSet
<1>6. ASSUME NEW i \in 1..n, NEW j \in 1..n, i < j
      PROVE  IterBefore(L[i], L[j], rev)
    <2>1. L[i] # L[j]
        BY <1>3, <1>6
    <2>2. IterBefore(L[i], L[j], rev) \/ IterBefore(L[j], L[i], rev)
        BY <1>3, <2>1, IterBeforeOrder
    <2>3. ~IterBefore(L[j], L[i], rev)
        BY <1>3, <1>6, IterPosMonotone
    <2> QED
        BY <2>2, <2>3
<1> QED
    BY <1>3, <1>4, <1>5, <1>6

(* The elements of a sequence are its entries at positions 1..Len.        *)
LEMMA ToSetSeq ==
    ASSUME NEW S, NEW q \in Seq(S)
    PROVE  ToSet(q) = { q[i] : i \in 1..Len(q) }
BY LenProperties DEF ToSet

(* The iterator over [key(d, s), key(d, e)) visits the entries of d within *)
(* [s, e), whether or not key(d, e) is stored.                             *)
LEMMA BetweenRangeStrict ==
    ASSUME NEW st \in SUBSET Keys, NEW d \in Nat, NEW s \in Nat, NEW e \in Nat
    PROVE  InRange(st, <<d, s>>, <<d, e>>)
              = { k \in st : k[1] = d /\ s <= k[2] /\ k[2] < e }
<1>1. \A k \in st : k[1] \in Nat /\ k[2] \in Nat
    BY KeysNat
<1>2. \A k \in st : (~KeyLess(k, <<d, s>>) /\ KeyLess(k, <<d, e>>))
                      <=> (k[1] = d /\ s <= k[2] /\ k[2] < e)
    BY <1>1 DEF KeyLess
<1>3. <<d, e>> # Nil
    BY KeyNotNil
<1> QED
    BY <1>2, <1>3 DEF InRange

(***************************************************************************)
(* For every finite store of well-formed keys and s <= e, GetValueInRange  *)
(* over [key(d, s), key(d, e)] lists the entries of d within [s, e]        *)
(* exactly once, ascending when iterating forward, or reports "no values  *)
(* in range": the iterator yields [s, e) in order, and the Get of the end  *)
(* key appends key(d, e), which sorts after all of them.                   *)
(***************************************************************************)
LEMMA GetValueInRangeEqualsRef ==
    ASSUME NEW st \in SUBSET Keys, IsFiniteSet(st),
           NEW d \in Nat, NEW s \in Nat, NEW e \in Nat, NEW rev \in BOOLEAN,
           s <= e
    PROVE  LET r == GetValueInRange(st, <<d, s>>, <<d, e>>, rev)
               C == { k \in st : k[1] = d /\ s <= k[2] /\ k[2] <= e }
           IN  IF C = {} THEN r.st = "no values in range"
               ELSE /\ r.st = "ok"
                    /\ ToSet(r.list) = C
                    /\ Len(r.list) = Cardinality(C)
                    /\ ~rev => \A i \in 1..Len(r.list) - 1 :
                                  KeyLess(r.list[i], r.list[i + 1])
<1> DEFINE E == <<d, e>>
           R == InRange(st, <<d, s>>, E)
           L == IteratorSeq(st, <<d, s>>, E, rev)
           T == IF E \in st THEN <<E>> ELSE <<>>
           l == L \o T
           r == GetValueInRange(st, <<d, s>>, E, rev)
           C == { k \in st : k[1] = d /\ s <= k[2] /\ k[2] <= e }
           n == Cardinality(R)
<1> SUFFICES IF C = {} THEN r.st = "no values in range"
             ELSE /\ r.st = "ok"
                  /\ ToSet(r.list) = C
                  /\ Len(r.list) = Cardinality(C)
                  /\ ~rev => \A i \in 1..Len(r.list) - 1 :
                                KeyLess(r.list[i], r.list[i + 1])
    OBVIOUS
<1>1. R = { k \in st : k[1] = d /\ s <= k[2] /\ k[2] < e }
    BY BetweenRangeStrict
<1>2. R \subseteq IntKeys /\ IsFiniteSet(R)
    BY <1>1, KeysNat, FS_Subset DEF IntKeys
<1>3. /\ L \in Seq(IntKeys)
      /\ Len(L) = n
      /\ ToSet(L) = R
      /\ \A i \in 1..Len(L) : L[i] \in R
      /\ \A i, j \in 1..Len(L) : i < j => IterBefore(L[i], L[j], rev)
    BY <1>2, IteratorSeqFacts
<1>4. r = IF l = <<>> THEN [st |-> "no values in range"] ELSE [st |-> "ok", list |-> l]
    BY KeyNotNil DEF GetValueInRange
<1> HIDE DEF l, r, n
<1>5. n \in Nat
    BY <1>2, FS_CardinalityType DEF n
<1>6. \A k \in R : KeyLess(k, E)
    BY <1>1, KeysNat DEF KeyLess
<1>7. E \notin R
    BY <1>1
<1>8. ASSUME ~rev, NEW i \in 1..n - 1
      PROVE  KeyLess(L[i], L[i + 1])
    <2>1. i \in 1..Len(L) /\ i + 1 \in 1..Len(L) /\ i < i + 1
        BY <1>3, <1>5
    <2>2. IterBefore(L[i], L[i + 1], rev)
        BY <1>3, <2>1
    <2> QED
        BY <1>8, <2>2 DEF IterBefore
<1>9. CASE E \in st
    <2>1. C = R \cup {E}
        BY <1>1, <1>9, KeysNat
    <2>2. T = <<E>> /\ <<E>> \in Seq(IntKeys) /\ Len(<<E>>) = 1 /\ <<E>>[1] = E
        BY <1>9, KeysNat DEF IntKeys
    <2>3. /\ l \in Seq(IntKeys)
          /\ Len(l) = n + 1
          /\ \A i \in 1..n + 1 : l[i] = IF i <= n THEN L[i] ELSE E
        <3>1. /\ L \o <<E>> \in Seq(IntKeys)
              /\ Len(L \o <<E>>) = Len(L) + 1
              /\ \A i \in 1..Len(L) + 1 :
                    (L \o <<E>>)[i] = IF i <= Len(L) THEN L[i] ELSE <<E>>[i - Len(L)]
            BY <1>3, <2>2, ConcatProperties
        <3>2. l = L \o <<E>>
            BY <2>2 DEF l
        <3>3. \A i \in 1..n + 1 : (L \o <<E>>)[i] = IF i <= n THEN L[i] ELSE E
            <4> TAKE i \in 1..n + 1
            <4>1. CASE i <= n
                BY <1>3, <1>5, <3>1, <4>1
            <4>2. CASE ~(i <= n)
                <5>1. i = Len(L) + 1 /\ i - Len(L) = 1
                    BY <1>3, <1>5, <4>2
                <5>2. (L \o <<E>>)[i] = <<E>>[1]
                    BY <3>1, <5>1
                <5> QED
                    BY <2>2, <4>2, <5>2
            <4> QED
                BY <4>1, <4>2
        <3> QED
            BY <1>3, <3>1, <3>2, <3>3
    <2>4. l # <<>>
        BY <2>3, <1>5, EmptySeq
    <2>5. r = [st |-> "ok", list |-> l]
        BY <1>4, <2>4
    <2>6. ToSet(l) = C
        <3>1. ToSet(l) = { l[i] : i \in 1..n + 1 }
            BY <2>3, ToSetSeq
        <3>2. R = { L[i] : i \in 1..n }
            BY <1>3, ToSetSeq
        <3>3. \A i \in 1..n + 1 : l[i] \in R \cup {E}
            <4> TAKE i \in 1..n + 1
            <4>1. CASE i <= n
                <5>0. Len(L) = n
                    BY <1>3
                <5>1. l[i] = L[i]
                    BY <1>5, <2>3, <4>1
                <5>2. i \in 1..Len(L)
                    BY <1>5, <4>1, <5>0
                <5> QED
                    BY <1>3, <5>1, <5>2
            <4>2. CASE ~(i <= n)
                BY <1>5, <2>3, <4>2
            <4> QED
                BY <4>1, <4>2
        <3>4. \A k \in R : \E i \in 1..n + 1 : l[i] = k
            BY <1>5, <2>3, <3>2
        <3>5. l[n + 1] = E
            BY <1>5, <2>3
        <3> QED
            BY <1>5, <2>1, <3>1, <3>3, <3>4, <3>5
    <2>7. Cardinality(C) = n + 1
        BY <1>2, <1>7, <2>1, FS_AddElement DEF n
    <2>8. ASSUME ~rev, NEW i \in 1..Len(l) - 1
          PROVE  KeyLess(l[i], l[i + 1])
        <3>1. CASE i < n
            <4>0. i \in 1..n - 1 /\ i \in 1..n + 1 /\ i + 1 \in 1..n + 1
                  /\ i <= n /\ i + 1 <= n
                BY <1>5, <2>3, <2>8, <3>1
            <4>1. l[i] = L[i] /\ l[i + 1] = L[i + 1] /\ i \in 1..n - 1
                BY <2>3, <4>0
            <4> QED
                BY <1>8, <2>8, <4>1
        <3>2. CASE i = n
            <4>0. n \in 1..n + 1 /\ n + 1 \in 1..n + 1 /\ n \in 1..Len(L)
                BY <1>3, <1>5, <2>3, <2>8, <3>2
            <4>1. l[i] = L[n] /\ l[i + 1] = E /\ n \in 1..Len(L)
                BY <1>5, <2>3, <3>2, <4>0
            <4>2. L[n] \in R
                BY <1>3, <4>1
            <4> QED
                BY <1>6, <4>1, <4>2
        <3> QED
            BY <1>5, <2>3, <3>1, <3>2
    <2>9. C # {}
        BY <2>1
    <2> QED
        BY <2>3, <2>5, <2>6, <2>7, <2>8, <2>9, Zenon
<1>10. CASE E \notin st
    <2>1. C = R
        BY <1>1, <1>10, KeysNat
    <2>2. l = L
        BY <1>3, <1>10, ConcatEmptySeq DEF l
    <2>3. CASE R = {}
        <3>1. n = 0
            BY <2>3, FS_EmptySet DEF n
        <3>2. l = <<>>
            BY <1>3, <2>2, <3>1, EmptySeq
        <3>3. r = [st |-> "no values in range"]
            BY <1>4, <3>2
        <3>4. C = {}
            BY <2>1, <2>3
        <3>5. r.st = "no values in range"
            BY <3>3, Zenon
        <3> QED
            BY <3>4, <3>5, Zenon
    <2>4. CASE R # {}
        <3>1. n # 0
            BY <1>2, <2>4, FS_EmptySet DEF n
        <3>2. l # <<>>
            BY <1>3, <2>2, <3>1, EmptySeq
        <3>3. r = [st |-> "ok", list |-> L]
            BY <1>4, <2>2, <3>2
        <3>4. ~rev => \A i \in 1..Len(L) - 1 : KeyLess(L[i], L[i + 1])
            BY <1>3, <1>8
        <3>5. r.st = "ok" /\ r.list = L
            BY <3>3
        <3>6. ToSet(L) = C /\ Len(L) = Cardinality(C)
            BY <1>3, <2>1 DEF n
        <3> QED
            BY <2>1, <2>4, <3>4, <3>5, <3>6, Zenon
    <2> QED
        BY <2>3, <2>4
<1> QED
    BY <1>9, <1>10

---------------------------------------------------------------------------
(* Invariants of the specification.                                       *)

(* Initial states are well typed. *)
LEMMA InitTypeOK == Init => TypeOK
BY DEF Init, TypeOK

(* Setting an entry adds a key of Keys; removing a range only deletes.    *)
LEMMA NextTypeOK == TypeOK /\ [Next]_vars => TypeOK'
<1> SUFFICES ASSUME TypeOK, [Next]_vars PROVE TypeOK'
    OBVIOUS
<1>1. ASSUME NEW d \in Denoms, NEW t \in Times, SetPriceHistoryEntry(d, t)
      PROVE  TypeOK'
    BY <1>1 DEF SetPriceHistoryEntry, TypeOK, Keys
<1>2. ASSUME NEW d \in Denoms, NEW t \in Times,
             RemoveHistoryEntryAtOrBeforeTime(d, t)
      PROVE  TypeOK'
    BY <1>2 DEF RemoveHistoryEntryAtOrBeforeTime, RemoveValueInRange, TypeOK
<1>3. CASE UNCHANGED vars
    BY <1>3 DEF vars, TypeOK
<1> QED
    BY <1>1, <1>2, <1>3 DEF Next

(* The store holds only history keys <<denom, time>> in every state.      *)
THEOREM OracleTypeCorrect == Spec => []TypeOK
BY InitTypeOK, NextTypeOK, PTL DEF Spec

(***************************************************************************)
(* In every reachable store, getHistoryEntryAtOrBeforeTime, which combines *)
(* an exact-key Get with a reverse iterator whose end key is excluded,     *)
(* returns the latest entry of the denom at or before t.                   *)
(***************************************************************************)
THEOREM AtOrBeforeCorrect == Spec => []AtOrBeforeMatchesReference
<1>1. TypeOK => AtOrBeforeMatchesReference
    BY AtOrBeforeEqualsRef, DenomsAssumption, TimesAssumption DEF TypeOK, AtOrBeforeMatchesReference
<1> QED
    BY <1>1, OracleTypeCorrect, PTL

(***************************************************************************)
(* In every reachable store, getHistoryEntryBetweenTime with start <= end, *)
(* which looks up the end key before the reverse iterator, returns the     *)
(* latest entry of the denom within the closed range [start, end].         *)
(***************************************************************************)
THEOREM BetweenCorrect == Spec => []BetweenMatchesReference
<1>1. TypeOK => BetweenMatchesReference
    BY BetweenEqualsRef, DenomsAssumption, TimesAssumption DEF TypeOK, BetweenMatchesReference
<1> QED
    BY <1>1, OracleTypeCorrect, PTL

(* The list GetValueInRange builds: the iterator's keys in its order, then *)
(* the end key if the store holds it, which sorts after all of them.       *)
LEMMA IteratorThenEndShape ==
    ASSUME NEW st \in SUBSET Keys, IsFiniteSet(st),
           NEW d \in Nat, NEW s \in Nat, NEW e \in Nat,
           NEW rev \in BOOLEAN
    PROVE  LET l == IteratorSeq(st, <<d, s>>, <<d, e>>, rev)
                    \o (IF <<d, e>> \in st THEN <<<<d, e>>>> ELSE <<>>)
           IN  /\ \A i \in 1..Len(l) - 1 :
                     i + 1 < Len(l) \/ <<d, e>> \notin st => IterBefore(l[i], l[i + 1], rev)
               /\ <<d, e>> \in st =>
                     /\ l[Len(l)] = <<d, e>>
                     /\ \A i \in 1..Len(l) - 1 : KeyLess(l[i], l[Len(l)])
<1> DEFINE E == <<d, e>>
           R == InRange(st, <<d, s>>, E)
           L == IteratorSeq(st, <<d, s>>, E, rev)
           T == IF E \in st THEN <<E>> ELSE <<>>
           l == L \o T
           n == Cardinality(R)
<1>1. R = { k \in st : k[1] = d /\ s <= k[2] /\ k[2] < e }
    BY BetweenRangeStrict
<1>2. R \subseteq IntKeys /\ IsFiniteSet(R)
    BY <1>1, KeysNat, FS_Subset DEF IntKeys
<1>3. /\ L \in Seq(IntKeys)
      /\ Len(L) = n
      /\ \A i \in 1..Len(L) : L[i] \in R
      /\ \A i, j \in 1..Len(L) : i < j => IterBefore(L[i], L[j], rev)
    BY <1>2, IteratorSeqFacts
<1> SUFFICES /\ \A i \in 1..Len(l) - 1 :
                   i + 1 < Len(l) \/ E \notin st => IterBefore(l[i], l[i + 1], rev)
             /\ E \in st => /\ l[Len(l)] = E
                            /\ \A i \in 1..Len(l) - 1 : KeyLess(l[i], l[Len(l)])
    OBVIOUS
<1> HIDE DEF l, n
<1>6. n \in Nat /\ Len(L) = n
    BY <1>2, <1>3, FS_CardinalityType DEF n
<1>7. \A i \in 1..Len(L) : L[i] \in R
    BY <1>3
<1>8. ASSUME NEW i \in 1..n - 1
      PROVE  IterBefore(L[i], L[i + 1], rev)
    <2>0. i \in Int /\ 1 <= i /\ i <= n - 1
        BY <1>6
    <2>1. i \in 1..Len(L) /\ i + 1 \in 1..Len(L) /\ i < i + 1
        BY <1>6, <2>0
    <2> QED
        BY <1>3, <2>1
<1>9. CASE E \in st
    <2>1. Len(l) = n + 1 /\ \A i \in 1..n + 1 : l[i] = IF i <= n THEN L[i] ELSE E
        <3>1. <<E>> \in Seq(IntKeys) /\ Len(<<E>>) = 1 /\ <<E>>[1] = E
            BY <1>9, KeysNat DEF IntKeys
        <3>2. l = L \o <<E>>
            BY <1>9 DEF l
        <3>3. /\ Len(L \o <<E>>) = Len(L) + 1
              /\ \A i \in 1..Len(L) + 1 :
                    (L \o <<E>>)[i] = IF i <= Len(L) THEN L[i] ELSE <<E>>[i - Len(L)]
            BY <1>3, <3>1, ConcatProperties
        <3>4. \A i \in 1..n + 1 : (L \o <<E>>)[i] = IF i <= n THEN L[i] ELSE E
            <4> TAKE i \in 1..n + 1
            <4>1. CASE i <= n
                BY <1>6, <3>3, <4>1
            <4>2. CASE ~(i <= n)
                <5>1. i = Len(L) + 1 /\ i - Len(L) = 1
                    BY <1>3, <1>6, <4>2
                <5>2. (L \o <<E>>)[i] = <<E>>[1]
                    BY <1>3, <3>3, <5>1
                <5> QED
                    BY <3>1, <4>2, <5>2
            <4> QED
                BY <4>1, <4>2
        <3> QED
            BY <1>6, <3>2, <3>3, <3>4
    <2>2. l[Len(l)] = E
        <3>1. n + 1 \in 1..n + 1 /\ ~(n + 1 <= n)
            BY <1>6
        <3> QED
            BY <2>1, <3>1
    <2>3. ASSUME NEW i \in 1..Len(l) - 1
          PROVE  KeyLess(l[i], E) /\ (i + 1 < Len(l) => IterBefore(l[i], l[i + 1], rev))
        <3>1. i \in 1..n /\ i \in 1..Len(L) /\ i \in 1..n + 1 /\ i <= n
            BY <1>3, <1>6, <2>1
        <3>2. l[i] = L[i]
            BY <2>1, <3>1
        <3>3. L[i] \in R
            BY <1>7, <3>1
        <3>4. KeyLess(L[i], E)
            BY <1>1, <3>3, KeysNat DEF KeyLess
        <3>5. ASSUME i + 1 < Len(l) PROVE IterBefore(l[i], l[i + 1], rev)
            <4>1. i \in 1..n - 1 /\ i + 1 \in 1..n + 1 /\ i + 1 <= n
                BY <1>6, <2>1, <3>1, <3>5
            <4>2. l[i + 1] = L[i + 1]
                BY <2>1, <4>1
            <4> QED
                BY <1>8, <3>2, <4>1, <4>2
        <3> QED
            BY <3>2, <3>4, <3>5
    <2> QED
        BY <1>9, <2>2, <2>3
<1>10. CASE E \notin st
    <2>1. l = L
        BY <1>3, <1>10, ConcatEmptySeq DEF l
    <2>2. ASSUME NEW i \in 1..Len(l) - 1 PROVE IterBefore(l[i], l[i + 1], rev)
        <3>1. i \in 1..n - 1
            BY <1>6, <2>1
        <3> QED
            BY <1>8, <2>1, <3>1
    <2> QED
        BY <1>10, <2>2
<1> QED
    BY <1>9, <1>10

(* A result with status "ok" carries the list GetValueInRange built.       *)
LEMMA OkListing ==
    ASSUME NEW r, NEW l,
           r = IF l = <<>> THEN [st |-> "no values in range"]
               ELSE [st |-> "ok", list |-> l],
           r.st = "ok"
    PROVE  r.list = l
BY Zenon

(***************************************************************************)
(* What GetValueInRange returns when iterating in reverse, for every      *)
(* finite store: the iterator's entries descend, but the entry at the end *)
(* key, found by the separate Get, is appended after them although it is  *)
(* the largest, so a reverse listing that holds it and any other entry is *)
(* out of order at its last element.                                       *)
(***************************************************************************)
THEOREM ReverseListingAppendsEndLast ==
    ASSUME NEW st \in SUBSET Keys, IsFiniteSet(st),
           NEW d \in Nat, NEW s \in Nat, NEW e \in Nat,
           GetValueInRange(st, <<d, s>>, <<d, e>>, TRUE).st = "ok"
    PROVE  LET l == GetValueInRange(st, <<d, s>>, <<d, e>>, TRUE).list
           IN  /\ \A i \in 1..Len(l) - 1 :
                     i + 1 < Len(l) \/ <<d, e>> \notin st => KeyLess(l[i + 1], l[i])
               /\ <<d, e>> \in st =>
                     /\ l[Len(l)] = <<d, e>>
                     /\ \A i \in 1..Len(l) - 1 : KeyLess(l[i], l[Len(l)])
<1> DEFINE l == IteratorSeq(st, <<d, s>>, <<d, e>>, TRUE)
                \o (IF <<d, e>> \in st THEN <<<<d, e>>>> ELSE <<>>)
           r == GetValueInRange(st, <<d, s>>, <<d, e>>, TRUE)
<1>1. r = IF l = <<>> THEN [st |-> "no values in range"] ELSE [st |-> "ok", list |-> l]
    BY KeyNotNil DEF GetValueInRange
<1> HIDE DEF l, r
<1>2. r.list = l
    <2>1. r.st = "ok"
        BY DEF r
    <2> QED
        BY <1>1, <2>1, OkListing
<1>3. \A a, b : IterBefore(a, b, TRUE) <=> KeyLess(b, a)
    BY DEF IterBefore
<1>4. /\ \A i \in 1..Len(l) - 1 :
            i + 1 < Len(l) \/ <<d, e>> \notin st => IterBefore(l[i], l[i + 1], TRUE)
      /\ <<d, e>> \in st =>
            /\ l[Len(l)] = <<d, e>>
            /\ \A i \in 1..Len(l) - 1 : KeyLess(l[i], l[Len(l)])
    <2>1. TRUE \in BOOLEAN
        OBVIOUS
    <2> QED
        BY <2>1, IteratorThenEndShape, Zenon DEF l
<1> QED
    BY <1>2, <1>3, <1>4, Zenon DEF r

(* The history keys form a finite set.                                     *)
LEMMA KeysFinite == IsFiniteSet(Keys)
BY DenomsAssumption, TimesAssumption, FS_Product DEF Keys

(***************************************************************************)
(* In every reachable store, GetValueInRange over [key(d, s), key(d, e)]  *)
(* with s <= e lists every entry of the denom within [s, e] exactly once, *)
(* ascending when iterating forward, or returns "no values in range": the *)
(* iterator's exclusive end and the separate Get of the end key together  *)
(* cover the closed range, with no entry lost or repeated.                *)
(***************************************************************************)
THEOREM GetValueInRangeCorrect == Spec => []GetValueInRangeMatchesReference
<1>1. TypeOK => GetValueInRangeMatchesReference
    <2> SUFFICES ASSUME TypeOK PROVE GetValueInRangeMatchesReference
        OBVIOUS
    <2>1. store \in SUBSET Keys /\ IsFiniteSet(store)
        BY KeysFinite, FS_Subset DEF TypeOK
    <2> QED
        BY <2>1, GetValueInRangeEqualsRef, DenomsAssumption, TimesAssumption
        DEF GetValueInRangeMatchesReference
<1> QED
    BY <1>1, OracleTypeCorrect, PTL

---------------------------------------------------------------------------
(* getHistoryEntryAtOrAfterTime.                                           *)

(* The reference result is never a panic: a missing entry is NotFound and *)
(* a found one is a key of the store.                                      *)
LEMMA RefAtOrAfterNotPanic ==
    ASSUME NEW st \in SUBSET Keys, NEW d, NEW t
    PROVE  RefAtOrAfter(st, d, t) # Panic
<1> DEFINE C == { k \in st : k[1] = d /\ k[2] >= t }
<1>1. CASE C = {}
    <2>1. RefAtOrAfter(st, d, t) = NotFound
        BY <1>1, Zenon DEF RefAtOrAfter
    <2>2. NotFound # Panic
        BY Zenon DEF NotFound, Panic
    <2> QED
        BY <2>1, <2>2
<1>2. CASE C # {}
    (* The key the forward iterator yields first is a lowest one.          *)
    <2>1. C \subseteq IntKeys /\ IsFiniteSet(C)
        <3>1. C \subseteq Keys /\ IsFiniteSet(Keys)
            BY KeysFinite
        <3> QED
            BY <3>1, KeysNat, FS_Subset DEF IntKeys
    <2>2. Cardinality(C) \in Nat /\ Cardinality(C) # 0
        BY <1>2, <2>1, FS_CardinalityType, FS_EmptySet
    <2> DEFINE fw == FALSE
    <2>a. fw \in BOOLEAN
        BY DEF fw
    <2> HIDE DEF fw
    <2>b. \A n \in 1..Cardinality(C) : \E k \in C : IterPos(C, k, fw) = n
        BY <2>1, <2>a, IterPosOnto
    <2>c. 1 \in 1..Cardinality(C)
        BY <2>2
    <2>3. PICK k \in C : IterPos(C, k, fw) = 1
        BY <2>b, <2>c
    <2>4. {j \in C : IterBefore(j, k, fw)} = {}
        <3>1. /\ IsFiniteSet({j \in C : IterBefore(j, k, fw)})
              /\ Cardinality({j \in C : IterBefore(j, k, fw)}) \in Nat
            BY <2>1, <2>a, BeforeSet
        <3>2. Cardinality({j \in C : IterBefore(j, k, fw)}) = 0
            BY <2>3, <3>1 DEF IterPos
        <3> QED
            BY <3>1, <3>2, FS_EmptySet
    <2>5. \A j \in C : ~KeyLess(j, k)
        BY <2>4, Zenon DEF IterBefore, fw
    <2>6. RefAtOrAfter(st, d, t) = Lowest(C) /\ Lowest(C) \in C
        BY <1>2, <2>5, Zenon DEF RefAtOrAfter, Lowest
    <2>7. \A k2 \in Nat \X Nat : k2 # Panic
        BY DEF Panic
    <2> QED
        BY <2>6, <2>7, KeysNat
<1> QED
    BY <1>1, <1>2

(***************************************************************************)
(* getHistoryEntryAtOrAfterTime panics in every reachable store, for      *)
(* every denom and time: it passes a nil end key, and GetFirstValueInRange *)
(* first calls Get on it.  Its doc comment promises the earliest entry at  *)
(* or after t, which is never a panic, so the function (which has no       *)
(* caller in the repository) never does what it says.                     *)
(***************************************************************************)
THEOREM AtOrAfterAlwaysPanics ==
    Spec => [](\A d \in Denoms, t \in Times :
                  AtOrAfter(store, d, t) = Panic
                  /\ AtOrAfter(store, d, t) # RefAtOrAfter(store, d, t))
<1>1. TypeOK => \A d \in Denoms, t \in Times :
                  AtOrAfter(store, d, t) = Panic
                  /\ AtOrAfter(store, d, t) # RefAtOrAfter(store, d, t)
    <2> SUFFICES ASSUME TypeOK, NEW d \in Denoms, NEW t \in Times
                 PROVE  AtOrAfter(store, d, t) = Panic
                        /\ AtOrAfter(store, d, t) # RefAtOrAfter(store, d, t)
        OBVIOUS
    <2>1. AtOrAfter(store, d, t) = Panic
        BY Zenon DEF AtOrAfter, GetFirstValueInRange
    <2>2. RefAtOrAfter(store, d, t) # Panic
        BY RefAtOrAfterNotPanic DEF TypeOK
    <2> QED
        BY <2>1, <2>2
<1> QED
    BY <1>1, OracleTypeCorrect, PTL
=============================================================================
