--------------------------- MODULE OracleHistory ---------------------------
(***************************************************************************)
(* The x/oracle price-history index (src/x/oracle/keeper/history.go) and   *)
(* the range helpers it uses (src/x/oracle/util/store_helper.go).          *)
(*                                                                         *)
(* A history entry is stored under FormatHistoricalDenomIndexKey(t, denom) *)
(* which, as the range lookups require, orders keys by denom and then by   *)
(* time; FormatHistoricalDenomIndexPrefix(denom) sorts before every key of *)
(* the denom.  An entry is identified by its key <<denom, time>>; the      *)
(* price it carries plays no part in which entry a lookup returns.         *)
(* Iterators cover [start, end) and a nil end means "to the end of the     *)
(* store".  ctx.KVStore is a gas-metered cache store whose Get asserts a   *)
(* non-nil key, so Get(nil) panics.                                        *)
(***************************************************************************)
EXTENDS Integers, FiniteSets, SequencesExt

CONSTANTS
    Denoms,        \* denoms, ordered as their key bytes
    Times          \* price update times, ordered as their key bytes

ASSUME DenomsAssumption == Denoms \subseteq Nat /\ IsFiniteSet(Denoms)
ASSUME TimesAssumption == Times \subseteq Nat /\ IsFiniteSet(Times)

VARIABLE
    store          \* the set of history keys present

vars == <<store>>

Keys == Denoms \X Times

(* Results of a lookup other than an entry, and the nil key; one-element  *)
(* tuples, so that they compare with keys.                                 *)
NotFound == <<"no values in range">>
Panic == <<"panic">>
Nil == <<"nil">>

---------------------------------------------------------------------------
(* Key order and the ordered-store primitives.                             *)

KeyLess(a, b) == a[1] < b[1] \/ (a[1] = b[1] /\ a[2] < b[2])

(* FormatHistoricalDenomIndexPrefix(denom): below every key of the denom.  *)
DenomPrefix(d) == <<d, -1>>

(* The keys an iterator over [start, end) visits; end = Nil is unbounded.  *)
InRange(st, start, end) ==
    { k \in st : ~KeyLess(k, start) /\ (end = Nil \/ KeyLess(k, end)) }

Lowest(S) == CHOOSE k \in S : \A j \in S : ~KeyLess(j, k)
Highest(S) == CHOOSE k \in S : \A j \in S : ~KeyLess(k, j)

(* makeIterator: the first key a (reverse) iterator yields, if any.        *)
FirstOfIterator(st, start, end, reverse) ==
    LET R == InRange(st, start, end)
    IN  IF R = {} THEN NotFound
        ELSE IF reverse THEN Highest(R) ELSE Lowest(R)

(* Mutant of GetFirstValueInRange: the end key is not looked up.          *)
GetFirstValueInRangeNoEndGet(st, start, end, reverse) ==
    IF end = Nil THEN Panic
    ELSE FirstOfIterator(st, start, end, reverse)

(***************************************************************************)
(* GetFirstValueInRange: Get(keyEnd) first, because the iterator does not  *)
(* include the end key; then the first key of the iterator, or the error   *)
(* "no values in range".                                                   *)
(***************************************************************************)
GetFirstValueInRange(st, start, end, reverse) ==
    IF end = Nil THEN Panic
    ELSE IF end \in st THEN end
    ELSE FirstOfIterator(st, start, end, reverse)

(* The order in which an iterator yields keys: ascending, or descending   *)
(* for a reverse iterator.                                                 *)
IterBefore(a, b, reverse) == IF reverse THEN KeyLess(b, a) ELSE KeyLess(a, b)

(* The 1-based position at which an iterator over the keys R yields k.    *)
IterPos(R, k, reverse) == Cardinality({j \in R : IterBefore(j, k, reverse)}) + 1

(* The keys a (reverse) iterator over [start, end) yields, in order.       *)
IteratorSeq(st, start, end, reverse) ==
    LET R == InRange(st, start, end)
    IN  [n \in 1..Cardinality(R) |-> CHOOSE k \in R : IterPos(R, k, reverse) = n]

(* Mutant of GetValueInRange: the end key is not looked up.               *)
GetValueInRangeNoEndGet(st, start, end, reverse) ==
    LET l == IteratorSeq(st, start, end, reverse)
    IN  IF end = Nil THEN [st |-> "panic"]
        ELSE IF l = <<>> THEN [st |-> "no values in range"]
        ELSE [st |-> "ok", list |-> l]

(***************************************************************************)
(* GetValueInRange: every key of the iterator in its order, then the end   *)
(* key appended if Get(keyEnd) finds it (a panic for a nil end), and the   *)
(* error "no values in range" for an empty list.  It has no caller in the  *)
(* repository; it is checked as the helper of the same family.             *)
(***************************************************************************)
GetValueInRange(st, start, end, reverse) ==
    LET l == IteratorSeq(st, start, end, reverse)
             \o (IF end \in st THEN <<end>> ELSE <<>>)
    IN  IF end = Nil THEN [st |-> "panic"]
        ELSE IF l = <<>> THEN [st |-> "no values in range"]
        ELSE [st |-> "ok", list |-> l]

(* Mutant of getHistoryEntryAtOrBeforeTime: reverseIterate = false.       *)
AtOrBeforeForward(st, d, t) ==
    IF <<d, t>> \in st THEN <<d, t>>
    ELSE GetFirstValueInRange(st, DenomPrefix(d), <<d, t>>, FALSE)

(* getHistoryEntryAtOrBeforeTime(denom, t).                                *)
AtOrBefore(st, d, t) ==
    IF <<d, t>> \in st THEN <<d, t>>
    ELSE GetFirstValueInRange(st, DenomPrefix(d), <<d, t>>, TRUE)

(* getHistoryEntryAtOrAfterTime(denom, t): the end key is nil.             *)
AtOrAfter(st, d, t) == GetFirstValueInRange(st, <<d, t>>, Nil, FALSE)

(* getHistoryEntryBetweenTime(denom, start, end).                          *)
Between(st, d, s, e) == GetFirstValueInRange(st, <<d, s>>, <<d, e>>, TRUE)

---------------------------------------------------------------------------
(* Reference definitions, from the doc comments of history.go.             *)

(* The entry (d, t') with t' <= t and no stored t'' with t' < t'' <= t.    *)
RefAtOrBefore(st, d, t) ==
    LET C == { k \in st : k[1] = d /\ k[2] <= t }
    IN  IF C = {} THEN NotFound ELSE Highest(C)

(* The entry (d, t') with t' >= t and no stored t'' with t <= t'' < t'.    *)
RefAtOrAfter(st, d, t) ==
    LET C == { k \in st : k[1] = d /\ k[2] >= t }
    IN  IF C = {} THEN NotFound ELSE Lowest(C)

(* The latest entry (d, t') with start <= t' <= end.                       *)
RefBetween(st, d, s, e) ==
    LET C == { k \in st : k[1] = d /\ s <= k[2] /\ k[2] <= e }
    IN  IF C = {} THEN NotFound ELSE Highest(C)

---------------------------------------------------------------------------
(* Keeper operations that change the store.                                *)

Init ==
    store = {}

(* Mutant of SetPriceHistoryEntry: the key's time and denom swapped.       *)
SetPriceHistoryEntrySwapped(d, t) ==
    store' = store \cup {<<t, d>>}

(* SetPriceHistoryEntry -> storeHistoricalData: store.Set(key, entry).     *)
SetPriceHistoryEntry(d, t) ==
    store' = store \cup {<<d, t>>}

(* RemoveValueInRange: every key the iterator visits is deleted; the end  *)
(* key is not visited, whatever the direction.                            *)
RemoveValueInRange(st, start, end, reverse) == st \ InRange(st, start, end)

(* RemoveHistoryEntryAtOrBeforeTime -> RemoveValueInRange(prefix, key(t)). *)
RemoveHistoryEntryAtOrBeforeTime(d, t) ==
    store' = RemoveValueInRange(store, DenomPrefix(d), <<d, t>>, TRUE)

Next ==
    \E d \in Denoms, t \in Times :
        \/ SetPriceHistoryEntry(d, t)
        \/ RemoveHistoryEntryAtOrBeforeTime(d, t)

Spec == Init /\ [][Next]_vars

---------------------------------------------------------------------------
(* Properties.                                                             *)

TypeOK == store \subseteq Keys

(***************************************************************************)
(* In every reachable store, getHistoryEntryAtOrBeforeTime returns the     *)
(* latest entry of the denom at or before t (its exact-key Get and the     *)
(* reverse iterator together cover the inclusive bound).                   *)
(***************************************************************************)
AtOrBeforeMatchesReference ==
    \A d \in Denoms, t \in Times : AtOrBefore(store, d, t) = RefAtOrBefore(store, d, t)

(***************************************************************************)
(* In every reachable store, getHistoryEntryBetweenTime with start <= end  *)
(* returns the latest entry of the denom within [start, end].              *)
(***************************************************************************)
BetweenMatchesReference ==
    \A d \in Denoms, s, e \in Times :
        s <= e => Between(store, d, s, e) = RefBetween(store, d, s, e)

(***************************************************************************)
(* In every reachable store, GetValueInRange over [key(s), key(e)] of one  *)
(* denom (s <= e) lists every entry of the denom within [s, e] exactly     *)
(* once, in ascending key order when iterating forward, and reports "no   *)
(* values in range" when there is none: the iterator's exclusive end and   *)
(* the separate Get of the end key must together cover the closed range.   *)
(***************************************************************************)
GetValueInRangeMatchesReference ==
    \A d \in Denoms, s, e \in Times, rev \in BOOLEAN :
        LET r == GetValueInRange(store, <<d, s>>, <<d, e>>, rev)
            C == { k \in store : k[1] = d /\ s <= k[2] /\ k[2] <= e }
        IN  s <= e =>
              IF C = {} THEN r.st = "no values in range"
              ELSE /\ r.st = "ok"
                   /\ ToSet(r.list) = C
                   /\ Len(r.list) = Cardinality(C)
                   /\ ~rev => \A i \in 1..Len(r.list) - 1 :
                                 KeyLess(r.list[i], r.list[i + 1])

(* getHistoryEntryAtOrAfterTime returns the earliest entry at or after t.  *)
AtOrAfterMatchesReference ==
    \A d \in Denoms, t \in Times : AtOrAfter(store, d, t) = RefAtOrAfter(store, d, t)
=============================================================================
