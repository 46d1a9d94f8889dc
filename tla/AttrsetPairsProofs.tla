--------------------------- MODULE AttrsetPairsProofs ---------------------------
(***************************************************************************)
(* Proofs about AttrsetPairs, for every set of keys and of values and for  *)
(* sides of every length.                                                  *)
(***************************************************************************)
EXTENDS AttrsetPairs, FiniteSetTheorems, WellFoundedInduction, TLAPS

-------------------------------------------------------------------------------
(* Sides.                                                                  *)

LEMMA SideFacts ==
  ASSUME NEW side \in Side
  PROVE  /\ side.pairs \in Seq(SidePair)
         /\ Len(side.pairs) \in Nat /\ side.len \in Nat /\ Len(side.pairs) <= side.len
         /\ DOMAIN side.pairs = 1..Len(side.pairs)
         /\ \A i \in 1..Len(side.pairs) :
              /\ side.pairs[i].key \in Keys /\ side.pairs[i].value \in Maybe
              /\ side.pairs[i].str \in BOOLEAN
         /\ side.value \in [Keys -> Maybe]
  <1>1. /\ side.pairs \in Seq(SidePair) /\ side.len \in Nat /\ side.value \in [Keys -> Maybe]
        /\ Len(side.pairs) <= side.len
    BY DEF Side
  <1>2. /\ Len(side.pairs) \in Nat /\ DOMAIN side.pairs = 1..Len(side.pairs)
        /\ \A i \in 1..Len(side.pairs) : side.pairs[i] \in SidePair
    BY <1>1
  <1> QED
    BY <1>1, <1>2 DEF SidePair

LEMMA MaybeFacts ==
  ASSUME NEW m \in Maybe, m # << >>
  PROVE  Head(m) \in Values
  BY DEF Maybe

(* Where the answers agree, the keys that are found are those of the pairs.*)
LEMMA KeysContained ==
  ASSUME NEW side \in Side, Agrees(side)
  PROVE  /\ KeysOf(side.pairs) \in SUBSET Keys
         /\ \A k \in Keys : k \in KeysOf(side.pairs) <=> contains_key(side, k)
         /\ \A i \in DOMAIN side.pairs :
              /\ side.pairs[i].value # << >>
              /\ with_value(side, side.pairs[i].key) = side.pairs[i].value
              /\ contains_key(side, side.pairs[i].key)
  <1>1. /\ \A i \in DOMAIN side.pairs :
             /\ side.pairs[i].value # << >>
             /\ with_value(side, side.pairs[i].key) = side.pairs[i].value
        /\ \A k \in Keys : contains_key(side, k) => k \in KeysOf(side.pairs)
    BY DEF Agrees
  <1>2. \A i \in DOMAIN side.pairs : contains_key(side, side.pairs[i].key)
    BY <1>1 DEF contains_key
  <1>3. KeysOf(side.pairs) \in SUBSET Keys
    BY SideFacts DEF KeysOf
  <1>4. \A k \in KeysOf(side.pairs) : contains_key(side, k)
    BY <1>2 DEF KeysOf
  <1> QED
    BY <1>1, <1>2, <1>3, <1>4

(* Whichever side is iterated, the conflicts are the keys of both.         *)
LEMMA ConflictsAreShared ==
  ASSUME NEW l \in Side, NEW r \in Side, Agrees(l), Agrees(r)
  PROVE  Conflicts(l, r) = KeysOf(l.pairs) \cap KeysOf(r.pairs)
  <1>1. /\ KeysOf(l.pairs) \in SUBSET Keys /\ KeysOf(r.pairs) \in SUBSET Keys
        /\ \A k \in Keys : k \in KeysOf(l.pairs) <=> contains_key(l, k)
        /\ \A k \in Keys : k \in KeysOf(r.pairs) <=> contains_key(r, k)
    BY KeysContained
  <1>2. CASE l.len <= r.len
    BY <1>1, <1>2 DEF Conflicts, Iterated, Probed
  <1>3. CASE ~(l.len <= r.len)
    BY <1>1, <1>3 DEF Conflicts, Iterated, Probed
  <1> QED
    BY <1>2, <1>3

LEMMA ProperDoesNotPanic ==
  ASSUME Proper
  PROVE  ~merge_len_panics(left, right)
  <1>1. Distinct(Iterated(left, right).pairs)
    BY DEF Proper, ProperSides, Agrees, Iterated
  <1>2. ~DuplicatePanics(left, right)
    BY <1>1 DEF Distinct, DuplicatePanics
  <1> QED
    BY <1>2 DEF merge_len_panics, Proper, ProperSides, Agrees, KeysReadable

(* A set of natural numbers that is not empty has a least element.         *)
LEMMA LeastOf ==
  ASSUME NEW S \in SUBSET Nat, S # {}
  PROVE  \E x \in S : \A y \in S : x <= y
  <1>1. PICK x \in S : \A y \in S : ~(<<y, x>> \in OpToRel(<, Nat))
    BY WFMin, NatLessThanWellFounded
  <1>2. \A y \in S : ~(y < x)
    BY <1>1 DEF OpToRel
  <1>3. ASSUME NEW y \in S PROVE x <= y
    <2>1. x \in Nat /\ y \in Nat /\ ~(y < x)
      BY <1>1, <1>2, <1>3
    <2> QED
      BY <2>1
  <1> QED
    BY <1>1, <1>3

(* The skipping loop stops, at the first position from n on where it may.  *)
LEMMA SkipFacts ==
  ASSUME NEW l \in Side, NEW r \in Side, NEW n \in Nat, 1 <= n, n <= Len(r.pairs) + 1
  PROVE  /\ SkipTo(l, r, n) \in n..(Len(r.pairs) + 1)
         /\ Stops(l, r, SkipTo(l, r, n))
         /\ \A j \in n..(SkipTo(l, r, n) - 1) : ~Stops(l, r, j)
  <1>1. Len(r.pairs) \in Nat
    BY SideFacts
  <1> DEFINE T == {i \in n..(Len(r.pairs) + 1) : Stops(l, r, i)}
  <1>2. Len(r.pairs) + 1 \in T /\ T \in SUBSET Nat
    BY <1>1 DEF Stops
  <1>3. \E x \in T : \A y \in T : x <= y
    BY <1>2, LeastOf
  <1>4. \E i \in n..(Len(r.pairs) + 1) :
          Stops(l, r, i) /\ \A j \in n..(i - 1) : ~Stops(l, r, j)
    BY <1>1, <1>3
  <1> QED
    BY <1>4 DEF SkipTo

-------------------------------------------------------------------------------
(* Type correctness.                                                       *)

LEMMA AdvanceType ==
  ASSUME TypeOK, ~is_exhausted(left, right, pairs)
  PROVE  advance(left, right, pairs) \in
           [leftIdx : 1..(Len(left.pairs) + 1), rightIdx : 1..(Len(right.pairs) + 1),
            conflicting : BOOLEAN]
  <1> Len(left.pairs) \in Nat /\ Len(right.pairs) \in Nat
    BY SideFacts DEF TypeOK
  <1> pairs \in [leftIdx : 1..(Len(left.pairs) + 1), rightIdx : 1..(Len(right.pairs) + 1),
                 conflicting : BOOLEAN]
    BY DEF TypeOK
  <1> left \in Side /\ right \in Side
    BY DEF TypeOK
  <1>1. CASE left_exhausted(left, pairs)
    <2> DEFINE n == pairs.rightIdx + 1
    <2>1. n \in Nat /\ 1 <= n /\ n <= Len(right.pairs) + 1
      BY <1>1 DEF is_exhausted
    <2>2. SkipTo(left, right, n) \in n..(Len(right.pairs) + 1)
      BY <2>1, SkipFacts
    <2> QED
      BY <1>1, <2>2 DEF advance
  <1>2. CASE ~left_exhausted(left, pairs) /\ pairs.leftIdx + 1 > Len(left.pairs)
    <2>1. SkipTo(left, right, pairs.rightIdx) \in 1..(Len(right.pairs) + 1)
      BY SkipFacts
    <2>2. pairs.leftIdx + 1 \in 1..(Len(left.pairs) + 1)
      BY <1>2 DEF left_exhausted
    <2> QED
      BY <1>2, <2>1, <2>2 DEF advance
  <1>3. CASE ~left_exhausted(left, pairs) /\ ~(pairs.leftIdx + 1 > Len(left.pairs))
    <2>1. pairs.leftIdx + 1 \in 1..(Len(left.pairs) + 1)
      BY <1>3
    <2>2. (left.pairs[pairs.leftIdx + 1].key \in Conflicts(left, right)) \in BOOLEAN
      OBVIOUS
    <2> QED
      BY <1>3, <2>1, <2>2 DEF advance
  <1> QED
    BY <1>1, <1>2, <1>3

(* A raised flag stands for a key of the left side that the right has.     *)
FlagOK ==
  pairs.conflicting =>
    ~left_exhausted(left, pairs) /\ left.pairs[pairs.leftIdx].key \in Conflicts(left, right)

(* A pair whose value can be read has a key and a value of the sides.      *)
LEMMA PairType ==
  ASSUME TypeOK, ~is_exhausted(left, right, pairs), FlagOK,
         current_value(left, right, pairs) # << >>
  PROVE  CurrentEntry(left, right, pairs) \in Entry
  <1> USE SideFacts
  <1> left \in Side /\ right \in Side
    BY DEF TypeOK
  <1> pairs \in [leftIdx : 1..(Len(left.pairs) + 1), rightIdx : 1..(Len(right.pairs) + 1),
                 conflicting : BOOLEAN]
    BY DEF TypeOK
  <1>1. left_exhausted(left, pairs) => pairs.rightIdx \in 1..Len(right.pairs)
    BY DEF is_exhausted
  <1>2. ~left_exhausted(left, pairs) => pairs.leftIdx \in 1..Len(left.pairs)
    BY DEF left_exhausted
  <1>3. current_key(left, right, pairs) \in Keys
    BY <1>1, <1>2 DEF current_key
  <1>4. current_value(left, right, pairs) \in Maybe
    <2>1. pairs.conflicting => ~left_exhausted(left, pairs)
      BY DEF FlagOK
    <2>2. << >> \in Maybe /\ \A k \in Keys : with_value(right, k) \in Maybe
      BY DEF Maybe, with_value
    <2> QED
      BY <1>1, <1>2, <2>1, <2>2 DEF current_value
  <1> QED
    BY <1>3, <1>4, MaybeFacts DEF CurrentEntry, Entry

LEMMA AdvanceFlag ==
  ASSUME TypeOK, FlagOK
  PROVE  LET p == advance(left, right, pairs)
         IN  p.conflicting =>
               ~left_exhausted(left, p) /\ left.pairs[p.leftIdx].key \in Conflicts(left, right)
  <1> pairs \in [leftIdx : 1..(Len(left.pairs) + 1), rightIdx : 1..(Len(right.pairs) + 1),
                 conflicting : BOOLEAN]
    BY DEF TypeOK
  <1> Len(left.pairs) \in Nat
    BY SideFacts DEF TypeOK
  <1>1. CASE left_exhausted(left, pairs)
    BY <1>1 DEF advance, FlagOK
  <1>2. CASE ~left_exhausted(left, pairs) /\ pairs.leftIdx + 1 > Len(left.pairs)
    BY <1>2 DEF advance
  <1>3. CASE ~left_exhausted(left, pairs) /\ ~(pairs.leftIdx + 1 > Len(left.pairs))
    BY <1>3 DEF advance, left_exhausted
  <1> QED
    BY <1>1, <1>2, <1>3

LEMMA IntervalSize ==
  ASSUME NEW n \in Nat
  PROVE  IsFiniteSet(1..n) /\ Cardinality(1..n) = n
  <1>1. IsFiniteSet(1..n) /\ Cardinality(1..n) = IF 1 > n THEN 0 ELSE n - 1 + 1
    BY FS_Interval
  <1> QED
    BY <1>1

(* The conflicts of a merge are no more than the pairs of the side that is *)
(* iterated, so its length is a number.                                    *)
LEMMA LengthType ==
  ASSUME NEW l \in Side, NEW r \in Side
  PROVE  IsFiniteSet(Conflicts(l, r)) /\ merge_len(l, r) \in Nat
  <1> DEFINE it == Iterated(l, r)
             n == Len(it.pairs)
             f == [i \in 1..n |-> it.pairs[i].key]
  <1>0. it \in Side /\ (it = l \/ it = r)
    BY DEF Iterated
  <1>1. n \in Nat /\ n <= it.len /\ DOMAIN it.pairs = 1..n /\ l.len \in Nat /\ r.len \in Nat
    <2> HIDE DEF it
    <2> QED
      BY <1>0, SideFacts
  <1> HIDE DEF it
  <1>2. f \in Surjection(1..n, KeysOf(it.pairs))
    BY <1>1 DEF Surjection, KeysOf
  <1>3. IsFiniteSet(1..n) /\ Cardinality(1..n) = n
    BY <1>1, IntervalSize
  <1>4. IsFiniteSet(KeysOf(it.pairs)) /\ Cardinality(KeysOf(it.pairs)) <= n
    BY <1>2, <1>3, FS_Surjection
  <1>5. Conflicts(l, r) \in SUBSET KeysOf(it.pairs)
    BY DEF Conflicts, it
  <1>6. /\ IsFiniteSet(Conflicts(l, r))
        /\ Cardinality(Conflicts(l, r)) <= Cardinality(KeysOf(it.pairs))
    BY <1>4, <1>5, FS_Subset
  <1>7. Cardinality(Conflicts(l, r)) \in Nat /\ Cardinality(KeysOf(it.pairs)) \in Nat
    BY <1>4, <1>6, FS_CardinalityType
  <1> QED
    BY <1>0, <1>1, <1>4, <1>6, <1>7 DEF merge_len

LEMMA StartFlag ==
  ASSUME NEW l \in Side, NEW r \in Side
  PROVE  LET p == merge_start(l, r)
         IN  /\ p \in [leftIdx : 1..(Len(l.pairs) + 1), rightIdx : 1..(Len(r.pairs) + 1),
                        conflicting : BOOLEAN]
             /\ p.conflicting => ~left_exhausted(l, p) /\ l.pairs[p.leftIdx].key \in Conflicts(l, r)
  <1>1. Len(l.pairs) \in Nat /\ Len(r.pairs) \in Nat
    BY SideFacts
  <1>2. (Len(l.pairs) > 0 /\ l.pairs[1].key \in Conflicts(l, r)) \in BOOLEAN
    OBVIOUS
  <1>3. merge_start(l, r) \in [leftIdx : 1..(Len(l.pairs) + 1), rightIdx : 1..(Len(r.pairs) + 1),
                               conflicting : BOOLEAN]
    BY <1>1, <1>2 DEF merge_start
  <1>4. merge_start(l, r).conflicting => Len(l.pairs) > 0 /\ l.pairs[1].key \in Conflicts(l, r)
    BY DEF merge_start
  <1>5. merge_start(l, r).leftIdx = 1
    BY DEF merge_start
  <1> QED
    BY <1>1, <1>3, <1>4, <1>5 DEF left_exhausted

TypeInv == TypeOK /\ FlagOK

LEMMA InitType == Init => TypeInv
  <1> SUFFICES ASSUME NEW l \in Side, NEW r \in Side, StartOn(l, r) PROVE TypeInv
    BY DEF Init
  <1>1. Len(left.pairs) \in Nat /\ Len(right.pairs) \in Nat /\ left \in Side /\ right \in Side
    BY SideFacts DEF StartOn
  <1>2. builder \in Seq(Entry)
    BY DEF StartOn
  <1> QED
    BY <1>1, <1>2 DEF StartOn, TypeInv, TypeOK, FlagOK

LEMMA NextType == TypeInv /\ [Next]_vars => TypeInv'
  <1> SUFFICES ASSUME TypeInv, [Next]_vars PROVE TypeInv'
    OBVIOUS
  <1> USE DEF TypeInv
  <1>1. CASE Start
    <2>1. left \in Side /\ right \in Side
      BY DEF TypeOK
    <2>2. merge_len(left, right) \in Nat
      BY <2>1, LengthType
    <2>3. TypeOK'
      BY <1>1, <2>1, <2>2, StartFlag DEF Start, TypeOK
    <2>4. FlagOK'
      BY <1>1, <2>1, StartFlag DEF Start, FlagOK, left_exhausted
    <2> QED
      BY <2>3, <2>4
  <1>2. CASE InsertPair
    <2>1. CurrentEntry(left, right, pairs) \in Entry
      BY <1>2, PairType DEF InsertPair
    <2>2. builder' \in Seq(Entry)
      BY <1>2, <2>1 DEF InsertPair, TypeOK
    <2>3. TypeOK'
      BY <1>2, <2>2, AdvanceType DEF InsertPair, TypeOK
    <2>4. FlagOK'
      BY <1>2, AdvanceFlag DEF InsertPair, FlagOK, left_exhausted
    <2> QED
      BY <2>3, <2>4
  <1>3. ASSUME status' \in {"written", "error", "panic"},
               UNCHANGED <<left, right, len, pairs, builder>>
        PROVE  TypeInv'
    BY <1>3 DEF TypeOK, FlagOK, left_exhausted
  <1>4. CASE LenPanics
    BY <1>3, <1>4 DEF LenPanics
  <1>5. CASE InsertFails
    BY <1>3, <1>5 DEF InsertFails
  <1>6. CASE PastEndPanics
    BY <1>3, <1>6 DEF PastEndPanics
  <1>7. CASE Build
    BY <1>3, <1>7 DEF Build
  <1>8. CASE ValuePanics
    BY <1>3, <1>8 DEF ValuePanics
  <1>9. CASE UNCHANGED vars
    BY <1>9 DEF vars, TypeOK, FlagOK, left_exhausted
  <1> QED
    BY <1>1, <1>2, <1>4, <1>5, <1>6, <1>7, <1>8, <1>9 DEF Next

(* The two positions stay on their sides or one past the end, whatever the *)
(* sides hold.                                                             *)
THEOREM TypeCorrect == Spec => []TypeOK
  <1>1. TypeInv => TypeOK
    BY DEF TypeInv
  <1> QED
    BY <1>1, InitType, NextType, PTL DEF Spec

-------------------------------------------------------------------------------
(* One pair of the walk over proper sides.  The lemmas speak of any two    *)
(* sides, so that they can be used before and after a step.                *)

PositionType(l, r) ==
  [leftIdx : 1..(Len(l.pairs) + 1), rightIdx : 1..(Len(r.pairs) + 1), conflicting : BOOLEAN]

(* The pair can be read and belongs to the union, under a key the walk has *)
(* not passed.                                                             *)
LEMMA CurrentFacts ==
  ASSUME NEW l \in Side, NEW r \in Side, ProperSides(l, r),
         NEW p \in PositionType(l, r), PositionInv(l, r, p), ~is_exhausted(l, r, p)
  PROVE  LET k == current_key(l, r, p)
         IN  /\ current_value(l, r, p) # << >>
             /\ Head(current_value(l, r, p)) = UnionValue(l, r, k)
             /\ k \notin PassedKeys(l, r, p)
             /\ k \in KeysOf(l.pairs) \cup KeysOf(r.pairs)
  <1>0. /\ Len(l.pairs) \in Nat /\ Len(r.pairs) \in Nat
        /\ DOMAIN l.pairs = 1..Len(l.pairs) /\ DOMAIN r.pairs = 1..Len(r.pairs)
        /\ Agrees(l) /\ Agrees(r) /\ KeysReadable(l, r)
        /\ Distinct(l.pairs) /\ Distinct(r.pairs)
    BY SideFacts DEF ProperSides, Agrees
  <1>1. CASE ~left_exhausted(l, p)
    <2> DEFINE i == p.leftIdx
               k == l.pairs[i].key
    <2>1. i \in DOMAIN l.pairs
      BY <1>0, <1>1 DEF left_exhausted, PositionType
    <2>2. current_key(l, r, p) = k
      BY <1>1 DEF current_key
    <2>3. k \in KeysOf(l.pairs) /\ k \in Keys
      BY <1>0, <2>1, SideFacts DEF KeysOf
    <2>4. /\ current_value(l, r, p) # << >>
          /\ Head(current_value(l, r, p)) = UnionValue(l, r, k)
      <3>1. CASE p.conflicting
        <4>1. k \in Conflicts(l, r)
          BY <3>1 DEF PositionInv
        <4>2. contains_key(r, k)
          BY <1>0, <2>3, <4>1, ConflictsAreShared, KeysContained
        <4>3. ~l.pairs[i].str
          BY <1>0, <2>1, <4>1 DEF KeysReadable
        <4>4. current_value(l, r, p) = with_value(r, k)
          BY <3>1, <4>3 DEF current_value
        <4> QED
          BY <4>2, <4>4 DEF UnionValue, contains_key
      <3>2. CASE ~p.conflicting
        <4>1. ~contains_key(r, k)
          BY <1>0, <1>1, <2>3, <3>2, ConflictsAreShared, KeysContained DEF PositionInv
        <4>2. with_value(l, k) = l.pairs[i].value /\ l.pairs[i].value # << >>
          BY <1>0, <2>1, KeysContained
        <4>3. current_value(l, r, p) = l.pairs[i].value
          BY <1>1, <3>2 DEF current_value
        <4> QED
          BY <4>1, <4>2, <4>3 DEF UnionValue
      <3> QED
        BY <3>1, <3>2
    <2>5. k \notin PassedKeys(l, r, p)
      <3>1. p.rightIdx = 1
        BY <1>1 DEF PositionInv
      <3>2. \A j \in 1..(i - 1) : l.pairs[j].key # k
        BY <1>0, <2>1 DEF Distinct
      <3> QED
        BY <3>1, <3>2 DEF PassedKeys
    <2> QED
      BY <2>2, <2>3, <2>4, <2>5
  <1>2. CASE left_exhausted(l, p)
    <2> DEFINE i == p.rightIdx
               k == r.pairs[i].key
    <2>1. i \in DOMAIN r.pairs
      BY <1>0, <1>2 DEF is_exhausted, PositionType
    <2>2. current_key(l, r, p) = k
      BY <1>2 DEF current_key
    <2>3. k \in KeysOf(r.pairs)
      BY <2>1 DEF KeysOf
    <2>4. k \notin KeysOf(l.pairs)
      BY <1>0, <1>2, <2>1, <2>3, ConflictsAreShared DEF PositionInv, Stops
    <2>5. /\ current_value(l, r, p) # << >>
          /\ Head(current_value(l, r, p)) = UnionValue(l, r, k)
      <3>1. ~p.conflicting
        BY <1>2 DEF PositionInv
      <3>2. /\ contains_key(r, k) /\ with_value(r, k) = r.pairs[i].value
            /\ r.pairs[i].value # << >>
        BY <1>0, <2>1, KeysContained
      <3>3. current_value(l, r, p) = r.pairs[i].value
        BY <1>2, <3>1 DEF current_value
      <3> QED
        BY <3>2, <3>3 DEF UnionValue
    <2>6. k \notin PassedKeys(l, r, p)
      <3>1. \A j \in 1..(i - 1) : r.pairs[j].key # k
        BY <1>0, <2>1 DEF Distinct
      <3>2. p.leftIdx = Len(l.pairs) + 1
        BY <1>0, <1>2 DEF left_exhausted, PositionType
      <3>3. \A j \in 1..(p.leftIdx - 1) : l.pairs[j].key \in KeysOf(l.pairs)
        BY <1>0, <3>2 DEF KeysOf
      <3> QED
        BY <2>4, <3>1, <3>3 DEF PassedKeys
    <2> QED
      BY <2>2, <2>3, <2>5, <2>6
  <1> QED
    BY <1>1, <1>2

(* Keys of the right side that the loop skips are keys of the left side.   *)
LEMMA SkippedKeys ==
  ASSUME NEW l \in Side, NEW r \in Side, NEW n \in Nat, 1 <= n, n <= Len(r.pairs) + 1
  PROVE  /\ \A j \in n..(SkipTo(l, r, n) - 1) : r.pairs[j].key \in Conflicts(l, r)
         /\ RightFrom(l, r, n) = RightFrom(l, r, SkipTo(l, r, n))
         /\ SkipTo(l, r, n) \in n..(Len(r.pairs) + 1)
  <1>0. Len(r.pairs) \in Nat
    BY SideFacts
  <1> DEFINE m == SkipTo(l, r, n)
  <1>1. m \in n..(Len(r.pairs) + 1) /\ \A j \in n..(m - 1) : ~Stops(l, r, j)
    BY SkipFacts
  <1>2. \A j \in n..(m - 1) : r.pairs[j].key \in Conflicts(l, r)
    BY <1>0, <1>1 DEF Stops
  <1> HIDE DEF m
  <1>3. RightFrom(l, r, n) = RightFrom(l, r, m)
    BY <1>0, <1>1, <1>2 DEF RightFrom
  <1> QED
    BY <1>1, <1>2, <1>3 DEF m

LEMMA RightFinite ==
  ASSUME NEW l \in Side, NEW r \in Side, NEW n \in Nat
  PROVE  /\ IsFiniteSet(RightFrom(l, r, n))
         /\ Cardinality(RightFrom(l, r, n)) \in Nat
  <1>1. Len(r.pairs) \in Nat
    BY SideFacts
  <1>2. IsFiniteSet(n..Len(r.pairs))
    BY <1>1, FS_Interval
  <1>3. RightFrom(l, r, n) \in SUBSET (n..Len(r.pairs))
    BY DEF RightFrom
  <1> QED
    BY <1>2, <1>3, FS_Subset, FS_CardinalityType

(* Advancing passes the key of the current pair, and leaves one pair less. *)
LEMMA AdvanceFacts ==
  ASSUME NEW l \in Side, NEW r \in Side, Agrees(l), Agrees(r),
         NEW p \in PositionType(l, r), PositionInv(l, r, p), ~is_exhausted(l, r, p)
  PROVE  LET q == advance(l, r, p)
         IN  /\ PositionInv(l, r, q)
             /\ Remaining(l, r, q) + 1 = Remaining(l, r, p)
             /\ PassedKeys(l, r, q)
                  = PassedKeys(l, r, p) \cup {current_key(l, r, p)}
  <1>0. /\ Len(l.pairs) \in Nat /\ Len(r.pairs) \in Nat
        /\ DOMAIN l.pairs = 1..Len(l.pairs) /\ DOMAIN r.pairs = 1..Len(r.pairs)
        /\ p.leftIdx \in 1..(Len(l.pairs) + 1) /\ p.rightIdx \in 1..(Len(r.pairs) + 1)
    BY SideFacts DEF PositionType
  <1> DEFINE q == advance(l, r, p)
             C == Conflicts(l, r)
             k == current_key(l, r, p)
  <1>1. CASE left_exhausted(l, p)
    <2> DEFINE i == p.rightIdx
               m == SkipTo(l, r, i + 1)
    <2>1. i \in 1..Len(r.pairs) /\ p.leftIdx = Len(l.pairs) + 1
      BY <1>0, <1>1 DEF is_exhausted, left_exhausted
    <2>2. q = [p EXCEPT !.rightIdx = m]
      BY <1>1 DEF advance
    <2>3. q.leftIdx = p.leftIdx /\ q.rightIdx = m /\ q.conflicting = p.conflicting
      BY <2>2 DEF PositionType
    <2>4. k = r.pairs[i].key /\ k \notin C
      BY <1>0, <1>1, <2>1 DEF current_key, PositionInv, Stops
    <2>5. /\ m \in (i + 1)..(Len(r.pairs) + 1) /\ Stops(l, r, m)
          /\ \A j \in (i + 1)..(m - 1) : r.pairs[j].key \in C
          /\ RightFrom(l, r, i + 1) = RightFrom(l, r, m)
          /\ m \in Nat
      <3> DEFINE n == i + 1
      <3>1. n \in Nat /\ 1 <= n /\ n <= Len(r.pairs) + 1
        BY <1>0, <2>1
      <3>2. SkipTo(l, r, n) \in n..(Len(r.pairs) + 1) /\ Stops(l, r, SkipTo(l, r, n))
        BY <3>1, SkipFacts
      <3>3. /\ \A j \in n..(SkipTo(l, r, n) - 1) : r.pairs[j].key \in C
            /\ RightFrom(l, r, n) = RightFrom(l, r, SkipTo(l, r, n))
        BY <3>1, SkippedKeys
      <3>4. SkipTo(l, r, n) \in Nat
        BY <1>0, <3>1, <3>2
      <3> QED
        BY <3>2, <3>3, <3>4
    <2> HIDE DEF m, q
    <2>6. PositionInv(l, r, q)
      BY <1>1, <2>3, <2>5 DEF PositionInv, left_exhausted
    <2>7. Remaining(l, r, q) + 1 = Remaining(l, r, p)
      <3>1. RightFrom(l, r, i) = RightFrom(l, r, i + 1) \cup {i}
        BY <1>0, <2>1, <2>4 DEF RightFrom
      <3>2. i \notin RightFrom(l, r, i + 1)
        BY <2>1 DEF RightFrom
      <3>3. IsFiniteSet(RightFrom(l, r, m)) /\ Cardinality(RightFrom(l, r, m)) \in Nat
        BY <1>0, <2>5, RightFinite
      <3>4. Cardinality(RightFrom(l, r, i)) = Cardinality(RightFrom(l, r, m)) + 1
        BY <2>5, <3>1, <3>2, <3>3, FS_AddElement
      <3> QED
        BY <1>0, <2>1, <2>3, <3>3, <3>4 DEF Remaining
    <2>8. PassedKeys(l, r, q) = PassedKeys(l, r, p) \cup {k}
      <3>1. \A j \in 1..(m - 1) : j \in 1..(i - 1) \/ j = i \/ j \in (i + 1)..(m - 1)
        BY <1>0, <2>1, <2>5
      <3>2. \A j \in 1..(i - 1) : j \in 1..(m - 1)
        BY <1>0, <2>1, <2>5
      <3>3. i \in 1..(m - 1)
        BY <1>0, <2>1, <2>5
      <3>4. \A j \in (i + 1)..(m - 1) : r.pairs[j].key \in {l.pairs[x].key : x \in 1..(p.leftIdx - 1)}
        <4>1. KeysOf(l.pairs) = {l.pairs[x].key : x \in 1..(p.leftIdx - 1)}
          BY <1>0, <2>1 DEF KeysOf
        <4> QED
          BY <2>5, <4>1, ConflictsAreShared
      <3> QED
        BY <2>3, <2>4, <3>1, <3>2, <3>3, <3>4 DEF PassedKeys
    <2> QED
      BY <2>6, <2>7, <2>8 DEF q
  <1>2. CASE ~left_exhausted(l, p)
    <2> DEFINE i == p.leftIdx
               m == IF i + 1 > Len(l.pairs) THEN SkipTo(l, r, 1) ELSE 1
    <2>1. i \in 1..Len(l.pairs) /\ p.rightIdx = 1 /\ k = l.pairs[i].key
      BY <1>0, <1>2 DEF left_exhausted, PositionInv, current_key
    <2>2. q.leftIdx = i + 1
      BY <1>2 DEF advance, PositionType
    <2>3. q.rightIdx = m
      BY <1>2, <2>1 DEF advance, PositionType
    <2>4. q.conflicting <=> i + 1 <= Len(l.pairs) /\ l.pairs[i + 1].key \in C
      <3>1. CASE i + 1 > Len(l.pairs)
        BY <1>0, <1>2, <2>1, <3>1 DEF advance
      <3>2. CASE ~(i + 1 > Len(l.pairs))
        <4>1. q = [p EXCEPT !.leftIdx = i + 1, !.conflicting = l.pairs[i + 1].key \in C]
          BY <1>2, <3>2 DEF advance
        <4>2. q.conflicting = (l.pairs[i + 1].key \in C)
          BY <4>1 DEF PositionType
        <4>3. i + 1 <= Len(l.pairs)
          BY <1>0, <2>1, <3>2
        <4> QED
          BY <4>2, <4>3
      <3> QED
        BY <3>1, <3>2
    <2>5. /\ m \in 1..(Len(r.pairs) + 1)
          /\ i + 1 > Len(l.pairs) => Stops(l, r, m)
          /\ i + 1 <= Len(l.pairs) => m = 1
          /\ \A j \in 1..(m - 1) : i + 1 > Len(l.pairs) /\ r.pairs[j].key \in C
          /\ RightFrom(l, r, 1) = RightFrom(l, r, m)
      <3>1. CASE i + 1 > Len(l.pairs)
        <4>0. 1 \in Nat /\ 1 <= 1 /\ 1 <= Len(r.pairs) + 1
          BY <1>0
        <4>1. SkipTo(l, r, 1) \in 1..(Len(r.pairs) + 1) /\ Stops(l, r, SkipTo(l, r, 1))
          BY <4>0, SkipFacts
        <4>2. /\ \A j \in 1..(SkipTo(l, r, 1) - 1) : r.pairs[j].key \in C
              /\ RightFrom(l, r, 1) = RightFrom(l, r, SkipTo(l, r, 1))
          BY <4>0, SkippedKeys
        <4> QED
          BY <1>0, <2>1, <3>1, <4>1, <4>2
      <3>2. CASE ~(i + 1 > Len(l.pairs))
        BY <1>0, <2>1, <3>2
      <3> QED
        BY <3>1, <3>2
    <2> HIDE DEF m, q
    <2>6. PositionInv(l, r, q)
      BY <1>0, <2>1, <2>2, <2>3, <2>4, <2>5 DEF PositionInv, left_exhausted
    <2>7. Remaining(l, r, q) + 1 = Remaining(l, r, p)
      <3> DEFINE n == Cardinality(RightFrom(l, r, 1))
                 len1 == Len(l.pairs)
      <3>1. n \in Nat
        BY RightFinite
      <3>2. Remaining(l, r, p) = (len1 + 1 - i) + n
        BY <2>1 DEF Remaining
      <3>3. Remaining(l, r, q) = (len1 + 1 - (i + 1)) + n
        BY <2>2, <2>3, <2>5 DEF Remaining
      <3>4. len1 \in Nat /\ i \in Nat
        BY <1>0, <2>1
      <3> HIDE DEF n, len1, i
      <3> QED
        BY <3>1, <3>2, <3>3, <3>4
    <2>8. PassedKeys(l, r, q) = PassedKeys(l, r, p) \cup {k}
      <3>1. {l.pairs[x].key : x \in 1..((i + 1) - 1)} = {l.pairs[x].key : x \in 1..(i - 1)} \cup {l.pairs[i].key}
        BY <1>0, <2>1
      <3>2. \A j \in 1..(m - 1) : r.pairs[j].key \in {l.pairs[x].key : x \in 1..((i + 1) - 1)}
        <4>1. KeysOf(l.pairs) = {l.pairs[x].key : x \in 1..Len(l.pairs)}
          BY <1>0 DEF KeysOf
        <4>2. C \in SUBSET KeysOf(l.pairs)
          BY ConflictsAreShared
        <4>3. \A j \in 1..(m - 1) : (i + 1) - 1 = Len(l.pairs) /\ r.pairs[j].key \in C
          BY <1>0, <2>1, <2>5
        <4> HIDE DEF C
        <4> QED
          BY <4>1, <4>2, <4>3
      <3>3. {r.pairs[j].key : j \in 1..(1 - 1)} = {}
        OBVIOUS
      <3> DEFINE before == {l.pairs[x].key : x \in 1..(i - 1)}
                 upto == {l.pairs[x].key : x \in 1..((i + 1) - 1)}
                 none == {r.pairs[j].key : j \in 1..(1 - 1)}
                 skipped == {r.pairs[j].key : j \in 1..(m - 1)}
      <3>4. PassedKeys(l, r, p) = before \cup none
        BY <2>1 DEF PassedKeys
      <3>5. PassedKeys(l, r, q) = upto \cup skipped
        BY <2>2, <2>3 DEF PassedKeys
      <3>6. skipped \subseteq upto
        BY <3>2
      <3>7. upto = before \cup {k} /\ none = {}
        BY <2>1, <3>1, <3>3
      <3> HIDE DEF before, upto, none, skipped, k
      <3> QED
        BY <3>4, <3>5, <3>6, <3>7
    <2> QED
      BY <2>6, <2>7, <2>8 DEF q
  <1> QED
    BY <1>1, <1>2

(* The length counted before the walk is the number of its pairs.          *)
LEMMA StartFacts ==
  ASSUME NEW l \in Side, NEW r \in Side, Agrees(l), Agrees(r)
  PROVE  LET p == merge_start(l, r)
         IN  /\ PositionInv(l, r, p)
             /\ Remaining(l, r, p) = merge_len(l, r)
             /\ PassedKeys(l, r, p) = {}
  <1>0. /\ Len(l.pairs) \in Nat /\ Len(r.pairs) \in Nat
        /\ DOMAIN l.pairs = 1..Len(l.pairs) /\ DOMAIN r.pairs = 1..Len(r.pairs)
        /\ l.len = Len(l.pairs) /\ r.len = Len(r.pairs) /\ Distinct(r.pairs)
    BY SideFacts DEF Agrees
  <1> DEFINE p == merge_start(l, r)
             C == Conflicts(l, r)
             J == {j \in 1..Len(r.pairs) : r.pairs[j].key \in C}
             f == [j \in J |-> r.pairs[j].key]
  <1>1. p.leftIdx = 1 /\ p.rightIdx = 1 /\ p.conflicting = (Len(l.pairs) > 0 /\ l.pairs[1].key \in C)
    BY DEF merge_start
  <1>2. left_exhausted(l, p) <=> Len(l.pairs) = 0
    BY <1>0, <1>1 DEF left_exhausted
  <1>3. Len(l.pairs) = 0 => C = {}
    BY <1>0, ConflictsAreShared DEF KeysOf
  <1>4. PositionInv(l, r, p)
    <2>1. p.conflicting <=> ~left_exhausted(l, p) /\ l.pairs[p.leftIdx].key \in C
      <3>1. (Len(l.pairs) > 0) <=> ~left_exhausted(l, p)
        BY <1>0, <1>2
      <3> QED
        BY <1>1, <3>1
    <2>2. left_exhausted(l, p) => Stops(l, r, p.rightIdx)
      BY <1>2, <1>3 DEF Stops
    <2> QED
      BY <1>1, <2>1, <2>2 DEF PositionInv
  <1>5. PassedKeys(l, r, p) = {}
    BY <1>1 DEF PassedKeys
  <1>6. IsFiniteSet(1..Len(r.pairs)) /\ Cardinality(1..Len(r.pairs)) = Len(r.pairs)
    BY <1>0, IntervalSize
  <1>7. J \in SUBSET (1..Len(r.pairs))
    OBVIOUS
  <1>8. IsFiniteSet(J) /\ Cardinality(J) \in Nat
    BY <1>6, <1>7, FS_Subset, FS_CardinalityType
  <1>9. Cardinality(C) = Cardinality(J)
    <2>1. \A c \in C : \E j \in J : r.pairs[j].key = c
      BY <1>0, ConflictsAreShared DEF KeysOf
    <2>2. f \in Surjection(J, C)
      BY <2>1 DEF Surjection
    <2>3. f \in Injection(J, C)
      BY <1>0 DEF Injection, IsInjective, Distinct
    <2> QED
      BY <1>8, <2>2, <2>3, FS_Surjection
  <1>10. RightFrom(l, r, 1) = (1..Len(r.pairs)) \ J
    BY DEF RightFrom
  <1>11. Cardinality((1..Len(r.pairs)) \ J) = Len(r.pairs) - Cardinality((1..Len(r.pairs)) \cap J)
    BY <1>6, FS_Difference
  <1>12. (1..Len(r.pairs)) \cap J = J
    BY <1>7
  <1>13. Remaining(l, r, p) = merge_len(l, r)
    <2>1. Remaining(l, r, p) = (Len(l.pairs) + 1 - 1) + Cardinality(RightFrom(l, r, 1))
      BY <1>1 DEF Remaining
    <2>2. merge_len(l, r) = Len(l.pairs) + Len(r.pairs) - Cardinality(C)
      BY <1>0 DEF merge_len
    <2>3. Cardinality(RightFrom(l, r, 1)) = Len(r.pairs) - Cardinality(J)
      BY <1>10, <1>11, <1>12
    <2> HIDE DEF p, J
    <2> QED
      BY <1>0, <1>8, <1>9, <2>1, <2>2, <2>3
  <1> QED
    BY <1>4, <1>5, <1>13

(* Nothing is left exactly when the walk is exhausted, and then it has     *)
(* passed the keys of both sides.                                          *)
LEMMA RemainingFacts ==
  ASSUME NEW l \in Side, NEW r \in Side,
         NEW p \in PositionType(l, r), PositionInv(l, r, p)
  PROVE  /\ Remaining(l, r, p) \in Nat
         /\ Remaining(l, r, p) = 0 <=> is_exhausted(l, r, p)
         /\ is_exhausted(l, r, p) => PassedKeys(l, r, p) = KeysOf(l.pairs) \cup KeysOf(r.pairs)
  <1>0. /\ Len(l.pairs) \in Nat /\ Len(r.pairs) \in Nat
        /\ DOMAIN l.pairs = 1..Len(l.pairs) /\ DOMAIN r.pairs = 1..Len(r.pairs)
        /\ p.leftIdx \in 1..(Len(l.pairs) + 1) /\ p.rightIdx \in 1..(Len(r.pairs) + 1)
    BY SideFacts DEF PositionType
  <1> DEFINE R == RightFrom(l, r, p.rightIdx)
  <1>1. IsFiniteSet(R) /\ Cardinality(R) \in Nat
    <2>1. p.rightIdx \in Nat
      BY <1>0
    <2> QED
      BY <2>1, RightFinite
  <1>2. Cardinality(R) = 0 <=> R = {}
    BY <1>1, FS_EmptySet
  <1>3. left_exhausted(l, p) => (R = {} <=> p.rightIdx > Len(r.pairs))
    BY <1>0 DEF RightFrom, PositionInv, Stops
  <1>4. left_exhausted(l, p) <=> p.leftIdx = Len(l.pairs) + 1
    BY <1>0 DEF left_exhausted
  <1>5. Remaining(l, r, p) = (Len(l.pairs) + 1 - p.leftIdx) + Cardinality(R)
    BY DEF Remaining
  <1> HIDE DEF R
  <1>6. Remaining(l, r, p) \in Nat
    BY <1>0, <1>1, <1>5
  <1>7. Remaining(l, r, p) = 0 <=> is_exhausted(l, r, p)
    <2> DEFINE n == Len(l.pairs) + 1
               c == Cardinality(R)
    <2>0. n \in Nat /\ p.leftIdx \in 1..n /\ c \in Nat /\ Remaining(l, r, p) = (n - p.leftIdx) + c
      <3>1. n \in Nat /\ p.leftIdx \in 1..n
        BY <1>0
      <3>2. c \in Nat
        BY <1>1
      <3>3. Remaining(l, r, p) = (n - p.leftIdx) + c
        BY <1>0, <1>1 DEF Remaining, R
      <3> QED
        BY <3>1, <3>2, <3>3
    <2>1. Remaining(l, r, p) = 0 <=> p.leftIdx = Len(l.pairs) + 1 /\ Cardinality(R) = 0
      <3>1. \A i \in 1..n : (n - i) + c = 0 <=> i = n /\ c = 0
        <4> HIDE DEF n, c
        <4> QED
          BY <2>0
      <3> QED
        BY <2>0, <3>1
    <2> QED
      BY <1>2, <1>3, <1>4, <2>1 DEF is_exhausted
  <1>8. ASSUME is_exhausted(l, r, p)
        PROVE  PassedKeys(l, r, p) = KeysOf(l.pairs) \cup KeysOf(r.pairs)
    <2>1. p.leftIdx - 1 = Len(l.pairs) /\ p.rightIdx - 1 = Len(r.pairs)
      BY <1>0, <1>4, <1>8 DEF is_exhausted
    <2> QED
      BY <1>0, <2>1 DEF PassedKeys, KeysOf
  <1> QED
    BY <1>6, <1>7, <1>8

-------------------------------------------------------------------------------
(* The inductive invariant.                                                *)

LEMMA AppendFacts ==
  ASSUME NEW s \in Seq(Entry), Distinct(s), NEW c \in Entry, c.key \notin KeysOf(s)
  PROVE  /\ Distinct(Append(s, c))
         /\ KeysOf(Append(s, c)) = KeysOf(s) \cup {c.key}
         /\ \A i \in DOMAIN Append(s, c) :
              (i \in DOMAIN s /\ Append(s, c)[i] = s[i]) \/ Append(s, c)[i] = c
         /\ Len(Append(s, c)) = Len(s) + 1
  <1> DEFINE t == Append(s, c)
  <1>1. /\ Len(s) \in Nat /\ DOMAIN s = 1..Len(s)
        /\ Len(t) = Len(s) + 1 /\ DOMAIN t = 1..(Len(s) + 1)
        /\ \A i \in 1..Len(s) : t[i] = s[i]
        /\ t[Len(s) + 1] = c
    OBVIOUS
  <1> HIDE DEF t
  <1>2. \A i \in DOMAIN s : s[i].key # c.key
    BY DEF KeysOf
  <1>3. \A i \in DOMAIN t : (i \in DOMAIN s /\ t[i] = s[i]) \/ (i = Len(s) + 1 /\ t[i] = c)
    BY <1>1
  <1>4. Distinct(t)
    BY <1>2, <1>3 DEF Distinct
  <1>5. \A i \in DOMAIN s : i \in DOMAIN t /\ t[i].key = s[i].key
    BY <1>1
  <1>6. Len(s) + 1 \in DOMAIN t
    BY <1>1
  <1>7. KeysOf(t) = KeysOf(s) \cup {c.key}
    BY <1>1, <1>3, <1>5, <1>6 DEF KeysOf
  <1> QED
    BY <1>1, <1>3, <1>4, <1>7 DEF t

LEMMA InitWriter == Init => WriterInv
  <1> SUFFICES ASSUME NEW l \in Side, NEW r \in Side, StartOn(l, r) PROVE WriterInv
    BY DEF Init
  <1>1. builder = << >> /\ status = "start"
    BY DEF StartOn
  <1>2. ContentInv(left, right, builder)
    BY <1>1 DEF ContentInv, Distinct, KeysOf
  <1> QED
    BY <1>1, <1>2 DEF WriterInv

LEMMA NextWriter == TypeInv /\ WriterInv /\ [Next]_vars => WriterInv'
  <1> SUFFICES ASSUME TypeInv, WriterInv, [Next]_vars, Proper' PROVE WriterInv'
    BY DEF WriterInv
  <1>0. /\ left' = left /\ right' = right /\ Proper
        /\ left \in Side /\ right \in Side /\ builder \in Seq(Entry) /\ Len(builder) \in Nat
        /\ pairs \in PositionType(left, right)
        /\ ProperSides(left, right) /\ Agrees(left) /\ Agrees(right)
    BY DEF Next, vars, Start, LenPanics, InsertPair, InsertFails, PastEndPanics,
           Build, ValuePanics, Proper, ProperSides, TypeInv, TypeOK, PositionType
  <1>1. CASE Start
    <2>1. builder = << >> /\ ContentInv(left, right, builder) /\ builder' = builder
      BY <1>0, <1>1 DEF Start, WriterInv
    <2>2. KeysOf(builder) = {} /\ Len(builder) = 0
      BY <2>1 DEF KeysOf
    <2>3. /\ PositionInv(left, right, pairs')
          /\ Remaining(left, right, pairs') = len'
          /\ PassedKeys(left, right, pairs') = {}
      BY <1>0, <1>1, StartFacts DEF Start
    <2>4. len' \in Nat
      BY <1>0, <1>1, LengthType DEF Start
    <2>5. status' \in {"writing", "error"}
      BY <1>1 DEF Start
    <2>6. KeysOf(builder') = PassedKeys(left, right, pairs')
      BY <2>1, <2>2, <2>3
    <2>7. Len(builder') + Remaining(left, right, pairs') = len'
      <3>1. Len(builder') = 0
        BY <2>1, <2>2
      <3>2. Remaining(left, right, pairs') \in Nat
        BY <2>3, <2>4
      <3>3. 0 + Remaining(left, right, pairs') = Remaining(left, right, pairs')
        BY <3>2
      <3> QED
        BY <2>3, <3>1, <3>3, Zenon
    <2>8. ContentInv(left, right, builder')
      BY <2>1
    <2> QED
      BY <1>0, <2>3, <2>5, <2>6, <2>7, <2>8 DEF WriterInv
  <1>2. CASE LenPanics
    BY <1>0, <1>2, ProperDoesNotPanic DEF LenPanics
  <1>3. CASE InsertPair
    <2> DEFINE c == CurrentEntry(left, right, pairs)
    <2>1. /\ status = "writing" /\ status' = "writing" /\ len' = len
          /\ ~is_exhausted(left, right, pairs)
          /\ builder' = Append(builder, c) /\ pairs' = advance(left, right, pairs)
      BY <1>3 DEF InsertPair, Reads
    <2>2. /\ PositionInv(left, right, pairs)
          /\ Len(builder) + Remaining(left, right, pairs) = len
          /\ KeysOf(builder) = PassedKeys(left, right, pairs)
          /\ ContentInv(left, right, builder)
      BY <1>0, <2>1 DEF WriterInv
    <2>3. c \in Entry
      BY <1>3, PairType DEF TypeInv, InsertPair
    <2>4. /\ c.key = current_key(left, right, pairs)
          /\ c.value = UnionValue(left, right, c.key)
          /\ c.key \notin KeysOf(builder)
          /\ c.key \in KeysOf(left.pairs) \cup KeysOf(right.pairs)
      BY <1>0, <2>1, <2>2, CurrentFacts DEF CurrentEntry
    <2>5. /\ PositionInv(left, right, pairs')
          /\ Remaining(left, right, pairs') + 1 = Remaining(left, right, pairs)
          /\ PassedKeys(left, right, pairs') = PassedKeys(left, right, pairs) \cup {c.key}
      BY <1>0, <2>1, <2>2, <2>4, AdvanceFacts
    <2>6. /\ Distinct(builder')
          /\ KeysOf(builder') = KeysOf(builder) \cup {c.key}
          /\ \A i \in DOMAIN builder' :
               (i \in DOMAIN builder /\ builder'[i] = builder[i]) \/ builder'[i] = c
          /\ Len(builder') = Len(builder) + 1
      <3>1. Distinct(builder)
        BY <2>2 DEF ContentInv
      <3> HIDE DEF c
      <3> QED
        BY <1>0, <2>1, <2>3, <2>4, <3>1, AppendFacts
    <2>7. ContentInv(left, right, builder')
      BY <2>2, <2>4, <2>6 DEF ContentInv
    <2>8. Len(builder') + Remaining(left, right, pairs') = len
      <3>1. pairs' \in PositionType(left, right)
        BY <2>1, AdvanceType DEF TypeInv, PositionType
      <3>2. Remaining(left, right, pairs') \in Nat /\ Remaining(left, right, pairs) \in Nat
        BY <1>0, <2>2, <2>5, <3>1, RemainingFacts
      <3>3. Len(builder) \in Nat
        BY <1>0
      <3> QED
        BY <2>2, <2>5, <2>6, <3>2, <3>3
    <2> QED
      BY <1>0, <2>1, <2>2, <2>5, <2>6, <2>7, <2>8 DEF WriterInv
  <1>4. CASE InsertFails
    BY <1>0, <1>4 DEF InsertFails, Reads, WriterInv
  <1>5. CASE PastEndPanics
    <2>1. /\ status = "writing" /\ Len(builder) < len /\ is_exhausted(left, right, pairs)
      BY <1>5 DEF PastEndPanics, Reads
    <2>2. /\ PositionInv(left, right, pairs)
          /\ Len(builder) + Remaining(left, right, pairs) = len
      BY <1>0, <2>1 DEF WriterInv
    <2>3. Remaining(left, right, pairs) = 0
      BY <1>0, <2>1, <2>2, RemainingFacts
    <2>4. Len(builder) \in Nat
      BY <1>0
    <2> QED
      BY <2>1, <2>2, <2>3, <2>4
  <1>6. CASE Build
    BY <1>0, <1>6 DEF Build, WriterInv
  <1>7. CASE ValuePanics
    <2>1. /\ status = "writing" /\ ~is_exhausted(left, right, pairs)
          /\ current_value(left, right, pairs) = << >>
      BY <1>7 DEF ValuePanics, Reads
    <2>2. PositionInv(left, right, pairs)
      BY <1>0, <2>1 DEF WriterInv
    <2> QED
      BY <1>0, <2>1, <2>2, CurrentFacts
  <1>8. CASE UNCHANGED vars
    BY <1>0, <1>8 DEF vars, WriterInv
  <1> QED
    BY <1>1, <1>2, <1>3, <1>4, <1>5, <1>6, <1>7, <1>8 DEF Next

LEMMA Invariants == Spec => [](TypeInv /\ WriterInv)
  <1>1. Init => TypeInv /\ WriterInv
    BY InitType, InitWriter
  <1>2. (TypeInv /\ WriterInv) /\ [Next]_vars => (TypeInv /\ WriterInv)'
    BY NextType, NextWriter
  <1> QED
    BY <1>1, <1>2, PTL DEF Spec

(* The unchecked loop of the writer reads every pair of the merge and none *)
(* after the last, for proper sides of any length.                         *)
THEOREM LengthExact == Spec => []LengthIsExact
  <1>1. TypeInv /\ WriterInv => LengthIsExact
    <2> SUFFICES ASSUME TypeInv, WriterInv, Proper, status = "writing"
                 PROVE  Len(builder) = len <=> is_exhausted(left, right, pairs)
      BY DEF LengthIsExact, WriterInv
    <2>1. /\ left \in Side /\ right \in Side /\ Len(builder) \in Nat
          /\ pairs \in PositionType(left, right)
      BY DEF TypeInv, TypeOK, PositionType
    <2>2. /\ PositionInv(left, right, pairs)
          /\ Len(builder) + Remaining(left, right, pairs) = len
      BY DEF WriterInv
    <2>3. /\ Remaining(left, right, pairs) \in Nat
          /\ Remaining(left, right, pairs) = 0 <=> is_exhausted(left, right, pairs)
      BY <2>1, <2>2, RemainingFacts
    <2>4. Len(builder) = len <=> Remaining(left, right, pairs) = 0
      BY <2>1, <2>2, <2>3
    <2> QED
      BY <2>3, <2>4
  <1> QED
    BY <1>1, Invariants, PTL

(* The builder gets no key twice from proper sides.                        *)
THEOREM KeysOnce == Spec => []NoKeyTwice
  <1>1. WriterInv => NoKeyTwice
    BY DEF WriterInv, NoKeyTwice, ContentInv
  <1> QED
    BY <1>1, Invariants, PTL

-------------------------------------------------------------------------------
(* The writer implements the union.                                        *)

LEMMA UnionIs ==
  ASSUME NEW l \in Side, NEW r \in Side, Agrees(l), Agrees(r)
  PROVE  /\ DOMAIN AsFunction(l) = KeysOf(l.pairs)
         /\ [k \in DOMAIN AsFunction(l) \cup DOMAIN AsFunction(r) |->
               IF k \in DOMAIN AsFunction(r) THEN AsFunction(r)[k] ELSE AsFunction(l)[k]]
              = [k \in KeysOf(l.pairs) \cup KeysOf(r.pairs) |-> UnionValue(l, r, k)]
  <1>0. /\ KeysOf(l.pairs) \in SUBSET Keys /\ KeysOf(r.pairs) \in SUBSET Keys
        /\ \A k \in Keys : k \in KeysOf(l.pairs) <=> contains_key(l, k)
        /\ \A k \in Keys : k \in KeysOf(r.pairs) <=> contains_key(r, k)
    BY KeysContained
  <1>1. DOMAIN AsFunction(l) = KeysOf(l.pairs) /\ DOMAIN AsFunction(r) = KeysOf(r.pairs)
    BY <1>0 DEF AsFunction
  <1>2. ASSUME NEW k \in KeysOf(l.pairs) \cup KeysOf(r.pairs)
        PROVE  (IF k \in KeysOf(r.pairs) THEN AsFunction(r)[k] ELSE AsFunction(l)[k])
                 = UnionValue(l, r, k)
    BY <1>0, <1>2 DEF AsFunction, UnionValue
  <1> QED
    BY <1>1, <1>2

(* What is inserted has the values of the union.                           *)
LEMMA InsertedIs ==
  ASSUME NEW l \in Side, NEW r \in Side, NEW s \in Seq(Entry), ContentInv(l, r, s)
  PROVE  InsertedAs(s) = [k \in KeysOf(s) |-> UnionValue(l, r, k)]
  <1>1. ASSUME NEW k \in KeysOf(s)
        PROVE  s[CHOOSE i \in DOMAIN s : s[i].key = k].value = UnionValue(l, r, k)
    <2> DEFINE c == CHOOSE i \in DOMAIN s : s[i].key = k
    <2>1. \E i \in DOMAIN s : s[i].key = k
      BY DEF KeysOf
    <2>2. c \in DOMAIN s /\ s[c].key = k
      BY <2>1
    <2> HIDE DEF c
    <2>3. s[c].value = UnionValue(l, r, k)
      BY <2>2 DEF ContentInv
    <2> QED
      BY <2>3 DEF c
  <1> QED
    BY <1>1 DEF InsertedAs

(* Every run from proper sides is a run of the abstract union: the pairs   *)
(* inserted are always pairs of `left // right`, and what is built is all  *)
(* of it.                                                                  *)
THEOREM UnionImplemented == Spec => ImplementsUnion
  <1>1. Init => (Proper => Promised!Init)
    <2> SUFFICES ASSUME NEW l \in Side, NEW r \in Side, StartOn(l, r) PROVE Promised!Init
      BY DEF Init
    <2>1. builder = << >> /\ status = "start"
      BY DEF StartOn
    <2>2. DOMAIN InsertedAs(builder) = {}
      BY <2>1 DEF InsertedAs, KeysOf
    <2> QED
      BY <2>1, <2>2 DEF Promised!Init, AbstractStatus
  <1>2. /\ TypeInv /\ WriterInv /\ TypeInv' /\ WriterInv'
        /\ [Next]_vars
        => [Proper => [Promised!Next]_(Promised!vars)]_vars
    <2> SUFFICES ASSUME TypeInv, WriterInv, TypeInv', WriterInv', Next, Proper
                 PROVE  [Promised!Next]_(Promised!vars)
      OBVIOUS
    <2>0. /\ left' = left /\ right' = right /\ Proper'
          /\ left \in Side /\ right \in Side /\ builder \in Seq(Entry) /\ builder' \in Seq(Entry)
          /\ Agrees(left) /\ Agrees(right) /\ ProperSides(left, right)
          /\ Len(builder) \in Nat
          /\ pairs \in PositionType(left, right)
          /\ ContentInv(left, right, builder) /\ ContentInv(left, right, builder')
      BY DEF Next, vars, Start, LenPanics, InsertPair, InsertFails, PastEndPanics,
             Build, ValuePanics, Proper, ProperSides, TypeInv, TypeOK, PositionType, WriterInv
    <2> DEFINE U == [k \in KeysOf(left.pairs) \cup KeysOf(right.pairs) |-> UnionValue(left, right, k)]
    <2>1. Promised!Union = U
      BY <2>0, UnionIs DEF Promised!Union
    <2>2. InsertedAs(builder) = [k \in KeysOf(builder) |-> U[k]]
      BY <2>0, InsertedIs DEF ContentInv
    <2>3. InsertedAs(builder') = [k \in KeysOf(builder') |-> U[k]]
      BY <2>0, InsertedIs DEF ContentInv
    <2>4. /\ AsFunction(left)' = AsFunction(left) /\ AsFunction(right)' = AsFunction(right)
      BY <2>0
    <2>5. CASE Start \/ LenPanics \/ InsertFails \/ ValuePanics \/ PastEndPanics
      <3>1. builder' = builder /\ status \in {"start", "writing"}
        BY <2>5 DEF Start, LenPanics, InsertFails, ValuePanics, PastEndPanics, Reads
      <3>2. status' \in {"writing", "error", "panic"}
        BY <2>5 DEF Start, LenPanics, InsertFails, ValuePanics, PastEndPanics
      <3>3. InsertedAs(builder)' = InsertedAs(builder)
        BY <3>1
      <3>4. AbstractStatus = "none" /\ AbstractStatus' \in {"none", "error"}
        BY <3>1, <3>2 DEF AbstractStatus
      <3> QED
        BY <2>4, <3>3, <3>4 DEF Promised!Next, Promised!Fail, Promised!vars
    <2>6. CASE InsertPair
      <3> DEFINE c == CurrentEntry(left, right, pairs)
      <3>1. /\ status = "writing" /\ status' = "writing"
            /\ ~is_exhausted(left, right, pairs) /\ builder' = Append(builder, c)
        BY <2>6 DEF InsertPair, Reads
      <3>2. c \in Entry
        BY <2>6, PairType DEF TypeInv, InsertPair
      <3>3. /\ PositionInv(left, right, pairs)
            /\ KeysOf(builder) = PassedKeys(left, right, pairs)
            /\ Distinct(builder)
        BY <2>0, <3>1 DEF WriterInv, ContentInv
      <3>4. c.key \notin KeysOf(builder) /\ c.key \in KeysOf(left.pairs) \cup KeysOf(right.pairs)
        BY <2>0, <3>1, <3>3, CurrentFacts DEF CurrentEntry
      <3> HIDE DEF c
      <3>5. KeysOf(builder') = KeysOf(builder) \cup {c.key}
        BY <2>0, <3>1, <3>2, <3>3, <3>4, AppendFacts
      <3>6. DOMAIN InsertedAs(builder) = KeysOf(builder) /\ DOMAIN U = KeysOf(left.pairs) \cup KeysOf(right.pairs)
        BY DEF InsertedAs
      <3>7. c.key \in DOMAIN U \ DOMAIN InsertedAs(builder)
        BY <3>4, <3>6
      <3>8. InsertedAs(builder') = [j \in DOMAIN InsertedAs(builder) \cup {c.key} |-> U[j]]
        BY <2>3, <3>5, <3>6
      <3>9. AbstractStatus = "none" /\ AbstractStatus' = "none"
        BY <3>1 DEF AbstractStatus
      <3> HIDE DEF U
      <3> QED
        BY <2>1, <2>4, <3>7, <3>8, <3>9 DEF Promised!Next, Promised!InsertPair
    <2>7. CASE Build
      <3>1. /\ status = "writing" /\ status' \in {"written", "error"} /\ Len(builder) = len
            /\ builder' = builder
        BY <2>7 DEF Build
      <3>2. InsertedAs(builder)' = InsertedAs(builder)
        BY <3>1
      <3>3. AbstractStatus = "none"
        BY <3>1 DEF AbstractStatus
      <3>4. CASE status' = "error"
        <4>1. AbstractStatus' = "error"
          BY <3>4 DEF AbstractStatus
        <4> QED
          BY <2>4, <3>2, <3>3, <4>1 DEF Promised!Next, Promised!Fail
      <3>5. CASE status' = "written"
        <4>1. /\ PositionInv(left, right, pairs)
              /\ KeysOf(builder) = PassedKeys(left, right, pairs)
              /\ Len(builder) + Remaining(left, right, pairs) = len
          BY <2>0, <3>1 DEF WriterInv
        <4>2. Remaining(left, right, pairs) = 0
          <5>1. Remaining(left, right, pairs) \in Nat /\ Len(builder) \in Nat
            BY <2>0, <4>1, RemainingFacts
          <5> QED
            BY <3>1, <4>1, <5>1
        <4>3. KeysOf(builder) = KeysOf(left.pairs) \cup KeysOf(right.pairs)
          BY <2>0, <4>1, <4>2, RemainingFacts
        <4>4. InsertedAs(builder) = U
          BY <2>2, <4>3
        <4>5. AbstractStatus' = "written"
          BY <3>5 DEF AbstractStatus
        <4> HIDE DEF U
        <4> QED
          BY <2>1, <2>4, <3>2, <3>3, <4>4, <4>5 DEF Promised!Next, Promised!Finish
      <3> QED
        BY <3>1, <3>4, <3>5
    <2> QED
      BY <2>5, <2>6, <2>7 DEF Next
  <1> QED
    BY <1>1, <1>2, Invariants, PTL DEF Spec, ImplementsUnion
================================================================================
