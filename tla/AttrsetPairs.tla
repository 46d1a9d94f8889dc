------------------------------ MODULE AttrsetPairs ------------------------------
(***************************************************************************)
(* Merge and the writer of attribute sets of bindings/nix-bindings.        *)
(* AttrsetValue::write asks a merge for its length, which counts the keys  *)
(* both sides have, and then reads that many pairs from MergePairs, which  *)
(* walks the left side and after it the keys only the right side has.      *)
(* A side is what it answers the merge; what the sides are made of is in   *)
(* AttrsetTrees.  A key of type str is written to KEY_BUFFER while it is   *)
(* used, and the buffer cannot be borrowed twice.                          *)
(***************************************************************************)
EXTENDS Integers, Sequences, FiniteSets

CONSTANTS Keys, Values

VARIABLES
  left, right,  \* the sides of the merge
  len,          \* what len() answered before the first pair was read
  pairs,        \* MergePairs: the two positions and is_current_key_conflicting
  builder,      \* the pairs inserted into the attrset builder
  status        \* "start", "writing", "written", "error" or "panic"

vars == <<left, right, len, pairs, builder, status>>

(* One value or none.                                                      *)
Maybe == {<< >>} \cup {<<v>> : v \in Values}

(* A pair of an iterator: its key, whether that is a str, and its value,   *)
(* << >> if reading it panics.                                             *)
SidePair == [key : Keys, str : BOOLEAN, value : Maybe]

(* A side answers with its length, the pairs of its iterator, no more of   *)
(* them than that, and what is found under each key.  A lookup of a key in *)
(* [borrows] uses the key buffer, and len() itself may panic.              *)
Side ==
  {s \in [len : Nat, pairs : Seq(SidePair), value : [Keys -> Maybe],
          borrows : SUBSET Keys, panics : BOOLEAN] : Len(s.pairs) <= s.len}

Entry == [key : Keys, value : Values]

(***************************************************************************)
(* Reading a side.                                                         *)
(***************************************************************************)
with_value(side, k) == side.value[k]

contains_key(side, k) == with_value(side, k) # << >>

KeysOf(seq) == {seq[i].key : i \in DOMAIN seq}

Distinct(seq) == \A i, j \in DOMAIN seq : seq[i].key = seq[j].key => i = j

(***************************************************************************)
(* Merge: the keys of the shorter side that the other one has.             *)
(***************************************************************************)
Iterated(l, r) == IF l.len <= r.len THEN l ELSE r
Probed(l, r) == IF l.len <= r.len THEN r ELSE l

Conflicts(l, r) == {k \in KeysOf(Iterated(l, r).pairs) : contains_key(Probed(l, r), k)}

(* A str is looked up with the key buffer borrowed.                        *)
LookupPanics(l, r) ==
  \E i \in DOMAIN Iterated(l, r).pairs :
    LET pair == Iterated(l, r).pairs[i]
    IN  pair.str /\ pair.key \in Probed(l, r).borrows

(* A conflicting key that the iterated side yields twice panics.           *)
DuplicatePanics(l, r) ==
  \E i, j \in DOMAIN Iterated(l, r).pairs :
    /\ i # j
    /\ Iterated(l, r).pairs[i].key = Iterated(l, r).pairs[j].key
    /\ contains_key(Probed(l, r), Iterated(l, r).pairs[i].key)

merge_len_panics(l, r) ==
  l.panics \/ r.panics \/ LookupPanics(l, r) \/ DuplicatePanics(l, r)

(* Mutant: the keys of both sides are counted twice.                       *)
merge_len_plain(l, r) == l.len + r.len

merge_len(l, r) == l.len + r.len - Cardinality(Conflicts(l, r))

(***************************************************************************)
(* MergePairs.                                                             *)
(***************************************************************************)
merge_start(l, r) ==
  [leftIdx |-> 1, rightIdx |-> 1,
   conflicting |-> Len(l.pairs) > 0 /\ l.pairs[1].key \in Conflicts(l, r)]

left_exhausted(l, p) == p.leftIdx > Len(l.pairs)

is_exhausted(l, r, p) == left_exhausted(l, p) /\ p.rightIdx > Len(r.pairs)

(* advance_right_until_we_get_to_non_conflicting_key, started at n.        *)
Stops(l, r, i) == i > Len(r.pairs) \/ r.pairs[i].key \notin Conflicts(l, r)

SkipTo(l, r, n) ==
  CHOOSE i \in n..(Len(r.pairs) + 1) :
    Stops(l, r, i) /\ \A j \in n..(i - 1) : ~Stops(l, r, j)

(* Mutants of the next definition: the right side is entered one past the  *)
(* pair the skip stopped at; it is entered at its first pair, conflicting  *)
(* or not.                                                                 *)
advance_past(l, r, p) ==
  IF left_exhausted(l, p)
  THEN [p EXCEPT !.rightIdx = SkipTo(l, r, p.rightIdx + 1)]
  ELSE IF p.leftIdx + 1 > Len(l.pairs)
  THEN [leftIdx |-> p.leftIdx + 1, rightIdx |-> SkipTo(l, r, p.rightIdx) + 1,
        conflicting |-> FALSE]
  ELSE [p EXCEPT !.leftIdx = p.leftIdx + 1,
                 !.conflicting = l.pairs[p.leftIdx + 1].key \in Conflicts(l, r)]

advance_unskipped(l, r, p) ==
  IF left_exhausted(l, p)
  THEN [p EXCEPT !.rightIdx = p.rightIdx + 1]
  ELSE IF p.leftIdx + 1 > Len(l.pairs)
  THEN [p EXCEPT !.leftIdx = p.leftIdx + 1, !.conflicting = FALSE]
  ELSE [p EXCEPT !.leftIdx = p.leftIdx + 1,
                 !.conflicting = l.pairs[p.leftIdx + 1].key \in Conflicts(l, r)]

(* With the left side exhausted the right one advances; else the left one  *)
(* does, and if that exhausted it the right one is put on its first key.   *)
advance(l, r, p) ==
  IF left_exhausted(l, p)
  THEN [p EXCEPT !.rightIdx = SkipTo(l, r, p.rightIdx + 1)]
  ELSE IF p.leftIdx + 1 > Len(l.pairs)
  THEN [leftIdx |-> p.leftIdx + 1, rightIdx |-> SkipTo(l, r, p.rightIdx),
        conflicting |-> FALSE]
  ELSE [p EXCEPT !.leftIdx = p.leftIdx + 1,
                 !.conflicting = l.pairs[p.leftIdx + 1].key \in Conflicts(l, r)]

current_key(l, r, p) ==
  IF left_exhausted(l, p) THEN r.pairs[p.rightIdx].key ELSE l.pairs[p.leftIdx].key

(* Mutant: the flag is not looked at.                                      *)
current_value_left(l, r, p) ==
  IF left_exhausted(l, p) THEN r.pairs[p.rightIdx].value ELSE l.pairs[p.leftIdx].value

(* The value, << >> if reading it panics: at a conflicting key the writer, *)
(* which is using the key, uses it once more to look it up in the right    *)
(* side, and expects to find it there.                                     *)
current_value(l, r, p) ==
  IF p.conflicting
  THEN IF l.pairs[p.leftIdx].str THEN << >> ELSE with_value(r, l.pairs[p.leftIdx].key)
  ELSE IF left_exhausted(l, p) THEN r.pairs[p.rightIdx].value ELSE l.pairs[p.leftIdx].value

CurrentPair(l, r, p) ==
  [key |-> current_key(l, r, p),
   str |-> IF left_exhausted(l, p) THEN r.pairs[p.rightIdx].str ELSE l.pairs[p.leftIdx].str,
   value |-> current_value(l, r, p)]

(***************************************************************************)
(* AttrsetValue::write.                                                    *)
(***************************************************************************)
StartOn(l, r) ==
  /\ left = l /\ right = r
  /\ len = 0
  /\ pairs = [leftIdx |-> 1, rightIdx |-> 1, conflicting |-> FALSE]
  /\ builder = << >>
  /\ status = "start"

Init == \E l, r \in Side : StartOn(l, r)

(* len(), pairs() and make_attrset_builder.                                *)
Start ==
  /\ status = "start"
  /\ ~merge_len_panics(left, right)
  /\ len' = merge_len(left, right)
  /\ pairs' = merge_start(left, right)
  /\ status' \in {"writing", "error"}
  /\ UNCHANGED <<left, right, builder>>

LenPanics ==
  /\ status = "start"
  /\ merge_len_panics(left, right)
  /\ status' = "panic"
  /\ UNCHANGED <<left, right, len, pairs, builder>>

Reads == status = "writing" /\ Len(builder) < len

CurrentEntry(l, r, p) ==
  [key |-> current_key(l, r, p), value |-> Head(current_value(l, r, p))]

(* One turn of the loop: the value is written, inserted under its key, and *)
(* the iterator advances.                                                  *)
InsertPair ==
  /\ Reads
  /\ ~is_exhausted(left, right, pairs)
  /\ current_value(left, right, pairs) # << >>
  /\ builder' = Append(builder, CurrentEntry(left, right, pairs))
  /\ pairs' = advance(left, right, pairs)
  /\ UNCHANGED <<left, right, len, status>>

(* The value cannot be allocated, written or inserted.                     *)
InsertFails ==
  /\ Reads
  /\ ~is_exhausted(left, right, pairs)
  /\ status' = "error"
  /\ UNCHANGED <<left, right, len, pairs, builder>>

ValuePanics ==
  /\ Reads
  /\ ~is_exhausted(left, right, pairs)
  /\ current_value(left, right, pairs) = << >>
  /\ status' = "panic"
  /\ UNCHANGED <<left, right, len, pairs, builder>>

(* The loop does not ask if there is a pair: reading past the last one     *)
(* panics in every iterator.                                               *)
PastEndPanics ==
  /\ Reads
  /\ is_exhausted(left, right, pairs)
  /\ status' = "panic"
  /\ UNCHANGED <<left, right, len, pairs, builder>>

Build ==
  /\ status = "writing"
  /\ Len(builder) = len
  /\ status' \in {"written", "error"}
  /\ UNCHANGED <<left, right, len, pairs, builder>>

Next ==
  \/ Start
  \/ LenPanics
  \/ InsertPair
  \/ InsertFails
  \/ ValuePanics
  \/ PastEndPanics
  \/ Build

Spec == Init /\ [][Next]_vars

(***************************************************************************)
(* Properties.                                                             *)
(***************************************************************************)
(* The positions stay on the sides or one past their end.                  *)
TypeOK ==
  /\ left \in Side /\ right \in Side
  /\ len \in Nat
  /\ pairs \in [leftIdx : 1..(Len(left.pairs) + 1), rightIdx : 1..(Len(right.pairs) + 1),
                conflicting : BOOLEAN]
  /\ builder \in Seq(Entry)
  /\ status \in {"start", "writing", "written", "error", "panic"}

(* The answers of a side agree: it yields as many pairs as it says, no key *)
(* twice, and looking a key up finds what iterating gives and nothing else.*)
Agrees(side) ==
  /\ ~side.panics
  /\ side.len = Len(side.pairs)
  /\ Distinct(side.pairs)
  /\ \A i \in DOMAIN side.pairs :
       side.pairs[i].value # << >> /\ with_value(side, side.pairs[i].key) = side.pairs[i].value
  /\ \A k \in Keys : contains_key(side, k) => k \in KeysOf(side.pairs)

(* No key that both sides have is a str of the left one, and no str is     *)
(* looked up where the lookup needs the key buffer.                        *)
KeysReadable(l, r) ==
  /\ \A i \in DOMAIN l.pairs : l.pairs[i].key \in Conflicts(l, r) => ~l.pairs[i].str
  /\ ~LookupPanics(l, r)

ProperSides(l, r) == Agrees(l) /\ Agrees(r) /\ KeysReadable(l, r)

Proper == ProperSides(left, right)

(* With sides whose answers agree and keys that can be read twice, nothing *)
(* panics, and the length counted before the walk is the number of pairs   *)
(* the walk yields: the unchecked loop neither reads past the end nor      *)
(* stops with pairs unread.                                                *)
LengthIsExact ==
  Proper =>
    /\ status # "panic"
    /\ status = "writing" => (Len(builder) = len <=> is_exhausted(left, right, pairs))

(* The keys inserted so far are different, so the builder, which does not  *)
(* look for duplicates, never gets one.                                    *)
NoKeyTwice == Proper => Distinct(builder)

(* A side read as a function, by looking its keys up.                      *)
AsFunction(side) ==
  [k \in {key \in Keys : contains_key(side, key)} |-> Head(with_value(side, k))]

InsertedAs(b) ==
  [k \in KeysOf(b) |-> b[CHOOSE i \in DOMAIN b : b[i].key = k].value]

AbstractStatus ==
  IF status \in {"start", "writing"} THEN "none"
  ELSE IF status = "written" THEN "written" ELSE "error"

(* From proper sides, the writer builds the union with the right side      *)
(* first and every pair it inserts on the way belongs to it.               *)
Promised == INSTANCE AttrsetUnion
  WITH left <- AsFunction(left), right <- AsFunction(right),
       inserted <- InsertedAs(builder), outcome <- AbstractStatus

ImplementsUnion ==
  /\ Proper => Promised!Init
  /\ [][Proper => [Promised!Next]_(Promised!vars)]_vars

(***************************************************************************)
(* The inductive invariant of the writer on proper sides.                  *)
(***************************************************************************)
(* The positions of the right side, from n on, that the walk stops at.     *)
RightFrom(l, r, n) == {j \in n..Len(r.pairs) : r.pairs[j].key \notin Conflicts(l, r)}

(* The keys of the pairs the walk is past.                                 *)
PassedKeys(l, r, p) ==
  {l.pairs[i].key : i \in 1..(p.leftIdx - 1)} \cup {r.pairs[j].key : j \in 1..(p.rightIdx - 1)}

UnionValue(l, r, k) ==
  Head(IF contains_key(r, k) THEN with_value(r, k) ELSE with_value(l, k))

PositionInv(l, r, p) ==
  /\ p.conflicting <=> ~left_exhausted(l, p) /\ l.pairs[p.leftIdx].key \in Conflicts(l, r)
  /\ ~left_exhausted(l, p) => p.rightIdx = 1
  /\ left_exhausted(l, p) => Stops(l, r, p.rightIdx)

(* The pairs still to be read.                                             *)
Remaining(l, r, p) == (Len(l.pairs) + 1 - p.leftIdx) + Cardinality(RightFrom(l, r, p.rightIdx))

ContentInv(l, r, inserted) ==
  /\ Distinct(inserted)
  /\ \A i \in DOMAIN inserted : inserted[i].value = UnionValue(l, r, inserted[i].key)
  /\ KeysOf(inserted) \subseteq KeysOf(l.pairs) \cup KeysOf(r.pairs)

(* Checked by TLC before the proofs, which rest on it.                     *)
WriterInv ==
  Proper =>
    /\ status # "panic"
    /\ status = "start" => builder = << >>
    /\ ContentInv(left, right, builder)
    /\ status \in {"writing", "written"} =>
         /\ PositionInv(left, right, pairs)
         /\ Len(builder) + Remaining(left, right, pairs) = len
         /\ KeysOf(builder) = PassedKeys(left, right, pairs)
    /\ status = "written" => Len(builder) = len
================================================================================
