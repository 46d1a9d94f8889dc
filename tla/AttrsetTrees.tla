------------------------------ MODULE AttrsetTrees ------------------------------
(***************************************************************************)
(* The attribute sets a side of a merge can be: values of Nix, literals,   *)
(* hash maps, structs with #[derive(Attrset)], options, concatenations and *)
(* merges of these.  Each answers len, pairs and with_value by code of its *)
(* own, and a merge relies on the three to agree.                          *)
(***************************************************************************)
EXTENDS AttrsetPairs, SequencesExt

CONSTANTS
  Renamed       \* what a rename rule makes of the name of a field

Pair(k, str, v) == [key |-> k, str |-> str, value |-> <<v>>]

(***************************************************************************)
(* An attribute set is what it answers a merge (Side in AttrsetPairs): its *)
(* pairs are those its iterator yields when it is walked to the end.       *)
(***************************************************************************)
Answers(n, ps, val) ==
  [len |-> n, pairs |-> ps, value |-> val, borrows |-> {}, panics |-> FALSE]

Found(map, k) == IF k \in DOMAIN map THEN <<map[k]>> ELSE << >>

PairsInOrder(order, map, str) == [i \in DOMAIN order |-> Pair(order[i], str, map[order[i]])]

(* A value of Nix has its attributes in an order of its own.               *)
nix_attrset(order, map) ==
  Answers(Len(order), PairsInOrder(order, map, FALSE), [k \in Keys |-> Found(map, k)])

(* A hash map may yield its pairs in any order, each under a str; a lookup *)
(* hashes the key it is given.                                             *)
hash_map(order, map) ==
  Answers(Cardinality(DOMAIN map), PairsInOrder(order, map, TRUE),
          [k \in Keys |-> Found(map, k)])

literal_pairs(keys, str, values) == [i \in DOMAIN keys |-> Pair(keys[i], str, values[i])]

(* A literal is written by hand; the first of two equal keys is found, and *)
(* every key probed on the way is used as the iterator would.              *)
literal(keys, str, values) ==
  [Answers(Len(keys), literal_pairs(keys, str, values),
           [k \in Keys |-> IF k \in ToSet(keys)
                           THEN <<values[SelectInSeq(keys, LAMBDA probe : probe = k)]>>
                           ELSE << >>])
   EXCEPT !.borrows = IF str /\ keys # << >> THEN Keys ELSE {}]

option_pairs(inner) == IF inner = << >> THEN << >> ELSE Head(inner).pairs

(* [inner] holds the attribute set of Some, or nothing.                    *)
option(inner) ==
  IF inner # << >> THEN Head(inner)
  ELSE Answers(0, option_pairs(inner), [k \in Keys |-> << >>])

(* The right pairs follow when the left ones are exhausted.                *)
concat_pairs(l, r) == l.pairs \o r.pairs

(* Both concat and merge ask one side for the key and, if it has none, the *)
(* other.                                                                  *)
lookup(first, second, k) ==
  IF contains_key(first, k) THEN with_value(first, k) ELSE with_value(second, k)

lookup_borrows(first, second) ==
  first.borrows \cup {k \in second.borrows : ~contains_key(first, k)}

concat(l, r) ==
  [len |-> l.len + r.len, pairs |-> concat_pairs(l, r),
   value |-> [k \in Keys |-> lookup(l, r, k)],
   borrows |-> lookup_borrows(l, r), panics |-> l.panics \/ r.panics]

RECURSIVE MergeFrom(_, _, _)
MergeFrom(l, r, p) ==
  IF is_exhausted(l, r, p) THEN << >>
  ELSE <<CurrentPair(l, r, p)>> \o MergeFrom(l, r, advance(l, r, p))

merge(l, r) ==
  [len |-> merge_len(l, r), pairs |-> MergeFrom(l, r, merge_start(l, r)),
   value |-> [k \in Keys |-> lookup(r, l, k)],
   borrows |-> lookup_borrows(r, l), panics |-> merge_len_panics(l, r)]

(***************************************************************************)
(* #[derive(Attrset)]: a field has the name and the skip condition of its  *)
(* own attribute, or else that of the struct.  Here a field records if it  *)
(* has a condition (skip_if of it or of the struct) and if it holds.       *)
(***************************************************************************)
KeyOf(struct, field) ==
  IF field.rename # "" THEN field.rename
  ELSE IF struct.rename_all THEN Renamed[field.name] ELSE field.name

might_skip(struct, field) == field.skip_if \/ struct.skip_if

should_skip(struct, i) ==
  might_skip(struct, struct.fields[i]) /\ struct.fields[i].condition

(* Mutant: the first field is read even when it is skipped.                *)
derived_start_unskipped(struct) == 1

(* pairs() moves over skipped fields only while the fields that might be   *)
(* skipped are the first ones.                                             *)
derived_start(struct) ==
  CHOOSE i \in 1..(Len(struct.fields) + 1) :
    /\ \A j \in 1..(i - 1) : should_skip(struct, j)
    /\ i <= Len(struct.fields) =>
         \/ ~should_skip(struct, i)
         \/ \E j \in 1..i : ~might_skip(struct, struct.fields[j])

derived_advance(struct, i) ==
  CHOOSE n \in (i + 1)..(Len(struct.fields) + 1) :
    /\ n <= Len(struct.fields) => ~should_skip(struct, n)
    /\ \A j \in (i + 1)..(n - 1) : should_skip(struct, j)

derived_len(struct) ==
  LET skipped == {i \in DOMAIN struct.fields :
                    might_skip(struct, struct.fields[i]) /\ should_skip(struct, i)}
  IN  Len(struct.fields) - Cardinality(skipped)

RECURSIVE DerivedFrom(_, _)
DerivedFrom(struct, i) ==
  IF i > Len(struct.fields) THEN << >>
  ELSE <<Pair(KeyOf(struct, struct.fields[i]), FALSE, struct.fields[i].value)>>
         \o DerivedFrom(struct, derived_advance(struct, i))

(* position of the key among all the fields, skipped ones included.        *)
derived_lookup(struct, k) ==
  LET found == {i \in DOMAIN struct.fields : KeyOf(struct, struct.fields[i]) = k}
      first == CHOOSE i \in found : \A j \in found : i <= j
  IN  IF found = {} THEN << >>
      ELSE IF should_skip(struct, first) THEN << >>
      ELSE <<struct.fields[first].value>>

derived(struct) ==
  Answers(derived_len(struct), DerivedFrom(struct, derived_start(struct)),
          [k \in Keys |-> derived_lookup(struct, k)])

(***************************************************************************)
(* Trees.  A borrow and Either forward everything to what they hold.       *)
(***************************************************************************)
RECURSIVE Attrset(_)
Attrset(t) ==
  CASE t.kind = "nix" -> nix_attrset(t.order, t.map)
    [] t.kind = "hashmap" -> hash_map(t.order, t.map)
    [] t.kind = "literal" -> literal(t.keys, t.str, t.values)
    [] t.kind = "derived" -> derived(t)
    [] t.kind = "none" -> option(<< >>)
    [] t.kind = "some" -> option(<<Attrset(t.inner)>>)
    [] t.kind \in {"borrowed", "either"} -> Attrset(t.inner)
    [] t.kind = "concat" -> concat(Attrset(t.left), Attrset(t.right))
    [] t.kind = "merge" -> merge(Attrset(t.left), Attrset(t.right))

(***************************************************************************)
(* What a merge needs of a side.                                           *)
(***************************************************************************)
(* What whoever puts a tree together has to see to: a struct or a literal  *)
(* names no key twice, fields that are skipped included, the parts of a    *)
(* concatenation share no key, and those of a merge have keys that can be  *)
(* read twice where they are.                                              *)
RECURSIVE ProperTree(_)
ProperTree(t) ==
  /\ t.kind = "literal" => IsInjective(t.keys)
  /\ t.kind = "derived" => \A i, j \in DOMAIN t.fields :
       KeyOf(t, t.fields[i]) = KeyOf(t, t.fields[j]) => i = j
  /\ t.kind \in {"some", "borrowed", "either"} => ProperTree(t.inner)
  /\ t.kind \in {"concat", "merge"} => ProperTree(t.left) /\ ProperTree(t.right)
  /\ t.kind = "concat" =>
       KeysOf(Attrset(t.left).pairs) \cap KeysOf(Attrset(t.right).pairs) = {}
  /\ t.kind = "merge" => KeysReadable(Attrset(t.left), Attrset(t.right))

(* Then its length, what iterating it yields and what looking a key up     *)
(* finds agree.                                                            *)
AnswersAgree(t) == ProperTree(t) => Agrees(Attrset(t))
================================================================================
