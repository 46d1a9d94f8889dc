------------------------------- MODULE ListTrees -------------------------------
(***************************************************************************)
(* The lists a plugin can write: values of Nix, literals, slices, options, *)
(* their concatenations, and iterators, which are read once.  A list is    *)
(* asked for its length and then for that many items; nothing checks that  *)
(* the two agree.                                                          *)
(***************************************************************************)
EXTENDS Integers, Sequences

CONSTANT MaxIndex   \* the greatest index asked for

ASSUME IndexAssumption == MaxIndex \in Nat

Indices == 0..MaxIndex

(***************************************************************************)
(* List: [len, item], where item[idx] is the item at an index, counted     *)
(* from 0, or "panic" out of bounds.                                       *)
(***************************************************************************)
indexed_list(items) ==
  [len |-> Len(items),
   item |-> [idx \in Indices |-> IF idx < Len(items) THEN items[idx + 1] ELSE "panic"]]

(* [inner] holds the list of Some, or nothing.                             *)
option_list(inner) ==
  IF inner # << >> THEN Head(inner)
  ELSE [len |-> 0, item |-> [idx \in Indices |-> "panic"]]

(* Mutant: the right list is asked with the index of the whole.            *)
concat_list_shifted(l, r) ==
  [len |-> l.len + r.len,
   item |-> [idx \in Indices |-> IF idx < l.len THEN l.item[idx] ELSE r.item[idx]]]

concat_list(l, r) ==
  [len |-> l.len + r.len,
   item |-> [idx \in Indices |-> IF idx < l.len THEN l.item[idx] ELSE r.item[idx - l.len]]]

(***************************************************************************)
(* Iterators: [len, next], where next[n] is what the call after n others   *)
(* returns; "none" is the end.                                             *)
(***************************************************************************)
iterator(items) ==
  [len |-> Len(items),
   next |-> [n \in Indices |-> IF n < Len(items) THEN items[n + 1] ELSE "none"]]

(* How many items come before the first None.                              *)
Yielded(iter) ==
  CHOOSE n \in Indices : iter.next[n] = "none" /\ \A m \in 0..(n - 1) : iter.next[m] # "none"

(* ChainExact drops the left iterator when that ends, and the same call    *)
(* goes on with the right one.                                             *)
chain_exact(l, r) ==
  [len |-> l.len + r.len,
   next |-> [n \in Indices |-> IF n < Yielded(l) THEN l.next[n] ELSE r.next[n - Yielded(l)]]]

(***************************************************************************)
(* WriteableList: the items come one after another, [len, next].           *)
(***************************************************************************)
into_writeable(list) == [len |-> list.len, next |-> list.item]

(* unreachable! when called more often than the length says.               *)
writeable_iterator(iter) ==
  [len |-> iter.len,
   next |-> [n \in Indices |-> IF iter.next[n] = "none" THEN "panic" ELSE iter.next[n]]]

(* The calls to the left list are counted up to its length.                *)
writeable_concat(l, r) ==
  [len |-> l.len + r.len,
   next |-> [n \in Indices |->
               LET num_called_left == IF n < l.len THEN n ELSE l.len
               IN  IF num_called_left = l.len THEN r.next[n - num_called_left]
                   ELSE l.next[num_called_left]]]

(* What write_once inserts into the list builder.                          *)
ItemsOf(w) == [i \in 1..w.len |-> w.next[i - 1]]

(***************************************************************************)
(* Trees.  A borrow and Either forward everything to what they hold.       *)
(***************************************************************************)
RECURSIVE List(_)
List(t) ==
  CASE t.kind \in {"nix", "literal", "slice"} -> indexed_list(t.items)
    [] t.kind = "none" -> option_list(<< >>)
    [] t.kind = "some" -> option_list(<<List(t.inner)>>)
    [] t.kind \in {"either", "borrowed"} -> List(t.inner)
    [] t.kind = "concat" -> concat_list(List(t.left), List(t.right))

RECURSIVE Iter(_)
Iter(t) ==
  IF t.kind = "iterator" THEN iterator(t.items)
  ELSE chain_exact(Iter(t.left), Iter(t.right))

RECURSIVE Writeable(_)
Writeable(t) ==
  CASE t.kind \in {"iterator", "chain"} -> writeable_iterator(Iter(t))
    [] t.kind = "chained" -> writeable_concat(Writeable(t.left), Writeable(t.right))
    [] OTHER -> into_writeable(List(t))

(* The reference: the items of the parts, in order.                        *)
RECURSIVE PartsInOrder(_)
PartsInOrder(t) ==
  CASE t.kind \in {"nix", "literal", "slice", "iterator"} -> t.items
    [] t.kind = "none" -> << >>
    [] t.kind \in {"some", "either", "borrowed"} -> PartsInOrder(t.inner)
    [] t.kind \in {"concat", "chain", "chained"} ->
         PartsInOrder(t.left) \o PartsInOrder(t.right)
================================================================================
