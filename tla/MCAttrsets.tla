------------------------------- MODULE MCAttrsets -------------------------------
(***************************************************************************)
(* Small trees of attribute sets for AttrsetTrees: the writer runs on the  *)
(* merge of every two of them.                                             *)
(***************************************************************************)
EXTENDS AttrsetTrees

VARIABLES leftTree, rightTree

MCRenamed == [k \in {"a", "b"} |-> IF k = "a" THEN "b" ELSE "c"]

KeySeqs == {<< >>, <<"a">>, <<"b">>, <<"b", "a">>, <<"a", "c">>, <<"a", "b", "c">>}

Constant(keys, v) == [k \in ToSet(keys) |-> v]

NixWith(keys, v) == [kind |-> "nix", order |-> keys, map |-> Constant(keys, v)]

Nix(v) == {NixWith(keys, v) : keys \in KeySeqs}

HashMaps(v) ==
  {[kind |-> "hashmap", order |-> keys, map |-> Constant(keys, v)] :
     keys \in {<<"c", "a">>, <<"d">>}}

(* A literal may repeat a key, and its keys may be of type str.            *)
Literals(v) ==
  {[kind |-> "literal", keys |-> keys, str |-> FALSE, values |-> [i \in DOMAIN keys |-> v]] :
     keys \in {<<"b", "c">>, <<"a", "a">>, <<"a", "b", "a">>}}
  \cup {[kind |-> "literal", keys |-> keys, str |-> TRUE, values |-> [i \in DOMAIN keys |-> v]] :
          keys \in {<<"b">>, <<"d", "a">>}}

Field(n, rename, skip, v) ==
  [name |-> n, rename |-> rename, skip_if |-> skip # "no", condition |-> skip = "skip",
   value |-> v]

(* A struct whose first and last fields may be skipped, in every way.      *)
Structs(v) ==
  {[kind |-> "derived", rename_all |-> renamed, skip_if |-> FALSE,
    fields |-> <<Field("a", "", first, v), Field("b", second[1], second[2], v),
                 Field("b", third[1], third[2], v)>>] :
     renamed \in BOOLEAN, first \in {"no", "keep", "skip"},
     second \in {<<"a", "no">>, <<"", "skip">>}, third \in {<<"d", "skip">>, <<"d", "keep">>}}
  \cup {[kind |-> "derived", rename_all |-> FALSE, skip_if |-> TRUE,
         fields |-> <<Field("a", "", first, v), Field("b", "", second, v)>>] :
          first \in {"keep", "skip"}, second \in {"keep", "skip"}}

None == {[kind |-> "none"]}

Wrapped(ts) ==
  {[kind |-> k, inner |-> t] : k \in {"some", "borrowed", "either"}, t \in ts}

Leaves(v) == Nix(v) \cup HashMaps(v) \cup Literals(v) \cup Structs(v) \cup None

(* The few a nested set is made of; the second struct skips the field "a"  *)
(* and has another one renamed to it.                                      *)
Parts(v) ==
  HashMaps(v) \cup None
  \cup {[kind |-> "literal", keys |-> <<"d", "a">>, str |-> TRUE, values |-> <<v, v>>]}
  \cup {NixWith(keys, v) : keys \in {<<"a">>, <<"a", "b", "c">>}}
  \cup {[kind |-> "derived", rename_all |-> FALSE, skip_if |-> TRUE,
         fields |-> <<Field("a", "", "skip", v), Field("b", rename, "keep", v)>>] :
          rename \in {"", "a"}}

Merges(v, w) == {[kind |-> "merge", left |-> l, right |-> r] : l \in Parts(v), r \in Parts(w)}

(* The caller of concat promises that no key is in both.                   *)
Concats(v, w) ==
  {[kind |-> "concat", left |-> l, right |-> r] :
     l \in {t \in Parts(v) : ~contains_key(Attrset(t), "b")},
     r \in {NixWith(keys, w) : keys \in {<<"b">>, << >>}}}

Trees(v, w) == Leaves(v) \cup Wrapped(Parts(v)) \cup Merges(v, w) \cup Concats(v, w)

MCInit ==
  /\ leftTree \in Trees("1", "2") /\ rightTree \in Trees("3", "4")
  /\ StartOn(Attrset(leftTree), Attrset(rightTree))

MCNext == Next /\ UNCHANGED <<leftTree, rightTree>>

MCSpec == MCInit /\ [][MCNext]_<<vars, leftTree, rightTree>>

(* Every way a side is put together keeps its three answers in agreement:  *)
(* its length, what iterating it yields and what looking up a key finds.   *)
SidesAgree ==
  status = "start" => AnswersAgree(leftTree) /\ AnswersAgree(rightTree)
================================================================================
