------------------------------- MODULE MCPrimops -------------------------------
(***************************************************************************)
(* PrimopCalls for plugins of one or two primops, each with another way to *)
(* nest calls, keys, lists and functions; and, for every list a plugin can *)
(* put together, the list that is written (ListTrees).                     *)
(***************************************************************************)
EXTENDS PrimopCalls, ListTrees

(***************************************************************************)
(* Values.                                                                 *)
(***************************************************************************)
Scalar == [type |-> "scalar"]
Nix    == [type |-> "nix"]
Lazy   == [type |-> "thunk"]
Fun    == [type |-> "primop"]

Text(fits)   == [type |-> "text", fits |-> fits]
BigInt(fits) == [type |-> "bigint", fits |-> fits]
Pathname(fits) == [type |-> "path", fits |-> fits]
Wrap(inner)  == [type |-> "wrap", inner |-> inner]

Item(via, value) == [via |-> via, next |-> "cstr", value |-> value]
Attrs(items) == [type |-> "attrs", items |-> items, counts |-> "cstr"]
Array(tree_0, tree_1) == [type |-> "list", items |-> <<Item("cstr", tree_0), Item("cstr", tree_1)>>]
Once(id, tree) == [type |-> "once", id |-> id, items |-> <<Item("cstr", tree)>>]

(* Of merges: string keys are looked at to count, or to skip conflicts.    *)
Counting(tree) == [tree EXCEPT !.counts = "str"]
Skipping(item) == [item EXCEPT !.next = "str"]

(***************************************************************************)
(* Reads and operations.                                                   *)
(***************************************************************************)
Get(of, key, optional) ==
  [type |-> [of |-> of], key |-> key, depth |-> 0, optional |-> optional]

Deep(read) == [read EXCEPT !.depth = 1]

Struct(fields) ==
  [type |-> [of |-> "struct", fields |-> fields], key |-> "none", depth |-> 0, optional |-> FALSE]

Vec(of) ==
  [type |-> [of |-> "vec", item |-> [of |-> of]], key |-> "cstr", depth |-> 0, optional |-> TRUE]

ReadOp(read) == [op |-> "read", read |-> read]
CallOp(arg)  == [op |-> "call", args |-> <<arg>>]
MultiOp(args) == [op |-> "multi", args |-> args]

Does(args, ops, value, once) ==
  [args |-> args, ops |-> ops, value |-> value, once |-> once, fallible |-> TRUE]

(***************************************************************************)
(* The plugins.                                                            *)
(***************************************************************************)
(* The shape of buildPackage: an override is forced under its string key,  *)
(* then called.                                                            *)
Overriding ==
  Does(<<Struct(<<Get("thunk", "cstr", FALSE), Get("string", "cstr", TRUE)>>)>>,
       <<ReadOp(Get("bool", "str", TRUE)), CallOp(Attrs(<<Item("cstr", Text(TRUE))>>))>>,
       Nix, {})

(* The same with a C string for the key.                                   *)
OverridingByCStr == [Overriding EXCEPT !.ops[1] = ReadOp(Get("bool", "cstr", TRUE))]

(* The shape of vendorDeps: an eager call with a list that is read once.   *)
Linking ==
  Does(<< >>,
       <<ReadOp(Deep(Get("int", "cstr", FALSE))),
         MultiOp(<<Text(TRUE), Once("entries", Attrs(<<Item("cstr", Lazy)>>)), Wrap(Pathname(TRUE))>>)>>,
       Array(Once("entries", Scalar), Once("entries", Scalar)), {"entries"})

(* The shape of the constant with the library's functions.                 *)
Library ==
  Does(<< >>, << >>, Attrs(<<Item("cstr", Array(Scalar, Fun)), Item("cstr", Wrap(Fun))>>), {})

(* A result with string keys, converted from what was read.                *)
Keyed ==
  Does(<<Vec("path")>>, <<ReadOp(Get("CompactString", "cstr", FALSE))>>,
       Attrs(<<Item("str", Array(BigInt(TRUE), BigInt(FALSE))), Item("str", Text(FALSE))>>), {})

(* A map of maps.                                                          *)
KeyedTwice == [Keyed EXCEPT !.value = Attrs(<<Item("str", Keyed.value)>>)]

(* Several arguments, one of which cannot be written; a lazy result.       *)
Partial ==
  Does(<< >>, <<MultiOp(<<Pathname(TRUE), Pathname(FALSE), Scalar>>)>>, Lazy, {})

(* A lazy result in an Option is written as it is.                         *)
WrappedLazy == Does(<< >>, <<CallOp(Nix)>>, Wrap(Lazy), {})

(* A function as an argument.                                              *)
PassesFunction == Does(<< >>, <<CallOp(Array(Nix, Fun))>>, Scalar, {})

(* A merge of maps, at the top or in a map.                                *)
Merged == Counting(Attrs(<<Item("str", Scalar), Skipping(Item("cstr", Nix))>>))

Merging == Does(<< >>, << >>, Merged, {})

MergingInMap == Does(<< >>, << >>, Attrs(<<Item("str", Merged)>>), {})

SkippingInMap ==
  Does(<< >>, << >>, Attrs(<<Item("str", Attrs(<<Skipping(Item("cstr", Scalar))>>))>>), {})

(* A merge with a map on the left that conflicts.                          *)
Conflicting == Does(<< >>, << >>, Attrs(<<Item("cstr", Scalar), Item("again", Nix)>>), {})

(* Keys with a NUL, and a call with a single argument.                     *)
NulKeyed == Does(<< >>, <<ReadOp(Get("thunk", "cstr", TRUE))>>, Attrs(<<Item("nul", Scalar)>>), {})

ReadsNul == Does(<< >>, <<ReadOp(Get("thunk", "nul", TRUE))>>, Scalar, {})

TooFew == Does(<< >>, <<MultiOp(<<Scalar>>)>>, Scalar, {})

(* The first of two attribute sets is forced under a string key.           *)
DeepUnderKey == Does(<< >>, <<ReadOp(Deep(Get("thunk", "str", TRUE)))>>, Merged, {})

MCPlugins ==
  { [buildPackage |-> Overriding, jettison |-> Library],
    [buildPackage |-> OverridingByCStr, resolve |-> Keyed],
    [vendorDeps |-> Linking, partial |-> Partial],
    [resolve |-> KeyedTwice],
    [lazy |-> WrappedLazy, passes |-> PassesFunction],
    [partial |-> Partial, merging |-> Merging],
    [merging |-> MergingInMap], [skipping |-> SkippingInMap], [conflicting |-> Conflicting],
    [nul |-> NulKeyed], [nul |-> ReadsNul], [few |-> TooFew],
    [deep |-> DeepUnderKey] }

(***************************************************************************)
(* Which plugins cannot panic, from their text alone.                      *)
(***************************************************************************)
RECURSIVE Parts(_)
Parts(tree) ==
  {tree} \cup
  CASE tree.type = "wrap" -> Parts(tree.inner)
    [] tree.type \in {"attrs", "list", "once"} ->
         UNION {Parts(tree.items[n].value) : n \in DOMAIN tree.items}
    [] OTHER -> {}

(* The kinds of the keys that are looked at while an attribute set is      *)
(* written, but for what its items are.                                    *)
KeysOf(tree) ==
  IF tree.type # "attrs" THEN {}
  ELSE {tree.counts} \cup UNION {{tree.items[n].via, tree.items[n].next} : n \in DOMAIN tree.items}

HasStringKeys(tree) == KeysOf(tree) # {} /\ ~(KeysOf(tree) \subseteq {"cstr"})

ArgsOf(p) ==
  UNION {ToSet(p.ops[n].args) : n \in {k \in DOMAIN p.ops : p.ops[k].op # "read"}}

TreesOf(p) == UNION {Parts(t) : t \in ArgsOf(p) \cup {p.value}}

MCTrees == UNION {UNION {TreesOf(p[name]) : name \in DOMAIN p} : p \in MCPlugins}

NestsKeys(p) ==
  \E t \in TreesOf(p) : HasStringKeys(t) /\ \E n \in DOMAIN t.items :
    t.items[n].via = "str" /\ \E u \in Parts(t.items[n].value) : HasStringKeys(u)

StringReads(p) == {n \in DOMAIN p.ops : p.ops[n].op = "read" /\ p.ops[n].read.key = "str"}

UsesStringKey(p) == StringReads(p) # {} \/ \E t \in TreesOf(p) : HasStringKeys(t)

ForcesUnderKey(p) ==
  \E n \in StringReads(p) :
    p.ops[n].read.depth > 0 \/ Contains(StepsOf(p.ops[n].read.type.of), "force")

(* A key with a NUL, or one at which a map is merged with what overrides   *)
(* it.                                                                     *)
HasRefusedKeys(p) ==
  \/ \E t \in TreesOf(p) : KeysOf(t) \cap {"nul", "again"} # {}
  \/ \E n \in DOMAIN p.ops : p.ops[n].op = "read" /\ p.ops[n].read.key = "nul"

CallsWithTooFew(p) == \E n \in DOMAIN p.ops : p.ops[n].op = "multi" /\ Len(p.ops[n].args) < 2

PassesPrimop(p) == \E t \in ArgsOf(p) : \E u \in Parts(t) : u.type = "primop"

MayPanic ==
  \/ \E name \in DOMAIN plugin : LET p == plugin[name] IN
       NestsKeys(p) \/ PassesPrimop(p) \/ HasRefusedKeys(p) \/ CallsWithTooFew(p)
  \/ /\ \E name \in DOMAIN plugin : ForcesUnderKey(plugin[name])
     /\ \E name \in DOMAIN plugin : UsesStringKey(plugin[name])

(* A plugin panics, in whatever order Nix evaluates and whatever fails,    *)
(* only if it looks at the string keys of a map inside another, evaluates  *)
(* an attribute under a string key while some primop uses string keys, has *)
(* a key with a NUL or a map merged with what overrides it, passes a       *)
(* primop to a function, or calls with less than two arguments where two   *)
(* are asked for.  In particular a list that is read once can be written   *)
(* any number of times.                                                    *)
PanicsOnlyByKeys == outcome = "panicked" => MayPanic

(***************************************************************************)
(* Lists.                                                                  *)
(***************************************************************************)
Flat(items) ==
  {[kind |-> k, items |-> items] : k \in {"nix", "literal", "slice"}} \cup {[kind |-> "none"]}

Lists(u, v) ==
  LET one == Flat(<<u>>)  two == Flat(<<u, v>>)
      pairs == {[kind |-> "concat", left |-> l, right |-> r] : l \in one \cup two, r \in two}
  IN  two \cup pairs \cup {[kind |-> k, inner |-> t] : k \in {"some", "either", "borrowed"}, t \in pairs}

Iterators(u, v) ==
  {[kind |-> "iterator", items |-> items] : items \in {<< >>, <<u>>, <<u, v>>}}

WriteableLists ==
  LET chains == {[kind |-> "chain", left |-> l, right |-> r] :
                   l \in Iterators("1", "2"), r \in Iterators("3", "4")}
  IN  Lists("1", "2") \cup chains
      \cup {[kind |-> "concat", left |-> l, right |-> r] : l \in Lists("1", "2"), r \in Lists("3", "4")}
      \cup {[kind |-> "chained", left |-> l, right |-> r] :
              l \in chains, r \in Flat(<<"5", "6">>)}
      \cup {[kind |-> "chained", left |-> l, right |-> r] :
              l \in Flat(<<"5", "6">>), r \in chains}

(* However a list is put together, the number of items announced is the    *)
(* number that can be read, and they are the items of its parts in order.  *)
ListsAgree ==
  stack = <<EvalFrame>> => \A t \in WriteableLists : ItemsOf(Writeable(t)) = PartsInOrder(t)
================================================================================
