------------------------------ MODULE ValueWriter ------------------------------
(***************************************************************************)
(* Value::write: how a value of the plugin becomes a value of Nix.  A      *)
(* value is a tree: [type] and                                             *)
(*   "scalar"   initialised by one call into Nix                           *)
(*   "text"     the same, after a conversion that refuses a NUL ("fits")   *)
(*   "bigint"   the same, after a conversion to 64 bits ("fits")           *)
(*   "path"     a NUL is refused, the rest cannot fail                     *)
(*   "nix"      a value of Nix, copied; "thunk" one not evaluated yet      *)
(*   "primop"   a function of the plugin                                   *)
(*   "wrap"     an Option, Either, Cow or borrow around "inner"            *)
(*   "attrs", "list"   with "items", each with a key, a value, the kind of *)
(*              the key ("via") and of those that are looked at to get to  *)
(*              the next item ("next"); an attribute set also has the kind *)
(*              of those looked at to count the items ("counts")           *)
(*   "once"     a list read from an iterator, named by "id"                *)
(* A frame writes "tree" to "dest"; "i" items are done and "item" is being *)
(* written.                                                                *)
(***************************************************************************)
EXTENDS EvalStack, SequencesExt

CONSTANT Trees   \* the values the plugins write, with all their parts

Collections == {"attrs", "list"}

(* What a key asks for: a C string nothing; a Rust string, "str", to be     *)
(* copied into a buffer of the thread; "nul" has a byte that is zero; and   *)
(* "again" is a string looked up while a string key is in the buffer, as a  *)
(* merge does at a conflict (AttrsetPairs has the merges).                  *)
KeyKinds == {"cstr", "str", "nul", "again"}

ASSUME TreesAssumption ==
  \A tree \in Trees :
    /\ tree.type \in {"scalar", "text", "bigint", "path", "nix", "thunk", "primop",
                       "wrap", "attrs", "list", "once"}
    /\ tree.type = "wrap" => tree.inner \in Trees
    /\ tree.type \in Collections \cup {"once"} =>
         tree.items \in Seq([via : KeyKinds, next : KeyKinds, value : Trees])
    /\ tree.type = "attrs" => tree.counts \in KeyKinds

(* "named" says if a primop may be written here: there is a namespace for   *)
(* its name, and none under write_no_primop.                                *)
WriteFrame(tree, dest, named) ==
  [kind |-> "write", tree |-> tree, dest |-> dest, named |-> named,
   at |-> "start", i |-> 0, item |-> 0, res |-> "none"]

Writing(types, at) ==
  Running("write") /\ Top.tree.type \in types /\ Top.at = at /\ Top.res = "none"

(***************************************************************************)
(* Keys.  A key that is a Rust string is copied into a buffer of the       *)
(* thread, which stays borrowed until the item of the key is written.      *)
(***************************************************************************)
HoldsKey(frame) ==
  \/ frame.kind = "write" /\ frame.at = "item" /\ frame.tree.items[frame.i + 1].via = "str"
  \/ frame.kind = "read" /\ frame.key = "str"
       /\ (frame.steps = << >> \/ Head(frame.steps) # "find")

(* By a frame below the running one, which is not done with its key.        *)
KeyBorrowed == \E j \in 1..Len(stack) - 1 : HoldsKey(stack[j])

(* with_cstr of a key refuses a NUL, and cannot borrow the buffer twice.    *)
KeyRefused(kind) == kind = "nul" \/ (kind \in {"str", "again"} /\ KeyBorrowed)

(* The same, if the key is looked up under another right away.              *)
LookupPanics(kind) == kind = "again" \/ KeyRefused(kind)

(***************************************************************************)
(* Values without parts.                                                   *)
(***************************************************************************)
(* Nothing was converted or Nix refused; nothing else changes.             *)
WriteEnds(result) ==
  /\ stack' = Pop(result)
  /\ values' = IF result = "ok" THEN Initialised(Top.dest, "value") ELSE values
  /\ UNCHANGED <<plugin, outcome>>

WriteScalar(result) ==
  /\ Writing({"scalar"}, "start")
  /\ with_raw(result)
  /\ WriteEnds(result)

WriteText(result) ==
  /\ Writing({"text"}, "start")
  /\ Top.tree.fits
  /\ with_raw(result)
  /\ WriteEnds(result)

(* CString::new failed: the slot is not touched.                           *)
TextRefused ==
  /\ Writing({"text", "path"}, "start")
  /\ ~Top.tree.fits
  /\ WriteEnds("error")
  /\ UNCHANGED slots

WriteBigInt(result) ==
  /\ Writing({"bigint"}, "start")
  /\ IF Top.tree.fits THEN with_raw(result)
     ELSE result = "error" /\ UNCHANGED slots
  /\ WriteEnds(result)

WritePath ==
  /\ Writing({"path"}, "start")
  /\ Top.tree.fits
  /\ WriteEnds("ok")
  /\ UNCHANGED slots

(* NixValue, and everything that holds one: copied without a context.      *)
WriteCopy ==
  /\ Writing({"nix", "thunk"}, "start")
  /\ stack' = Pop("ok")
  /\ values' = Initialised(Top.dest, IF Top.tree.type = "thunk" THEN "thunk" ELSE "value")
  /\ UNCHANGED <<plugin, slots, outcome>>

WriteWrapped ==
  /\ Writing({"wrap"}, "start")
  /\ stack' = WithTop([Top EXCEPT !.tree = Top.tree.inner])
  /\ UNCHANGED <<plugin, slots, values, outcome>>

(* Context::write_primop: PrimOp::alloc with the namespace, which has to   *)
(* be one that can be shown, init_primop, gc_decref of the primop.  The    *)
(* last clears the slot: the error of the second is carried by the Result. *)
write_primop ==
  /\ Writing({"primop"}, "start")
  /\ IF ~Top.named THEN Panic
     ELSE \/ with_raw("error") /\ WriteEnds("error")
          \/ \E result \in Results : with_raw("ok") /\ WriteEnds(result)

(***************************************************************************)
(* Attribute sets and lists: an item is allocated and written before it is *)
(* inserted; the first error ends the write and leaves the builder.        *)
(***************************************************************************)
(* Attrset::len comes first, and Attrset::pairs.                           *)
CountPanics(tree) == tree.type = "attrs" /\ LookupPanics(tree.counts)

(* make_attrset_builder, make_list_builder                                 *)
MakeBuilder ==
  /\ Writing(Collections, "start")
  /\ ~CountPanics(Top.tree)
  /\ \/ stack' = WithTop([Top EXCEPT !.at = "items"])
     \/ stack' = Pop("error")
  /\ UNCHANGED <<plugin, slots, values, outcome>>

NextItem == Top.tree.items[Top.i + 1]

WriteItem ==
  /\ Writing(Collections, "items")
  /\ Top.i < Len(Top.tree.items)
  /\ ~LookupPanics(NextItem.via)
  /\ values' = alloc_value("item")
  /\ stack' = Push([Top EXCEPT !.at = "item", !.item = NewValue],
                   WriteFrame(NextItem.value, NewValue, Top.named))
  /\ UNCHANGED <<plugin, slots, outcome>>

ItemAllocFails ==
  /\ Writing(Collections, "items")
  /\ Top.i < Len(Top.tree.items)
  /\ ~KeyRefused(NextItem.via)
  /\ stack' = Pop("error")
  /\ UNCHANGED <<plugin, slots, values, outcome>>

KeyPanics ==
  /\ \/ Writing(Collections, "start") /\ CountPanics(Top.tree)
     \/ /\ Writing(Collections, "items")
        /\ Top.i < Len(Top.tree.items)
        /\ LookupPanics(NextItem.via)
     \/ /\ Running("write") /\ Top.at = "item" /\ Top.res = "ok"
        /\ LookupPanics(NextItem.next)
  /\ Panic

(* The key is released; Pairs::advance.                                    *)
ItemWritten ==
  /\ Running("write") /\ Top.at = "item" /\ Top.res = "ok"
  /\ ~LookupPanics(NextItem.next)
  /\ stack' = WithTop([Top EXCEPT !.at = "items", !.item = 0, !.i = @ + 1, !.res = "none"])
  /\ UNCHANGED <<plugin, slots, values, outcome>>

ItemFails ==
  /\ Running("write") /\ Top.at = "item" /\ Top.res = "error"
  /\ stack' = Pop("error")
  /\ UNCHANGED <<plugin, slots, values, outcome>>

BuildCollection ==
  /\ Writing(Collections, "items")
  /\ Top.i = Len(Top.tree.items)
  /\ WriteEnds("ok")
  /\ UNCHANGED slots

(***************************************************************************)
(* A list that is read once: the first write makes a value of Nix from it, *)
(* and every write copies that value, or repeats its error.                *)
(***************************************************************************)
ThisPrimop ==
  CHOOSE j \in DOMAIN stack :
    /\ stack[j].kind = "primop"
    /\ \A k \in DOMAIN stack : k > j => stack[k].kind # "primop"

IterState(id) == stack[ThisPrimop].once[id]

WithIter(frames, id, state) == [frames EXCEPT ![ThisPrimop].once[id] = state]

(* Mutant: the first write goes where it is wanted, and the value is kept. *)
OnceTakeInPlace ==
  /\ Writing({"once"}, "start")
  /\ IterState(Top.tree.id) = "fresh"
  /\ stack' = WithIter(Push([Top EXCEPT !.at = "list", !.item = Top.dest],
                            WriteFrame([type |-> "list", items |-> Top.tree.items],
                                       Top.dest, Top.named)),
                       Top.tree.id, "taken")
  /\ UNCHANGED <<plugin, slots, values, outcome>>

OnceTake ==
  /\ Writing({"once"}, "start")
  /\ IterState(Top.tree.id) = "fresh"
  /\ values' = alloc_value("once")
  /\ stack' = WithIter(Push([Top EXCEPT !.at = "list", !.item = NewValue],
                            WriteFrame([type |-> "list", items |-> Top.tree.items],
                                       NewValue, Top.named)),
                       Top.tree.id, "taken")
  /\ UNCHANGED <<plugin, slots, outcome>>

(* The iterator is put back: a later write may succeed.                    *)
OnceAllocFails ==
  /\ Writing({"once"}, "start")
  /\ IterState(Top.tree.id) = "fresh"
  /\ stack' = Pop("error")
  /\ UNCHANGED <<plugin, slots, values, outcome>>

(* Mutant: the result of the first write is not kept.                      *)
OnceFinishForgotten(result) ==
  /\ Running("write") /\ Top.at = "list" /\ Top.res = result
  /\ stack' = Pop(result)
  /\ values' = IF result = "ok" THEN Initialised(Top.dest, "value")
               ELSE Released({Top.item})
  /\ UNCHANGED <<plugin, slots, outcome>>

OnceFinish(result) ==
  /\ Running("write") /\ Top.at = "list" /\ Top.res = result
  /\ stack' = WithIter(Pop(result), Top.tree.id, result)
  /\ values' = IF result = "ok" THEN Initialised(Top.dest, "value")
               ELSE Released({Top.item})
  /\ UNCHANGED <<plugin, slots, outcome>>

(* "if the iterator has been taken ... the result must've been set"        *)
OnceAgain ==
  /\ Writing({"once"}, "start")
  /\ \/ IterState(Top.tree.id) = "taken" /\ Panic
     \/ \E result \in Results :
          IterState(Top.tree.id) = result /\ WriteEnds(result) /\ UNCHANGED slots

Write ==
  \/ \E result \in Results :
       WriteScalar(result) \/ WriteText(result) \/ WriteBigInt(result) \/ OnceFinish(result)
  \/ TextRefused \/ WritePath \/ WriteCopy \/ WriteWrapped \/ write_primop
  \/ MakeBuilder \/ WriteItem \/ ItemAllocFails \/ KeyPanics
  \/ ItemWritten \/ ItemFails \/ BuildCollection
  \/ OnceTake \/ OnceAllocFails \/ OnceAgain
================================================================================
