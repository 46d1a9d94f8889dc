------------------------------ MODULE ValueReader ------------------------------
(***************************************************************************)
(* TryFromValue: how a value of Nix becomes a value of the plugin.  What   *)
(* is read is described by "of", the Rust type; a Vec also has the type of *)
(* its items and a struct the reads of its fields.  A read asks for a type *)
(* under a key: "none" (the value itself) or one of the first KeyKinds,    *)
(* behind "depth" attribute sets, and says if the attribute may be         *)
(* missing.  A frame has the steps that are left, and then the parts.      *)
(***************************************************************************)
EXTENDS ValueWriter

CONSTANT MaxItems   \* how many items a list that is read may have

(***************************************************************************)
(* The steps each type takes, in order.  "force" evaluates the value,      *)
(* "kind" compares its kind, "string" reads it through the C API, and      *)
(* "convert" is a conversion to a narrower type.                           *)
(***************************************************************************)
read_thunk == << >>

read_bool == <<"force", "kind">>

read_int == <<"force", "kind", "convert">>

read_string == <<"force", "kind", "string", "convert">>

read_compact_string == <<"force", "kind", "string", "convert">>

read_path == <<"force", "kind">>

read_attrset == <<"force", "kind">>

read_list == <<"force", "kind">>

StepsOf(of) ==
  CASE of = "thunk" -> read_thunk
    [] of = "bool" -> read_bool
    [] of = "int" -> read_int
    [] of = "string" -> read_string
    [] of = "CompactString" -> read_compact_string
    [] of = "path" -> read_path
    [] of = "struct" -> read_attrset
    [] of = "vec" -> read_list

(* get_nested: the attribute sets on the way are read like any other, each *)
(* while its own key is held.                                              *)
get_nested(type, depth) ==
  FlattenSeq([d \in 1..depth |-> <<"find">> \o read_attrset])
  \o <<"find">> \o StepsOf(type.of)

ReadFrame(read) ==
  [kind |-> "read", type |-> read.type, key |-> read.key, optional |-> read.optional,
   steps |-> IF read.key = "none" THEN StepsOf(read.type.of)
             ELSE get_nested(read.type, read.depth),
   at |-> "steps", parts |-> << >>, res |-> "none"]

Reading(step) ==
  /\ Running("read") /\ Top.at = "steps" /\ Top.res = "none"
  /\ Top.steps # << >> /\ Head(Top.steps) = step

NextStep == stack' = WithTop([Top EXCEPT !.steps = Tail(@)])

ReadEnds(result) == stack' = Pop(result)

(***************************************************************************)
(* One step.                                                               *)
(***************************************************************************)
(* get_single: an attribute that is missing is None, and None is an error  *)
(* or a default.                                                           *)
Find ==
  /\ Reading("find")
  /\ ~KeyRefused(Top.key)
  /\ \/ NextStep
     \/ ReadEnds(IF Top.optional THEN "ok" ELSE "error")
  /\ UNCHANGED <<plugin, slots, values, outcome>>

FindPanics ==
  /\ Reading("find")
  /\ KeyRefused(Top.key)
  /\ Panic

ForceValue ==
  /\ Reading("force")
  /\ stack' = Push([Top EXCEPT !.steps = Tail(@)], EvalFrame)
  /\ UNCHANGED <<plugin, slots, values, outcome>>

(* A mismatch is an error of the plugin: the slot is not touched.          *)
Check ==
  /\ Reading("kind") \/ Reading("convert")
  /\ NextStep \/ ReadEnds("error")
  /\ UNCHANGED <<plugin, slots, values, outcome>>

with_string(result) ==
  /\ Reading("string")
  /\ with_raw(result)
  /\ IF result = "ok" THEN NextStep ELSE ReadEnds("error")
  /\ UNCHANGED <<plugin, values, outcome>>

(* An evaluation, or a part, ended.                                        *)
ReadGoesOn ==
  /\ Running("read") /\ Top.res = "ok"
  /\ stack' = WithTop([Top EXCEPT !.res = "none"])
  /\ UNCHANGED <<plugin, slots, values, outcome>>

ReadFails ==
  /\ Running("read") /\ Top.res = "error"
  /\ ReadEnds("error")
  /\ UNCHANGED <<plugin, slots, values, outcome>>

(***************************************************************************)
(* The parts: the fields of a struct, the items of a list.                 *)
(***************************************************************************)
(* from derive(TryFromValue)                                               *)
try_from_attrset(type) == {type.fields}

(* Vec::try_from_value: the length is the list's.                          *)
vec_try_from_value(type) ==
  {[i \in 1..n |-> [type |-> type.item, key |-> "none", depth |-> 0, optional |-> FALSE]] :
     n \in 0..MaxItems}

PartsOf(type) ==
  CASE type.of = "struct" -> try_from_attrset(type)
    [] type.of = "vec" -> vec_try_from_value(type)
    [] OTHER -> {<< >>}

ReadParts ==
  /\ Running("read") /\ Top.at = "steps" /\ Top.res = "none" /\ Top.steps = << >>
  /\ \E parts \in PartsOf(Top.type) :
       stack' = WithTop([Top EXCEPT !.at = "parts", !.parts = parts])
  /\ UNCHANGED <<plugin, slots, values, outcome>>

ReadPart ==
  /\ Running("read") /\ Top.at = "parts" /\ Top.res = "none"
  /\ stack' = IF Top.parts = << >> THEN Pop("ok")
              ELSE Push([Top EXCEPT !.parts = Tail(@)], ReadFrame(Head(Top.parts)))
  /\ UNCHANGED <<plugin, slots, values, outcome>>

Read ==
  \/ Find \/ FindPanics \/ ForceValue \/ Check
  \/ \E result \in Results : with_string(result)
  \/ ReadGoesOn \/ ReadFails \/ ReadParts \/ ReadPart
================================================================================
