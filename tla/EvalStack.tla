------------------------------- MODULE EvalStack -------------------------------
(***************************************************************************)
(* The evaluator and the plugin call each other on one stack: Nix calls a  *)
(* primop, the primop asks Nix to evaluate something, and that may call    *)
(* another primop.  This module has the stack, the values that are         *)
(* allocated, the error slot of every primop call (Nix makes a new         *)
(* c_context for each), and what Nix does while it is on top.              *)
(***************************************************************************)
EXTENDS Integers, Sequences

CONSTANTS Plugins,   \* the plugins considered: from a primop's name to what it does
          MaxDepth   \* how many primop calls may be nested

ASSUME DepthAssumption == MaxDepth \in Nat

VARIABLES plugin,    \* the primops of this plugin
          stack,     \* the frames, the running one last; "res" is what the one above returned
          slots,     \* the error slot of each primop call, the running one last
          values,    \* every value allocated so far
          outcome    \* "running", "panicked", or "finished"

vars == <<plugin, stack, slots, values, outcome>>

Top == stack[Len(stack)]

Running(kind) == outcome = "running" /\ Top.kind = kind

WithTop(frame) == [stack EXCEPT ![Len(stack)] = frame]

Push(frame, callee) == Append(WithTop(frame), callee)

(* The running frame returns res to the one that called it.                *)
Pop(res) ==
  [SubSeq(stack, 1, Len(stack) - 1) EXCEPT ![Len(stack) - 1].res = res]

Panic == outcome' = "panicked" /\ UNCHANGED <<plugin, stack, slots, values>>

(***************************************************************************)
(* The context of the running primop.                                      *)
(***************************************************************************)
(* with_raw and with_ptr: Nix clears the slot, does its work, and leaves   *)
(* an error there if it fails; check_err then turns it into a Result.      *)
with_raw(result) == slots' = [slots EXCEPT ![Len(slots)] = result]

Results == {"ok", "error"}

(***************************************************************************)
(* Values.  A value is named by its position; one that nobody references   *)
(* may be reclaimed by Nix.                                                *)
(***************************************************************************)
NewValue == Len(values) + 1

alloc_value(role) ==
  Append(values, [state |-> "uninit", refs |-> 1, role |-> role])

Initialised(v, state) == [values EXCEPT ![v].state = state]

(* value_decref, for each of the given values.                             *)
Released(vs) ==
  [v \in DOMAIN values |->
     [values[v] EXCEPT !.refs = IF v \in vs THEN @ - 1 ELSE @]]

(***************************************************************************)
(* Nix on top of the stack: it evaluates whatever it was asked for.  An    *)
(* evaluation enters at most one primop: a bound of the model.             *)
(***************************************************************************)
EvalFrame == [kind |-> "eval", entered |-> FALSE, res |-> "none"]

PrimopFrame(name, ret) ==
  [kind |-> "primop", name |-> name, at |-> "args", i |-> 0, ret |-> ret,
   once |-> [id \in plugin[name].once |-> "fresh"], failed |-> FALSE, res |-> "none"]

EvalEnters(name) ==
  /\ Running("eval")
  /\ ~Top.entered
  /\ Len(slots) < MaxDepth
  /\ values' = alloc_value("ret")
  /\ slots' = Append(slots, "ok")
  /\ stack' = Push([Top EXCEPT !.entered = TRUE], PrimopFrame(name, NewValue))
  /\ UNCHANGED <<plugin, outcome>>

(* The C API catches what Nix throws and puts it into the slot.  An error  *)
(* of the primop is an error of the evaluation.                            *)
EvalReturns(result) ==
  /\ Running("eval")
  /\ Len(slots) > 0
  /\ Top.res = "error" => result = "error"
  /\ with_raw(result)
  /\ stack' = Pop(result)
  /\ UNCHANGED <<plugin, values, outcome>>

(* The evaluation Nix was started for is over.                             *)
EvalEnds ==
  /\ Running("eval")
  /\ Len(slots) = 0
  /\ Top.entered
  /\ outcome' = "finished"
  /\ UNCHANGED <<plugin, stack, slots, values>>

Init ==
  /\ plugin \in Plugins
  /\ stack = <<EvalFrame>>
  /\ slots = << >>
  /\ values = << >>
  /\ outcome = "running"

Eval ==
  \/ \E name \in DOMAIN plugin : EvalEnters(name)
  \/ \E result \in Results : EvalReturns(result)
  \/ EvalEnds
================================================================================
