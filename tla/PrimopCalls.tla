------------------------------ MODULE PrimopCalls ------------------------------
(***************************************************************************)
(* A primop of the plugin, from the C callback to the error slot: its      *)
(* arguments are read, its body reads attributes and calls functions of    *)
(* Nix one operation after the other, and its result is converted, forced  *)
(* and written.  A primop is a record: "args", "ops" and "value", and      *)
(* "once", the names of the lists in it that are read once.                *)
(***************************************************************************)
EXTENDS ValueReader

(* The return value and the arguments of the calls are trees.              *)
ASSUME PluginsAssumption ==
  \A p \in Plugins : \A name \in DOMAIN p :
    /\ name \in STRING
    /\ p[name].value \in Trees
    /\ Len(p[name].ops) \in Nat
    /\ \A n \in 1..Len(p[name].ops) :
         LET op == p[name].ops[n]
         IN  /\ op.op \in {"read", "call", "multi"}
             /\ op.op # "read" => op.args \in Seq(Trees) \ {<< >>}

(***************************************************************************)
(* Callable::call: a lazy application.  A frame has the argument, the      *)
(* values allocated for the result and for the argument, and whether the   *)
(* call failed.                                                            *)
(***************************************************************************)
CallFrame(arg) ==
  [kind |-> "call", arg |-> arg, at |-> "start", dest |-> 0, arg_value |-> 0,
   failed |-> FALSE, res |-> "none"]

Calling(at) == Running("call") /\ Top.at = at

CallAllocDest ==
  /\ Calling("start")
  /\ \/ values' = alloc_value("dest") /\ stack' = WithTop([Top EXCEPT !.at = "dest", !.dest = NewValue])
     \/ UNCHANGED values /\ stack' = Pop("error")
  /\ UNCHANGED <<plugin, slots, outcome>>

(* If there is no value for the argument the one for the result is lost.   *)
CallAllocArg ==
  /\ Calling("dest")
  /\ \/ /\ values' = alloc_value("arg")
        /\ stack' = Push([Top EXCEPT !.at = "arg", !.arg_value = NewValue],
                         WriteFrame(Top.arg, NewValue, FALSE))
     \/ UNCHANGED values /\ stack' = Pop("error")
  /\ UNCHANGED <<plugin, slots, outcome>>

CallArgFails ==
  /\ Calling("arg") /\ Top.res = "error"
  /\ stack' = WithTop([Top EXCEPT !.at = "release", !.failed = TRUE])
  /\ UNCHANGED <<plugin, slots, values, outcome>>

init_apply(result) ==
  /\ Calling("arg") /\ Top.res = "ok"
  /\ with_raw(result)
  /\ values' = IF result = "ok" THEN Initialised(Top.dest, "thunk") ELSE values
  /\ stack' = WithTop([Top EXCEPT !.at = "release", !.failed = (result = "error")])
  /\ UNCHANGED <<plugin, outcome>>

(* Mutant: the argument is released only when the call succeeded.          *)
CallReleaseOnSuccess ==
  /\ Calling("release")
  /\ with_raw("ok")
  /\ values' = Released(IF Top.failed THEN {Top.dest} ELSE {Top.arg_value})
  /\ stack' = Pop(IF Top.failed THEN "error" ELSE "ok")
  /\ UNCHANGED <<plugin, outcome>>

(* The argument is released in any case, the result if the call failed.    *)
(* Each release clears the slot.                                           *)
CallRelease ==
  /\ Calling("release")
  /\ with_raw("ok")
  /\ values' = Released({Top.arg_value} \cup IF Top.failed THEN {Top.dest} ELSE {})
  /\ stack' = Pop(IF Top.failed THEN "error" ELSE "ok")
  /\ UNCHANGED <<plugin, outcome>>

Call ==
  \/ CallAllocDest \/ CallAllocArg \/ CallArgFails \/ CallRelease
  \/ \E result \in Results : init_apply(result)

(***************************************************************************)
(* Callable::call_multi: an eager call with all arguments but the last,    *)
(* then a lazy one with the last.  "written" are the arguments that are    *)
(* complete; the one being written is only known to its own frame.         *)
(***************************************************************************)
MultiFrame(args) ==
  [kind |-> "multi", args |-> args, at |-> "start", dest |-> 0, written |-> << >>,
   current |-> 0, failed |-> FALSE, res |-> "none"]

Multi(at) == Running("multi") /\ Top.at = at

(* "requires at least 2 arguments"                                         *)
MultiTooFew == Multi("start") /\ Len(Top.args) < 2 /\ Panic

MultiAllocDest ==
  /\ Multi("start")
  /\ Len(Top.args) >= 2
  /\ \/ values' = alloc_value("dest") /\ stack' = WithTop([Top EXCEPT !.at = "args", !.dest = NewValue])
     \/ UNCHANGED values /\ stack' = Pop("error")
  /\ UNCHANGED <<plugin, slots, outcome>>

MultiWriteArg ==
  /\ Multi("args") /\ Top.res = "none"
  /\ Len(Top.written) < Len(Top.args) - 1
  /\ \/ /\ values' = alloc_value("arg")
        /\ stack' = Push([Top EXCEPT !.current = NewValue],
                         WriteFrame(Top.args[Len(Top.written) + 1], NewValue, FALSE))
     \/ /\ UNCHANGED values
        /\ stack' = WithTop([Top EXCEPT !.at = "release", !.failed = TRUE])
  /\ UNCHANGED <<plugin, slots, outcome>>

MultiArgWritten ==
  /\ Multi("args") /\ Top.res = "ok"
  /\ stack' = WithTop([Top EXCEPT !.written = Append(@, Top.current), !.current = 0, !.res = "none"])
  /\ UNCHANGED <<plugin, slots, values, outcome>>

(* The value of the argument is not in args_slice[..num_written]: nobody   *)
(* releases it.                                                            *)
MultiArgFails ==
  /\ Multi("args") /\ Top.res = "error"
  /\ stack' = WithTop([Top EXCEPT !.at = "release", !.current = 0, !.failed = TRUE])
  /\ UNCHANGED <<plugin, slots, values, outcome>>

value_call_multi ==
  /\ Multi("args") /\ Top.res = "none"
  /\ Len(Top.written) = Len(Top.args) - 1
  /\ stack' = Push([Top EXCEPT !.at = "called"], EvalFrame)
  /\ UNCHANGED <<plugin, slots, values, outcome>>

MultiCalled ==
  /\ Multi("called")
  /\ values' = IF Top.res = "ok" THEN Initialised(Top.dest, "value") ELSE values
  /\ stack' = WithTop([Top EXCEPT !.at = "release", !.failed = (Top.res = "error"), !.res = "none"])
  /\ UNCHANGED <<plugin, slots, outcome>>

(* The complete arguments are released, and the result if the call failed. *)
MultiRelease ==
  LET released == {Top.written[j] : j \in DOMAIN Top.written}
                  \cup IF Top.failed THEN {Top.dest} ELSE {}
  IN  /\ Multi("release")
      /\ with_raw("ok")
      /\ values' = Released(released)
      /\ stack' = IF Top.failed THEN Pop("error")
                  ELSE WithTop([Top EXCEPT !.at = "lambda", !.written = << >>])
      /\ UNCHANGED <<plugin, outcome>>

(* NixLambda::try_from_value of the result, which is evaluated already;    *)
(* then the last argument is written by the lambda's own call.             *)
MultiCallLast ==
  /\ Multi("lambda")
  /\ with_raw("ok")
  /\ \/ stack' = WithTop(CallFrame(Top.args[Len(Top.args)]))
     \/ stack' = Pop("error")
  /\ UNCHANGED <<plugin, values, outcome>>

CallMulti ==
  \/ MultiTooFew \/ MultiAllocDest \/ MultiWriteArg \/ MultiArgWritten \/ MultiArgFails
  \/ value_call_multi \/ MultiCalled \/ MultiRelease \/ MultiCallLast

(***************************************************************************)
(* The primop: PrimOpImpl::call.                                           *)
(***************************************************************************)
This == plugin[Top.name]

At(at) == Running("primop") /\ Top.at = at /\ Top.res # "error"

(* ArgsList::get for each argument, in order.                              *)
from_raw ==
  /\ At("args")
  /\ stack' = IF Top.i = Len(This.args)
              THEN WithTop([Top EXCEPT !.at = "ops", !.i = 0, !.res = "none"])
              ELSE Push([Top EXCEPT !.i = @ + 1, !.res = "none"], ReadFrame(This.args[Top.i + 1]))
  /\ UNCHANGED <<plugin, slots, values, outcome>>

(* Function::call, one operation after the other.                          *)
OpFrame(op) ==
  CASE op.op = "read"  -> ReadFrame(op.read)
    [] op.op = "call"  -> CallFrame(op.args[1])
    [] op.op = "multi" -> MultiFrame(op.args)

Body ==
  /\ At("ops")
  /\ stack' = IF Top.i = Len(This.ops)
              THEN WithTop([Top EXCEPT !.at = "value", !.res = "none"])
              ELSE Push([Top EXCEPT !.i = @ + 1, !.res = "none"], OpFrame(This.ops[Top.i + 1]))
  /\ UNCHANGED <<plugin, slots, values, outcome>>

(* Function::call returned; a Result may be an error of the plugin.        *)
try_into_value ==
  /\ At("value")
  /\ \/ stack' = WithTop([Top EXCEPT !.at = "force"])
     \/ This.fallible /\ stack' = WithTop([Top EXCEPT !.res = "error"])
  /\ UNCHANGED <<plugin, slots, values, outcome>>

(* Value::force_inline does nothing for most values; Nix's values and      *)
(* thunks forward it, wrappers do not.                                     *)
force_inline ==
  /\ At("force")
  /\ stack' = IF This.value.type \in {"nix", "thunk"}
              THEN Push([Top EXCEPT !.at = "write"], EvalFrame)
              ELSE WithTop([Top EXCEPT !.at = "write"])
  /\ UNCHANGED <<plugin, slots, values, outcome>>

(* A thunk that was forced is copied as a value.                           *)
Forced(tree) == IF tree.type = "thunk" THEN [type |-> "nix"] ELSE tree

WriteReturn ==
  /\ At("write")
  /\ stack' = Push([Top EXCEPT !.at = "return", !.res = "none"],
                   WriteFrame(Forced(This.value), Top.ret, TRUE))
  /\ UNCHANGED <<plugin, slots, values, outcome>>

(* Mutant: whoever failed is expected to have left its error in the slot.  *)
set_err_msg_missing ==
  /\ Running("primop") /\ Top.res = "error" /\ ~Top.failed
  /\ stack' = WithTop([Top EXCEPT !.at = "return", !.failed = TRUE])
  /\ UNCHANGED <<plugin, slots, values, outcome>>

(* Any error of the body, wherever it comes from, goes into the slot.      *)
set_err_msg ==
  /\ Running("primop") /\ Top.res = "error" /\ ~Top.failed
  /\ with_raw("error")
  /\ stack' = WithTop([Top EXCEPT !.at = "return", !.failed = TRUE])
  /\ UNCHANGED <<plugin, values, outcome>>

Returning ==
  Running("primop") /\ Top.at = "return" /\ (Top.res = "ok" \/ Top.failed)

(* Nix looks at the slot of the call only.                                 *)
PrimopReturns ==
  /\ Returning
  /\ stack' = Pop(slots[Len(slots)])
  /\ slots' = SubSeq(slots, 1, Len(slots) - 1)
  /\ UNCHANGED <<plugin, values, outcome>>

Primop ==
  \/ from_raw \/ Body \/ try_into_value \/ force_inline
  \/ WriteReturn \/ set_err_msg \/ PrimopReturns

Next ==
  Eval \/ Read \/ Write \/ Call \/ CallMulti \/ Primop

Spec == Init /\ [][Next]_vars

(***************************************************************************)
(* Properties.                                                             *)
(***************************************************************************)
Some(v) == {v} \ {0}

HeldBy(frame) ==
  CASE frame.kind = "primop" -> {frame.ret}
    [] frame.kind = "write"  -> {frame.dest} \cup Some(frame.item)
    [] frame.kind = "call"   -> Some(frame.dest) \cup Some(frame.arg_value)
    [] frame.kind = "multi"  -> Some(frame.dest) \cup Some(frame.current) \cup ToSet(frame.written)
    [] OTHER -> {}

Held == UNION {HeldBy(stack[j]) : j \in DOMAIN stack}

(* Whatever fails, and wherever, no value is released twice or while a     *)
(* frame still uses it, and an argument that was completely written is     *)
(* released by the time its call is over.                                  *)
ReleasedOnce ==
  \A v \in DOMAIN values :
    /\ values[v].refs \in {0, 1}
    /\ v \in Held => values[v].refs = 1
    /\ values[v].role = "arg" /\ values[v].state # "uninit" /\ v \notin Held
         => values[v].refs = 0

(* The value a frame is to initialise, or have Nix initialise.             *)
DueBy(frame) ==
  CASE frame.kind = "write" -> {frame.dest}
    [] frame.kind = "call" /\ frame.at \in {"dest", "arg"}     -> {frame.dest}
    [] frame.kind = "multi" /\ frame.at \in {"args", "called"} -> {frame.dest}
    [] OTHER -> {}

(* "The caller must ensure that the `dest` points to a value that has been *)
(* allocated but *not* yet initialized": Value::write says so of its own   *)
(* callers, which are as many as there are values with parts, and Nix of   *)
(* init_apply and value_call_multi.  Nobody checks it.  The value may not  *)
(* have been released either, and nobody else is about to initialise it.   *)
InitialisedOnce ==
  \A j \in DOMAIN stack : \A v \in DueBy(stack[j]) :
    /\ v \in DOMAIN values
    /\ values[v].state = "uninit" /\ values[v].refs = 1
    /\ \A k \in DOMAIN stack : v \in DueBy(stack[k]) => k = j

(* What Nix sees of a call is what happened in it: the slot has an error   *)
(* exactly when some step of the call failed, though errors in the slot    *)
(* are cleared by later calls into Nix and errors of the plugin never were *)
(* there; without one the return value is written, and only a value that   *)
(* was wrapped can still be a thunk, which Nix refuses.                    *)
PrimopOutcome ==
  outcome = "running" /\ Returning =>
    /\ (slots[Len(slots)] = "error") <=> Top.failed
    /\ Top.failed <=> values[Top.ret].state = "uninit"
    /\ values[Top.ret].state = "thunk" => This.value.type = "wrap"
================================================================================
