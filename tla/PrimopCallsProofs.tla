--------------------------- MODULE PrimopCallsProofs ---------------------------
(***************************************************************************)
(* Proofs about PrimopCalls, for every plugin, every depth of calls and    *)
(* every failure.  The invariant has three parts: how the frames of the    *)
(* stack fit together, who owns the values, and what the error slots say.  *)
(***************************************************************************)
EXTENDS PrimopCalls, FiniteSetTheorems, TLAPS

(***************************************************************************)
(* One frame.                                                              *)
(***************************************************************************)
Returns == {"none", "ok", "error"}

(* A list that is written for an iterator is not a tree of its own.        *)
Wellformed(tree) ==
  \/ tree \in Trees
  \/ tree = [type |-> "nix"]
  \/ \E inner \in Trees : inner.type = "once" /\ tree = [type |-> "list", items |-> inner.items]

EvalOK(f) ==
  /\ DOMAIN f = {"kind", "entered", "res"}
  /\ f.entered \in BOOLEAN
  /\ f.res # "none" => f.entered

ReadOK(f) ==
  DOMAIN f = {"kind", "type", "key", "optional", "steps", "at", "parts", "res"}

(* An item of a collection is being written, or none is.                   *)
WriteOK(f) ==
  /\ DOMAIN f = {"kind", "tree", "dest", "named", "at", "i", "item", "res"}
  /\ Wellformed(f.tree)
  /\ f.i \in Nat
  /\ f.at \in {"start", "items", "item", "list"}
  /\ f.at = "start" => f.i = 0
  /\ f.at \in {"start", "items"} => f.item = 0 /\ f.res = "none"
  /\ f.at \in {"item", "list"} => f.item # 0
  /\ f.at \in {"items", "item"} => f.tree.type \in Collections /\ f.i <= Len(f.tree.items)
  /\ f.at = "item" => f.i < Len(f.tree.items)

CallOK(f) ==
  /\ DOMAIN f = {"kind", "arg", "at", "dest", "arg_value", "failed", "res"}
  /\ f.arg \in Trees
  /\ f.at \in {"start", "dest", "arg", "release"}
  /\ f.at \in {"start", "dest"} => f.arg_value = 0 /\ f.res = "none"
  /\ f.at \in {"arg", "release"} => f.arg_value # 0
  /\ f.at = "start" <=> f.dest = 0
  /\ f.failed \in BOOLEAN
  /\ f.failed => f.at = "release"

MultiOK(f) ==
  /\ DOMAIN f = {"kind", "args", "at", "dest", "written", "current", "failed", "res"}
  /\ f.args \in Seq(Trees) \ {<< >>}
  /\ f.written \in Seq(Nat \ {0})
  /\ f.at \in {"start", "args", "called", "release", "lambda"}
  /\ f.at = "start" => f.current = 0 /\ f.res = "none"
  /\ f.at \in {"start", "lambda"} => f.written = << >>
  /\ f.at = "start" <=> f.dest = 0
  /\ f.current \notin ToSet(f.written)
  /\ f.at = "args" /\ f.res # "none" => f.current # 0
  /\ f.failed \in BOOLEAN
  /\ f.failed => f.at = "release"

PrimopOK(p, f) ==
  /\ DOMAIN f = {"kind", "name", "at", "i", "ret", "once", "failed", "res"}
  /\ f.name \in DOMAIN p
  /\ f.at \in {"args", "ops", "value", "force", "write", "return"}
  /\ f.at = "ops" => f.i \in 0..Len(p[f.name].ops)
  /\ f.at = "value" => f.res # "ok"
  /\ f.at = "force" => f.res = "none"
  /\ f.ret # 0
  /\ f.failed \in BOOLEAN
  /\ f.failed => f.at = "return" /\ f.res = "error"

FrameOK(p, f) ==
  /\ f.res \in Returns
  /\ \/ f.kind = "eval" /\ EvalOK(f)
     \/ f.kind = "read" /\ ReadOK(f)
     \/ f.kind = "write" /\ WriteOK(f)
     \/ f.kind = "call" /\ CallOK(f)
     \/ f.kind = "multi" /\ MultiOK(f)
     \/ f.kind = "primop" /\ PrimopOK(p, f)

(***************************************************************************)
(* A frame and the one it called.                                          *)
(***************************************************************************)
(* The value a frame has the one it calls write.                           *)
GivenValue(f) ==
  CASE f.kind = "primop" -> f.ret
    [] f.kind = "write"  -> f.item
    [] f.kind = "call"   -> f.arg_value
    [] f.kind = "multi"  -> f.current

WritesFor(f, g) ==
  /\ g.kind = "write"
  /\ g.dest = GivenValue(f)

ReturnTree(p, f, tree) ==
  tree = Forced(p[f.name].value) \/ p[f.name].value.type = "wrap"

Called(p, f, g) ==
  CASE f.kind = "eval"  -> f.entered /\ g.kind = "primop"
    [] f.kind = "read"  -> g.kind \in {"eval", "read"}
    [] f.kind = "write" -> f.at \in {"item", "list"} /\ WritesFor(f, g)
    [] f.kind = "call"  -> f.at = "arg" /\ WritesFor(f, g)
    [] f.kind = "multi" -> \/ f.at = "args" /\ f.current # 0 /\ WritesFor(f, g)
                           \/ f.at = "called" /\ g.kind = "eval"
    [] OTHER            -> \/ f.at \in {"args", "ops"} /\ g.kind \in {"read", "call", "multi"}
                           \/ f.at = "write" /\ g.kind = "eval"
                           \/ /\ f.at = "return" /\ ~f.failed
                              /\ WritesFor(f, g) /\ ReturnTree(p, f, g.tree)

(* A frame that waits has no result yet.                                   *)
Waits(p, f, g) == f.res = "none" /\ Called(p, f, g)

IsStack(s) == \E S : s \in Seq(S)

Shape(p, s) ==
  /\ IsStack(s)
  /\ Len(s) > 0
  /\ s[1].kind = "eval"
  /\ \A j \in 1..Len(s) : FrameOK(p, s[j])
  /\ \A j \in 1..(Len(s) - 1) : Waits(p, s[j], s[j + 1])

(***************************************************************************)
(* The values.                                                             *)
(***************************************************************************)
ArgumentsOf(f) ==
  CASE f.kind = "call"  -> Some(f.arg_value)
    [] f.kind = "multi" -> Some(f.current) \cup ToSet(f.written)
    [] OTHER            -> {}

OthersOf(f) ==
  CASE f.kind = "primop" -> {f.ret}
    [] f.kind = "write"  -> Some(f.item)
    [] f.kind \in {"call", "multi"} -> Some(f.dest)
    [] OTHER             -> {}

Owns(f) == ArgumentsOf(f) \cup OthersOf(f)

(* The value a frame has written or waits for.                             *)
PendingOf(f) ==
  CASE f.kind = "primop" -> {f.ret}
    [] f.kind = "write"  -> Some(f.item)
    [] f.kind = "call"   -> IF f.at = "arg" THEN Some(f.arg_value) ELSE {}
    [] f.kind = "multi"  -> Some(f.current)
    [] OTHER             -> {}

IsWritten(f) ==
  /\ f.res = "ok"
  /\ \/ f.kind \in {"write", "call"}
     \/ f.kind = "multi" /\ f.at = "args"
     \/ f.kind = "primop" /\ f.at = "return"

Value == [state : {"uninit", "value", "thunk"}, refs : {0, 1},
          role : {"ret", "item", "once", "arg", "dest"}]

(* No value has two owners.                                                *)
Owned(s, vs) ==
  /\ \A j \in 1..Len(s) :
       /\ Owns(s[j]) \subseteq 1..Len(vs)
       /\ \A v \in ArgumentsOf(s[j]) : vs[v].refs = 1 /\ vs[v].role = "arg"
       /\ \A v \in OthersOf(s[j]) : vs[v].refs = 1 /\ vs[v].role # "arg"
  /\ \A j, k \in 1..Len(s) :
       Owns(s[j]) \cap Owns(s[k]) # {} => j = k

(* A value is initialised when its frame is told so.                       *)
Pending(s, vs) ==
  \A j \in 1..Len(s) : \A v \in PendingOf(s[j]) :
    vs[v].state = "uninit" <=> ~IsWritten(s[j])

(* An argument nobody owns was never written, or is released.              *)
Unowned(s, vs) ==
  \A v \in 1..Len(vs) :
    vs[v].role = "arg" =>
      \/ vs[v].state = "uninit" \/ vs[v].refs = 0
      \/ \E j \in 1..Len(s) : v \in ArgumentsOf(s[j])

(* The return value is a thunk only where the plugin wrapped it.           *)
ReturnForced(p, s, vs) ==
  \A j \in 1..Len(s) :
    s[j].kind = "primop" /\ vs[s[j].ret].state = "thunk" => p[s[j].name].value.type = "wrap"

Values(p, s, vs) ==
  /\ vs \in Seq(Value)
  /\ Owned(s, vs) /\ Pending(s, vs) /\ Unowned(s, vs) /\ ReturnForced(p, s, vs)

(***************************************************************************)
(* The error slots.                                                        *)
(***************************************************************************)
Primops(s) == {j \in 1..Len(s) : s[j].kind = "primop"}

Failing(f) == f.res = "error" \/ (f.kind \in {"call", "multi"} /\ f.failed)

(* Every call of a primop has a slot.  Only the last has an error, and     *)
(* only while the running frame knows of it.                               *)
Slots(s, errors) ==
  /\ errors \in Seq(Results)
  /\ Cardinality(Primops(s)) = Len(errors)
  /\ \A j \in 1..(Len(errors) - 1) : errors[j] = "ok"
  /\ Len(errors) > 0 /\ errors[Len(errors)] = "error" => Failing(s[Len(s)])
  /\ s[Len(s)].kind = "primop" /\ s[Len(s)].failed => errors[Len(errors)] = "error"

Inv(p, s, vs, errors) ==
  p \in Plugins /\ Shape(p, s) /\ Values(p, s, vs) /\ Slots(s, errors)

PrimopInv == Inv(plugin, stack, values, slots)

(***************************************************************************)
(* Stacks.                                                                 *)
(***************************************************************************)
LEMMA StackTyping ==
  ASSUME NEW s, IsStack(s)
  PROVE  Len(s) \in Nat /\ DOMAIN s = 1..Len(s)
BY DEF IsStack

(* t is s with f on top; with f on top and g above it; without its top,    *)
(* the frame below having the result.                                      *)
IsSet(s, f, t) ==
  /\ IsStack(t) /\ Len(t) = Len(s) /\ t[Len(s)] = f
  /\ \A j \in 1..(Len(s) - 1) : t[j] = s[j]

IsPush(s, f, g, t) ==
  /\ IsStack(t) /\ Len(t) = Len(s) + 1 /\ t[Len(s)] = f /\ t[Len(s) + 1] = g
  /\ \A j \in 1..(Len(s) - 1) : t[j] = s[j]

IsPop(s, res, t) ==
  /\ IsStack(t) /\ Len(t) = Len(s) - 1
  /\ t[Len(s) - 1] = [s[Len(s) - 1] EXCEPT !.res = res]
  /\ \A j \in 1..(Len(s) - 2) : t[j] = s[j]

LEMMA UpTo ==
  ASSUME NEW n \in Nat, NEW j \in 1..n
  PROVE  j = n \/ j \in 1..(n - 1)
OBVIOUS

LEMMA OneOrMore ==
  ASSUME NEW n \in Nat, n > 0
  PROVE  n = 1 \/ n > 1
OBVIOUS

LEMMA TopSet ==
  ASSUME NEW s, IsStack(s), Len(s) > 0, NEW f
  PROVE  IsSet(s, f, [s EXCEPT ![Len(s)] = f])
<1> DEFINE t == [s EXCEPT ![Len(s)] = f]
<1>1. PICK S : s \in Seq(S)
  BY DEF IsStack
<1>2. t \in Seq(S \cup {f})
  BY <1>1
<1> QED
  BY <1>1, <1>2 DEF IsStack, IsSet

LEMMA Pushed ==
  ASSUME NEW s, IsStack(s), Len(s) > 0, NEW f, NEW g
  PROVE  IsPush(s, f, g, Append([s EXCEPT ![Len(s)] = f], g))
<1> DEFINE t == Append([s EXCEPT ![Len(s)] = f], g)
<1>1. PICK S : s \in Seq(S)
  BY DEF IsStack
<1>2. t \in Seq(S \cup {f, g})
  BY <1>1
<1> QED
  BY <1>1, <1>2 DEF IsStack, IsPush

LEMMA Popped ==
  ASSUME NEW s, IsStack(s), Len(s) > 1, NEW res
  PROVE  IsPop(s, res, [SubSeq(s, 1, Len(s) - 1) EXCEPT ![Len(s) - 1].res = res])
<1> DEFINE t == [SubSeq(s, 1, Len(s) - 1) EXCEPT ![Len(s) - 1].res = res]
           caller == [s[Len(s) - 1] EXCEPT !.res = res]
           short == SubSeq(s, 1, Len(s) - 1)
<1>1. PICK S : s \in Seq(S)
  BY DEF IsStack
<1>2. /\ short \in Seq(S) /\ Len(short) = Len(s) - 1
      /\ \A j \in 1..(Len(s) - 1) : short[j] = s[j]
  BY <1>1
<1> HIDE DEF short
<1>3. t = [short EXCEPT ![Len(s) - 1].res = res]
  BY DEF short
<1> HIDE DEF t
<1>4. t = [short EXCEPT ![Len(s) - 1] = caller]
  <2>1. Len(s) - 1 \in 1..(Len(s) - 1)
    BY <1>1
  <2>2. short[Len(s) - 1] = s[Len(s) - 1]
    BY <1>2, <2>1
  <2> QED
    BY <1>3, <2>2, Zenon
<1> HIDE DEF caller
<1>5. t \in Seq(S \cup {caller})
  BY <1>1, <1>2, <1>4
<1>6. Len(t) = Len(s) - 1 /\ t[Len(s) - 1] = caller
  BY <1>1, <1>2, <1>4
<1>7. \A j \in 1..(Len(s) - 2) : t[j] = s[j]
  BY <1>1, <1>2, <1>4
<1> QED
  BY <1>5, <1>6, <1>7 DEF IsStack, IsPop, caller, t

(***************************************************************************)
(* What a step may do to a frame without its caller knowing.               *)
(***************************************************************************)
Like(f, g) ==
  /\ g.kind = f.kind
  /\ f.kind = "write" =>
       /\ g.dest = f.dest
       /\ g.tree = f.tree \/ f.tree.type = "wrap"

LEMMA ForcedWrap ==
  ASSUME NEW tree, Forced(tree).type = "wrap"
  PROVE  tree.type = "wrap"
BY DEF Forced

LEMMA LikeWaits ==
  ASSUME NEW p \in Plugins, NEW c, FrameOK(p, c), NEW f, Waits(p, c, f), NEW g, Like(f, g)
  PROVE  Waits(p, c, g)
<1>1. WritesFor(c, f) => WritesFor(c, g)
  BY DEF WritesFor, Like
<1>2. f.kind = "write" /\ ReturnTree(p, c, f.tree) => ReturnTree(p, c, g.tree)
  BY ForcedWrap DEF ReturnTree, Like
<1>3. g.kind = f.kind
  BY DEF Like
<1>4. WritesFor(c, f) => f.kind = "write"
  BY DEF WritesFor
<1> QED
  BY <1>1, <1>2, <1>3, <1>4 DEF Waits, Called

(* The frame has its result: its callee returned.                          *)
LEMMA Resumed ==
  ASSUME NEW p, NEW c, FrameOK(p, c), NEW f, Waits(p, c, f), NEW res \in Results,
         NEW g, g = [c EXCEPT !.res = res]
  PROVE  FrameOK(p, g) /\ Like(c, g)
<1>1. CASE c.kind = "eval" /\ EvalOK(c)
  <2>1. /\ DOMAIN g = DOMAIN c /\ g.res = res /\ g.kind = "eval" /\ g.entered = c.entered
    BY <1>1 DEF EvalOK
  <2> QED
    BY <1>1, <2>1 DEF FrameOK, EvalOK, Results, Returns, Waits, Called, Like
<1>2. CASE c.kind = "read" /\ ReadOK(c)
  <2>1. DOMAIN g = DOMAIN c /\ g.res = res /\ g.kind = "read"
    BY <1>2 DEF ReadOK
  <2> QED
    BY <1>2, <2>1 DEF FrameOK, ReadOK, Results, Returns, Like
<1>3. CASE c.kind = "write" /\ WriteOK(c)
  <2>1. /\ DOMAIN g = DOMAIN c /\ g.res = res /\ g.kind = "write" /\ g.tree = c.tree
        /\ g.dest = c.dest /\ g.named = c.named /\ g.at = c.at /\ g.i = c.i /\ g.item = c.item
    BY <1>3 DEF WriteOK
  <2>2. WriteOK(g)
    BY <1>3, <2>1 DEF WriteOK, Waits, Called
  <2>3. Like(c, g)
    BY <1>3, <2>1 DEF Like
  <2> QED
    BY <2>1, <2>2, <2>3 DEF FrameOK, Results, Returns
<1>4. CASE c.kind = "call" /\ CallOK(c)
  <2>1. /\ DOMAIN g = DOMAIN c /\ g.res = res /\ g.kind = "call" /\ g.arg = c.arg /\ g.at = c.at
        /\ g.dest = c.dest /\ g.arg_value = c.arg_value /\ g.failed = c.failed
    BY <1>4 DEF CallOK
  <2>2. c.at = "arg"
    BY <1>4 DEF Waits, Called
  <2> QED
    BY <1>4, <2>1, <2>2 DEF FrameOK, CallOK, Results, Returns, Like
<1>5. CASE c.kind = "multi" /\ MultiOK(c)
  <2>1. /\ DOMAIN g = DOMAIN c /\ g.res = res /\ g.kind = "multi" /\ g.args = c.args
        /\ g.at = c.at /\ g.dest = c.dest /\ g.written = c.written /\ g.current = c.current
        /\ g.failed = c.failed
    BY <1>5 DEF MultiOK
  <2>2. c.at \in {"args", "called"} /\ (c.at = "args" => c.current # 0)
    BY <1>5 DEF Waits, Called
  <2>3. MultiOK(g)
    BY <1>5, <2>1, <2>2 DEF MultiOK
  <2> QED
    BY <1>5, <2>1, <2>3 DEF FrameOK, Results, Returns, Like
<1>6. CASE c.kind = "primop" /\ PrimopOK(p, c)
  <2>1. /\ DOMAIN g = DOMAIN c /\ g.res = res /\ g.kind = "primop" /\ g.name = c.name
        /\ g.at = c.at /\ g.i = c.i /\ g.ret = c.ret /\ g.failed = c.failed
    BY <1>6 DEF PrimopOK
  <2>2. c.at # "value" /\ c.at # "force" /\ ~c.failed
    BY <1>6 DEF Waits, Called, PrimopOK
  <2> QED
    BY <1>6, <2>1, <2>2 DEF FrameOK, PrimopOK, Results, Returns, Like
<1> QED
  BY <1>1, <1>2, <1>3, <1>4, <1>5, <1>6 DEF FrameOK

(***************************************************************************)
(* What each way to change the stack does to its shape.                    *)
(***************************************************************************)
LEMMA ShapeTop ==
  ASSUME NEW p, NEW s, Shape(p, s)
  PROVE  /\ IsStack(s) /\ Len(s) \in Nat /\ Len(s) > 0 /\ DOMAIN s = 1..Len(s)
         /\ FrameOK(p, s[Len(s)])
         /\ Len(s) > 1 => FrameOK(p, s[Len(s) - 1]) /\ Waits(p, s[Len(s) - 1], s[Len(s)])
<1>1. Len(s) \in Nat /\ DOMAIN s = 1..Len(s) /\ IsStack(s) /\ Len(s) > 0
  BY StackTyping DEF Shape
<1>2. FrameOK(p, s[Len(s)])
  BY <1>1 DEF Shape
<1>3. ASSUME Len(s) > 1
      PROVE  FrameOK(p, s[Len(s) - 1]) /\ Waits(p, s[Len(s) - 1], s[Len(s)])
  <2>1. Len(s) - 1 \in 1..Len(s) /\ Len(s) - 1 \in 1..(Len(s) - 1) /\ (Len(s) - 1) + 1 = Len(s)
    BY <1>1, <1>3
  <2>2. Waits(p, s[Len(s) - 1], s[(Len(s) - 1) + 1])
    BY <2>1 DEF Shape
  <2> QED
    BY <2>1, <2>2 DEF Shape
<1> QED
  BY <1>1, <1>2, <1>3

LEMMA ShapeReplaced ==
  ASSUME NEW p, NEW s, Shape(p, s), NEW g, FrameOK(p, g),
         s[Len(s)].kind = "eval" => g.kind = "eval",
         Len(s) > 1 => Waits(p, s[Len(s) - 1], g),
         NEW t, IsSet(s, g, t)
  PROVE  Shape(p, t)
<1>2. IsStack(s) /\ Len(s) \in Nat /\ Len(s) > 0
  BY ShapeTop
<1>1. /\ IsStack(t) /\ Len(t) = Len(s) /\ t[Len(s)] = g
      /\ \A j \in 1..(Len(s) - 1) : t[j] = s[j]
  BY DEF IsSet
<1>3. t[1].kind = "eval"
  BY <1>1, <1>2 DEF Shape
<1>4. ASSUME NEW j \in 1..Len(t) PROVE FrameOK(p, t[j])
  <2>1. j = Len(s) \/ j \in 1..(Len(s) - 1)
    BY <1>1, <1>2, UpTo
  <2> QED
    BY <1>1, <1>2, <2>1 DEF Shape
<1>5. ASSUME NEW j \in 1..(Len(t) - 1) PROVE Waits(p, t[j], t[j + 1])
  <2>1. j \in 1..(Len(s) - 1) /\ Waits(p, s[j], s[j + 1])
    BY <1>1 DEF Shape
  <2>2. CASE j = Len(s) - 1
    <3>1. j + 1 = Len(s) /\ Len(s) > 1
      BY <1>2, <2>1, <2>2
    <3> QED
      BY <1>1, <2>1, <2>2, <3>1
  <2>3. CASE j # Len(s) - 1
    <3>1. j + 1 \in 1..(Len(s) - 1)
      BY <1>2, <2>1, <2>3
    <3> QED
      BY <1>1, <2>1, <3>1
  <2> QED
    BY <2>2, <2>3
<1> QED
  BY <1>1, <1>2, <1>3, <1>4, <1>5 DEF Shape

LEMMA ShapeSet ==
  ASSUME NEW p \in Plugins, NEW s, Shape(p, s), NEW g, FrameOK(p, g), Like(s[Len(s)], g),
         NEW t, IsSet(s, g, t)
  PROVE  Shape(p, t)
<1>1. Len(s) > 1 => Waits(p, s[Len(s) - 1], g)
  BY ShapeTop, LikeWaits
<1>2. g.kind = s[Len(s)].kind
  BY DEF Like
<1> QED
  BY <1>1, <1>2, ShapeReplaced

LEMMA ShapePush ==
  ASSUME NEW p \in Plugins, NEW s, Shape(p, s),
         NEW f, FrameOK(p, f), Like(s[Len(s)], f), NEW g, FrameOK(p, g), Waits(p, f, g),
         NEW t, IsPush(s, f, g, t)
  PROVE  Shape(p, t)
<1> DEFINE r == [s EXCEPT ![Len(s)] = f]
<1>3. IsStack(s) /\ Len(s) \in Nat /\ Len(s) > 0
  BY ShapeTop
<1>0. IsSet(s, f, r)
  BY <1>3, TopSet
<1>1. Shape(p, r)
  BY <1>0, ShapeSet
<1>2. /\ IsStack(t) /\ Len(t) = Len(s) + 1 /\ t[Len(s)] = f /\ t[Len(s) + 1] = g
      /\ \A j \in 1..(Len(s) - 1) : t[j] = s[j]
  BY DEF IsPush
<1>4. Len(r) = Len(s) /\ \A j \in 1..Len(s) : t[j] = r[j]
  <2>1. /\ Len(r) = Len(s) /\ r[Len(s)] = f
        /\ \A j \in 1..(Len(s) - 1) : r[j] = s[j]
    BY <1>0 DEF IsSet
  <2>2. \A j \in 1..Len(s) : j = Len(s) \/ j \in 1..(Len(s) - 1)
    BY <1>3
  <2> HIDE DEF r
  <2> QED
    BY <1>2, <2>1, <2>2
<1> HIDE DEF r
<1>5. t[1].kind = "eval"
  BY <1>1, <1>3, <1>4 DEF Shape
<1>6. ASSUME NEW j \in 1..Len(t) PROVE FrameOK(p, t[j])
  <2>1. j = Len(s) + 1 \/ j \in 1..Len(s)
    BY <1>2, <1>3
  <2> QED
    BY <1>1, <1>2, <1>4, <2>1 DEF Shape
<1>7. ASSUME NEW j \in 1..(Len(t) - 1) PROVE Waits(p, t[j], t[j + 1])
  <2>1. CASE j = Len(s)
    BY <1>2, <2>1
  <2>2. CASE j # Len(s)
    <3>1. j \in 1..(Len(r) - 1) /\ j \in 1..Len(s) /\ j + 1 \in 1..Len(s)
      BY <1>2, <1>3, <1>4, <2>2
    <3> QED
      BY <1>1, <1>4, <3>1 DEF Shape
  <2> QED
    BY <2>1, <2>2
<1> QED
  BY <1>2, <1>3, <1>5, <1>6, <1>7 DEF Shape

LEMMA ShapePop ==
  ASSUME NEW p \in Plugins, NEW s, Shape(p, s), Len(s) > 1, NEW res \in Results,
         NEW t, IsPop(s, res, t)
  PROVE  Shape(p, t)
<1> DEFINE caller == s[Len(s) - 1]
           resumed == [caller EXCEPT !.res = res]
<1>2. /\ IsStack(s) /\ Len(s) \in Nat
      /\ FrameOK(p, caller) /\ Waits(p, caller, s[Len(s)])
  BY ShapeTop
<1>1. /\ IsStack(t) /\ Len(t) = Len(s) - 1 /\ t[Len(s) - 1] = resumed
      /\ \A j \in 1..(Len(s) - 2) : t[j] = s[j]
  BY DEF IsPop
<1>3. FrameOK(p, resumed) /\ Like(caller, resumed)
  BY <1>2, Resumed
<1>4. resumed.kind = caller.kind
  BY <1>3 DEF Like
<1> HIDE DEF resumed, caller
<1>5. t[1].kind = "eval"
  <2>1. PICK n \in Nat : n = Len(s) - 1 /\ n - 1 = Len(s) - 2 /\ n > 0
    BY <1>2
  <2>2. 1 = n \/ 1 \in 1..(n - 1)
    BY <2>1
  <2>3. CASE n = 1
    BY <1>1, <1>4, <2>1, <2>3 DEF Shape, caller
  <2>4. CASE 1 \in 1..(n - 1)
    BY <1>1, <2>1, <2>4 DEF Shape
  <2> QED
    BY <2>2, <2>3, <2>4
<1>6. ASSUME NEW j \in 1..Len(t) PROVE FrameOK(p, t[j])
  <2>1. CASE j = Len(s) - 1
    BY <1>1, <1>3, <2>1
  <2>2. CASE j # Len(s) - 1
    <3>1. j \in 1..(Len(s) - 2) /\ j \in 1..Len(s)
      BY <1>1, <1>2, <2>2
    <3> QED
      BY <1>1, <3>1 DEF Shape
  <2> QED
    BY <2>1, <2>2
<1>7. ASSUME NEW j \in 1..(Len(t) - 1) PROVE Waits(p, t[j], t[j + 1])
  <2>1. /\ j \in 1..(Len(s) - 2) /\ j \in 1..(Len(s) - 1) /\ j \in 1..Len(s)
    BY <1>1, <1>2
  <2>2. FrameOK(p, s[j]) /\ Waits(p, s[j], s[j + 1])
    BY <2>1 DEF Shape
  <2>3. CASE j + 1 = Len(s) - 1
    BY <1>1, <1>3, <2>1, <2>2, <2>3, LikeWaits DEF caller
  <2>4. CASE j + 1 # Len(s) - 1
    <3>1. j + 1 \in 1..(Len(s) - 2)
      BY <1>2, <2>1, <2>4
    <3> QED
      BY <1>1, <2>1, <2>2, <3>1
  <2> QED
    BY <2>3, <2>4
<1>8. Len(t) > 0
  BY <1>1, <1>2
<1> QED
  BY <1>1, <1>5, <1>6, <1>7, <1>8 DEF Shape

(***************************************************************************)
(* The state of an iterator is kept in a frame of its primop; nothing else *)
(* of the stack changes with it.                                           *)
(***************************************************************************)
OnceLike(f, g) ==
  /\ DOMAIN g = DOMAIN f
  /\ \A x \in DOMAIN f \ {"once"} : g[x] = f[x]

IsRenewed(s, t) ==
  /\ IsStack(t) /\ Len(t) = Len(s)
  /\ \A j \in 1..Len(s) : OnceLike(s[j], t[j])

LEMMA Renewed ==
  ASSUME NEW s, IsStack(s), NEW k, NEW id, NEW state
  PROVE  IsRenewed(s, [s EXCEPT ![k].once[id] = state])
<1> DEFINE t == [s EXCEPT ![k].once[id] = state]
           new == [s[k] EXCEPT !.once[id] = state]
<1>1. PICK S : s \in Seq(S)
  BY DEF IsStack
<1>2. OnceLike(s[k], new)
  BY DEF OnceLike
<1>3. t = [s EXCEPT ![k] = new]
  OBVIOUS
<1> HIDE DEF new, t
<1>4. t \in Seq(S \cup {new}) /\ Len(t) = Len(s)
  <2>1. CASE k \in 1..Len(s)
    BY <1>1, <1>3, <2>1
  <2>2. CASE k \notin 1..Len(s)
    <3>1. t = s
      BY <1>1, <1>3, <2>2
    <3> QED
      BY <1>1, <3>1
  <2> QED
    BY <2>1, <2>2
<1>5. ASSUME NEW j \in 1..Len(s) PROVE OnceLike(s[j], t[j])
  <2>1. CASE j = k
    BY <1>1, <1>2, <1>3, <2>1
  <2>2. CASE j # k
    <3>1. t[j] = s[j]
      BY <1>1, <1>3, <2>2
    <3> QED
      BY <3>1 DEF OnceLike
  <2> QED
    BY <2>1, <2>2
<1>6. IsStack(t)
  BY <1>4 DEF IsStack
<1> QED
  BY <1>4, <1>5, <1>6 DEF IsRenewed, t

LEMMA OnceKept ==
  ASSUME NEW p, NEW f, FrameOK(p, f), NEW g, OnceLike(f, g)
  PROVE  /\ g.kind = f.kind /\ g.res = f.res
         /\ f.kind = "eval" => g.entered = f.entered
         /\ f.kind = "write" => /\ g.tree = f.tree /\ g.dest = f.dest /\ g.named = f.named
                                /\ g.at = f.at /\ g.i = f.i /\ g.item = f.item
         /\ f.kind = "call" => /\ g.arg = f.arg /\ g.at = f.at /\ g.dest = f.dest
                               /\ g.arg_value = f.arg_value /\ g.failed = f.failed
         /\ f.kind = "multi" => /\ g.args = f.args /\ g.at = f.at /\ g.dest = f.dest
                                /\ g.written = f.written /\ g.current = f.current
                                /\ g.failed = f.failed
         /\ f.kind = "primop" => /\ g.name = f.name /\ g.at = f.at /\ g.i = f.i
                                 /\ g.ret = f.ret /\ g.failed = f.failed
BY DEF FrameOK, EvalOK, ReadOK, WriteOK, CallOK, MultiOK, PrimopOK, OnceLike

LEMMA OnceFrame ==
  ASSUME NEW p, NEW f, FrameOK(p, f), NEW g, OnceLike(f, g)
  PROVE  /\ FrameOK(p, g) /\ Like(f, g)
         /\ ArgumentsOf(g) = ArgumentsOf(f) /\ OthersOf(g) = OthersOf(f)
         /\ PendingOf(g) = PendingOf(f) /\ IsWritten(g) = IsWritten(f)
         /\ Failing(g) = Failing(f)
         /\ \A h : Waits(p, f, h) => Waits(p, g, h)
<1>1. DOMAIN g = DOMAIN f /\ g.kind = f.kind /\ g.res = f.res
  BY OnceKept DEF OnceLike
<1>2. CASE f.kind = "eval" /\ EvalOK(f)
  <2>1. g.entered = f.entered
    BY <1>2, OnceKept
  <2> QED
    BY <1>1, <1>2, <2>1 DEF FrameOK, EvalOK, Like, ArgumentsOf, OthersOf, PendingOf,
                            IsWritten, Failing, Waits, Called
<1>3. CASE f.kind = "read" /\ ReadOK(f)
  BY <1>1, <1>3 DEF FrameOK, ReadOK, Like, ArgumentsOf, OthersOf, PendingOf, IsWritten, Failing,
                    Waits, Called
<1>4. CASE f.kind = "write" /\ WriteOK(f)
  <2>1. /\ g.tree = f.tree /\ g.dest = f.dest /\ g.named = f.named
        /\ g.at = f.at /\ g.i = f.i /\ g.item = f.item
    BY <1>4, OnceKept
  <2>2. FrameOK(p, g)
    BY <1>1, <1>4, <2>1 DEF FrameOK, WriteOK
  <2>3. Like(f, g)
    BY <1>1, <1>4, <2>1 DEF Like
  <2>4. /\ ArgumentsOf(g) = ArgumentsOf(f) /\ OthersOf(g) = OthersOf(f)
        /\ PendingOf(g) = PendingOf(f) /\ IsWritten(g) = IsWritten(f)
        /\ Failing(g) = Failing(f)
    BY <1>1, <1>4, <2>1 DEF ArgumentsOf, OthersOf, PendingOf, IsWritten, Failing
  <2>5. ASSUME NEW h, Waits(p, f, h) PROVE Waits(p, g, h)
    BY <1>1, <1>4, <2>1, <2>5 DEF Waits, Called, WritesFor, GivenValue
  <2> QED
    BY <2>2, <2>3, <2>4, <2>5
<1>5. CASE f.kind = "call" /\ CallOK(f)
  <2>1. /\ g.arg = f.arg /\ g.at = f.at /\ g.dest = f.dest
        /\ g.arg_value = f.arg_value /\ g.failed = f.failed
    BY <1>5, OnceKept
  <2>2. FrameOK(p, g) /\ Like(f, g)
    BY <1>1, <1>5, <2>1 DEF FrameOK, CallOK, Like
  <2>4. /\ ArgumentsOf(g) = ArgumentsOf(f) /\ OthersOf(g) = OthersOf(f)
        /\ PendingOf(g) = PendingOf(f) /\ IsWritten(g) = IsWritten(f)
        /\ Failing(g) = Failing(f)
    BY <1>1, <1>5, <2>1 DEF ArgumentsOf, OthersOf, PendingOf, IsWritten, Failing
  <2>5. ASSUME NEW h, Waits(p, f, h) PROVE Waits(p, g, h)
    BY <1>1, <1>5, <2>1, <2>5 DEF Waits, Called, WritesFor, GivenValue
  <2> QED
    BY <2>2, <2>4, <2>5
<1>6. CASE f.kind = "multi" /\ MultiOK(f)
  <2>1. /\ g.args = f.args /\ g.at = f.at /\ g.dest = f.dest
        /\ g.written = f.written /\ g.current = f.current /\ g.failed = f.failed
    BY <1>6, OnceKept
  <2>2. FrameOK(p, g) /\ Like(f, g)
    BY <1>1, <1>6, <2>1 DEF FrameOK, MultiOK, Like
  <2>4. /\ ArgumentsOf(g) = ArgumentsOf(f) /\ OthersOf(g) = OthersOf(f)
        /\ PendingOf(g) = PendingOf(f) /\ IsWritten(g) = IsWritten(f)
        /\ Failing(g) = Failing(f)
    BY <1>1, <1>6, <2>1 DEF ArgumentsOf, OthersOf, PendingOf, IsWritten, Failing
  <2>5. ASSUME NEW h, Waits(p, f, h) PROVE Waits(p, g, h)
    BY <1>1, <1>6, <2>1, <2>5 DEF Waits, Called, WritesFor, GivenValue
  <2> QED
    BY <2>2, <2>4, <2>5
<1>7. CASE f.kind = "primop" /\ PrimopOK(p, f)
  <2>1. /\ g.name = f.name /\ g.at = f.at /\ g.i = f.i /\ g.ret = f.ret
        /\ g.failed = f.failed
    BY <1>7, OnceKept
  <2>2. FrameOK(p, g) /\ Like(f, g)
    BY <1>1, <1>7, <2>1 DEF FrameOK, PrimopOK, Like
  <2>4. /\ ArgumentsOf(g) = ArgumentsOf(f) /\ OthersOf(g) = OthersOf(f)
        /\ PendingOf(g) = PendingOf(f) /\ IsWritten(g) = IsWritten(f)
        /\ Failing(g) = Failing(f)
    BY <1>1, <1>7, <2>1 DEF ArgumentsOf, OthersOf, PendingOf, IsWritten, Failing
  <2>5. ASSUME NEW h, Waits(p, f, h) PROVE Waits(p, g, h)
    BY <1>1, <1>7, <2>1, <2>5 DEF Waits, Called, WritesFor, GivenValue,
                                  ReturnTree
  <2> QED
    BY <2>2, <2>4, <2>5
<1> QED
  BY <1>2, <1>3, <1>4, <1>5, <1>6, <1>7 DEF FrameOK

LEMMA ShapeRenewed ==
  ASSUME NEW p \in Plugins, NEW s, Shape(p, s), NEW t, IsRenewed(s, t)
  PROVE  Shape(p, t)
<1>1. Len(s) \in Nat /\ Len(s) > 0
  BY ShapeTop
<1>2. IsStack(t) /\ Len(t) = Len(s) /\ \A j \in 1..Len(s) : OnceLike(s[j], t[j])
  BY DEF IsRenewed
<1>3. ASSUME NEW j \in 1..Len(s)
      PROVE  FrameOK(p, s[j]) /\ FrameOK(p, t[j]) /\ Like(s[j], t[j])
             /\ \A h : Waits(p, s[j], h) => Waits(p, t[j], h)
  <2>1. FrameOK(p, s[j]) /\ OnceLike(s[j], t[j])
    BY <1>2 DEF Shape
  <2> QED
    BY <2>1, OnceFrame
<1>4. t[1].kind = "eval"
  <2>1. 1 \in 1..Len(s)
    BY <1>1
  <2> QED
    BY <1>3, <2>1 DEF Shape, Like
<1>5. ASSUME NEW j \in 1..(Len(s) - 1) PROVE Waits(p, t[j], t[j + 1])
  <2>1. j \in 1..Len(s) /\ j + 1 \in 1..Len(s)
    BY <1>1
  <2>2. Waits(p, s[j], s[j + 1])
    BY DEF Shape
  <2>3. Waits(p, t[j], s[j + 1])
    BY <1>3, <2>1, <2>2
  <2>4. FrameOK(p, t[j]) /\ Like(s[j + 1], t[j + 1])
    BY <1>3, <2>1
  <2> QED
    BY <2>3, <2>4, LikeWaits
<1> QED
  BY <1>1, <1>2, <1>3, <1>4, <1>5 DEF Shape

(***************************************************************************)
(* What each way to change frames and values does to the ownership.        *)
(***************************************************************************)
LEMMA PendingOwned ==
  ASSUME NEW f
  PROVE  /\ PendingOf(f) \subseteq Owns(f)
         /\ f.kind \in {"call", "multi"} => PendingOf(f) \subseteq ArgumentsOf(f)
         /\ f.kind = "primop" => PendingOf(f) = {f.ret} /\ OthersOf(f) = {f.ret}
BY DEF PendingOf, Owns, ArgumentsOf, OthersOf

(* A frame without values, and a frame that keeps some of its values.      *)
NoValues(f) ==
  ArgumentsOf(f) = {} /\ OthersOf(f) = {} /\ PendingOf(f) = {} /\ f.kind # "primop"

Keeps(f, g) ==
  /\ ArgumentsOf(g) \subseteq ArgumentsOf(f)
  /\ OthersOf(g) \subseteq OthersOf(f)
  /\ PendingOf(g) \subseteq PendingOf(f)
  /\ PendingOf(g) # {} => (IsWritten(g) <=> IsWritten(f))
  /\ g.kind = "primop" => f.kind = "primop" /\ g.ret = f.ret /\ g.name = f.name

KeptAt(s, t, j) == NoValues(t[j]) \/ (j \in 1..Len(s) /\ Keeps(s[j], t[j]))

(* No argument is forgotten.                                               *)
ArgumentsKept(s, t, us) ==
  \A j \in 1..Len(s) : \A v \in ArgumentsOf(s[j]) :
    \/ us[v].state = "uninit" \/ us[v].refs = 0
    \/ j \in 1..Len(t) /\ v \in ArgumentsOf(t[j])

LEMMA ValuesFewer ==
  ASSUME NEW p, NEW s, NEW vs, Values(p, s, vs), NEW t,
         \A j \in 1..Len(t) : KeptAt(s, t, j), ArgumentsKept(s, t, vs)
  PROVE  Values(p, t, vs)
<1>1. ASSUME NEW j \in 1..Len(t), NEW v \in Owns(t[j])
      PROVE  j \in 1..Len(s) /\ v \in Owns(s[j]) /\ Keeps(s[j], t[j])
  BY DEF KeptAt, NoValues, Keeps, Owns
<1>2. Owned(t, vs)
  <2>1. ASSUME NEW j \in 1..Len(t)
        PROVE  /\ Owns(t[j]) \subseteq 1..Len(vs)
               /\ \A v \in ArgumentsOf(t[j]) : vs[v].refs = 1 /\ vs[v].role = "arg"
               /\ \A v \in OthersOf(t[j]) : vs[v].refs = 1 /\ vs[v].role # "arg"
    <3>1. CASE NoValues(t[j])
      BY <3>1 DEF NoValues, Owns
    <3>2. CASE j \in 1..Len(s) /\ Keeps(s[j], t[j])
      BY <3>2 DEF Keeps, Owns, Values, Owned
    <3> QED
      BY <3>1, <3>2 DEF KeptAt
  <2>2. ASSUME NEW j \in 1..Len(t), NEW k \in 1..Len(t), Owns(t[j]) \cap Owns(t[k]) # {}
        PROVE  j = k
    <3>1. PICK v : v \in Owns(t[j]) /\ v \in Owns(t[k])
      BY <2>2
    <3>2. /\ j \in 1..Len(s) /\ v \in Owns(s[j])
          /\ k \in 1..Len(s) /\ v \in Owns(s[k])
      BY <1>1, <3>1
    <3> QED
      BY <3>2 DEF Values, Owned
  <2> QED
    BY <2>1, <2>2 DEF Owned
<1>3. Pending(t, vs)
  <2> SUFFICES ASSUME NEW j \in 1..Len(t), NEW v \in PendingOf(t[j])
               PROVE  vs[v].state = "uninit" <=> ~IsWritten(t[j])
    BY DEF Pending
  <2>1. j \in 1..Len(s) /\ v \in PendingOf(s[j]) /\ (IsWritten(t[j]) <=> IsWritten(s[j]))
    BY DEF KeptAt, NoValues, Keeps
  <2> QED
    BY <2>1 DEF Values, Pending
<1>4. Unowned(t, vs)
  BY DEF Values, Unowned, ArgumentsKept
<1>5. ReturnForced(p, t, vs)
  BY DEF Values, ReturnForced, KeptAt, NoValues, Keeps
<1> QED
  BY <1>2, <1>3, <1>4, <1>5 DEF Values

(* Frame k takes the value that was allocated last.                        *)
Takes(s, t, k, new, role) ==
  /\ k \in 1..Len(t)
  /\ \A v \in ArgumentsOf(t[k]) : \/ k \in 1..Len(s) /\ v \in ArgumentsOf(s[k])
                                  \/ v = new /\ role = "arg"
  /\ \A v \in OthersOf(t[k]) : \/ k \in 1..Len(s) /\ v \in OthersOf(s[k])
                               \/ v = new /\ role # "arg"
  /\ PendingOf(t[k]) \subseteq {new} /\ ~IsWritten(t[k])
  /\ t[k].kind = "primop" => t[k].ret = new

IsAlloc(vs, role, us) ==
  /\ us \in Seq(Value) /\ Len(us) = Len(vs) + 1
  /\ \A v \in 1..Len(vs) : us[v] = vs[v]
  /\ us[Len(vs) + 1].state = "uninit" /\ us[Len(vs) + 1].refs = 1
  /\ us[Len(vs) + 1].role = role

LEMMA Allocated ==
  ASSUME NEW vs \in Seq(Value), NEW role \in {"ret", "item", "once", "arg", "dest"}
  PROVE  IsAlloc(vs, role, Append(vs, [state |-> "uninit", refs |-> 1, role |-> role]))
<1> DEFINE new == [state |-> "uninit", refs |-> 1, role |-> role]
<1>1. new \in Value /\ new.state = "uninit" /\ new.refs = 1 /\ new.role = role
  BY DEF Value
<1> HIDE DEF new
<1>2. IsAlloc(vs, role, Append(vs, new))
  BY <1>1 DEF IsAlloc
<1> QED
  BY <1>2 DEF new

LEMMA ValuesAlloc ==
  ASSUME NEW p, NEW s, NEW vs, Values(p, s, vs), NEW role, NEW us, IsAlloc(vs, role, us),
         NEW t, NEW k, Takes(s, t, k, Len(vs) + 1, role),
         \A j \in 1..Len(t) : j # k => KeptAt(s, t, j), ArgumentsKept(s, t, vs)
  PROVE  Values(p, t, us)
<1> DEFINE new == Len(vs) + 1
<1>1. /\ Len(vs) \in Nat /\ new \notin 1..Len(vs) /\ new \in 1..Len(us)
      /\ 1..Len(vs) \subseteq 1..Len(us) /\ \A v \in 1..Len(us) : v \in 1..Len(vs) \/ v = new
  BY DEF Values, IsAlloc
<1>2. /\ \A v \in 1..Len(vs) : us[v] = vs[v]
      /\ us[new].state = "uninit" /\ us[new].refs = 1 /\ us[new].role = role
  BY DEF IsAlloc
<1>3. /\ k \in 1..Len(t)
      /\ \A v \in ArgumentsOf(t[k]) : \/ k \in 1..Len(s) /\ v \in ArgumentsOf(s[k])
                                      \/ v = new /\ role = "arg"
      /\ \A v \in OthersOf(t[k]) : \/ k \in 1..Len(s) /\ v \in OthersOf(s[k])
                                   \/ v = new /\ role # "arg"
      /\ PendingOf(t[k]) \subseteq {new} /\ ~IsWritten(t[k])
      /\ t[k].kind = "primop" => t[k].ret = new
  BY DEF Takes
<1> HIDE DEF new
<1>4. \A j \in 1..Len(s) :
        /\ Owns(s[j]) \subseteq 1..Len(vs)
        /\ \A v \in ArgumentsOf(s[j]) : vs[v].refs = 1 /\ vs[v].role = "arg"
        /\ \A v \in OthersOf(s[j]) : vs[v].refs = 1 /\ vs[v].role # "arg"
  BY DEF Values, Owned
<1>5. ASSUME NEW j \in 1..Len(t), NEW v \in Owns(t[j])
      PROVE  (j \in 1..Len(s) /\ v \in Owns(s[j])) \/ (j = k /\ v = new)
  BY <1>3 DEF KeptAt, NoValues, Keeps, Owns
<1>6. Owned(t, us)
  <2>1. ASSUME NEW j \in 1..Len(t)
        PROVE  /\ Owns(t[j]) \subseteq 1..Len(us)
               /\ \A v \in ArgumentsOf(t[j]) : us[v].refs = 1 /\ us[v].role = "arg"
               /\ \A v \in OthersOf(t[j]) : us[v].refs = 1 /\ us[v].role # "arg"
    <3>1. Owns(t[j]) \subseteq 1..Len(us)
      <4> SUFFICES ASSUME NEW v \in Owns(t[j]) PROVE v \in 1..Len(us)
        OBVIOUS
      <4>1. v \in 1..Len(vs) \/ v = new
        BY <1>4, <1>5
      <4> QED
        BY <1>1, <4>1
    <3>2. CASE j = k
      <4>0. k \in 1..Len(s) => \A v \in Owns(s[k]) : us[v] = vs[v]
        BY <1>2, <1>4
      <4>1. ASSUME NEW v \in ArgumentsOf(t[k]) PROVE us[v].refs = 1 /\ us[v].role = "arg"
        <5>1. CASE v = new /\ role = "arg"
          BY <1>2, <5>1
        <5>2. CASE k \in 1..Len(s) /\ v \in ArgumentsOf(s[k])
          BY <1>4, <4>0, <5>2 DEF Owns
        <5> QED
          BY <1>3, <4>1, <5>1, <5>2
      <4>2. ASSUME NEW v \in OthersOf(t[k]) PROVE us[v].refs = 1 /\ us[v].role # "arg"
        <5>1. CASE v = new /\ role # "arg"
          BY <1>2, <5>1
        <5>2. CASE k \in 1..Len(s) /\ v \in OthersOf(s[k])
          BY <1>4, <4>0, <5>2 DEF Owns
        <5> QED
          BY <1>3, <4>2, <5>1, <5>2
      <4> QED
        BY <3>1, <3>2, <4>1, <4>2
    <3>3. CASE NoValues(t[j])
      BY <3>3 DEF NoValues, Owns
    <3>4. CASE j \in 1..Len(s) /\ Keeps(s[j], t[j])
      <4>1. \A v \in Owns(s[j]) : us[v] = vs[v]
        BY <1>2, <1>4, <3>4
      <4>2. /\ ArgumentsOf(t[j]) \subseteq ArgumentsOf(s[j])
            /\ OthersOf(t[j]) \subseteq OthersOf(s[j])
        BY <3>4 DEF Keeps
      <4> QED
        BY <1>4, <3>1, <3>4, <4>1, <4>2 DEF Owns
    <3> QED
      BY <3>2, <3>3, <3>4 DEF KeptAt
  <2>2. ASSUME NEW j \in 1..Len(t), NEW i \in 1..Len(t), Owns(t[j]) \cap Owns(t[i]) # {}
        PROVE  j = i
    <3>1. PICK v : v \in Owns(t[j]) /\ v \in Owns(t[i])
      BY <2>2
    <3>2. /\ (j \in 1..Len(s) /\ v \in Owns(s[j])) \/ (j = k /\ v = new)
          /\ (i \in 1..Len(s) /\ v \in Owns(s[i])) \/ (i = k /\ v = new)
      BY <1>5, <3>1
    <3>3. CASE v = new
      BY <1>1, <1>4, <3>2, <3>3
    <3>4. CASE v # new
      BY <3>2, <3>4 DEF Values, Owned
    <3> QED
      BY <3>3, <3>4
  <2> QED
    BY <2>1, <2>2 DEF Owned
<1>7. Pending(t, us)
  <2> SUFFICES ASSUME NEW j \in 1..Len(t), NEW v \in PendingOf(t[j])
               PROVE  us[v].state = "uninit" <=> ~IsWritten(t[j])
    BY DEF Pending
  <2>1. CASE j = k
    BY <1>2, <1>3, <2>1
  <2>2. CASE j # k
    <3>1. j \in 1..Len(s) /\ v \in PendingOf(s[j]) /\ (IsWritten(t[j]) <=> IsWritten(s[j]))
      BY <2>2 DEF KeptAt, NoValues, Keeps
    <3>2. v \in 1..Len(vs)
      BY <1>4, <3>1, PendingOwned
    <3> QED
      BY <1>2, <3>1, <3>2 DEF Values, Pending
  <2> QED
    BY <2>1, <2>2
<1>8. Unowned(t, us)
  <2> SUFFICES ASSUME NEW v \in 1..Len(us), us[v].role = "arg"
               PROVE  \/ us[v].state = "uninit" \/ us[v].refs = 0
                      \/ \E j \in 1..Len(t) : v \in ArgumentsOf(t[j])
    BY DEF Unowned
  <2>1. CASE v = new
    BY <1>2, <2>1
  <2>2. CASE v \in 1..Len(vs)
    BY <1>2, <2>2 DEF Values, Unowned, ArgumentsKept
  <2> QED
    BY <1>1, <2>1, <2>2
<1>9. ReturnForced(p, t, us)
  <2> SUFFICES ASSUME NEW j \in 1..Len(t), t[j].kind = "primop", us[t[j].ret].state = "thunk"
               PROVE  p[t[j].name].value.type = "wrap"
    BY DEF ReturnForced
  <2>1. j # k
    BY <1>2, <1>3
  <2>2. /\ j \in 1..Len(s) /\ s[j].kind = "primop" /\ t[j].ret = s[j].ret
        /\ t[j].name = s[j].name
    BY <2>1 DEF KeptAt, NoValues, Keeps
  <2>3. s[j].ret \in 1..Len(vs)
    BY <1>4, <2>2, PendingOwned
  <2> QED
    BY <1>2, <2>2, <2>3 DEF Values, ReturnForced
<1>10. us \in Seq(Value)
  BY DEF IsAlloc
<1> QED
  BY <1>6, <1>7, <1>8, <1>9, <1>10 DEF Values

(***************************************************************************)
(* A value is initialised.                                                 *)
(***************************************************************************)
IsInit(vs, v, state, us) ==
  /\ us \in Seq(Value) /\ Len(us) = Len(vs)
  /\ \A w \in 1..Len(vs) : /\ us[w].refs = vs[w].refs /\ us[w].role = vs[w].role
                           /\ w # v => us[w] = vs[w]
  /\ us[v].state = state

LEMMA Initialises ==
  ASSUME NEW vs \in Seq(Value), NEW v \in 1..Len(vs), NEW state \in {"value", "thunk"}
  PROVE  IsInit(vs, v, state, [vs EXCEPT ![v].state = state])
<1> DEFINE new == [vs[v] EXCEPT !.state = state]
           us == [vs EXCEPT ![v].state = state]
<1>1. vs[v] \in Value
  OBVIOUS
<1>2. new \in Value /\ new.state = state /\ new.refs = vs[v].refs /\ new.role = vs[v].role
  BY <1>1 DEF Value
<1>3. us = [vs EXCEPT ![v] = new]
  OBVIOUS
<1> HIDE DEF new
<1>4. /\ us \in Seq(Value) /\ Len(us) = Len(vs) /\ us[v] = new
      /\ \A w \in 1..Len(vs) : w # v => us[w] = vs[w]
  BY <1>2, <1>3
<1> HIDE DEF us
<1>5. IsInit(vs, v, state, us)
  BY <1>2, <1>4 DEF IsInit
<1> QED
  BY <1>5 DEF us

(* A value that no frame waits for: the result of a call.                  *)
LEMMA ValuesInit ==
  ASSUME NEW p, NEW s, NEW vs, Values(p, s, vs), NEW k \in 1..Len(s),
         s[k].kind \in {"call", "multi"}, NEW v \in OthersOf(s[k]),
         NEW state, NEW us, IsInit(vs, v, state, us)
  PROVE  Values(p, s, us)
<1>1. \A w \in 1..Len(vs) : /\ us[w].refs = vs[w].refs /\ us[w].role = vs[w].role
                            /\ w # v => us[w] = vs[w]
  BY DEF IsInit
<1>2. \A j \in 1..Len(s) :
        /\ Owns(s[j]) \subseteq 1..Len(vs)
        /\ \A w \in ArgumentsOf(s[j]) : vs[w].refs = 1 /\ vs[w].role = "arg"
        /\ \A w \in OthersOf(s[j]) : vs[w].refs = 1 /\ vs[w].role # "arg"
  BY DEF Values, Owned
<1>3. \A j \in 1..Len(s) : v \in Owns(s[j]) => j = k
  BY DEF Values, Owned, Owns
<1>4. Len(us) = Len(vs) /\ us \in Seq(Value)
  BY DEF IsInit
<1>5. Owned(s, us)
  <2>1. \A j, i \in 1..Len(s) : Owns(s[j]) \cap Owns(s[i]) # {} => j = i
    BY DEF Values, Owned
  <2>2. ASSUME NEW j \in 1..Len(s)
        PROVE  /\ Owns(s[j]) \subseteq 1..Len(us)
               /\ \A w \in ArgumentsOf(s[j]) : us[w].refs = 1 /\ us[w].role = "arg"
               /\ \A w \in OthersOf(s[j]) : us[w].refs = 1 /\ us[w].role # "arg"
    <3>1. Owns(s[j]) \subseteq 1..Len(vs)
      BY <1>2
    <3>2. \A w \in Owns(s[j]) : us[w].refs = vs[w].refs /\ us[w].role = vs[w].role
      BY <1>1, <3>1
    <3> QED
      BY <1>2, <1>4, <3>1, <3>2 DEF Owns
  <2> QED
    BY <2>1, <2>2 DEF Owned
<1>6. ASSUME NEW j \in 1..Len(s), NEW w \in PendingOf(s[j]) PROVE w # v /\ w \in 1..Len(vs)
  <2>1. w \in Owns(s[j])
    BY PendingOwned
  <2>2. j = k => w \in ArgumentsOf(s[k])
    BY PendingOwned
  <2>3. v \notin ArgumentsOf(s[k])
    BY <1>2
  <2> QED
    BY <1>2, <1>3, <2>1, <2>2, <2>3
<1>7. Pending(s, us)
  BY <1>1, <1>6 DEF Values, Pending
<1>8. Unowned(s, us)
  <2>1. vs[v].role # "arg"
    BY <1>2
  <2> QED
    BY <1>1, <1>4, <2>1 DEF Values, Unowned
<1>9. ReturnForced(p, s, us)
  <2> SUFFICES ASSUME NEW j \in 1..Len(s), s[j].kind = "primop", us[s[j].ret].state = "thunk"
               PROVE  p[s[j].name].value.type = "wrap"
    BY DEF ReturnForced
  <2>1. s[j].ret # v /\ s[j].ret \in 1..Len(vs)
    BY <1>6, PendingOwned
  <2> QED
    BY <1>1, <2>1 DEF Values, ReturnForced
<1> QED
  BY <1>4, <1>5, <1>7, <1>8, <1>9 DEF Values

(* The value frame k waits for, with the result that it is there.          *)
ToldOf(p, s, t, k, v, state) ==
  /\ k \in 1..Len(s) /\ k \in 1..Len(t)
  /\ v \in Owns(s[k])
  /\ ArgumentsOf(t[k]) \subseteq ArgumentsOf(s[k])
  /\ OthersOf(t[k]) \subseteq OthersOf(s[k])
  /\ PendingOf(t[k]) \subseteq {v} /\ IsWritten(t[k])
  /\ t[k].kind = "primop" =>
       /\ s[k].kind = "primop" /\ t[k].ret = s[k].ret
       /\ state = "thunk" => p[t[k].name].value.type = "wrap"

LEMMA ValuesWritten ==
  ASSUME NEW p, NEW s, NEW vs, Values(p, s, vs), NEW k, NEW v, NEW state \in {"value", "thunk"},
         NEW us, IsInit(vs, v, state, us), NEW t, ToldOf(p, s, t, k, v, state),
         \A j \in 1..Len(t) : j # k => KeptAt(s, t, j), ArgumentsKept(s, t, us)
  PROVE  Values(p, t, us)
<1>1. /\ Len(us) = Len(vs) /\ us \in Seq(Value) /\ us[v].state = state
      /\ \A w \in 1..Len(vs) : /\ us[w].refs = vs[w].refs /\ us[w].role = vs[w].role
                               /\ w # v => us[w] = vs[w]
  BY DEF IsInit
<1>2. \A j \in 1..Len(s) :
        /\ Owns(s[j]) \subseteq 1..Len(vs)
        /\ \A w \in ArgumentsOf(s[j]) : vs[w].refs = 1 /\ vs[w].role = "arg"
        /\ \A w \in OthersOf(s[j]) : vs[w].refs = 1 /\ vs[w].role # "arg"
  BY DEF Values, Owned
<1>3. /\ k \in 1..Len(s) /\ k \in 1..Len(t)
      /\ v \in Owns(s[k])
      /\ ArgumentsOf(t[k]) \subseteq ArgumentsOf(s[k])
      /\ OthersOf(t[k]) \subseteq OthersOf(s[k])
      /\ PendingOf(t[k]) \subseteq {v} /\ IsWritten(t[k])
      /\ t[k].kind = "primop" =>
           /\ s[k].kind = "primop" /\ t[k].ret = s[k].ret
           /\ state = "thunk" => p[t[k].name].value.type = "wrap"
  BY DEF ToldOf
<1>4. \A j \in 1..Len(s) : v \in Owns(s[j]) => j = k
  BY <1>3 DEF Values, Owned
<1>5. ASSUME NEW j \in 1..Len(t)
      PROVE  \/ NoValues(t[j])
             \/ /\ j \in 1..Len(s) /\ ArgumentsOf(t[j]) \subseteq ArgumentsOf(s[j])
                /\ OthersOf(t[j]) \subseteq OthersOf(s[j])
  BY <1>3 DEF KeptAt, Keeps
<1>6. Owned(t, us)
  <2>1. ASSUME NEW j \in 1..Len(t)
        PROVE  /\ Owns(t[j]) \subseteq 1..Len(us)
               /\ \A w \in ArgumentsOf(t[j]) : us[w].refs = 1 /\ us[w].role = "arg"
               /\ \A w \in OthersOf(t[j]) : us[w].refs = 1 /\ us[w].role # "arg"
    <3>1. CASE NoValues(t[j])
      BY <3>1 DEF NoValues, Owns
    <3>2. CASE /\ j \in 1..Len(s) /\ ArgumentsOf(t[j]) \subseteq ArgumentsOf(s[j])
               /\ OthersOf(t[j]) \subseteq OthersOf(s[j])
      BY <1>1, <1>2, <3>2 DEF Owns
    <3> QED
      BY <1>5, <3>1, <3>2
  <2>2. ASSUME NEW j \in 1..Len(t), NEW i \in 1..Len(t), Owns(t[j]) \cap Owns(t[i]) # {}
        PROVE  j = i
    <3>1. PICK w : w \in Owns(t[j]) /\ w \in Owns(t[i])
      BY <2>2
    <3>2. j \in 1..Len(s) /\ w \in Owns(s[j]) /\ i \in 1..Len(s) /\ w \in Owns(s[i])
      BY <1>5, <3>1 DEF NoValues, Owns
    <3> QED
      BY <3>2 DEF Values, Owned
  <2> QED
    BY <2>1, <2>2 DEF Owned
<1>7. Pending(t, us)
  <2> SUFFICES ASSUME NEW j \in 1..Len(t), NEW w \in PendingOf(t[j])
               PROVE  us[w].state = "uninit" <=> ~IsWritten(t[j])
    BY DEF Pending
  <2>1. CASE j = k
    BY <1>1, <1>3, <2>1
  <2>2. CASE j # k
    <3>1. j \in 1..Len(s) /\ w \in PendingOf(s[j]) /\ (IsWritten(t[j]) <=> IsWritten(s[j]))
      BY <2>2 DEF KeptAt, NoValues, Keeps
    <3>2. w \in Owns(s[j])
      BY <3>1, PendingOwned
    <3>3. w # v /\ w \in 1..Len(vs)
      BY <1>2, <1>4, <2>2, <3>1, <3>2
    <3> QED
      BY <1>1, <3>1, <3>3 DEF Values, Pending
  <2> QED
    BY <2>1, <2>2
<1>8. Unowned(t, us)
  <2> SUFFICES ASSUME NEW w \in 1..Len(vs), us[w].role = "arg"
               PROVE  \/ us[w].state = "uninit" \/ us[w].refs = 0
                      \/ \E j \in 1..Len(t) : w \in ArgumentsOf(t[j])
    BY <1>1 DEF Unowned
  <2>1. CASE w = v
    <3>1. w \in ArgumentsOf(s[k])
      BY <1>1, <1>2, <1>3, <2>1 DEF Owns
    <3> QED
      BY <1>3, <3>1 DEF ArgumentsKept
  <2>2. CASE w # v
    BY <1>1, <2>2 DEF Values, Unowned, ArgumentsKept
  <2> QED
    BY <2>1, <2>2
<1>9. ReturnForced(p, t, us)
  <2> SUFFICES ASSUME NEW j \in 1..Len(t), t[j].kind = "primop", us[t[j].ret].state = "thunk"
               PROVE  p[t[j].name].value.type = "wrap"
    BY DEF ReturnForced
  <2>1. CASE j = k
    <3>1. t[k].ret = v
      BY <1>3, <2>1, PendingOwned
    <3> QED
      BY <1>1, <1>3, <2>1, <3>1
  <2>2. CASE j # k
    <3>1. /\ j \in 1..Len(s) /\ s[j].kind = "primop" /\ t[j].ret = s[j].ret
          /\ t[j].name = s[j].name
      BY <2>2 DEF KeptAt, NoValues, Keeps
    <3>2. s[j].ret \in Owns(s[j])
      BY <3>1, PendingOwned
    <3>3. s[j].ret # v /\ s[j].ret \in 1..Len(vs)
      BY <1>2, <1>4, <2>2, <3>1, <3>2
    <3> QED
      BY <1>1, <3>1, <3>3 DEF Values, ReturnForced
  <2> QED
    BY <2>1, <2>2
<1> QED
  BY <1>1, <1>6, <1>7, <1>8, <1>9 DEF Values

(***************************************************************************)
(* Values are released.                                                    *)
(***************************************************************************)
IsRelease(vs, released, us) ==
  /\ us \in Seq(Value) /\ Len(us) = Len(vs)
  /\ \A v \in 1..Len(vs) :
       /\ us[v].state = vs[v].state /\ us[v].role = vs[v].role
       /\ IF v \in released THEN us[v].refs = 0 ELSE us[v].refs = vs[v].refs

LEMMA Releases ==
  ASSUME NEW vs \in Seq(Value), NEW released, \A v \in released : vs[v].refs = 1
  PROVE  IsRelease(vs, released,
                   [v \in DOMAIN vs |->
                      [vs[v] EXCEPT !.refs = IF v \in released THEN @ - 1 ELSE @]])
<1> DEFINE new(v) == [vs[v] EXCEPT !.refs = IF v \in released THEN @ - 1 ELSE @]
           us == [v \in DOMAIN vs |-> new(v)]
<1>1. ASSUME NEW v \in 1..Len(vs)
      PROVE  /\ new(v) \in Value /\ new(v).state = vs[v].state /\ new(v).role = vs[v].role
             /\ IF v \in released THEN new(v).refs = 0 ELSE new(v).refs = vs[v].refs
  <2>1. vs[v] \in Value
    OBVIOUS
  <2>2. CASE v \in released
    <3>1. new(v) = [vs[v] EXCEPT !.refs = 0]
      BY <2>1, <2>2 DEF Value
    <3> QED
      BY <2>1, <2>2, <3>1 DEF Value
  <2>3. CASE v \notin released
    <3>1. new(v) = [vs[v] EXCEPT !.refs = vs[v].refs]
      BY <2>1, <2>3 DEF Value
    <3> QED
      BY <2>1, <2>3, <3>1 DEF Value
  <2> QED
    BY <2>2, <2>3
<1> HIDE DEF new
<1>2. us \in Seq(Value) /\ Len(us) = Len(vs) /\ \A v \in 1..Len(vs) : us[v] = new(v)
  BY <1>1
<1> HIDE DEF us
<1>3. IsRelease(vs, released, us)
  BY <1>1, <1>2 DEF IsRelease
<1> QED
  BY <1>3 DEF us, new

LEMMA ValuesReleased ==
  ASSUME NEW p, NEW s, NEW vs, Values(p, s, vs), NEW released, NEW us,
         IsRelease(vs, released, us), NEW t,
         \A j \in 1..Len(t) : KeptAt(s, t, j) /\ Owns(t[j]) \cap released = {},
         ArgumentsKept(s, t, us)
  PROVE  Values(p, t, us)
<1>1. /\ Len(us) = Len(vs) /\ us \in Seq(Value)
      /\ \A v \in 1..Len(vs) :
           /\ us[v].state = vs[v].state /\ us[v].role = vs[v].role
           /\ v \notin released => us[v].refs = vs[v].refs
           /\ v \in released => us[v].refs = 0
  BY DEF IsRelease
<1>2. \A j \in 1..Len(s) :
        /\ Owns(s[j]) \subseteq 1..Len(vs)
        /\ \A v \in ArgumentsOf(s[j]) : vs[v].refs = 1 /\ vs[v].role = "arg"
        /\ \A v \in OthersOf(s[j]) : vs[v].refs = 1 /\ vs[v].role # "arg"
  BY DEF Values, Owned
<1>3. Owned(t, us)
  <2>1. ASSUME NEW j \in 1..Len(t)
        PROVE  /\ Owns(t[j]) \subseteq 1..Len(us)
               /\ \A v \in ArgumentsOf(t[j]) : us[v].refs = 1 /\ us[v].role = "arg"
               /\ \A v \in OthersOf(t[j]) : us[v].refs = 1 /\ us[v].role # "arg"
    <3>1. CASE NoValues(t[j])
      BY <3>1 DEF NoValues, Owns
    <3>2. CASE j \in 1..Len(s) /\ Keeps(s[j], t[j])
      <4>1. \A v \in Owns(t[j]) : v \notin released /\ v \in 1..Len(vs)
        BY <1>2, <3>2 DEF Keeps, Owns
      <4> QED
        BY <1>1, <1>2, <3>2, <4>1 DEF Keeps, Owns
    <3> QED
      BY <3>1, <3>2 DEF KeptAt
  <2>2. ASSUME NEW j \in 1..Len(t), NEW i \in 1..Len(t), Owns(t[j]) \cap Owns(t[i]) # {}
        PROVE  j = i
    <3>1. PICK v : v \in Owns(t[j]) /\ v \in Owns(t[i])
      BY <2>2
    <3>2. j \in 1..Len(s) /\ v \in Owns(s[j]) /\ i \in 1..Len(s) /\ v \in Owns(s[i])
      BY <3>1 DEF KeptAt, NoValues, Keeps, Owns
    <3> QED
      BY <3>2 DEF Values, Owned
  <2> QED
    BY <2>1, <2>2 DEF Owned
<1>4. Pending(t, us)
  <2> SUFFICES ASSUME NEW j \in 1..Len(t), NEW v \in PendingOf(t[j])
               PROVE  us[v].state = "uninit" <=> ~IsWritten(t[j])
    BY DEF Pending
  <2>1. j \in 1..Len(s) /\ v \in PendingOf(s[j]) /\ (IsWritten(t[j]) <=> IsWritten(s[j]))
    BY DEF KeptAt, NoValues, Keeps
  <2>2. v \in 1..Len(vs)
    BY <1>2, <2>1, PendingOwned
  <2> QED
    BY <1>1, <2>1, <2>2 DEF Values, Pending
<1>5. Unowned(t, us)
  BY <1>1 DEF Values, Unowned, ArgumentsKept
<1>6. ReturnForced(p, t, us)
  <2> SUFFICES ASSUME NEW j \in 1..Len(t), t[j].kind = "primop", us[t[j].ret].state = "thunk"
               PROVE  p[t[j].name].value.type = "wrap"
    BY DEF ReturnForced
  <2>1. /\ j \in 1..Len(s) /\ s[j].kind = "primop" /\ t[j].ret = s[j].ret
        /\ t[j].name = s[j].name
    BY DEF KeptAt, NoValues, Keeps
  <2>2. s[j].ret \in 1..Len(vs)
    BY <1>2, <2>1, PendingOwned
  <2> QED
    BY <1>1, <2>1, <2>2 DEF Values, ReturnForced
<1> QED
  BY <1>1, <1>3, <1>4, <1>5, <1>6 DEF Values

(***************************************************************************)
(* The error slots.                                                        *)
(***************************************************************************)
LEMMA AboveEval ==
  ASSUME NEW p, NEW s, Shape(p, s), s[Len(s)].kind # "eval"
  PROVE  Len(s) > 1
<1>1. Len(s) \in Nat /\ Len(s) > 0
  BY ShapeTop
<1>2. Len(s) # 1
  BY DEF Shape
<1> QED
  BY <1>1, <1>2, OneOrMore

LEMMA PrimopsFinite ==
  ASSUME NEW s, Len(s) \in Nat
  PROVE  IsFiniteSet(Primops(s)) /\ Cardinality(Primops(s)) \in Nat
<1>1. IsFiniteSet(1..Len(s))
  BY FS_Interval
<1>2. Primops(s) \subseteq 1..Len(s)
  BY DEF Primops
<1>3. IsFiniteSet(Primops(s))
  BY <1>1, <1>2, FS_Subset
<1> QED
  BY <1>3, FS_CardinalityType

(* There is a slot when there is a frame above the evaluation that began.  *)
LEMMA SlotExists ==
  ASSUME NEW p, NEW s, Shape(p, s), NEW errors, Slots(s, errors)
  PROVE  Len(errors) \in Nat /\ (Len(errors) > 0 <=> Len(s) > 1)
<1>1. Len(s) \in Nat /\ Len(s) > 0
  BY ShapeTop
<1>2. Len(errors) \in Nat /\ Cardinality(Primops(s)) = Len(errors)
  BY DEF Slots
<1>3. CASE Len(s) > 1
  <2>1. Waits(p, s[1], s[2]) /\ s[1].kind = "eval"
    <3>1. 1 \in 1..(Len(s) - 1)
      BY <1>1, <1>3
    <3>2. Waits(p, s[1], s[1 + 1])
      BY <3>1 DEF Shape
    <3> QED
      BY <3>2 DEF Shape
  <2>2. 2 \in Primops(s)
    BY <1>1, <1>3, <2>1 DEF Waits, Called, Primops
  <2>3. Cardinality(Primops(s)) # 0
    BY <1>1, <2>2, PrimopsFinite, FS_EmptySet
  <2> QED
    BY <1>2, <1>3, <2>3
<1>4. CASE Len(s) = 1
  <2>1. Primops(s) = {}
    BY <1>4 DEF Primops, Shape
  <2>2. Cardinality(Primops(s)) = 0
    BY <2>1, FS_EmptySet
  <2> QED
    BY <1>2, <1>4, <2>2
<1> QED
  BY <1>1, <1>3, <1>4, OneOrMore

(* The slot, when the running frame is g afterwards.                       *)
KeepsSlot(f, g, errors, next) ==
  \/ /\ next = errors
     /\ Failing(f) => Failing(g)
     /\ g.kind = "primop" /\ g.failed => f.kind = "primop" /\ f.failed
  \/ \E result \in Results :
       /\ next = [errors EXCEPT ![Len(errors)] = result]
       /\ result = "error" => Failing(g)
       /\ g.kind = "primop" /\ g.failed => result = "error"

LEMMA SlotsStep ==
  ASSUME NEW s, NEW errors, Slots(s, errors), Len(errors) > 0,
         NEW t, Primops(t) = Primops(s), NEW next, KeepsSlot(s[Len(s)], t[Len(t)], errors, next)
  PROVE  Slots(t, next)
<1>1. CASE /\ next = errors
           /\ Failing(s[Len(s)]) => Failing(t[Len(t)])
           /\ t[Len(t)].kind = "primop" /\ t[Len(t)].failed
                => s[Len(s)].kind = "primop" /\ s[Len(s)].failed
  BY <1>1 DEF Slots
<1>2. ASSUME NEW result \in Results, next = [errors EXCEPT ![Len(errors)] = result],
             result = "error" => Failing(t[Len(t)]),
             t[Len(t)].kind = "primop" /\ t[Len(t)].failed => result = "error"
      PROVE  Slots(t, next)
  <2>1. errors \in Seq(Results)
    BY DEF Slots
  <2>2. /\ next \in Seq(Results) /\ Len(next) = Len(errors) /\ next[Len(errors)] = result
        /\ \A j \in 1..(Len(errors) - 1) : next[j] = errors[j]
    BY <1>2, <2>1
  <2> QED
    BY <1>2, <2>2 DEF Slots
<1> QED
  BY <1>1, <1>2 DEF KeepsSlot

LEMMA PrimopsSet ==
  ASSUME NEW s, Len(s) \in Nat, NEW g, s[Len(s)].kind = "primop" <=> g.kind = "primop",
         NEW t, IsSet(s, g, t)
  PROVE  Primops(t) = Primops(s)
<1>1. Len(t) = Len(s) /\ t[Len(s)] = g /\ \A j \in 1..(Len(s) - 1) : t[j] = s[j]
  BY DEF IsSet
<1>2. \A j \in 1..Len(s) : t[j].kind = "primop" <=> s[j].kind = "primop"
  BY <1>1, UpTo
<1> QED
  BY <1>1, <1>2 DEF Primops

LEMMA PrimopsPush ==
  ASSUME NEW s, Len(s) \in Nat, NEW f, s[Len(s)].kind = "primop" <=> f.kind = "primop", NEW g,
         NEW t, IsPush(s, f, g, t)
  PROVE  Primops(t) = Primops(s) \cup IF g.kind = "primop" THEN {Len(s) + 1} ELSE {}
<1>1. /\ Len(t) = Len(s) + 1 /\ t[Len(s)] = f /\ t[Len(s) + 1] = g
      /\ \A j \in 1..(Len(s) - 1) : t[j] = s[j]
  BY DEF IsPush
<1>2. \A j \in 1..Len(s) : t[j].kind = "primop" <=> s[j].kind = "primop"
  BY <1>1, UpTo
<1>3. \A j : j \in 1..Len(t) <=> j \in 1..Len(s) \/ j = Len(s) + 1
  BY <1>1
<1> QED
  BY <1>1, <1>2, <1>3 DEF Primops

LEMMA PrimopsPop ==
  ASSUME NEW p, NEW s, Shape(p, s), Len(s) > 1, NEW res \in Results, NEW t, IsPop(s, res, t)
  PROVE  Primops(t) = Primops(s) \ {Len(s)}
<1>1. /\ Len(t) = Len(s) - 1 /\ t[Len(s) - 1] = [s[Len(s) - 1] EXCEPT !.res = res]
      /\ \A j \in 1..(Len(s) - 2) : t[j] = s[j]
  BY DEF IsPop
<1>2. Len(s) \in Nat /\ FrameOK(p, s[Len(s) - 1]) /\ Waits(p, s[Len(s) - 1], s[Len(s)])
  BY ShapeTop
<1>3. Like(s[Len(s) - 1], t[Len(s) - 1])
  BY <1>1, <1>2, Resumed
<1>4. \A j \in 1..(Len(s) - 1) : t[j].kind = s[j].kind
  <2>1. PICK n \in Nat : n = Len(s) - 1 /\ n - 1 = Len(s) - 2
    BY <1>2
  <2>2. \A j \in 1..n : j = n \/ j \in 1..(n - 1)
    BY UpTo
  <2> QED
    BY <1>1, <1>3, <2>1, <2>2 DEF Like
<1>5. \A j : j \in 1..(Len(s) - 1) <=> j \in 1..Len(s) /\ j # Len(s)
  BY <1>2
<1> QED
  BY <1>1, <1>4, <1>5 DEF Primops

(***************************************************************************)
(* The invariant, for each way to change the stack.                        *)
(***************************************************************************)
ForgetsNothing(f, g, vs) ==
  \A v \in ArgumentsOf(f) : v \in ArgumentsOf(g) \/ vs[v].state = "uninit"

LEMMA KeptSame ==
  ASSUME NEW s, NEW t, NEW j, j \in 1..Len(s), t[j] = s[j]
  PROVE  KeptAt(s, t, j)
BY DEF KeptAt, Keeps

LEMMA BelowTop ==
  ASSUME NEW n \in Nat, NEW j \in 1..n, j # n
  PROVE  j \in 1..(n - 1)
OBVIOUS

LEMMA SetFrames ==
  ASSUME NEW s, IsStack(s), Len(s) > 0, NEW g, NEW vs,
         Keeps(s[Len(s)], g), ForgetsNothing(s[Len(s)], g, vs), NEW t, IsSet(s, g, t)
  PROVE  (\A j \in 1..Len(t) : KeptAt(s, t, j)) /\ ArgumentsKept(s, t, vs)
<1>1. /\ Len(t) = Len(s) /\ t[Len(s)] = g /\ Len(s) \in Nat /\ Len(s) \in 1..Len(s)
      /\ \A j \in 1..(Len(s) - 1) : t[j] = s[j]
  BY StackTyping DEF IsSet
<1>2. \A j \in 1..Len(s) : j # Len(s) => t[j] = s[j]
  BY <1>1, BelowTop
<1>3. ASSUME NEW j \in 1..Len(t) PROVE KeptAt(s, t, j)
  <2>1. CASE j = Len(s)
    BY <1>1, <2>1 DEF KeptAt
  <2>2. CASE j # Len(s)
    BY <1>1, <1>2, <2>2, KeptSame
  <2> QED
    BY <2>1, <2>2
<1>4. ASSUME NEW j \in 1..Len(s), NEW v \in ArgumentsOf(s[j])
      PROVE  v \in ArgumentsOf(t[j]) \/ vs[v].state = "uninit"
  <2>1. CASE j = Len(s)
    BY <1>1, <2>1 DEF ForgetsNothing
  <2>2. CASE j # Len(s)
    BY <1>2, <2>2
  <2> QED
    BY <2>1, <2>2
<1> QED
  BY <1>1, <1>3, <1>4 DEF ArgumentsKept

(* Another frame may take the place of the running one.                    *)
LEMMA InvReplaced ==
  ASSUME NEW p, NEW s, NEW vs, NEW errors, Inv(p, s, vs, errors), s[Len(s)].kind # "eval",
         NEW g, FrameOK(p, g), Waits(p, s[Len(s) - 1], g), Keeps(s[Len(s)], g),
         ForgetsNothing(s[Len(s)], g, vs), g.kind = "primop" <=> s[Len(s)].kind = "primop",
         NEW next, KeepsSlot(s[Len(s)], g, errors, next), NEW t, IsSet(s, g, t)
  PROVE  Inv(p, t, vs, next)
<1>1. /\ p \in Plugins /\ Shape(p, s) /\ Values(p, s, vs) /\ Slots(s, errors)
      /\ IsStack(s) /\ Len(s) \in Nat /\ Len(s) > 0
  BY ShapeTop DEF Inv
<1>2. Len(errors) > 0
  BY <1>1, AboveEval, SlotExists
<1>3. Shape(p, t)
  BY <1>1, ShapeReplaced
<1>4. Values(p, t, vs)
  <2>1. (\A j \in 1..Len(t) : KeptAt(s, t, j)) /\ ArgumentsKept(s, t, vs)
    BY <1>1, SetFrames, Zenon
  <2> QED
    BY <1>1, <2>1, ValuesFewer
<1>5. Slots(t, next)
  <2>1. Primops(t) = Primops(s)
    BY <1>1, PrimopsSet
  <2>2. t[Len(t)] = g
    BY DEF IsSet
  <2> QED
    BY <1>1, <1>2, <2>1, <2>2, SlotsStep
<1> QED
  BY <1>1, <1>3, <1>4, <1>5 DEF Inv

LEMMA InvSet ==
  ASSUME NEW p, NEW s, NEW vs, NEW errors, Inv(p, s, vs, errors), s[Len(s)].kind # "eval",
         NEW g, FrameOK(p, g), Like(s[Len(s)], g), Keeps(s[Len(s)], g),
         ForgetsNothing(s[Len(s)], g, vs),
         NEW next, KeepsSlot(s[Len(s)], g, errors, next), NEW t, IsSet(s, g, t)
  PROVE  Inv(p, t, vs, next)
<1>1. p \in Plugins /\ Shape(p, s)
  BY DEF Inv
<1>2. FrameOK(p, s[Len(s) - 1]) /\ Waits(p, s[Len(s) - 1], s[Len(s)])
  BY <1>1, AboveEval, ShapeTop
<1>3. Waits(p, s[Len(s) - 1], g)
  BY <1>1, <1>2, LikeWaits
<1>4. g.kind = s[Len(s)].kind
  BY DEF Like
<1> QED
  BY <1>3, <1>4, InvReplaced

(* A frame that owns nothing is called.                                    *)
LEMMA InvPush ==
  ASSUME NEW p, NEW s, NEW vs, NEW errors, Inv(p, s, vs, errors), s[Len(s)].kind # "eval",
         ~Failing(s[Len(s)]), NEW f, FrameOK(p, f), Like(s[Len(s)], f), Keeps(s[Len(s)], f),
         ForgetsNothing(s[Len(s)], f, vs),
         NEW g, FrameOK(p, g), Waits(p, f, g), NoValues(g), NEW t, IsPush(s, f, g, t)
  PROVE  Inv(p, t, vs, errors)
<1>1. /\ p \in Plugins /\ Shape(p, s) /\ Values(p, s, vs) /\ Slots(s, errors)
      /\ IsStack(s) /\ Len(s) \in Nat /\ Len(s) > 0
  BY ShapeTop DEF Inv
<1>2. /\ Len(t) = Len(s) + 1 /\ t[Len(s)] = f /\ t[Len(s) + 1] = g
      /\ \A j \in 1..(Len(s) - 1) : t[j] = s[j]
  BY DEF IsPush
<1>3. Shape(p, t)
  BY <1>1, ShapePush
<1>4. Values(p, t, vs)
  <2>1. \A j \in 1..Len(s) : j # Len(s) => t[j] = s[j]
    BY <1>1, <1>2, BelowTop
  <2>2. \A j \in 1..Len(t) : j = Len(s) + 1 \/ j \in 1..Len(s)
    BY <1>1, <1>2
  <2>3. ASSUME NEW j \in 1..Len(t) PROVE KeptAt(s, t, j)
    <3>1. CASE j = Len(s) + 1
      BY <1>2, <3>1 DEF KeptAt
    <3>2. CASE j = Len(s)
      BY <1>1, <1>2, <3>2 DEF KeptAt
    <3>3. CASE j \in 1..Len(s) /\ j # Len(s)
      BY <2>1, <3>3, KeptSame
    <3> QED
      BY <2>2, <3>1, <3>2, <3>3
  <2>4. ASSUME NEW j \in 1..Len(s), NEW v \in ArgumentsOf(s[j])
        PROVE  j \in 1..Len(t) /\ (v \in ArgumentsOf(t[j]) \/ vs[v].state = "uninit")
    <3>1. j \in 1..Len(t)
      BY <1>1, <1>2
    <3>2. CASE j = Len(s)
      BY <1>2, <3>1, <3>2 DEF ForgetsNothing
    <3>3. CASE j # Len(s)
      BY <2>1, <3>1, <3>3
    <3> QED
      BY <3>2, <3>3
  <2>5. ArgumentsKept(s, t, vs)
    BY <2>4 DEF ArgumentsKept
  <2> QED
    BY <1>1, <2>3, <2>5, ValuesFewer
<1>5. Slots(t, errors)
  <2>1. f.kind = s[Len(s)].kind /\ g.kind # "primop"
    BY DEF Like, NoValues
  <2>2. Primops(t) = Primops(s)
    BY <1>1, <2>1, PrimopsPush
  <2>3. KeepsSlot(s[Len(s)], g, errors, errors)
    BY <2>1 DEF KeepsSlot
  <2>4. t[Len(t)] = g
    BY <1>2
  <2>5. Len(errors) > 0
    BY <1>1, AboveEval, SlotExists
  <2> QED
    BY <1>1, <2>2, <2>3, <2>4, <2>5, SlotsStep
<1> QED
  BY <1>1, <1>3, <1>4, <1>5 DEF Inv

(* What a frame keeps when its callee returns.                             *)
ResumedAs(c, f, res, g) ==
  /\ g.kind = c.kind /\ g.res = res
  /\ ArgumentsOf(g) = ArgumentsOf(c) /\ OthersOf(g) = OthersOf(c)
  /\ PendingOf(g) = PendingOf(c) /\ ~IsWritten(c)
  /\ IsWritten(g) <=> f.kind = "write" /\ res = "ok"
  /\ g.kind = "primop" => g.ret = c.ret /\ g.name = c.name /\ ~g.failed
  /\ f.kind = "write" => PendingOf(c) = {f.dest}

LEMMA ResumedKeeps ==
  ASSUME NEW p, NEW c, FrameOK(p, c), NEW f, Waits(p, c, f), NEW res \in Results
  PROVE  ResumedAs(c, f, res, [c EXCEPT !.res = res])
<1> DEFINE g == [c EXCEPT !.res = res]
<1>1. c.res = "none" /\ ~IsWritten(c)
  BY DEF Waits, IsWritten
<1>2. CASE c.kind = "eval" /\ EvalOK(c)
  <2>1. g.res = res /\ g.kind = "eval" /\ g.entered = c.entered
    BY <1>2 DEF EvalOK
  <2> QED
    BY <1>1, <1>2, <2>1 DEF ResumedAs, ArgumentsOf, OthersOf, PendingOf, IsWritten, Waits, Called
<1>3. CASE c.kind = "read" /\ ReadOK(c)
  <2>1. g.res = res /\ g.kind = "read"
    BY <1>3 DEF ReadOK
  <2> QED
    BY <1>1, <1>3, <2>1 DEF ResumedAs, ArgumentsOf, OthersOf, PendingOf, IsWritten, Waits, Called
<1>4. CASE c.kind = "write" /\ WriteOK(c)
  <2>1. g.res = res /\ g.kind = "write" /\ g.item = c.item
    BY <1>4 DEF WriteOK
  <2>2. f.kind = "write" /\ f.dest = c.item /\ c.item # 0
    BY <1>4 DEF Waits, Called, WritesFor, GivenValue, WriteOK
  <2> QED
    BY <1>1, <1>4, <2>1, <2>2 DEF ResumedAs, ArgumentsOf, OthersOf, PendingOf, IsWritten, Some
<1>5. CASE c.kind = "call" /\ CallOK(c)
  <2>1. /\ g.res = res /\ g.kind = "call" /\ g.at = c.at
        /\ g.dest = c.dest /\ g.arg_value = c.arg_value
    BY <1>5 DEF CallOK
  <2>2. c.at = "arg" /\ f.kind = "write" /\ f.dest = c.arg_value /\ c.arg_value # 0
    BY <1>5 DEF Waits, Called, WritesFor, GivenValue, CallOK
  <2> QED
    BY <1>1, <1>5, <2>1, <2>2 DEF ResumedAs, ArgumentsOf, OthersOf, PendingOf, IsWritten, Some
<1>6. CASE c.kind = "multi" /\ MultiOK(c)
  <2>1. /\ g.res = res /\ g.kind = "multi" /\ g.at = c.at
        /\ g.dest = c.dest /\ g.written = c.written /\ g.current = c.current
    BY <1>6 DEF MultiOK
  <2>2. \/ c.at = "args" /\ f.kind = "write" /\ f.dest = c.current /\ c.current # 0
        \/ c.at = "called" /\ f.kind = "eval"
    BY <1>6 DEF Waits, Called, WritesFor, GivenValue
  <2> QED
    BY <1>1, <1>6, <2>1, <2>2 DEF ResumedAs, ArgumentsOf, OthersOf, PendingOf, IsWritten, Some
<1>7. CASE c.kind = "primop" /\ PrimopOK(p, c)
  <2>1. /\ g.res = res /\ g.kind = "primop" /\ g.name = c.name
        /\ g.at = c.at /\ g.ret = c.ret /\ g.failed = c.failed
    BY <1>7 DEF PrimopOK
  <2>2. /\ ~c.failed
        /\ \/ c.at # "return" /\ f.kind # "write"
           \/ c.at = "return" /\ f.kind = "write" /\ f.dest = c.ret
    BY <1>1, <1>7 DEF Waits, Called, WritesFor, GivenValue, PrimopOK
  <2> QED
    BY <1>1, <1>7, <2>1, <2>2 DEF ResumedAs, ArgumentsOf, OthersOf, PendingOf, IsWritten
<1> QED
  BY <1>2, <1>3, <1>4, <1>5, <1>6, <1>7 DEF FrameOK

(* The error slot of the call when the running frame returns res.          *)
PopsSlot(f, res, errors, next) ==
  \/ next = errors /\ (Failing(f) => res = "error")
  \/ \E result \in Results : /\ next = [errors EXCEPT ![Len(errors)] = result]
                             /\ result = "error" => res = "error"

LEMMA SlotsPop ==
  ASSUME NEW p, NEW s, Shape(p, s), Len(s) > 1, s[Len(s)].kind # "primop", NEW res \in Results,
         NEW errors, Slots(s, errors), NEW next, PopsSlot(s[Len(s)], res, errors, next),
         NEW t, IsPop(s, res, t)
  PROVE  Slots(t, next)
<1>1. /\ FrameOK(p, s[Len(s) - 1]) /\ Waits(p, s[Len(s) - 1], s[Len(s)])
      /\ Len(s) \in Nat
  BY ShapeTop
<1>2. t[Len(t)] = [s[Len(s) - 1] EXCEPT !.res = res]
  BY DEF IsPop
<1>3. t[Len(t)].res = res /\ (t[Len(t)].kind = "primop" => ~t[Len(t)].failed)
  <2>1. ResumedAs(s[Len(s) - 1], s[Len(s)], res, t[Len(t)])
    BY <1>1, <1>2, ResumedKeeps
  <2> QED
    BY <2>1 DEF ResumedAs
<1>4. res = "error" => Failing(t[Len(t)])
  BY <1>3 DEF Failing
<1>5. KeepsSlot(s[Len(s)], t[Len(t)], errors, next)
  BY <1>3, <1>4 DEF KeepsSlot, PopsSlot
<1>6. Primops(t) = Primops(s)
  <2>1. Primops(t) = Primops(s) \ {Len(s)}
    BY PrimopsPop
  <2>2. Len(s) \notin Primops(s)
    BY DEF Primops
  <2> QED
    BY <2>1, <2>2
<1>7. Len(errors) > 0
  BY SlotExists
<1> QED
  BY <1>5, <1>6, <1>7, SlotsStep

FramesPopped(s, res, t) ==
  /\ Len(t) = Len(s) - 1 /\ Len(s) \in Nat
  /\ Len(s) - 1 \in 1..Len(s) /\ Len(s) - 1 \in 1..Len(t)
  /\ t[Len(s) - 1] = [s[Len(s) - 1] EXCEPT !.res = res]
  /\ \A j \in 1..Len(t) : j # Len(s) - 1 => KeptAt(s, t, j)
  /\ res = "error" \/ s[Len(s)].kind # "write" => KeptAt(s, t, Len(s) - 1)
  /\ \A j \in 1..Len(s) : j # Len(s) =>
       j \in 1..Len(t) /\ ArgumentsOf(t[j]) = ArgumentsOf(s[j])

LEMMA PopFrames ==
  ASSUME NEW p, NEW s, Shape(p, s), Len(s) > 1, NEW res \in Results, NEW t, IsPop(s, res, t)
  PROVE  FramesPopped(s, res, t)
<1> DEFINE n == Len(s) - 1
<1>1. /\ FrameOK(p, s[n]) /\ Waits(p, s[n], s[Len(s)]) /\ Len(s) \in Nat
  BY ShapeTop
<1>2. /\ Len(t) = n /\ t[n] = [s[n] EXCEPT !.res = res]
      /\ \A j \in 1..(Len(s) - 2) : t[j] = s[j]
  BY DEF IsPop
<1>3. /\ n \in Nat /\ n - 1 = Len(s) - 2 /\ n \in 1..n /\ n \in 1..Len(s)
      /\ \A j \in 1..n : j \in 1..Len(s)
      /\ \A j \in 1..Len(s) : j # Len(s) => j \in 1..n
  BY <1>1
<1>4. /\ t[n].kind = s[n].kind
      /\ ArgumentsOf(t[n]) = ArgumentsOf(s[n]) /\ OthersOf(t[n]) = OthersOf(s[n])
      /\ PendingOf(t[n]) = PendingOf(s[n]) /\ ~IsWritten(s[n])
      /\ IsWritten(t[n]) <=> s[Len(s)].kind = "write" /\ res = "ok"
      /\ t[n].kind = "primop" => t[n].ret = s[n].ret /\ t[n].name = s[n].name
  <2>1. ResumedAs(s[n], s[Len(s)], res, t[n])
    BY <1>1, <1>2, ResumedKeeps
  <2> QED
    BY <2>1 DEF ResumedAs
<1> HIDE DEF n
<1>5. ASSUME NEW j \in 1..n, j # n PROVE t[j] = s[j]
  <2>1. j \in 1..(n - 1)
    BY <1>3, <1>5, BelowTop
  <2> QED
    BY <1>2, <1>3, <2>1
<1>6. ASSUME NEW j \in 1..n, j # n PROVE KeptAt(s, t, j)
  BY <1>3, <1>5, <1>6, KeptSame
<1>7. res = "error" \/ s[Len(s)].kind # "write" => KeptAt(s, t, n)
  BY <1>3, <1>4 DEF KeptAt, Keeps
<1>8. ASSUME NEW j \in 1..Len(s), j # Len(s)
      PROVE  j \in 1..n /\ ArgumentsOf(t[j]) = ArgumentsOf(s[j])
  BY <1>3, <1>4, <1>5, <1>8
<1> QED
  BY <1>1, <1>2, <1>3, <1>6, <1>7, <1>8 DEF FramesPopped, n

(* The running frame returns, and no argument is lost.                     *)
LEMMA InvPop ==
  ASSUME NEW p, NEW s, NEW vs, NEW errors, Inv(p, s, vs, errors), Len(s) > 1,
         s[Len(s)].kind # "primop", NEW res \in Results,
         res = "error" \/ s[Len(s)].kind # "write",
         \A v \in ArgumentsOf(s[Len(s)]) : vs[v].state = "uninit",
         NEW next, PopsSlot(s[Len(s)], res, errors, next), NEW t, IsPop(s, res, t)
  PROVE  Inv(p, t, vs, next)
<1>1. p \in Plugins /\ Shape(p, s) /\ Values(p, s, vs) /\ Slots(s, errors)
  BY DEF Inv
<1>2. Shape(p, t)
  BY <1>1, ShapePop
<1>3. Values(p, t, vs)
  <2>1. /\ \A j \in 1..Len(t) : j # Len(s) - 1 => KeptAt(s, t, j)
        /\ KeptAt(s, t, Len(s) - 1)
        /\ \A j \in 1..Len(s) : j # Len(s) =>
             j \in 1..Len(t) /\ ArgumentsOf(t[j]) = ArgumentsOf(s[j])
    <3>1. FramesPopped(s, res, t)
      BY <1>1, PopFrames
    <3> QED
      BY <3>1 DEF FramesPopped
  <2>2. ArgumentsKept(s, t, vs)
    BY <2>1 DEF ArgumentsKept
  <2>3. \A j \in 1..Len(t) : KeptAt(s, t, j)
    BY <2>1
  <2> QED
    BY <1>1, <2>2, <2>3, ValuesFewer
<1>4. Slots(t, next)
  BY <1>1, SlotsPop
<1> QED
  BY <1>1, <1>2, <1>3, <1>4 DEF Inv

(* The running frame fails and releases what it owns.                      *)
LEMMA InvPopReleased ==
  ASSUME NEW p, NEW s, NEW vs, NEW errors, Inv(p, s, vs, errors), Len(s) > 1,
         s[Len(s)].kind # "primop", NEW res \in Results,
         res = "error" \/ s[Len(s)].kind # "write",
         NEW released, released \subseteq Owns(s[Len(s)]),
         \A v \in ArgumentsOf(s[Len(s)]) : v \in released \/ vs[v].state = "uninit", NEW us, IsRelease(vs, released, us),
         NEW next, PopsSlot(s[Len(s)], res, errors, next), NEW t, IsPop(s, res, t)
  PROVE  Inv(p, t, us, next)
<1>1. p \in Plugins /\ Shape(p, s) /\ Values(p, s, vs) /\ Slots(s, errors)
  BY DEF Inv
<1>2. Shape(p, t)
  BY <1>1, ShapePop
<1>3. Values(p, t, us)
  <2>1. /\ \A j \in 1..Len(t) : j # Len(s) - 1 => KeptAt(s, t, j)
        /\ KeptAt(s, t, Len(s) - 1)
        /\ \A j \in 1..Len(s) : j # Len(s) =>
             j \in 1..Len(t) /\ ArgumentsOf(t[j]) = ArgumentsOf(s[j])
        /\ Len(t) = Len(s) - 1 /\ Len(s) \in Nat
    <3>1. FramesPopped(s, res, t)
      BY <1>1, PopFrames
    <3> QED
      BY <3>1 DEF FramesPopped
  <2>2. \A v \in ArgumentsOf(s[Len(s)]) : us[v].refs = 0 \/ us[v].state = "uninit"
    <3>1. Len(s) \in 1..Len(s)
      BY <1>1, ShapeTop
    <3>2. Owns(s[Len(s)]) \subseteq 1..Len(vs)
      BY <1>1, <3>1 DEF Values, Owned
    <3> QED
      BY <3>2 DEF IsRelease, Owns
  <2>3. ArgumentsKept(s, t, us)
    BY <2>1, <2>2 DEF ArgumentsKept
  <2>4. ASSUME NEW j \in 1..Len(t) PROVE KeptAt(s, t, j) /\ Owns(t[j]) \cap released = {}
    <3>1. KeptAt(s, t, j)
      BY <2>1
    <3>2. ASSUME NEW v \in Owns(t[j]), v \in released PROVE FALSE
      <4>1. j \in 1..Len(s) /\ v \in Owns(s[j]) /\ v \in Owns(s[Len(s)])
        BY <3>1, <3>2 DEF KeptAt, NoValues, Keeps, Owns
      <4>2. Len(s) \in 1..Len(s) /\ j # Len(s)
        BY <1>1, <2>1, ShapeTop
      <4> QED
        BY <1>1, <4>1, <4>2 DEF Values, Owned
    <3> QED
      BY <3>1, <3>2
  <2> QED
    BY <1>1, <2>3, <2>4, ValuesReleased
<1>4. Slots(t, next)
  BY <1>1, SlotsPop
<1> QED
  BY <1>1, <1>2, <1>3, <1>4 DEF Inv

(* A write succeeds.                                                       *)
LEMMA InvPopWritten ==
  ASSUME NEW p, NEW s, NEW vs, NEW errors, Inv(p, s, vs, errors), s[Len(s)].kind = "write",
         NEW state \in {"value", "thunk"}, state = "thunk" => s[Len(s)].tree.type = "thunk",
         NEW us, IsInit(vs, s[Len(s)].dest, state, us),
         NEW next, PopsSlot(s[Len(s)], "ok", errors, next), NEW t, IsPop(s, "ok", t)
  PROVE  Inv(p, t, us, next)
<1> DEFINE n == Len(s) - 1
           v == s[Len(s)].dest
<1>1. /\ p \in Plugins /\ Shape(p, s) /\ Values(p, s, vs) /\ Slots(s, errors) /\ Len(s) > 1
      /\ "ok" \in Results
  BY AboveEval DEF Inv, Results
<1>2. Shape(p, t)
  BY <1>1, ShapePop
<1>3. FrameOK(p, s[n]) /\ Waits(p, s[n], s[Len(s)])
  BY <1>1, ShapeTop
<1>4. /\ Len(t) = n /\ n \in 1..Len(s) /\ n \in 1..Len(t)
      /\ t[n] = [s[n] EXCEPT !.res = "ok"]
      /\ \A j \in 1..Len(t) : j # n => KeptAt(s, t, j)
      /\ \A j \in 1..Len(s) : j # Len(s) =>
           j \in 1..Len(t) /\ ArgumentsOf(t[j]) = ArgumentsOf(s[j])
  <2>1. FramesPopped(s, "ok", t)
    BY <1>1, PopFrames
  <2> QED
    BY <2>1 DEF FramesPopped
<1>5. /\ t[n].kind = s[n].kind
      /\ ArgumentsOf(t[n]) = ArgumentsOf(s[n]) /\ OthersOf(t[n]) = OthersOf(s[n])
      /\ PendingOf(t[n]) = {v} /\ PendingOf(s[n]) = {v} /\ IsWritten(t[n])
      /\ t[n].kind = "primop" => t[n].ret = s[n].ret /\ t[n].name = s[n].name
  <2>1. ResumedAs(s[n], s[Len(s)], "ok", t[n])
    BY <1>1, <1>3, <1>4, ResumedKeeps
  <2> QED
    BY <2>1 DEF ResumedAs
<1>6. s[n].kind = "primop" /\ state = "thunk" => p[s[n].name].value.type = "wrap"
  <2> SUFFICES ASSUME s[n].kind = "primop", state = "thunk"
               PROVE  p[s[n].name].value.type = "wrap"
    OBVIOUS
  <2>1. ReturnTree(p, s[n], s[Len(s)].tree)
    BY <1>3 DEF Waits, Called
  <2>2. s[Len(s)].tree # Forced(p[s[n].name].value)
    BY DEF Forced
  <2> QED
    BY <2>1, <2>2 DEF ReturnTree
<1>7. ToldOf(p, s, t, n, v, state)
  BY <1>4, <1>5, <1>6, PendingOwned DEF ToldOf
<1>8. ArgumentsKept(s, t, us)
  <2>1. ArgumentsOf(s[Len(s)]) = {}
    BY DEF ArgumentsOf
  <2> QED
    BY <1>4, <2>1 DEF ArgumentsKept
<1>9. Values(p, t, us)
  <2> HIDE DEF n, v
  <2>1. IsInit(vs, v, state, us)
    BY DEF v
  <2>2. Values(p, s, vs)
    BY <1>1
  <2>3. \A j \in 1..Len(t) : j # n => KeptAt(s, t, j)
    BY <1>4
  <2> QED
    BY <2>1, <2>2, <2>3, <1>7, <1>8, ValuesWritten, Zenon
<1>10. Slots(t, next)
  BY <1>1, SlotsPop
<1> QED
  BY <1>1, <1>2, <1>9, <1>10 DEF Inv

(* The running frame allocates a value and takes it.                       *)
TakesNew(f, g, new, role) ==
  /\ \A v \in ArgumentsOf(g) : v \in ArgumentsOf(f) \/ (v = new /\ role = "arg")
  /\ \A v \in OthersOf(g) : v \in OthersOf(f) \/ (v = new /\ role # "arg")
  /\ PendingOf(g) \subseteq {new} /\ ~IsWritten(g)
  /\ g.kind # "primop"

LEMMA InvAllocSet ==
  ASSUME NEW p, NEW s, NEW vs, NEW errors, Inv(p, s, vs, errors), s[Len(s)].kind # "eval",
         ~Failing(s[Len(s)]), NEW g, FrameOK(p, g), Like(s[Len(s)], g),
         NEW role, NEW us, IsAlloc(vs, role, us), TakesNew(s[Len(s)], g, Len(vs) + 1, role),
         ForgetsNothing(s[Len(s)], g, vs),
         NEW t, IsSet(s, g, t)
  PROVE  Inv(p, t, us, errors)
<1>1. /\ p \in Plugins /\ Shape(p, s) /\ Values(p, s, vs) /\ Slots(s, errors)
      /\ IsStack(s) /\ Len(s) \in Nat /\ Len(s) > 0
  BY ShapeTop DEF Inv
<1>2. /\ Len(t) = Len(s) /\ t[Len(s)] = g /\ Len(s) \in 1..Len(s)
      /\ \A j \in 1..(Len(s) - 1) : t[j] = s[j]
  BY <1>1 DEF IsSet
<1>3. Shape(p, t)
  BY <1>1, ShapeSet
<1>4. Values(p, t, us)
  <2>1. \A j \in 1..Len(s) : j # Len(s) => t[j] = s[j]
    BY <1>1, <1>2, BelowTop
  <2>2. Takes(s, t, Len(s), Len(vs) + 1, role)
    BY <1>2 DEF TakesNew, Takes
  <2>3. \A j \in 1..Len(t) : j # Len(s) => KeptAt(s, t, j)
    BY <1>2, <2>1, KeptSame
  <2>4. ArgumentsKept(s, t, vs)
    <3>1. ASSUME NEW j \in 1..Len(s), NEW v \in ArgumentsOf(s[j])
          PROVE  j \in 1..Len(t) /\ (v \in ArgumentsOf(t[j]) \/ vs[v].state = "uninit")
      BY <1>2, <2>1 DEF ForgetsNothing
    <3> QED
      BY <3>1 DEF ArgumentsKept
  <2> QED
    BY <1>1, <2>2, <2>3, <2>4, ValuesAlloc
<1>5. Slots(t, errors)
  <2>1. g.kind = s[Len(s)].kind /\ g.kind # "primop"
    BY DEF Like, TakesNew
  <2>2. Primops(t) = Primops(s)
    BY <1>1, <2>1, PrimopsSet
  <2>3. KeepsSlot(s[Len(s)], t[Len(t)], errors, errors)
    BY <1>2, <2>1 DEF KeepsSlot
  <2>4. Len(errors) > 0
    BY <1>1, AboveEval, SlotExists
  <2> QED
    BY <1>1, <2>2, <2>3, <2>4, SlotsStep
<1> QED
  BY <1>1, <1>3, <1>4, <1>5 DEF Inv

(* It then calls a frame that writes to the value.                         *)
LEMMA InvAllocPush ==
  ASSUME NEW p, NEW s, NEW vs, NEW errors, Inv(p, s, vs, errors), s[Len(s)].kind # "eval",
         ~Failing(s[Len(s)]), NEW f, FrameOK(p, f), Like(s[Len(s)], f), ~Failing(f),
         NEW role, NEW us, IsAlloc(vs, role, us), TakesNew(s[Len(s)], f, Len(vs) + 1, role),
         ForgetsNothing(s[Len(s)], f, vs),
         NEW g, FrameOK(p, g), Waits(p, f, g), NoValues(g), NEW t, IsPush(s, f, g, t)
  PROVE  Inv(p, t, us, errors)
<1> DEFINE r == [s EXCEPT ![Len(s)] = f]
<1>1. Shape(p, s) /\ IsStack(s) /\ Len(s) > 0 /\ Len(s) \in Nat
  BY ShapeTop DEF Inv
<1>2. IsSet(s, f, r)
  BY <1>1, TopSet
<1> HIDE DEF r
<1>3. Inv(p, r, us, errors)
  BY <1>2, InvAllocSet
<1>4. Len(r) = Len(s) /\ r[Len(r)] = f /\ \A j \in 1..(Len(s) - 1) : r[j] = s[j]
  BY <1>2 DEF IsSet
<1>5. IsPush(r, r[Len(r)], g, t)
  BY <1>4 DEF IsPush
<1>6. r[Len(r)].kind # "eval"
  BY <1>4 DEF Like
<1>7. /\ Like(r[Len(r)], r[Len(r)]) /\ Keeps(r[Len(r)], r[Len(r)])
      /\ ForgetsNothing(r[Len(r)], r[Len(r)], us)
  BY DEF Like, Keeps, ForgetsNothing
<1>8. FrameOK(p, r[Len(r)]) /\ ~Failing(r[Len(r)]) /\ Waits(p, r[Len(r)], g)
  BY <1>4
<1> QED
  BY <1>3, <1>5, <1>6, <1>7, <1>8, InvPush

(* Only the state of an iterator changes.                                  *)
LEMMA InvRenewed ==
  ASSUME NEW p, NEW s, NEW vs, NEW errors, Inv(p, s, vs, errors), NEW t, IsRenewed(s, t)
  PROVE  Inv(p, t, vs, errors)
<1>1. /\ p \in Plugins /\ Shape(p, s) /\ Values(p, s, vs) /\ Slots(s, errors)
      /\ Len(s) \in Nat /\ Len(s) > 0 /\ Len(s) \in 1..Len(s)
  BY ShapeTop DEF Inv
<1>2. Len(t) = Len(s) /\ \A j \in 1..Len(s) : OnceLike(s[j], t[j])
  BY DEF IsRenewed
<1>3. ASSUME NEW j \in 1..Len(s)
      PROVE  /\ ArgumentsOf(t[j]) = ArgumentsOf(s[j]) /\ OthersOf(t[j]) = OthersOf(s[j])
             /\ PendingOf(t[j]) = PendingOf(s[j]) /\ IsWritten(t[j]) = IsWritten(s[j])
             /\ Failing(t[j]) = Failing(s[j]) /\ t[j].kind = s[j].kind
             /\ t[j].kind = "primop" => /\ t[j].ret = s[j].ret /\ t[j].name = s[j].name
                                        /\ t[j].failed = s[j].failed
  <2>1. FrameOK(p, s[j]) /\ OnceLike(s[j], t[j])
    BY <1>1, <1>2 DEF Shape
  <2> QED
    BY <2>1, OnceFrame, OnceKept
<1>4. Shape(p, t)
  BY <1>1, ShapeRenewed
<1>5. Values(p, t, vs)
  <2>1. \A j \in 1..Len(t) : KeptAt(s, t, j)
    BY <1>2, <1>3 DEF KeptAt, Keeps
  <2>2. ArgumentsKept(s, t, vs)
    BY <1>2, <1>3 DEF ArgumentsKept
  <2> QED
    BY <1>1, <2>1, <2>2, ValuesFewer
<1>6. Slots(t, errors)
  <2>1. Primops(t) = Primops(s)
    BY <1>2, <1>3 DEF Primops
  <2> QED
    BY <1>1, <1>2, <1>3, <2>1 DEF Slots
<1> QED
  BY <1>1, <1>4, <1>5, <1>6 DEF Inv

(* The result of a call is there, and nobody was told yet.                 *)
LEMMA InvInit ==
  ASSUME NEW p, NEW s, NEW vs, NEW errors, Inv(p, s, vs, errors),
         s[Len(s)].kind \in {"call", "multi"}, NEW v \in OthersOf(s[Len(s)]),
         NEW state, NEW us, IsInit(vs, v, state, us)
  PROVE  Inv(p, s, us, errors)
<1>1. /\ p \in Plugins /\ Shape(p, s) /\ Values(p, s, vs) /\ Slots(s, errors)
      /\ Len(s) \in Nat /\ Len(s) > 0 /\ Len(s) \in 1..Len(s)
  BY ShapeTop DEF Inv
<1>2. Values(p, s, us)
  BY <1>1, ValuesInit
<1> QED
  BY <1>1, <1>2 DEF Inv

(***************************************************************************)
(* A primop is called: a frame, a value and a slot more.                   *)
(***************************************************************************)
LEMMA InvEnters ==
  ASSUME NEW p, NEW s, NEW vs, NEW errors, Inv(p, s, vs, errors),
         ~Failing(s[Len(s)]), NEW f, FrameOK(p, f), Like(s[Len(s)], f), NoValues(f),
         ArgumentsOf(s[Len(s)]) = {}, s[Len(s)].kind # "primop",
         NEW us, IsAlloc(vs, "ret", us),
         NEW g, FrameOK(p, g), Waits(p, f, g), g.kind = "primop", g.ret = Len(vs) + 1,
         g.res = "none", ~g.failed,
         NEW t, IsPush(s, f, g, t)
  PROVE  Inv(p, t, us, Append(errors, "ok"))
<1>1. /\ p \in Plugins /\ Shape(p, s) /\ Values(p, s, vs) /\ Slots(s, errors)
      /\ IsStack(s) /\ Len(s) \in Nat /\ Len(s) > 0
  BY ShapeTop DEF Inv
<1>2. /\ Len(t) = Len(s) + 1 /\ t[Len(s)] = f /\ t[Len(s) + 1] = g
      /\ \A j \in 1..(Len(s) - 1) : t[j] = s[j]
  BY DEF IsPush
<1>3. Shape(p, t)
  BY <1>1, ShapePush
<1>4. Values(p, t, us)
  <2>1. \A j \in 1..Len(s) : j # Len(s) => t[j] = s[j]
    BY <1>1, <1>2, BelowTop
  <2>2. \A j \in 1..Len(t) : j = Len(s) + 1 \/ j \in 1..Len(s)
    BY <1>1, <1>2
  <2>3. Takes(s, t, Len(s) + 1, Len(vs) + 1, "ret")
    <3>1. ArgumentsOf(g) = {} /\ OthersOf(g) = {Len(vs) + 1} /\ PendingOf(g) = {Len(vs) + 1}
      BY DEF ArgumentsOf, OthersOf, PendingOf
    <3>2. ~IsWritten(g)
      BY DEF IsWritten
    <3>3. Len(s) + 1 \in 1..Len(t) /\ t[Len(s) + 1] = g
      BY <1>1, <1>2
    <3> QED
      BY <3>1, <3>2, <3>3 DEF Takes
  <2>4. ASSUME NEW j \in 1..Len(t), j # Len(s) + 1 PROVE KeptAt(s, t, j)
    <3>1. j \in 1..Len(s)
      BY <2>2, <2>4
    <3>2. CASE j = Len(s)
      BY <1>2, <3>2 DEF KeptAt
    <3>3. CASE j # Len(s)
      BY <2>1, <3>1, <3>3, KeptSame
    <3> QED
      BY <3>2, <3>3
  <2>5. ArgumentsKept(s, t, vs)
    <3>1. ASSUME NEW j \in 1..Len(s), NEW v \in ArgumentsOf(s[j])
          PROVE  j \in 1..Len(t) /\ v \in ArgumentsOf(t[j])
      BY <1>1, <1>2, <2>1
    <3> QED
      BY <3>1 DEF ArgumentsKept
  <2> QED
    BY <1>1, <2>3, <2>4, <2>5, ValuesAlloc
<1>5. Slots(t, Append(errors, "ok"))
  <2> DEFINE next == Append(errors, "ok")
  <2>1. errors \in Seq(Results) /\ Len(errors) \in Nat /\ Cardinality(Primops(s)) = Len(errors)
    BY <1>1 DEF Slots
  <2>2. /\ next \in Seq(Results) /\ Len(next) = Len(errors) + 1 /\ next[Len(next)] = "ok"
        /\ \A j \in 1..Len(errors) : next[j] = errors[j]
    BY <2>1 DEF Results
  <2>3. \A j \in 1..Len(errors) : errors[j] = "ok"
    <3>1. Len(errors) > 0 => errors[Len(errors)] = "ok"
      BY <1>1, <2>1 DEF Slots, Results
    <3>2. \A j \in 1..(Len(errors) - 1) : errors[j] = "ok"
      BY <1>1 DEF Slots
    <3> QED
      BY <2>1, <3>1, <3>2, UpTo
  <2>4. Cardinality(Primops(t)) = Len(errors) + 1
    <3>1. f.kind # "primop"
      BY DEF NoValues
    <3>2. Primops(t) = Primops(s) \cup {Len(s) + 1}
      BY <1>1, <3>1, PrimopsPush
    <3>3. Len(s) + 1 \notin Primops(s)
      BY <1>1 DEF Primops
    <3> QED
      BY <1>1, <2>1, <3>2, <3>3, PrimopsFinite, FS_AddElement
  <2>5. t[Len(t)] = g
    BY <1>2
  <2>6. \A j \in 1..(Len(next) - 1) : next[j] = "ok"
    <3>1. Len(next) - 1 = Len(errors)
      BY <2>1, <2>2
    <3> QED
      BY <2>2, <2>3, <3>1
  <2> HIDE DEF next
  <2>7. Slots(t, next)
    BY <2>2, <2>4, <2>5, <2>6 DEF Slots
  <2> QED
    BY <2>7 DEF next
<1> QED
  BY <1>1, <1>3, <1>4, <1>5 DEF Inv

(* A primop returns what its slot says.                                    *)
LEMMA InvReturns ==
  ASSUME NEW p, NEW s, NEW vs, NEW errors, Inv(p, s, vs, errors), s[Len(s)].kind = "primop",
         NEW t, IsPop(s, errors[Len(errors)], t)
  PROVE  Inv(p, t, vs, SubSeq(errors, 1, Len(errors) - 1))
<1> DEFINE res == errors[Len(errors)]
           next == SubSeq(errors, 1, Len(errors) - 1)
<1>1. /\ p \in Plugins /\ Shape(p, s) /\ Values(p, s, vs) /\ Slots(s, errors)
      /\ Len(s) \in Nat /\ Len(s) > 1
  BY AboveEval, ShapeTop DEF Inv
<1>2. Len(errors) \in Nat /\ Len(errors) > 0 /\ errors \in Seq(Results)
  BY <1>1, SlotExists DEF Slots
<1>3. res \in Results
  BY <1>2
<1> HIDE DEF res
<1>4. IsPop(s, res, t)
  BY DEF res
<1>5. Shape(p, t)
  BY <1>1, <1>3, <1>4, ShapePop
<1>6. FramesPopped(s, res, t)
  BY <1>1, <1>3, <1>4, PopFrames
<1>7. Values(p, t, vs)
  <2>1. \A j \in 1..Len(t) : KeptAt(s, t, j)
    BY <1>6 DEF FramesPopped
  <2>2. ArgumentsKept(s, t, vs)
    <3>1. ArgumentsOf(s[Len(s)]) = {}
      BY DEF ArgumentsOf
    <3> QED
      BY <1>6, <3>1 DEF FramesPopped, ArgumentsKept
  <2> QED
    BY <1>1, <2>1, <2>2, ValuesFewer
<1>8. Slots(t, next)
  <2>1. /\ next \in Seq(Results) /\ Len(next) = Len(errors) - 1
        /\ \A j \in 1..(Len(errors) - 1) : next[j] = errors[j]
    <3>1. CASE Len(errors) = 1
      <4>1. next = << >>
        BY <1>2, <3>1
      <4> QED
        BY <3>1, <4>1
    <3>2. CASE Len(errors) > 1
      BY <1>2, <3>2
    <3> QED
      BY <1>2, <3>1, <3>2, OneOrMore
  <2> HIDE DEF next
  <2>2. \A j \in 1..(Len(errors) - 1) : next[j] = "ok"
    BY <1>1, <2>1 DEF Slots
  <2>3. Cardinality(Primops(t)) = Len(next)
    <3>1. Primops(t) = Primops(s) \ {Len(s)}
      BY <1>1, <1>3, <1>4, PrimopsPop
    <3>2. Len(s) \in Primops(s)
      BY <1>1 DEF Primops
    <3>3. Cardinality(Primops(s)) = Len(errors)
      BY <1>1 DEF Slots
    <3>4. IsFiniteSet(Primops(s))
      BY <1>1, PrimopsFinite
    <3>5. Cardinality(Primops(t)) = Cardinality(Primops(s)) - 1
      BY <3>1, <3>2, <3>4, FS_RemoveElement
    <3> QED
      BY <2>1, <3>3, <3>5
  <2>4. t[Len(t)].kind = "eval"
    <3>1. FrameOK(p, s[Len(s) - 1]) /\ Waits(p, s[Len(s) - 1], s[Len(s)])
      BY <1>1, ShapeTop
    <3>2. s[Len(s) - 1].kind = "eval"
      BY <3>1 DEF FrameOK, Waits, Called, WritesFor
    <3>3. Len(t) = Len(s) - 1 /\ t[Len(s) - 1] = [s[Len(s) - 1] EXCEPT !.res = res]
      BY <1>6 DEF FramesPopped
    <3>4. t[Len(s) - 1].kind = s[Len(s) - 1].kind
      BY <3>1, <3>3, <1>3, Resumed DEF Like
    <3> QED
      BY <3>2, <3>3, <3>4
  <2>5. Len(next) > 0 => next[Len(next)] = "ok"
    BY <1>2, <2>1, <2>2
  <2>6. \A j \in 1..(Len(next) - 1) : next[j] = "ok"
    BY <1>2, <2>1, <2>2
  <2> QED
    BY <2>1, <2>3, <2>4, <2>5, <2>6 DEF Slots
<1> QED
  BY <1>1, <1>5, <1>7, <1>8 DEF Inv, next

(***************************************************************************)
(* The same for the variables.                                             *)
(***************************************************************************)
LEMMA TopFacts ==
  ASSUME PrimopInv
  PROVE  /\ plugin \in Plugins /\ Shape(plugin, stack) /\ Values(plugin, stack, values)
         /\ Slots(stack, slots)
         /\ IsStack(stack) /\ Len(stack) \in Nat /\ Len(stack) > 0 /\ Len(stack) \in 1..Len(stack)
         /\ FrameOK(plugin, Top) /\ Top = stack[Len(stack)]
         /\ values \in Seq(Value) /\ slots \in Seq(Results) /\ Len(slots) \in Nat
         /\ \A v \in Owns(Top) : v \in 1..Len(values) /\ values[v].refs = 1
         /\ Top.kind # "eval" => /\ Len(stack) > 1 /\ Len(slots) > 0
                                 /\ FrameOK(plugin, stack[Len(stack) - 1])
                                 /\ Waits(plugin, stack[Len(stack) - 1], Top)
<1>1. /\ plugin \in Plugins /\ Shape(plugin, stack) /\ Values(plugin, stack, values)
      /\ Slots(stack, slots)
  BY DEF PrimopInv, Inv
<1>2. /\ IsStack(stack) /\ Len(stack) \in Nat /\ Len(stack) > 0 /\ Len(stack) \in 1..Len(stack)
      /\ FrameOK(plugin, Top) /\ Top = stack[Len(stack)]
  BY <1>1, ShapeTop DEF Top
<1>3. values \in Seq(Value) /\ slots \in Seq(Results) /\ Len(slots) \in Nat
  BY <1>1 DEF Values, Slots
<1>4. \A v \in Owns(Top) : v \in 1..Len(values) /\ values[v].refs = 1
  BY <1>1, <1>2 DEF Values, Owned, Owns
<1>5. Top.kind # "eval" => Len(stack) > 1 /\ Len(slots) > 0
  BY <1>1, <1>2, AboveEval, SlotExists
<1>6. Top.kind # "eval" => /\ FrameOK(plugin, stack[Len(stack) - 1])
                           /\ Waits(plugin, stack[Len(stack) - 1], Top)
  BY <1>1, <1>2, <1>5, ShapeTop
<1> QED
  BY <1>1, <1>2, <1>3, <1>4, <1>5, <1>6

LEMMA SetStep ==
  ASSUME PrimopInv, Top.kind # "eval", NEW g, FrameOK(plugin, g), Like(Top, g), Keeps(Top, g),
         ForgetsNothing(Top, g, values), KeepsSlot(Top, g, slots, slots'),
         stack' = WithTop(g), UNCHANGED <<plugin, values>>
  PROVE  PrimopInv'
<1>1. IsStack(stack) /\ Len(stack) > 0
  BY TopFacts
<1>2. IsSet(stack, g, stack')
  BY <1>1, TopSet DEF WithTop
<1>3. Inv(plugin, stack, values, slots)
  BY DEF PrimopInv
<1>4. Inv(plugin, stack', values, slots')
  BY <1>2, <1>3, InvSet DEF Top
<1> QED
  BY <1>4 DEF PrimopInv

LEMMA PushStep ==
  ASSUME PrimopInv, Top.kind # "eval", ~Failing(Top),
         NEW f, FrameOK(plugin, f), Like(Top, f), Keeps(Top, f), ForgetsNothing(Top, f, values),
         NEW g, FrameOK(plugin, g), Waits(plugin, f, g), NoValues(g),
         stack' = Push(f, g), UNCHANGED <<plugin, values, slots>>
  PROVE  PrimopInv'
<1>1. IsStack(stack) /\ Len(stack) > 0
  BY TopFacts
<1>2. IsPush(stack, f, g, stack')
  BY <1>1, Pushed DEF Push, WithTop
<1>3. Inv(plugin, stack, values, slots)
  BY DEF PrimopInv
<1>4. Inv(plugin, stack', values, slots)
  BY <1>2, <1>3, InvPush DEF Top
<1> QED
  BY <1>4 DEF PrimopInv

LEMMA PopStep ==
  ASSUME PrimopInv, Len(stack) > 1, Top.kind # "primop", NEW res \in Results,
         res = "error" \/ Top.kind # "write",
         \A v \in ArgumentsOf(Top) : values[v].state = "uninit",
         PopsSlot(Top, res, slots, slots'), stack' = Pop(res), UNCHANGED <<plugin, values>>
  PROVE  PrimopInv'
<1>1. IsStack(stack)
  BY TopFacts
<1>2. IsPop(stack, res, stack')
  BY <1>1, Popped DEF Pop
<1>3. Inv(plugin, stack, values, slots)
  BY DEF PrimopInv
<1>4. Inv(plugin, stack', values, slots')
  BY <1>2, <1>3, InvPop DEF Top
<1> QED
  BY <1>4 DEF PrimopInv

LEMMA AllocSetStep ==
  ASSUME PrimopInv, Top.kind # "eval", ~Failing(Top), NEW g, FrameOK(plugin, g), Like(Top, g),
         NEW role \in {"ret", "item", "once", "arg", "dest"}, values' = alloc_value(role),
         TakesNew(Top, g, NewValue, role), ForgetsNothing(Top, g, values),
         stack' = WithTop(g), UNCHANGED <<plugin, slots>>
  PROVE  PrimopInv'
<1>1. IsStack(stack) /\ Len(stack) > 0 /\ values \in Seq(Value)
  BY TopFacts
<1>2. IsSet(stack, g, stack')
  BY <1>1, TopSet DEF WithTop
<1>3. IsAlloc(values, role, values')
  BY <1>1, Allocated DEF alloc_value
<1>4. Inv(plugin, stack, values, slots)
  BY DEF PrimopInv
<1>5. Inv(plugin, stack', values', slots)
  BY <1>2, <1>3, <1>4, InvAllocSet DEF Top, NewValue
<1> QED
  BY <1>5 DEF PrimopInv

LEMMA AllocPushStep ==
  ASSUME PrimopInv, Top.kind # "eval", ~Failing(Top),
         NEW f, FrameOK(plugin, f), Like(Top, f), ~Failing(f),
         NEW role \in {"ret", "item", "once", "arg", "dest"}, values' = alloc_value(role),
         TakesNew(Top, f, NewValue, role), ForgetsNothing(Top, f, values),
         NEW g, FrameOK(plugin, g), Waits(plugin, f, g), NoValues(g),
         NEW t, t = Push(f, g)
  PROVE  Inv(plugin, t, values', slots)
<1>1. IsStack(stack) /\ Len(stack) > 0 /\ values \in Seq(Value)
  BY TopFacts
<1>2. IsPush(stack, f, g, t)
  BY <1>1, Pushed DEF Push, WithTop
<1>3. IsAlloc(values, role, values')
  BY <1>1, Allocated DEF alloc_value
<1>4. Inv(plugin, stack, values, slots)
  BY DEF PrimopInv
<1> QED
  BY <1>2, <1>3, <1>4, InvAllocPush DEF Top, NewValue

(* A write ends with its value initialised.                                *)
LEMMA WrittenStep ==
  ASSUME PrimopInv, Top.kind = "write",
         NEW state \in {"value", "thunk"}, state = "thunk" => Top.tree.type = "thunk",
         values' = Initialised(Top.dest, state), PopsSlot(Top, "ok", slots, slots'),
         NEW t, t = Pop("ok")
  PROVE  Inv(plugin, t, values', slots')
<1>1. IsStack(stack) /\ Len(stack) > 1 /\ values \in Seq(Value)
  BY TopFacts
<1>2. IsPop(stack, "ok", t)
  BY <1>1, Popped DEF Pop
<1>3. Top.dest \in 1..Len(values)
  <2>1. /\ Len(stack) - 1 \in 1..Len(stack) /\ FrameOK(plugin, stack[Len(stack) - 1])
        /\ Waits(plugin, stack[Len(stack) - 1], Top)
    BY <1>1, TopFacts
  <2>2. "ok" \in Results
    BY DEF Results
  <2>3. PendingOf(stack[Len(stack) - 1]) = {Top.dest}
    <3>1. ResumedAs(stack[Len(stack) - 1], Top, "ok", [stack[Len(stack) - 1] EXCEPT !.res = "ok"])
      BY <2>1, <2>2, ResumedKeeps
    <3> QED
      BY <3>1 DEF ResumedAs
  <2>4. Owns(stack[Len(stack) - 1]) \subseteq 1..Len(values)
    BY <2>1, TopFacts DEF Values, Owned
  <2> QED
    BY <2>3, <2>4, PendingOwned
<1>4. IsInit(values, Top.dest, state, values')
  BY <1>1, <1>3, Initialises DEF Initialised
<1>5. Inv(plugin, stack, values, slots)
  BY DEF PrimopInv
<1> QED
  BY <1>2, <1>4, <1>5, InvPopWritten DEF Top

LEMMA ReleaseStep ==
  ASSUME PrimopInv, Len(stack) > 1, Top.kind # "primop", NEW res \in Results,
         res = "error" \/ Top.kind # "write",
         NEW released, released \subseteq Owns(Top),
         \A v \in ArgumentsOf(Top) : v \in released \/ values[v].state = "uninit",
         values' = Released(released), PopsSlot(Top, res, slots, slots'), NEW t, t = Pop(res)
  PROVE  Inv(plugin, t, values', slots')
<1>1. IsStack(stack) /\ values \in Seq(Value)
  BY TopFacts
<1>2. IsPop(stack, res, t)
  BY <1>1, Popped DEF Pop
<1>3. IsRelease(values, released, values')
  <2>1. \A v \in released : values[v].refs = 1
    BY TopFacts
  <2> QED
    BY <1>1, <2>1, Releases DEF Released
<1>4. Inv(plugin, stack, values, slots)
  BY DEF PrimopInv
<1> QED
  BY <1>2, <1>3, <1>4, InvPopReleased DEF Top

(***************************************************************************)
(* Nix evaluates.                                                          *)
(***************************************************************************)
LEMMA KindOf ==
  ASSUME NEW p, NEW f, FrameOK(p, f)
  PROVE  /\ f.res \in Returns
         /\ f.kind = "eval" => EvalOK(f)
         /\ f.kind = "read" => ReadOK(f)
         /\ f.kind = "write" => WriteOK(f)
         /\ f.kind = "call" => CallOK(f)
         /\ f.kind = "multi" => MultiOK(f)
         /\ f.kind = "primop" => PrimopOK(p, f)
         /\ f.kind \in {"eval", "read", "write", "call", "multi", "primop"}
BY DEF FrameOK

LEMMA EvalFrameOK ==
  /\ \A p : FrameOK(p, EvalFrame)
  /\ NoValues(EvalFrame) /\ EvalFrame.kind = "eval" /\ EvalFrame.res = "none"
BY DEF EvalFrame, FrameOK, EvalOK, Returns, NoValues, ArgumentsOf, OthersOf, PendingOf

LEMMA EntersStep ==
  ASSUME PrimopInv, NEW name \in DOMAIN plugin, EvalEnters(name)
  PROVE  PrimopInv'
<1> DEFINE f == [Top EXCEPT !.entered = TRUE]
           g == PrimopFrame(name, NewValue)
<1>1. Top.kind = "eval" /\ ~Top.entered /\ EvalOK(Top)
  BY TopFacts, KindOf DEF EvalEnters, Running
<1>2. Top.res = "none"
  BY <1>1 DEF EvalOK
<1>3. /\ DOMAIN f = DOMAIN Top /\ f.kind = "eval" /\ f.entered = TRUE /\ f.res = "none"
  BY <1>1, <1>2 DEF EvalOK
<1>4. /\ DOMAIN g = {"kind", "name", "at", "i", "ret", "once", "failed", "res"}
      /\ g.kind = "primop" /\ g.name = name /\ g.at = "args" /\ g.i = 0 /\ g.ret = NewValue
      /\ g.failed = FALSE /\ g.res = "none"
  BY DEF PrimopFrame
<1> HIDE DEF f, g
<1>5. FrameOK(plugin, f) /\ Like(Top, f) /\ NoValues(f)
  BY <1>1, <1>3 DEF FrameOK, EvalOK, Returns, Like, NoValues, ArgumentsOf, OthersOf, PendingOf
<1>6. FrameOK(plugin, g)
  <2>1. NewValue # 0
    BY TopFacts DEF NewValue
  <2> QED
    BY <1>4, <2>1 DEF FrameOK, PrimopOK, Returns
<1>7. Waits(plugin, f, g)
  BY <1>3, <1>4 DEF Waits, Called
<1>8. IsAlloc(values, "ret", values')
  BY TopFacts, Allocated DEF EvalEnters, alloc_value
<1>9. IsPush(stack, f, g, stack')
  <2>1. stack' = Push(f, g)
    BY DEF EvalEnters, f, g
  <2> QED
    BY <2>1, TopFacts, Pushed DEF Push, WithTop
<1>10. ~Failing(Top) /\ ArgumentsOf(Top) = {}
  BY <1>1, <1>2 DEF Failing, ArgumentsOf
<1>11. Inv(plugin, stack, values, slots)
  BY DEF PrimopInv
<1>12. Inv(plugin, stack', values', Append(slots, "ok"))
  <2>1. g.ret = Len(values) + 1
    BY <1>4 DEF NewValue
  <2> QED
    BY <1>1, <1>4, <1>5, <1>6, <1>7, <1>8, <1>9, <1>10, <1>11, <2>1, InvEnters DEF Top
<1> QED
  BY <1>12 DEF PrimopInv, EvalEnters

LEMMA EvalReturnsStep ==
  ASSUME PrimopInv, NEW result \in Results, EvalReturns(result)
  PROVE  PrimopInv'
<1>1. Top.kind = "eval" /\ (Top.res = "error" => result = "error")
  BY DEF EvalReturns, Running
<1>2. Len(stack) > 1
  BY TopFacts, SlotExists DEF EvalReturns
<1>3. \A v \in ArgumentsOf(Top) : values[v].state = "uninit"
  BY <1>1 DEF ArgumentsOf
<1>4. PopsSlot(Top, result, slots, slots')
  BY DEF EvalReturns, with_raw, PopsSlot
<1>5. Top.kind # "primop" /\ Top.kind # "write"
  BY <1>1
<1>6. stack' = Pop(result) /\ UNCHANGED <<plugin, values>>
  BY DEF EvalReturns
<1> QED
  BY <1>2, <1>3, <1>4, <1>5, <1>6, PopStep

LEMMA EvalStep ==
  ASSUME PrimopInv, Eval
  PROVE  PrimopInv'
<1>1. ASSUME EvalEnds PROVE PrimopInv'
  BY <1>1 DEF EvalEnds, PrimopInv
<1> QED
  BY <1>1, EntersStep, EvalReturnsStep DEF Eval

(***************************************************************************)
(* A value is read: the frames of a read own nothing.                      *)
(***************************************************************************)
LEMMA ReadFrameOK ==
  ASSUME NEW f, ReadOK(f), f.kind = "read", f.res \in Returns
  PROVE  (\A p : FrameOK(p, f)) /\ NoValues(f)
BY DEF FrameOK, NoValues, ArgumentsOf, OthersOf, PendingOf

LEMMA ReadFrameFields ==
  ASSUME NEW read
  PROVE  LET g == ReadFrame(read)
         IN  ReadOK(g) /\ g.kind = "read" /\ g.res = "none"
BY DEF ReadFrame, ReadOK

(* The slot is untouched, or cleared by Nix.                               *)
Untouched == slots' = slots \/ with_raw("ok")

LEMMA ReadSet ==
  ASSUME PrimopInv, Top.kind = "read", Top.res # "error", NEW g, ReadOK(g), g.kind = "read",
         g.res \in Returns, stack' = WithTop(g), Untouched, UNCHANGED <<plugin, values>>
  PROVE  PrimopInv'
<1>1. FrameOK(plugin, g) /\ NoValues(g) /\ NoValues(Top) /\ FrameOK(plugin, Top)
  BY ReadFrameOK, TopFacts, KindOf
<1>2. Like(Top, g) /\ Keeps(Top, g) /\ ForgetsNothing(Top, g, values)
  BY <1>1 DEF Like, Keeps, ForgetsNothing, NoValues
<1>3. KeepsSlot(Top, g, slots, slots')
  BY DEF KeepsSlot, Untouched, with_raw, Failing, Results
<1>4. Top.kind # "eval"
  OBVIOUS
<1> QED
  BY <1>1, <1>2, <1>3, <1>4, SetStep

LEMMA ReadPush ==
  ASSUME PrimopInv, Top.kind = "read", Top.res = "none",
         NEW f, ReadOK(f), f.kind = "read", f.res = "none",
         NEW g, FrameOK(plugin, g), NoValues(g), g.kind \in {"eval", "read"},
         stack' = Push(f, g), UNCHANGED <<plugin, slots, values>>
  PROVE  PrimopInv'
<1>1. FrameOK(plugin, f) /\ NoValues(f) /\ NoValues(Top) /\ FrameOK(plugin, Top)
  BY ReadFrameOK, TopFacts, KindOf DEF Returns
<1>2. Like(Top, f) /\ Keeps(Top, f) /\ ForgetsNothing(Top, f, values)
  BY <1>1 DEF Like, Keeps, ForgetsNothing, NoValues
<1>3. Waits(plugin, f, g) /\ ~Failing(Top)
  BY DEF Waits, Called, Failing
<1>4. Top.kind # "eval"
  OBVIOUS
<1> QED
  BY <1>1, <1>2, <1>3, <1>4, PushStep

LEMMA ReadPop ==
  ASSUME PrimopInv, Top.kind = "read", NEW res \in Results, ReadEnds(res),
         PopsSlot(Top, res, slots, slots'), UNCHANGED <<plugin, values>>
  PROVE  PrimopInv'
<1>1. \A v \in ArgumentsOf(Top) : values[v].state = "uninit"
  BY DEF ArgumentsOf
<1>2. Len(stack) > 1 /\ Top.kind # "primop" /\ Top.kind # "write"
  BY TopFacts
<1>3. stack' = Pop(res)
  BY DEF ReadEnds
<1> QED
  BY <1>1, <1>2, <1>3, PopStep

LEMMA ReadNext ==
  ASSUME PrimopInv, Top.kind = "read", Top.res = "none", NextStep, Untouched,
         UNCHANGED <<plugin, values>>
  PROVE  PrimopInv'
<1> DEFINE g == [Top EXCEPT !.steps = Tail(@)]
<1>1. ReadOK(Top)
  BY TopFacts, KindOf
<1>2. ReadOK(g) /\ g.kind = "read" /\ g.res = "none"
  BY <1>1 DEF ReadOK
<1>3. stack' = WithTop(g)
  BY DEF NextStep
<1> HIDE DEF g
<1>4. g.res \in Returns /\ Top.res # "error"
  BY <1>2 DEF Returns
<1> QED
  BY <1>2, <1>3, <1>4, ReadSet

LEMMA ReadStep ==
  ASSUME PrimopInv, Read
  PROVE  PrimopInv'
<1>1. ASSUME Top.kind = "read" PROVE ReadOK(Top) /\ Top.res \in Returns
  BY <1>1, TopFacts, KindOf
<1>2. ASSUME Find PROVE PrimopInv'
  <2>1. Top.kind = "read" /\ Top.res = "none" /\ Untouched /\ UNCHANGED <<plugin, slots, values>>
    BY <1>2 DEF Find, Reading, Running, Untouched
  <2>2. CASE NextStep
    BY <2>1, <2>2, ReadNext
  <2>3. ASSUME NEW res \in Results, ReadEnds(res) PROVE PrimopInv'
    <3>1. PopsSlot(Top, res, slots, slots')
      BY <2>1 DEF PopsSlot, Failing
    <3> QED
      BY <2>1, <2>3, <3>1, ReadPop
  <2> QED
    BY <1>2, <2>2, <2>3 DEF Find, Results
<1>3. ASSUME FindPanics PROVE PrimopInv'
  BY <1>3 DEF FindPanics, Panic, PrimopInv
<1>4. ASSUME ForceValue PROVE PrimopInv'
  <2> DEFINE f == [Top EXCEPT !.steps = Tail(@)]
  <2>1. Top.kind = "read" /\ Top.res = "none" /\ UNCHANGED <<plugin, slots, values>>
    BY <1>4 DEF ForceValue, Reading, Running
  <2>2. ReadOK(f) /\ f.kind = "read" /\ f.res = "none"
    BY <1>1, <2>1 DEF ReadOK
  <2>3. stack' = Push(f, EvalFrame)
    BY <1>4 DEF ForceValue
  <2> HIDE DEF f
  <2>4. EvalFrame.kind \in {"eval", "read"} /\ FrameOK(plugin, EvalFrame) /\ NoValues(EvalFrame)
    BY EvalFrameOK
  <2> QED
    BY <2>1, <2>2, <2>3, <2>4, ReadPush
<1>5. ASSUME Check PROVE PrimopInv'
  <2>1. Top.kind = "read" /\ Top.res = "none" /\ Untouched /\ UNCHANGED <<plugin, slots, values>>
    BY <1>5 DEF Check, Reading, Running, Untouched
  <2>2. CASE NextStep
    BY <2>1, <2>2, ReadNext
  <2>3. CASE ReadEnds("error")
    <3>1. PopsSlot(Top, "error", slots, slots') /\ "error" \in Results
      BY <2>1 DEF PopsSlot, Results
    <3> QED
      BY <2>1, <2>3, <3>1, ReadPop
  <2> QED
    BY <1>5, <2>2, <2>3 DEF Check
<1>6. ASSUME NEW result \in Results, with_string(result) PROVE PrimopInv'
  <2>1. Top.kind = "read" /\ Top.res = "none" /\ with_raw(result) /\ UNCHANGED <<plugin, values>>
    BY <1>6 DEF with_string, Reading, Running
  <2>2. CASE result = "ok"
    <3>1. NextStep /\ Untouched
      BY <1>6, <2>1, <2>2 DEF with_string, Untouched
    <3> QED
      BY <2>1, <3>1, ReadNext
  <2>3. CASE result # "ok"
    <3>1. ReadEnds("error") /\ "error" \in Results
      BY <1>6, <2>3 DEF with_string, Results
    <3>2. PopsSlot(Top, "error", slots, slots')
      BY <2>1 DEF PopsSlot, with_raw
    <3> QED
      BY <2>1, <3>1, <3>2, ReadPop
  <2> QED
    BY <2>2, <2>3
<1>7. ASSUME ReadGoesOn PROVE PrimopInv'
  <2> DEFINE g == [Top EXCEPT !.res = "none"]
  <2>1. Top.kind = "read" /\ Top.res = "ok" /\ Untouched /\ UNCHANGED <<plugin, values>>
    BY <1>7 DEF ReadGoesOn, Running, Untouched
  <2>2. ReadOK(g) /\ g.kind = "read" /\ g.res = "none"
    BY <1>1, <2>1 DEF ReadOK
  <2>3. stack' = WithTop(g)
    BY <1>7 DEF ReadGoesOn
  <2> HIDE DEF g
  <2>4. g.res \in Returns /\ Top.res # "error"
    BY <2>1, <2>2 DEF Returns
  <2> QED
    BY <2>1, <2>2, <2>3, <2>4, ReadSet
<1>8. ASSUME ReadFails PROVE PrimopInv'
  <2>1. Top.kind = "read" /\ ReadEnds("error") /\ UNCHANGED <<plugin, slots, values>>
    BY <1>8 DEF ReadFails, Running
  <2>2. PopsSlot(Top, "error", slots, slots') /\ "error" \in Results
    BY <2>1 DEF PopsSlot, Results
  <2> QED
    BY <2>1, <2>2, ReadPop
<1>9. ASSUME ReadParts PROVE PrimopInv'
  <2>1. Top.kind = "read" /\ Top.res = "none" /\ Untouched /\ UNCHANGED <<plugin, values>>
    BY <1>9 DEF ReadParts, Running, Untouched
  <2>2. PICK parts \in PartsOf(Top.type) :
          stack' = WithTop([Top EXCEPT !.at = "parts", !.parts = parts])
    BY <1>9 DEF ReadParts
  <2> DEFINE g == [Top EXCEPT !.at = "parts", !.parts = parts]
  <2>3. ReadOK(g) /\ g.kind = "read" /\ g.res = "none"
    BY <1>1, <2>1 DEF ReadOK
  <2>4. stack' = WithTop(g)
    BY <2>2
  <2> HIDE DEF g
  <2>5. g.res \in Returns /\ Top.res # "error"
    BY <2>1, <2>3 DEF Returns
  <2> QED
    BY <2>1, <2>3, <2>4, <2>5, ReadSet
<1>10. ASSUME ReadPart PROVE PrimopInv'
  <2>1. Top.kind = "read" /\ Top.res = "none" /\ UNCHANGED <<plugin, slots, values>>
    BY <1>10 DEF ReadPart, Running
  <2>2. CASE Top.parts = << >>
    <3>1. ReadEnds("ok") /\ "ok" \in Results
      BY <1>10, <2>2 DEF ReadPart, ReadEnds, Results
    <3>2. PopsSlot(Top, "ok", slots, slots')
      BY <2>1 DEF PopsSlot, Failing
    <3> QED
      BY <2>1, <3>1, <3>2, ReadPop
  <2>3. CASE Top.parts # << >>
    <3> DEFINE f == [Top EXCEPT !.parts = Tail(@)]
               g == ReadFrame(Head(Top.parts))
    <3>1. ReadOK(f) /\ f.kind = "read" /\ f.res = "none"
      BY <1>1, <2>1 DEF ReadOK
    <3>2. stack' = Push(f, g)
      BY <1>10, <2>3 DEF ReadPart
    <3>3. ReadOK(g) /\ g.kind = "read" /\ g.res \in Returns
      BY ReadFrameFields DEF Returns
    <3> HIDE DEF f, g
    <3>4. FrameOK(plugin, g) /\ NoValues(g) /\ g.kind \in {"eval", "read"}
      BY <3>3, ReadFrameOK
    <3> QED
      BY <2>1, <3>1, <3>2, <3>4, ReadPush
  <2> QED
    BY <2>2, <2>3
<1> QED
  BY <1>2, <1>3, <1>4, <1>5, <1>6, <1>7, <1>8, <1>9, <1>10 DEF Read

(***************************************************************************)
(* A value is written.                                                     *)
(***************************************************************************)
Item == [via : KeyKinds, next : KeyKinds, value : Trees]

Items == Seq(Item)

LEMMA ItemAt ==
  ASSUME NEW items \in Items, NEW i \in Nat, i < Len(items)
  PROVE  items[i + 1] \in Item
<1>1. i + 1 \in 1..Len(items)
  BY DEF Items
<1> QED
  BY <1>1 DEF Items

LEMMA TreeParts ==
  ASSUME NEW tree, Wellformed(tree)
  PROVE  /\ tree.type \in Collections => tree.items \in Items
         /\ tree.type = "wrap" => tree.inner \in Trees
         /\ tree.type = "once" =>
              tree.items \in Items /\ Wellformed([type |-> "list", items |-> tree.items])
<1>1. CASE tree \in Trees
  <2>1. /\ tree.type \in Collections \cup {"once"} => tree.items \in Items
        /\ tree.type = "wrap" => tree.inner \in Trees
    BY <1>1, TreesAssumption DEF Items, Item
  <2>2. tree.type = "once" => Wellformed([type |-> "list", items |-> tree.items])
    BY <1>1 DEF Wellformed
  <2> QED
    BY <2>1, <2>2
<1>2. CASE tree = [type |-> "nix"]
  <2>1. tree.type = "nix"
    BY <1>2
  <2> QED
    BY <2>1 DEF Collections
<1>3. CASE \E inner \in Trees :
             inner.type = "once" /\ tree = [type |-> "list", items |-> inner.items]
  <2>1. PICK inner \in Trees :
          inner.type = "once" /\ tree = [type |-> "list", items |-> inner.items]
    BY <1>3
  <2>2. tree.type = "list" /\ tree.items = inner.items
    BY <2>1
  <2>3. inner.items \in Items
    BY <2>1, TreesAssumption DEF Items, Item
  <2> QED
    BY <2>2, <2>3
<1> QED
  BY <1>1, <1>2, <1>3 DEF Wellformed

LEMMA WriteFrameFields ==
  ASSUME NEW tree, Wellformed(tree), NEW dest, NEW named
  PROVE  LET g == WriteFrame(tree, dest, named)
         IN  /\ \A p : FrameOK(p, g)
             /\ NoValues(g) /\ g.kind = "write" /\ g.tree = tree /\ g.dest = dest
             /\ g.at = "start" /\ g.res = "none"
<1> DEFINE g == WriteFrame(tree, dest, named)
<1>1. /\ DOMAIN g = {"kind", "tree", "dest", "named", "at", "i", "item", "res"}
      /\ g.kind = "write" /\ g.tree = tree /\ g.dest = dest
      /\ g.at = "start" /\ g.i = 0 /\ g.item = 0 /\ g.res = "none"
  BY DEF WriteFrame
<1> HIDE DEF g
<1>2. WriteOK(g)
  BY <1>1 DEF WriteOK
<1>3. NoValues(g)
  BY <1>1 DEF NoValues, ArgumentsOf, OthersOf, PendingOf, Some
<1>4. /\ \A p : FrameOK(p, g)
      /\ NoValues(g) /\ g.kind = "write" /\ g.tree = tree /\ g.dest = dest
      /\ g.at = "start" /\ g.res = "none"
  BY <1>1, <1>2, <1>3 DEF FrameOK, Returns
<1> QED
  BY <1>4 DEF g

(* The frame that was called writes where the caller wants it to.          *)
LEMMA WriteFrameWaits ==
  ASSUME NEW tree, Wellformed(tree), NEW f, NEW named
  PROVE  WritesFor(f, WriteFrame(tree, GivenValue(f), named))
BY WriteFrameFields DEF WritesFor

LEMMA WriteTop ==
  ASSUME PrimopInv, Top.kind = "write"
  PROVE  /\ WriteOK(Top) /\ ArgumentsOf(Top) = {} /\ Len(stack) > 1
         /\ Failing(Top) <=> Top.res = "error"
         /\ Top.res = "none" => ~Failing(Top)
BY TopFacts, KindOf DEF ArgumentsOf, Failing

(* The slot has an error only if the write fails.                          *)
SlotTells(res) ==
  slots' = slots \/ \E result \in Results : with_raw(result) /\ (result = "error" => res = "error")

LEMMA WriteFailsStep ==
  ASSUME PrimopInv, Top.kind = "write", stack' = Pop("error"), SlotTells("error"),
         UNCHANGED <<plugin, values>>
  PROVE  PrimopInv'
<1>1. PopsSlot(Top, "error", slots, slots') /\ "error" \in Results
  BY DEF PopsSlot, SlotTells, with_raw, Results
<1>2. Len(stack) > 1 /\ Top.kind # "primop" /\ \A v \in ArgumentsOf(Top) : values[v].state = "uninit"
  BY WriteTop
<1> QED
  BY <1>1, <1>2, PopStep

LEMMA WriteEndsStep ==
  ASSUME PrimopInv, Top.kind = "write", Top.res = "none", NEW result \in Results,
         WriteEnds(result), SlotTells(result)
  PROVE  PrimopInv'
<1>1. CASE result = "ok"
  <2>1. values' = Initialised(Top.dest, "value") /\ stack' = Pop("ok") /\ plugin' = plugin
    BY <1>1 DEF WriteEnds
  <2>2. PopsSlot(Top, "ok", slots, slots')
    BY <1>1, WriteTop DEF PopsSlot, SlotTells, with_raw
  <2>3. Inv(plugin, stack', values', slots')
    BY <2>1, <2>2, WrittenStep
  <2> QED
    BY <2>1, <2>3 DEF PrimopInv
<1>2. CASE result = "error"
  <2>1. stack' = Pop("error") /\ UNCHANGED <<plugin, values>>
    BY <1>2 DEF WriteEnds
  <2> QED
    BY <1>2, <2>1, WriteFailsStep
<1> QED
  BY <1>1, <1>2 DEF Results

LEMMA WriteSet ==
  ASSUME PrimopInv, Top.kind = "write", Top.res # "error",
         NEW g, FrameOK(plugin, g), Like(Top, g), OthersOf(g) = {},
         stack' = WithTop(g), UNCHANGED <<plugin, slots, values>>
  PROVE  PrimopInv'
<1>1. g.kind = "write"
  BY DEF Like
<1>2. Keeps(Top, g) /\ ForgetsNothing(Top, g, values)
  BY <1>1 DEF Keeps, ForgetsNothing, ArgumentsOf, OthersOf, PendingOf
<1>3. KeepsSlot(Top, g, slots, slots')
  BY <1>1, WriteTop DEF KeepsSlot
<1> QED
  BY <1>2, <1>3, SetStep

LEMMA WriteWholeStep ==
  ASSUME PrimopInv, NEW result \in Results,
         \/ WriteScalar(result) \/ WriteText(result) \/ WriteBigInt(result)
         \/ TextRefused \/ WritePath \/ BuildCollection
  PROVE  PrimopInv'
<1>1. ASSUME WriteScalar(result) \/ WriteText(result) PROVE PrimopInv'
  <2>1. Top.kind = "write" /\ Top.res = "none" /\ WriteEnds(result) /\ with_raw(result)
    BY <1>1 DEF WriteScalar, WriteText, Writing, Running
  <2>2. SlotTells(result)
    BY <2>1 DEF SlotTells
  <2> QED
    BY <2>1, <2>2, WriteEndsStep
<1>2. ASSUME WriteBigInt(result) PROVE PrimopInv'
  <2>1. Top.kind = "write" /\ Top.res = "none" /\ WriteEnds(result)
    BY <1>2 DEF WriteBigInt, Writing, Running
  <2>2. SlotTells(result)
    BY <1>2 DEF SlotTells, WriteBigInt
  <2> QED
    BY <2>1, <2>2, WriteEndsStep
<1>3. ASSUME TextRefused PROVE PrimopInv'
  <2>1. Top.kind = "write" /\ Top.res = "none" /\ WriteEnds("error") /\ slots' = slots
    BY <1>3 DEF TextRefused, Writing, Running
  <2>2. SlotTells("error") /\ "error" \in Results
    BY <2>1 DEF SlotTells, Results
  <2> QED
    BY <2>1, <2>2, WriteEndsStep
<1>4. ASSUME WritePath \/ BuildCollection PROVE PrimopInv'
  <2>1. Top.kind = "write" /\ Top.res = "none" /\ WriteEnds("ok") /\ slots' = slots
    BY <1>4 DEF WritePath, BuildCollection, Writing, Running
  <2>2. SlotTells("ok") /\ "ok" \in Results
    BY <2>1 DEF SlotTells, Results
  <2> QED
    BY <2>1, <2>2, WriteEndsStep
<1> QED
  BY <1>1, <1>2, <1>3, <1>4

LEMMA WriteCopyStep ==
  ASSUME PrimopInv, WriteCopy
  PROVE  PrimopInv'
<1> DEFINE state == IF Top.tree.type = "thunk" THEN "thunk" ELSE "value"
<1>1. /\ Top.kind = "write" /\ Top.res = "none" /\ stack' = Pop("ok")
      /\ values' = Initialised(Top.dest, state) /\ UNCHANGED <<plugin, slots>>
  BY DEF WriteCopy, Writing, Running
<1>2. state \in {"value", "thunk"} /\ (state = "thunk" => Top.tree.type = "thunk")
  OBVIOUS
<1> HIDE DEF state
<1>3. PopsSlot(Top, "ok", slots, slots')
  BY <1>1, WriteTop DEF PopsSlot
<1>4. Inv(plugin, stack', values', slots')
  BY <1>1, <1>2, <1>3, WrittenStep
<1> QED
  BY <1>1, <1>4 DEF PrimopInv

LEMMA WriteWrappedStep ==
  ASSUME PrimopInv, WriteWrapped
  PROVE  PrimopInv'
<1> DEFINE g == [Top EXCEPT !.tree = Top.tree.inner]
<1>1. /\ Top.kind = "write" /\ Top.res = "none" /\ Top.at = "start" /\ Top.tree.type = "wrap"
      /\ stack' = WithTop(g) /\ UNCHANGED <<plugin, slots, values>>
  BY DEF WriteWrapped, Writing, Running
<1>2. WriteOK(Top)
  BY <1>1, WriteTop
<1>3. /\ DOMAIN g = DOMAIN Top /\ g.kind = "write" /\ g.tree = Top.tree.inner
      /\ g.dest = Top.dest /\ g.named = Top.named /\ g.at = "start" /\ g.i = Top.i
      /\ g.item = Top.item /\ g.res = "none"
  BY <1>1, <1>2 DEF WriteOK
<1> HIDE DEF g
<1>4. Wellformed(g.tree)
  <2>1. Top.tree.inner \in Trees
    BY <1>1, <1>2, TreeParts DEF WriteOK
  <2> QED
    BY <1>3, <2>1 DEF Wellformed
<1>5. FrameOK(plugin, g)
  BY <1>1, <1>2, <1>3, <1>4 DEF FrameOK, WriteOK, Returns
<1>6. Like(Top, g)
  BY <1>1, <1>3 DEF Like
<1>7. OthersOf(g) = {}
  BY <1>1, <1>2, <1>3 DEF WriteOK, OthersOf, Some
<1> QED
  BY <1>1, <1>5, <1>6, <1>7, WriteSet

LEMMA WritePrimopStep ==
  ASSUME PrimopInv, write_primop
  PROVE  PrimopInv'
<1>1. Top.kind = "write" /\ Top.res = "none"
  BY DEF write_primop, Writing, Running
<1>2. CASE Panic
  BY <1>2 DEF Panic, PrimopInv
<1>3. CASE with_raw("error") /\ WriteEnds("error")
  <2>1. SlotTells("error") /\ "error" \in Results
    BY <1>3 DEF SlotTells, Results
  <2> QED
    BY <1>1, <1>3, <2>1, WriteEndsStep
<1>4. ASSUME NEW result \in Results, with_raw("ok"), WriteEnds(result) PROVE PrimopInv'
  <2>1. SlotTells(result)
    BY <1>4 DEF SlotTells, Results
  <2> QED
    BY <1>1, <1>4, <2>1, WriteEndsStep
<1> QED
  BY <1>2, <1>3, <1>4 DEF write_primop

LEMMA WriteAbortsStep ==
  ASSUME PrimopInv, ItemAllocFails \/ ItemFails \/ OnceAllocFails
  PROVE  PrimopInv'
<1>1. Top.kind = "write" /\ stack' = Pop("error") /\ UNCHANGED <<plugin, slots, values>>
  BY DEF ItemAllocFails, ItemFails, OnceAllocFails, Writing, Running
<1>2. SlotTells("error")
  BY <1>1 DEF SlotTells
<1> QED
  BY <1>1, <1>2, WriteFailsStep

LEMMA MakeBuilderStep ==
  ASSUME PrimopInv, MakeBuilder
  PROVE  PrimopInv'
<1> DEFINE g == [Top EXCEPT !.at = "items"]
<1>1. /\ Top.kind = "write" /\ Top.res = "none" /\ Top.at = "start"
      /\ Top.tree.type \in Collections /\ UNCHANGED <<plugin, slots, values>>
  BY DEF MakeBuilder, Writing, Running
<1>2. WriteOK(Top)
  BY <1>1, WriteTop
<1>3. /\ DOMAIN g = DOMAIN Top /\ g.kind = "write" /\ g.tree = Top.tree
      /\ g.dest = Top.dest /\ g.named = Top.named /\ g.at = "items" /\ g.i = Top.i
      /\ g.item = Top.item /\ g.res = "none"
  BY <1>1, <1>2 DEF WriteOK
<1>4. ASSUME stack' = WithTop(g) PROVE PrimopInv'
  <2> HIDE DEF g
  <2>1. Len(Top.tree.items) \in Nat
    BY <1>1, <1>2, TreeParts DEF WriteOK, Items
  <2>2. FrameOK(plugin, g)
    BY <1>1, <1>2, <1>3, <2>1 DEF FrameOK, WriteOK, Returns
  <2>3. Like(Top, g)
    BY <1>1, <1>3 DEF Like
  <2>4. OthersOf(g) = {}
    BY <1>1, <1>2, <1>3 DEF WriteOK, OthersOf, Some
  <2> QED
    BY <1>1, <1>4, <2>2, <2>3, <2>4, WriteSet
<1>5. ASSUME stack' = Pop("error") PROVE PrimopInv'
  <2>1. SlotTells("error")
    BY <1>1 DEF SlotTells
  <2> QED
    BY <1>1, <1>5, <2>1, WriteFailsStep
<1> QED
  BY <1>4, <1>5 DEF MakeBuilder

LEMMA WriteItemStep ==
  ASSUME PrimopInv, WriteItem
  PROVE  PrimopInv'
<1> DEFINE item == Top.tree.items[Top.i + 1]
           f == [Top EXCEPT !.at = "item", !.item = NewValue]
           g == WriteFrame(item.value, NewValue, Top.named)
<1>1. /\ Top.kind = "write" /\ Top.res = "none" /\ Top.at = "items"
      /\ Top.tree.type \in Collections /\ Top.i < Len(Top.tree.items)
      /\ values' = alloc_value("item") /\ stack' = Push(f, g) /\ UNCHANGED <<plugin, slots>>
  BY DEF WriteItem, NextItem, Writing, Running
<1>2. WriteOK(Top) /\ ~Failing(Top) /\ ArgumentsOf(Top) = {}
  BY <1>1, WriteTop
<1>3. /\ DOMAIN f = DOMAIN Top /\ f.kind = "write" /\ f.tree = Top.tree
      /\ f.dest = Top.dest /\ f.at = "item" /\ f.i = Top.i
      /\ f.item = NewValue /\ f.res = "none"
  BY <1>1, <1>2 DEF WriteOK
<1>4. item \in Item
  <2>1. Top.tree.items \in Items /\ Top.i \in Nat
    BY <1>1, <1>2, TreeParts DEF WriteOK
  <2> QED
    BY <1>1, <2>1, ItemAt
<1>5. Wellformed(item.value)
  BY <1>4 DEF Wellformed, Item
<1>7. NewValue # 0 /\ NewValue = Len(values) + 1
  BY TopFacts DEF NewValue
<1>8. Like(Top, f)
  BY <1>1, <1>3 DEF Like
<1> HIDE DEF f, item
<1>9. FrameOK(plugin, f)
  BY <1>1, <1>2, <1>3, <1>7 DEF FrameOK, WriteOK, Returns
<1>10. TakesNew(Top, f, NewValue, "item") /\ ~Failing(f) /\ ForgetsNothing(Top, f, values)
  BY <1>2, <1>3, <1>7 DEF TakesNew, ForgetsNothing, ArgumentsOf, OthersOf, PendingOf, IsWritten,
                          Failing, Some
<1>11. FrameOK(plugin, g) /\ NoValues(g)
  BY <1>5, WriteFrameFields
<1>12. Waits(plugin, f, g)
  <2>1. GivenValue(f) = NewValue
    BY <1>3 DEF GivenValue
  <2>2. WritesFor(f, g)
    BY <1>5, <2>1, WriteFrameWaits
  <2> QED
    BY <1>3, <2>2 DEF Waits, Called
<1> HIDE DEF g
<1>13. Inv(plugin, stack', values', slots)
  BY <1>1, <1>2, <1>8, <1>9, <1>10, <1>11, <1>12, AllocPushStep
<1> QED
  BY <1>1, <1>13 DEF PrimopInv

LEMMA ItemWrittenStep ==
  ASSUME PrimopInv, ItemWritten
  PROVE  PrimopInv'
<1> DEFINE g == [Top EXCEPT !.at = "items", !.item = 0, !.i = @ + 1, !.res = "none"]
<1>1. /\ Top.kind = "write" /\ Top.res = "ok" /\ Top.at = "item"
      /\ stack' = WithTop(g) /\ UNCHANGED <<plugin, slots, values>>
  BY DEF ItemWritten, Running
<1>2. WriteOK(Top)
  BY <1>1, WriteTop
<1>3. /\ DOMAIN g = DOMAIN Top /\ g.kind = "write" /\ g.tree = Top.tree
      /\ g.dest = Top.dest /\ g.at = "items" /\ g.i = Top.i + 1
      /\ g.item = 0 /\ g.res = "none"
  BY <1>1, <1>2 DEF WriteOK
<1> HIDE DEF g
<1>5. Top.tree.items \in Items /\ Top.i < Len(Top.tree.items) /\ Top.tree.type \in Collections
  BY <1>1, <1>2, TreeParts DEF WriteOK
<1>6. FrameOK(plugin, g)
  <2>1. g.i \in Nat /\ g.i <= Len(g.tree.items)
    BY <1>2, <1>3, <1>5 DEF WriteOK, Items
  <2> QED
    BY <1>1, <1>2, <1>3, <1>5, <2>1 DEF FrameOK, WriteOK, Returns
<1>7. Like(Top, g)
  BY <1>1, <1>3 DEF Like
<1>8. OthersOf(g) = {}
  BY <1>3 DEF OthersOf, Some
<1> QED
  BY <1>1, <1>6, <1>7, <1>8, WriteSet

LEMMA OnceTakeStep ==
  ASSUME PrimopInv, OnceTake
  PROVE  PrimopInv'
<1> DEFINE f == [Top EXCEPT !.at = "list", !.item = NewValue]
           tree == [type |-> "list", items |-> Top.tree.items]
           g == WriteFrame(tree, NewValue, Top.named)
           t == Push(f, g)
<1>1. /\ Top.kind = "write" /\ Top.res = "none" /\ Top.at = "start" /\ Top.tree.type = "once"
      /\ values' = alloc_value("once") /\ UNCHANGED <<plugin, slots>>
      /\ stack' = WithIter(t, Top.tree.id, "taken")
  BY DEF OnceTake, Writing, Running
<1>2. WriteOK(Top) /\ ~Failing(Top) /\ ArgumentsOf(Top) = {}
  BY <1>1, WriteTop
<1>3. /\ DOMAIN f = DOMAIN Top /\ f.kind = "write" /\ f.tree = Top.tree
      /\ f.dest = Top.dest /\ f.named = Top.named /\ f.at = "list" /\ f.i = Top.i
      /\ f.item = NewValue /\ f.res = "none"
  BY <1>1, <1>2 DEF WriteOK
<1>4. Wellformed(tree)
  BY <1>1, <1>2, TreeParts DEF WriteOK
<1>5. NewValue # 0 /\ NewValue = Len(values) + 1
  BY TopFacts DEF NewValue
<1> HIDE DEF f, tree
<1>6. FrameOK(plugin, f)
  BY <1>1, <1>2, <1>3, <1>5 DEF FrameOK, WriteOK, Returns
<1>7. Like(Top, f)
  BY <1>1, <1>3 DEF Like
<1>8. TakesNew(Top, f, NewValue, "once") /\ ~Failing(f) /\ ForgetsNothing(Top, f, values)
  BY <1>2, <1>3, <1>5 DEF TakesNew, ForgetsNothing, ArgumentsOf, OthersOf, PendingOf, IsWritten,
                          Failing, Some
<1>9. FrameOK(plugin, g) /\ NoValues(g)
  BY <1>4, WriteFrameFields
<1>10. Waits(plugin, f, g)
  <2>1. GivenValue(f) = NewValue
    BY <1>3 DEF GivenValue
  <2>2. WritesFor(f, g)
    BY <1>4, <2>1, WriteFrameWaits
  <2> QED
    BY <1>3, <2>2 DEF Waits, Called
<1> HIDE DEF g
<1>11. Inv(plugin, t, values', slots)
  BY <1>1, <1>2, <1>6, <1>7, <1>8, <1>9, <1>10, AllocPushStep
<1> HIDE DEF t
<1>12. IsRenewed(t, stack')
  <2>1. IsStack(t)
    BY <1>11 DEF Inv, Shape
  <2> QED
    BY <1>1, <2>1, Renewed DEF WithIter
<1>13. Inv(plugin, stack', values', slots)
  BY <1>11, <1>12, InvRenewed
<1> QED
  BY <1>1, <1>13 DEF PrimopInv

LEMMA OnceFinishStep ==
  ASSUME PrimopInv, NEW result \in Results, OnceFinish(result)
  PROVE  PrimopInv'
<1> DEFINE t == Pop(result)
<1>1. /\ Top.kind = "write" /\ Top.at = "list" /\ Top.res = result
      /\ stack' = WithIter(t, Top.tree.id, result) /\ UNCHANGED <<plugin, slots>>
      /\ values' = IF result = "ok" THEN Initialised(Top.dest, "value") ELSE Released({Top.item})
  BY DEF OnceFinish, Running
<1>2. WriteOK(Top) /\ ArgumentsOf(Top) = {} /\ Len(stack) > 1
  BY <1>1, WriteTop
<1>3. PopsSlot(Top, result, slots, slots')
  BY <1>1, WriteTop DEF PopsSlot
<1>4. Inv(plugin, t, values', slots')
  <2>1. CASE result = "ok"
    BY <1>1, <1>3, <2>1, WrittenStep
  <2>2. CASE result = "error"
    <3>1. {Top.item} \subseteq Owns(Top)
      BY <1>1, <1>2 DEF WriteOK, Owns, OthersOf, Some
    <3>2. /\ values' = Released({Top.item}) /\ Top.kind # "primop"
          /\ \A v \in ArgumentsOf(Top) : v \in {Top.item} \/ values[v].state = "uninit"
      BY <1>1, <1>2, <2>2
    <3> QED
      BY <1>2, <1>3, <2>2, <3>1, <3>2, ReleaseStep
  <2> QED
    BY <2>1, <2>2 DEF Results
<1> HIDE DEF t
<1>5. IsRenewed(t, stack')
  <2>1. IsStack(t)
    BY <1>4 DEF Inv, Shape
  <2> QED
    BY <1>1, <2>1, Renewed DEF WithIter
<1>6. Inv(plugin, stack', values', slots')
  BY <1>4, <1>5, InvRenewed
<1> QED
  BY <1>1, <1>6 DEF PrimopInv

LEMMA OnceAgainStep ==
  ASSUME PrimopInv, OnceAgain
  PROVE  PrimopInv'
<1>1. Top.kind = "write" /\ Top.res = "none"
  BY DEF OnceAgain, Writing, Running
<1>2. CASE Panic
  BY <1>2 DEF Panic, PrimopInv
<1>3. ASSUME NEW result \in Results, WriteEnds(result), UNCHANGED slots PROVE PrimopInv'
  <2>1. SlotTells(result)
    BY <1>3 DEF SlotTells
  <2> QED
    BY <1>1, <1>3, <2>1, WriteEndsStep
<1> QED
  BY <1>2, <1>3 DEF OnceAgain

LEMMA WriteStep ==
  ASSUME PrimopInv, Write
  PROVE  PrimopInv'
<1>1. ASSUME KeyPanics PROVE PrimopInv'
  BY <1>1 DEF KeyPanics, Panic, PrimopInv
<1>2. ASSUME TextRefused \/ WritePath \/ BuildCollection PROVE PrimopInv'
  <2>1. "ok" \in Results
    BY DEF Results
  <2> QED
    BY <1>2, <2>1, WriteWholeStep
<1> QED
  BY <1>1, <1>2, WriteWholeStep, WriteCopyStep, WriteWrappedStep, WritePrimopStep, WriteAbortsStep,
     MakeBuilderStep, WriteItemStep, ItemWrittenStep, OnceTakeStep, OnceFinishStep, OnceAgainStep
  DEF Write

(***************************************************************************)
(* Callable::call.                                                         *)
(***************************************************************************)
LEMMA CallTop ==
  ASSUME PrimopInv, Top.kind = "call"
  PROVE  /\ CallOK(Top) /\ Len(stack) > 1 /\ FrameOK(plugin, Top)
         /\ ArgumentsOf(Top) = Some(Top.arg_value) /\ OthersOf(Top) = Some(Top.dest)
         /\ Top.at \in {"start", "dest"} => ArgumentsOf(Top) = {}
         /\ Failing(Top) <=> Top.res = "error" \/ Top.failed
BY TopFacts, KindOf DEF ArgumentsOf, OthersOf, Failing, CallOK, Some

LEMMA CallFrameFields ==
  ASSUME NEW arg \in Trees
  PROVE  LET g == CallFrame(arg)
         IN  (\A p : FrameOK(p, g)) /\ NoValues(g) /\ g.kind = "call" /\ g.res = "none"
<1> DEFINE g == CallFrame(arg)
<1>1. /\ DOMAIN g = {"kind", "arg", "at", "dest", "arg_value", "failed", "res"}
      /\ g.kind = "call" /\ g.arg = arg /\ g.at = "start" /\ g.dest = 0 /\ g.arg_value = 0
      /\ g.failed = FALSE /\ g.res = "none"
  BY DEF CallFrame
<1> HIDE DEF g
<1>2. CallOK(g)
  BY <1>1 DEF CallOK
<1>3. NoValues(g)
  BY <1>1 DEF NoValues, ArgumentsOf, OthersOf, PendingOf, Some
<1>4. (\A p : FrameOK(p, g)) /\ NoValues(g) /\ g.kind = "call" /\ g.res = "none"
  BY <1>1, <1>2, <1>3 DEF FrameOK, Returns
<1> QED
  BY <1>4 DEF g

LEMMA CallFailsStep ==
  ASSUME PrimopInv, Top.kind = "call", Top.at \in {"start", "dest"}, stack' = Pop("error"),
         UNCHANGED <<plugin, slots, values>>
  PROVE  PrimopInv'
<1>1. PopsSlot(Top, "error", slots, slots') /\ "error" \in Results
  BY DEF PopsSlot, Results
<1>2. /\ Len(stack) > 1 /\ Top.kind # "primop" /\ Top.kind # "write"
      /\ \A v \in ArgumentsOf(Top) : values[v].state = "uninit"
  BY CallTop
<1> QED
  BY <1>1, <1>2, PopStep

LEMMA CallAllocDestStep ==
  ASSUME PrimopInv, CallAllocDest
  PROVE  PrimopInv'
<1> DEFINE g == [Top EXCEPT !.at = "dest", !.dest = NewValue]
<1>1. Top.kind = "call" /\ Top.at = "start" /\ UNCHANGED <<plugin, slots>>
  BY DEF CallAllocDest, Calling, Running
<1>2. CASE UNCHANGED values /\ stack' = Pop("error")
  BY <1>1, <1>2, CallFailsStep
<1>3. CASE values' = alloc_value("dest") /\ stack' = WithTop(g)
  <2>1. CallOK(Top) /\ ArgumentsOf(Top) = {} /\ ~Failing(Top)
    BY <1>1, CallTop DEF CallOK
  <2>2. /\ DOMAIN g = DOMAIN Top /\ g.kind = "call" /\ g.arg = Top.arg /\ g.at = "dest"
        /\ g.dest = NewValue /\ g.arg_value = Top.arg_value /\ g.failed = Top.failed
        /\ g.res = Top.res
    BY <1>1, <2>1 DEF CallOK
  <2>3. NewValue # 0
    BY TopFacts DEF NewValue
  <2>4. stack' = WithTop(g)
    BY <1>3
  <2> HIDE DEF g
  <2>5. FrameOK(plugin, g) /\ Like(Top, g)
    BY <1>1, <2>1, <2>2, <2>3 DEF FrameOK, CallOK, Returns, Like
  <2>6. TakesNew(Top, g, NewValue, "dest") /\ ForgetsNothing(Top, g, values)
    BY <1>1, <2>1, <2>2 DEF TakesNew, ForgetsNothing, ArgumentsOf, OthersOf, PendingOf, IsWritten,
                            Some, CallOK
  <2> QED
    BY <1>1, <1>3, <2>1, <2>4, <2>5, <2>6, AllocSetStep
<1> QED
  BY <1>2, <1>3 DEF CallAllocDest

LEMMA CallAllocArgStep ==
  ASSUME PrimopInv, CallAllocArg
  PROVE  PrimopInv'
<1> DEFINE f == [Top EXCEPT !.at = "arg", !.arg_value = NewValue]
           g == WriteFrame(Top.arg, NewValue, FALSE)
<1>1. Top.kind = "call" /\ Top.at = "dest" /\ UNCHANGED <<plugin, slots>>
  BY DEF CallAllocArg, Calling, Running
<1>2. CASE UNCHANGED values /\ stack' = Pop("error")
  BY <1>1, <1>2, CallFailsStep
<1>3. CASE values' = alloc_value("arg") /\ stack' = Push(f, g)
  <2>1. CallOK(Top) /\ ArgumentsOf(Top) = {} /\ ~Failing(Top)
    BY <1>1, CallTop DEF CallOK
  <2>2. /\ DOMAIN f = DOMAIN Top /\ f.kind = "call" /\ f.arg = Top.arg /\ f.at = "arg"
        /\ f.dest = Top.dest /\ f.arg_value = NewValue /\ f.failed = Top.failed
        /\ f.res = Top.res
    BY <1>1, <2>1 DEF CallOK
  <2>3. NewValue # 0
    BY TopFacts DEF NewValue
  <2>4. stack' = Push(f, g)
    BY <1>3
  <2> HIDE DEF f
  <2>5. FrameOK(plugin, f) /\ Like(Top, f) /\ ~Failing(f)
    BY <1>1, <2>1, <2>2, <2>3 DEF FrameOK, CallOK, Returns, Like, Failing
  <2>6. TakesNew(Top, f, NewValue, "arg") /\ ForgetsNothing(Top, f, values)
    BY <1>1, <2>1, <2>2 DEF TakesNew, ForgetsNothing, ArgumentsOf, OthersOf, PendingOf, IsWritten,
                            Some, CallOK
  <2>7. Wellformed(Top.arg)
    BY <2>1 DEF Wellformed, CallOK
  <2>8. FrameOK(plugin, g) /\ NoValues(g)
    BY <2>7, WriteFrameFields
  <2>9. Waits(plugin, f, g)
    <3>1. GivenValue(f) = NewValue
      BY <2>2 DEF GivenValue
    <3>2. WritesFor(f, g)
      BY <2>7, <3>1, WriteFrameWaits
    <3>3. f.res = "none"
      BY <1>1, <2>1, <2>2 DEF CallOK
    <3> QED
      BY <2>2, <3>2, <3>3 DEF Waits, Called
  <2> HIDE DEF g
  <2>10. Inv(plugin, stack', values', slots)
    BY <1>1, <1>3, <2>1, <2>4, <2>5, <2>6, <2>8, <2>9, AllocPushStep
  <2> QED
    BY <1>1, <2>10 DEF PrimopInv
<1> QED
  BY <1>2, <1>3 DEF CallAllocArg

LEMMA CallArgFailsStep ==
  ASSUME PrimopInv, CallArgFails
  PROVE  PrimopInv'
<1> DEFINE g == [Top EXCEPT !.at = "release", !.failed = TRUE]
<1>1. /\ Top.kind = "call" /\ Top.at = "arg" /\ Top.res = "error" /\ stack' = WithTop(g)
      /\ UNCHANGED <<plugin, slots, values>>
  BY DEF CallArgFails, Calling, Running
<1>2. CallOK(Top)
  BY <1>1, CallTop
<1>3. /\ DOMAIN g = DOMAIN Top /\ g.kind = "call" /\ g.arg = Top.arg /\ g.at = "release"
      /\ g.dest = Top.dest /\ g.arg_value = Top.arg_value /\ g.failed = TRUE /\ g.res = Top.res
  BY <1>1, <1>2 DEF CallOK
<1> HIDE DEF g
<1>4. FrameOK(plugin, g) /\ Like(Top, g)
  BY <1>1, <1>2, <1>3 DEF FrameOK, CallOK, Returns, Like
<1>5. Keeps(Top, g) /\ ForgetsNothing(Top, g, values)
  BY <1>1, <1>3 DEF Keeps, ForgetsNothing, ArgumentsOf, OthersOf, PendingOf
<1>6. KeepsSlot(Top, g, slots, slots')
  BY <1>1, <1>3 DEF KeepsSlot, Failing
<1> QED
  BY <1>1, <1>4, <1>5, <1>6, SetStep

LEMMA InitApplyStep ==
  ASSUME PrimopInv, NEW result \in Results, init_apply(result)
  PROVE  PrimopInv'
<1> DEFINE g == [Top EXCEPT !.at = "release", !.failed = (result = "error")]
<1>1. /\ Top.kind = "call" /\ Top.at = "arg" /\ Top.res = "ok" /\ stack' = WithTop(g)
      /\ slots' = [slots EXCEPT ![Len(slots)] = result] /\ plugin' = plugin
      /\ values' = IF result = "ok" THEN Initialised(Top.dest, "thunk") ELSE values
  BY DEF init_apply, Calling, Running, with_raw
<1>2. CallOK(Top) /\ OthersOf(Top) = Some(Top.dest)
  BY <1>1, CallTop
<1>3. /\ DOMAIN g = DOMAIN Top /\ g.kind = "call" /\ g.arg = Top.arg /\ g.at = "release"
      /\ g.dest = Top.dest /\ g.arg_value = Top.arg_value /\ g.failed = (result = "error")
      /\ g.res = Top.res
  BY <1>1, <1>2 DEF CallOK
<1> HIDE DEF g
<1>4. FrameOK(plugin, g) /\ Like(Top, g)
  BY <1>1, <1>2, <1>3 DEF FrameOK, CallOK, Returns, Like
<1>5. Keeps(Top, g) /\ ForgetsNothing(Top, g, values')
  BY <1>1, <1>3 DEF Keeps, ForgetsNothing, ArgumentsOf, OthersOf, PendingOf
<1>6. KeepsSlot(Top, g, slots, slots')
  BY <1>1, <1>3 DEF KeepsSlot, Failing
<1>7. Inv(plugin, stack, values', slots)
  <2>1. Inv(plugin, stack, values, slots)
    BY DEF PrimopInv
  <2>2. CASE result = "ok"
    <3>1. Top.dest \in OthersOf(Top) /\ Top.dest \in 1..Len(values) /\ values \in Seq(Value)
      BY <1>1, <1>2, TopFacts DEF CallOK, Some, Owns
    <3>2. IsInit(values, Top.dest, "thunk", values')
      BY <1>1, <2>2, <3>1, Initialises DEF Initialised
    <3> QED
      BY <1>1, <2>1, <3>1, <3>2, InvInit DEF Top
  <2>3. CASE result # "ok"
    BY <1>1, <2>1, <2>3
  <2> QED
    BY <2>2, <2>3
<1>8. IsSet(stack, g, stack')
  BY <1>1, TopFacts, TopSet DEF WithTop
<1>9. Inv(plugin, stack', values', slots')
  BY <1>1, <1>4, <1>5, <1>6, <1>7, <1>8, InvSet DEF Top
<1> QED
  BY <1>1, <1>9 DEF PrimopInv

LEMMA CallReleaseStep ==
  ASSUME PrimopInv, CallRelease
  PROVE  PrimopInv'
<1> DEFINE released == {Top.arg_value} \cup IF Top.failed THEN {Top.dest} ELSE {}
           res == IF Top.failed THEN "error" ELSE "ok"
<1>1. /\ Top.kind = "call" /\ Top.at = "release" /\ with_raw("ok")
      /\ values' = Released(released) /\ stack' = Pop(res) /\ plugin' = plugin
  BY DEF CallRelease, Calling, Running
<1>2. /\ CallOK(Top) /\ Len(stack) > 1
      /\ ArgumentsOf(Top) = Some(Top.arg_value) /\ OthersOf(Top) = Some(Top.dest)
  BY <1>1, CallTop
<1>3. released \subseteq Owns(Top) /\ \A v \in ArgumentsOf(Top) : v \in released
  BY <1>1, <1>2 DEF CallOK, Owns, Some
<1>4. res \in Results
  BY DEF Results
<1> HIDE DEF released, res
<1>5. PopsSlot(Top, res, slots, slots')
  BY <1>1 DEF PopsSlot, with_raw, Results
<1>6. Top.kind # "primop" /\ Top.kind # "write"
  BY <1>1
<1>7. Inv(plugin, stack', values', slots')
  BY <1>1, <1>2, <1>3, <1>4, <1>5, <1>6, ReleaseStep
<1> QED
  BY <1>1, <1>7 DEF PrimopInv

LEMMA CallStep ==
  ASSUME PrimopInv, Call
  PROVE  PrimopInv'
BY CallAllocDestStep, CallAllocArgStep, CallArgFailsStep, InitApplyStep, CallReleaseStep DEF Call

(***************************************************************************)
(* Callable::call_multi.                                                   *)
(***************************************************************************)
LEMMA AppendTyping ==
  ASSUME NEW S, NEW s \in Seq(S), NEW e \in S
  PROVE  Append(s, e) \in Seq(S)
OBVIOUS

LEMMA ToSetAppend ==
  ASSUME NEW S, NEW s \in Seq(S), NEW e
  PROVE  ToSet(Append(s, e)) = ToSet(s) \cup {e}
<1> DEFINE t == Append(s, e)
<1>1. /\ DOMAIN s = 1..Len(s) /\ DOMAIN t = 1..(Len(s) + 1) /\ Len(s) \in Nat
      /\ t[Len(s) + 1] = e /\ \A j \in 1..Len(s) : t[j] = s[j]
  OBVIOUS
<1> HIDE DEF t
<1>2. \A j : j \in 1..(Len(s) + 1) <=> j \in 1..Len(s) \/ j = Len(s) + 1
  BY <1>1
<1>3. ToSet(t) = ToSet(s) \cup {e}
  BY <1>1, <1>2 DEF ToSet
<1> QED
  BY <1>3 DEF t

LEMMA ToSetTyping ==
  ASSUME NEW S, NEW s \in Seq(S)
  PROVE  ToSet(s) \subseteq S
BY DEF ToSet

LEMMA ToSetEmpty == ToSet(<< >>) = {}
BY DEF ToSet

LEMMA MultiTop ==
  ASSUME PrimopInv, Top.kind = "multi"
  PROVE  /\ MultiOK(Top) /\ Len(stack) > 1 /\ FrameOK(plugin, Top)
         /\ ArgumentsOf(Top) = Some(Top.current) \cup ToSet(Top.written)
         /\ OthersOf(Top) = Some(Top.dest)
         /\ Failing(Top) <=> Top.res = "error" \/ Top.failed
BY TopFacts, KindOf DEF ArgumentsOf, OthersOf, Failing

(* An argument that is not known to be written can be forgotten.           *)
LEMMA PendingUninit ==
  ASSUME PrimopInv, Top.kind = "multi", ~IsWritten(Top)
  PROVE  \A v \in Some(Top.current) : values[v].state = "uninit"
<1>1. PendingOf(Top) = Some(Top.current)
  BY DEF PendingOf
<1>2. Pending(stack, values) /\ Len(stack) \in 1..Len(stack) /\ Top = stack[Len(stack)]
  BY TopFacts DEF Values
<1> QED
  BY <1>1, <1>2 DEF Pending

LEMMA MultiFrameFields ==
  ASSUME NEW args \in Seq(Trees) \ {<< >>}
  PROVE  LET g == MultiFrame(args)
         IN  (\A p : FrameOK(p, g)) /\ NoValues(g) /\ g.kind = "multi" /\ g.res = "none"
<1> DEFINE g == MultiFrame(args)
<1>1. /\ DOMAIN g = {"kind", "args", "at", "dest", "written", "current", "failed", "res"}
      /\ g.kind = "multi" /\ g.args = args /\ g.at = "start" /\ g.dest = 0 /\ g.written = << >>
      /\ g.current = 0 /\ g.failed = FALSE /\ g.res = "none"
  BY DEF MultiFrame
<1> HIDE DEF g
<1>2. MultiOK(g)
  <2>1. g.written \in Seq(Nat \ {0}) /\ ToSet(g.written) = {}
    BY <1>1, ToSetEmpty
  <2> QED
    BY <1>1, <2>1 DEF MultiOK
<1>3. NoValues(g)
  BY <1>1, ToSetEmpty DEF NoValues, ArgumentsOf, OthersOf, PendingOf, Some
<1>4. (\A p : FrameOK(p, g)) /\ NoValues(g) /\ g.kind = "multi" /\ g.res = "none"
  BY <1>1, <1>2, <1>3 DEF FrameOK, Returns
<1> QED
  BY <1>4 DEF g

LEMMA MultiAllocDestStep ==
  ASSUME PrimopInv, MultiAllocDest
  PROVE  PrimopInv'
<1> DEFINE g == [Top EXCEPT !.at = "args", !.dest = NewValue]
<1>1. Top.kind = "multi" /\ Top.at = "start" /\ UNCHANGED <<plugin, slots>>
  BY DEF MultiAllocDest, Multi, Running
<1>2. /\ MultiOK(Top) /\ ~Failing(Top) /\ Top.res = "none" /\ Len(stack) > 1
      /\ ArgumentsOf(Top) = Some(Top.current)
  BY <1>1, MultiTop, ToSetEmpty DEF MultiOK
<1>3. \A v \in ArgumentsOf(Top) : values[v].state = "uninit"
  BY <1>1, <1>2, PendingUninit DEF IsWritten
<1>4. CASE UNCHANGED values /\ stack' = Pop("error")
  <2>1. PopsSlot(Top, "error", slots, slots') /\ "error" \in Results
    BY <1>1 DEF PopsSlot, Results
  <2>2. Top.kind # "primop" /\ Top.kind # "write"
    BY <1>1
  <2> QED
    BY <1>1, <1>2, <1>3, <1>4, <2>1, <2>2, PopStep
<1>5. CASE values' = alloc_value("dest") /\ stack' = WithTop(g)
  <2>1. /\ DOMAIN g = DOMAIN Top /\ g.kind = "multi" /\ g.args = Top.args /\ g.at = "args"
        /\ g.dest = NewValue /\ g.written = Top.written /\ g.current = Top.current
        /\ g.failed = Top.failed /\ g.res = "none"
    BY <1>1, <1>2 DEF MultiOK
  <2>2. NewValue # 0
    BY TopFacts DEF NewValue
  <2>3. stack' = WithTop(g)
    BY <1>5
  <2> HIDE DEF g
  <2>4. FrameOK(plugin, g) /\ Like(Top, g)
    BY <1>1, <1>2, <2>1, <2>2 DEF FrameOK, MultiOK, Returns, Like
  <2>5. TakesNew(Top, g, NewValue, "dest") /\ ForgetsNothing(Top, g, values)
    BY <1>1, <1>2, <2>1 DEF TakesNew, ForgetsNothing, ArgumentsOf, OthersOf, PendingOf, IsWritten,
                            Some, MultiOK
  <2> QED
    BY <1>1, <1>2, <1>5, <2>3, <2>4, <2>5, AllocSetStep
<1> QED
  BY <1>4, <1>5 DEF MultiAllocDest

LEMMA MultiWriteArgStep ==
  ASSUME PrimopInv, MultiWriteArg
  PROVE  PrimopInv'
<1> DEFINE arg == Top.args[Len(Top.written) + 1]
           f == [Top EXCEPT !.current = NewValue]
           g == WriteFrame(arg, NewValue, FALSE)
           h == [Top EXCEPT !.at = "release", !.failed = TRUE]
<1>1. /\ Top.kind = "multi" /\ Top.at = "args" /\ Top.res = "none"
      /\ Len(Top.written) < Len(Top.args) - 1 /\ UNCHANGED <<plugin, slots>>
  BY DEF MultiWriteArg, Multi, Running
<1>2. /\ MultiOK(Top) /\ ~Failing(Top)
      /\ ArgumentsOf(Top) = Some(Top.current) \cup ToSet(Top.written)
  BY <1>1, MultiTop DEF MultiOK
<1>3. \A v \in Some(Top.current) : values[v].state = "uninit"
  BY <1>1, <1>2, PendingUninit DEF IsWritten
<1>4. CASE values' = alloc_value("arg") /\ stack' = Push(f, g)
  <2>1. /\ DOMAIN f = DOMAIN Top /\ f.kind = "multi" /\ f.args = Top.args /\ f.at = "args"
        /\ f.dest = Top.dest /\ f.written = Top.written /\ f.current = NewValue
        /\ f.failed = Top.failed /\ f.res = "none"
    BY <1>1, <1>2 DEF MultiOK
  <2>2. NewValue # 0 /\ NewValue \notin ToSet(Top.written)
    <3>1. ToSet(Top.written) \subseteq 1..Len(values)
      BY <1>2, TopFacts DEF Owns
    <3> QED
      BY <3>1, TopFacts DEF NewValue
  <2>3. arg \in Trees
    <3>1. Top.args \in Seq(Trees) /\ Len(Top.written) + 1 \in 1..Len(Top.args)
      BY <1>1, <1>2 DEF MultiOK
    <3> QED
      BY <3>1
  <2>4. stack' = Push(f, g)
    BY <1>4
  <2> HIDE DEF f, arg
  <2>5. FrameOK(plugin, f) /\ Like(Top, f) /\ ~Failing(f)
    BY <1>1, <1>2, <2>1, <2>2 DEF FrameOK, MultiOK, Returns, Like, Failing
  <2>6. TakesNew(Top, f, NewValue, "arg") /\ ForgetsNothing(Top, f, values)
    BY <1>1, <1>2, <1>3, <2>1 DEF TakesNew, ForgetsNothing, ArgumentsOf, OthersOf, PendingOf,
                                  IsWritten, Some
  <2>7. Wellformed(arg)
    BY <2>3 DEF Wellformed
  <2>8. FrameOK(plugin, g) /\ NoValues(g)
    BY <2>7, WriteFrameFields
  <2>9. Waits(plugin, f, g)
    <3>1. GivenValue(f) = NewValue
      BY <2>1 DEF GivenValue
    <3>2. WritesFor(f, g)
      BY <2>7, <3>1, WriteFrameWaits
    <3> QED
      BY <2>1, <2>2, <3>2 DEF Waits, Called
  <2> HIDE DEF g
  <2>10. Inv(plugin, stack', values', slots)
    BY <1>1, <1>2, <1>4, <2>4, <2>5, <2>6, <2>8, <2>9, AllocPushStep
  <2> QED
    BY <1>1, <2>10 DEF PrimopInv
<1>5. CASE UNCHANGED values /\ stack' = WithTop(h)
  <2>1. /\ DOMAIN h = DOMAIN Top /\ h.kind = "multi" /\ h.args = Top.args /\ h.at = "release"
        /\ h.dest = Top.dest /\ h.written = Top.written /\ h.current = Top.current
        /\ h.failed = TRUE /\ h.res = "none"
    BY <1>1, <1>2 DEF MultiOK
  <2>2. stack' = WithTop(h)
    BY <1>5
  <2> HIDE DEF h
  <2>3. FrameOK(plugin, h) /\ Like(Top, h)
    BY <1>1, <1>2, <2>1 DEF FrameOK, MultiOK, Returns, Like
  <2>4. Keeps(Top, h) /\ ForgetsNothing(Top, h, values)
    BY <1>1, <2>1 DEF Keeps, ForgetsNothing, ArgumentsOf, OthersOf, PendingOf, IsWritten
  <2>5. KeepsSlot(Top, h, slots, slots')
    BY <1>1, <1>2, <2>1 DEF KeepsSlot
  <2> QED
    BY <1>1, <1>5, <2>2, <2>3, <2>4, <2>5, SetStep
<1> QED
  BY <1>4, <1>5 DEF MultiWriteArg

LEMMA MultiArgWrittenStep ==
  ASSUME PrimopInv, MultiArgWritten
  PROVE  PrimopInv'
<1> DEFINE g == [Top EXCEPT !.written = Append(@, Top.current), !.current = 0, !.res = "none"]
<1>1. /\ Top.kind = "multi" /\ Top.at = "args" /\ Top.res = "ok" /\ stack' = WithTop(g)
      /\ UNCHANGED <<plugin, slots, values>>
  BY DEF MultiArgWritten, Multi, Running
<1>2. /\ MultiOK(Top) /\ ~Failing(Top)
      /\ ArgumentsOf(Top) = Some(Top.current) \cup ToSet(Top.written)
  BY <1>1, MultiTop DEF MultiOK
<1>3. /\ DOMAIN g = DOMAIN Top /\ g.kind = "multi" /\ g.args = Top.args /\ g.at = "args"
      /\ g.dest = Top.dest /\ g.written = Append(Top.written, Top.current) /\ g.current = 0
      /\ g.failed = Top.failed /\ g.res = "none"
  BY <1>1, <1>2 DEF MultiOK
<1> HIDE DEF g
<1>4. Top.current \in Nat \ {0} /\ Top.written \in Seq(Nat \ {0})
  <2>1. Top.current # 0 /\ Top.current \in Owns(Top)
    BY <1>1, <1>2 DEF MultiOK, Owns, Some
  <2>2. Top.current \in 1..Len(values)
    BY <2>1, TopFacts
  <2> QED
    BY <1>2, <2>1, <2>2 DEF MultiOK
<1>5. g.written \in Seq(Nat \ {0})
  BY <1>3, <1>4, AppendTyping
<1>6. ToSet(g.written) = ToSet(Top.written) \cup {Top.current}
  BY <1>3, <1>4, ToSetAppend
<1>7. 0 \notin ToSet(g.written)
  BY <1>5, ToSetTyping
<1>8. FrameOK(plugin, g) /\ Like(Top, g)
  BY <1>1, <1>2, <1>3, <1>5, <1>7 DEF FrameOK, MultiOK, Returns, Like
<1>9. Keeps(Top, g) /\ ForgetsNothing(Top, g, values)
  BY <1>1, <1>3, <1>4, <1>6 DEF Keeps, ForgetsNothing, ArgumentsOf, OthersOf, PendingOf, Some
<1>10. KeepsSlot(Top, g, slots, slots')
  BY <1>1, <1>2, <1>3 DEF KeepsSlot
<1> QED
  BY <1>1, <1>8, <1>9, <1>10, SetStep

LEMMA MultiArgFailsStep ==
  ASSUME PrimopInv, MultiArgFails
  PROVE  PrimopInv'
<1> DEFINE g == [Top EXCEPT !.at = "release", !.current = 0, !.failed = TRUE]
<1>1. /\ Top.kind = "multi" /\ Top.at = "args" /\ Top.res = "error" /\ stack' = WithTop(g)
      /\ UNCHANGED <<plugin, slots, values>>
  BY DEF MultiArgFails, Multi, Running
<1>2. MultiOK(Top) /\ ArgumentsOf(Top) = Some(Top.current) \cup ToSet(Top.written)
  BY <1>1, MultiTop
<1>3. /\ DOMAIN g = DOMAIN Top /\ g.kind = "multi" /\ g.args = Top.args /\ g.at = "release"
      /\ g.dest = Top.dest /\ g.written = Top.written /\ g.current = 0
      /\ g.failed = TRUE /\ g.res = "error"
  BY <1>1, <1>2 DEF MultiOK
<1> HIDE DEF g
<1>4. 0 \notin ToSet(Top.written)
  BY <1>2, ToSetTyping DEF MultiOK
<1>5. FrameOK(plugin, g) /\ Like(Top, g)
  BY <1>1, <1>2, <1>3, <1>4 DEF FrameOK, MultiOK, Returns, Like
<1>6. \A v \in Some(Top.current) : values[v].state = "uninit"
  BY <1>1, PendingUninit DEF IsWritten
<1>7. Keeps(Top, g) /\ ForgetsNothing(Top, g, values)
  BY <1>1, <1>2, <1>3, <1>6 DEF Keeps, ForgetsNothing, ArgumentsOf, OthersOf, PendingOf, Some
<1>8. KeepsSlot(Top, g, slots, slots')
  BY <1>1, <1>3 DEF KeepsSlot, Failing
<1> QED
  BY <1>1, <1>5, <1>7, <1>8, SetStep

LEMMA ValueCallMultiStep ==
  ASSUME PrimopInv, value_call_multi
  PROVE  PrimopInv'
<1> DEFINE f == [Top EXCEPT !.at = "called"]
<1>1. /\ Top.kind = "multi" /\ Top.at = "args" /\ Top.res = "none" /\ stack' = Push(f, EvalFrame)
      /\ UNCHANGED <<plugin, slots, values>>
  BY DEF value_call_multi, Multi, Running
<1>2. MultiOK(Top) /\ ~Failing(Top)
  BY <1>1, MultiTop DEF MultiOK
<1>3. /\ DOMAIN f = DOMAIN Top /\ f.kind = "multi" /\ f.args = Top.args /\ f.at = "called"
      /\ f.dest = Top.dest /\ f.written = Top.written /\ f.current = Top.current
      /\ f.failed = Top.failed /\ f.res = "none"
  BY <1>1, <1>2 DEF MultiOK
<1> HIDE DEF f
<1>4. FrameOK(plugin, f) /\ Like(Top, f)
  BY <1>1, <1>2, <1>3 DEF FrameOK, MultiOK, Returns, Like
<1>5. Keeps(Top, f) /\ ForgetsNothing(Top, f, values)
  BY <1>1, <1>3 DEF Keeps, ForgetsNothing, ArgumentsOf, OthersOf, PendingOf, IsWritten
<1>6. Waits(plugin, f, EvalFrame) /\ FrameOK(plugin, EvalFrame) /\ NoValues(EvalFrame)
  BY <1>3, EvalFrameOK DEF Waits, Called
<1>7. Top.kind # "eval"
  BY <1>1
<1> QED
  BY <1>1, <1>2, <1>4, <1>5, <1>6, <1>7, PushStep

LEMMA MultiCalledStep ==
  ASSUME PrimopInv, MultiCalled
  PROVE  PrimopInv'
<1> DEFINE g == [Top EXCEPT !.at = "release", !.failed = (Top.res = "error"), !.res = "none"]
<1>1. /\ Top.kind = "multi" /\ Top.at = "called" /\ stack' = WithTop(g)
      /\ UNCHANGED <<plugin, slots>>
      /\ values' = IF Top.res = "ok" THEN Initialised(Top.dest, "value") ELSE values
  BY DEF MultiCalled, Multi, Running
<1>2. MultiOK(Top) /\ OthersOf(Top) = Some(Top.dest)
  BY <1>1, MultiTop
<1>3. /\ DOMAIN g = DOMAIN Top /\ g.kind = "multi" /\ g.args = Top.args /\ g.at = "release"
      /\ g.dest = Top.dest /\ g.written = Top.written /\ g.current = Top.current
      /\ g.failed = (Top.res = "error") /\ g.res = "none"
  BY <1>1, <1>2 DEF MultiOK
<1> HIDE DEF g
<1>4. FrameOK(plugin, g) /\ Like(Top, g)
  BY <1>1, <1>2, <1>3 DEF FrameOK, MultiOK, Returns, Like
<1>5. Keeps(Top, g) /\ ForgetsNothing(Top, g, values')
  BY <1>1, <1>3 DEF Keeps, ForgetsNothing, ArgumentsOf, OthersOf, PendingOf, IsWritten
<1>6. KeepsSlot(Top, g, slots, slots')
  BY <1>1, <1>2, <1>3 DEF KeepsSlot, Failing, MultiOK
<1>7. Inv(plugin, stack, values', slots)
  <2>1. Inv(plugin, stack, values, slots)
    BY DEF PrimopInv
  <2>2. CASE Top.res = "ok"
    <3>1. Top.dest \in OthersOf(Top) /\ Top.dest \in 1..Len(values) /\ values \in Seq(Value)
      BY <1>1, <1>2, TopFacts DEF MultiOK, Some, Owns
    <3>2. IsInit(values, Top.dest, "value", values')
      BY <1>1, <2>2, <3>1, Initialises DEF Initialised
    <3> QED
      BY <1>1, <2>1, <3>1, <3>2, InvInit DEF Top
  <2>3. CASE Top.res # "ok"
    BY <1>1, <2>1, <2>3
  <2> QED
    BY <2>2, <2>3
<1>8. IsSet(stack, g, stack')
  BY <1>1, TopFacts, TopSet DEF WithTop
<1>9. Inv(plugin, stack', values', slots')
  BY <1>1, <1>4, <1>5, <1>6, <1>7, <1>8, InvSet DEF Top
<1> QED
  BY <1>1, <1>9 DEF PrimopInv

(* The running frame releases what it owns and goes on.                    *)
LEMMA InvReleaseSet ==
  ASSUME NEW p, NEW s, NEW vs, NEW errors, Inv(p, s, vs, errors), s[Len(s)].kind # "eval",
         NEW g, FrameOK(p, g), Like(s[Len(s)], g), Keeps(s[Len(s)], g),
         NEW released, released \subseteq Owns(s[Len(s)]), Owns(g) \cap released = {},
         \A v \in ArgumentsOf(s[Len(s)]) :
           v \in released \/ v \in ArgumentsOf(g) \/ vs[v].state = "uninit",
         NEW us, IsRelease(vs, released, us),
         NEW next, KeepsSlot(s[Len(s)], g, errors, next), NEW t, IsSet(s, g, t)
  PROVE  Inv(p, t, us, next)
<1>1. /\ p \in Plugins /\ Shape(p, s) /\ Values(p, s, vs) /\ Slots(s, errors)
      /\ IsStack(s) /\ Len(s) \in Nat /\ Len(s) > 0
  BY ShapeTop DEF Inv
<1>2. /\ Len(t) = Len(s) /\ t[Len(s)] = g /\ Len(s) \in 1..Len(s)
      /\ \A j \in 1..(Len(s) - 1) : t[j] = s[j]
  BY <1>1 DEF IsSet
<1>3. Shape(p, t)
  BY <1>1, ShapeSet
<1>4. Values(p, t, us)
  <2>1. \A j \in 1..Len(s) : j # Len(s) => t[j] = s[j]
    BY <1>1, <1>2, BelowTop
  <2>2. ASSUME NEW j \in 1..Len(t) PROVE KeptAt(s, t, j) /\ Owns(t[j]) \cap released = {}
    <3>1. CASE j = Len(s)
      BY <1>2, <3>1 DEF KeptAt
    <3>2. CASE j # Len(s)
      <4>1. j \in 1..Len(s) /\ t[j] = s[j]
        BY <1>2, <2>1, <3>2
      <4>2. Owns(s[j]) \cap Owns(s[Len(s)]) = {}
        BY <1>1, <1>2, <3>2, <4>1 DEF Values, Owned
      <4>3. Owns(t[j]) \cap released = {}
        BY <4>1, <4>2
      <4> QED
        BY <4>1, <4>3, KeptSame
    <3> QED
      BY <3>1, <3>2
  <2>3. ArgumentsKept(s, t, us)
    <3>1. Owns(s[Len(s)]) \subseteq 1..Len(vs)
      BY <1>1, <1>2 DEF Values, Owned
    <3>2. \A v \in ArgumentsOf(s[Len(s)]) :
            us[v].refs = 0 \/ v \in ArgumentsOf(g) \/ us[v].state = "uninit"
      BY <3>1 DEF IsRelease, Owns
    <3>3. ASSUME NEW j \in 1..Len(s), NEW v \in ArgumentsOf(s[j])
          PROVE  /\ j \in 1..Len(t)
                 /\ us[v].refs = 0 \/ v \in ArgumentsOf(t[j]) \/ us[v].state = "uninit"
      BY <1>2, <2>1, <3>2
    <3> QED
      BY <3>3 DEF ArgumentsKept
  <2> QED
    BY <1>1, <2>2, <2>3, ValuesReleased
<1>5. Slots(t, next)
  <2>1. g.kind = s[Len(s)].kind
    BY DEF Like
  <2>2. Primops(t) = Primops(s)
    BY <1>1, <2>1, PrimopsSet
  <2>3. KeepsSlot(s[Len(s)], t[Len(t)], errors, next)
    BY <1>2
  <2>4. Len(errors) > 0
    BY <1>1, AboveEval, SlotExists
  <2> QED
    BY <1>1, <2>2, <2>3, <2>4, SlotsStep
<1> QED
  BY <1>1, <1>3, <1>4, <1>5 DEF Inv

LEMMA MultiReleaseStep ==
  ASSUME PrimopInv, MultiRelease
  PROVE  PrimopInv'
<1> DEFINE released == ToSet(Top.written) \cup IF Top.failed THEN {Top.dest} ELSE {}
           g == [Top EXCEPT !.at = "lambda", !.written = << >>]
<1>1. /\ Top.kind = "multi" /\ Top.at = "release" /\ with_raw("ok")
      /\ values' = Released(released) /\ plugin' = plugin
      /\ stack' = IF Top.failed THEN Pop("error") ELSE WithTop(g)
  BY DEF MultiRelease, Multi, Running, ToSet
<1>2. /\ MultiOK(Top) /\ OthersOf(Top) = Some(Top.dest) /\ Len(stack) > 1
      /\ ArgumentsOf(Top) = Some(Top.current) \cup ToSet(Top.written)
  BY <1>1, MultiTop
<1>3. \A v \in Some(Top.current) : values[v].state = "uninit"
  BY <1>1, PendingUninit DEF IsWritten
<1>4. released \subseteq Owns(Top)
  BY <1>1, <1>2 DEF MultiOK, Owns, Some
<1>5. CASE Top.failed
  <2>1. \A v \in ArgumentsOf(Top) : v \in released \/ values[v].state = "uninit"
    BY <1>2, <1>3
  <2>2. Top.kind # "primop" /\ Top.kind # "write" /\ "error" \in Results
    BY <1>1 DEF Results
  <2>3. PopsSlot(Top, "error", slots, slots')
    BY <1>1 DEF PopsSlot, with_raw, Results
  <2> HIDE DEF released
  <2>4. Inv(plugin, stack', values', slots')
    BY <1>1, <1>2, <1>4, <1>5, <2>1, <2>2, <2>3, ReleaseStep
  <2> QED
    BY <1>1, <2>4 DEF PrimopInv
<1>6. CASE ~Top.failed
  <2>1. released = ToSet(Top.written)
    BY <1>6
  <2>2. /\ DOMAIN g = DOMAIN Top /\ g.kind = "multi" /\ g.args = Top.args /\ g.at = "lambda"
        /\ g.dest = Top.dest /\ g.written = << >> /\ g.current = Top.current
        /\ g.failed = Top.failed /\ g.res = Top.res
    BY <1>1, <1>2 DEF MultiOK
  <2>3. stack' = WithTop(g)
    BY <1>1, <1>6
  <2> HIDE DEF g, released
  <2>4. FrameOK(plugin, g) /\ Like(Top, g)
    <3>1. Top.res \in Returns
      BY TopFacts, KindOf
    <3>2. g.written \in Seq(Nat \ {0}) /\ ToSet(g.written) = {}
      BY <2>2, ToSetEmpty
    <3>3. MultiOK(g)
      BY <1>1, <1>2, <1>6, <2>2, <3>2 DEF MultiOK
    <3> QED
      BY <1>1, <2>2, <3>1, <3>3 DEF FrameOK, Like
  <2>5. ArgumentsOf(g) = Some(Top.current) /\ OthersOf(g) = Some(Top.dest)
    BY <2>2, ToSetEmpty DEF ArgumentsOf, OthersOf
  <2>6. Keeps(Top, g)
    BY <1>1, <1>2, <2>2, <2>5 DEF Keeps, PendingOf, IsWritten
  <2>7. Owns(g) \cap released = {}
    <3>1. Some(Top.current) \cap ToSet(Top.written) = {}
      BY <1>2 DEF MultiOK, Some
    <3>2. /\ \A v \in ArgumentsOf(Top) : values[v].role = "arg"
          /\ \A v \in OthersOf(Top) : values[v].role # "arg"
      BY TopFacts DEF Values, Owned
    <3> QED
      BY <1>2, <2>1, <2>5, <3>1, <3>2 DEF Owns
  <2>8. \A v \in ArgumentsOf(Top) :
          v \in released \/ v \in ArgumentsOf(g) \/ values[v].state = "uninit"
    BY <1>2, <2>1, <2>5
  <2>9. IsRelease(values, released, values')
    <3>1. \A v \in released : values[v].refs = 1
      BY <1>4, TopFacts
    <3> QED
      BY <1>1, <3>1, TopFacts, Releases DEF Released
  <2>10. KeepsSlot(Top, g, slots, slots')
    BY <1>1, <2>2 DEF KeepsSlot, with_raw, Results
  <2>11. IsSet(stack, g, stack')
    BY <2>3, TopFacts, TopSet DEF WithTop
  <2>12. Inv(plugin, stack, values, slots) /\ Top.kind # "eval"
    BY <1>1 DEF PrimopInv
  <2>13. Inv(plugin, stack', values', slots')
    BY <1>4, <2>4, <2>6, <2>7, <2>8, <2>9, <2>10, <2>11, <2>12, InvReleaseSet DEF Top
  <2> QED
    BY <1>1, <2>13 DEF PrimopInv
<1> QED
  BY <1>5, <1>6

LEMMA MultiCallLastStep ==
  ASSUME PrimopInv, MultiCallLast
  PROVE  PrimopInv'
<1> DEFINE g == CallFrame(Top.args[Len(Top.args)])
<1>1. /\ Top.kind = "multi" /\ Top.at = "lambda" /\ with_raw("ok")
      /\ UNCHANGED <<plugin, values>>
  BY DEF MultiCallLast, Multi, Running
<1>2. /\ MultiOK(Top) /\ Len(stack) > 1
      /\ ArgumentsOf(Top) = Some(Top.current)
  BY <1>1, MultiTop, ToSetEmpty DEF MultiOK
<1>3. \A v \in ArgumentsOf(Top) : values[v].state = "uninit"
  BY <1>1, <1>2, PendingUninit DEF IsWritten
<1>4. CASE stack' = Pop("error")
  <2>1. Top.kind # "primop" /\ Top.kind # "write" /\ "error" \in Results
    BY <1>1 DEF Results
  <2>2. PopsSlot(Top, "error", slots, slots')
    BY <1>1 DEF PopsSlot, with_raw, Results
  <2> QED
    BY <1>1, <1>2, <1>3, <1>4, <2>1, <2>2, PopStep
<1>5. CASE stack' = WithTop(g)
  <2>1. Top.args[Len(Top.args)] \in Trees
    BY <1>2 DEF MultiOK
  <2>2. FrameOK(plugin, g) /\ NoValues(g) /\ g.kind = "call"
    BY <2>1, CallFrameFields
  <2> HIDE DEF g
  <2>3. Keeps(Top, g) /\ ForgetsNothing(Top, g, values)
    BY <1>3, <2>2 DEF Keeps, ForgetsNothing, NoValues
  <2>4. KeepsSlot(Top, g, slots, slots')
    BY <1>1, <2>2 DEF KeepsSlot, with_raw, Results
  <2>5. Waits(plugin, stack[Len(stack) - 1], g)
    <3>1. /\ FrameOK(plugin, stack[Len(stack) - 1])
          /\ Waits(plugin, stack[Len(stack) - 1], Top)
      BY <1>1, TopFacts
    <3> QED
      BY <1>1, <2>2, <3>1 DEF Waits, Called, WritesFor, FrameOK
  <2>6. IsSet(stack, g, stack')
    BY <1>5, TopFacts, TopSet DEF WithTop
  <2>7. Inv(plugin, stack, values, slots) /\ Top.kind = "multi"
    BY <1>1 DEF PrimopInv
  <2>8. Inv(plugin, stack', values, slots')
    BY <2>2, <2>3, <2>4, <2>5, <2>6, <2>7, InvReplaced DEF Top
  <2> QED
    BY <1>1, <2>8 DEF PrimopInv
<1> QED
  BY <1>4, <1>5 DEF MultiCallLast

LEMMA CallMultiStep ==
  ASSUME PrimopInv, CallMulti
  PROVE  PrimopInv'
BY MultiAllocDestStep, MultiWriteArgStep, MultiArgWrittenStep, MultiArgFailsStep,
   ValueCallMultiStep, MultiCalledStep, MultiReleaseStep, MultiCallLastStep
DEF CallMulti, MultiTooFew, Panic, PrimopInv

(***************************************************************************)
(* PrimOpImpl::call.                                                       *)
(***************************************************************************)
LEMMA PrimopTop ==
  ASSUME PrimopInv, Top.kind = "primop"
  PROVE  /\ PrimopOK(plugin, Top) /\ Len(stack) > 1 /\ Len(slots) > 0 /\ Top.res \in Returns
         /\ Failing(Top) <=> Top.res = "error"
BY TopFacts, KindOf DEF Failing

(* The primop goes on: its return value is still not written.              *)
GoesOn(g) ==
  /\ g.kind = "primop" /\ g.ret = Top.ret /\ g.name = Top.name /\ g.res \in Returns
  /\ PrimopOK(plugin, g) /\ ~IsWritten(g)

LEMMA GoesOnKeeps ==
  ASSUME PrimopInv, Top.kind = "primop", ~IsWritten(Top), NEW g, GoesOn(g)
  PROVE  /\ FrameOK(plugin, g) /\ Like(Top, g) /\ Keeps(Top, g) /\ ForgetsNothing(Top, g, values)
BY DEF GoesOn, FrameOK, Like, Keeps, ForgetsNothing, ArgumentsOf, OthersOf, PendingOf

LEMMA PrimopSet ==
  ASSUME PrimopInv, Top.kind = "primop", ~IsWritten(Top), NEW g, GoesOn(g),
         \/ slots' = slots /\ (Failing(Top) => Failing(g)) /\ ~g.failed
         \/ with_raw("error") /\ Failing(g),
         stack' = WithTop(g), UNCHANGED <<plugin, values>>
  PROVE  PrimopInv'
<1>1. FrameOK(plugin, g) /\ Like(Top, g) /\ Keeps(Top, g) /\ ForgetsNothing(Top, g, values)
  BY GoesOnKeeps
<1>2. KeepsSlot(Top, g, slots, slots')
  BY DEF KeepsSlot, with_raw, Results
<1> QED
  BY <1>1, <1>2, SetStep

LEMMA PrimopPush ==
  ASSUME PrimopInv, Top.kind = "primop", ~IsWritten(Top), Top.res # "error",
         NEW f, GoesOn(f), NEW g, FrameOK(plugin, g), NoValues(g), Waits(plugin, f, g),
         stack' = Push(f, g), UNCHANGED <<plugin, slots, values>>
  PROVE  PrimopInv'
<1>1. FrameOK(plugin, f) /\ Like(Top, f) /\ Keeps(Top, f) /\ ForgetsNothing(Top, f, values)
  BY GoesOnKeeps
<1>2. Top.kind # "eval" /\ ~Failing(Top)
  BY DEF Failing
<1> QED
  BY <1>1, <1>2, PushStep

LEMMA FromRawStep ==
  ASSUME PrimopInv, from_raw
  PROVE  PrimopInv'
<1> DEFINE g == [Top EXCEPT !.at = "ops", !.i = 0, !.res = "none"]
           f == [Top EXCEPT !.i = @ + 1, !.res = "none"]
           h == ReadFrame(This.args[Top.i + 1])
<1>1. /\ Top.kind = "primop" /\ Top.at = "args" /\ Top.res # "error"
      /\ UNCHANGED <<plugin, slots, values>>
      /\ stack' = IF Top.i = Len(This.args) THEN WithTop(g) ELSE Push(f, h)
  BY DEF from_raw, At, Running
<1>2. PrimopOK(plugin, Top) /\ ~Failing(Top) /\ ~IsWritten(Top)
  BY <1>1, PrimopTop DEF IsWritten
<1>3. CASE Top.i = Len(This.args)
  <2>1. /\ DOMAIN g = DOMAIN Top /\ g.kind = "primop" /\ g.name = Top.name /\ g.at = "ops"
        /\ g.i = 0 /\ g.ret = Top.ret /\ g.failed = Top.failed /\ g.res = "none"
    BY <1>1, <1>2 DEF PrimopOK
  <2>2. stack' = WithTop(g)
    BY <1>1, <1>3
  <2> HIDE DEF g
  <2>3. 0 \in 0..Len(plugin[Top.name].ops)
    BY <1>2, TopFacts, PluginsAssumption DEF PrimopOK
  <2>4. GoesOn(g) /\ ~g.failed
    BY <1>1, <1>2, <2>1, <2>3 DEF GoesOn, PrimopOK, Returns, IsWritten
  <2> QED
    BY <1>1, <1>2, <2>2, <2>4, PrimopSet
<1>4. CASE Top.i # Len(This.args)
  <2>1. /\ DOMAIN f = DOMAIN Top /\ f.kind = "primop" /\ f.name = Top.name /\ f.at = "args"
        /\ f.ret = Top.ret /\ f.failed = Top.failed /\ f.res = "none"
    BY <1>1, <1>2 DEF PrimopOK
  <2>2. stack' = Push(f, h)
    BY <1>1, <1>4
  <2>3. ReadOK(h) /\ h.kind = "read" /\ h.res \in Returns
    BY ReadFrameFields DEF Returns
  <2> HIDE DEF f, h
  <2>4. FrameOK(plugin, h) /\ NoValues(h)
    BY <2>3, ReadFrameOK
  <2>5. GoesOn(f)
    BY <1>1, <1>2, <2>1 DEF GoesOn, PrimopOK, Returns, IsWritten
  <2>6. Waits(plugin, f, h)
    BY <2>1, <2>3 DEF Waits, Called
  <2> QED
    BY <1>1, <1>2, <2>2, <2>4, <2>5, <2>6, PrimopPush
<1> QED
  BY <1>3, <1>4

LEMMA OpFrameOK ==
  ASSUME NEW op, op.op \in {"read", "call", "multi"},
         op.op # "read" => op.args \in Seq(Trees) \ {<< >>}
  PROVE  LET g == OpFrame(op)
         IN  FrameOK(plugin, g) /\ NoValues(g) /\ g.kind \in {"read", "call", "multi"}
<1>1. CASE op.op = "read"
  <2>1. OpFrame(op) = ReadFrame(op.read)
    BY <1>1 DEF OpFrame
  <2>2. /\ ReadOK(ReadFrame(op.read)) /\ ReadFrame(op.read).kind = "read"
        /\ ReadFrame(op.read).res \in Returns
    BY ReadFrameFields DEF Returns
  <2> QED
    BY <2>1, <2>2, ReadFrameOK
<1>2. CASE op.op = "call"
  <2>1. OpFrame(op) = CallFrame(op.args[1])
    BY <1>2 DEF OpFrame
  <2>2. op.args[1] \in Trees
    BY <1>2
  <2> QED
    BY <2>1, <2>2, CallFrameFields
<1>3. CASE op.op = "multi"
  <2>1. OpFrame(op) = MultiFrame(op.args)
    BY <1>3 DEF OpFrame
  <2> QED
    BY <1>3, <2>1, MultiFrameFields
<1> QED
  BY <1>1, <1>2, <1>3

LEMMA BodyStep ==
  ASSUME PrimopInv, Body
  PROVE  PrimopInv'
<1> DEFINE g == [Top EXCEPT !.at = "value", !.res = "none"]
           f == [Top EXCEPT !.i = @ + 1, !.res = "none"]
           op == This.ops[Top.i + 1]
           h == OpFrame(op)
<1>1. /\ Top.kind = "primop" /\ Top.at = "ops" /\ Top.res # "error"
      /\ UNCHANGED <<plugin, slots, values>>
      /\ stack' = IF Top.i = Len(This.ops) THEN WithTop(g) ELSE Push(f, h)
  BY DEF Body, At, Running
<1>2. PrimopOK(plugin, Top) /\ ~Failing(Top) /\ ~IsWritten(Top)
  BY <1>1, PrimopTop DEF IsWritten
<1>3. CASE Top.i = Len(This.ops)
  <2>1. /\ DOMAIN g = DOMAIN Top /\ g.kind = "primop" /\ g.name = Top.name /\ g.at = "value"
        /\ g.ret = Top.ret /\ g.failed = Top.failed /\ g.res = "none"
    BY <1>1, <1>2 DEF PrimopOK
  <2>2. stack' = WithTop(g)
    BY <1>1, <1>3
  <2> HIDE DEF g
  <2>3. GoesOn(g) /\ ~g.failed
    BY <1>1, <1>2, <2>1 DEF GoesOn, PrimopOK, Returns, IsWritten
  <2> QED
    BY <1>1, <1>2, <2>2, <2>3, PrimopSet
<1>4. CASE Top.i # Len(This.ops)
  <2>1. /\ DOMAIN f = DOMAIN Top /\ f.kind = "primop" /\ f.name = Top.name /\ f.at = "ops"
        /\ f.i = Top.i + 1 /\ f.ret = Top.ret /\ f.failed = Top.failed /\ f.res = "none"
    BY <1>1, <1>2 DEF PrimopOK
  <2>2. stack' = Push(f, h)
    BY <1>1, <1>4
  <2> HIDE DEF f
  <2>3. Top.i + 1 \in 1..Len(This.ops)
    <3>1. Len(This.ops) \in Nat
      BY <1>2, TopFacts, PluginsAssumption DEF PrimopOK, This
    <3>2. Top.i \in 0..Len(This.ops)
      BY <1>1, <1>2 DEF PrimopOK, This
    <3> QED
      BY <1>4, <3>1, <3>2
  <2>4. /\ op.op \in {"read", "call", "multi"}
        /\ op.op # "read" => op.args \in Seq(Trees) \ {<< >>}
    BY <1>2, <2>3, TopFacts, PluginsAssumption DEF PrimopOK, This
  <2> HIDE DEF op
  <2>5. FrameOK(plugin, h) /\ NoValues(h) /\ h.kind \in {"read", "call", "multi"}
    BY <2>4, OpFrameOK
  <2> HIDE DEF h
  <2>6. GoesOn(f)
    <3>1. f.i \in 0..Len(plugin[f.name].ops)
      BY <2>1, <2>3 DEF This
    <3> QED
      BY <1>1, <1>2, <2>1, <3>1 DEF GoesOn, PrimopOK, Returns, IsWritten
  <2>7. Waits(plugin, f, h)
    BY <2>1, <2>5 DEF Waits, Called
  <2> QED
    BY <1>1, <1>2, <2>2, <2>5, <2>6, <2>7, PrimopPush
<1> QED
  BY <1>3, <1>4

LEMMA TryIntoValueStep ==
  ASSUME PrimopInv, try_into_value
  PROVE  PrimopInv'
<1> DEFINE g == [Top EXCEPT !.at = "force"]
           h == [Top EXCEPT !.res = "error"]
<1>1. /\ Top.kind = "primop" /\ Top.at = "value" /\ Top.res # "error"
      /\ UNCHANGED <<plugin, slots, values>>
  BY DEF try_into_value, At, Running
<1>2. PrimopOK(plugin, Top) /\ ~Failing(Top) /\ ~IsWritten(Top) /\ Top.res = "none"
  BY <1>1, PrimopTop DEF IsWritten, PrimopOK, Returns
<1>3. CASE stack' = WithTop(g)
  <2>1. /\ DOMAIN g = DOMAIN Top /\ g.kind = "primop" /\ g.name = Top.name /\ g.at = "force"
        /\ g.ret = Top.ret /\ g.failed = Top.failed /\ g.res = "none"
    BY <1>1, <1>2 DEF PrimopOK
  <2>2. stack' = WithTop(g)
    BY <1>3
  <2> HIDE DEF g
  <2>3. GoesOn(g) /\ ~g.failed
    BY <1>1, <1>2, <2>1 DEF GoesOn, PrimopOK, Returns, IsWritten
  <2> QED
    BY <1>1, <1>2, <2>2, <2>3, PrimopSet
<1>4. CASE stack' = WithTop(h)
  <2>1. /\ DOMAIN h = DOMAIN Top /\ h.kind = "primop" /\ h.name = Top.name /\ h.at = "value"
        /\ h.ret = Top.ret /\ h.failed = Top.failed /\ h.res = "error"
    BY <1>1, <1>2 DEF PrimopOK
  <2>2. stack' = WithTop(h)
    BY <1>4
  <2> HIDE DEF h
  <2>3. GoesOn(h) /\ ~h.failed
    BY <1>1, <1>2, <2>1 DEF GoesOn, PrimopOK, Returns, IsWritten
  <2> QED
    BY <1>1, <1>2, <2>2, <2>3, PrimopSet
<1> QED
  BY <1>3, <1>4 DEF try_into_value

LEMMA ForceInlineStep ==
  ASSUME PrimopInv, force_inline
  PROVE  PrimopInv'
<1> DEFINE g == [Top EXCEPT !.at = "write"]
<1>1. /\ Top.kind = "primop" /\ Top.at = "force" /\ UNCHANGED <<plugin, slots, values>>
      /\ stack' = Push(g, EvalFrame) \/ stack' = WithTop(g)
  BY DEF force_inline, At, Running
<1>2. PrimopOK(plugin, Top) /\ ~Failing(Top) /\ ~IsWritten(Top) /\ Top.res = "none"
  BY <1>1, PrimopTop DEF IsWritten, PrimopOK
<1>3. /\ DOMAIN g = DOMAIN Top /\ g.kind = "primop" /\ g.name = Top.name /\ g.at = "write"
      /\ g.ret = Top.ret /\ g.failed = Top.failed /\ g.res = "none"
  BY <1>1, <1>2 DEF PrimopOK
<1> HIDE DEF g
<1>4. GoesOn(g) /\ ~g.failed
  BY <1>1, <1>2, <1>3 DEF GoesOn, PrimopOK, Returns, IsWritten
<1>5. CASE stack' = WithTop(g)
  BY <1>1, <1>2, <1>4, <1>5, PrimopSet
<1>6. CASE stack' = Push(g, EvalFrame)
  <2>1. Waits(plugin, g, EvalFrame) /\ FrameOK(plugin, EvalFrame) /\ NoValues(EvalFrame)
    BY <1>3, EvalFrameOK DEF Waits, Called
  <2> QED
    BY <1>1, <1>2, <1>4, <1>6, <2>1, PrimopPush
<1> QED
  BY <1>1, <1>5, <1>6

LEMMA WriteReturnStep ==
  ASSUME PrimopInv, WriteReturn
  PROVE  PrimopInv'
<1> DEFINE f == [Top EXCEPT !.at = "return", !.res = "none"]
           tree == Forced(This.value)
           named == TRUE
           g == WriteFrame(tree, Top.ret, named)
<1>1. /\ Top.kind = "primop" /\ Top.at = "write" /\ Top.res # "error"
      /\ UNCHANGED <<plugin, slots, values>> /\ stack' = Push(f, g)
  BY DEF WriteReturn, At, Running
<1>2. PrimopOK(plugin, Top) /\ ~IsWritten(Top)
  BY <1>1, PrimopTop DEF IsWritten
<1>3. /\ DOMAIN f = DOMAIN Top /\ f.kind = "primop" /\ f.name = Top.name /\ f.at = "return"
      /\ f.ret = Top.ret /\ f.failed = Top.failed /\ f.res = "none"
  BY <1>1, <1>2 DEF PrimopOK
<1>4. Wellformed(tree)
  <2>1. This.value \in Trees
    BY <1>2, TopFacts, PluginsAssumption DEF PrimopOK, This
  <2> QED
    BY <2>1 DEF Forced, Wellformed
<1> HIDE DEF f
<1>6. GoesOn(f) /\ ~f.failed
  BY <1>1, <1>2, <1>3 DEF GoesOn, PrimopOK, Returns, IsWritten
<1> HIDE DEF tree, named
<1>7. g.tree = tree /\ FrameOK(plugin, g) /\ NoValues(g) /\ g.kind = "write"
  BY <1>4, WriteFrameFields
<1>8. Waits(plugin, f, g)
  <2>1. GivenValue(f) = Top.ret
    BY <1>3 DEF GivenValue
  <2>2. WritesFor(f, g)
    BY <1>4, <2>1, WriteFrameWaits
  <2>3. ReturnTree(plugin, f, g.tree)
    BY <1>3, <1>7 DEF ReturnTree, This, tree
  <2> HIDE DEF g
  <2> QED
    BY <1>3, <1>6, <2>2, <2>3 DEF Waits, Called
<1> HIDE DEF g
<1> QED
  BY <1>1, <1>2, <1>6, <1>7, <1>8, PrimopPush

LEMMA SetErrStep ==
  ASSUME PrimopInv, set_err_msg
  PROVE  PrimopInv'
<1> DEFINE g == [Top EXCEPT !.at = "return", !.failed = TRUE]
<1>1. /\ Top.kind = "primop" /\ Top.res = "error" /\ with_raw("error")
      /\ UNCHANGED <<plugin, values>> /\ stack' = WithTop(g)
  BY DEF set_err_msg, Running
<1>2. PrimopOK(plugin, Top) /\ ~IsWritten(Top)
  BY <1>1, PrimopTop DEF IsWritten
<1>3. /\ DOMAIN g = DOMAIN Top /\ g.kind = "primop" /\ g.name = Top.name /\ g.at = "return"
      /\ g.ret = Top.ret /\ g.failed = TRUE /\ g.res = "error"
  BY <1>1, <1>2 DEF PrimopOK
<1> HIDE DEF g
<1>4. GoesOn(g) /\ Failing(g)
  BY <1>1, <1>2, <1>3 DEF GoesOn, PrimopOK, Returns, IsWritten, Failing
<1> QED
  BY <1>1, <1>2, <1>4, PrimopSet

LEMMA PrimopReturnsStep ==
  ASSUME PrimopInv, PrimopReturns
  PROVE  PrimopInv'
<1>1. /\ Top.kind = "primop" /\ stack' = Pop(slots[Len(slots)])
      /\ slots' = SubSeq(slots, 1, Len(slots) - 1) /\ UNCHANGED <<plugin, values>>
  BY DEF PrimopReturns, Returning, Running
<1>2. IsPop(stack, slots[Len(slots)], stack')
  BY <1>1, TopFacts, Popped DEF Pop
<1>3. Inv(plugin, stack, values, slots)
  BY DEF PrimopInv
<1>4. Inv(plugin, stack', values, slots')
  BY <1>1, <1>2, <1>3, InvReturns DEF Top
<1> QED
  BY <1>1, <1>4 DEF PrimopInv

LEMMA PrimopStep ==
  ASSUME PrimopInv, Primop
  PROVE  PrimopInv'
BY FromRawStep, BodyStep, TryIntoValueStep, ForceInlineStep, WriteReturnStep, SetErrStep,
   PrimopReturnsStep DEF Primop

(***************************************************************************)
(* The invariant.                                                          *)
(***************************************************************************)
LEMMA PrimopInit ==
  ASSUME Init
  PROVE  PrimopInv
<1>1. plugin \in Plugins /\ stack = <<EvalFrame>> /\ slots = << >> /\ values = << >>
  BY DEF Init
<1>2. stack \in Seq({EvalFrame}) /\ Len(stack) = 1 /\ stack[1] = EvalFrame
  BY <1>1
<1>3. FrameOK(plugin, EvalFrame) /\ NoValues(EvalFrame) /\ EvalFrame.kind = "eval"
  BY EvalFrameOK
<1>4. Shape(plugin, stack)
  BY <1>2, <1>3 DEF Shape, IsStack
<1>5. Values(plugin, stack, values)
  <2>1. values \in Seq(Value) /\ Len(values) = 0
    BY <1>1
  <2>2. \A j \in 1..Len(stack) : stack[j] = EvalFrame /\ j = 1
    BY <1>2
  <2> QED
    BY <1>3, <2>1, <2>2 DEF Values, Owned, Pending, Unowned, ReturnForced, NoValues, Owns
<1>6. Slots(stack, slots)
  <2>1. slots \in Seq(Results) /\ Len(slots) = 0
    BY <1>1
  <2>2. Primops(stack) = {}
    BY <1>2, <1>3 DEF Primops
  <2>3. Cardinality(Primops(stack)) = 0
    BY <2>2, FS_EmptySet
  <2>4. \A j \in 1..(Len(slots) - 1) : FALSE
    BY <2>1
  <2> QED
    BY <1>2, <1>3, <2>1, <2>3, <2>4 DEF Slots
<1> QED
  BY <1>1, <1>4, <1>5, <1>6 DEF PrimopInv, Inv

(* However the primops, the evaluations and the writes of a plugin nest,   *)
(* and wherever one fails, frames, values and error slots fit together.    *)
THEOREM PrimopInvariant == Spec => []PrimopInv
<1>1. Init => PrimopInv
  BY PrimopInit
<1>2. ASSUME PrimopInv, [Next]_vars PROVE PrimopInv'
  <2>1. CASE UNCHANGED vars
    <3>1. plugin' = plugin /\ stack' = stack /\ values' = values /\ slots' = slots
      BY <2>1 DEF vars
    <3> QED
      BY <1>2, <3>1 DEF PrimopInv
  <2>2. CASE Next
    BY <1>2, <2>2, EvalStep, ReadStep, WriteStep, CallStep, CallMultiStep, PrimopStep DEF Next
  <2> QED
    BY <1>2, <2>1, <2>2
<1> QED
  BY <1>1, <1>2, PTL DEF Spec

(***************************************************************************)
(* The values that are held.                                               *)
(***************************************************************************)
(* A write is given a value that its caller owns.                          *)
LEMMA GivenOwned ==
  ASSUME NEW p, NEW f, FrameOK(p, f), NEW g, Waits(p, f, g), g.kind = "write", g.dest # 0
  PROVE  g.dest \in Owns(f)
<1>1. f.kind \in {"primop", "write", "call", "multi"}
  BY DEF Waits, Called, FrameOK
<1>2. g.dest = GivenValue(f)
  BY <1>1 DEF Waits, Called, WritesFor
<1> QED
  BY <1>1, <1>2 DEF GivenValue, Owns, ArgumentsOf, OthersOf, Some

(* Whoever uses a value, some frame owns it.                               *)
LEMMA HeldOwned ==
  ASSUME PrimopInv, NEW v \in 1..Len(values), v \in Held
  PROVE  \E j \in 1..Len(stack) : v \in Owns(stack[j])
<1>1. PICK j \in 1..Len(stack) : v \in HeldBy(stack[j])
  BY StackTyping, TopFacts DEF Held
<1>2. FrameOK(plugin, stack[j])
  BY TopFacts DEF Shape
<1>3. CASE stack[j].kind = "write" /\ v = stack[j].dest
  <2>1. j # 1
    BY <1>3, TopFacts DEF Shape
  <2>2. j - 1 \in 1..(Len(stack) - 1) /\ j - 1 \in 1..Len(stack) /\ (j - 1) + 1 = j
    BY <2>1, TopFacts
  <2>3. FrameOK(plugin, stack[j - 1]) /\ Waits(plugin, stack[j - 1], stack[j])
    BY <2>2, TopFacts DEF Shape
  <2>4. v # 0
    BY TopFacts
  <2>5. v \in Owns(stack[j - 1])
    BY <1>3, <2>3, <2>4, GivenOwned
  <2> QED
    BY <2>2, <2>5
<1>4. CASE ~(stack[j].kind = "write" /\ v = stack[j].dest)
  <2>1. v \in Owns(stack[j])
    BY <1>1, <1>2, <1>4 DEF HeldBy, Owns, ArgumentsOf, OthersOf, FrameOK
  <2> QED
    BY <2>1
<1> QED
  BY <1>3, <1>4

(* What frames own they hold.                                              *)
LEMMA ArgumentHeld ==
  ASSUME PrimopInv, NEW j \in 1..Len(stack), NEW v \in ArgumentsOf(stack[j])
  PROVE  v \in Held
<1>1. v \in HeldBy(stack[j])
  BY DEF ArgumentsOf, HeldBy
<1>2. j \in DOMAIN stack
  BY StackTyping, TopFacts
<1> QED
  BY <1>1, <1>2 DEF Held

LEMMA HeldReleasedOnce ==
  ASSUME PrimopInv
  PROVE  ReleasedOnce
<1>1. Values(plugin, stack, values) /\ values \in Seq(Value)
  BY TopFacts
<1>2. SUFFICES ASSUME NEW v \in 1..Len(values)
      PROVE  /\ values[v].refs \in {0, 1}
             /\ v \in Held => values[v].refs = 1
             /\ values[v].role = "arg" /\ values[v].state # "uninit" /\ v \notin Held
                  => values[v].refs = 0
  BY <1>1 DEF ReleasedOnce
<1>3. values[v].refs \in {0, 1}
  <2>1. values[v] \in Value
    BY <1>1
  <2> QED
    BY <2>1 DEF Value
<1>4. ASSUME v \in Held PROVE values[v].refs = 1
  BY <1>1, <1>4, HeldOwned DEF Values, Owned, Owns
<1>5. ASSUME values[v].role = "arg", values[v].state # "uninit", v \notin Held
      PROVE  values[v].refs = 0
  BY <1>1, <1>5, ArgumentHeld DEF Values, Unowned
<1> QED
  BY <1>3, <1>4, <1>5

(***************************************************************************)
(* What Nix sees of a call.                                                *)
(***************************************************************************)
LEMMA OutcomeOfReturn ==
  ASSUME PrimopInv
  PROVE  PrimopOutcome
<1>1. SUFFICES ASSUME Returning
      PROVE  /\ (slots[Len(slots)] = "error") <=> Top.failed
             /\ Top.failed <=> values[Top.ret].state = "uninit"
             /\ values[Top.ret].state = "thunk" => This.value.type = "wrap"
  BY DEF PrimopOutcome
<1>2. /\ Top.kind = "primop" /\ Top.at = "return" /\ (Top.res = "ok" \/ Top.failed)
  BY <1>1 DEF Returning, Running
<1>3. /\ PrimopOK(plugin, Top) /\ Top = stack[Len(stack)] /\ Len(stack) \in 1..Len(stack)
      /\ Slots(stack, slots) /\ Values(plugin, stack, values)
      /\ Len(slots) \in Nat /\ Len(slots) > 0
  BY <1>2, PrimopTop, TopFacts
<1>4. Top.failed <=> Top.res = "error"
  BY <1>2, <1>3 DEF PrimopOK
<1>5. (slots[Len(slots)] = "error") <=> Top.failed
  BY <1>2, <1>3, <1>4 DEF Slots, Failing
<1>6. Top.ret \in PendingOf(Top)
  BY <1>2 DEF PendingOf
<1>7. (values[Top.ret].state = "uninit") <=> ~IsWritten(Top)
  BY <1>3, <1>6 DEF Values, Pending
<1>8. Top.failed <=> values[Top.ret].state = "uninit"
  BY <1>2, <1>4, <1>7 DEF IsWritten
<1>9. values[Top.ret].state = "thunk" => This.value.type = "wrap"
  BY <1>2, <1>3 DEF Values, ReturnForced, This
<1> QED
  BY <1>5, <1>8, <1>9

(***************************************************************************)
(* The theorems.                                                           *)
(***************************************************************************)
(* Callable::call, Callable::call_multi and the writes release every value *)
(* once, none that a frame still uses, and every complete argument.        *)
THEOREM ValuesReleasedOnce == Spec => []ReleasedOnce
<1>1. PrimopInv => ReleasedOnce
  BY HeldReleasedOnce
<1> QED
  BY <1>1, PrimopInvariant, PTL

(* PrimOpImpl::call leaves an error in the slot exactly when it failed,    *)
(* and has else written the return value, forced unless it was wrapped.    *)
THEOREM PrimopOutcomeTheorem == Spec => []PrimopOutcome
<1>1. PrimopInv => PrimopOutcome
  BY OutcomeOfReturn
<1> QED
  BY <1>1, PrimopInvariant, PTL

(***************************************************************************)
(* The results of calls that were allocated and not initialised yet.       *)
(***************************************************************************)
DestOf(f) ==
  CASE f.kind = "call" /\ f.at \in {"dest", "arg"}     -> {f.dest}
    [] f.kind = "multi" /\ f.at \in {"args", "called"} -> {f.dest}
    [] OTHER -> {}

IsDue(f, vs) == \A v \in DestOf(f) : vs[v].state = "uninit"

DestsDue(s, vs) == \A j \in 1..Len(s) : IsDue(s[j], vs)

ResultsDue == DestsDue(stack, values)

(* No step initialises the result of a call that is not the running one.   *)
StaysDue == \A j \in 1..(Len(stack) - 1) : IsDue(stack[j], values) => IsDue(stack[j], values')

LEMMA DestOwned ==
  ASSUME NEW p, NEW f, FrameOK(p, f), NEW v \in DestOf(f)
  PROVE  v = f.dest /\ v \in OthersOf(f) /\ f.kind \in {"call", "multi"}
<1>1. f.kind \in {"call", "multi"} /\ v = f.dest /\ f.at # "start"
  BY DEF DestOf
<1>2. f.dest # 0
  BY <1>1, KindOf DEF CallOK, MultiOK
<1> QED
  BY <1>1, <1>2 DEF OthersOf, Some

LEMMA NoDest ==
  ASSUME NEW f, f.kind \notin {"call", "multi"} \/ f.at \in {"start", "release", "lambda"}
  PROVE  DestOf(f) = {}
BY DEF DestOf

(* Only frames of calls have a result, and their kind does not change.     *)
LEMMA TopKind ==
  ASSUME PrimopInv
  PROVE  "kind" \in DOMAIN Top
BY TopFacts, KindOf DEF EvalOK, ReadOK, WriteOK, CallOK, MultiOK, PrimopOK

LEMMA DueSet ==
  ASSUME PrimopInv, ResultsDue, StaysDue, NEW g, IsDue(g, values'), stack' = WithTop(g)
  PROVE  ResultsDue'
<1>1. IsSet(stack, g, stack')
  BY TopFacts, TopSet DEF WithTop
<1>2. Len(stack) \in Nat
  BY TopFacts
<1>3. ASSUME NEW j \in 1..Len(stack') PROVE IsDue(stack'[j], values')
  <2>1. Len(stack') = Len(stack) /\ stack'[Len(stack)] = g
    BY <1>1 DEF IsSet
  <2>2. CASE j = Len(stack)
    BY <2>1, <2>2
  <2>3. CASE j # Len(stack)
    <3>1. j \in 1..(Len(stack) - 1) /\ j \in 1..Len(stack)
      BY <1>2, <2>1, <2>3
    <3>2. stack'[j] = stack[j]
      BY <1>1, <3>1 DEF IsSet
    <3> QED
      BY <3>1, <3>2 DEF ResultsDue, DestsDue, StaysDue
  <2> QED
    BY <2>2, <2>3
<1> QED
  BY <1>3 DEF ResultsDue, DestsDue

LEMMA DuePush ==
  ASSUME PrimopInv, ResultsDue, StaysDue, NEW f, IsDue(f, values'), NEW g, DestOf(g) = {},
         NEW t, t = Push(f, g)
  PROVE  IsPush(stack, f, g, t) /\ DestsDue(t, values')
<1>1. IsPush(stack, f, g, t)
  BY TopFacts, Pushed DEF Push, WithTop
<1>2. Len(stack) \in Nat
  BY TopFacts
<1>3. ASSUME NEW j \in 1..Len(t) PROVE IsDue(t[j], values')
  <2>1. Len(t) = Len(stack) + 1 /\ t[Len(stack)] = f /\ t[Len(stack) + 1] = g
    BY <1>1 DEF IsPush
  <2>2. CASE j = Len(stack)
    BY <2>1, <2>2
  <2>3. CASE j = Len(stack) + 1
    BY <2>1, <2>3 DEF IsDue
  <2>4. CASE j # Len(stack) /\ j # Len(stack) + 1
    <3>1. j \in 1..(Len(stack) - 1) /\ j \in 1..Len(stack)
      BY <1>2, <2>1, <2>4
    <3>2. t[j] = stack[j]
      BY <1>1, <3>1 DEF IsPush
    <3> QED
      BY <3>1, <3>2 DEF ResultsDue, DestsDue, StaysDue
  <2> QED
    BY <2>2, <2>3, <2>4
<1> QED
  BY <1>1, <1>3 DEF DestsDue

(* A caller that has its result is still to be given the one of its call.  *)
LEMMA DueResumed ==
  ASSUME NEW p, NEW f, FrameOK(p, f), NEW res
  PROVE  DestOf([f EXCEPT !.res = res]) = DestOf(f)
<1> DEFINE g == [f EXCEPT !.res = res]
<1>1. CASE f.kind \in {"call", "multi"}
  <2>1. g.kind = f.kind /\ g.at = f.at /\ g.dest = f.dest
    BY <1>1, KindOf DEF CallOK, MultiOK
  <2> QED
    BY <2>1 DEF DestOf
<1>2. CASE f.kind \notin {"call", "multi"}
  <2>1. g.kind = f.kind
    BY <1>2, KindOf DEF EvalOK, ReadOK, WriteOK, PrimopOK
  <2> QED
    BY <1>2, <2>1, NoDest
<1> QED
  BY <1>1, <1>2

LEMMA DuePop ==
  ASSUME PrimopInv, ResultsDue, StaysDue, Len(stack) > 1, NEW res, NEW t, t = Pop(res)
  PROVE  IsPop(stack, res, t) /\ DestsDue(t, values')
<1>1. IsPop(stack, res, t)
  BY TopFacts, Popped DEF Pop
<1>2. Len(stack) \in Nat /\ Len(t) = Len(stack) - 1
  BY <1>1, TopFacts DEF IsPop
<1>3. ASSUME NEW j \in 1..Len(t) PROVE IsDue(t[j], values')
  <2>1. j \in 1..(Len(stack) - 1) /\ j \in 1..Len(stack)
    BY <1>2
  <2>2. IsDue(stack[j], values') /\ FrameOK(plugin, stack[j])
    BY <2>1, TopFacts DEF ResultsDue, DestsDue, StaysDue, Shape
  <2>3. DestOf(t[j]) = DestOf(stack[j])
    <3>1. CASE j = Len(stack) - 1
      <4>1. t[j] = [stack[j] EXCEPT !.res = res]
        BY <1>1, <3>1 DEF IsPop
      <4> QED
        BY <2>2, <4>1, DueResumed
    <3>2. CASE j # Len(stack) - 1
      <4>1. j \in 1..(Len(stack) - 2)
        BY <1>2, <2>1, <3>2
      <4> QED
        BY <1>1, <4>1 DEF IsPop
    <3> QED
      BY <3>1, <3>2
  <2> QED
    BY <2>2, <2>3 DEF IsDue
<1> QED
  BY <1>1, <1>3 DEF DestsDue

LEMMA DueRenewed ==
  ASSUME NEW s, NEW vs, DestsDue(s, vs), NEW t, IsRenewed(s, t),
         NEW p, \A j \in 1..Len(t) : FrameOK(p, t[j])
  PROVE  DestsDue(t, vs)
<1> SUFFICES ASSUME NEW j \in 1..Len(t) PROVE IsDue(t[j], vs)
  BY DEF DestsDue
<1>1. j \in 1..Len(s) /\ OnceLike(s[j], t[j]) /\ IsDue(s[j], vs) /\ FrameOK(p, t[j])
  BY DEF IsRenewed, DestsDue
<1>2. OnceLike(t[j], s[j])
  BY <1>1 DEF OnceLike
<1>3. /\ s[j].kind = t[j].kind
      /\ t[j].kind \in {"call", "multi"} => s[j].at = t[j].at /\ s[j].dest = t[j].dest
  <2> DEFINE f == t[j]
             g == s[j]
  <2>1. FrameOK(p, f) /\ OnceLike(f, g)
    BY <1>1, <1>2
  <2> HIDE DEF f, g
  <2>2. g.kind = f.kind /\ (f.kind \in {"call", "multi"} => g.at = f.at /\ g.dest = f.dest)
    BY <2>1, OnceKept
  <2> QED
    BY <2>2 DEF f, g
<1>4. DestOf(t[j]) = DestOf(s[j])
  BY <1>3 DEF DestOf
<1> QED
  BY <1>1, <1>4 DEF IsDue

(***************************************************************************)
(* What a step does to the values.                                         *)
(***************************************************************************)
LEMMA DestPlaced ==
  ASSUME PrimopInv, NEW j \in 1..Len(stack), NEW v \in DestOf(stack[j])
  PROVE  v \in 1..Len(values) /\ v \in OthersOf(stack[j]) /\ v \in Owns(stack[j])
<1>1. FrameOK(plugin, stack[j]) /\ Owns(stack[j]) \subseteq 1..Len(values)
  BY TopFacts DEF Shape, Values, Owned
<1> QED
  BY <1>1, DestOwned DEF Owns

LEMMA StaysSame ==
  ASSUME UNCHANGED values
  PROVE  StaysDue
BY DEF StaysDue

LEMMA StaysAlloc ==
  ASSUME PrimopInv, NEW role \in {"ret", "item", "once", "arg", "dest"}, values' = alloc_value(role)
  PROVE  /\ \A j \in 1..Len(stack) : IsDue(stack[j], values) => IsDue(stack[j], values')
         /\ StaysDue /\ values'[NewValue].state = "uninit"
<1>1. IsAlloc(values, role, values')
  BY TopFacts, Allocated DEF alloc_value
<1>2. ASSUME NEW j \in 1..Len(stack), IsDue(stack[j], values) PROVE IsDue(stack[j], values')
  BY <1>1, <1>2, DestPlaced DEF IsAlloc, IsDue
<1>3. StaysDue
  BY <1>2, TopFacts DEF StaysDue
<1>4. values'[NewValue].state = "uninit"
  BY <1>1 DEF IsAlloc, NewValue
<1> QED
  BY <1>2, <1>3, <1>4

LEMMA StaysReleased ==
  ASSUME PrimopInv, NEW released, values' = Released(released)
  PROVE  StaysDue
<1> SUFFICES ASSUME NEW j \in 1..(Len(stack) - 1), NEW v \in DestOf(stack[j])
             PROVE  values'[v].state = values[v].state
  BY DEF StaysDue, IsDue
<1>1. j \in 1..Len(stack)
  BY TopFacts
<1>2. v \in 1..Len(values) /\ values \in Seq(Value)
  BY <1>1, DestPlaced, TopFacts
<1>3. values[v] \in Value /\ v \in DOMAIN values
  BY <1>2
<1>4. values'[v] = [values[v] EXCEPT !.refs = IF v \in released THEN @ - 1 ELSE @]
  BY <1>3 DEF Released
<1> QED
  BY <1>3, <1>4 DEF Value

(* What a write initialises, its caller owns, and not as its own result.   *)
LEMMA WrittenApart ==
  ASSUME PrimopInv, Top.kind = "write", NEW j \in 1..Len(stack), NEW v \in DestOf(stack[j])
  PROVE  v # Top.dest
<1> DEFINE k == Len(stack) - 1
           f == stack[k]
<1>1. k \in 1..Len(stack) /\ FrameOK(plugin, f) /\ Waits(plugin, f, Top)
  BY TopFacts
<1>2. v \in 1..Len(values) /\ v \in OthersOf(stack[j]) /\ v \in Owns(stack[j])
  BY DestPlaced
<1>3. FrameOK(plugin, stack[j]) /\ Owned(stack, values)
  BY TopFacts DEF Shape, Values
<1> HIDE DEF k
<1> SUFFICES ASSUME v = Top.dest PROVE FALSE
  OBVIOUS
<1>4. Top.dest \in Owns(f) /\ Top.dest = GivenValue(f)
  <2>1. Top.dest # 0
    BY <1>2
  <2>2. f.kind \in {"primop", "write", "call", "multi"}
    BY <1>1 DEF Waits, Called, FrameOK
  <2> QED
    BY <1>1, <2>1, <2>2, GivenOwned DEF Waits, Called, WritesFor
<1>5. j = k
  BY <1>1, <1>2, <1>3, <1>4 DEF Owned
<1>6. f.kind \in {"call", "multi"}
  BY <1>3, <1>5, DestOwned
<1>7. Top.dest \in ArgumentsOf(f)
  BY <1>2, <1>4, <1>6 DEF GivenValue, ArgumentsOf, Some
<1> QED
  BY <1>1, <1>2, <1>3, <1>5, <1>7 DEF Owned

LEMMA StaysWritten ==
  ASSUME PrimopInv, Top.kind = "write", NEW state, values' = Initialised(Top.dest, state)
  PROVE  StaysDue
<1> SUFFICES ASSUME NEW j \in 1..(Len(stack) - 1), NEW v \in DestOf(stack[j])
             PROVE  values'[v].state = values[v].state
  BY DEF StaysDue, IsDue
<1>1. j \in 1..Len(stack)
  BY TopFacts
<1>2. v \in 1..Len(values) /\ values \in Seq(Value) /\ v # Top.dest
  BY <1>1, DestPlaced, TopFacts, WrittenApart
<1> QED
  BY <1>2 DEF Initialised

(* The result of the running call is of no other.                          *)
LEMMA StaysResult ==
  ASSUME PrimopInv, Top.kind \in {"call", "multi"}, Top.dest # 0, NEW state,
         values' = Initialised(Top.dest, state)
  PROVE  StaysDue
<1> SUFFICES ASSUME NEW j \in 1..(Len(stack) - 1), NEW v \in DestOf(stack[j])
             PROVE  values'[v].state = values[v].state
  BY DEF StaysDue, IsDue
<1>1. j \in 1..Len(stack) /\ j # Len(stack)
  BY TopFacts
<1>2. v \in 1..Len(values) /\ v \in Owns(stack[j]) /\ values \in Seq(Value)
  BY <1>1, DestPlaced, TopFacts
<1>3. Top.dest \in Owns(stack[Len(stack)])
  BY DEF Top, Owns, OthersOf, Some
<1>4. v # Top.dest
  BY <1>1, <1>2, <1>3, TopFacts DEF Values, Owned
<1> QED
  BY <1>2, <1>4 DEF Initialised

(***************************************************************************)
(* Most frames have no result of a call: when one of them runs, the frames *)
(* that wait keep theirs.                                                  *)
(***************************************************************************)
Plain(f) == f.kind \notin {"call", "multi"}

PlainMove ==
  \/ stack' = stack
  \/ \E g : Plain(g) /\ stack' = WithTop(g)
  \/ \E f, g : Plain(f) /\ DestOf(g) = {} /\ stack' = Push(f, g)
  \/ Len(stack) > 1 /\ \E res : stack' = Pop(res)

LEMMA PlainDue ==
  ASSUME NEW f, Plain(f)
  PROVE  DestOf(f) = {} /\ \A vs : IsDue(f, vs)
BY NoDest DEF Plain, IsDue

LEMMA PlainStep ==
  ASSUME PrimopInv, ResultsDue, StaysDue, Plain(Top), PlainMove
  PROVE  ResultsDue'
<1>1. ASSUME stack' = stack PROVE ResultsDue'
  <2>1. \A j \in 1..Len(stack) : j = Len(stack) \/ j \in 1..(Len(stack) - 1)
    BY TopFacts
  <2> QED
    BY <1>1, <2>1, PlainDue DEF ResultsDue, DestsDue, StaysDue, Top
<1>2. ASSUME NEW g, Plain(g), stack' = WithTop(g) PROVE ResultsDue'
  BY <1>2, PlainDue, DueSet
<1>3. ASSUME NEW f, NEW g, Plain(f), DestOf(g) = {}, stack' = Push(f, g) PROVE ResultsDue'
  <2>1. IsDue(f, values')
    BY <1>3, PlainDue
  <2>2. DestsDue(stack', values')
    BY <1>3, <2>1, DuePush
  <2> QED
    BY <2>2 DEF ResultsDue
<1>4. ASSUME Len(stack) > 1, NEW res, stack' = Pop(res) PROVE ResultsDue'
  <2>1. DestsDue(stack', values')
    BY <1>4, DuePop
  <2> QED
    BY <2>1 DEF ResultsDue
<1> QED
  BY <1>1, <1>2, <1>3, <1>4 DEF PlainMove

LEMMA NewDests ==
  /\ \A name, ret : DestOf(PrimopFrame(name, ret)) = {}
  /\ DestOf(EvalFrame) = {}
  /\ \A read : DestOf(ReadFrame(read)) = {}
  /\ \A tree, dest, named : DestOf(WriteFrame(tree, dest, named)) = {}
  /\ \A arg : DestOf(CallFrame(arg)) = {}
  /\ \A args : DestOf(MultiFrame(args)) = {}
BY DEF DestOf, PrimopFrame, EvalFrame, ReadFrame, WriteFrame, CallFrame, MultiFrame

LEMMA EvalDue ==
  ASSUME PrimopInv, ResultsDue, Eval
  PROVE  ResultsDue'
<1>1. Plain(Top) /\ "kind" \in DOMAIN Top
  BY TopKind DEF Plain, Eval, EvalEnters, EvalReturns, EvalEnds, Running
<1>2. ASSUME NEW name \in DOMAIN plugin, EvalEnters(name) PROVE StaysDue /\ PlainMove
  <2>1. StaysDue
    BY <1>2, StaysAlloc DEF EvalEnters
  <2>2. Plain([Top EXCEPT !.entered = TRUE])
    BY <1>1 DEF Plain
  <2>3. PlainMove
    BY <1>2, <2>2, NewDests DEF EvalEnters, PlainMove
  <2> QED
    BY <2>1, <2>3
<1>3. ASSUME NEW result \in Results, EvalReturns(result) PROVE StaysDue /\ PlainMove
  <2>1. Len(stack) > 1
    BY <1>3, TopFacts, SlotExists DEF EvalReturns
  <2> QED
    BY <1>3, <2>1, StaysSame DEF EvalReturns, PlainMove
<1>4. ASSUME EvalEnds PROVE StaysDue /\ PlainMove
  BY <1>4, StaysSame DEF EvalEnds, PlainMove
<1> QED
  BY <1>1, <1>2, <1>3, <1>4, PlainStep DEF Eval

LEMMA ReadDue ==
  ASSUME PrimopInv, ResultsDue, Read
  PROVE  ResultsDue'
<1>1. Top.kind = "read" /\ UNCHANGED values
  BY DEF Read, Find, FindPanics, ForceValue, Check, with_string, ReadGoesOn, ReadFails, ReadParts,
         ReadPart, Reading, Running, Panic
<1>2. Plain(Top) /\ "kind" \in DOMAIN Top /\ StaysDue /\ Len(stack) > 1
  BY <1>1, TopKind, TopFacts, StaysSame DEF Plain
<1>3. /\ \A x : Plain([Top EXCEPT !.steps = x]) /\ Plain([Top EXCEPT !.res = x])
      /\ \A x : Plain([Top EXCEPT !.parts = x])
      /\ \A x, y : Plain([Top EXCEPT !.at = x, !.parts = y])
  BY <1>2 DEF Plain
<1>4. NextStep => PlainMove
  BY <1>3 DEF NextStep, PlainMove
<1>5. \A res : ReadEnds(res) => PlainMove
  BY <1>2 DEF ReadEnds, PlainMove
<1>6. ASSUME ForceValue PROVE PlainMove
  BY <1>3, <1>6, NewDests DEF ForceValue, PlainMove
<1>7. ASSUME ReadGoesOn \/ ReadParts PROVE PlainMove
  BY <1>3, <1>7 DEF ReadGoesOn, ReadParts, PlainMove
<1>8. ASSUME ReadPart PROVE PlainMove
  BY <1>2, <1>3, <1>8, NewDests DEF ReadPart, PlainMove
<1>9. ASSUME FindPanics PROVE PlainMove
  BY <1>9 DEF FindPanics, Panic, PlainMove
<1>10. PlainMove
  BY <1>4, <1>5, <1>6, <1>7, <1>8, <1>9 DEF Read, Find, Check, with_string, ReadFails
<1> QED
  BY <1>2, <1>10, PlainStep

LEMMA WriteEndsDue ==
  ASSUME PrimopInv, ResultsDue, Top.kind = "write", NEW result, WriteEnds(result)
  PROVE  StaysDue /\ PlainMove
<1>1. StaysDue
  BY StaysSame, StaysWritten DEF WriteEnds
<1>2. PlainMove
  BY TopFacts DEF WriteEnds, PlainMove
<1> QED
  BY <1>1, <1>2

(* The frames under the one that takes the items of an iterator, or that   *)
(* has them, stay as they are.                                             *)
LEMMA OnceDue ==
  ASSUME PrimopInv, PrimopInv', ResultsDue, OnceTake \/ \E result \in Results : OnceFinish(result)
  PROVE  ResultsDue'
<1>1. Plain(Top) /\ Top.kind = "write" /\ "kind" \in DOMAIN Top /\ Len(stack) > 1
  BY TopKind, TopFacts DEF Plain, OnceTake, OnceFinish, Writing, Running
<1>2. ASSUME NEW t, DestsDue(t, values'), IsStack(t), NEW id, NEW state,
             stack' = WithIter(t, id, state)
      PROVE  ResultsDue'
  <2>1. IsRenewed(t, stack')
    BY <1>2, Renewed DEF WithIter
  <2>2. \A j \in 1..Len(stack') : FrameOK(plugin', stack'[j])
    BY DEF PrimopInv, Inv, Shape
  <2>3. DestsDue(stack', values')
    BY <1>2, <2>1, <2>2, DueRenewed
  <2> QED
    BY <2>3 DEF ResultsDue
<1>3. ASSUME OnceTake PROVE ResultsDue'
  <2> DEFINE f == [Top EXCEPT !.at = "list", !.item = NewValue]
             g == WriteFrame([type |-> "list", items |-> Top.tree.items], NewValue, Top.named)
             t == Push(f, g)
  <2>1. StaysDue
    BY <1>3, StaysAlloc DEF OnceTake
  <2>2. IsDue(f, values') /\ DestOf(g) = {}
    <3>1. Plain(f)
      BY <1>1 DEF Plain
    <3> HIDE DEF f
    <3> QED
      BY <3>1, PlainDue, NewDests
  <2>3. stack' = WithIter(t, Top.tree.id, "taken")
    BY <1>3 DEF OnceTake
  <2> HIDE DEF f, g
  <2>4. DestsDue(t, values') /\ IsStack(t)
    BY <2>1, <2>2, DuePush DEF IsPush
  <2> HIDE DEF t
  <2> QED
    BY <1>2, <2>3, <2>4
<1>4. ASSUME NEW result \in Results, OnceFinish(result) PROVE ResultsDue'
  <2> DEFINE t == Pop(result)
  <2>1. StaysDue
    BY <1>1, <1>4, StaysWritten, StaysReleased DEF OnceFinish
  <2>2. stack' = WithIter(t, Top.tree.id, result)
    BY <1>4 DEF OnceFinish
  <2>3. DestsDue(t, values') /\ IsStack(t)
    BY <1>1, <2>1, DuePop DEF IsPop
  <2> HIDE DEF t
  <2> QED
    BY <1>2, <2>2, <2>3
<1> QED
  BY <1>3, <1>4

LEMMA WriteDue ==
  ASSUME PrimopInv, PrimopInv', ResultsDue, Write
  PROVE  ResultsDue'
<1>1. Top.kind = "write"
  BY DEF Write, WriteScalar, WriteText, WriteBigInt, OnceFinish, TextRefused, WritePath, WriteCopy,
         WriteWrapped, write_primop, MakeBuilder, WriteItem, ItemAllocFails, KeyPanics,
         ItemWritten, ItemFails, BuildCollection, OnceTake, OnceAllocFails, OnceAgain,
         Writing, Running
<1>2. Plain(Top) /\ "kind" \in DOMAIN Top /\ Len(stack) > 1
  BY <1>1, TopKind, TopFacts DEF Plain
<1>3. ASSUME \/ \E result : WriteScalar(result) \/ WriteText(result) \/ WriteBigInt(result)
             \/ TextRefused \/ WritePath \/ BuildCollection
      PROVE  StaysDue /\ PlainMove
  <2>1. PICK result : WriteEnds(result)
    BY <1>3 DEF WriteScalar, WriteText, WriteBigInt, TextRefused, WritePath, BuildCollection
  <2> QED
    BY <1>1, <2>1, WriteEndsDue
<1>4. ASSUME Panic PROVE StaysDue /\ PlainMove
  BY <1>4, StaysSame DEF Panic, PlainMove
<1>5. ASSUME write_primop \/ OnceAgain \/ KeyPanics PROVE StaysDue /\ PlainMove
  <2>1. Panic \/ \E result : WriteEnds(result)
    BY <1>5 DEF write_primop, OnceAgain, KeyPanics
  <2> QED
    BY <1>1, <1>4, <2>1, WriteEndsDue
<1>6. ASSUME WriteCopy PROVE StaysDue /\ PlainMove
  <2>1. StaysDue
    BY <1>1, <1>6, StaysWritten DEF WriteCopy
  <2>2. PlainMove
    BY <1>2, <1>6 DEF WriteCopy, PlainMove
  <2> QED
    BY <2>1, <2>2
<1>7. ASSUME ItemAllocFails \/ ItemFails \/ OnceAllocFails PROVE StaysDue /\ PlainMove
  BY <1>2, <1>7, StaysSame DEF ItemAllocFails, ItemFails, OnceAllocFails, PlainMove
<1>8. ASSUME WriteWrapped \/ MakeBuilder \/ ItemWritten PROVE StaysDue /\ PlainMove
  <2>1. UNCHANGED values
    BY <1>8 DEF WriteWrapped, MakeBuilder, ItemWritten
  <2>2. /\ Plain([Top EXCEPT !.tree = Top.tree.inner]) /\ Plain([Top EXCEPT !.at = "items"])
        /\ Plain([Top EXCEPT !.at = "items", !.item = 0, !.i = @ + 1, !.res = "none"])
    BY <1>2 DEF Plain
  <2>3. PlainMove
    BY <1>2, <1>8, <2>2 DEF WriteWrapped, MakeBuilder, ItemWritten, PlainMove
  <2> QED
    BY <2>1, <2>3, StaysSame
<1>9. ASSUME WriteItem PROVE StaysDue /\ PlainMove
  <2>1. StaysDue
    BY <1>9, StaysAlloc DEF WriteItem
  <2>2. Plain([Top EXCEPT !.at = "item", !.item = NewValue])
    BY <1>2 DEF Plain
  <2>3. PlainMove
    BY <1>9, <2>2, NewDests DEF WriteItem, PlainMove
  <2> QED
    BY <2>1, <2>3
<1>10. CASE OnceTake \/ \E result \in Results : OnceFinish(result)
  BY <1>10, OnceDue
<1>11. CASE ~(OnceTake \/ \E result \in Results : OnceFinish(result))
  <2>1. StaysDue /\ PlainMove
    BY <1>3, <1>5, <1>6, <1>7, <1>8, <1>9, <1>11 DEF Write
  <2> QED
    BY <1>2, <2>1, PlainStep
<1> QED
  BY <1>10, <1>11

LEMMA PrimopDue ==
  ASSUME PrimopInv, ResultsDue, Primop
  PROVE  ResultsDue'
<1>1. Top.kind = "primop" /\ UNCHANGED values
  BY DEF Primop, from_raw, Body, try_into_value, force_inline, WriteReturn, set_err_msg,
         PrimopReturns, Returning, At, Running
<1>2. Plain(Top) /\ "kind" \in DOMAIN Top /\ Len(stack) > 1 /\ StaysDue
  BY <1>1, TopKind, TopFacts, StaysSame DEF Plain
<1>3. /\ \A x, y : /\ Plain([Top EXCEPT !.at = x]) /\ Plain([Top EXCEPT !.res = x])
                   /\ Plain([Top EXCEPT !.at = x, !.res = y])
                   /\ Plain([Top EXCEPT !.at = x, !.failed = y])
      /\ Plain([Top EXCEPT !.at = "ops", !.i = 0, !.res = "none"])
      /\ Plain([Top EXCEPT !.i = @ + 1, !.res = "none"])
  BY <1>2 DEF Plain
<1>4. \A op : op.op \in {"read", "call", "multi"} => DestOf(OpFrame(op)) = {}
  BY NewDests DEF OpFrame
<1>5. ASSUME Body PROVE PlainMove
  <2>1. CASE Top.i = Len(This.ops)
    BY <1>3, <1>5, <2>1 DEF Body, PlainMove
  <2>2. CASE Top.i # Len(This.ops)
    <3>1. This.ops[Top.i + 1].op \in {"read", "call", "multi"}
      <4>1. /\ PrimopOK(plugin, Top) /\ plugin \in Plugins /\ Top.at = "ops"
        BY <1>1, <1>5, PrimopTop, TopFacts DEF Body, At
      <4>2. Top.i \in 0..Len(This.ops) /\ Len(This.ops) \in Nat
        BY <4>1, PluginsAssumption DEF PrimopOK, This
      <4>3. Top.i + 1 \in 1..Len(This.ops)
        BY <2>2, <4>2
      <4> QED
        BY <4>1, <4>3, PluginsAssumption DEF PrimopOK, This
    <3>2. DestOf(OpFrame(This.ops[Top.i + 1])) = {}
      BY <1>4, <3>1
    <3> QED
      BY <1>3, <1>5, <2>2, <3>2 DEF Body, PlainMove
  <2> QED
    BY <2>1, <2>2
<1>6. ASSUME from_raw PROVE PlainMove
  BY <1>3, <1>6, NewDests DEF from_raw, PlainMove
<1>7. ASSUME try_into_value \/ set_err_msg PROVE PlainMove
  BY <1>3, <1>7 DEF try_into_value, set_err_msg, PlainMove
<1>8. ASSUME force_inline \/ WriteReturn PROVE PlainMove
  BY <1>3, <1>8, NewDests DEF force_inline, WriteReturn, PlainMove
<1>9. ASSUME PrimopReturns PROVE PlainMove
  BY <1>2, <1>9 DEF PrimopReturns, PlainMove
<1>10. PlainMove
  BY <1>5, <1>6, <1>7, <1>8, <1>9 DEF Primop
<1> QED
  BY <1>2, <1>10, PlainStep

(* The running call, and its result.                                       *)
LEMMA TopDue ==
  ASSUME PrimopInv, ResultsDue
  PROVE  IsDue(Top, values)
BY TopFacts DEF ResultsDue, DestsDue, Top

LEMMA DuePops ==
  ASSUME PrimopInv, ResultsDue, StaysDue, Len(stack) > 1, NEW res, stack' = Pop(res)
  PROVE  ResultsDue'
<1>1. DestsDue(stack', values')
  BY DuePop
<1> QED
  BY <1>1 DEF ResultsDue

LEMMA DuePushes ==
  ASSUME PrimopInv, ResultsDue, StaysDue, NEW f, IsDue(f, values'), NEW g, DestOf(g) = {},
         stack' = Push(f, g)
  PROVE  ResultsDue'
<1>1. DestsDue(stack', values')
  BY DuePush
<1> QED
  BY <1>1 DEF ResultsDue

LEMMA CallDue ==
  ASSUME PrimopInv, ResultsDue, Call
  PROVE  ResultsDue'
<1>1. Top.kind = "call"
  BY DEF Call, CallAllocDest, CallAllocArg, CallArgFails, init_apply, CallRelease, Calling, Running
<1>2. CallOK(Top) /\ Len(stack) > 1
  BY <1>1, CallTop
<1>3. \A v : IsDue([Top EXCEPT !.at = "release", !.failed = v], values')
  <2> SUFFICES ASSUME NEW v
               PROVE  IsDue([Top EXCEPT !.at = "release", !.failed = v], values')
    OBVIOUS
  <2> DEFINE g == [Top EXCEPT !.at = "release", !.failed = v]
  <2>1. g.at = "release"
    BY <1>2 DEF CallOK
  <2> HIDE DEF g
  <2>2. IsDue(g, values')
    BY <2>1, NoDest DEF IsDue
  <2> QED
    BY <2>2 DEF g
<1>4. ASSUME CallAllocDest PROVE ResultsDue'
  <2>1. CASE UNCHANGED values /\ stack' = Pop("error")
    BY <1>2, <2>1, StaysSame, DuePops
  <2>2. CASE values' = alloc_value("dest") /\ stack' = WithTop([Top EXCEPT !.at = "dest", !.dest = NewValue])
    <3> DEFINE g == [Top EXCEPT !.at = "dest", !.dest = NewValue]
    <3>1. StaysDue /\ values'[NewValue].state = "uninit"
      BY <2>2, StaysAlloc
    <3>2. g.kind = "call" /\ g.at = "dest" /\ g.dest = NewValue
      BY <1>1, <1>2 DEF CallOK
    <3>3. stack' = WithTop(g)
      BY <2>2
    <3> HIDE DEF g
    <3>4. IsDue(g, values')
      BY <3>1, <3>2 DEF IsDue, DestOf
    <3> QED
      BY <3>1, <3>3, <3>4, DueSet
  <2> QED
    BY <1>4, <2>1, <2>2 DEF CallAllocDest
<1>5. ASSUME CallAllocArg PROVE ResultsDue'
  <2>1. CASE UNCHANGED values /\ stack' = Pop("error")
    BY <1>2, <2>1, StaysSame, DuePops
  <2>2. CASE /\ values' = alloc_value("arg")
             /\ stack' = Push([Top EXCEPT !.at = "arg", !.arg_value = NewValue],
                              WriteFrame(Top.arg, NewValue, FALSE))
    <3> DEFINE f == [Top EXCEPT !.at = "arg", !.arg_value = NewValue]
               g == WriteFrame(Top.arg, NewValue, FALSE)
    <3>1. StaysDue /\ (IsDue(Top, values) => IsDue(Top, values'))
      BY <2>2, StaysAlloc, TopFacts
    <3>2. f.kind = "call" /\ f.at = "arg" /\ f.dest = Top.dest /\ Top.at = "dest"
      BY <1>1, <1>2, <1>5 DEF CallOK, CallAllocArg, Calling
    <3>3. stack' = Push(f, g) /\ DestOf(g) = {}
      BY <2>2, NewDests
    <3> HIDE DEF f, g
    <3>4. IsDue(f, values')
      BY <1>1, <3>1, <3>2, TopDue DEF IsDue, DestOf
    <3> QED
      BY <3>1, <3>3, <3>4, DuePushes
  <2> QED
    BY <1>5, <2>1, <2>2 DEF CallAllocArg
<1>6. ASSUME CallArgFails PROVE ResultsDue'
  BY <1>3, <1>6, StaysSame, DueSet DEF CallArgFails
<1>7. ASSUME NEW result \in Results, init_apply(result) PROVE ResultsDue'
  <2>1. Top.dest # 0
    BY <1>2, <1>7 DEF CallOK, init_apply, Calling
  <2>2. StaysDue
    BY <1>1, <1>7, <2>1, StaysSame, StaysResult DEF init_apply
  <2> QED
    BY <1>3, <1>7, <2>2, DueSet DEF init_apply
<1>8. ASSUME CallRelease PROVE ResultsDue'
  BY <1>2, <1>8, StaysReleased, DuePops DEF CallRelease
<1> QED
  BY <1>4, <1>5, <1>6, <1>7, <1>8 DEF Call

LEMMA CallMultiDue ==
  ASSUME PrimopInv, ResultsDue, CallMulti
  PROVE  ResultsDue'
<1>1. Top.kind = "multi"
  BY DEF CallMulti, MultiTooFew, MultiAllocDest, MultiWriteArg, MultiArgWritten, MultiArgFails,
         value_call_multi, MultiCalled, MultiRelease, MultiCallLast, Multi, Running
<1>2. MultiOK(Top) /\ Len(stack) > 1
  BY <1>1, MultiTop
<1>3. ASSUME NEW g, g.at \in {"release", "lambda"} PROVE IsDue(g, values')
  BY <1>3, NoDest DEF IsDue
<1>4. ASSUME MultiAllocDest PROVE ResultsDue'
  <2>1. CASE UNCHANGED values /\ stack' = Pop("error")
    BY <1>2, <2>1, StaysSame, DuePops
  <2>2. CASE values' = alloc_value("dest") /\ stack' = WithTop([Top EXCEPT !.at = "args", !.dest = NewValue])
    <3> DEFINE g == [Top EXCEPT !.at = "args", !.dest = NewValue]
    <3>1. StaysDue /\ values'[NewValue].state = "uninit"
      BY <2>2, StaysAlloc
    <3>2. g.kind = "multi" /\ g.at = "args" /\ g.dest = NewValue
      BY <1>1, <1>2 DEF MultiOK
    <3>3. stack' = WithTop(g)
      BY <2>2
    <3> HIDE DEF g
    <3>4. IsDue(g, values')
      BY <3>1, <3>2 DEF IsDue, DestOf
    <3> QED
      BY <3>1, <3>3, <3>4, DueSet
  <2> QED
    BY <1>4, <2>1, <2>2 DEF MultiAllocDest
<1>5. ASSUME MultiWriteArg PROVE ResultsDue'
  <2>1. CASE /\ UNCHANGED values
             /\ stack' = WithTop([Top EXCEPT !.at = "release", !.failed = TRUE])
    <3> DEFINE g == [Top EXCEPT !.at = "release", !.failed = TRUE]
    <3>1. g.at = "release" /\ stack' = WithTop(g)
      BY <1>2, <2>1 DEF MultiOK
    <3> HIDE DEF g
    <3> QED
      BY <1>3, <2>1, <3>1, StaysSame, DueSet
  <2>2. CASE /\ values' = alloc_value("arg")
             /\ stack' = Push([Top EXCEPT !.current = NewValue],
                              WriteFrame(Top.args[Len(Top.written) + 1], NewValue, FALSE))
    <3> DEFINE f == [Top EXCEPT !.current = NewValue]
               g == WriteFrame(Top.args[Len(Top.written) + 1], NewValue, FALSE)
    <3>1. StaysDue /\ (IsDue(Top, values) => IsDue(Top, values'))
      BY <2>2, StaysAlloc, TopFacts
    <3>2. f.kind = "multi" /\ f.at = Top.at /\ f.dest = Top.dest
      BY <1>1, <1>2 DEF MultiOK
    <3>3. stack' = Push(f, g) /\ DestOf(g) = {}
      BY <2>2, NewDests
    <3> HIDE DEF f, g
    <3>4. IsDue(f, values')
      BY <1>1, <3>1, <3>2, TopDue DEF IsDue, DestOf
    <3> QED
      BY <3>1, <3>3, <3>4, DuePushes
  <2> QED
    BY <1>5, <2>1, <2>2 DEF MultiWriteArg
<1>6. ASSUME MultiArgWritten PROVE ResultsDue'
  <2> DEFINE g == [Top EXCEPT !.written = Append(@, Top.current), !.current = 0, !.res = "none"]
  <2>1. g.kind = "multi" /\ g.at = Top.at /\ g.dest = Top.dest
    BY <1>1, <1>2 DEF MultiOK
  <2>2. stack' = WithTop(g) /\ UNCHANGED values
    BY <1>6 DEF MultiArgWritten
  <2> HIDE DEF g
  <2>3. IsDue(g, values')
    BY <1>1, <2>1, <2>2, TopDue DEF IsDue, DestOf
  <2> QED
    BY <2>2, <2>3, StaysSame, DueSet
<1>7. ASSUME MultiArgFails PROVE ResultsDue'
  <2> DEFINE g == [Top EXCEPT !.at = "release", !.current = 0, !.failed = TRUE]
  <2>1. g.at = "release" /\ stack' = WithTop(g) /\ UNCHANGED values
    BY <1>2, <1>7 DEF MultiOK, MultiArgFails
  <2> HIDE DEF g
  <2> QED
    BY <1>3, <2>1, StaysSame, DueSet
<1>8. ASSUME value_call_multi PROVE ResultsDue'
  <2> DEFINE f == [Top EXCEPT !.at = "called"]
  <2>1. f.kind = "multi" /\ f.at = "called" /\ f.dest = Top.dest
    BY <1>1, <1>2 DEF MultiOK
  <2>2. stack' = Push(f, EvalFrame) /\ UNCHANGED values /\ Top.at = "args"
    BY <1>8 DEF value_call_multi, Multi
  <2> HIDE DEF f
  <2>3. IsDue(f, values')
    BY <1>1, <2>1, <2>2, TopDue DEF IsDue, DestOf
  <2> QED
    BY <2>2, <2>3, NewDests, StaysSame, DuePushes
<1>9. ASSUME MultiCalled PROVE ResultsDue'
  <2> DEFINE g == [Top EXCEPT !.at = "release", !.failed = (Top.res = "error"), !.res = "none"]
  <2>1. g.at = "release" /\ stack' = WithTop(g)
    BY <1>2, <1>9 DEF MultiOK, MultiCalled
  <2> HIDE DEF g
  <2>2. Top.dest # 0
    BY <1>2, <1>9 DEF MultiOK, MultiCalled, Multi
  <2>3. StaysDue
    BY <1>1, <1>9, <2>2, StaysSame, StaysResult DEF MultiCalled
  <2> QED
    BY <1>3, <2>1, <2>3, DueSet
<1>10. ASSUME MultiRelease PROVE ResultsDue'
  <2> DEFINE g == [Top EXCEPT !.at = "lambda", !.written = << >>]
  <2>1. StaysDue
    BY <1>10, StaysReleased DEF MultiRelease
  <2>2. g.at = "lambda" /\ (stack' = Pop("error") \/ stack' = WithTop(g))
    BY <1>2, <1>10 DEF MultiOK, MultiRelease
  <2> HIDE DEF g
  <2> QED
    BY <1>2, <1>3, <2>1, <2>2, DuePops, DueSet
<1>11. ASSUME MultiCallLast PROVE ResultsDue'
  <2> DEFINE g == CallFrame(Top.args[Len(Top.args)])
  <2>1. IsDue(g, values')
    BY NewDests DEF IsDue
  <2>2. UNCHANGED values /\ (stack' = Pop("error") \/ stack' = WithTop(g))
    BY <1>11 DEF MultiCallLast
  <2> HIDE DEF g
  <2> QED
    BY <1>2, <2>1, <2>2, StaysSame, DuePops, DueSet
<1>12. ASSUME MultiTooFew PROVE ResultsDue'
  BY <1>12 DEF MultiTooFew, Panic, ResultsDue
<1> QED
  BY <1>4, <1>5, <1>6, <1>7, <1>8, <1>9, <1>10, <1>11, <1>12 DEF CallMulti

LEMMA ResultsDueInvariant == Spec => [](PrimopInv /\ ResultsDue)
<1>1. Init => ResultsDue
  <2> SUFFICES ASSUME Init PROVE ResultsDue
    OBVIOUS
  <2>1. Len(stack) = 1 /\ stack[1] = EvalFrame
    BY DEF Init
  <2> QED
    BY <2>1, NewDests DEF ResultsDue, DestsDue, IsDue
<1>2. ASSUME PrimopInv, PrimopInv', ResultsDue, [Next]_vars PROVE ResultsDue'
  <2>1. CASE UNCHANGED vars
    BY <1>2, <2>1 DEF vars, ResultsDue
  <2>2. CASE Next
    BY <1>2, <2>2, EvalDue, ReadDue, WriteDue, CallDue, CallMultiDue, PrimopDue DEF Next
  <2> QED
    BY <1>2, <2>1, <2>2
<1> QED
  BY <1>1, <1>2, PrimopInvariant, PTL DEF Spec

(* What a frame that writes was given is there and not initialised, and    *)
(* its caller owns it.                                                     *)
LEMMA GivenDue ==
  ASSUME PrimopInv, NEW j \in 1..Len(stack), stack[j].kind = "write",
         NEW v, v = stack[j].dest
  PROVE  LET c == stack[j - 1]
         IN  /\ j - 1 \in 1..Len(stack) /\ v \in Owns(c) /\ v \in 1..Len(values)
             /\ values[v].state = "uninit" /\ values[v].refs = 1
             /\ c.kind \in {"call", "multi"} => v \in ArgumentsOf(c)
<1> DEFINE c == stack[j - 1]
           g == stack[j]
<1>1. j # 1
  BY TopFacts DEF Shape
<1>2. j - 1 \in 1..(Len(stack) - 1) /\ j - 1 \in 1..Len(stack) /\ (j - 1) + 1 = j
  BY <1>1, TopFacts
<1>3. FrameOK(plugin, c) /\ Waits(plugin, c, g) /\ Owned(stack, values) /\ Pending(stack, values)
  BY <1>2, TopFacts DEF Shape, Values
<1>4. IsWritten(c) = FALSE /\ (\A w \in PendingOf(c) : values[w].state = "uninit" <=> ~IsWritten(c))
  BY <1>2, <1>3 DEF Waits, IsWritten, Pending
<1> HIDE DEF c, g
<1>5. g.kind = "write" /\ v = g.dest
  BY DEF g
<1>6. c.kind \in {"primop", "write", "call", "multi"} /\ v = GivenValue(c)
  BY <1>3, <1>5 DEF Waits, Called, FrameOK, WritesFor
<1>7. v # 0 /\ v \in PendingOf(c)
  <2>1. CASE c.kind = "primop"
    BY <1>3, <1>6, <2>1, KindOf DEF PrimopOK, GivenValue, PendingOf
  <2>2. CASE c.kind = "write"
    <3>1. c.at \in {"item", "list"} /\ WriteOK(c)
      BY <1>3, <2>2, KindOf DEF Waits, Called
    <3> QED
      BY <1>6, <2>2, <3>1 DEF WriteOK, GivenValue, PendingOf, Some
  <2>3. CASE c.kind = "call"
    <3>1. c.at = "arg" /\ CallOK(c)
      BY <1>3, <2>3, KindOf DEF Waits, Called
    <3> QED
      BY <1>6, <2>3, <3>1 DEF CallOK, GivenValue, PendingOf, Some
  <2>4. CASE c.kind = "multi"
    <3>1. c.current # 0
      BY <1>3, <1>5, <2>4 DEF Waits, Called
    <3> QED
      BY <1>6, <2>4, <3>1 DEF GivenValue, PendingOf, Some
  <2> QED
    BY <1>6, <2>1, <2>2, <2>3, <2>4
<1>8. v \in Owns(c)
  BY <1>3, <1>5, <1>7, GivenOwned
<1>9. v \in 1..Len(values) /\ values[v].refs = 1
  BY <1>2, <1>3, <1>8 DEF Owned, Owns, c
<1>10. c.kind \in {"call", "multi"} => v \in ArgumentsOf(c)
  BY <1>6, <1>7 DEF GivenValue, ArgumentsOf, Some
<1> QED
  BY <1>2, <1>4, <1>7, <1>8, <1>9, <1>10 DEF c

LEMMA DueInitialised ==
  ASSUME PrimopInv, ResultsDue
  PROVE  InitialisedOnce
<1>1. DOMAIN stack = 1..Len(stack) /\ DOMAIN values = 1..Len(values)
  BY StackTyping, TopFacts
<1>2. Owned(stack, values)
  BY TopFacts DEF Values
<1>3. SUFFICES ASSUME NEW j \in 1..Len(stack), NEW v \in DueBy(stack[j])
               PROVE  /\ v \in 1..Len(values)
                      /\ values[v].state = "uninit" /\ values[v].refs = 1
                      /\ \A k \in 1..Len(stack) : v \in DueBy(stack[k]) => k = j
  BY <1>1 DEF InitialisedOnce
<1>4. ASSUME NEW i \in 1..Len(stack), v \in DueBy(stack[i])
      PROVE  \/ stack[i].kind = "write" /\ v = stack[i].dest
             \/ v \in DestOf(stack[i])
  BY <1>4 DEF DueBy, DestOf
<1>5. v \in 1..Len(values) /\ values[v].state = "uninit" /\ values[v].refs = 1
  <2>1. CASE stack[j].kind = "write" /\ v = stack[j].dest
    BY <2>1, GivenDue
  <2>2. CASE v \in DestOf(stack[j])
    BY <1>2, <2>2, DestPlaced DEF Owned, ResultsDue, DestsDue, IsDue
  <2> QED
    BY <1>4, <2>1, <2>2
<1>6. ASSUME NEW i \in 1..Len(stack), NEW k \in 1..Len(stack),
             stack[i].kind = "write", v = stack[i].dest, v \in DestOf(stack[k])
      PROVE  FALSE
  <2> DEFINE c == stack[i - 1]
  <2>1. /\ i - 1 \in 1..Len(stack) /\ v \in Owns(c)
        /\ c.kind \in {"call", "multi"} => v \in ArgumentsOf(c)
    BY <1>6, GivenDue
  <2>2. v \in OthersOf(stack[k]) /\ v \in Owns(stack[k])
    BY <1>6, DestPlaced
  <2>3. i - 1 = k
    BY <1>2, <2>1, <2>2 DEF Owned
  <2>4. stack[k].kind \in {"call", "multi"}
    BY <1>6 DEF DestOf
  <2> QED
    BY <1>2, <2>1, <2>2, <2>3, <2>4 DEF Owned
<1>7. ASSUME NEW k \in 1..Len(stack), v \in DueBy(stack[k]) PROVE k = j
  <2>1. CASE v \in DestOf(stack[j]) /\ v \in DestOf(stack[k])
    BY <1>2, <2>1, DestPlaced DEF Owned
  <2>2. CASE stack[j].kind = "write" /\ v = stack[j].dest /\ stack[k].kind = "write" /\ v = stack[k].dest
    <3>1. /\ j - 1 \in 1..Len(stack) /\ v \in Owns(stack[j - 1])
          /\ k - 1 \in 1..Len(stack) /\ v \in Owns(stack[k - 1])
      BY <2>2, GivenDue
    <3>2. j - 1 = k - 1
      BY <1>2, <3>1 DEF Owned
    <3> QED
      BY <3>2
  <2> QED
    BY <1>4, <1>6, <1>7, <2>1, <2>2
<1> QED
  BY <1>5, <1>7

(* Every write, and every call into Nix that makes a value, is given one   *)
(* that is allocated, not released and not initialised, and nobody else is *)
(* to initialise it: what Value::write and Nix ask of their callers.       *)
THEOREM InitialisedOnceTheorem == Spec => []InitialisedOnce
<1>1. PrimopInv /\ ResultsDue => InitialisedOnce
  BY DueInitialised
<1> QED
  BY <1>1, ResultsDueInvariant, PTL
================================================================================
