--------------------------- MODULE BuildGraphProofs ---------------------------
(***************************************************************************)
(* Proofs about BuildGraph, for every set of packages and every set of     *)
(* acyclic resolves.                                                       *)
(***************************************************************************)
EXTENDS BuildGraph, BuildGraphShape, TLAPS, SequenceTheorems

-------------------------------------------------------------------------------
(* Facts about the stack and the resolve.                                   *)

(* The last element of a sequence and what is left without it, by index.    *)
LEMMA LastAndFront ==
  ASSUME NEW S, NEW s \in Seq(S), s # <<>>
  PROVE  /\ Len(s) \in Nat \ {0}
         /\ Last(s) = s[Len(s)]
         /\ Last(s) \in S
         /\ Front(s) \in Seq(S)
         /\ Len(Front(s)) = Len(s) - 1
         /\ \A i \in 1..(Len(s) - 1) : Front(s)[i] = s[i]
<1>1. Len(s) \in Nat \ {0}
  OBVIOUS
<1>2. Last(s) = s[Len(s)] /\ Last(s) \in S
  BY <1>1 DEF Last
<1>3. PICK n \in Nat : n + 1 = Len(s)
  BY <1>1
<1>4. Front(s) = SubSeq(s, 1, n)
  BY <1>3 DEF Front
<1>5. /\ SubSeq(s, 1, n) \in Seq(S)
      /\ Len(SubSeq(s, 1, n)) = n
  BY <1>3
<1>6. \A i \in 1..n : SubSeq(s, 1, n)[i] = s[i]
  BY <1>3
<1> QED
  BY <1>1, <1>2, <1>3, <1>4, <1>5, <1>6

(* What writing to the top of the stack (SetTop) does, by index.            *)
LEMMA ReplaceLast ==
  ASSUME NEW S, NEW s \in Seq(S), s # <<>>, NEW x \in S
  PROVE  LET t == [s EXCEPT ![Len(s)] = x] IN
         /\ t \in Seq(S)
         /\ t # <<>>
         /\ Len(t) = Len(s)
         /\ Last(t) = x
         /\ \A i \in 1..Len(s) : t[i] = IF i = Len(s) THEN x ELSE s[i]
<1> DEFINE t == [s EXCEPT ![Len(s)] = x]
<1>1. Len(s) \in Nat /\ Len(s) # 0 /\ DOMAIN s = 1..Len(s)
  BY EmptySeq, LenProperties
<1>2. t \in Seq(S) /\ Len(t) = Len(s)
  BY <1>1, ExceptSeq
<1>3. \A i \in 1..Len(s) : t[i] = IF i = Len(s) THEN x ELSE s[i]
  BY <1>1
<1>4. t # <<>> /\ Last(t) = x
  BY <1>1, <1>2, <1>3, EmptySeq DEF Last
<1> QED
  BY <1>2, <1>3, <1>4

(* The dependencies of a package, and one of them, have their types.        *)
LEMMA DepsTyped ==
  ASSUME ResolveGiven, NEW p \in Packages
  PROVE  /\ DepsOf(p) \in Seq(Dependency)
         /\ Len(DepsOf(p)) \in Nat
         /\ \A i \in 1..Len(DepsOf(p)) : DepsOf(p)[i] \in Dependency
<1>1. resolve.deps \in [Packages -> Seq(Dependency)]
  BY ResolvesAssumption DEF ResolveGiven
<1>2. DepsOf(p) \in Seq(Dependency)
  BY <1>1 DEF DepsOf
<1> QED
  BY <1>2, ElementOfSeq, LenProperties

(* An activation inside its loop has a current dependency.                  *)
LEMMA CurrentDepTyped ==
  ASSUME ResolveGiven, NEW frame \in Frame, ~Exhausted(frame)
  PROVE  /\ frame.next \in 1..Len(DepsOf(frame.pkg))
         /\ CurrentDep(frame) \in Dependency
         /\ CurrentDep(frame).pkg \in Packages
         /\ CurrentDep(frame).kind \in DepKind
<1>1. frame.pkg \in Packages /\ frame.next \in Nat \ {0}
  BY DEF Frame
<1>2. frame.next \in 1..Len(DepsOf(frame.pkg))
  BY <1>1, DepsTyped DEF Exhausted
<1>3. CurrentDep(frame) \in Dependency
  BY <1>1, <1>2, DepsTyped DEF CurrentDep
<1> QED
  BY <1>2, <1>3 DEF Dependency

(* The move to the next dependency.                                        *)
LEMMA AdvanceTyped ==
  ASSUME NEW frame \in Frame
  PROVE  /\ Advance(frame) \in Frame
         /\ Advance(frame).next = frame.next + 1
         /\ Advance(frame).pkg = frame.pkg
         /\ Advance(frame).dependencies = frame.dependencies
         /\ Advance(frame).buildDependencies = frame.buildDependencies
<1>1. frame.next + 1 \in Nat \ {0}
  BY DEF Frame
<1> QED
  BY <1>1 DEF Frame, Advance

(* The new edge, and the move to the next dependency after it.              *)
LEMMA EdgeAdded ==
  ASSUME NEW frame \in Frame, NEW idx \in Nat, NEW kind
  PROVE  LET new == Advance(AddEdge(frame, kind, idx)) IN
         /\ new \in Frame
         /\ new.pkg = frame.pkg
         /\ new.next = frame.next + 1
         /\ new.dependencies = IF kind = "normal"
                               THEN Append(frame.dependencies, idx)
                               ELSE frame.dependencies
         /\ new.buildDependencies = IF kind = "normal"
                                    THEN frame.buildDependencies
                                    ELSE Append(frame.buildDependencies, idx)
<1>1. /\ Append(frame.dependencies, idx) \in Seq(Nat)
      /\ Append(frame.buildDependencies, idx) \in Seq(Nat)
  BY AppendProperties DEF Frame
<1>2. CASE kind = "normal"
  <2>1. /\ AddEdge(frame, kind, idx) \in Frame
        /\ AddEdge(frame, kind, idx).pkg = frame.pkg
        /\ AddEdge(frame, kind, idx).next = frame.next
        /\ AddEdge(frame, kind, idx).dependencies = Append(frame.dependencies, idx)
        /\ AddEdge(frame, kind, idx).buildDependencies = frame.buildDependencies
    BY <1>1, <1>2 DEF Frame, AddEdge
  <2> QED
    BY <1>2, <2>1, AdvanceTyped
<1>3. CASE kind # "normal"
  <2>1. /\ AddEdge(frame, kind, idx) \in Frame
        /\ AddEdge(frame, kind, idx).pkg = frame.pkg
        /\ AddEdge(frame, kind, idx).next = frame.next
        /\ AddEdge(frame, kind, idx).dependencies = frame.dependencies
        /\ AddEdge(frame, kind, idx).buildDependencies = Append(frame.buildDependencies, idx)
    BY <1>1, <1>3 DEF Frame, AddEdge
  <2> QED
    BY <1>3, <2>1, AdvanceTyped
<1> QED
  BY <1>2, <1>3

(* A new activation has its type.                                           *)
LEMMA NewFrameTyped ==
  ASSUME NEW p \in Packages
  PROVE  NewFrame(p) \in Frame
<1>1. <<>> \in Seq(Nat)
  BY EmptySeq
<1> QED
  BY <1>1 DEF NewFrame, Frame

-------------------------------------------------------------------------------
(* The resolve never changes.                                               *)

(* No step changes the resolve, which stays one of those given.             *)
LEMMA ResolveStep ==
  ASSUME ResolveGiven, [Next]_vars
  PROVE  ResolveGiven' /\ resolve' = resolve
BY DEF Next, Step, Terminating, ResolveGiven, vars, ReturnEarly, EnterPackage,
       Panic, SkipDependency, VisitDependency, PushEdge, PushNode, ReturnGraph

(* The resolve is one of those given in every state.                        *)
LEMMA ResolveStays == Spec => []ResolveGiven
<1>1. Init => ResolveGiven
  BY DEF Init, ResolveGiven
<1>2. ResolveGiven /\ [Next]_vars => ResolveGiven'
  BY ResolveStep
<1> QED
  BY <1>1, <1>2, PTL DEF Spec

-------------------------------------------------------------------------------
(* Types.                                                                   *)

(* The first state is well typed.                                           *)
LEMMA TypeInit == Init => TypeOK
BY RootAssumption, EmptySeq DEF Init, TypeOK

(* A step of the construction keeps the types.                              *)
LEMMA TypeStep ==
  ASSUME ResolveGiven, TypeOK, [Next]_vars
  PROVE  TypeOK'
<1> USE DEF TypeOK
<1>1. CASE ReturnEarly
  BY <1>1 DEF ReturnEarly, graph
<1>2. CASE EnterPackage
  <2>1. NewFrame(callee) \in Frame
    BY NewFrameTyped
  <2>2. stack' \in Seq(Frame) /\ stack' # <<>>
    BY <1>2, <2>1, AppendProperties DEF EnterPackage
  <2> QED
    BY <1>2, <2>2 DEF EnterPackage, graph
<1>3. CASE Panic
  BY <1>3 DEF Panic, graph
<1>4. CASE SkipDependency
  <2>1. stack # <<>> /\ Last(stack) \in Frame
    BY <1>4, LastAndFront DEF SkipDependency
  <2>2. Advance(Last(stack)) \in Frame
    BY <2>1, AdvanceTyped
  <2>3. stack' \in Seq(Frame) /\ stack' # <<>>
    BY <1>4, <2>1, <2>2, ReplaceLast DEF SkipDependency, SetTop
  <2> QED
    BY <1>4, <2>3 DEF SkipDependency, graph
<1>5. CASE VisitDependency
  <2>1. stack # <<>> /\ Last(stack) \in Frame
    BY <1>5, LastAndFront DEF VisitDependency
  <2>2. callee' \in Packages
    BY <1>5, <2>1, CurrentDepTyped DEF VisitDependency
  <2> QED
    BY <1>5, <2>2 DEF VisitDependency, graph
<1>6. CASE PushEdge
  <2> DEFINE top == Last(stack)
  <2>1. top \in Frame
    BY <1>6, LastAndFront DEF PushEdge
  <2>3. Advance(AddEdge(top, CurrentDep(top).kind, result)) \in Frame
    BY <2>1, EdgeAdded
  <2>4. stack' \in Seq(Frame) /\ stack' # <<>>
    BY <1>6, <2>3, ReplaceLast DEF PushEdge, SetTop
  <2> QED
    BY <1>6, <2>4 DEF PushEdge, graph
<1>7. CASE PushNode
  <2> DEFINE top == Last(stack)
  <2>1. stack # <<>> /\ top \in Frame /\ stack' \in Seq(Frame)
    BY <1>7, LastAndFront DEF PushNode
  <2>2. nodes' \in Seq(Packages)
    BY <1>7, <2>1, AppendProperties DEF PushNode, Frame
  <2>3. [dependencies |-> top.dependencies,
         buildDependencies |-> top.buildDependencies] \in NodeEdges
    BY <2>1 DEF Frame, NodeEdges
  <2>4. edges' \in Seq(NodeEdges)
    BY <1>7, <2>3, AppendProperties DEF PushNode
  <2>5. Len(nodes) \in Nat
    BY LenProperties
  <2>6. /\ pkgIdToIdx' \in [DOMAIN pkgIdToIdx' -> Nat]
        /\ DOMAIN pkgIdToIdx' \subseteq Packages
    BY <1>7, <2>1, <2>5 DEF PushNode, Frame
  <2>7. result' \in Nat /\ op' = "return" /\ callee' = callee
    BY <1>7, <2>5 DEF PushNode
  <2> QED
    BY <2>1, <2>2, <2>4, <2>6, <2>7
<1>8. CASE ReturnGraph
  BY <1>8 DEF ReturnGraph, graph
<1>9. CASE UNCHANGED vars
  BY <1>9 DEF vars
<1> QED
  BY <1>1, <1>2, <1>3, <1>4, <1>5, <1>6, <1>7, <1>8, <1>9
  DEF Next, Step, Terminating

(* Type correctness of the construction.                                    *)
THEOREM TypeInvariant == Spec => []TypeOK
<1>1. ResolveGiven /\ TypeOK /\ [Next]_vars => TypeOK'
  BY TypeStep
<1> QED
  BY <1>1, TypeInit, ResolveStays, PTL DEF Spec

-------------------------------------------------------------------------------
(* The stack.                                                               *)

(* The stack and the node vector by index.                                  *)
LEMMA Indices ==
  ASSUME TypeOK
  PROVE  /\ Len(stack) \in Nat /\ DOMAIN stack = 1..Len(stack)
         /\ Len(nodes) \in Nat /\ DOMAIN nodes = 1..Len(nodes)
         /\ \A i \in 1..Len(stack) : stack[i] \in Frame
         /\ \A n \in 1..Len(nodes) : nodes[n] \in Packages
         /\ stack = <<>> <=> Len(stack) = 0
         /\ stack # <<>> => Last(stack) = stack[Len(stack)]
<1>1. stack \in Seq(Frame) /\ nodes \in Seq(Packages)
  BY DEF TypeOK
<1>2. /\ Len(stack) \in Nat /\ DOMAIN stack = 1..Len(stack)
      /\ Len(nodes) \in Nat /\ DOMAIN nodes = 1..Len(nodes)
  BY <1>1, LenProperties
<1>3. /\ \A i \in 1..Len(stack) : stack[i] \in Frame
      /\ \A n \in 1..Len(nodes) : nodes[n] \in Packages
  BY <1>1, ElementOfSeq
<1>4. stack = <<>> <=> Len(stack) = 0
  BY <1>1, EmptySeq
<1>5. stack # <<>> => Last(stack) = stack[Len(stack)]
  BY DEF Last
<1> QED
  BY <1>2, <1>3, <1>4, <1>5

(* A package one of whose activations is suspended in a call depends on the *)
(* package called.                                                          *)
LEMMA SuspendedFollows ==
  ASSUME ResolveGiven, NEW frame \in Frame, NEW p, Suspended(frame, p)
  PROVE  p \in Packages /\ p \in FollowedDeps(resolve, frame.pkg)
<1> DEFINE ds == resolve.deps[frame.pkg]
<1>1. /\ frame.pkg \in Packages
      /\ frame.next \in 1..Len(ds)
      /\ ds[frame.next].pkg \in Packages
  BY CurrentDepTyped DEF Suspended, Frame, CurrentDep, DepsOf
<1>2. DOMAIN ds = 1..Len(ds)
  BY <1>1, DepsTyped DEF DepsOf
<1>3. frame.next \in {i \in DOMAIN ds : Followed(ds[i])}
  BY <1>1, <1>2 DEF Suspended, CurrentDep, DepsOf
<1>4. ds[frame.next].pkg = p
  BY DEF Suspended, CurrentDep, DepsOf
<1> QED
  BY <1>1, <1>3, <1>4 DEF FollowedDeps

(* Because the followed dependencies have no cycle, a call is never for a   *)
(* package that has an activation: the recursion cannot meet itself.        *)
LEMMA NoReentry ==
  ASSUME ResolveGiven, TypeOK, StackLinked, op = "call",
         NEW i \in DOMAIN stack
  PROVE  stack[i].pkg # callee
<1> SUFFICES ASSUME stack[i].pkg = callee
             PROVE  FALSE
  OBVIOUS
<1> DEFINE S == {stack[k].pkg : k \in i..Len(stack)}
<1>1. /\ Len(stack) \in Nat /\ i \in 1..Len(stack) /\ stack # <<>>
      /\ \A k \in 1..Len(stack) : stack[k] \in Frame
      /\ Last(stack) = stack[Len(stack)]
  BY Indices
<1>2. S \subseteq Packages /\ S # {}
  <2>1. \A k \in i..Len(stack) : k \in 1..Len(stack)
    BY <1>1
  <2>2. \A k \in i..Len(stack) : stack[k].pkg \in Packages
    BY <1>1, <2>1 DEF Frame
  <2>3. stack[i].pkg \in S
    BY <1>1
  <2>4. S \subseteq Packages
    BY <2>2
  <2>5. S # {}
    BY <2>3
  <2> QED
    BY <2>4, <2>5
<1>3. Acyclic(resolve)
  BY ResolvesAssumption DEF ResolveGiven
<1>4. PICK p \in S : FollowedDeps(resolve, p) \cap S = {}
  BY <1>2, <1>3 DEF Acyclic
<1>5. PICK k \in i..Len(stack) : p = stack[k].pkg
  OBVIOUS
<1>6. CASE k < Len(stack)
  <2>1. Suspended(stack[k], stack[k + 1].pkg)
    BY <1>1, <1>6 DEF StackLinked
  <2>2. stack[k + 1].pkg \in FollowedDeps(resolve, p)
    BY <1>1, <1>5, <2>1, SuspendedFollows
  <2>3. stack[k + 1].pkg \in S
    BY <1>1, <1>6
  <2> QED
    BY <1>4, <2>2, <2>3
<1>7. CASE k = Len(stack)
  <2>1. Suspended(stack[k], callee)
    BY <1>1, <1>7 DEF StackLinked
  <2>2. callee \in FollowedDeps(resolve, p)
    BY <1>1, <1>5, <2>1, SuspendedFollows
  <2>3. callee \in S
    BY <1>1
  <2> QED
    BY <1>4, <2>2, <2>3
<1> QED
  BY <1>1, <1>6, <1>7

(* A new activation is linked to its caller.                                *)
LEMMA StackLinkedEnter ==
  ASSUME ResolveGiven, TypeOK, StackLinked, EnterPackage
  PROVE  StackLinked'
<1> DEFINE frame == NewFrame(callee)
<1>0. Len(stack) \in Nat
  BY Indices
<1>1. /\ stack' = Append(stack, frame) /\ frame.pkg = callee
      /\ op' = "loop" /\ op = "call" /\ nodes' = nodes /\ resolve' = resolve
  BY DEF EnterPackage, graph, NewFrame
<1>2. /\ Len(stack') = Len(stack) + 1
      /\ \A i \in 1..Len(stack) : stack'[i] = stack[i]
      /\ stack'[Len(stack) + 1] = frame
  BY <1>1 DEF TypeOK
<1>3. ASSUME NEW i \in 1..Len(stack)
      PROVE  Suspended(stack'[i], stack'[i + 1].pkg)
  <2>1. CASE i < Len(stack)
    <3>1. i \in 1..(Len(stack) - 1) /\ i + 1 \in 1..Len(stack)
      BY Indices, <2>1
    <3>2. Suspended(stack[i], stack[i + 1].pkg)
      BY <3>1 DEF StackLinked
    <3> QED
      BY <1>2, <3>1, <3>2
  <2>2. CASE i = Len(stack)
    <3>1. stack # <<>> /\ Last(stack) = stack[i]
      BY Indices, <2>2
    <3>2. Suspended(stack[i], callee)
      BY <1>1, <3>1 DEF StackLinked
    <3> QED
      BY <1>1, <1>2, <2>2, <3>2
  <2>3. i < Len(stack) \/ i = Len(stack)
    BY <1>0
  <2> QED
    BY <2>1, <2>2, <2>3
<1>4. \A i \in 1..(Len(stack') - 1) : Suspended(stack'[i], stack'[i + 1].pkg)
  BY Indices, <1>2, <1>3
<1>5. stack'[1].pkg = Root
  <2>1. CASE stack = <<>>
    BY <1>1, <1>2, <2>1 DEF StackLinked
  <2>2. CASE stack # <<>>
    BY <1>1, <1>2, <2>2, Indices DEF StackLinked
  <2> QED
    BY <2>1, <2>2
<1> QED
  BY <1>1, <1>4, <1>5
  DEF StackLinked, Suspended, Exhausted, CurrentDep, DepsOf

(* The top activation is replaced by one of the same package.               *)
LEMMA TopReplaced ==
  ASSUME TypeOK, stack # <<>>, NEW f \in Frame, f.pkg = Last(stack).pkg,
         stack' = SetTop(f)
  PROVE  /\ stack' # <<>> /\ Len(stack') = Len(stack) /\ Last(stack') = f
         /\ \A i \in 1..Len(stack) :
              /\ stack'[i].pkg = stack[i].pkg
              /\ stack'[i] = IF i = Len(stack) THEN f ELSE stack[i]
<1>1. /\ stack' # <<>> /\ Len(stack') = Len(stack) /\ Last(stack') = f
      /\ \A i \in 1..Len(stack) : stack'[i] = IF i = Len(stack) THEN f ELSE stack[i]
  <2>1. stack \in Seq(Frame)
    BY DEF TypeOK
  <2>2. stack' = [stack EXCEPT ![Len(stack)] = f]
    BY DEF SetTop
  <2> DEFINE t == [stack EXCEPT ![Len(stack)] = f]
  <2>3. /\ t # <<>> /\ Len(t) = Len(stack) /\ Last(t) = f
        /\ \A i \in 1..Len(stack) : t[i] = IF i = Len(stack) THEN f ELSE stack[i]
    BY <2>1, ReplaceLast
  <2> QED
    BY <2>2, <2>3
<1>2. Last(stack) = stack[Len(stack)]
  BY Indices
<1> QED
  BY <1>1, <1>2

(* The links of the stack hold on as long as the frames below the top and   *)
(* the packages do not change.                                              *)
LEMMA LinksKept ==
  ASSUME TypeOK, StackLinked, stack' # <<>>, Len(stack') \in 1..Len(stack),
         \A i \in 1..Len(stack') :
           /\ stack'[i].pkg = stack[i].pkg
           /\ i < Len(stack') => stack'[i] = stack[i]
  PROVE  /\ stack'[1].pkg = Root
         /\ \A i \in 1..(Len(stack') - 1) : Suspended(stack'[i], stack'[i + 1].pkg)
<1>0. Len(stack) \in Nat /\ stack # <<>> /\ 1 \in 1..Len(stack')
  BY Indices
<1>1. stack'[1].pkg = Root
  BY <1>0 DEF StackLinked
<1>2. ASSUME NEW i \in 1..(Len(stack') - 1)
      PROVE  Suspended(stack'[i], stack'[i + 1].pkg)
  <2>1. i \in 1..(Len(stack) - 1) /\ i \in 1..Len(stack') /\ i + 1 \in 1..Len(stack')
    BY <1>0
  <2>2. Suspended(stack[i], stack[i + 1].pkg)
    BY <2>1 DEF StackLinked
  <2>3. stack'[i] = stack[i] /\ stack'[i + 1].pkg = stack[i + 1].pkg
    BY <1>0, <2>1
  <2> QED
    BY <2>2, <2>3
<1> QED
  BY <1>1, <1>2

(* Passing over a dependency keeps the links.                               *)
LEMMA StackLinkedSkip ==
  ASSUME ResolveGiven, TypeOK, StackLinked, SkipDependency
  PROVE  StackLinked'
<1> DEFINE top == Last(stack)
<1>1. /\ stack # <<>> /\ top \in Frame /\ stack' = SetTop(Advance(top))
      /\ op' = "loop" /\ nodes' = nodes /\ resolve' = resolve
  BY LastAndFront DEF TypeOK, SkipDependency, graph
<1>2. Advance(top) \in Frame /\ Advance(top).pkg = top.pkg
  BY <1>1, AdvanceTyped
<1>3. /\ stack' # <<>> /\ Len(stack') = Len(stack)
      /\ \A i \in 1..Len(stack) :
           /\ stack'[i].pkg = stack[i].pkg
           /\ stack'[i] = IF i = Len(stack) THEN Advance(top) ELSE stack[i]
  BY <1>1, <1>2, TopReplaced
<1>4. Len(stack) \in Nat \ {0}
  BY <1>1, Indices
<1>5. /\ stack'[1].pkg = Root
      /\ \A i \in 1..(Len(stack') - 1) : Suspended(stack'[i], stack'[i + 1].pkg)
  BY <1>3, <1>4, LinksKept
<1> QED
  BY <1>1, <1>5 DEF StackLinked, Suspended, Exhausted, CurrentDep, DepsOf

(* So does noting the index a call returned.                                *)
LEMMA StackLinkedPushEdge ==
  ASSUME ResolveGiven, TypeOK, StackLinked, PushEdge
  PROVE  StackLinked'
<1> DEFINE top == Last(stack)
           new == Advance(AddEdge(top, CurrentDep(top).kind, result))
<1>1. /\ stack # <<>> /\ top \in Frame /\ stack' = SetTop(new) /\ result \in Nat
      /\ op' = "loop" /\ nodes' = nodes /\ resolve' = resolve
  BY LastAndFront DEF TypeOK, PushEdge, graph
<1>2. new \in Frame /\ new.pkg = top.pkg
  BY <1>1, EdgeAdded
<1>3. /\ stack' # <<>> /\ Len(stack') = Len(stack)
      /\ \A i \in 1..Len(stack) :
           /\ stack'[i].pkg = stack[i].pkg
           /\ stack'[i] = IF i = Len(stack) THEN new ELSE stack[i]
  <2> HIDE DEF new
  <2> QED
    BY <1>1, <1>2, TopReplaced
<1>4. Len(stack) \in Nat \ {0}
  BY <1>1, Indices
<1>5. /\ stack'[1].pkg = Root
      /\ \A i \in 1..(Len(stack') - 1) : Suspended(stack'[i], stack'[i + 1].pkg)
  BY <1>3, <1>4, LinksKept
<1> QED
  BY <1>1, <1>5 DEF StackLinked, Suspended, Exhausted, CurrentDep, DepsOf

(* The package of the activation that ends is the one its caller waits for. *)
LEMMA StackLinkedPushNode ==
  ASSUME ResolveGiven, TypeOK, StackLinked, PushNode
  PROVE  StackLinked'
<1> DEFINE top == Last(stack)
<1>1. /\ stack # <<>> /\ stack' = Front(stack) /\ nodes' = Append(nodes, top.pkg)
      /\ op' = "return" /\ result' = Len(nodes) /\ resolve' = resolve
  BY DEF TypeOK, PushNode
<1>2. /\ Len(stack) \in Nat \ {0} /\ top = stack[Len(stack)]
      /\ top.pkg \in Packages /\ Len(nodes) \in Nat
  BY <1>1, Indices DEF Frame
<1>3. /\ stack' \in Seq(Frame) /\ Len(stack') = Len(stack) - 1
      /\ \A i \in 1..(Len(stack) - 1) : stack'[i] = stack[i]
  BY <1>1, LastAndFront DEF TypeOK
<1>4. Len(nodes') = Len(nodes) + 1 /\ nodes'[Len(nodes) + 1] = top.pkg
  BY <1>1, <1>2 DEF TypeOK
<1>5. result' + 1 \in DOMAIN nodes' /\ result' + 1 = Len(nodes')
      /\ nodes'[result' + 1] = top.pkg
  <2>1. nodes' \in Seq(Packages)
    BY <1>1, <1>2 DEF TypeOK
  <2> QED
    BY <1>1, <1>2, <1>4, <2>1
<1>6. CASE stack' = <<>>
  <2>1. Len(stack) = 1
    BY <1>2, <1>3, <1>6
  <2>2. top.pkg = Root
    BY <1>1, <1>2, <2>1 DEF StackLinked
  <2>3. 1..(Len(stack') - 1) = {}
    BY <1>2, <1>3, <2>1
  <2> QED
    BY <1>1, <1>5, <1>6, <2>2, <2>3 DEF StackLinked
<1>7. CASE stack' # <<>>
  <2>1. Len(stack') \in 1..Len(stack)
    BY <1>2, <1>3, <1>7, EmptySeq
  <2>2. /\ stack'[1].pkg = Root
        /\ \A i \in 1..(Len(stack') - 1) : Suspended(stack'[i], stack'[i + 1].pkg)
    BY <1>2, <1>3, <1>7, <2>1, LinksKept
  <2>3. Last(stack') = stack'[Len(stack')]
    BY <1>7 DEF Last
  <2>4. Suspended(stack[Len(stack) - 1], top.pkg)
    BY <1>2, <1>3, <2>1 DEF StackLinked
  <2>5. Suspended(Last(stack'), top.pkg)
    BY <1>2, <1>3, <2>1, <2>3, <2>4
  <2> QED
    BY <1>1, <1>5, <1>7, <2>2, <2>5
    DEF StackLinked, Suspended, Exhausted, CurrentDep, DepsOf
<1> QED
  BY <1>6, <1>7

(* Every step keeps the links; the early return needs OneNodePerPackage.    *)
LEMMA StackLinkedStep ==
  ASSUME ResolveGiven, TypeOK, StackLinked, OneNodePerPackage, [Next]_vars
  PROVE  StackLinked'
<1>0. /\ resolve' = resolve
      /\ Len(nodes) \in Nat /\ DOMAIN nodes = 1..Len(nodes)
  BY ResolveStep, Indices
<1> USE DEF Suspended, Exhausted, CurrentDep, DepsOf
<1>1. CASE ReturnEarly
  <2>1. PICK n \in DOMAIN nodes : callee = nodes[n] /\ pkgIdToIdx[callee] = n - 1
    BY <1>1 DEF ReturnEarly, OneNodePerPackage, ToSet
  <2>2. result' + 1 = n
    BY <1>0, <1>1, <2>1 DEF ReturnEarly
  <2>3. stack # <<>>
    BY <1>0, <1>1, <2>1, EmptySeq DEF ReturnEarly, StackLinked
  <2> QED
    BY <1>0, <1>1, <2>1, <2>2, <2>3 DEF ReturnEarly, graph, StackLinked
<1>2. CASE EnterPackage
  BY <1>2, StackLinkedEnter
<1>3. CASE Panic
  BY <1>0, <1>3 DEF Panic, graph, StackLinked
<1>4. CASE SkipDependency
  BY <1>4, StackLinkedSkip
<1>5. CASE VisitDependency
  BY <1>0, <1>5 DEF VisitDependency, graph, StackLinked, TypeOK
<1>6. CASE PushEdge
  BY <1>6, StackLinkedPushEdge
<1>7. CASE PushNode
  BY <1>7, StackLinkedPushNode
<1>8. CASE ReturnGraph
  <2>1. nodes # <<>> /\ Last(nodes) = Root
    BY <1>0, <1>8, EmptySeq DEF ReturnGraph, StackLinked, Last
  <2> QED
    BY <1>0, <1>8, <2>1 DEF ReturnGraph, graph, StackLinked
<1>9. CASE UNCHANGED vars
  BY <1>9 DEF vars, StackLinked
<1> QED
  BY <1>1, <1>2, <1>3, <1>4, <1>5, <1>6, <1>7, <1>8, <1>9
  DEF Next, Step, Terminating

-------------------------------------------------------------------------------
(* One activation and one node per package.                                 *)

(* The package entered is new on the stack, by NoReentry.                   *)
LEMMA OpenOnceEnter ==
  ASSUME ResolveGiven, TypeOK, StackLinked, OpenOnce, EnterPackage
  PROVE  OpenOnce'
<1> DEFINE frame == NewFrame(callee)
<1>1. /\ stack' = Append(stack, frame) /\ frame.pkg = callee
      /\ op = "call" /\ pkgIdToIdx' = pkgIdToIdx
      /\ callee \notin DOMAIN pkgIdToIdx
  BY DEF EnterPackage, graph, NewFrame
<1>2. \A i \in 1..Len(stack) : stack[i].pkg # callee
  BY <1>1, NoReentry, Indices
<1>3. /\ Len(stack) \in Nat /\ DOMAIN stack = 1..Len(stack)
      /\ DOMAIN stack' = 1..(Len(stack) + 1)
      /\ \A i \in 1..Len(stack) : stack'[i] = stack[i]
      /\ stack'[Len(stack) + 1] = frame
  BY <1>1, Indices DEF TypeOK
<1>4. \A i \in 1..(Len(stack) + 1) : i \in 1..Len(stack) \/ i = Len(stack) + 1
  BY <1>3
<1> QED
  BY <1>1, <1>2, <1>3, <1>4 DEF OpenOnce

(* The package that gets its node leaves the stack.                         *)
LEMMA OpenOncePushNode ==
  ASSUME TypeOK, OpenOnce, PushNode
  PROVE  OpenOnce'
<1> DEFINE top == Last(stack)
<1>1. /\ stack # <<>> /\ stack' = Front(stack)
      /\ DOMAIN pkgIdToIdx' = DOMAIN pkgIdToIdx \cup {top.pkg}
  BY DEF TypeOK, PushNode
<1>2. /\ Len(stack) \in Nat \ {0} /\ top = stack[Len(stack)]
      /\ DOMAIN stack = 1..Len(stack)
  BY <1>1, Indices
<1>3. /\ stack' \in Seq(Frame) /\ Len(stack') = Len(stack) - 1
      /\ \A i \in 1..(Len(stack) - 1) : stack'[i] = stack[i]
  BY <1>1, LastAndFront DEF TypeOK
<1>4. DOMAIN stack' = 1..(Len(stack) - 1)
  BY <1>3, LenProperties
<1>5. Len(stack) \in Int /\ Len(stack) \in 1..Len(stack)
  BY <1>2
<1>6. \A i \in 1..(Len(stack) - 1) : i \in 1..Len(stack) /\ i # Len(stack)
  BY <1>5
<1>7. ASSUME NEW i \in DOMAIN stack'
      PROVE  stack'[i].pkg \notin DOMAIN pkgIdToIdx'
  <2>1. /\ i \in DOMAIN stack /\ Len(stack) \in DOMAIN stack /\ i # Len(stack)
        /\ stack'[i] = stack[i]
    BY <1>2, <1>3, <1>4, <1>5, <1>6
  <2> QED
    BY <1>1, <1>2, <2>1 DEF OpenOnce
<1>8. ASSUME NEW i \in DOMAIN stack', NEW j \in DOMAIN stack',
             stack'[i].pkg = stack'[j].pkg
      PROVE  i = j
  BY <1>2, <1>3, <1>4, <1>6, <1>8 DEF OpenOnce
<1> QED
  BY <1>7, <1>8 DEF OpenOnce

(* Every step keeps one activation per package without a node.              *)
LEMMA OpenOnceStep ==
  ASSUME ResolveGiven, TypeOK, StackLinked, OpenOnce, [Next]_vars
  PROVE  OpenOnce'
<1>1. CASE EnterPackage
  BY <1>1, OpenOnceEnter
<1>2. CASE SkipDependency
  <2>1. /\ stack # <<>> /\ Last(stack) \in Frame
        /\ stack' = SetTop(Advance(Last(stack))) /\ pkgIdToIdx' = pkgIdToIdx
    BY <1>2, LastAndFront DEF SkipDependency, TypeOK, graph
  <2>2. /\ Advance(Last(stack)) \in Frame
        /\ Advance(Last(stack)).pkg = Last(stack).pkg
    BY <2>1, AdvanceTyped
  <2>3. /\ Len(stack') = Len(stack)
        /\ \A i \in 1..Len(stack) : stack'[i].pkg = stack[i].pkg
    BY <2>1, <2>2, TopReplaced
  <2>4. TypeOK'
    BY TypeStep
  <2>5. DOMAIN stack = 1..Len(stack) /\ DOMAIN stack' = 1..Len(stack')
    BY <2>4, LenProperties DEF TypeOK
  <2> QED
    BY <2>1, <2>3, <2>5 DEF OpenOnce
<1>3. CASE PushEdge
  <2> DEFINE new == Advance(AddEdge(Last(stack), CurrentDep(Last(stack)).kind, result))
  <2>1. /\ stack # <<>> /\ Last(stack) \in Frame /\ result \in Nat
        /\ stack' = SetTop(new) /\ pkgIdToIdx' = pkgIdToIdx
    BY <1>3, LastAndFront DEF PushEdge, TypeOK, graph
  <2>2. new \in Frame /\ new.pkg = Last(stack).pkg
    BY <2>1, EdgeAdded
  <2> HIDE DEF new
  <2>3. /\ Len(stack') = Len(stack)
        /\ \A i \in 1..Len(stack) : stack'[i].pkg = stack[i].pkg
    BY <2>1, <2>2, TopReplaced
  <2>4. TypeOK'
    BY TypeStep
  <2>5. DOMAIN stack = 1..Len(stack) /\ DOMAIN stack' = 1..Len(stack')
    BY <2>4, LenProperties DEF TypeOK
  <2> QED
    BY <2>1, <2>3, <2>5 DEF OpenOnce
<1>4. CASE PushNode
  BY <1>4, OpenOncePushNode
<1>5. CASE UNCHANGED <<stack, pkgIdToIdx>>
  BY <1>5 DEF OpenOnce
<1> QED
  BY <1>1, <1>2, <1>3, <1>4, <1>5
  DEF Next, Step, Terminating, ReturnEarly, Panic, VisitDependency,
      ReturnGraph, vars, graph

(* The package of a new node had none.                                      *)
LEMMA OneNodePerPackageStep ==
  ASSUME TypeOK, OpenOnce, OneNodePerPackage, [Next]_vars
  PROVE  OneNodePerPackage'
<1>1. CASE PushNode
  <2> DEFINE p == Last(stack).pkg
  <2>1. /\ stack # <<>> /\ nodes' = Append(nodes, p)
        /\ pkgIdToIdx' = [q \in DOMAIN pkgIdToIdx \cup {p} |->
                            IF q = p THEN Len(nodes) ELSE pkgIdToIdx[q]]
    BY <1>1 DEF PushNode, TypeOK
  <2>2. /\ Len(nodes) \in Nat /\ DOMAIN nodes = 1..Len(nodes)
        /\ p \in Packages /\ p \notin DOMAIN pkgIdToIdx
    BY <2>1, Indices DEF OpenOnce, Frame
  <2>3. /\ DOMAIN nodes' = 1..(Len(nodes) + 1)
        /\ \A n \in 1..Len(nodes) : nodes'[n] = nodes[n]
        /\ nodes'[Len(nodes) + 1] = p
    BY <2>1, <2>2 DEF TypeOK
  <2>4. \A n \in 1..(Len(nodes) + 1) : n \in 1..Len(nodes) \/ n = Len(nodes) + 1
    BY <2>2
  <2>5. \A n \in 1..Len(nodes) : nodes[n] \in DOMAIN pkgIdToIdx /\ nodes[n] # p
    BY <2>2 DEF OneNodePerPackage, ToSet
  <2> HIDE DEF p
  <2>6. \A m, n \in DOMAIN nodes' : nodes'[m] = nodes'[n] => m = n
    BY <2>2, <2>3, <2>4, <2>5 DEF OneNodePerPackage
  <2>7. DOMAIN pkgIdToIdx' = ToSet(nodes')
    <3>1. DOMAIN pkgIdToIdx' = ToSet(nodes) \cup {p}
      BY <2>1 DEF OneNodePerPackage
    <3>2. ToSet(nodes') = ToSet(nodes) \cup {p}
      BY <2>2, <2>3, <2>4 DEF ToSet
    <3> QED
      BY <3>1, <3>2
  <2>8. \A n \in DOMAIN nodes' : pkgIdToIdx'[nodes'[n]] = n - 1
    <3>1. ASSUME NEW n \in 1..Len(nodes)
          PROVE  pkgIdToIdx'[nodes'[n]] = n - 1
      BY <2>1, <2>2, <2>3, <2>5 DEF OneNodePerPackage
    <3>2. pkgIdToIdx'[nodes'[Len(nodes) + 1]] = (Len(nodes) + 1) - 1
      BY <2>1, <2>2, <2>3
    <3> QED
      BY <2>3, <2>4, <3>1, <3>2
  <2> QED
    BY <2>6, <2>7, <2>8 DEF OneNodePerPackage
<1>2. CASE UNCHANGED <<nodes, pkgIdToIdx>>
  BY <1>2 DEF OneNodePerPackage, ToSet
<1> QED
  BY <1>1, <1>2
  DEF Next, Step, Terminating, ReturnEarly, EnterPackage, Panic, SkipDependency,
      VisitDependency, PushEdge, ReturnGraph, vars, graph

-------------------------------------------------------------------------------
(* Nothing that the root does not need.                                     *)

(* The root is needed, and so is what a needed package depends on.          *)
LEMMA NeededClosed ==
  /\ Root \in Order!Needed
  /\ \A p \in Order!Needed, q \in Packages :
       q \in FollowedDeps(resolve, p) => q \in Order!Needed
BY RootAssumption DEF Order!Needed, Order!Closed

(* What the root needs does not change.                                     *)
LEMMA NeededStays ==
  ASSUME resolve' = resolve
  PROVE  Order!Needed' = Order!Needed
BY DEF Order!Needed, Order!Closed, FollowedDeps

(* Only needed packages are called, entered and laid out.                   *)
LEMMA OnlyNeededStep ==
  ASSUME ResolveGiven, TypeOK, OnlyNeeded, [Next]_vars
  PROVE  OnlyNeeded'
<1>1. Order!Needed' = Order!Needed
  BY ResolveStep, NeededStays
<1>2. TypeOK'
  BY TypeStep
<1>3. /\ DOMAIN stack = 1..Len(stack) /\ DOMAIN stack' = 1..Len(stack')
      /\ DOMAIN nodes = 1..Len(nodes) /\ DOMAIN nodes' = 1..Len(nodes')
      /\ Len(stack) \in Nat /\ Len(nodes) \in Nat
  BY <1>2, LenProperties DEF TypeOK
<1>4. CASE EnterPackage
  <2>1. /\ stack' = Append(stack, NewFrame(callee)) /\ NewFrame(callee).pkg = callee
        /\ op = "call" /\ op' = "loop" /\ nodes' = nodes
    BY <1>4 DEF EnterPackage, graph, NewFrame
  <2>2. \A i \in 1..Len(stack') :
          stack'[i].pkg = IF i = Len(stack) + 1 THEN callee ELSE stack[i].pkg
    BY <1>3, <2>1 DEF TypeOK
  <2>3. \A i \in 1..Len(stack') : i \in 1..Len(stack) \/ i = Len(stack) + 1
    BY <1>3, <2>1 DEF TypeOK
  <2> QED
    BY <1>1, <1>3, <2>1, <2>2, <2>3 DEF OnlyNeeded
<1>5. CASE SkipDependency
  <2>1. /\ stack # <<>> /\ Last(stack) \in Frame
        /\ stack' = SetTop(Advance(Last(stack))) /\ nodes' = nodes /\ op' = "loop"
    BY <1>5, LastAndFront DEF SkipDependency, TypeOK, graph
  <2>2. /\ Advance(Last(stack)) \in Frame
        /\ Advance(Last(stack)).pkg = Last(stack).pkg
    BY <2>1, AdvanceTyped
  <2>3. /\ Len(stack') = Len(stack)
        /\ \A i \in 1..Len(stack) : stack'[i].pkg = stack[i].pkg
    BY <2>1, <2>2, TopReplaced
  <2> QED
    BY <1>1, <1>3, <2>1, <2>3 DEF OnlyNeeded
<1>6. CASE VisitDependency
  <2>1. /\ stack # <<>> /\ Last(stack) = stack[Len(stack)] /\ Last(stack) \in Frame
        /\ Suspended(Last(stack), callee') /\ stack' = stack /\ nodes' = nodes
    BY <1>6, LastAndFront DEF VisitDependency, TypeOK, graph, Suspended
  <2>2. callee' \in Packages /\ callee' \in FollowedDeps(resolve, Last(stack).pkg)
    BY <2>1, SuspendedFollows
  <2>3. Len(stack) \in DOMAIN stack
    BY <1>3, <2>1, EmptySeq DEF TypeOK
  <2>4. Last(stack).pkg \in Order!Needed
    BY <2>1, <2>3 DEF OnlyNeeded
  <2>5. callee' \in Order!Needed
    BY <2>2, <2>4, NeededClosed
  <2> QED
    BY <1>1, <2>1, <2>5 DEF OnlyNeeded
<1>7. CASE PushEdge
  <2> DEFINE new == Advance(AddEdge(Last(stack), CurrentDep(Last(stack)).kind, result))
  <2>1. /\ stack # <<>> /\ Last(stack) \in Frame /\ result \in Nat
        /\ stack' = SetTop(new) /\ nodes' = nodes /\ op' = "loop"
    BY <1>7, LastAndFront DEF PushEdge, TypeOK, graph
  <2>2. new \in Frame /\ new.pkg = Last(stack).pkg
    BY <2>1, EdgeAdded
  <2> HIDE DEF new
  <2>3. /\ Len(stack') = Len(stack)
        /\ \A i \in 1..Len(stack) : stack'[i].pkg = stack[i].pkg
    BY <2>1, <2>2, TopReplaced
  <2> QED
    BY <1>1, <1>3, <2>1, <2>3 DEF OnlyNeeded
<1>8. CASE PushNode
  <2> DEFINE p == Last(stack).pkg
  <2>1. /\ stack # <<>> /\ stack' = Front(stack) /\ nodes' = Append(nodes, p)
        /\ op' = "return"
    BY <1>8 DEF PushNode, TypeOK
  <2>2. /\ Len(stack) \in DOMAIN stack /\ Last(stack) = stack[Len(stack)]
        /\ p \in Packages
    BY <1>3, <2>1, Indices DEF Frame
  <2>3. p \in Order!Needed
    BY <2>2 DEF OnlyNeeded
  <2>4. /\ Len(stack') = Len(stack) - 1
        /\ \A i \in 1..(Len(stack) - 1) : stack'[i] = stack[i]
    BY <2>1, LastAndFront DEF TypeOK
  <2>5. \A i \in 1..(Len(stack) - 1) : i \in 1..Len(stack)
    BY <1>3
  <2>6. /\ \A n \in 1..Len(nodes') : n \in 1..Len(nodes) \/ n = Len(nodes) + 1
        /\ \A n \in 1..Len(nodes) : nodes'[n] = nodes[n]
        /\ nodes'[Len(nodes) + 1] = p
    BY <1>3, <2>1, <2>2 DEF TypeOK
  <2> HIDE DEF p
  <2> QED
    BY <1>1, <1>3, <2>1, <2>3, <2>4, <2>5, <2>6 DEF OnlyNeeded
<1>9. CASE UNCHANGED <<stack, nodes>> /\ (op' # "call" \/ UNCHANGED <<op, callee>>)
  BY <1>1, <1>9 DEF OnlyNeeded
<1> QED
  BY <1>4, <1>5, <1>6, <1>7, <1>8, <1>9
  DEF Next, Step, Terminating, ReturnEarly, Panic, ReturnGraph, vars, graph

-------------------------------------------------------------------------------
(* The edges an activation collects.                                        *)

(* At the start of the loop there is nothing to cover.                      *)
LEMMA CoversNone ==
  ASSUME NEW ds, NEW ns, NEW bound, NEW kind
  PROVE  Covers(ds, ns, <<>>, bound, kind, 0)
<1> DEFINE none == [k \in DOMAIN <<>> |-> 1]
<1>1. DOMAIN <<>> = {} /\ 1..0 = {}
  OBVIOUS
<1>2. none \in [DOMAIN <<>> -> 1..0]
  BY <1>1
<1> QED
  BY <1>1, <1>2 DEF Covers, EdgesOf

(* A dependency of another kind, or not followed, needs no edge.            *)
LEMMA CoversSkip ==
  ASSUME NEW ds, NEW ns, NEW idxs, NEW bound, NEW kind, NEW count \in Nat,
         Covers(ds, ns, idxs, bound, kind, count),
         ~(Followed(ds[count + 1]) /\ ds[count + 1].kind = kind)
  PROVE  Covers(ds, ns, idxs, bound, kind, count + 1)
<1>1. PICK at \in [DOMAIN idxs -> 1..count] :
        /\ \A j, k \in DOMAIN idxs : j < k => at[j] < at[k]
        /\ \A i \in 1..count :
             Followed(ds[i]) /\ ds[i].kind = kind <=> \E k \in DOMAIN idxs : at[k] = i
        /\ \A k \in DOMAIN idxs : ns[idxs[k] + 1] = ds[at[k]].pkg
  BY DEF Covers, EdgesOf
<1>2. at \in [DOMAIN idxs -> 1..(count + 1)]
  OBVIOUS
<1>3. \A i \in 1..(count + 1) :
        Followed(ds[i]) /\ ds[i].kind = kind <=> \E k \in DOMAIN idxs : at[k] = i
  <2> TAKE i \in 1..(count + 1)
  <2>1. CASE i \in 1..count
    BY <1>1, <2>1
  <2>2. CASE i = count + 1
    <3>1. \A k \in DOMAIN idxs : at[k] # i
      BY <2>2
    <3> QED
      BY <2>2, <3>1
  <2> QED
    BY <2>1, <2>2
<1> QED
  BY <1>1, <1>2, <1>3 DEF Covers, EdgesOf

(* The edge of the dependency is added.                                     *)
LEMMA CoversAdd ==
  ASSUME NEW ds, NEW ns, NEW idxs \in Seq(Nat), NEW bound, NEW kind,
         NEW count \in Nat, NEW idx \in Nat,
         Covers(ds, ns, idxs, bound, kind, count),
         Followed(ds[count + 1]), ds[count + 1].kind = kind,
         idx < bound, ns[idx + 1] = ds[count + 1].pkg
  PROVE  Covers(ds, ns, Append(idxs, idx), bound, kind, count + 1)
<1> DEFINE new == Append(idxs, idx)
           size == Len(idxs)
<1>1. /\ size \in Nat /\ DOMAIN idxs = 1..size /\ DOMAIN new = 1..(size + 1)
      /\ \A k \in 1..size : new[k] = idxs[k]
      /\ new[size + 1] = idx
  OBVIOUS
<1>2. PICK at \in [DOMAIN idxs -> 1..count] :
        /\ \A j, k \in DOMAIN idxs : j < k => at[j] < at[k]
        /\ \A i \in 1..count :
             Followed(ds[i]) /\ ds[i].kind = kind <=> \E k \in DOMAIN idxs : at[k] = i
        /\ \A k \in DOMAIN idxs : ns[idxs[k] + 1] = ds[at[k]].pkg
  BY DEF Covers, EdgesOf
<1> DEFINE next == [k \in 1..(size + 1) |-> IF k = size + 1 THEN count + 1 ELSE at[k]]
<1>3. /\ \A k \in 1..size : next[k] = at[k] /\ at[k] \in 1..count
      /\ next[size + 1] = count + 1
  BY <1>1, SMTT(20)
<1>4. \A k \in 1..(size + 1) : k \in 1..size \/ k = size + 1
  BY <1>1
<1> DEFINE Source(i) == Followed(ds[i]) /\ ds[i].kind = kind
<1>0. /\ \A j, k \in 1..size : j < k => at[j] < at[k]
      /\ \A i \in 1..count : Source(i) <=> \E k \in 1..size : at[k] = i
      /\ \A k \in 1..size : ns[idxs[k] + 1] = ds[at[k]].pkg
      /\ Source(count + 1)
  BY <1>1, <1>2
<1>5. next \in [1..(size + 1) -> 1..(count + 1)]
  BY <1>1
<1>6. \A k \in DOMAIN idxs : idxs[k] < bound
  BY DEF Covers
<1> HIDE DEF new, next, size, Source
<1>7. \A k \in DOMAIN new : new[k] < bound
  BY <1>1, <1>4, <1>6
<1>8. \A j, k \in 1..(size + 1) : j < k => next[j] < next[k]
  <2> SUFFICES ASSUME NEW j \in 1..(size + 1), NEW k \in 1..(size + 1), j < k
               PROVE  next[j] < next[k]
    OBVIOUS
  <2>1. size \in Nat /\ j \in 1..size
    BY <1>1
  <2>2. next[j] = at[j] /\ at[j] \in 1..count
    BY <1>3, <2>1
  <2>3. CASE k \in 1..size
    <3>1. next[k] = at[k]
      BY <1>3, <2>3
    <3>2. at[j] < at[k]
      BY <1>0, <2>1, <2>3
    <3> QED
      BY <2>2, <3>1, <3>2
  <2>4. CASE k = size + 1
    <3>1. next[k] = count + 1 /\ at[j] < count + 1
      BY <1>3, <2>2, <2>4
    <3> QED
      BY <2>2, <3>1
  <2> QED
    BY <1>4, <2>3, <2>4
<1>9. ASSUME NEW i \in 1..(count + 1)
      PROVE  Source(i) <=> \E k \in 1..(size + 1) : next[k] = i
  <2>1. CASE i \in 1..count
    <3>1. (\E k \in 1..(size + 1) : next[k] = i) <=> \E k \in 1..size : at[k] = i
      <4>1. i # count + 1 /\ 1..size \subseteq 1..(size + 1)
        BY <1>1, <2>1
      <4> QED
        BY <1>3, <1>4, <4>1
    <3> QED
      BY <1>0, <2>1, <3>1
  <2>2. CASE i = count + 1
    <3>1. size + 1 \in 1..(size + 1)
      BY <1>1
    <3> QED
      BY <1>0, <1>3, <2>2, <3>1
  <2> QED
    BY <2>1, <2>2
<1>10. ASSUME NEW k \in 1..(size + 1)
       PROVE  ns[new[k] + 1] = ds[next[k]].pkg
  <2>1. CASE k \in 1..size
    BY <1>0, <1>1, <1>3, <2>1
  <2>2. CASE k = size + 1
    BY <1>1, <1>3, <2>2
  <2> QED
    BY <1>4, <2>1, <2>2
<1>11. EdgesOf(ds, ns, new, kind, count + 1)
  <2>1. next \in [DOMAIN new -> 1..(count + 1)]
    BY <1>1, <1>5
  <2>2. \A j, k \in DOMAIN new : j < k => next[j] < next[k]
    BY <1>1, <1>8
  <2>3. \A i \in 1..(count + 1) :
          Followed(ds[i]) /\ ds[i].kind = kind <=> \E k \in DOMAIN new : next[k] = i
    BY <1>1, <1>9 DEF Source
  <2>4. \A k \in DOMAIN new : ns[new[k] + 1] = ds[next[k]].pkg
    BY <1>1, <1>10
  <2> QED
    BY <2>1, <2>2, <2>3, <2>4 DEF EdgesOf
<1>12. Covers(ds, ns, new, bound, kind, count + 1)
  BY <1>7, <1>11 DEF Covers
<1> QED
  BY <1>12 DEF new

(* Nodes pushed later do not disturb edges collected before.                *)
LEMMA CoversMoreNodes ==
  ASSUME NEW ds, NEW ns, NEW more, NEW idxs \in Seq(Nat), NEW kind, NEW count,
         NEW bound \in Nat, NEW larger \in Nat, bound <= larger,
         \A n \in 1..bound : more[n] = ns[n],
         Covers(ds, ns, idxs, bound, kind, count)
  PROVE  Covers(ds, more, idxs, larger, kind, count)
<1>1. \A k \in DOMAIN idxs : idxs[k] \in Nat /\ idxs[k] < bound
  BY ElementOfSeq, LenProperties DEF Covers
<1>2. \A k \in DOMAIN idxs : /\ idxs[k] < larger
                             /\ more[idxs[k] + 1] = ns[idxs[k] + 1]
  BY <1>1
<1>3. EdgesOf(ds, more, idxs, kind, count)
  <2>1. PICK at \in [DOMAIN idxs -> 1..count] :
          /\ \A j, k \in DOMAIN idxs : j < k => at[j] < at[k]
          /\ \A i \in 1..count :
               Followed(ds[i]) /\ ds[i].kind = kind <=> \E k \in DOMAIN idxs : at[k] = i
          /\ \A k \in DOMAIN idxs : ns[idxs[k] + 1] = ds[at[k]].pkg
    BY DEF Covers, EdgesOf
  <2>2. \A k \in DOMAIN idxs : more[idxs[k] + 1] = ds[at[k]].pkg
    BY <1>2, <2>1
  <2> QED
    BY <2>1, <2>2 DEF EdgesOf
<1> QED
  BY <1>2, <1>3 DEF Covers

(* A new activation has collected the edges of no dependency.               *)
LEMMA CollectedNew ==
  ASSUME ResolveGiven, NEW p \in Packages, NEW ns
  PROVE  Collected(DepsOf(p), ns, NewFrame(p))
<1>1. 1 <= Len(DepsOf(p)) + 1
  BY DepsTyped
<1>2. 1 - 1 = 0
  OBVIOUS
<1> QED
  BY <1>1, <1>2, CoversNone DEF Collected, NewFrame

(* A dependency that is not followed adds no edge of either kind.           *)
LEMMA CollectedSkip ==
  ASSUME ResolveGiven, NEW frame \in Frame, NEW ns,
         ~Exhausted(frame), ~Followed(CurrentDep(frame)),
         Collected(DepsOf(frame.pkg), ns, frame)
  PROVE  Collected(DepsOf(frame.pkg), ns, Advance(frame))
<1> DEFINE ds == DepsOf(frame.pkg)
           new == Advance(frame)
<1>1. PICK count \in Nat : frame.next = count + 1
  BY DEF Frame
<1>2. /\ new.next = count + 2 /\ new.dependencies = frame.dependencies
      /\ new.buildDependencies = frame.buildDependencies
  BY <1>1, AdvanceTyped
<1>3. count + 1 <= Len(ds) /\ Len(ds) \in Nat
  BY <1>1, CurrentDepTyped, DepsTyped DEF Frame
<1>4. ~Followed(ds[count + 1])
  BY <1>1 DEF CurrentDep
<1>5. frame.next - 1 = count /\ new.next - 1 = count + 1 /\ new.next <= Len(ds) + 1
  BY <1>1, <1>2, <1>3
<1> HIDE DEF ds, new
<1>6. /\ Covers(ds, ns, frame.dependencies, Len(ns), "normal", count)
      /\ Covers(ds, ns, frame.buildDependencies, Len(ns), "build", count)
  BY <1>5 DEF Collected, ds
<1>7. /\ Covers(ds, ns, frame.dependencies, Len(ns), "normal", count + 1)
      /\ Covers(ds, ns, frame.buildDependencies, Len(ns), "build", count + 1)
  BY <1>4, <1>6, CoversSkip
<1> QED
  BY <1>2, <1>5, <1>7 DEF Collected, ds, new

(* The index returned is the edge of the dependency the call was for.       *)
LEMMA CollectedEdge ==
  ASSUME ResolveGiven, NEW frame \in Frame, NEW ns, NEW idx \in Nat,
         idx < Len(ns), Suspended(frame, ns[idx + 1]),
         Collected(DepsOf(frame.pkg), ns, frame)
  PROVE  Collected(DepsOf(frame.pkg), ns,
                   Advance(AddEdge(frame, CurrentDep(frame).kind, idx)))
<1> DEFINE ds == DepsOf(frame.pkg)
           dep == CurrentDep(frame)
           new == Advance(AddEdge(frame, dep.kind, idx))
<1>0. frame.next \in Nat \ {0}
  BY DEF Frame
<1>1. PICK count \in Nat : frame.next = count + 1
  <2>1. frame.next - 1 \in Nat /\ frame.next = (frame.next - 1) + 1
    BY <1>0
  <2> QED
    BY <2>1
<1>2. /\ new.next = count + 2
      /\ new.dependencies = IF dep.kind = "normal"
                            THEN Append(frame.dependencies, idx)
                            ELSE frame.dependencies
      /\ new.buildDependencies = IF dep.kind = "normal"
                                 THEN frame.buildDependencies
                                 ELSE Append(frame.buildDependencies, idx)
  BY <1>1, EdgeAdded
<1>3. count + 1 <= Len(ds) /\ Len(ds) \in Nat
  BY <1>1, CurrentDepTyped, DepsTyped DEF Frame, Suspended
<1>4. /\ dep = ds[count + 1] /\ Followed(dep) /\ dep.pkg = ns[idx + 1]
      /\ dep.kind \in {"normal", "build"}
  BY <1>1, CurrentDepTyped DEF CurrentDep, Suspended, Followed, DepKind
<1>5. frame.next - 1 = count /\ new.next - 1 = count + 1 /\ new.next <= Len(ds) + 1
  BY <1>1, <1>2, <1>3
<1>6. frame.dependencies \in Seq(Nat) /\ frame.buildDependencies \in Seq(Nat)
  BY DEF Frame
<1> HIDE DEF ds, dep, new
<1>7. /\ Covers(ds, ns, frame.dependencies, Len(ns), "normal", count)
      /\ Covers(ds, ns, frame.buildDependencies, Len(ns), "build", count)
  BY <1>5 DEF Collected, ds
<1>8. /\ Covers(ds, ns, new.dependencies, Len(ns), "normal", count + 1)
      /\ Covers(ds, ns, new.buildDependencies, Len(ns), "build", count + 1)
  <2>1. CASE dep.kind = "normal"
    <3>1. Covers(ds, ns, new.dependencies, Len(ns), "normal", count + 1)
      BY <1>2, <1>4, <1>6, <1>7, <2>1, CoversAdd
    <3>2. Covers(ds, ns, new.buildDependencies, Len(ns), "build", count + 1)
      BY <1>2, <1>4, <1>7, <2>1, CoversSkip
    <3> QED
      BY <3>1, <3>2
  <2>2. CASE dep.kind = "build"
    <3>1. Covers(ds, ns, new.dependencies, Len(ns), "normal", count + 1)
      BY <1>2, <1>4, <1>7, <2>2, CoversSkip
    <3>2. Covers(ds, ns, new.buildDependencies, Len(ns), "build", count + 1)
      BY <1>2, <1>4, <1>6, <1>7, <2>2, CoversAdd
    <3> QED
      BY <3>1, <3>2
  <2> QED
    BY <1>4, <2>1, <2>2
<1> QED
  BY <1>5, <1>8 DEF Collected, ds, dep, new

(* Edges stay right when the node vector grows.                             *)
LEMMA MoreNodes ==
  ASSUME NEW ns \in Seq(Packages), NEW more \in Seq(Packages), NEW ds,
         Len(ns) <= Len(more), \A n \in 1..Len(ns) : more[n] = ns[n]
  PROVE  /\ \A frame \in Frame :
              Collected(ds, ns, frame) => Collected(ds, more, frame)
         /\ \A e \in NodeEdges, n \in 1..Len(ns) :
              Complete(ds, ns, e, n) => Complete(ds, more, e, n)
<1>1. Len(ns) \in Nat /\ Len(more) \in Nat
  BY LenProperties
<1>2. ASSUME NEW frame \in Frame, Collected(ds, ns, frame)
      PROVE  Collected(ds, more, frame)
  BY <1>1, <1>2, CoversMoreNodes DEF Collected, Frame
<1>3. ASSUME NEW e \in NodeEdges, NEW n \in 1..Len(ns), Complete(ds, ns, e, n)
      PROVE  Complete(ds, more, e, n)
  <2>1. n - 1 \in Nat /\ \A k \in 1..(n - 1) : k \in 1..Len(ns)
    BY <1>1
  <2> QED
    BY <1>3, <2>1, CoversMoreNodes DEF Complete, NodeEdges
<1> QED
  BY <1>2, <1>3

(* At the end of its loop an activation has the edges of its node.          *)
LEMMA CollectedWhole ==
  ASSUME ResolveGiven, NEW frame \in Frame, NEW ns \in Seq(Packages),
         Exhausted(frame), Collected(DepsOf(frame.pkg), ns, frame),
         NEW e, e.dependencies = frame.dependencies,
         e.buildDependencies = frame.buildDependencies
  PROVE  Complete(DepsOf(frame.pkg), ns, e, Len(ns) + 1)
<1> DEFINE ds == DepsOf(frame.pkg)
<1>1. Len(ds) \in Nat /\ Len(ns) \in Nat /\ frame.next \in Nat
  BY DepsTyped, LenProperties DEF Frame
<1>2. frame.next - 1 = Len(ds) /\ (Len(ns) + 1) - 1 = Len(ns)
  BY <1>1 DEF Exhausted, Collected
<1> QED
  BY <1>2 DEF Collected, Complete

(* The top activation changes, the graph does not.                          *)
LEMMA EdgesCollectedTop ==
  ASSUME TypeOK, EdgesCollected, stack # <<>>, NEW f \in Frame,
         f.pkg = Last(stack).pkg, stack' = SetTop(f),
         UNCHANGED <<resolve, nodes, edges>>,
         Collected(DepsOf(f.pkg), nodes, f), TypeOK'
  PROVE  EdgesCollected'
<1>1. /\ Len(stack') = Len(stack)
      /\ \A i \in 1..Len(stack) : stack'[i] = IF i = Len(stack) THEN f ELSE stack[i]
  BY TopReplaced
<1>2. DOMAIN stack = 1..Len(stack) /\ DOMAIN stack' = 1..Len(stack')
  BY LenProperties DEF TypeOK
<1>3. \A i \in DOMAIN stack' : Collected(DepsOf(stack'[i].pkg), nodes, stack'[i])
  BY <1>1, <1>2 DEF EdgesCollected
<1> QED
  BY <1>3 DEF EdgesCollected, DepsOf

(* Entering a package keeps the edges right.                                *)
LEMMA EdgesCollectedEnter ==
  ASSUME ResolveGiven, TypeOK, EdgesCollected, EnterPackage
  PROVE  EdgesCollected'
<1>1. /\ stack' = Append(stack, NewFrame(callee)) /\ NewFrame(callee).pkg = callee
      /\ UNCHANGED <<resolve, nodes, edges>>
  BY DEF EnterPackage, graph, NewFrame
<1>2. NewFrame(callee) \in Frame /\ Collected(DepsOf(callee), nodes, NewFrame(callee))
  BY NewFrameTyped, CollectedNew DEF TypeOK
<1>3. /\ \A i \in DOMAIN stack : stack'[i] = stack[i]
      /\ stack'[Len(stack) + 1] = NewFrame(callee)
      /\ \A i \in DOMAIN stack' : i \in DOMAIN stack \/ i = Len(stack) + 1
  BY <1>1, <1>2 DEF TypeOK
<1>4. \A i \in DOMAIN stack' : Collected(DepsOf(stack'[i].pkg), nodes, stack'[i])
  BY <1>1, <1>2, <1>3 DEF EdgesCollected
<1> QED
  BY <1>1, <1>4 DEF EdgesCollected, DepsOf

(* So does pushing its node.                                                *)
LEMMA EdgesCollectedPushNode ==
  ASSUME ResolveGiven, TypeOK, EdgesCollected, PushNode, TypeOK'
  PROVE  EdgesCollected'
<1> DEFINE top == Last(stack)
           e == [dependencies |-> top.dependencies,
                 buildDependencies |-> top.buildDependencies]
<1>1. /\ stack # <<>> /\ Exhausted(top) /\ stack' = Front(stack)
      /\ nodes' = Append(nodes, top.pkg) /\ edges' = Append(edges, e)
      /\ resolve' = resolve
  BY DEF PushNode, TypeOK
<1>2. /\ Len(stack) \in DOMAIN stack /\ top = stack[Len(stack)] /\ top \in Frame
      /\ DOMAIN stack = 1..Len(stack) /\ Len(stack) \in Nat /\ Len(nodes) \in Nat
  BY <1>1, Indices
<1>3. /\ nodes' \in Seq(Packages) /\ top.pkg \in Packages
      /\ e \in NodeEdges
      /\ e.dependencies = top.dependencies
      /\ e.buildDependencies = top.buildDependencies
  BY <1>2 DEF TypeOK, Frame, NodeEdges
<1> HIDE DEF top, e
<1>4. /\ Len(nodes') = Len(nodes) + 1
      /\ \A n \in 1..Len(nodes) : nodes'[n] = nodes[n]
      /\ nodes'[Len(nodes) + 1] = top.pkg
      /\ DOMAIN nodes' = 1..(Len(nodes) + 1) /\ DOMAIN nodes = 1..Len(nodes)
      /\ nodes \in Seq(Packages) /\ edges \in Seq(NodeEdges)
  BY <1>1, <1>3 DEF TypeOK
<1>5. /\ Len(edges) = Len(nodes) /\ Len(edges') = Len(nodes')
      /\ \A n \in 1..Len(nodes) : edges'[n] = edges[n] /\ edges[n] \in NodeEdges
      /\ edges'[Len(nodes) + 1] = e
  BY <1>1, <1>3, <1>4 DEF EdgesCollected
<1>6. /\ Len(stack') = Len(stack) - 1 /\ stack' \in Seq(Frame)
      /\ \A i \in 1..(Len(stack) - 1) : stack'[i] = stack[i]
  BY <1>1, LastAndFront DEF TypeOK
<1>7. /\ \A ds : \A frame \in Frame :
           Collected(ds, nodes, frame) => Collected(ds, nodes', frame)
      /\ \A ds : \A f \in NodeEdges, n \in 1..Len(nodes) :
           Complete(ds, nodes, f, n) => Complete(ds, nodes', f, n)
  <2>1. Len(nodes) <= Len(nodes')
    BY <1>2, <1>4
  <2> QED
    BY <1>3, <1>4, <2>1, MoreNodes
<1>8. \A i \in DOMAIN stack' : Collected(DepsOf(stack'[i].pkg), nodes', stack'[i])
  <2>1. \A i \in DOMAIN stack' :
          stack'[i] = stack[i] /\ i \in DOMAIN stack /\ stack[i] \in Frame
    BY <1>2, <1>6, LenProperties, Indices
  <2> QED
    BY <1>7, <2>1 DEF EdgesCollected
<1>9. \A n \in DOMAIN nodes' : Complete(DepsOf(nodes'[n]), nodes', edges'[n], n)
  <2>1. ASSUME NEW n \in 1..Len(nodes)
        PROVE  Complete(DepsOf(nodes'[n]), nodes', edges'[n], n)
    BY <1>4, <1>5, <1>7 DEF EdgesCollected
  <2>2. Complete(DepsOf(top.pkg), nodes', e, Len(nodes) + 1)
    <3>1. Collected(DepsOf(top.pkg), nodes, top)
      BY <1>2 DEF EdgesCollected
    <3>2. Complete(DepsOf(top.pkg), nodes, e, Len(nodes) + 1)
      BY <1>1, <1>2, <1>3, <1>4, <3>1, CollectedWhole
    <3>3. /\ e.dependencies \in Seq(Nat) /\ e.buildDependencies \in Seq(Nat)
      BY <1>3 DEF NodeEdges
    <3>4. (Len(nodes) + 1) - 1 = Len(nodes)
      BY <1>2
    <3>5. /\ Covers(DepsOf(top.pkg), nodes, e.dependencies, Len(nodes),
                     "normal", Len(DepsOf(top.pkg)))
          /\ Covers(DepsOf(top.pkg), nodes, e.buildDependencies, Len(nodes),
                     "build", Len(DepsOf(top.pkg)))
      BY <3>2, <3>4 DEF Complete
    <3>6. Len(nodes) \in Nat /\ Len(nodes) <= Len(nodes)
      BY <1>2
    <3>7. Covers(DepsOf(top.pkg), nodes', e.dependencies, Len(nodes),
                 "normal", Len(DepsOf(top.pkg)))
      BY <1>4, <3>3, <3>5, <3>6, CoversMoreNodes
    <3>8. Covers(DepsOf(top.pkg), nodes', e.buildDependencies, Len(nodes),
                 "build", Len(DepsOf(top.pkg)))
      BY <1>4, <3>3, <3>5, <3>6, CoversMoreNodes
    <3> QED
      BY <3>4, <3>7, <3>8 DEF Complete
  <2>3. \A n \in DOMAIN nodes' : n \in 1..Len(nodes) \/ n = Len(nodes) + 1
    BY <1>2, <1>4
  <2> QED
    BY <1>4, <1>5, <2>1, <2>2, <2>3
<1> QED
  BY <1>1, <1>5, <1>8, <1>9 DEF EdgesCollected, DepsOf

(* Every step keeps the edges right.                                        *)
LEMMA EdgesCollectedStep ==
  ASSUME ResolveGiven, TypeOK, StackLinked, EdgesCollected, [Next]_vars
  PROVE  EdgesCollected'
<1>0. TypeOK'
  BY TypeStep
<1> DEFINE top == Last(stack)
<1>1. CASE EnterPackage
  BY <1>1, EdgesCollectedEnter
<1>2. CASE SkipDependency
  <2>1. /\ stack # <<>> /\ top \in Frame /\ stack' = SetTop(Advance(top))
        /\ ~Exhausted(top) /\ ~Followed(CurrentDep(top))
        /\ UNCHANGED <<resolve, nodes, edges>>
    BY <1>2, LastAndFront DEF SkipDependency, TypeOK, graph
  <2>2. Advance(top) \in Frame /\ Advance(top).pkg = top.pkg
    BY <2>1, AdvanceTyped
  <2>3. Collected(DepsOf(top.pkg), nodes, top)
    BY <2>1, Indices DEF EdgesCollected
  <2>4. Collected(DepsOf(top.pkg), nodes, Advance(top))
    BY <2>1, <2>3, CollectedSkip
  <2> QED
    BY <1>0, <2>1, <2>2, <2>4, EdgesCollectedTop
<1>3. CASE PushEdge
  <2> DEFINE new == Advance(AddEdge(top, CurrentDep(top).kind, result))
  <2>1. /\ stack # <<>> /\ top \in Frame /\ stack' = SetTop(new)
        /\ result \in Nat /\ UNCHANGED <<resolve, nodes, edges>>
    BY <1>3, LastAndFront DEF PushEdge, TypeOK, graph
  <2>2. new \in Frame /\ new.pkg = top.pkg
    BY <2>1, EdgeAdded
  <2>3. Collected(DepsOf(top.pkg), nodes, top)
    BY <2>1, Indices DEF EdgesCollected
  <2>4. result < Len(nodes) /\ Suspended(top, nodes[result + 1])
    BY <1>3, <2>1, Indices DEF StackLinked, PushEdge
  <2>5. Collected(DepsOf(top.pkg), nodes, new)
    BY <2>1, <2>3, <2>4, CollectedEdge
  <2> HIDE DEF new
  <2> QED
    BY <1>0, <2>1, <2>2, <2>5, EdgesCollectedTop
<1>4. CASE PushNode
  BY <1>0, <1>4, EdgesCollectedPushNode
<1>5. CASE UNCHANGED <<resolve, stack, nodes, edges>>
  BY <1>5 DEF EdgesCollected, DepsOf
<1> QED
  BY <1>1, <1>2, <1>3, <1>4, <1>5
  DEF Next, Step, Terminating, ReturnEarly, Panic, VisitDependency,
      ReturnGraph, vars, graph

-------------------------------------------------------------------------------
(* The invariant.                                                           *)

(* The first state satisfies the invariant.                                 *)
LEMMA InvInit == Init => Inv
<1> SUFFICES ASSUME Init PROVE Inv
  OBVIOUS
<1>1. /\ op = "call" /\ callee = Root /\ stack = <<>> /\ nodes = <<>>
      /\ edges = <<>> /\ pkgIdToIdx = [p \in {} |-> 0]
  BY DEF Init
<1>2. TypeOK
  BY TypeInit
<1>3. StackLinked
  BY <1>1 DEF StackLinked
<1>4. OpenOnce
  BY <1>1 DEF OpenOnce
<1>5. OneNodePerPackage
  BY <1>1 DEF OneNodePerPackage, ToSet
<1>6. EdgesCollected
  BY <1>1 DEF EdgesCollected
<1>7. OnlyNeeded
  BY <1>1, NeededClosed DEF OnlyNeeded
<1> QED
  BY <1>2, <1>3, <1>4, <1>5, <1>6, <1>7 DEF Inv

(* Every step keeps the invariant.                                          *)
LEMMA InvStep ==
  ASSUME ResolveGiven, Inv, [Next]_vars
  PROVE  Inv'
BY TypeStep, StackLinkedStep, OpenOnceStep, OneNodePerPackageStep,
   EdgesCollectedStep, OnlyNeededStep DEF Inv

(* The invariant holds in every state of the construction.                  *)
THEOREM Invariance == Spec => []Inv
<1>1. ResolveGiven /\ Inv /\ [Next]_vars => Inv'
  BY InvStep
<1> QED
  BY <1>1, InvInit, ResolveStays, PTL DEF Spec

(* The package q is among the first n - 1 of the nodes ns.                  *)
LaidBefore(ns, n, q) == \E m \in 1..(n - 1) : ns[m] = q

(* A node with all of its edges: they go to nodes before it, and what its   *)
(* package depends on is among those.                                       *)
LEMMA CompleteTargets ==
  ASSUME ResolveGiven, NEW p \in Packages, NEW ns, NEW e \in NodeEdges,
         NEW n \in Nat, Complete(DepsOf(p), ns, e, n)
  PROVE  /\ \A i \in ToSet(e.dependencies) \cup ToSet(e.buildDependencies) : i < n - 1
         /\ \A q \in FollowedDeps(resolve, p) : LaidBefore(ns, n, q)
<1> DEFINE ds == DepsOf(p)
<1>1. e.dependencies \in Seq(Nat) /\ e.buildDependencies \in Seq(Nat)
  BY DEF NodeEdges
<1>2. /\ ds = resolve.deps[p] /\ DOMAIN ds = 1..Len(ds)
      /\ \A k \in 1..Len(ds) : ds[k] \in Dependency
  BY DepsTyped DEF DepsOf
<1>3. /\ Covers(ds, ns, e.dependencies, n - 1, "normal", Len(ds))
      /\ Covers(ds, ns, e.buildDependencies, n - 1, "build", Len(ds))
  BY DEF Complete
<1> HIDE DEF ds
<1>4. ASSUME NEW idxs \in Seq(Nat), NEW kind,
             Covers(ds, ns, idxs, n - 1, kind, Len(ds))
      PROVE  /\ \A i \in ToSet(idxs) : i < n - 1
             /\ \A k \in 1..Len(ds) : Followed(ds[k]) /\ ds[k].kind = kind =>
                  LaidBefore(ns, n, ds[k].pkg)
  <2>1. \A i \in ToSet(idxs) : i < n - 1
    BY <1>4 DEF Covers, ToSet
  <2>2. ASSUME NEW k \in 1..Len(ds), Followed(ds[k]), ds[k].kind = kind
        PROVE  LaidBefore(ns, n, ds[k].pkg)
    <3>1. PICK j \in DOMAIN idxs : ds[k].pkg = ns[idxs[j] + 1]
      <4>1. PICK at \in [DOMAIN idxs -> 1..Len(ds)] :
              /\ \A i \in 1..Len(ds) :
                   Followed(ds[i]) /\ ds[i].kind = kind <=> \E j \in DOMAIN idxs : at[j] = i
              /\ \A j \in DOMAIN idxs : ns[idxs[j] + 1] = ds[at[j]].pkg
        BY <1>4 DEF Covers, EdgesOf
      <4>2. PICK j \in DOMAIN idxs : at[j] = k
        BY <2>2, <4>1
      <4> QED
        BY <4>1, <4>2
    <3>2. idxs[j] \in Nat
      BY ElementOfSeq, LenProperties
    <3>3. idxs[j] < n - 1
      BY <1>4 DEF Covers
    <3>4. idxs[j] + 1 \in 1..(n - 1)
      BY <3>2, <3>3
    <3> QED
      BY <3>1, <3>4 DEF LaidBefore
  <2> QED
    BY <2>1, <2>2
<1>5. \A i \in ToSet(e.dependencies) \cup ToSet(e.buildDependencies) : i < n - 1
  BY <1>1, <1>3, <1>4
<1>6. ASSUME NEW q \in FollowedDeps(resolve, p)
      PROVE  LaidBefore(ns, n, q)
  <2>1. PICK k \in 1..Len(ds) : Followed(ds[k]) /\ ds[k].pkg = q
    BY <1>2 DEF FollowedDeps
  <2>2. ds[k].kind = "normal" \/ ds[k].kind = "build"
    BY <1>2, <2>1 DEF Dependency, DepKind, Followed
  <2> QED
    BY <1>1, <1>3, <1>4, <2>1, <2>2
<1> QED
  BY <1>5, <1>6

(* The same of the n-th node of the graph, in every state.                  *)
LEMMA DepsLaidBefore ==
  ASSUME ResolveGiven, Inv, NEW n \in Nat, n \in DOMAIN nodes
  PROVE  /\ \A i \in ToSet(edges[n].dependencies) \cup ToSet(edges[n].buildDependencies) :
              i < n - 1
         /\ \A q \in FollowedDeps(resolve, nodes[n]) : LaidBefore(nodes, n, q)
<1>1. nodes[n] \in Packages
  BY Indices DEF Inv
<1>2. edges[n] \in NodeEdges
  <2>1. edges \in Seq(NodeEdges) /\ n \in 1..Len(edges)
    BY Indices DEF Inv, TypeOK, EdgesCollected
  <2> QED
    BY <2>1, ElementOfSeq
<1>3. Complete(DepsOf(nodes[n]), nodes, edges[n], n)
  BY DEF Inv, EdgesCollected
<1> QED
  BY <1>1, <1>2, <1>3, CompleteTargets

(* The invariant gives the shape of the finished graph.                     *)
LEMMA RootLaidLast ==
  ASSUME ResolveGiven, Inv
  PROVE  GraphOfRoot
<1> SUFFICES ASSUME op = "done"
             PROVE  Last(nodes) = Root /\ ToSet(nodes) = Order!Needed
  BY DEF GraphOfRoot
<1>1. /\ nodes # <<>> /\ Last(nodes) = Root
      /\ DOMAIN nodes = 1..Len(nodes) /\ Len(nodes) \in Nat
      /\ \A n \in 1..Len(nodes) : nodes[n] \in Packages
  BY Indices DEF Inv, StackLinked
<1>2. ToSet(nodes) \subseteq Order!Needed
  BY DEF Inv, OnlyNeeded, ToSet
<1>3. Root \in ToSet(nodes)
  BY <1>1, EmptySeq DEF Inv, TypeOK, ToSet, Last
<1>4. ToSet(nodes) \in SUBSET Packages
  BY <1>1 DEF ToSet
<1>5. Order!Closed(ToSet(nodes))
  <2>1. ASSUME NEW n \in 1..Len(nodes), NEW q \in FollowedDeps(resolve, nodes[n])
        PROVE  q \in ToSet(nodes)
    <3>1. PICK m \in 1..(n - 1) : nodes[m] = q
      BY <1>1, DepsLaidBefore DEF LaidBefore
    <3>2. m \in 1..Len(nodes)
      BY <1>1
    <3> QED
      BY <1>1, <3>1, <3>2 DEF ToSet
  <2> QED
    BY <1>1, <2>1 DEF Order!Closed, ToSet
<1>6. Order!Needed \subseteq ToSet(nodes)
  BY <1>3, <1>4, <1>5 DEF Order!Needed
<1> QED
  BY <1>1, <1>2, <1>6

(* What the invariant says of the edges, to each of the two properties.    *)
LEMMA EdgesRight ==
  ASSUME ResolveGiven, Inv
  PROVE  DependenciesPrecede /\ EdgesMatchResolve
<1>1. DOMAIN edges = DOMAIN nodes /\ \A n \in DOMAIN nodes : n \in Nat
  BY LenProperties DEF Inv, TypeOK, EdgesCollected
<1>2. DependenciesPrecede
  BY <1>1, DepsLaidBefore DEF DependenciesPrecede
<1>3. EdgesMatchResolve
  BY <1>1 DEF Inv, EdgesCollected, Complete, Covers, EdgesMatchResolve
<1> QED
  BY <1>2, <1>3

(* Edges only lead to earlier nodes, at every moment.                       *)
THEOREM PrecedenceInvariant == Spec => []DependenciesPrecede
<1>1. ResolveGiven /\ Inv => DependenciesPrecede
  BY EdgesRight
<1> QED
  BY <1>1, Invariance, ResolveStays, PTL

(* A node has the edges of its package's followed dependencies: each kind   *)
(* in its vector, in the order of the resolve, none missing and none twice. *)
THEOREM EdgesInvariant == Spec => []EdgesMatchResolve
<1>1. ResolveGiven /\ Inv => EdgesMatchResolve
  BY EdgesRight
<1> QED
  BY <1>1, Invariance, ResolveStays, PTL

(* A package has one node, whose index the map gives.                       *)
THEOREM OneNodeInvariant == Spec => []OneNodePerPackage
<1>1. Inv => OneNodePerPackage
  BY DEF Inv
<1> QED
  BY <1>1, Invariance, PTL

(* The finished graph is that of the root, which is its last node.          *)
THEOREM RootInvariant == Spec => []GraphOfRoot
<1>1. ResolveGiven /\ Inv => GraphOfRoot
  BY RootLaidLast
<1> QED
  BY <1>1, Invariance, ResolveStays, PTL

-------------------------------------------------------------------------------
(* The node vector is filled as BuildOrder says.                            *)

(* Pushing a node is a step of the abstract specification.                  *)
LEMMA PlaceStep ==
  ASSUME ResolveGiven, Inv, resolve' = resolve, PushNode
  PROVE  \E p \in Packages : Order!Place(p)
<1> DEFINE top == Last(stack)
           e == [dependencies |-> top.dependencies,
                 buildDependencies |-> top.buildDependencies]
<1>1. stack # <<>> /\ nodes' = Append(nodes, top.pkg) /\ Exhausted(top)
  BY DEF PushNode, Inv, TypeOK
<1>2. /\ top \in Frame /\ Len(nodes) \in Nat /\ DOMAIN nodes = 1..Len(nodes)
      /\ Len(stack) \in DOMAIN stack /\ top = stack[Len(stack)]
      /\ nodes \in Seq(Packages)
  BY <1>1, Indices DEF Inv, TypeOK
<1>3. top.pkg \in Packages /\ e \in NodeEdges
  BY <1>2 DEF Frame, NodeEdges
<1>4. top.pkg \in Order!Needed /\ top.pkg \notin ToSet(nodes)
  BY <1>2 DEF Inv, OnlyNeeded, OpenOnce, OneNodePerPackage
<1>5. Complete(DepsOf(top.pkg), nodes, e, Len(nodes) + 1)
  <2>1. Collected(DepsOf(top.pkg), nodes, top)
    BY <1>2 DEF Inv, EdgesCollected
  <2> QED
    BY <1>1, <1>2, <2>1, CollectedWhole
<1>6. FollowedDeps(resolve, top.pkg) \subseteq ToSet(nodes)
  <2>1. Len(nodes) + 1 \in Nat /\ (Len(nodes) + 1) - 1 = Len(nodes)
    BY <1>2
  <2> HIDE DEF e
  <2>2. \A q \in FollowedDeps(resolve, top.pkg) : LaidBefore(nodes, Len(nodes) + 1, q)
    BY <1>3, <1>5, <2>1, CompleteTargets
  <2> QED
    BY <1>2, <2>1, <2>2 DEF LaidBefore, ToSet
<1>7. UNCHANGED [p \in Packages |-> FollowedDeps(resolve, p)]
  BY DEF FollowedDeps
<1> QED
  <2>1. Order!ToSet(nodes) = ToSet(nodes)
    BY DEF ToSet, Order!ToSet
  <2>2. Order!Place(top.pkg)
    BY <1>1, <1>3, <1>4, <1>6, <1>7, <2>1 DEF Order!Place
  <2> QED
    BY <1>3, <2>2

(* The construction implements the abstract specification of the order.     *)
THEOREM OrderRefinement == Spec => ImplementsBuildOrder
<1>1. Init => Order!Init
  <2> SUFFICES ASSUME Init PROVE Order!Init
    OBVIOUS
  <2>1. ResolveGiven
    BY DEF Init, ResolveGiven
  <2>2. \A p \in Packages : FollowedDeps(resolve, p) \subseteq Packages
    BY <2>1, DepsTyped DEF FollowedDeps, DepsOf, Dependency
  <2> QED
    BY <2>2 DEF Init, Order!Init
<1>2. ResolveGiven /\ Inv /\ [Next]_vars
        => [Order!Next]_Order!vars
  <2> SUFFICES ASSUME ResolveGiven, Inv, [Next]_vars
               PROVE  [Order!Next]_Order!vars
    OBVIOUS
  <2>1. resolve' = resolve
    BY ResolveStep
  <2>2. CASE PushNode
    BY <2>1, <2>2, PlaceStep DEF Order!Next
  <2>3. CASE nodes' = nodes
    BY <2>1, <2>3 DEF Order!vars, FollowedDeps
  <2> QED
    BY <2>2, <2>3
    DEF Next, Step, Terminating, ReturnEarly, EnterPackage, Panic,
        SkipDependency, VisitDependency, PushEdge, ReturnGraph, vars, graph
<1> QED
  BY <1>1, <1>2, Invariance, ResolveStays, PTL
  DEF Spec, ImplementsBuildOrder, Order!Spec

-------------------------------------------------------------------------------
(* What build_package is given.                                            *)

(* The graph, for packages with the given targets.                         *)
GraphWith(targets) == [n \in DOMAIN nodes |-> NodeWith(targets[nodes[n]], edges[n])]

(* The finished graph can be walked by BuildPackage, whatever targets the  *)
(* packages have.                                                          *)
HandedOverInv ==
  op = "done" => \A targets \in [Packages -> Targets] : IsBuildGraph(GraphWith(targets))

LEMMA DirectDepsOf ==
  ASSUME NEW node \in Node, NEW i \in ToSet(DirectDeps(node))
  PROVE  i \in ToSet(node.dependencies) \cup ToSet(node.buildDependencies)
<1> DEFINE b == node.buildDependencies
           n == node.dependencies
<1>1. b \in Seq(Nat) /\ n \in Seq(Nat)
  BY DEF Node
<1> HIDE DEF b, n
<1>2. PICK k \in DOMAIN (b \o n) : i = (b \o n)[k]
  BY DEF DirectDeps, ToSet, b, n
<1>3. CASE k \in 1..Len(b)
  BY <1>1, <1>2, <1>3 DEF ToSet, b
<1>4. CASE k \notin 1..Len(b)
  <2>1. k - Len(b) \in 1..Len(n) /\ (b \o n)[k] = n[k - Len(b)]
    BY <1>1, <1>2, <1>4
  <2> QED
    BY <1>1, <1>2, <2>1 DEF ToSet, n
<1> QED
  BY <1>3, <1>4

LEMMA FinishedGraph ==
  ASSUME TypeOK, EdgesMatchResolve, DependenciesPrecede, GraphOfRoot
  PROVE  HandedOverInv
<1> SUFFICES ASSUME op = "done", NEW targets \in [Packages -> Targets]
             PROVE  IsBuildGraph(GraphWith(targets))
  BY DEF HandedOverInv
<1> DEFINE g == GraphWith(targets)
<1>1. /\ nodes \in Seq(Packages) /\ edges \in Seq(NodeEdges)
      /\ DOMAIN edges = DOMAIN nodes /\ DOMAIN nodes = 1..Len(nodes) /\ Len(nodes) \in Nat
  BY DEF TypeOK, EdgesMatchResolve
<1>2. \A n \in DOMAIN nodes : nodes[n] \in Packages /\ edges[n] \in NodeEdges
  BY <1>1
<1>3. \A n \in DOMAIN nodes : NodeWith(targets[nodes[n]], edges[n]) \in Node
  BY <1>2 DEF NodeWith, Node, NodeEdges, Targets
<1>4. DOMAIN g = DOMAIN nodes /\ \A n \in DOMAIN nodes : g[n] \in Node
  BY <1>3 DEF GraphWith
<1>5. g \in Seq(Node)
  <2>1. g = [n \in 1..Len(nodes) |-> g[n]]
    BY <1>1 DEF GraphWith
  <2> HIDE DEF g
  <2> QED
    BY <1>1, <1>4, <2>1
<1>6. g # <<>>
  <2>1. nodes # <<>>
    <3>1. Root \in ToSet(nodes)
      BY NeededClosed DEF GraphOfRoot
    <3> QED
      BY <3>1 DEF ToSet
  <2>2. 1 \in DOMAIN g
    BY <1>1, <1>4, <2>1
  <2> HIDE DEF g
  <2> QED
    BY <2>2
<1>7. ASSUME NEW n \in DOMAIN g, NEW i \in ToSet(DirectDeps(g[n]))
      PROVE  i < n - 1
  <2>1. n \in DOMAIN edges /\ g[n] \in Node
    BY <1>1, <1>4
  <2>2. g[n].dependencies = edges[n].dependencies
        /\ g[n].buildDependencies = edges[n].buildDependencies
    BY <1>1, <2>1 DEF GraphWith, NodeWith
  <2> HIDE DEF g
  <2>3. i \in ToSet(g[n].dependencies) \cup ToSet(g[n].buildDependencies)
    BY <1>7, <2>1, DirectDepsOf
  <2> QED
    BY <2>1, <2>2, <2>3 DEF DependenciesPrecede
<1> QED
  BY <1>5, <1>6, <1>7 DEF IsBuildGraph

(* What BuildGraph::new returns is a graph that the loop of                *)
(* BuildPackage::call can walk: the assumption of BuildPackage holds.      *)
THEOREM HandedOver == Spec => []HandedOverInv
<1>1. TypeOK /\ EdgesMatchResolve /\ DependenciesPrecede /\ GraphOfRoot => HandedOverInv
  BY FinishedGraph
<1> QED
  BY <1>1, TypeInvariant, EdgesInvariant, PrecedenceInvariant, RootInvariant, PTL

===============================================================================
