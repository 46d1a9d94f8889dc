------------------------------ MODULE BuildGraph ------------------------------
(***************************************************************************)
(* The construction of the build graph: `BuildGraph::new` and the          *)
(* recursion `BuildGraph::insert_package` (src/src/build_graph.rs), fed    *)
(* by the dependencies `WorkspaceResolve::deps` yields                     *)
(* (src/src/resolve_build_graph.rs).                                       *)
(*                                                                         *)
(* The recursion is unfolded into an explicit stack with one frame per     *)
(* activation of `insert_package`, so that an invariant can speak of the   *)
(* half-built graph every activation sees.  `op` says what happens next:   *)
(*   "call"    insert_package(callee) has been called and not yet entered  *)
(*   "loop"    the activation on top of the stack is in its `for` loop     *)
(*   "return"  an activation has returned the node index `result`          *)
(*   "done"    BuildGraph::new has returned                                *)
(*   "panic"   the thread has panicked                                     *)
(* Indices stored in the graph count from 0, as in the code; the node with *)
(* index i is nodes[i + 1].                                                *)
(***************************************************************************)
EXTENDS Integers, Sequences, SequencesExt

CONSTANTS
  Packages,  (* The package IDs of the resolve.                             *)
  Root,      (* `root_package_id`.                                          *)
  Resolves   (* The resolves Cargo may hand over.                           *)

DepKind == {"normal", "build", "dev"}

(* A dependency is active when `dep_platform_activated` accepts it for the  *)
(* compile target.  A dependency is followed when it reaches one of the two *)
(* arms of insert_package that recurse.                                     *)
Dependency == [pkg : Packages, kind : DepKind, active : BOOLEAN]

Followed(dep) == dep.active /\ dep.kind # "dev"

(* What makes the insertion of a package panic once its loop is over: a     *)
(* build script or library that is a metabuild one, or whose file is not    *)
(* under the package root (as that of an enabled binary of the root), a     *)
(* crate type that is no library's, and a Git source that has not been      *)
(* vendored.                                                                *)
Unusable == {"metabuild", "outside", "crateType", "unvendored"}

(* What happens when a package is turned into a node.  One that is          *)
(* "missing" from the package set panics before its loop.                   *)
Status == {"ok", "missing"} \cup Unusable

FollowedDeps(r, p) ==
  {r.deps[p][k].pkg : k \in {i \in DOMAIN r.deps[p] : Followed(r.deps[p][i])}}

(* Cargo refuses a resolve whose normal and build dependencies form a       *)
(* cycle: every set of packages has one that needs none of the others, or   *)
(* itself.  Development dependencies may close cycles.                      *)
Acyclic(r) ==
  \A S \in SUBSET Packages :
    S # {} => \E p \in S : FollowedDeps(r, p) \cap S = {}

ASSUME RootAssumption == Root \in Packages

ASSUME ResolvesAssumption ==
  \A r \in Resolves :
    /\ r \in [deps : [Packages -> Seq(Dependency)], status : [Packages -> Status]]
    /\ Acyclic(r)

VARIABLES
  resolve,      (* The `WorkspaceResolve`, read-only.                       *)
  op, callee, result, stack,
  nodes,        (* `BuildGraph::nodes`, each node named by its package.     *)
  edges,        (* `BuildGraph::edges`.                                     *)
  pkgIdToIdx    (* `BuildGraph::pkg_id_to_idx`.                             *)

graph == <<nodes, edges, pkgIdToIdx>>
vars == <<resolve, op, callee, result, stack, nodes, edges, pkgIdToIdx>>

-------------------------------------------------------------------------------
(* The recursion.                                                           *)

DepsOf(p) == resolve.deps[p]

(* An activation: its package, the position of its `for` loop in the        *)
(* package's dependencies, and the local `edges: NodeEdges`.                *)
NewFrame(p) ==
  [pkg |-> p, next |-> 1, dependencies |-> <<>>, buildDependencies |-> <<>>]

CurrentDep(frame) == DepsOf(frame.pkg)[frame.next]
Exhausted(frame) == frame.next > Len(DepsOf(frame.pkg))

Advance(frame) == [frame EXCEPT !.next = @ + 1]

SetTop(frame) == [stack EXCEPT ![Len(stack)] = frame]

(* insert_package(p), the package already in the graph.                     *)
ReturnEarly ==
  /\ op = "call"
  /\ callee \in DOMAIN pkgIdToIdx
  /\ op' = "return"
  /\ result' = pkgIdToIdx[callee]
  /\ UNCHANGED <<resolve, callee, stack, graph>>

(* Mutant: the early return is forgotten.                                   *)
EnterPackageAgain ==
  /\ op = "call"
  /\ resolve.status[callee] # "missing"
  /\ op' = "loop"
  /\ stack' = Append(stack, NewFrame(callee))
  /\ UNCHANGED <<resolve, callee, result, graph>>

(* insert_package(p), the package not yet in the graph.                     *)
EnterPackage ==
  /\ op = "call"
  /\ callee \notin DOMAIN pkgIdToIdx
  /\ resolve.status[callee] # "missing"
  /\ op' = "loop"
  /\ stack' = Append(stack, NewFrame(callee))
  /\ UNCHANGED <<resolve, callee, result, graph>>

(* The `expect` on the package, and the panics of BinaryCrate::new,         *)
(* BuildScript::new, LibraryCrate::new and PackageSource::new.              *)
Panic ==
  /\ \/ /\ op = "call"
        /\ callee \notin DOMAIN pkgIdToIdx
        /\ resolve.status[callee] = "missing"
     \/ /\ op = "loop"
        /\ Exhausted(Last(stack))
        /\ resolve.status[Last(stack).pkg] \in Unusable
  /\ op' = "panic"
  /\ UNCHANGED <<resolve, callee, result, stack, graph>>

(* Mutants of the next action: a skipped dependency ends the loop; build    *)
(* dependencies are skipped too; the loop does not advance.                 *)
SkipRest ==
  /\ op = "loop"
  /\ LET top == Last(stack) IN
       /\ ~Exhausted(top)
       /\ ~Followed(CurrentDep(top))
       /\ stack' = SetTop([top EXCEPT !.next = Len(DepsOf(top.pkg)) + 1])
  /\ UNCHANGED <<resolve, op, callee, result, graph>>

SkipBuildToo ==
  /\ op = "loop"
  /\ LET top == Last(stack) IN
       /\ ~Exhausted(top)
       /\ ~(Followed(CurrentDep(top)) /\ CurrentDep(top).kind = "normal")
       /\ stack' = SetTop(Advance(top))
  /\ UNCHANGED <<resolve, op, callee, result, graph>>

SkipStuck ==
  /\ op = "loop"
  /\ ~Exhausted(Last(stack))
  /\ ~Followed(CurrentDep(Last(stack)))
  /\ UNCHANGED vars

(* A dependency for another platform, or a development dependency.          *)
SkipDependency ==
  /\ op = "loop"
  /\ LET top == Last(stack) IN
       /\ ~Exhausted(top)
       /\ ~Followed(CurrentDep(top))
       /\ stack' = SetTop(Advance(top))
  /\ UNCHANGED <<resolve, op, callee, result, graph>>

VisitDependency ==
  /\ op = "loop"
  /\ LET top == Last(stack) IN
       /\ ~Exhausted(top)
       /\ Followed(CurrentDep(top))
       /\ op' = "call"
       /\ callee' = CurrentDep(top).pkg
  /\ UNCHANGED <<resolve, result, stack, graph>>

(* Mutant: the two kinds of edges are swapped.                              *)
AddEdgeSwapped(frame, kind, idx) ==
  IF kind = "build"
  THEN [frame EXCEPT !.dependencies = Append(@, idx)]
  ELSE [frame EXCEPT !.buildDependencies = Append(@, idx)]

(* The recursive call returned: its index goes to the vector of the kind.   *)
AddEdge(frame, kind, idx) ==
  IF kind = "normal"
  THEN [frame EXCEPT !.dependencies = Append(@, idx)]
  ELSE [frame EXCEPT !.buildDependencies = Append(@, idx)]

PushEdge ==
  /\ op = "return"
  /\ stack # <<>>
  /\ LET top == Last(stack) IN
       stack' = SetTop(Advance(AddEdge(top, CurrentDep(top).kind, result)))
  /\ op' = "loop"
  /\ UNCHANGED <<resolve, callee, result, graph>>

(* Mutants of the next action: the index is the vector's length after the   *)
(* push, or that of the node before; the node is put in front.              *)
PushNodeAt(idx, order) ==
  /\ op = "loop"
  /\ LET top == Last(stack) IN
       /\ Exhausted(top)
       /\ resolve.status[top.pkg] \notin Unusable
       /\ nodes' = order
       /\ edges' = Append(edges, [dependencies |-> top.dependencies,
                                  buildDependencies |-> top.buildDependencies])
       /\ pkgIdToIdx' = [p \in DOMAIN pkgIdToIdx \cup {top.pkg} |->
                           IF p = top.pkg THEN idx ELSE pkgIdToIdx[p]]
  /\ result' = idx
  /\ stack' = Front(stack)
  /\ op' = "return"
  /\ UNCHANGED <<resolve, callee>>

PushNodeIndexLate == PushNodeAt(Len(nodes) + 1, Append(nodes, Last(stack).pkg))
PushNodeIndexEarly == PushNodeAt(Len(nodes) - 1, Append(nodes, Last(stack).pkg))
PushNodeInFront == PushNodeAt(Len(nodes), <<Last(stack).pkg>> \o nodes)

(* The loop is over: the node gets the next index and the index is returned.*)
PushNode ==
  /\ op = "loop"
  /\ LET top == Last(stack) IN
       /\ Exhausted(top)
       /\ resolve.status[top.pkg] \notin Unusable
       /\ nodes' = Append(nodes, top.pkg)
       /\ edges' = Append(edges, [dependencies |-> top.dependencies,
                                  buildDependencies |-> top.buildDependencies])
       /\ pkgIdToIdx' = [p \in DOMAIN pkgIdToIdx \cup {top.pkg} |->
                           IF p = top.pkg THEN Len(nodes) ELSE pkgIdToIdx[p]]
  /\ result' = Len(nodes)
  /\ stack' = Front(stack)
  /\ op' = "return"
  /\ UNCHANGED <<resolve, callee>>

(* BuildGraph::new drops the index of the root and returns the graph.       *)
ReturnGraph ==
  /\ op = "return"
  /\ stack = <<>>
  /\ op' = "done"
  /\ UNCHANGED <<resolve, callee, result, stack, graph>>

Stopped == op \in {"done", "panic"}

Terminating == Stopped /\ UNCHANGED vars

-------------------------------------------------------------------------------
Init ==
  /\ resolve \in Resolves
  /\ op = "call"
  /\ callee = Root
  /\ result = 0
  /\ stack = <<>>
  /\ nodes = <<>>
  /\ edges = <<>>
  /\ pkgIdToIdx = [p \in {} |-> 0]

Step ==
  \/ ReturnEarly
  \/ EnterPackage
  \/ Panic
  \/ SkipDependency
  \/ VisitDependency
  \/ PushEdge
  \/ PushNode
  \/ ReturnGraph

Next == Step \/ Terminating

Spec == Init /\ [][Next]_vars

-------------------------------------------------------------------------------
(* Properties.                                                              *)

Order == INSTANCE BuildOrder
           WITH deps  <- [p \in Packages |-> FollowedDeps(resolve, p)],
                order <- nodes

Frame == [pkg : Packages, next : Nat \ {0},
          dependencies : Seq(Nat), buildDependencies : Seq(Nat)]

NodeEdges == [dependencies : Seq(Nat), buildDependencies : Seq(Nat)]

(* Every variable holds a value of its Rust type, and an activation in its  *)
(* loop is on the stack.                                                    *)
TypeOK ==
  /\ op \in {"call", "loop", "return", "done", "panic"}
  /\ callee \in Packages
  /\ result \in Nat
  /\ stack \in Seq(Frame)
  /\ op = "loop" => stack # <<>>
  /\ nodes \in Seq(Packages)
  /\ edges \in Seq(NodeEdges)
  /\ pkgIdToIdx \in [DOMAIN pkgIdToIdx -> Nat]
  /\ DOMAIN pkgIdToIdx \subseteq Packages

(* An edge leads to a node that precedes its own, whatever other packages   *)
(* the recursion was in the middle of when it handed out the index: the     *)
(* promise "U's index is guaranteed to be smaller than T's", on which       *)
(* build_package relies to find the derivations of the dependencies built.  *)
DependenciesPrecede ==
  \A n \in DOMAIN edges :
    \A i \in ToSet(edges[n].dependencies) \cup ToSet(edges[n].buildDependencies) :
      i < n - 1

(* `idxs` are the edges of one kind that the first `count` of the           *)
(* dependencies ds give among the nodes ns: in the order of ds, one for     *)
(* each followed dependency of the kind, to the node of its package.        *)
EdgesOf(ds, ns, idxs, kind, count) ==
  \E at \in [DOMAIN idxs -> 1..count] :
    /\ \A j, k \in DOMAIN idxs : j < k => at[j] < at[k]
    /\ \A i \in 1..count :
         Followed(ds[i]) /\ ds[i].kind = kind <=> \E k \in DOMAIN idxs : at[k] = i
    /\ \A k \in DOMAIN idxs : ns[idxs[k] + 1] = ds[at[k]].pkg

(* The edges of a node are the followed dependencies of its package, each   *)
(* under its kind and in the order of the resolve, although the indices     *)
(* were returned by other activations while this one was suspended.         *)
EdgesMatchResolve ==
  /\ DOMAIN edges = DOMAIN nodes
  /\ \A n \in DOMAIN nodes :
       LET ds == DepsOf(nodes[n])
       IN  /\ EdgesOf(ds, nodes, edges[n].dependencies, "normal", Len(ds))
           /\ EdgesOf(ds, nodes, edges[n].buildDependencies, "build", Len(ds))

(* "Each node maps 1:1 to a specific Cargo Package", also for a package     *)
(* that several others depend on, by one kind or by both.                   *)
OneNodePerPackage ==
  /\ \A m, n \in DOMAIN nodes : nodes[m] = nodes[n] => m = n
  /\ DOMAIN pkgIdToIdx = ToSet(nodes)
  /\ \A n \in DOMAIN nodes : pkgIdToIdx[nodes[n]] = n - 1

(* The finished graph has the packages the root needs and no other, with    *)
(* "the root of the build graph always the last node in the vector".        *)
GraphOfRoot ==
  op = "done" => /\ Last(nodes) = Root
                 /\ ToSet(nodes) = Order!Needed

(* The node vector grows as BuildOrder says: one package at a time, needed, *)
(* new and after all of its dependencies.                                   *)
ImplementsBuildOrder == Order!Spec

-------------------------------------------------------------------------------
(* The inductive invariant behind these properties.                         *)

(* `frame` is suspended in a call for package p.                            *)
Suspended(frame, p) ==
  /\ ~Exhausted(frame)
  /\ Followed(CurrentDep(frame))
  /\ CurrentDep(frame).pkg = p

(* Each activation was called by the one below it, the first for the root;  *)
(* a call or a return in progress belongs to the top one.                   *)
StackLinked ==
  /\ \A i \in 1..(Len(stack) - 1) : Suspended(stack[i], stack[i + 1].pkg)
  /\ stack # <<>> => stack[1].pkg = Root
  /\ op = "call" => IF stack = <<>> THEN callee = Root /\ nodes = <<>>
                                    ELSE Suspended(Last(stack), callee)
  /\ op = "return" =>
       /\ result + 1 \in DOMAIN nodes
       /\ IF stack = <<>>
          THEN result + 1 = Len(nodes) /\ nodes[result + 1] = Root
          ELSE Suspended(Last(stack), nodes[result + 1])
  /\ op = "done" => nodes # <<>> /\ Last(nodes) = Root

(* A package with an activation has no node yet, and has only that one.     *)
OpenOnce ==
  /\ \A i \in DOMAIN stack : stack[i].pkg \notin DOMAIN pkgIdToIdx
  /\ \A i, j \in DOMAIN stack : stack[i].pkg = stack[j].pkg => i = j

(* The edges of one kind lead to the first `bound` of the nodes only.       *)
Covers(ds, ns, idxs, bound, kind, count) ==
  /\ \A k \in DOMAIN idxs : idxs[k] < bound
  /\ EdgesOf(ds, ns, idxs, kind, count)

(* `frame`, whose package has the dependencies ds, has collected exactly    *)
(* the edges of the part of its loop it has done; the n-th node, with edges *)
(* e, has those of the whole loop, all of them to nodes before it.          *)
Collected(ds, ns, frame) ==
  /\ frame.next <= Len(ds) + 1
  /\ Covers(ds, ns, frame.dependencies, Len(ns), "normal", frame.next - 1)
  /\ Covers(ds, ns, frame.buildDependencies, Len(ns), "build", frame.next - 1)

Complete(ds, ns, e, n) ==
  /\ Covers(ds, ns, e.dependencies, n - 1, "normal", Len(ds))
  /\ Covers(ds, ns, e.buildDependencies, n - 1, "build", Len(ds))

EdgesCollected ==
  /\ \A i \in DOMAIN stack : Collected(DepsOf(stack[i].pkg), nodes, stack[i])
  /\ Len(edges) = Len(nodes)
  /\ \A n \in DOMAIN nodes : Complete(DepsOf(nodes[n]), nodes, edges[n], n)

(* Nothing is entered that the root does not need.                          *)
OnlyNeeded ==
  /\ op = "call" => callee \in Order!Needed
  /\ \A i \in DOMAIN stack : stack[i].pkg \in Order!Needed
  /\ \A n \in DOMAIN nodes : nodes[n] \in Order!Needed

(* The resolve is one of those given, from the first state on.              *)
ResolveGiven == resolve \in Resolves

(* Together they are inductive, for a given resolve: what the proofs carry. *)
Inv ==
  /\ TypeOK
  /\ StackLinked
  /\ OpenOnce
  /\ OneNodePerPackage
  /\ EdgesCollected
  /\ OnlyNeeded

===============================================================================
