---------------------------- MODULE BuildCallProofs ----------------------------
(***************************************************************************)
(* Proofs about BuildCall: the two parts of a call, each proved correct on *)
(* its own, are correct together, and what they compute is what Cargo      *)
(* resolved.                                                               *)
(***************************************************************************)
EXTENDS BuildCall, BuildGraphProofs

(* The proofs about the loop, for the graph that was built.                 *)
Walk == INSTANCE BuildPackageProofs
          WITH Graphs <- {g \in Seq(Node) : IsBuildGraph(g)},
               graph  <- BuiltGraph,
               op     <- loopOp,
               result <- returned

-------------------------------------------------------------------------------
(* The loop of BuildCall is the one of those proofs.                        *)

LEMMA WalkGraphs == Walk!GraphsAssumption
BY DEF Walk!GraphsAssumption, IsBuildGraph, Walk!IsBuildGraph, DirectDeps, Walk!DirectDeps,
       Node, Walk!Node, ToSet, Walk!ToSet

LEMMA SameInv == Walk!Inv <=> Loop!Inv
BY DEF Walk!Inv, Walk!TypeOK, Walk!LoopPosition, Walk!MadeSoFar, Walk!LibrariesInOrder,
       Walk!Aligned, Walk!DepsEvaluated, Walk!ContentsRight, Walk!ResultLast,
       Walk!PanicsForPackage,
       Loop!Inv, Loop!TypeOK, Loop!LoopPosition, Loop!MadeSoFar, Loop!LibrariesInOrder,
       Loop!Aligned, Loop!DepsEvaluated, Loop!ContentsRight, Loop!ResultLast,
       Loop!PanicsForPackage,
       Walk!Panics, Walk!RootIdx, Walk!Drvs, Walk!InLoop, Walk!Drv, Walk!OwnBuildScript,
       Walk!OwnLibrary, Walk!CurrentNode, Walk!InRange, Walk!LibrariesAt, Walk!LibraryAt,
       Walk!Linkable, Walk!NeededBy,
       Loop!Panics, Loop!RootIdx, Loop!Drvs, Loop!InLoop, Loop!Drv, Loop!OwnBuildScript,
       Loop!OwnLibrary, Loop!CurrentNode, Loop!InRange, Loop!LibrariesAt, Loop!LibraryAt,
       Loop!Linkable, Loop!NeededBy,
       Walk!DirectDeps, DirectDeps, Loop!DirectDeps, Walk!ToSet, Loop!ToSet, ToSet,
       Walk!Last, Loop!Last, Last

LEMMA SameNext ==
  [Loop!MakeDeps \/ Loop!MakeBuildScript \/ Loop!MakeLibrary \/ Loop!MakeBinaries
     \/ Loop!Fail \/ Loop!Panic \/ Loop!Return]_loopVars /\ UNCHANGED BuiltGraph
  => [Walk!Next]_(Walk!vars)
BY DEF Walk!Next, Walk!vars, loopVars,
       Walk!MakeDeps, Walk!MakeBuildScript, Walk!MakeLibrary, Walk!MakeBinaries, Walk!Fail,
       Walk!Panic, Walk!Return, Walk!MakeDepsForcing, Walk!EndNode, Walk!MakeTarget,
       Walk!Target, Walk!ExternDeps, Walk!ExternsUsable, Walk!Make, Walk!DepsDerivation,
       Walk!CompileDerivation, Walk!RootIdx, Walk!Drv, Walk!OwnBuildScript,
       Walk!OwnLibrary, Walk!CurrentNode, Walk!InRange, Walk!LibrariesAt, Walk!LibraryAt,
       Walk!DirectDeps, DirectDeps, Loop!DirectDeps,
       Loop!MakeDeps, Loop!MakeBuildScript, Loop!MakeLibrary, Loop!MakeBinaries, Loop!Fail,
       Loop!Panic, Loop!Return, Loop!MakeDepsForcing, Loop!EndNode, Loop!MakeTarget,
       Loop!Target, Loop!ExternDeps, Loop!ExternsUsable, Loop!Make, Loop!DepsDerivation,
       Loop!CompileDerivation, Loop!RootIdx, Loop!Drv, Loop!OwnBuildScript,
       Loop!OwnLibrary, Loop!CurrentNode, Loop!InRange, Loop!LibrariesAt, Loop!LibraryAt,
       Walk!ToSet, Loop!ToSet, ToSet, Walk!Last, Loop!Last, Last

LEMMA SameExterns == Walk!ExternsOfEdges <=> Loop!ExternsOfEdges
BY DEF Walk!ExternsOfEdges, Loop!ExternsOfEdges

(* The first state of the loop satisfies its invariant, in any state of the *)
(* call.                                                                    *)
LEMMA WalkInit == Walk!Init => Walk!Inv
BY WalkGraphs, Walk!InitInv

LEMMA WalkInitLater == Walk!Init' => Walk!Inv'
BY WalkInit, PTL

LEMMA WalkExterns == Walk!Init => Walk!ExternsOfEdges
BY WalkGraphs, Walk!ExternsInit

LEMMA WalkExternsLater == Walk!Init' => Walk!ExternsOfEdges'
BY WalkExterns, PTL

LEMMA SameLater == (Walk!Inv' <=> Loop!Inv') /\ (Walk!ExternsOfEdges' <=> Loop!ExternsOfEdges')
BY SameInv, SameExterns, PTL

(* A step of the loop keeps its invariant.                                  *)
LEMMA WalkStep ==
  ASSUME IsBuildGraph(BuiltGraph), BuiltGraph \in Seq(Node), Walk!Inv, Walk!ExternsOfEdges,
         [Walk!Next]_(Walk!vars)
  PROVE  Walk!Inv' /\ Walk!ExternsOfEdges'
<1>1. BuiltGraph \in {g \in Seq(Node) : IsBuildGraph(g)}
  OBVIOUS
<1>2. Walk!Inv'
  BY <1>1, WalkGraphs, Walk!NextInv
<1>3. Walk!ExternsOfEdges'
  BY <1>1, WalkGraphs, Walk!ExternsStep
<1> QED
  BY <1>2, <1>3

-------------------------------------------------------------------------------
(* The two parts together.                                                  *)

(* What was built can be walked.                                            *)
LEMMA GraphBuilt ==
  ASSUME ResolveGiven, Inv, op = "done", targets \in Manifests
  PROVE  /\ BuiltGraph \in Seq(Node) /\ IsBuildGraph(BuiltGraph)
         /\ EdgesMatchResolve /\ GraphOfRoot /\ DependenciesPrecede
<1>1. DependenciesPrecede /\ EdgesMatchResolve /\ GraphOfRoot
  BY EdgesRight, RootLaidLast
<1>2. HandedOverInv
  BY <1>1, FinishedGraph DEF Inv
<1>3. targets \in [Packages -> Targets]
  BY ManifestsAssumption
<1>4. IsBuildGraph(GraphWith(targets))
  BY <1>2, <1>3 DEF HandedOverInv
<1>5. GraphWith(targets) = BuiltGraph
  BY DEF GraphWith, BuiltGraph
<1> QED
  BY <1>1, <1>4, <1>5 DEF IsBuildGraph

(* A panic while packages are inserted is over one of them.                 *)
LEMMA PanicOfNeededStep ==
  ASSUME ResolveGiven, Inv, PanicOfNeeded, [Next]_vars
  PROVE  PanicOfNeeded'
<1>1. resolve' = resolve /\ Order!Needed' = Order!Needed
  BY ResolveStep, NeededStays
<1>2. CASE Panic
  <2>1. CASE op = "call" /\ resolve.status[callee] = "missing"
    BY <1>1, <2>1 DEF PanicOfNeeded, Inv, OnlyNeeded
  <2>2. CASE op = "loop" /\ resolve.status[Last(stack).pkg] \in Unusable
    <3>1. stack # <<>> /\ Last(stack) = stack[Len(stack)] /\ Len(stack) \in DOMAIN stack
      BY <2>2, Indices DEF Inv, TypeOK
    <3>2. Last(stack).pkg \in Order!Needed
      BY <3>1 DEF Inv, OnlyNeeded
    <3> QED
      BY <1>1, <2>2, <3>2 DEF PanicOfNeeded, Unusable
  <2> QED
    BY <1>2, <2>1, <2>2 DEF Panic
<1>3. CASE op' = op
  BY <1>1, <1>3 DEF PanicOfNeeded
<1>4. CASE op' # "panic"
  BY <1>4 DEF PanicOfNeeded
<1> QED
  BY <1>2, <1>3, <1>4
  DEF Next, Step, Terminating, ReturnEarly, EnterPackage, SkipDependency, VisitDependency,
      PushEdge, PushNode, ReturnGraph, vars

(* CallInv, of the resolve and the manifests that were given.               *)
WholeInv == ResolveGiven /\ targets \in Manifests /\ CallInv

LEMMA WholeInvInit == CallInit => WholeInv
<1> SUFFICES ASSUME CallInit PROVE WholeInv
  OBVIOUS
<1>1. ResolveGiven /\ Inv
  BY InvInit DEF CallInit, Init, ResolveGiven
<1>2. op = "call" /\ loopOp = "waiting"
  BY DEF CallInit, Init
<1> QED
  BY <1>1, <1>2 DEF CallInit, WholeInv, CallInv, PanicOfNeeded, LoopWaits

(* While packages are inserted the loop waits.                              *)
LEMMA InsertKeeps ==
  ASSUME WholeInv, Insert
  PROVE  WholeInv'
<1>1. ResolveGiven /\ Inv /\ PanicOfNeeded /\ LoopWaits /\ targets \in Manifests
  BY DEF WholeInv, CallInv
<1>2. [Next]_vars /\ UNCHANGED <<targets, loopVars>>
  BY DEF Insert, Next
<1>3. ResolveGiven' /\ Inv' /\ PanicOfNeeded'
  BY <1>1, <1>2, ResolveStep, InvStep, PanicOfNeededStep
<1>4. op # "done"
  BY DEF Insert, Step, ReturnEarly, EnterPackage, Panic, SkipDependency, VisitDependency,
         PushEdge, PushNode, ReturnGraph
<1>5. loopOp = "waiting" /\ loopOp' = "waiting" /\ LoopWaits'
  BY <1>1, <1>2, <1>4 DEF LoopWaits, loopVars
<1> QED
  BY <1>1, <1>2, <1>3, <1>5 DEF WholeInv, CallInv

(* The loop starts on a finished graph.                                     *)
LEMMA StartLoopKeeps ==
  ASSUME WholeInv, StartLoop
  PROVE  WholeInv'
<1>1. /\ ResolveGiven /\ Inv /\ PanicOfNeeded /\ LoopWaits /\ targets \in Manifests
      /\ op = "done" /\ loopOp = "waiting"
  BY DEF WholeInv, CallInv, StartLoop
<1>2. /\ vars' = vars /\ targets' = targets /\ loopOp' = "deps" /\ op' = "done"
      /\ nodeIdx' = nodeIdx /\ libraryDerivations' = libraryDerivations
      /\ derivations' = derivations /\ forced' = forced /\ returned' = returned
  BY <1>1 DEF StartLoop, insertVars, vars
<1>3. ResolveGiven' /\ Inv' /\ PanicOfNeeded'
  BY <1>1, <1>2, ResolveStep, InvStep, PanicOfNeededStep
<1>4. LoopWaits'
  BY <1>2 DEF LoopWaits
<1>5. BuiltGraph' = BuiltGraph
  BY <1>2 DEF BuiltGraph, vars
<1>6. Walk!Init'
  BY <1>1, <1>2, <1>5, GraphBuilt DEF Walk!Init, LoopWaits, Walk!IsBuildGraph, Walk!Node,
     Walk!DirectDeps, Walk!ToSet, ToSet, IsBuildGraph, Node, DirectDeps
<1>7. Walk!Inv' /\ Walk!ExternsOfEdges'
  BY <1>6, WalkInitLater, WalkExternsLater
<1> QED
  BY <1>1, <1>2, <1>3, <1>4, <1>7, SameLater DEF WholeInv, CallInv

(* The loop goes on over the same graph.                                    *)
LEMMA BuildKeeps ==
  ASSUME WholeInv, Build
  PROVE  WholeInv'
<1>1. /\ ResolveGiven /\ Inv /\ PanicOfNeeded /\ LoopWaits /\ targets \in Manifests
      /\ vars' = vars /\ targets' = targets
  BY DEF WholeInv, CallInv, Build, insertVars
<1>2. loopOp # "waiting" /\ loopOp' # "waiting"
  BY DEF Build, Loop!MakeDeps, Loop!MakeDepsForcing, Loop!MakeBuildScript, Loop!MakeLibrary,
         Loop!MakeBinaries, Loop!EndNode, Loop!Fail, Loop!Panic, Loop!Return
<1>3. op = "done" /\ op' = op
  BY <1>1, <1>2 DEF LoopWaits, vars
<1>4. ResolveGiven' /\ Inv' /\ PanicOfNeeded'
  BY <1>1, ResolveStep, InvStep, PanicOfNeededStep
<1>5. LoopWaits'
  BY <1>2, <1>3 DEF LoopWaits
<1>6. BuiltGraph' = BuiltGraph
  BY <1>1 DEF BuiltGraph, vars
<1>7. [Walk!Next]_(Walk!vars)
  BY <1>6, SameNext DEF Build
<1>8. Walk!Inv /\ Walk!ExternsOfEdges
  BY <1>2, SameInv, SameExterns DEF WholeInv, CallInv
<1>9. Walk!Inv' /\ Walk!ExternsOfEdges'
  BY <1>1, <1>3, <1>7, <1>8, GraphBuilt, WalkStep
<1> QED
  BY <1>1, <1>4, <1>5, <1>9, SameLater DEF WholeInv, CallInv

LEMMA WholeInvStays ==
  ASSUME WholeInv, UNCHANGED callVars
  PROVE  WholeInv'
<1>1. /\ ResolveGiven /\ Inv /\ PanicOfNeeded /\ LoopWaits /\ targets \in Manifests
      /\ vars' = vars /\ targets' = targets /\ loopVars' = loopVars
  BY DEF WholeInv, CallInv, callVars, insertVars
<1>2. ResolveGiven' /\ Inv' /\ PanicOfNeeded'
  BY <1>1, ResolveStep, InvStep, PanicOfNeededStep
<1>3. op' = op /\ loopOp' = loopOp /\ LoopWaits'
  BY <1>1 DEF LoopWaits, vars, loopVars
<1>4. CASE loopOp = "waiting"
  BY <1>1, <1>2, <1>3, <1>4 DEF WholeInv, CallInv
<1>5. CASE loopOp # "waiting"
  <2>1. op = "done"
    BY <1>1, <1>5 DEF LoopWaits
  <2>2. BuiltGraph' = BuiltGraph
    BY <1>1 DEF BuiltGraph, vars
  <2>3. [Walk!Next]_(Walk!vars)
    BY <1>1, <2>2, SameNext
  <2>4. Walk!Inv' /\ Walk!ExternsOfEdges'
    BY <1>1, <1>5, <2>1, <2>3, GraphBuilt, WalkStep, SameInv, SameExterns DEF WholeInv, CallInv
  <2> QED
    BY <1>1, <1>2, <1>3, <2>4, SameLater DEF WholeInv, CallInv
<1> QED
  BY <1>4, <1>5

LEMMA WholeInvariance == CallSpec => []WholeInv
<1>1. WholeInv /\ [CallNext]_callVars => WholeInv'
  BY InsertKeeps, StartLoopKeeps, BuildKeeps, WholeInvStays
  DEF CallNext, CallStep, CallTerminating
<1> QED
  BY <1>1, WholeInvInit, PTL DEF CallSpec

(* The invariants of both parts hold in every state of the call.            *)
THEOREM CallInvariance == CallSpec => []CallInv
<1>1. WholeInv => CallInv
  BY DEF WholeInv
<1> QED
  BY <1>1, WholeInvariance, PTL

(* A call inserts packages as BuildGraph does, whatever the loop does later:*)
(* all that is proved of BuildGraph holds of it.                            *)
THEOREM CallInsertion == CallSpec => Spec
<1>1. CallInit => Init
  BY DEF CallInit
<1>2. [CallNext]_callVars => [Next]_vars
  BY DEF CallNext, CallStep, CallTerminating, Insert, StartLoop, Build, insertVars, callVars, Next
<1> QED
  BY <1>1, <1>2, PTL DEF CallSpec, Spec

-------------------------------------------------------------------------------
(* From indices back to packages.                                           *)

(* The state of a call whose loop has started, named by the facts about it. *)
LEMMA LoopFacts ==
  ASSUME WholeInv, loopOp # "waiting"
  PROVE  /\ op = "done"
         /\ BuiltGraph \in Seq(Node) /\ IsBuildGraph(BuiltGraph)
         /\ EdgesMatchResolve /\ GraphOfRoot /\ DependenciesPrecede /\ OneNodePerPackage
         /\ Loop!Inv /\ Loop!ExternsOfEdges /\ Walk!Inv
<1>1. op = "done"
  BY DEF WholeInv, CallInv, LoopWaits
<1>2. OneNodePerPackage
  BY DEF WholeInv, CallInv, Inv
<1> QED
  BY <1>1, <1>2, GraphBuilt, SameInv DEF WholeInv, CallInv

LEMMA GraphByIndex ==
  ASSUME WholeInv, loopOp # "waiting"
  PROVE  /\ Loop!RootIdx \in Nat /\ Loop!RootIdx + 1 = Len(nodes)
         /\ DOMAIN nodes = 1..(Loop!RootIdx + 1) /\ DOMAIN edges = DOMAIN nodes
         /\ nodes[Loop!RootIdx + 1] = Root
         /\ \A n \in DOMAIN nodes :
              /\ nodes[n] \in Packages
              /\ edges[n] \in NodeEdges
              /\ BuiltGraph[n] \in Node
              /\ BuiltGraph[n].dependencies = edges[n].dependencies
              /\ BuiltGraph[n].buildDependencies = edges[n].buildDependencies
              /\ BuiltGraph[n].library = targets[nodes[n]].library
<1>1. /\ op = "done" /\ BuiltGraph \in Seq(Node) /\ BuiltGraph # <<>>
      /\ EdgesMatchResolve /\ GraphOfRoot
  BY LoopFacts DEF IsBuildGraph
<1>2. /\ TypeOK /\ Len(nodes) \in Nat /\ DOMAIN nodes = 1..Len(nodes)
      /\ edges \in Seq(NodeEdges)
      /\ \A n \in 1..Len(nodes) : nodes[n] \in Packages
  BY Indices DEF WholeInv, CallInv, Inv, TypeOK
<1>3. DOMAIN edges = DOMAIN nodes
  BY <1>1 DEF EdgesMatchResolve
<1>4. DOMAIN BuiltGraph = DOMAIN nodes
  BY DEF BuiltGraph
<1>5. Len(BuiltGraph) = Len(nodes) /\ Len(nodes) # 0
  BY <1>1, <1>2, <1>4
<1>6. Loop!RootIdx \in Nat /\ Loop!RootIdx + 1 = Len(nodes)
  BY <1>2, <1>5 DEF Loop!RootIdx
<1>7. nodes[Len(nodes)] = Root
  BY <1>1 DEF GraphOfRoot, Last
<1>8. ASSUME NEW n \in DOMAIN nodes
      PROVE  /\ nodes[n] \in Packages /\ edges[n] \in NodeEdges /\ BuiltGraph[n] \in Node
             /\ BuiltGraph[n].dependencies = edges[n].dependencies
             /\ BuiltGraph[n].buildDependencies = edges[n].buildDependencies
             /\ BuiltGraph[n].library = targets[nodes[n]].library
  <2>1. nodes[n] \in Packages /\ edges[n] \in NodeEdges
    BY <1>2, <1>3
  <2>2. BuiltGraph[n] \in Node
    BY <1>1, <1>4
  <2> QED
    BY <2>1, <2>2 DEF BuiltGraph, NodeWith
<1> QED
  BY <1>2, <1>3, <1>6, <1>7, <1>8

(* Every element of one of two sequences put together is in either.         *)
LEMMA DirectDepsBoth ==
  ASSUME NEW node \in Node
  PROVE  ToSet(DirectDeps(node)) = ToSet(node.dependencies) \cup ToSet(node.buildDependencies)
<1>1. /\ node.buildDependencies \in Seq(Nat) /\ node.dependencies \in Seq(Nat)
  BY DEF Node
<1>2. ToSet(DirectDeps(node)) \subseteq ToSet(node.dependencies) \cup ToSet(node.buildDependencies)
  BY DirectDepsOf
<1> DEFINE b == node.buildDependencies
           n == node.dependencies
<1>3. b \in Seq(Nat) /\ n \in Seq(Nat) /\ DirectDeps(node) = b \o n
  BY <1>1 DEF DirectDeps
<1> HIDE DEF b, n
<1>4. ASSUME NEW k \in DOMAIN b PROVE b[k] \in ToSet(b \o n)
  <2>1. k \in DOMAIN (b \o n) /\ (b \o n)[k] = b[k]
    BY <1>3
  <2> QED
    BY <2>1 DEF ToSet
<1>5. ASSUME NEW k \in DOMAIN n PROVE n[k] \in ToSet(b \o n)
  <2>1. k + Len(b) \in DOMAIN (b \o n) /\ (b \o n)[k + Len(b)] = n[k]
    BY <1>3
  <2> QED
    BY <2>1 DEF ToSet
<1>6. ToSet(b) \subseteq ToSet(b \o n) /\ ToSet(n) \subseteq ToSet(b \o n)
  BY <1>4, <1>5 DEF ToSet
<1> QED
  BY <1>2, <1>3, <1>6 DEF b, n

(* The packages of the followed dependencies of a kind, among ds.           *)
OfKind(ds, kind) ==
  {ds[k].pkg : k \in {i \in 1..Len(ds) : Followed(ds[i]) /\ ds[i].kind = kind}}

(* Those are the packages that edges of the kind lead to.                   *)
LEMMA EdgePackages ==
  ASSUME NEW ds, Len(ds) \in Nat, NEW idxs, NEW kind,
         EdgesOf(ds, nodes, idxs, kind, Len(ds))
  PROVE  {PackageOf(d) : d \in ToSet(idxs)} = OfKind(ds, kind)
<1>1. PICK at \in [DOMAIN idxs -> 1..Len(ds)] :
        /\ \A i \in 1..Len(ds) :
             Followed(ds[i]) /\ ds[i].kind = kind <=> \E k \in DOMAIN idxs : at[k] = i
        /\ \A k \in DOMAIN idxs : nodes[idxs[k] + 1] = ds[at[k]].pkg
  BY DEF EdgesOf
<1>2. ASSUME NEW k \in DOMAIN idxs
      PROVE  /\ at[k] \in 1..Len(ds) /\ Followed(ds[at[k]]) /\ ds[at[k]].kind = kind
             /\ PackageOf(idxs[k]) = ds[at[k]].pkg
  BY <1>1 DEF PackageOf
<1>3. ASSUME NEW i \in 1..Len(ds), Followed(ds[i]), ds[i].kind = kind
      PROVE  \E k \in DOMAIN idxs : PackageOf(idxs[k]) = ds[i].pkg
  BY <1>1, <1>3 DEF PackageOf
<1> QED
  BY <1>2, <1>3 DEF ToSet, OfKind

(* A node's edges lead to the packages its package depends on.              *)
LEMMA PackagesOfEdges ==
  ASSUME WholeInv, loopOp # "waiting", NEW n \in DOMAIN nodes
  PROVE  {PackageOf(d) : d \in ToSet(DirectDeps(BuiltGraph[n]))} = FollowedDeps(resolve, nodes[n])
<1> DEFINE ds == DepsOf(nodes[n])
<1>1. /\ nodes[n] \in Packages /\ BuiltGraph[n] \in Node
      /\ BuiltGraph[n].dependencies = edges[n].dependencies
      /\ BuiltGraph[n].buildDependencies = edges[n].buildDependencies
  BY GraphByIndex
<1>2. /\ Len(ds) \in Nat /\ DOMAIN ds = 1..Len(ds)
      /\ \A i \in 1..Len(ds) : ds[i] \in Dependency
  BY <1>1, DepsTyped DEF WholeInv, CallInv
<1>3. /\ EdgesOf(ds, nodes, edges[n].dependencies, "normal", Len(ds))
      /\ EdgesOf(ds, nodes, edges[n].buildDependencies, "build", Len(ds))
  BY LoopFacts DEF EdgesMatchResolve
<1> HIDE DEF ds
<1>4. /\ {PackageOf(d) : d \in ToSet(edges[n].dependencies)} = OfKind(ds, "normal")
      /\ {PackageOf(d) : d \in ToSet(edges[n].buildDependencies)} = OfKind(ds, "build")
  BY <1>2, <1>3, EdgePackages
<1>5. FollowedDeps(resolve, nodes[n]) = OfKind(ds, "normal") \cup OfKind(ds, "build")
  <2>1. FollowedDeps(resolve, nodes[n]) = {ds[k].pkg : k \in {i \in 1..Len(ds) : Followed(ds[i])}}
    BY <1>2 DEF FollowedDeps, DepsOf, ds
  <2>2. \A i \in 1..Len(ds) : Followed(ds[i]) => ds[i].kind = "normal" \/ ds[i].kind = "build"
    BY <1>2 DEF Followed, Dependency, DepKind
  <2> QED
    BY <2>1, <2>2 DEF OfKind
<1> QED
  BY <1>1, <1>4, <1>5, DirectDepsBoth

(* If the packages others depend on have libraries, so have the nodes.      *)
LEMMA NodesLinkable ==
  ASSUME WholeInv, loopOp # "waiting", DependenciesLinkable
  PROVE  Loop!Linkable
<1> SUFFICES ASSUME NEW n \in 1..Loop!RootIdx
             PROVE  BuiltGraph[n].library
  BY DEF Loop!Linkable
<1>1. /\ Loop!RootIdx \in Nat /\ DOMAIN nodes = 1..(Loop!RootIdx + 1)
      /\ nodes[Loop!RootIdx + 1] = Root
      /\ BuiltGraph[n].library = targets[nodes[n]].library
  BY GraphByIndex
<1>2. n \in DOMAIN nodes /\ Loop!RootIdx + 1 \in DOMAIN nodes /\ n # Loop!RootIdx + 1
  BY <1>1
<1>3. nodes[n] # Root
  BY <1>1, <1>2, LoopFacts DEF OneNodePerPackage
<1>4. nodes[n] \in Order!Needed
  BY <1>2, LoopFacts DEF GraphOfRoot, ToSet
<1> QED
  BY <1>1, <1>3, <1>4 DEF DependenciesLinkable

(* A node's edges lead to nodes before it.                                  *)
LEMMA NodesByIndex ==
  ASSUME WholeInv, loopOp # "waiting", NEW j \in 0..Loop!RootIdx
  PROVE  ToSet(DirectDeps(BuiltGraph[j + 1])) \subseteq 0..(j - 1)
<1> SUFFICES ASSUME NEW d \in ToSet(DirectDeps(BuiltGraph[j + 1]))
             PROVE  d \in 0..(j - 1)
  OBVIOUS
<1>1. /\ Loop!RootIdx \in Nat /\ DOMAIN nodes = 1..(Loop!RootIdx + 1) /\ j + 1 \in DOMAIN nodes
      /\ BuiltGraph[j + 1] \in Node
  BY GraphByIndex
<1>2. d < (j + 1) - 1
  BY <1>1, LoopFacts DEF IsBuildGraph, BuiltGraph
<1>3. d \in Nat
  <2>1. /\ BuiltGraph[j + 1].dependencies \in Seq(Nat)
        /\ BuiltGraph[j + 1].buildDependencies \in Seq(Nat)
    BY <1>1 DEF Node
  <2>2. d \in ToSet(BuiltGraph[j + 1].dependencies)
          \cup ToSet(BuiltGraph[j + 1].buildDependencies)
    BY <1>1, DirectDepsBoth
  <2> QED
    BY <2>1, <2>2 DEF ToSet
<1> QED
  BY <1>1, <1>2, <1>3

(* Indices that hold the packages of a closed set are themselves closed,    *)
(* and the other way round: what a node needs is what its package needs.    *)
LEMMA NeededPackages ==
  ASSUME WholeInv, loopOp # "waiting", NEW i \in 0..Loop!RootIdx
  PROVE  {PackageOf(m) : m \in Loop!NeededBy(i)} = NeededFor(PackageOf(i))
<1> DEFINE Deps(j) == ToSet(DirectDeps(BuiltGraph[j + 1]))
           N == 0..Loop!RootIdx
           P == NeededFor(PackageOf(i))
           Q == {PackageOf(m) : m \in Loop!NeededBy(i)}
<1>1. /\ Loop!RootIdx \in Nat /\ DOMAIN nodes = 1..(Loop!RootIdx + 1)
      /\ \A n \in DOMAIN nodes : nodes[n] \in Packages
  BY GraphByIndex
<1>2. \A j \in N : PackageOf(j) \in Packages
  BY <1>1 DEF PackageOf
<1>3. \A j \in N : {PackageOf(d) : d \in Deps(j)} = FollowedDeps(resolve, PackageOf(j))
  <2> SUFFICES ASSUME NEW j \in N
               PROVE  {PackageOf(d) : d \in Deps(j)} = FollowedDeps(resolve, PackageOf(j))
    OBVIOUS
  <2>1. j + 1 \in DOMAIN nodes
    BY <1>1
  <2>2. {PackageOf(d) : d \in ToSet(DirectDeps(BuiltGraph[j + 1]))}
          = FollowedDeps(resolve, nodes[j + 1])
    BY <2>1, PackagesOfEdges
  <2> QED
    BY <2>2 DEF PackageOf
<1>4. \A j \in N : Deps(j) \subseteq N
  <2> SUFFICES ASSUME NEW j \in N PROVE ToSet(DirectDeps(BuiltGraph[j + 1])) \subseteq N
    OBVIOUS
  <2>1. ToSet(DirectDeps(BuiltGraph[j + 1])) \subseteq 0..(j - 1)
    BY NodesByIndex
  <2>2. 0..(j - 1) \subseteq N
    BY <1>1
  <2> QED
    BY <2>1, <2>2
<1>5. Loop!NeededBy(i) =
        {m \in N : \A S \in SUBSET N :
           Deps(i) \subseteq S /\ (\A s \in S : Deps(s) \subseteq S) => m \in S}
  BY DEF Loop!NeededBy, Loop!DirectDeps, Loop!ToSet, ToSet, DirectDeps
<1>6. P = {q \in Packages :
             \A S \in SUBSET Packages :
               FollowedDeps(resolve, PackageOf(i)) \subseteq S
               /\ (\A p \in S : FollowedDeps(resolve, p) \subseteq S) => q \in S}
  BY DEF NeededFor, Order!Closed
<1> HIDE DEF Deps, P
<1>7. ASSUME NEW m \in Loop!NeededBy(i) PROVE PackageOf(m) \in P
  <2> DEFINE S == {j \in N : PackageOf(j) \in P}
  <2>1. FollowedDeps(resolve, PackageOf(i)) \subseteq P
    <3>1. FollowedDeps(resolve, PackageOf(i)) \subseteq Packages
      BY <1>2, <1>3, <1>4
    <3> QED
      BY <1>6, <3>1
  <2>2. \A p \in P : FollowedDeps(resolve, p) \cap Packages \subseteq P
    BY <1>6
  <2>3. Deps(i) \subseteq S
    BY <1>3, <1>4, <2>1
  <2>4. \A s \in S : Deps(s) \subseteq S
    BY <1>2, <1>3, <1>4, <2>2
  <2>5. S \in SUBSET N
    OBVIOUS
  <2> HIDE DEF S
  <2>6. m \in S
    BY <1>5, <2>3, <2>4, <2>5
  <2> QED
    BY <2>6 DEF S
<1>8. ASSUME NEW q \in P PROVE q \in Q
  <2>1. Q \in SUBSET Packages
    BY <1>2, <1>5
  <2>2. Deps(i) \subseteq Loop!NeededBy(i)
    BY <1>4, <1>5
  <2>3. \A m \in Loop!NeededBy(i) : Deps(m) \subseteq Loop!NeededBy(i)
    BY <1>4, <1>5
  <2>4. FollowedDeps(resolve, PackageOf(i)) \subseteq Q
    BY <1>3, <2>2
  <2>5. \A p \in Q : FollowedDeps(resolve, p) \subseteq Q
    <3> SUFFICES ASSUME NEW m \in Loop!NeededBy(i)
                 PROVE  FollowedDeps(resolve, PackageOf(m)) \subseteq Q
      OBVIOUS
    <3>1. m \in N
      BY <1>5
    <3>2. FollowedDeps(resolve, PackageOf(m)) = {PackageOf(d) : d \in Deps(m)}
      BY <1>3, <3>1
    <3>3. \A d \in Deps(m) : PackageOf(d) \in Q
      BY <2>3
    <3> HIDE DEF Q
    <3> QED
      BY <3>2, <3>3
  <2> HIDE DEF Q
  <2> QED
    BY <1>6, <2>1, <2>4, <2>5
<1> QED
  BY <1>7, <1>8 DEF P

(* A node does not need itself.                                             *)
LEMMA NeededBefore ==
  ASSUME WholeInv, loopOp # "waiting", NEW i \in 0..Loop!RootIdx
  PROVE  Loop!NeededBy(i) \subseteq 0..(i - 1)
<1> DEFINE S == 0..(i - 1)
<1>1. Loop!RootIdx \in Nat
  BY GraphByIndex
<1>2. S \in SUBSET (0..Loop!RootIdx)
  BY <1>1
<1>3. ToSet(DirectDeps(BuiltGraph[i + 1])) \subseteq S
  BY NodesByIndex
<1>4. ASSUME NEW s \in S PROVE ToSet(DirectDeps(BuiltGraph[s + 1])) \subseteq S
  <2>1. s \in 0..Loop!RootIdx
    BY <1>1
  <2>2. ToSet(DirectDeps(BuiltGraph[s + 1])) \subseteq 0..(s - 1)
    BY <2>1, NodesByIndex
  <2> QED
    BY <1>1, <2>2
<1>5. Loop!NeededBy(i) =
        {m \in 0..Loop!RootIdx : \A T \in SUBSET (0..Loop!RootIdx) :
           ToSet(DirectDeps(BuiltGraph[i + 1])) \subseteq T
           /\ (\A s \in T : ToSet(DirectDeps(BuiltGraph[s + 1])) \subseteq T) => m \in T}
  BY DEF Loop!NeededBy, Loop!DirectDeps, Loop!ToSet, ToSet, DirectDeps
<1> HIDE DEF S
<1>6. Loop!NeededBy(i) \subseteq S
  BY <1>2, <1>3, <1>4, <1>5
<1> QED
  BY <1>6 DEF S

(* What the root needs is the root and what is needed for it.               *)
LEMMA RootNeeds ==
  ASSUME WholeInv
  PROVE  Order!Needed = {Root} \cup NeededFor(Root)
<1> DEFINE D(p) == FollowedDeps(resolve, p)
<1>1. \A S \in SUBSET Packages : Order!Closed(S) <=> \A p \in S : D(p) \subseteq S
  BY DEF Order!Closed
<1>2. \A p \in Packages : D(p) \subseteq Packages
  <2>1. ASSUME NEW p \in Packages PROVE D(p) \subseteq Packages
    BY DepsTyped, <2>1 DEF WholeInv, CallInv, FollowedDeps, DepsOf, Dependency
  <2> QED
    BY <2>1
<1> HIDE DEF D
<1>3. NeededFor(Root) =
        {q \in Packages : \A S \in SUBSET Packages : D(Root) \subseteq S /\ Order!Closed(S) => q \in S}
  BY DEF NeededFor, D
<1>4. Order!Needed =
        {q \in Packages : \A S \in SUBSET Packages : Root \in S /\ Order!Closed(S) => q \in S}
  BY DEF Order!Needed
<1>5. ASSUME NEW q \in Order!Needed PROVE q \in {Root} \cup NeededFor(Root)
  <2> DEFINE S == {Root} \cup NeededFor(Root)
  <2>1. S \in SUBSET Packages /\ Root \in S
    BY <1>3, RootAssumption
  <2>2. D(Root) \subseteq NeededFor(Root)
    BY <1>2, <1>3, RootAssumption
  <2>3. \A p \in NeededFor(Root) : D(p) \subseteq NeededFor(Root)
    BY <1>1, <1>2, <1>3
  <2>4. Order!Closed(S)
    BY <1>1, <2>1, <2>2, <2>3
  <2> HIDE DEF S
  <2>5. q \in S
    BY <1>4, <2>1, <2>4
  <2> QED
    BY <2>5 DEF S
<1>6. NeededFor(Root) \subseteq Order!Needed
  BY <1>1, <1>3, <1>4, RootAssumption
<1>7. Root \in Order!Needed
  BY <1>4, RootAssumption
<1> QED
  BY <1>5, <1>6, <1>7

-------------------------------------------------------------------------------
(* The theorems.                                                            *)

(* Every target is compiled against the libraries of its package's own      *)
(* resolved dependencies, in their order.                                   *)
THEOREM ExternsResolved == CallSpec => []ExternsAsResolved
<1>1. ASSUME WholeInv PROVE ExternsAsResolved
  <2> SUFFICES ASSUME DependenciesLinkable, NEW drv \in DOMAIN derivations
               PROVE  LET ds      == DepsOf(PackageOf(drv.node))
                          externs == derivations[drv].externs
                      IN  /\ drv.type # "deps" =>
                               EdgesOf(ds, nodes, [k \in DOMAIN externs |-> externs[k].node],
                                       KindFor(drv.type), Len(ds))
                          /\ \A k \in DOMAIN externs :
                               externs[k].drv = Loop!Drv("lib", externs[k].node)
    BY DEF ExternsAsResolved
  <2>1. loopOp # "waiting"
    BY <1>1 DEF WholeInv, CallInv, LoopWaits
  <2> DEFINE externs == derivations[drv].externs
             idxs == [k \in DOMAIN externs |-> externs[k].node]
             n == drv.node + 1
             ds == DepsOf(nodes[n])
  <2>2. drv \in Loop!Drvs
    BY <1>1, <2>1, LoopFacts DEF Loop!Inv, Loop!TypeOK
  <2>3. /\ drv.type \in {"deps", "build", "lib", "bin"} /\ drv.node \in 0..Loop!RootIdx
        /\ n \in DOMAIN nodes
    BY <1>1, <2>1, <2>2, GraphByIndex DEF Loop!Drvs
  <2>4. /\ EdgesOf(ds, nodes, edges[n].dependencies, "normal", Len(ds))
        /\ EdgesOf(ds, nodes, edges[n].buildDependencies, "build", Len(ds))
    BY <1>1, <2>1, <2>3, LoopFacts DEF EdgesMatchResolve
  <2>5. /\ drv.type = "build" => idxs = edges[n].buildDependencies
        /\ drv.type \in {"lib", "bin"} => idxs = edges[n].dependencies
    <3>1. /\ drv.type = "build" => idxs = BuiltGraph[n].buildDependencies
          /\ drv.type \in {"lib", "bin"} => idxs = BuiltGraph[n].dependencies
      BY <1>1, <2>1, LoopFacts DEF Loop!ExternsOfEdges
    <3> QED
      BY <1>1, <2>1, <2>3, <3>1, GraphByIndex
  <2>6. drv.type # "deps" => EdgesOf(ds, nodes, idxs, KindFor(drv.type), Len(ds))
    BY <2>3, <2>4, <2>5 DEF KindFor
  <2>7. \A k \in DOMAIN externs : externs[k].drv = Loop!Drv("lib", externs[k].node)
    <3>1. \A e \in Loop!ToSet(externs) : e.drv = Loop!Drv("lib", e.node)
      BY <1>1, <2>1, LoopFacts, NodesLinkable DEF Loop!Inv, Loop!ContentsRight
    <3> QED
      BY <3>1 DEF Loop!ToSet
  <2> QED
    BY <2>6, <2>7 DEF PackageOf
<1> QED
  BY <1>1, WholeInvariance, PTL

(* Every target is compiled in a directory with what its package needs.     *)
THEOREM DirectoriesResolved == CallSpec => []DirectoriesAsResolved
<1>1. ASSUME WholeInv PROVE DirectoriesAsResolved
  <2> SUFFICES ASSUME DependenciesLinkable, NEW drv \in DOMAIN derivations
               PROVE  {PackageOf(m) : m \in derivations[drv].dir} = NeededFor(PackageOf(drv.node))
    BY DEF DirectoriesAsResolved
  <2>1. loopOp # "waiting"
    BY <1>1 DEF WholeInv, CallInv, LoopWaits
  <2>2. drv \in Loop!Drvs /\ derivations[drv].dir = Loop!NeededBy(drv.node)
    BY <1>1, <2>1, LoopFacts, NodesLinkable DEF Loop!Inv, Loop!TypeOK, Loop!ContentsRight
  <2>3. drv.node \in 0..Loop!RootIdx
    BY <2>2 DEF Loop!Drvs
  <2> QED
    BY <1>1, <2>1, <2>2, <2>3, NeededPackages
<1> QED
  BY <1>1, WholeInvariance, PTL

(* The call returns what was asked for.                                     *)
THEOREM RequestedReturned == CallSpec => []ReturnsRequestedLibrary
<1>1. ASSUME WholeInv PROVE ReturnsRequestedLibrary
  <2> SUFFICES ASSUME loopOp = "done", DependenciesLinkable, targets[Root].library
               PROVE  \E drv \in DOMAIN derivations :
                        /\ returned = <<drv>>
                        /\ drv.type = "lib" /\ PackageOf(drv.node) = Root
                        /\ {PackageOf(m) : m \in derivations[drv].dir} = Order!Needed \ {Root}
    BY DEF ReturnsRequestedLibrary
  <2> DEFINE drv == Loop!Drv("lib", Loop!RootIdx)
             dir == derivations[drv].dir
  <2>1. loopOp # "waiting"
    OBVIOUS
  <2>2. /\ Loop!RootIdx \in Nat /\ DOMAIN nodes = 1..(Loop!RootIdx + 1)
        /\ nodes[Loop!RootIdx + 1] = Root
        /\ BuiltGraph[Loop!RootIdx + 1].library
    BY <1>1, <2>1, GraphByIndex
  <2>3. Loop!ReturnsRootLibrary
    <3>1. Walk!ReturnsRootLibrary
      <4>1. BuiltGraph \in {g \in Seq(Node) : IsBuildGraph(g)} /\ Walk!Inv
        BY <1>1, <2>1, LoopFacts
      <4> QED
        BY <4>1, WalkGraphs, Walk!LibraryReturned
    <3> QED
      BY <3>1 DEF Walk!ReturnsRootLibrary, Loop!ReturnsRootLibrary, Walk!Linkable, Loop!Linkable,
         Walk!RootIdx, Loop!RootIdx, Walk!Drv, Loop!Drv, Walk!NeededBy, Loop!NeededBy,
         Walk!DirectDeps, Loop!DirectDeps, Walk!ToSet, Loop!ToSet
  <2>4. returned = <<drv>> /\ dir = Loop!NeededBy(Loop!RootIdx)
    BY <1>1, <2>1, <2>2, <2>3, NodesLinkable DEF Loop!ReturnsRootLibrary
  <2>5. drv \in DOMAIN derivations
    <3>1. returned \in Seq(DOMAIN derivations)
      BY <1>1, <2>1, LoopFacts DEF Loop!Inv, Loop!TypeOK
    <3> QED
      BY <2>4, <3>1
  <2>6. drv.type = "lib" /\ drv.node = Loop!RootIdx
    BY DEF Loop!Drv
  <2>7. PackageOf(Loop!RootIdx) = Root
    BY <2>2 DEF PackageOf
  <2>8. {PackageOf(m) : m \in Loop!NeededBy(Loop!RootIdx)} = NeededFor(Root)
    BY <1>1, <2>1, <2>2, <2>7, NeededPackages
  <2>9. Root \notin NeededFor(Root)
    <3> SUFFICES ASSUME NEW m \in Loop!NeededBy(Loop!RootIdx)
                 PROVE  PackageOf(m) # Root
      BY <2>8
    <3>1. m \in 0..(Loop!RootIdx - 1)
      BY <1>1, <2>1, <2>2, NeededBefore
    <3>2. m + 1 \in DOMAIN nodes /\ Loop!RootIdx + 1 \in DOMAIN nodes /\ m + 1 # Loop!RootIdx + 1
      BY <2>2, <3>1
    <3>3. nodes[m + 1] # nodes[Loop!RootIdx + 1]
      BY <1>1, <2>1, <3>2, LoopFacts DEF OneNodePerPackage
    <3> QED
      BY <2>2, <3>3 DEF PackageOf
  <2>10. NeededFor(Root) = Order!Needed \ {Root}
    <3>1. NeededFor(Root) \subseteq Packages
      BY DEF NeededFor
    <3> QED
      BY <1>1, <2>9, <3>1, RootNeeds
  <2> QED
    BY <2>4, <2>5, <2>6, <2>7, <2>8, <2>10
<1> QED
  BY <1>1, WholeInvariance, PTL

(* A panic has a package to blame that the root needs.                      *)
THEOREM PanicsResolved == CallSpec => []PanicsOverNeeded
<1>1. ASSUME WholeInv PROVE PanicsOverNeeded
  <2>1. CASE op = "panic"
    BY <1>1, <2>1 DEF WholeInv, CallInv, PanicOfNeeded, PanicsOverNeeded
  <2>2. CASE loopOp \in Loop!Panics
    <3>1. loopOp # "waiting"
      BY <2>2 DEF Loop!Panics
    <3>2. PICK n \in DOMAIN BuiltGraph :
            ~BuiltGraph[n].library \/ ~BuiltGraph[n].sourceFound
      BY <1>1, <2>2, <3>1, LoopFacts DEF Loop!Inv, Loop!PanicsForPackage
    <3>3. n \in DOMAIN nodes
          /\ (~targets[nodes[n]].library \/ ~targets[nodes[n]].sourceFound)
      BY <1>1, <3>1, <3>2, GraphByIndex DEF BuiltGraph, NodeWith
    <3>4. nodes[n] \in Order!Needed
      BY <1>1, <3>1, <3>3, LoopFacts DEF GraphOfRoot, ToSet
    <3> QED
      BY <3>3, <3>4 DEF PanicsOverNeeded
  <2> QED
    BY <2>1, <2>2 DEF PanicsOverNeeded
<1> QED
  BY <1>1, WholeInvariance, PTL
================================================================================
