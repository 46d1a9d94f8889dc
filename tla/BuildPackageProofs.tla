--------------------------- MODULE BuildPackageProofs ---------------------------
(***************************************************************************)
(* Proofs about BuildPackage, for every set of graphs that satisfies       *)
(* GraphsAssumption.                                                       *)
(***************************************************************************)
EXTENDS BuildPackage, TLAPS

-------------------------------------------------------------------------------
(* The graph.                                                               *)

DepsAt(idx) == ToSet(DirectDeps(graph[idx + 1]))

(* A graph given has nodes, counted from 0 to RootIdx.                      *)
LEMMA GraphFacts ==
  ASSUME graph \in Graphs
  PROVE  /\ graph \in Seq(Node)
         /\ RootIdx \in Nat
         /\ Len(graph) = RootIdx + 1
         /\ DOMAIN graph = 1..(RootIdx + 1)
  <1>1. graph \in Seq(Node) /\ graph # <<>>
    BY GraphsAssumption DEF IsBuildGraph
  <1>2. Len(graph) \in Nat /\ DOMAIN graph = 1..Len(graph)
    BY <1>1
  <1>3. Len(graph) # 0
    BY <1>1
  <1> QED
    BY <1>1, <1>2, <1>3 DEF RootIdx

(* The elements of two sequences put together.                              *)
LEMMA ToSetConcat ==
  ASSUME NEW s \in Seq(Nat), NEW t \in Seq(Nat)
  PROVE  ToSet(s \o t) = ToSet(s) \cup ToSet(t)
  <1>1. ASSUME NEW x \in ToSet(s \o t) PROVE x \in ToSet(s) \cup ToSet(t)
    <2>1. PICK i \in DOMAIN (s \o t) : x = (s \o t)[i]
      BY <1>1 DEF ToSet
    <2>2. CASE i <= Len(s)
      <3>1. i \in DOMAIN s /\ x = s[i]
        BY <2>1, <2>2
      <3> QED
        BY <3>1 DEF ToSet
    <2>3. CASE i > Len(s)
      <3>1. i - Len(s) \in DOMAIN t /\ x = t[i - Len(s)]
        BY <2>1, <2>3
      <3> QED
        BY <3>1 DEF ToSet
    <2> QED
      BY <2>1, <2>2, <2>3
  <1>2. ASSUME NEW x \in ToSet(s) PROVE x \in ToSet(s \o t)
    <2>1. PICK i \in DOMAIN s : x = s[i]
      BY <1>2 DEF ToSet
    <2>2. i \in DOMAIN (s \o t) /\ (s \o t)[i] = x
      BY <2>1
    <2> QED
      BY <2>2 DEF ToSet
  <1>3. ASSUME NEW x \in ToSet(t) PROVE x \in ToSet(s \o t)
    <2>1. PICK i \in DOMAIN t : x = t[i]
      BY <1>3 DEF ToSet
    <2>2. i + Len(s) \in DOMAIN (s \o t) /\ (s \o t)[i + Len(s)] = x
      BY <2>1
    <2> QED
      BY <2>2 DEF ToSet
  <1> QED
    BY <1>1, <1>2, <1>3

(* A node depends on earlier nodes, by edges of either kind.                *)
LEMMA DepsFacts ==
  ASSUME graph \in Graphs, NEW idx \in Nat, idx <= RootIdx
  PROVE  /\ DepsAt(idx) \subseteq 0..(idx - 1)
         /\ DepsAt(idx) \subseteq 0..RootIdx
         /\ ToSet(graph[idx + 1].dependencies) \subseteq DepsAt(idx)
         /\ ToSet(graph[idx + 1].buildDependencies) \subseteq DepsAt(idx)
         /\ graph[idx + 1].dependencies \in Seq(Nat)
         /\ graph[idx + 1].buildDependencies \in Seq(Nat)
         /\ graph[idx + 1].library \in BOOLEAN
  <1>1. idx + 1 \in DOMAIN graph /\ graph[idx + 1] \in Node
    BY GraphFacts
  <1>2. /\ graph[idx + 1].dependencies \in Seq(Nat)
        /\ graph[idx + 1].buildDependencies \in Seq(Nat)
        /\ graph[idx + 1].library \in BOOLEAN
    BY <1>1 DEF Node
  <1>3. DepsAt(idx) = ToSet(graph[idx + 1].buildDependencies)
                        \cup ToSet(graph[idx + 1].dependencies)
    BY <1>2, ToSetConcat DEF DepsAt, DirectDeps
  <1>4. ASSUME NEW i \in DepsAt(idx) PROVE i \in 0..(idx - 1)
    <2>1. i < (idx + 1) - 1
      BY <1>1, <1>4, GraphsAssumption DEF IsBuildGraph, DepsAt
    <2>2. i \in Nat
      BY <1>2, <1>3, <1>4 DEF ToSet
    <2> QED
      BY <2>1, <2>2
  <1>5. RootIdx \in Nat
    BY GraphFacts
  <1>6. 0..(idx - 1) \subseteq 0..RootIdx
    BY <1>5
  <1> QED
    BY <1>2, <1>3, <1>4, <1>6

-------------------------------------------------------------------------------
(* What a node needs.                                                       *)

ClosedNodes(S) == \A s \in S : DepsAt(s) \subseteq S

(* The set in the definition of NeededBy, with its parts named.             *)
LEMMA NeededDef ==
  ASSUME NEW idx
  PROVE  NeededBy(idx) =
           {m \in 0..RootIdx : \A S \in SUBSET (0..RootIdx) :
              DepsAt(idx) \subseteq S /\ ClosedNodes(S) => m \in S}
  BY DEF NeededBy, DepsAt, ClosedNodes

(* It is a set that has the dependencies and is closed; what a dependency   *)
(* needs is in it.                                                          *)
LEMMA NeededClosed ==
  ASSUME graph \in Graphs, NEW idx \in Nat, idx <= RootIdx
  PROVE  /\ NeededBy(idx) \subseteq 0..RootIdx
         /\ DepsAt(idx) \subseteq NeededBy(idx)
         /\ ClosedNodes(NeededBy(idx))
         /\ \A d \in NeededBy(idx) : NeededBy(d) \subseteq NeededBy(idx)
  <1>1. NeededBy(idx) \subseteq 0..RootIdx
    BY NeededDef
  <1>2. DepsAt(idx) \subseteq NeededBy(idx)
    BY DepsFacts, NeededDef
  <1>3. ClosedNodes(NeededBy(idx))
    <2> SUFFICES ASSUME NEW s \in NeededBy(idx), NEW d \in DepsAt(s)
                 PROVE  d \in NeededBy(idx)
      BY DEF ClosedNodes
    <2>1. s \in Nat /\ s <= RootIdx
      BY <1>1, GraphFacts
    <2>2. d \in 0..RootIdx
      BY <2>1, DepsFacts
    <2>3. ASSUME NEW S \in SUBSET (0..RootIdx), DepsAt(idx) \subseteq S, ClosedNodes(S)
          PROVE  d \in S
      <3>1. s \in S
        BY <2>3, NeededDef
      <3> QED
        BY <2>3, <3>1 DEF ClosedNodes
    <2> QED
      BY <2>2, <2>3, NeededDef
  <1>4. ASSUME NEW d \in NeededBy(idx) PROVE NeededBy(d) \subseteq NeededBy(idx)
    <2>1. DepsAt(d) \subseteq NeededBy(idx)
      BY <1>3, <1>4 DEF ClosedNodes
    <2> QED
      BY <1>1, <1>3, <2>1, NeededDef
  <1> QED
    BY <1>1, <1>2, <1>3, <1>4

(* A node needs its dependencies and what they need: how make_deps fills    *)
(* the directory computes the closure, one level at a time.                 *)
LEMMA NeededStep ==
  ASSUME graph \in Graphs, NEW idx \in Nat, idx <= RootIdx
  PROVE  NeededBy(idx) = UNION {{d} \cup NeededBy(d) : d \in DepsAt(idx)}
  <1> DEFINE T == UNION {{d} \cup NeededBy(d) : d \in DepsAt(idx)}
  <1>1. T \subseteq NeededBy(idx)
    BY NeededClosed
  <1>2. T \subseteq 0..RootIdx
    BY <1>1, NeededClosed
  <1>3. DepsAt(idx) \subseteq T
    OBVIOUS
  <1>4. ClosedNodes(T)
    <2> SUFFICES ASSUME NEW s \in T PROVE DepsAt(s) \subseteq T
      BY DEF ClosedNodes
    <2>1. PICK d \in DepsAt(idx) : s \in {d} \cup NeededBy(d)
      OBVIOUS
    <2>2. d \in Nat /\ d <= RootIdx
      BY DepsFacts, GraphFacts
    <2>3. DepsAt(d) \subseteq NeededBy(d) /\ ClosedNodes(NeededBy(d))
      BY <2>2, NeededClosed
    <2>4. DepsAt(s) \subseteq NeededBy(d)
      BY <2>1, <2>3 DEF ClosedNodes
    <2> QED
      BY <2>4
  <1> HIDE DEF T
  <1>5. NeededBy(idx) \subseteq T
    BY <1>2, <1>3, <1>4, NeededDef
  <1>6. NeededBy(idx) = T
    BY <1>1, <1>5
  <1> QED
    BY <1>6 DEF T

-------------------------------------------------------------------------------
(* Steps.                                                                   *)

(* A derivation is added, and no other changes.                             *)
LEMMA MakeFacts ==
  ASSUME NEW drv, NEW contents, Make(drv, contents)
  PROVE  /\ DOMAIN derivations' = DOMAIN derivations \cup {drv}
         /\ derivations'[drv] = contents
         /\ \A d \in DOMAIN derivations \ {drv} : derivations'[d] = derivations[d]
  BY DEF Make

(* What is said of the graph alone stays true.                              *)
LEMMA GraphStays ==
  ASSUME graph' = graph
  PROVE  /\ RootIdx' = RootIdx
         /\ Linkable' = Linkable
         /\ \A idx : NeededBy(idx)' = NeededBy(idx)
         /\ Drvs' = Drvs
  BY DEF RootIdx, Linkable, NeededBy, Drvs

(* If every node that others depend on has a library, then the one at the   *)
(* index of a dependency is that dependency's.                              *)
LEMMA LibraryOfDependency ==
  ASSUME graph \in Graphs, TypeOK, Aligned, nodeIdx <= RootIdx,
         \A k \in 1..nodeIdx : graph[k].library,
         NEW idx \in DepsAt(nodeIdx)
  PROVE  InRange(idx) /\ LibraryAt(idx) = Drv("lib", idx)
  <1>1. nodeIdx \in Nat
    BY GraphFacts DEF TypeOK
  <1>2. idx \in 0..(nodeIdx - 1)
    BY <1>1, DepsFacts
  <1>3. nodeIdx \in 0..nodeIdx /\ idx + 1 \in 1..nodeIdx /\ (idx + 1) - 1 = idx
    BY <1>1, <1>2
  <1>4. idx + 1 \in DOMAIN libraryDerivations
        /\ libraryDerivations[idx + 1] = Drv("lib", (idx + 1) - 1)
    BY <1>3 DEF Aligned
  <1> QED
    BY <1>3, <1>4 DEF InRange, LibraryAt

(* A sequence over a set is one over every larger set.                      *)
LEMMA SeqMono ==
  ASSUME NEW A, NEW B, A \subseteq B, NEW s \in Seq(A)
  PROVE  s \in Seq(B)
  OBVIOUS

(* `op` while the loop runs, and every value it can have.                   *)
Ops == {"deps", "build", "lib", "bin", "return"} \cup {"done", "error"} \cup Panics

(* TypeOK after a step that adds a derivation made of those there are.      *)
LEMMA TypeAfterMake ==
  ASSUME TypeOK, graph' = graph, result' = result,
         NEW drv \in Drvs, NEW contents, Make(drv, contents),
         contents.inputs \subseteq DOMAIN derivations,
         libraryDerivations' \in Seq(DOMAIN derivations \cup {drv}),
         forced' \subseteq DOMAIN derivations \cup {drv},
         op' \in Ops, nodeIdx' \in 0..(RootIdx + 1)
  PROVE  TypeOK'
  <1>1. RootIdx' = RootIdx /\ Drvs' = Drvs
    BY GraphStays
  <1>2. DOMAIN derivations' = DOMAIN derivations \cup {drv}
    BY MakeFacts
  <1>3. ASSUME NEW d \in DOMAIN derivations'
        PROVE  derivations'[d].inputs \subseteq DOMAIN derivations'
    <2>1. CASE d = drv
      BY <1>2, <2>1, MakeFacts
    <2>2. CASE d # drv
      <3>1. d \in DOMAIN derivations /\ derivations'[d] = derivations[d]
        BY <1>2, <1>3, <2>2, MakeFacts
      <3>2. derivations[d].inputs \subseteq DOMAIN derivations
        BY <3>1 DEF TypeOK
      <3> QED
        BY <1>2, <3>1, <3>2
    <2> QED
      BY <2>1, <2>2
  <1>4. DOMAIN derivations' \subseteq Drvs'
    BY <1>1, <1>2 DEF TypeOK
  <1>5. result' \in Seq(DOMAIN derivations')
    <2>1. result \in Seq(DOMAIN derivations)
      BY DEF TypeOK
    <2> QED
      BY <1>2, <2>1, SeqMono
  <1>6. op' \in Ops'
    BY DEF Ops, Panics
  <1> QED
    BY <1>1, <1>2, <1>3, <1>4, <1>5, <1>6 DEF TypeOK, Ops

(* What ContentsRight says of one derivation of node idx.                   *)
RightFor(idx, contents) ==
  /\ contents.dir = NeededBy(idx)
  /\ \A e \in ToSet(contents.externs) :
       /\ e.node \in DepsAt(idx)
       /\ e.drv = Drv("lib", e.node)
       /\ e.drv \in contents.inputs

(* The definition, with its parts named.                                    *)
LEMMA RightForDef ==
  ContentsRight <=>
    (Linkable => \A drv \in DOMAIN derivations : RightFor(drv.node, derivations[drv]))
  BY DEF ContentsRight, RightFor, DepsAt

(* ContentsRight after a step that adds a derivation with the right         *)
(* contents.                                                                *)
LEMMA ContentsAfterMake ==
  ASSUME graph' = graph, ContentsRight, NEW drv, NEW contents, Make(drv, contents),
         Linkable => RightFor(drv.node, contents)
  PROVE  ContentsRight'
  <1>1. Linkable' = Linkable
    BY GraphStays
  <1>0. /\ DOMAIN derivations' = DOMAIN derivations \cup {drv}
        /\ derivations'[drv] = contents
        /\ \A d \in DOMAIN derivations \ {drv} : derivations'[d] = derivations[d]
    BY MakeFacts
  <1>2. ASSUME Linkable, NEW d \in DOMAIN derivations'
        PROVE  RightFor(d.node, derivations'[d])
    <2>1. CASE d = drv
      BY <1>2, <2>1, <1>0
    <2>2. CASE d # drv
      <3>1. d \in DOMAIN derivations /\ derivations'[d] = derivations[d]
        BY <1>2, <2>2, <1>0
      <3>2. RightFor(d.node, derivations[d])
        BY <1>2, <3>1, RightForDef
      <3> QED
        BY <3>1, <3>2
    <2> QED
      BY <2>1, <2>2
  <1>3. ASSUME Linkable, NEW d \in DOMAIN derivations'
        PROVE  /\ derivations'[d].dir = NeededBy(d.node)'
               /\ \A e \in ToSet(derivations'[d].externs) :
                    /\ e.node \in ToSet(DirectDeps(graph'[d.node + 1]))
                    /\ e.drv = Drv("lib", e.node)
                    /\ e.drv \in derivations'[d].inputs
    BY <1>2, <1>3, GraphStays DEF RightFor, DepsAt
  <1> QED
    BY <1>1, <1>3 DEF ContentsRight

(* What is said of the libraries stays true while they and the node stay.   *)
LEMMA LibrariesStay ==
  ASSUME LibrariesInOrder, Aligned, UNCHANGED <<graph, nodeIdx, libraryDerivations>>
  PROVE  LibrariesInOrder' /\ Aligned'
  BY DEF LibrariesInOrder, Aligned

(* Every node the loop has been through has a library, if all that others   *)
(* depend on have one.                                                      *)
LEMMA LinkableBehind ==
  ASSUME graph \in Graphs, TypeOK, nodeIdx <= RootIdx, Linkable
  PROVE  \A k \in 1..nodeIdx : graph[k].library
  <1>1. nodeIdx \in Nat /\ RootIdx \in Nat
    BY GraphFacts DEF TypeOK
  <1> QED
    BY <1>1 DEF Linkable

(* The directory of the dependencies of a node is what the node needs.      *)
LEMMA DepsDirectory ==
  ASSUME graph \in Graphs, TypeOK, Aligned, ContentsRight, nodeIdx <= RootIdx, Linkable,
         \A idx \in DepsAt(nodeIdx) : InRange(idx)
  PROVE  DepsDerivation(DirectDeps(CurrentNode)).dir = NeededBy(nodeIdx)
  <1> DEFINE L == LibrariesAt(DirectDeps(CurrentNode))
  <1>1. L = {LibraryAt(idx) : idx \in DepsAt(nodeIdx)}
    BY DEF LibrariesAt, DepsAt, CurrentNode
  <1>2. DepsDerivation(DirectDeps(CurrentNode)).dir =
          UNION {{drv.node} \cup derivations[drv].dir : drv \in L}
    BY DEF DepsDerivation
  <1>3. \A idx \in DepsAt(nodeIdx) : LibraryAt(idx) = Drv("lib", idx)
    BY LibraryOfDependency, LinkableBehind
  <1>4. \A idx \in DepsAt(nodeIdx) : Drv("lib", idx) \in DOMAIN derivations
    <2> TAKE idx \in DepsAt(nodeIdx)
    <2>1. InRange(idx) /\ libraryDerivations \in Seq(DOMAIN derivations)
      BY DEF TypeOK
    <2> QED
      BY <1>3, <2>1 DEF InRange, LibraryAt
  <1>5. \A idx \in DepsAt(nodeIdx) :
          /\ Drv("lib", idx).node = idx
          /\ derivations[Drv("lib", idx)].dir = NeededBy(idx)
    <2> TAKE idx \in DepsAt(nodeIdx)
    <2>1. Drv("lib", idx).node = idx
      BY DEF Drv
    <2>2. RightFor(Drv("lib", idx).node, derivations[Drv("lib", idx)])
      BY <1>4, RightForDef
    <2> QED
      BY <2>1, <2>2 DEF RightFor
  <1>6. L = {Drv("lib", idx) : idx \in DepsAt(nodeIdx)}
    BY <1>1, <1>3
  <1> HIDE DEF L
  <1>7. UNION {{drv.node} \cup derivations[drv].dir : drv \in L} =
          UNION {{d} \cup NeededBy(d) : d \in DepsAt(nodeIdx)}
    BY <1>5, <1>6
  <1>8. nodeIdx \in Nat
    BY GraphFacts DEF TypeOK
  <1> QED
    BY <1>2, <1>7, <1>8, NeededStep

-------------------------------------------------------------------------------
(* The actions.                                                             *)

(* The directory of the dependencies is made of libraries there are, and    *)
(* has what the node needs; their output paths are known from here on.      *)
LEMMA StepMakeDeps ==
  ASSUME graph \in Graphs, Inv, MakeDeps
  PROVE  Inv'
  <1> DEFINE drv == Drv("deps", nodeIdx)
             contents == DepsDerivation(DirectDeps(CurrentNode))
             L == LibrariesAt(DirectDeps(CurrentNode))
  <1>1. /\ op = "deps" /\ op' = "build"
        /\ \A idx \in ToSet(DirectDeps(CurrentNode)) : InRange(idx)
        /\ Make(drv, contents)
        /\ forced' = forced \cup L
        /\ UNCHANGED <<graph, nodeIdx, libraryDerivations, result>>
    BY DEF MakeDeps, MakeDepsForcing
  <1>2. /\ TypeOK /\ LoopPosition /\ LibrariesInOrder /\ Aligned /\ ContentsRight
        /\ nodeIdx \in Nat /\ nodeIdx <= RootIdx
    BY <1>1, GraphFacts DEF Inv, LoopPosition, InLoop, TypeOK
  <1>3. L \subseteq DOMAIN derivations
    BY <1>1, <1>2 DEF LibrariesAt, InRange, LibraryAt, TypeOK
  <1>4. contents.inputs = L /\ contents.externs = <<>>
    BY DEF DepsDerivation
  <1>5. TypeOK'
    <2>1. drv \in Drvs
      BY <1>2, GraphFacts DEF Drv, Drvs
    <2>2. libraryDerivations' \in Seq(DOMAIN derivations \cup {drv})
      BY <1>1, <1>2, SeqMono DEF TypeOK
    <2>3. forced' \subseteq DOMAIN derivations \cup {drv}
      BY <1>1, <1>2, <1>3 DEF TypeOK
    <2>4. op' \in Ops /\ nodeIdx' \in 0..(RootIdx + 1)
      BY <1>1, <1>2 DEF Ops, TypeOK
    <2> HIDE DEF drv, contents, L
    <2> QED
      BY <1>1, <1>2, <1>3, <1>4, <2>1, <2>2, <2>3, <2>4, TypeAfterMake
  <1>6. ContentsRight'
    <2>1. ASSUME Linkable PROVE RightFor(nodeIdx, contents)
      <3>1. contents.dir = NeededBy(nodeIdx)
        BY <1>1, <1>2, <2>1, DepsDirectory DEF DepsAt, CurrentNode
      <3>2. ToSet(contents.externs) = {}
        BY <1>4 DEF ToSet
      <3> QED
        BY <3>1, <3>2 DEF RightFor
    <2>2. drv.node = nodeIdx
      BY DEF Drv
    <2> HIDE DEF drv, contents
    <2> QED
      BY <1>1, <1>2, <2>1, <2>2, ContentsAfterMake
  <1>7. LibrariesInOrder' /\ Aligned'
    BY <1>1, <1>2, LibrariesStay
  <1>8. DOMAIN derivations' = DOMAIN derivations \cup {drv}
    BY <1>1, MakeFacts
  <1>9. LoopPosition' /\ MadeSoFar'
    BY <1>1, <1>2, <1>8, GraphStays DEF LoopPosition, InLoop, MadeSoFar
  <1>10. DepsEvaluated'
    BY <1>1 DEF DepsEvaluated, InRange, LibrariesAt, LibraryAt, CurrentNode
  <1>11. ResultLast' /\ PanicsForPackage'
    BY <1>1 DEF ResultLast, PanicsForPackage, Panics
  <1> QED
    BY <1>5, <1>6, <1>7, <1>9, <1>10, <1>11 DEF Inv

(* What a target is compiled against is among the direct dependencies.      *)
LEMMA ExternDepsFacts ==
  ASSUME graph \in Graphs, TypeOK, nodeIdx <= RootIdx, NEW stage
  PROVE  /\ ExternDeps(stage) \in Seq(Nat)
         /\ ToSet(ExternDeps(stage)) \subseteq DepsAt(nodeIdx)
  <1>1. nodeIdx \in Nat
    BY GraphFacts DEF TypeOK
  <1> QED
    BY <1>1, DepsFacts DEF ExternDeps, CurrentNode

(* The derivation of a target has the directory of the node's dependencies, *)
(* and its externs are the libraries of direct dependencies.                *)
LEMMA TargetRight ==
  ASSUME graph \in Graphs, Inv, NEW stage \in {"build", "lib", "bin"}, op = stage,
         NEW own, Linkable
  PROVE  RightFor(nodeIdx, CompileDerivation(ExternDeps(stage), own))
  <1> DEFINE idxs == ExternDeps(stage)
             contents == CompileDerivation(idxs, own)
  <1>1. /\ TypeOK /\ Aligned /\ ContentsRight /\ nodeIdx <= RootIdx
        /\ Drv("deps", nodeIdx) \in DOMAIN derivations
    BY DEF Inv, LoopPosition, InLoop, MadeSoFar
  <1>2. idxs \in Seq(Nat) /\ ToSet(idxs) \subseteq DepsAt(nodeIdx)
    BY <1>1, ExternDepsFacts
  <1>3. contents.dir = NeededBy(nodeIdx)
    <2>1. RightFor(Drv("deps", nodeIdx).node, derivations[Drv("deps", nodeIdx)])
      BY <1>1, RightForDef
    <2>2. Drv("deps", nodeIdx).node = nodeIdx
      BY DEF Drv
    <2> QED
      BY <2>1, <2>2 DEF RightFor, CompileDerivation
  <1>4. ASSUME NEW e \in ToSet(contents.externs)
        PROVE  /\ e.node \in DepsAt(nodeIdx)
               /\ e.drv = Drv("lib", e.node)
               /\ e.drv \in contents.inputs
    <2>1. PICK k \in DOMAIN idxs : e = [node |-> idxs[k], drv |-> LibraryAt(idxs[k])]
      BY <1>4 DEF ToSet, CompileDerivation
    <2>2. e.node \in ToSet(idxs) /\ e.drv = LibraryAt(e.node)
      BY <2>1 DEF ToSet
    <2>3. e.drv \in LibrariesAt(idxs)
      BY <2>2 DEF LibrariesAt
    <2>4. LibrariesAt(idxs) \subseteq contents.inputs
      BY DEF CompileDerivation
    <2>5. LibraryAt(e.node) = Drv("lib", e.node)
      BY <1>1, <1>2, <2>2, LinkableBehind, LibraryOfDependency
    <2> QED
      BY <1>2, <2>2, <2>3, <2>4, <2>5
  <1> HIDE DEF contents
  <1>5. RightFor(nodeIdx, contents)
    BY <1>3, <1>4 DEF RightFor
  <1> QED
    BY <1>5 DEF contents

(* A target is made, if the node has it, of derivations there are; nothing  *)
(* is forgotten.                                                            *)
LEMMA TargetMade ==
  ASSUME graph \in Graphs, Inv, NEW stage \in {"build", "lib", "bin"}, op = stage,
         NEW own, own \subseteq DOMAIN derivations, MakeTarget(stage, own),
         UNCHANGED <<graph, result>>, op' \in Ops, nodeIdx' \in 0..(RootIdx + 1),
         libraryDerivations' \in Seq(DOMAIN derivations)
  PROVE  /\ TypeOK' /\ ContentsRight'
         /\ DOMAIN derivations \subseteq DOMAIN derivations'
         /\ Target(stage) => Drv(stage, nodeIdx) \in DOMAIN derivations'
         /\ forced \subseteq forced'
  <1> DEFINE drv == Drv(stage, nodeIdx)
             contents == CompileDerivation(ExternDeps(stage), own)
  <1>1. /\ TypeOK /\ Aligned /\ ContentsRight
        /\ nodeIdx \in Nat /\ nodeIdx <= RootIdx
        /\ Drv("deps", nodeIdx) \in DOMAIN derivations
        /\ \A idx \in DepsAt(nodeIdx) : InRange(idx)
    BY GraphFacts DEF Inv, LoopPosition, InLoop, MadeSoFar, TypeOK, DepsEvaluated,
                      DepsAt, CurrentNode
  <1>2. CASE ~Target(stage)
    <2>1. UNCHANGED <<derivations, forced>>
      BY <1>2 DEF MakeTarget
    <2>2. TypeOK'
      BY <1>1, <2>1, GraphStays DEF TypeOK, Ops, Panics
    <2>3. ContentsRight'
      BY <1>1, <2>1, GraphStays DEF ContentsRight
    <2> QED
      BY <1>2, <2>1, <2>2, <2>3
  <1>3. CASE Target(stage)
    <2>1. /\ Make(drv, contents)
          /\ forced' = forced \cup {Drv("deps", nodeIdx)}
                          \cup {d \in own : d.type = "build"}
      BY <1>3 DEF MakeTarget
    <2>2. contents.inputs \subseteq DOMAIN derivations
      <3>1. ToSet(ExternDeps(stage)) \subseteq DepsAt(nodeIdx)
        BY <1>1, ExternDepsFacts
      <3>2. LibrariesAt(ExternDeps(stage)) \subseteq DOMAIN derivations
        BY <1>1, <3>1 DEF LibrariesAt, InRange, LibraryAt, TypeOK
      <3> QED
        BY <1>1, <3>2 DEF CompileDerivation
    <2>3. drv \in Drvs /\ drv.node = nodeIdx
      BY <1>1, GraphFacts DEF Drv, Drvs
    <2>4. DOMAIN derivations' = DOMAIN derivations \cup {drv}
      BY <2>1, MakeFacts
    <2>5. forced' \subseteq DOMAIN derivations \cup {drv}
      BY <1>1, <2>1 DEF TypeOK
    <2>6. libraryDerivations' \in Seq(DOMAIN derivations \cup {drv})
      BY SeqMono
    <2>7. Linkable => RightFor(nodeIdx, contents)
      BY TargetRight
    <2> HIDE DEF drv, contents
    <2>8. TypeOK'
      BY <1>1, <2>1, <2>2, <2>3, <2>5, <2>6, TypeAfterMake
    <2>9. ContentsRight'
      BY <1>1, <2>1, <2>3, <2>7, ContentsAfterMake
    <2> QED
      BY <2>1, <2>4, <2>8, <2>9 DEF drv
  <1> QED
    BY <1>2, <1>3

(* The dependencies stay evaluated while the loop is at the node.           *)
LEMMA EvaluatedStay ==
  ASSUME DepsEvaluated, op \in {"build", "lib", "bin"}, forced \subseteq forced',
         UNCHANGED <<graph, nodeIdx, libraryDerivations>>
  PROVE  DepsEvaluated'
  BY DEF DepsEvaluated, InRange, LibrariesAt, LibraryAt, CurrentNode

(* The build script, if the node has one.                                   *)
LEMMA StepMakeBuildScript ==
  ASSUME graph \in Graphs, Inv, MakeBuildScript
  PROVE  Inv'
  <1>1. /\ op = "build" /\ op' = "lib" /\ MakeTarget("build", {})
        /\ UNCHANGED <<graph, nodeIdx, libraryDerivations, result>>
    BY DEF MakeBuildScript
  <1>2. /\ TypeOK /\ LoopPosition /\ LibrariesInOrder /\ Aligned /\ DepsEvaluated
        /\ Drv("deps", nodeIdx) \in DOMAIN derivations
        /\ nodeIdx <= RootIdx
    BY <1>1 DEF Inv, MadeSoFar, LoopPosition, InLoop
  <1>3. /\ TypeOK' /\ ContentsRight'
        /\ DOMAIN derivations \subseteq DOMAIN derivations'
        /\ Target("build") => Drv("build", nodeIdx) \in DOMAIN derivations'
        /\ forced \subseteq forced'
    <2>1. /\ op' \in Ops /\ nodeIdx' \in 0..(RootIdx + 1)
          /\ libraryDerivations' \in Seq(DOMAIN derivations)
      BY <1>1, <1>2 DEF Ops, TypeOK
    <2> QED
      BY <1>1, <2>1, TargetMade
  <1>4. LibrariesInOrder' /\ Aligned'
    BY <1>1, <1>2, LibrariesStay
  <1>5. LoopPosition'
    BY <1>1, <1>2, GraphStays DEF LoopPosition, InLoop
  <1>6. MadeSoFar'
    BY <1>1, <1>2, <1>3 DEF MadeSoFar, OwnBuildScript, CurrentNode, Target
  <1>7. DepsEvaluated'
    BY <1>1, <1>2, <1>3, EvaluatedStay
  <1>8. ResultLast' /\ PanicsForPackage'
    BY <1>1 DEF ResultLast, PanicsForPackage, Panics
  <1> QED
    BY <1>3, <1>4, <1>5, <1>6, <1>7, <1>8 DEF Inv

(* The library, if the node has one.                                        *)
LEMMA StepMakeLibrary ==
  ASSUME graph \in Graphs, Inv, MakeLibrary
  PROVE  Inv'
  <1>1. /\ op = "lib" /\ op' = "bin" /\ MakeTarget("lib", OwnBuildScript)
        /\ UNCHANGED <<graph, nodeIdx, libraryDerivations, result>>
    BY DEF MakeLibrary
  <1>2. /\ TypeOK /\ LoopPosition /\ LibrariesInOrder /\ Aligned /\ DepsEvaluated
        /\ Drv("deps", nodeIdx) \in DOMAIN derivations
        /\ OwnBuildScript \subseteq DOMAIN derivations
        /\ nodeIdx <= RootIdx
    BY <1>1 DEF Inv, MadeSoFar, LoopPosition, InLoop
  <1>3. /\ TypeOK' /\ ContentsRight'
        /\ DOMAIN derivations \subseteq DOMAIN derivations'
        /\ Target("lib") => Drv("lib", nodeIdx) \in DOMAIN derivations'
        /\ forced \subseteq forced'
    <2>1. /\ op' \in Ops /\ nodeIdx' \in 0..(RootIdx + 1)
          /\ libraryDerivations' \in Seq(DOMAIN derivations)
      BY <1>1, <1>2 DEF Ops, TypeOK
    <2> QED
      BY <1>1, <1>2, <2>1, TargetMade
  <1>4. LibrariesInOrder' /\ Aligned'
    BY <1>1, <1>2, LibrariesStay
  <1>5. LoopPosition'
    BY <1>1, <1>2, GraphStays DEF LoopPosition, InLoop
  <1>6. MadeSoFar'
    <2>1. OwnLibrary \subseteq DOMAIN derivations'
      BY <1>3 DEF OwnLibrary, Target
    <2>2. OwnLibrary' = OwnLibrary /\ OwnBuildScript' = OwnBuildScript
      BY <1>1 DEF OwnLibrary, OwnBuildScript, CurrentNode
    <2> QED
      BY <1>1, <1>2, <1>3, <2>1, <2>2 DEF MadeSoFar
  <1>7. DepsEvaluated'
    BY <1>1, <1>2, <1>3, EvaluatedStay
  <1>8. ResultLast' /\ PanicsForPackage'
    BY <1>1 DEF ResultLast, PanicsForPackage, Panics
  <1> QED
    BY <1>3, <1>4, <1>5, <1>6, <1>7, <1>8 DEF Inv

(* The elements of a sequence after a push.                                 *)
LEMMA ToSetAppend ==
  ASSUME NEW S, NEW s \in Seq(S), NEW e \in S
  PROVE  ToSet(Append(s, e)) = ToSet(s) \cup {e}
  <1> DEFINE t == Append(s, e)
  <1>1. /\ t \in Seq(S)
        /\ DOMAIN t = DOMAIN s \cup {Len(s) + 1}
        /\ t[Len(s) + 1] = e
        /\ \A i \in DOMAIN s : t[i] = s[i]
    OBVIOUS
  <1> HIDE DEF t
  <1>2. ToSet(t) = ToSet(s) \cup {e}
    BY <1>1 DEF ToSet
  <1> QED
    BY <1>2 DEF t

(* The library goes to the end, behind those of earlier nodes.              *)
LEMMA OrderAfterPush ==
  ASSUME graph \in Graphs, TypeOK, LibrariesInOrder, nodeIdx <= RootIdx,
         UNCHANGED graph, nodeIdx' = nodeIdx + 1,
         CurrentNode.library => Drv("lib", nodeIdx) \in DOMAIN derivations,
         libraryDerivations' =
           IF CurrentNode.library THEN Append(libraryDerivations, Drv("lib", nodeIdx))
           ELSE libraryDerivations
  PROVE  LibrariesInOrder'
  <1> DEFINE L == libraryDerivations
             M == {m \in 0..nodeIdx - 1 : graph[m + 1].library}
             N == {m \in 0..nodeIdx : graph[m + 1].library}
             lib == Drv("lib", nodeIdx)
  <1>1. nodeIdx \in Nat /\ L \in Seq(DOMAIN derivations)
    BY GraphFacts DEF TypeOK
  <1>2. ToSet(L) = {Drv("lib", idx) : idx \in M}
    BY DEF LibrariesInOrder
  <1>3. \A i, j \in DOMAIN L : i < j => L[i].node < L[j].node
    BY DEF LibrariesInOrder
  <1>4. (nodeIdx' - 1) = nodeIdx
    BY <1>1
  <1>5. CASE CurrentNode.library
    <2>1. N = M \cup {nodeIdx}
      BY <1>1, <1>5 DEF CurrentNode
    <2>2. ToSet(L') = ToSet(L) \cup {lib}
      BY <1>1, <1>5, ToSetAppend
    <2>3. ToSet(L') = {Drv("lib", idx) : idx \in N}
      BY <1>2, <2>1, <2>2
    <2>4. \A i \in DOMAIN L : L[i].node \in 0..nodeIdx - 1
      <3> TAKE i \in DOMAIN L
      <3>1. L[i] \in ToSet(L)
        BY DEF ToSet
      <3> QED
        BY <1>2, <3>1 DEF Drv
    <2>5. /\ DOMAIN L' = DOMAIN L \cup {Len(L) + 1}
          /\ L'[Len(L) + 1] = lib
          /\ \A i \in DOMAIN L : L'[i] = L[i]
          /\ Len(L) \in Nat /\ DOMAIN L = 1..Len(L)
      BY <1>1, <1>5
    <2>6. lib.node = nodeIdx
      BY DEF Drv
    <2>7. ASSUME NEW i \in DOMAIN L', NEW j \in DOMAIN L', i < j
          PROVE  L'[i].node < L'[j].node
      <3>1. i \in DOMAIN L /\ L'[i] = L[i]
        BY <2>5, <2>7
      <3>2. CASE j \in DOMAIN L
        BY <1>3, <2>5, <2>7, <3>1, <3>2
      <3>3. CASE j = Len(L) + 1
        BY <1>1, <2>4, <2>5, <2>6, <3>1, <3>3
      <3> QED
        BY <2>5, <3>2, <3>3
    <2> QED
      BY <1>4, <2>3, <2>7 DEF LibrariesInOrder
  <1>6. CASE ~CurrentNode.library
    <2>1. N = M
      BY <1>1, <1>6 DEF CurrentNode
    <2> QED
      BY <1>2, <1>3, <1>4, <1>6, <2>1 DEF LibrariesInOrder
  <1> QED
    BY <1>5, <1>6

(* The library of a node is pushed to the node's own index, if no node      *)
(* before it was without one.                                               *)
LEMMA AlignedAfterPush ==
  ASSUME graph \in Graphs, TypeOK, Aligned, nodeIdx <= RootIdx,
         UNCHANGED graph, nodeIdx' = nodeIdx + 1,
         libraryDerivations' =
           IF CurrentNode.library THEN Append(libraryDerivations, Drv("lib", nodeIdx))
           ELSE libraryDerivations
  PROVE  Aligned'
  <1> DEFINE L == libraryDerivations
             AllLibraries(n) == \A k \in 1..n : graph[k].library
  <1>1. nodeIdx \in Nat /\ L \in Seq(DOMAIN derivations) /\ Len(L) <= nodeIdx
    BY GraphFacts DEF TypeOK, Aligned
  <1>2. Len(L') <= nodeIdx'
    BY <1>1
  <1>3. /\ \A i \in DOMAIN L : i \in DOMAIN L' /\ L'[i] = L[i]
        /\ Len(L) \in Nat /\ DOMAIN L = 1..Len(L)
    BY <1>1
  <1>4. ASSUME NEW n \in 0..nodeIdx, AllLibraries(n), NEW i \in 1..n
        PROVE  i \in DOMAIN L /\ L[i] = Drv("lib", i - 1)
    BY <1>4 DEF Aligned
  <1>5. ASSUME NEW n \in 0..nodeIdx', AllLibraries(n), NEW i \in 1..n
        PROVE  i \in DOMAIN L' /\ L'[i] = Drv("lib", i - 1)
    <2>1. CASE n \in 0..nodeIdx
      BY <1>3, <1>4, <1>5, <2>1
    <2>2. CASE n = nodeIdx + 1
      <3>1. AllLibraries(nodeIdx) /\ CurrentNode.library
        BY <1>1, <1>5, <2>2 DEF CurrentNode
      <3>2. CASE i \in 1..nodeIdx
        BY <1>1, <1>3, <1>4, <3>1, <3>2, SMTT(20)
      <3>3. CASE i = nodeIdx + 1
        <4>1. Len(L) = nodeIdx
          <5>1. CASE nodeIdx = 0
            BY <1>1, <1>3, <5>1
          <5>2. CASE nodeIdx > 0
            <6>1. nodeIdx \in 0..nodeIdx /\ nodeIdx \in 1..nodeIdx
              BY <1>1, <5>2
            <6>2. nodeIdx \in DOMAIN L
              BY <1>4, <3>1, <6>1
            <6>3. nodeIdx <= Len(L)
              BY <1>3, <6>2
            <6>4. Len(L) <= nodeIdx /\ Len(L) \in Nat /\ nodeIdx \in Nat
              BY <1>1, <1>3
            <6> QED
              BY <6>3, <6>4
          <5> QED
            BY <1>1, <5>1, <5>2
        <4>2. Len(L) + 1 \in DOMAIN L' /\ L'[Len(L) + 1] = Drv("lib", nodeIdx)
          BY <1>1, <3>1
        <4>3. i - 1 = nodeIdx
          BY <1>1, <3>3
        <4> QED
          BY <3>3, <4>1, <4>2, <4>3
      <3> QED
        BY <1>1, <2>2, <3>2, <3>3
    <2> QED
      BY <1>1, <1>5, <2>1, <2>2
  <1> QED
    BY <1>2, <1>5 DEF Aligned

(* The binaries, and the end of the node.                                   *)
LEMMA StepMakeBinaries ==
  ASSUME graph \in Graphs, Inv, MakeBinaries
  PROVE  Inv'
  <1> DEFINE libs == IF CurrentNode.library
                     THEN Append(libraryDerivations, Drv("lib", nodeIdx))
                     ELSE libraryDerivations
  <1>1. /\ op = "bin" /\ MakeTarget("bin", OwnBuildScript \cup OwnLibrary)
        /\ libraryDerivations' = libs
        /\ nodeIdx' = nodeIdx + 1
        /\ op' = IF nodeIdx = RootIdx THEN "return" ELSE "deps"
        /\ UNCHANGED <<graph, result>>
    BY DEF MakeBinaries, EndNode
  <1>2. /\ TypeOK /\ LibrariesInOrder /\ Aligned
        /\ OwnBuildScript \subseteq DOMAIN derivations
        /\ OwnLibrary \subseteq DOMAIN derivations
        /\ nodeIdx \in Nat /\ nodeIdx <= RootIdx /\ RootIdx \in Nat
    BY <1>1, GraphFacts DEF Inv, MadeSoFar, LoopPosition, InLoop, TypeOK
  <1>3. CurrentNode.library => Drv("lib", nodeIdx) \in DOMAIN derivations
    BY <1>2 DEF OwnLibrary
  <1>4. TypeOK' /\ ContentsRight'
    <2>1. op' \in Ops /\ nodeIdx' \in 0..(RootIdx + 1)
      BY <1>1, <1>2 DEF Ops
    <2>2. libraryDerivations \in Seq(DOMAIN derivations)
      BY <1>2 DEF TypeOK
    <2>3. libs \in Seq(DOMAIN derivations)
      <3>1. ASSUME NEW D, NEW l \in Seq(D), NEW d \in D PROVE Append(l, d) \in Seq(D)
        OBVIOUS
      <3>2. CASE CurrentNode.library
        <4>1. libs = Append(libraryDerivations, Drv("lib", nodeIdx))
          BY <3>2
        <4> HIDE DEF libs
        <4> QED
          BY <1>3, <2>2, <3>1, <3>2, <4>1
      <3>3. CASE ~CurrentNode.library
        BY <2>2, <3>3
      <3> QED
        BY <3>2, <3>3
    <2> QED
      BY <1>1, <1>2, <2>1, <2>3, TargetMade
  <1>5. LibrariesInOrder'
    BY <1>1, <1>2, <1>3, OrderAfterPush
  <1>6. Aligned'
    BY <1>1, <1>2, AlignedAfterPush
  <1>7. LoopPosition'
    BY <1>1, <1>2, GraphStays DEF LoopPosition, InLoop
  <1>8. MadeSoFar' /\ DepsEvaluated' /\ ResultLast' /\ PanicsForPackage'
    BY <1>1 DEF MadeSoFar, DepsEvaluated, ResultLast, PanicsForPackage, Panics
  <1> QED
    BY <1>4, <1>5, <1>6, <1>7, <1>8 DEF Inv

(* Once the call has ended without a result, the invariant asks no more     *)
(* than that a panic is for a package without a library.                    *)
LEMMA StepEnds ==
  ASSUME Inv, op' \in {"error"} \cup Panics, PanicsForPackage',
         UNCHANGED <<graph, nodeIdx, libraryDerivations, derivations, forced, result>>
  PROVE  Inv'
  <1>1. op' \notin {"deps", "build", "lib", "bin", "return", "done"}
    BY DEF Panics
  <1>2. TypeOK'
    BY GraphStays DEF Inv, TypeOK, Panics
  <1>3. LibrariesInOrder' /\ Aligned'
    BY LibrariesStay DEF Inv
  <1>4. ContentsRight'
    BY GraphStays DEF Inv, ContentsRight
  <1>5. LoopPosition' /\ MadeSoFar' /\ DepsEvaluated' /\ ResultLast'
    BY <1>1 DEF LoopPosition, InLoop, MadeSoFar, DepsEvaluated, ResultLast
  <1> QED
    BY <1>2, <1>3, <1>4, <1>5 DEF Inv

(* An output path needed to compile a target has been evaluated by then, so *)
(* only the library of a dependency can be missing.                         *)
LEMMA PanicOverExtern ==
  ASSUME graph \in Graphs, Inv, op \in {"build", "lib", "bin"},
         NEW idx \in ToSet(ExternDeps(op)), ~ExternsUsable(<<idx>>)
  PROVE  idx + 1 \in DOMAIN graph /\ ~graph[idx + 1].library
  <1>1. /\ TypeOK /\ LoopPosition /\ DepsEvaluated
        /\ nodeIdx \in Nat /\ RootIdx \in Nat
        /\ DOMAIN graph = 1..(RootIdx + 1)
    BY GraphFacts DEF Inv, TypeOK
  <1>2. nodeIdx <= RootIdx
    BY <1>1 DEF LoopPosition, InLoop
  <1>3. idx \in DepsAt(nodeIdx)
    BY <1>1, <1>2, ExternDepsFacts
  <1>4. idx \in 0..RootIdx
    BY <1>1, <1>2, <1>3, DepsFacts
  <1>5. LibraryAt(idx) \in forced
    BY <1>1, <1>3 DEF DepsEvaluated, LibrariesAt, DepsAt, CurrentNode
  <1>6. ToSet(<<idx>>) = {idx}
    BY DEF ToSet
  <1> QED
    BY <1>1, <1>4, <1>5, <1>6 DEF ExternsUsable

(* The indices stay in range, and a library remains to be returned, while   *)
(* every package has a library.                                             *)
LEMMA PanicOverIndex ==
  ASSUME graph \in Graphs, Inv, \A n \in DOMAIN graph : graph[n].library,
         \/ op = "deps" /\ \E idx \in ToSet(DirectDeps(CurrentNode)) : ~InRange(idx)
         \/ op = "return" /\ libraryDerivations = <<>>
  PROVE  FALSE
  <1>1. /\ TypeOK /\ Aligned /\ LoopPosition /\ DepsEvaluated
        /\ nodeIdx \in Nat /\ RootIdx \in Nat
        /\ DOMAIN graph = 1..(RootIdx + 1)
    BY GraphFacts DEF Inv, TypeOK
  <1>2. CASE op = "deps" /\ \E idx \in ToSet(DirectDeps(CurrentNode)) : ~InRange(idx)
    <2>1. nodeIdx <= RootIdx
      BY <1>1, <1>2 DEF LoopPosition, InLoop
    <2>2. \A k \in 1..nodeIdx : graph[k].library
      BY <1>1, <2>1
    <2>3. PICK idx \in DepsAt(nodeIdx) : ~InRange(idx)
      BY <1>2 DEF DepsAt, CurrentNode
    <2> QED
      BY <1>1, <2>1, <2>2, <2>3, LibraryOfDependency
  <1>3. CASE op = "return" /\ libraryDerivations = <<>>
    <2>1. nodeIdx = RootIdx + 1
      BY <1>1, <1>3 DEF LoopPosition
    <2>2. nodeIdx \in 0..nodeIdx /\ 1 \in 1..nodeIdx
      BY <1>1, <2>1
    <2>3. \A k \in 1..nodeIdx : graph[k].library
      BY <1>1, <2>1
    <2>4. 1 \in DOMAIN libraryDerivations
      BY <1>1, <2>2, <2>3 DEF Aligned
    <2> QED
      BY <1>3, <2>4
  <1> QED
    BY <1>2, <1>3

(* Each panic has a package to blame: the node that is built, if its source *)
(* is not found, and else one without a library.                            *)
LEMMA PanicHasPackage ==
  ASSUME graph \in Graphs, Inv, Panic
  PROVE  PanicsForPackage'
  <1>1. graph' = graph
    BY DEF Panic
  <1>2. CASE op \in {"build", "lib", "bin"} /\ ~CurrentNode.sourceFound
             /\ op' = "source not found"
    <2>1. /\ LoopPosition /\ nodeIdx \in Nat /\ RootIdx \in Nat
          /\ DOMAIN graph = 1..(RootIdx + 1)
      BY GraphFacts DEF Inv, TypeOK
    <2>2. nodeIdx <= RootIdx
      BY <1>2, <2>1 DEF LoopPosition, InLoop
    <2>3. nodeIdx + 1 \in DOMAIN graph
      BY <2>1, <2>2
    <2> QED
      BY <1>1, <1>2, <2>3 DEF PanicsForPackage, CurrentNode
  <1>3. CASE /\ op \in {"build", "lib", "bin"}
             /\ \E idx \in ToSet(ExternDeps(op)) :
                  /\ ~ExternsUsable(<<idx>>)
                  /\ op' = IF graph[idx + 1].library THEN "no output path"
                           ELSE "not a library crate"
    <2>1. PICK idx \in ToSet(ExternDeps(op)) :
            /\ ~ExternsUsable(<<idx>>)
            /\ op' = IF graph[idx + 1].library THEN "no output path"
                     ELSE "not a library crate"
      BY <1>3
    <2>2. idx + 1 \in DOMAIN graph /\ ~graph[idx + 1].library
      BY <1>3, <2>1, PanicOverExtern
    <2> QED
      BY <1>1, <2>1, <2>2 DEF PanicsForPackage
  <1>4. CASE \/ /\ op = "deps" /\ op' = "index out of bounds"
                /\ \E idx \in ToSet(DirectDeps(CurrentNode)) : ~InRange(idx)
             \/ /\ op = "return" /\ op' = "empty build graph"
                /\ libraryDerivations = <<>>
    BY <1>1, <1>4, PanicOverIndex DEF PanicsForPackage
  <1> QED
    BY <1>2, <1>3, <1>4 DEF Panic

LEMMA StepPanic ==
  ASSUME graph \in Graphs, Inv, Panic
  PROVE  Inv'
  <1>1. /\ op' \in Panics
        /\ UNCHANGED <<graph, nodeIdx, libraryDerivations, derivations, forced, result>>
    BY DEF Panic, Panics
  <1> QED
    BY <1>1, PanicHasPackage, StepEnds

LEMMA StepFail ==
  ASSUME Inv, Fail
  PROVE  Inv'
  <1>1. PanicsForPackage'
    BY DEF Fail, PanicsForPackage, Panics
  <1> QED
    BY <1>1, StepEnds DEF Fail

(* The last library is returned.                                            *)
LEMMA StepReturn ==
  ASSUME graph \in Graphs, Inv, Return
  PROVE  Inv'
  <1>1. /\ op = "return" /\ op' = "done" /\ libraryDerivations # <<>>
        /\ result' = <<Last(libraryDerivations)>>
        /\ UNCHANGED <<graph, nodeIdx, libraryDerivations, derivations, forced>>
    BY DEF Return
  <1>2. TypeOK'
    <2>1. libraryDerivations \in Seq(DOMAIN derivations)
      BY DEF Inv, TypeOK
    <2>2. Last(libraryDerivations) \in DOMAIN derivations
      BY <1>1, <2>1 DEF Last
    <2>3. result' \in Seq(DOMAIN derivations')
      BY <1>1, <2>2
    <2> QED
      BY <1>1, <2>3, GraphStays DEF Inv, TypeOK, Panics
  <1>3. LibrariesInOrder' /\ Aligned'
    BY <1>1, LibrariesStay DEF Inv
  <1>4. ContentsRight'
    BY <1>1, GraphStays DEF Inv, ContentsRight
  <1>5. LoopPosition'
    BY <1>1, GraphStays DEF Inv, LoopPosition, InLoop
  <1>6. ResultLast'
    BY <1>1 DEF ResultLast
  <1>7. MadeSoFar' /\ DepsEvaluated' /\ PanicsForPackage'
    BY <1>1 DEF MadeSoFar, DepsEvaluated, PanicsForPackage, Panics
  <1> QED
    BY <1>2, <1>3, <1>4, <1>5, <1>6, <1>7 DEF Inv

(* A step that changes nothing.                                             *)
LEMMA StepStutter ==
  ASSUME Inv, UNCHANGED vars
  PROVE  Inv'
  <1> USE DEF vars
  <1>0. TypeOK'
    BY GraphStays DEF Inv, TypeOK, Panics
  <1>1. ContentsRight'
    BY GraphStays DEF Inv, ContentsRight
  <1>2. LibrariesInOrder' /\ Aligned'
    BY LibrariesStay DEF Inv
  <1>3. LoopPosition' /\ MadeSoFar' /\ DepsEvaluated'
    BY GraphStays DEF Inv, LoopPosition, InLoop, MadeSoFar, OwnBuildScript, OwnLibrary,
                      DepsEvaluated, InRange, LibrariesAt, LibraryAt, CurrentNode
  <1>4. ResultLast' /\ PanicsForPackage'
    BY DEF Inv, ResultLast, PanicsForPackage, Panics
  <1> QED
    BY <1>0, <1>1, <1>2, <1>3, <1>4 DEF Inv

(* Nothing has been made in the beginning.                                  *)
LEMMA InitInv ==
  ASSUME Init
  PROVE  graph \in Graphs /\ Inv
  <1>1. /\ graph \in Graphs /\ op = "deps" /\ nodeIdx = 0
        /\ libraryDerivations = <<>> /\ DOMAIN derivations = {}
        /\ forced = {} /\ result = <<>>
    BY DEF Init
  <1>2. RootIdx \in Nat
    BY <1>1, GraphFacts
  <1>3. TypeOK
    BY <1>1, <1>2 DEF TypeOK
  <1>4. LoopPosition /\ MadeSoFar /\ DepsEvaluated /\ ResultLast /\ PanicsForPackage
    BY <1>1, <1>2 DEF LoopPosition, InLoop, MadeSoFar, DepsEvaluated, ResultLast,
                      PanicsForPackage, Panics
  <1>5. LibrariesInOrder /\ Aligned
    <2>1. ToSet(libraryDerivations) = {} /\ 0..nodeIdx - 1 = {}
      BY <1>1 DEF ToSet
    <2>2. Aligned
      BY <1>1 DEF Aligned
    <2> QED
      BY <1>1, <2>1, <2>2 DEF LibrariesInOrder
  <1>6. ContentsRight
    BY <1>1 DEF ContentsRight
  <1> QED
    BY <1>1, <1>3, <1>4, <1>5, <1>6 DEF Inv

(* Every step keeps the invariant, and the graph.                           *)
LEMMA NextInv ==
  ASSUME graph \in Graphs, Inv, [Next]_vars
  PROVE  graph' \in Graphs /\ Inv'
  <1>1. graph' = graph
    <2>1. CASE Next
      BY <2>1 DEF Next, MakeDeps, MakeDepsForcing, MakeBuildScript, MakeLibrary,
                  MakeBinaries, EndNode, Fail, Panic, Return, Terminating, vars
    <2>2. CASE UNCHANGED vars
      BY <2>2 DEF vars
    <2> QED
      BY <2>1, <2>2
  <1>2. Inv'
    <2>1. CASE MakeDeps
      BY <2>1, StepMakeDeps
    <2>2. CASE MakeBuildScript
      BY <2>2, StepMakeBuildScript
    <2>3. CASE MakeLibrary
      BY <2>3, StepMakeLibrary
    <2>4. CASE MakeBinaries
      BY <2>4, StepMakeBinaries
    <2>5. CASE Fail
      BY <2>5, StepFail
    <2>6. CASE Panic
      BY <2>6, StepPanic
    <2>7. CASE Return
      BY <2>7, StepReturn
    <2>8. CASE Terminating \/ UNCHANGED vars
      BY <2>8, StepStutter DEF Terminating
    <2> QED
      BY <2>1, <2>2, <2>3, <2>4, <2>5, <2>6, <2>7, <2>8 DEF Next
  <1> QED
    BY <1>1, <1>2

(* What a target is compiled against comes from the edges alone.            *)
LEMMA ExternsInit == Init => ExternsOfEdges
  BY DEF Init, ExternsOfEdges

LEMMA ExternsAfterMake ==
  ASSUME graph' = graph, ExternsOfEdges, nodeIdx \in Nat,
         NEW stage \in {"deps", "build", "lib", "bin"}, NEW contents,
         Make(Drv(stage, nodeIdx), contents),
         [k \in DOMAIN contents.externs |-> contents.externs[k].node] =
           IF stage = "deps" THEN <<>> ELSE ExternDeps(stage)
  PROVE  ExternsOfEdges'
  <1> DEFINE new == Drv(stage, nodeIdx)
  <1>1. /\ DOMAIN derivations' = DOMAIN derivations \cup {new}
        /\ derivations'[new] = contents
        /\ \A d \in DOMAIN derivations \ {new} : derivations'[d] = derivations[d]
    BY MakeFacts
  <1>2. new.type = stage /\ new.node = nodeIdx
    BY DEF Drv
  <1> HIDE DEF new
  <1> SUFFICES ASSUME NEW drv \in DOMAIN derivations'
               PROVE  LET node    == graph[drv.node + 1]
                          externs == derivations'[drv].externs
                      IN  [k \in DOMAIN externs |-> externs[k].node] =
                            CASE drv.type = "deps"  -> <<>>
                              [] drv.type = "build" -> node.buildDependencies
                              [] OTHER -> node.dependencies
    BY DEF ExternsOfEdges
  <1>3. CASE drv = new
    BY <1>1, <1>2, <1>3 DEF ExternDeps, CurrentNode
  <1>4. CASE drv # new
    BY <1>1, <1>4 DEF ExternsOfEdges
  <1> QED
    BY <1>3, <1>4

LEMMA ExternsAfterTarget ==
  ASSUME graph' = graph, graph \in Graphs, Inv, ExternsOfEdges,
         NEW stage \in {"build", "lib", "bin"}, op = stage, NEW own, MakeTarget(stage, own)
  PROVE  ExternsOfEdges'
  <1> DEFINE idxs == ExternDeps(stage)
             contents == CompileDerivation(idxs, own)
  <1>1. nodeIdx \in Nat /\ nodeIdx <= RootIdx /\ TypeOK
    BY GraphFacts DEF Inv, TypeOK, LoopPosition, InLoop
  <1>2. CASE Target(stage)
    <2>1. Make(Drv(stage, nodeIdx), contents)
      BY <1>2 DEF MakeTarget
    <2>2. idxs \in Seq(Nat)
      BY <1>1, ExternDepsFacts
    <2> HIDE DEF idxs
    <2>3. [k \in DOMAIN contents.externs |-> contents.externs[k].node] = idxs
      BY <2>2 DEF CompileDerivation
    <2> QED
      BY <1>1, <2>1, <2>3, ExternsAfterMake DEF idxs
  <1>3. CASE ~Target(stage)
    BY <1>3 DEF MakeTarget, ExternsOfEdges
  <1> QED
    BY <1>2, <1>3

LEMMA ExternsStep ==
  ASSUME graph \in Graphs, Inv, ExternsOfEdges, [Next]_vars
  PROVE  ExternsOfEdges'
  <1>1. graph' = graph
    BY DEF Next, MakeDeps, MakeDepsForcing, MakeBuildScript, MakeLibrary,
           MakeBinaries, EndNode, Fail, Panic, Return, Terminating, vars
  <1>2. CASE MakeDeps
    <2>1. Make(Drv("deps", nodeIdx), DepsDerivation(DirectDeps(CurrentNode)))
      BY <1>2 DEF MakeDeps, MakeDepsForcing
    <2>2. nodeIdx \in Nat
      BY GraphFacts DEF Inv, TypeOK
    <2>3. DepsDerivation(DirectDeps(CurrentNode)).externs = <<>>
      BY DEF DepsDerivation
    <2> QED
      BY <1>1, <2>1, <2>2, <2>3, ExternsAfterMake
  <1>3. CASE MakeBuildScript
    BY <1>1, <1>3, ExternsAfterTarget DEF MakeBuildScript
  <1>4. CASE MakeLibrary
    BY <1>1, <1>4, ExternsAfterTarget DEF MakeLibrary
  <1>5. CASE MakeBinaries
    BY <1>1, <1>5, ExternsAfterTarget DEF MakeBinaries, EndNode
  <1>6. CASE derivations' = derivations
    BY <1>1, <1>6 DEF ExternsOfEdges
  <1> QED
    BY <1>2, <1>3, <1>4, <1>5, <1>6 DEF Next, Fail, Panic, Return, Terminating, vars

-------------------------------------------------------------------------------
(* The theorems.                                                            *)

(* The invariant holds in every reachable state of the loop, for every      *)
(* graph given, and the graph is read-only.                                 *)
THEOREM Invariance ==
  Spec => [](graph \in Graphs /\ Inv)
  <1>1. Init => graph \in Graphs /\ Inv
    BY InitInv
  <1>2. (graph \in Graphs /\ Inv) /\ [Next]_vars => (graph \in Graphs /\ Inv)'
    BY NextInv
  <1> QED
    BY <1>1, <1>2, PTL DEF Spec

(* Every variable keeps its type, and a derivation is made of derivations   *)
(* made before: the calls of `derivation` are acyclic.                      *)
THEOREM TypeInvariant == Spec => []TypeOK
  <1>1. Inv => TypeOK
    BY DEF Inv
  <1> QED
    BY <1>1, Invariance, PTL

(* library_derivations holds the libraries of the nodes built so far, in    *)
(* the order of the graph.                                                  *)
THEOREM LibrariesInvariant == Spec => []LibrariesInOrder
  <1>1. Inv => LibrariesInOrder
    BY DEF Inv
  <1> QED
    BY <1>1, Invariance, PTL

(* If every package that others depend on has a library, the directory      *)
(* passed to rustc for a node has everything the node needs and nothing     *)
(* else: copying one level at a time computes the closure.                  *)
THEOREM DepsInvariant == Spec => []DepsComplete
  <1>1. Inv => DepsComplete
    BY RightForDef DEF Inv, DepsComplete, RightFor
  <1> QED
    BY <1>1, Invariance, PTL

(* What is passed with `--extern` is the library of the package named, and  *)
(* all it was compiled against is in the directory searched.                *)
THEOREM ExternsInvariant == Spec => []ExternsFound
  <1>1. graph \in Graphs /\ Inv => ExternsFound
    <2> SUFFICES ASSUME graph \in Graphs, Inv, Linkable,
                        NEW drv \in DOMAIN derivations,
                        NEW e \in ToSet(derivations[drv].externs)
                 PROVE  /\ e.drv = Drv("lib", e.node)
                        /\ e.drv \in derivations[drv].inputs
                        /\ {e.node} \cup derivations[e.drv].dir \subseteq derivations[drv].dir
      BY DEF ExternsFound
    <2>1. \A d \in DOMAIN derivations : RightFor(d.node, derivations[d])
      BY RightForDef DEF Inv
    <2>2. /\ e.node \in DepsAt(drv.node)
          /\ e.drv = Drv("lib", e.node)
          /\ e.drv \in derivations[drv].inputs
          /\ derivations[drv].dir = NeededBy(drv.node)
      BY <2>1 DEF RightFor
    <2>3. e.drv \in DOMAIN derivations
      BY <2>2 DEF Inv, TypeOK
    <2>4. derivations[e.drv].dir = NeededBy(e.node)
      <3>1. e.drv.node = e.node
        BY <2>2 DEF Drv
      <3> QED
        BY <2>1, <2>3, <3>1 DEF RightFor
    <2>5. drv.node \in Nat /\ drv.node <= RootIdx
      BY GraphFacts DEF Inv, TypeOK, Drvs
    <2>6. {e.node} \cup NeededBy(e.node) \subseteq NeededBy(drv.node)
      BY <2>2, <2>5, NeededStep
    <2> QED
      BY <2>2, <2>4, <2>6
  <1> QED
    BY <1>1, Invariance, PTL

(* No output path is missing, no source is unless it was not vendored, and  *)
(* no index is out of bounds unless a package that is built has no library. *)
THEOREM PanicInvariant == Spec => []PanicsForPackage
  <1>1. Inv => PanicsForPackage
    BY DEF Inv
  <1> QED
    BY <1>1, Invariance, PTL

(* Of a call that is done: the last of the libraries is the root's.         *)
LEMMA LibraryReturned ==
  ASSUME graph \in Graphs, Inv
  PROVE  ReturnsRootLibrary
  <1> SUFFICES ASSUME op = "done", Linkable,
                      graph[RootIdx + 1].library
               PROVE  /\ result = <<Drv("lib", RootIdx)>>
                      /\ derivations[result[1]].dir = NeededBy(RootIdx)
    BY DEF ReturnsRootLibrary
  <1> DEFINE L == libraryDerivations
  <1>1. /\ RootIdx \in Nat /\ nodeIdx = RootIdx + 1
        /\ L \in Seq(DOMAIN derivations) /\ L # <<>> /\ result = <<Last(L)>>
        /\ Aligned /\ ContentsRight
    BY GraphFacts DEF Inv, TypeOK, LoopPosition, ResultLast
  <1>2. \A k \in 1..nodeIdx : graph[k].library
    BY <1>1 DEF Linkable
  <1>3. nodeIdx \in 0..nodeIdx /\ RootIdx + 1 \in 1..nodeIdx /\ (RootIdx + 1) - 1 = RootIdx
    BY <1>1
  <1>4. RootIdx + 1 \in DOMAIN L /\ L[RootIdx + 1] = Drv("lib", RootIdx) /\ Len(L) <= RootIdx + 1
    <2>1. RootIdx + 1 \in DOMAIN L /\ L[RootIdx + 1] = Drv("lib", (RootIdx + 1) - 1)
      BY <1>1, <1>2, <1>3 DEF Aligned
    <2> QED
      BY <1>1, <1>3, <2>1 DEF Aligned
  <1>5. Len(L) = RootIdx + 1
    <2>1. Len(L) \in Nat /\ DOMAIN L = 1..Len(L)
      BY <1>1
    <2>2. RootIdx + 1 <= Len(L) /\ Len(L) <= RootIdx + 1
      BY <1>4, <2>1
    <2>3. RootIdx + 1 \in Nat
      BY GraphFacts
    <2>4. \A a, b \in Nat : a <= b /\ b <= a => a = b
      OBVIOUS
    <2> QED
      BY <2>1, <2>2, <2>3, <2>4
  <1>6. Last(L) = Drv("lib", RootIdx)
    BY <1>4, <1>5 DEF Last
  <1>7. Drv("lib", RootIdx) \in DOMAIN derivations
    BY <1>1, <1>4
  <1>8. derivations[Drv("lib", RootIdx)].dir = NeededBy(RootIdx)
    <2>1. RightFor(Drv("lib", RootIdx).node, derivations[Drv("lib", RootIdx)])
      BY <1>1, <1>7, RightForDef
    <2>2. Drv("lib", RootIdx).node = RootIdx
      BY DEF Drv
    <2> QED
      BY <2>1, <2>2 DEF RightFor
  <1> QED
    BY <1>1, <1>6, <1>8

(* A call that is done has returned the root's library, made of everything  *)
(* the root needs, if all packages have a library.                          *)
THEOREM ReturnInvariant == Spec => []ReturnsRootLibrary
  <1>1. graph \in Graphs /\ Inv => ReturnsRootLibrary
    BY LibraryReturned
  <1> QED
    BY <1>1, Invariance, PTL

===============================================================================
