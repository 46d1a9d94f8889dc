----------------------------- MODULE BuildPackage -----------------------------
(***************************************************************************)
(* The loop of `BuildPackage::call` (src/src/build_package.rs) that turns  *)
(* a build graph into Nix derivations, with what `make_deps` and           *)
(* `make_derivation` (src/src/make_derivation.rs) do for it.               *)
(*                                                                         *)
(* For every node, in the order of the graph, up to four derivations are   *)
(* made: the directory of its dependencies ("deps"), its build script      *)
(* ("build"), its library ("lib") and its binaries ("bin").  The library's *)
(* is then pushed to `library_derivations`, where the nodes that follow    *)
(* look it up by the index of the node.                                    *)
(*                                                                         *)
(* `op` is the derivation to make next, or how the call ended.  Indices    *)
(* count from 0, as in the code.                                           *)
(***************************************************************************)
EXTENDS BuildGraphShape

CONSTANT Graphs  (* The build graphs to build. *)

(* What BuildGraph ends with (BuildGraphProofs, HandedOver).                *)
ASSUME GraphsAssumption == \A g \in Graphs : IsBuildGraph(g)

VARIABLES
  graph,               (* The `BuildGraph`, read-only.                      *)
  op,
  nodeIdx,
  libraryDerivations,  (* `library_derivations`.                            *)
  derivations,         (* What each derivation made so far consists of.     *)
  forced,              (* The derivations whose `outPath` was evaluated.    *)
  result               (* The derivation returned, in a sequence.           *)

vars == <<graph, op, nodeIdx, libraryDerivations, derivations, forced, result>>

Drv(type, idx) == [type |-> type, node |-> idx]

RootIdx == Len(graph) - 1
CurrentNode == graph[nodeIdx + 1]
InRange(idx) == idx + 1 \in DOMAIN libraryDerivations
LibraryAt(idx) == libraryDerivations[idx + 1]
LibrariesAt(idxs) == {LibraryAt(idx) : idx \in ToSet(idxs)}

Panics == {"index out of bounds", "not a library crate", "no output path",
           "empty build graph", "source not found"}

-------------------------------------------------------------------------------
(* Mutants of the next definition: only the dependencies themselves, or     *)
(* only what their own directories hold.                                    *)
ShallowDeps(idxs) ==
  [inputs |-> LibrariesAt(idxs), externs |-> <<>>,
   dir |-> {drv.node : drv \in LibrariesAt(idxs)}]

InheritedDeps(idxs) ==
  [inputs |-> LibrariesAt(idxs), externs |-> <<>>,
   dir |-> UNION {derivations[drv].dir : drv \in LibrariesAt(idxs)}]

(* make_deps: a directory with the libraries of the direct dependencies and *)
(* all that their own `deps` directories hold.  `dir` has the nodes whose   *)
(* library is found there.                                                  *)
DepsDerivation(idxs) ==
  [inputs |-> LibrariesAt(idxs), externs |-> <<>>,
   dir |-> UNION {{drv.node} \cup derivations[drv].dir : drv \in LibrariesAt(idxs)}]

(* make_derivation, given the dependencies passed with `--extern`: each a   *)
(* node and the derivation in which its library is looked for.  The deps    *)
(* directory is linked as $out/deps.                                        *)
CompileDerivation(idxs, own) ==
  [inputs |-> LibrariesAt(idxs) \cup own \cup {Drv("deps", nodeIdx)},
   externs |-> [k \in DOMAIN idxs |-> [node |-> idxs[k], drv |-> LibraryAt(idxs[k])]],
   dir |-> derivations[Drv("deps", nodeIdx)].dir]

(* Mutant: every node has a build script.                                   *)
AnyBuildScript == {Drv("build", nodeIdx)}

(* The build script's derivation, if there is one: the OUT_DIR of the       *)
(* library and the binaries.                                                *)
OwnBuildScript == IF CurrentNode.buildScript THEN {Drv("build", nodeIdx)} ELSE {}
OwnLibrary == IF CurrentNode.library THEN {Drv("lib", nodeIdx)} ELSE {}

Make(drv, contents) ==
  derivations' = [d \in DOMAIN derivations \cup {drv} |->
                    IF d = drv THEN contents ELSE derivations[d]]

(* The directory is made once the output paths of `evaluated` are known.    *)
MakeDepsForcing(evaluated) ==
  /\ op = "deps"
  /\ \A idx \in ToSet(DirectDeps(CurrentNode)) : InRange(idx)
  /\ Make(Drv("deps", nodeIdx), DepsDerivation(DirectDeps(CurrentNode)))
  /\ forced' = forced \cup LibrariesAt(evaluated)
  /\ op' = "build"
  /\ UNCHANGED <<graph, nodeIdx, libraryDerivations, result>>

(* Mutant: the output paths of the build dependencies are not looked at.    *)
MakeDepsUnforced == MakeDepsForcing(CurrentNode.dependencies)

(* The output path of every direct dependency is written to the install     *)
(* phase, which evaluates it.                                               *)
MakeDeps == MakeDepsForcing(DirectDeps(CurrentNode))

(* The target made at this point of the loop, if the node has it, and the   *)
(* dependencies it is compiled against.                                     *)
Target(stage) ==
  CASE stage = "build" -> CurrentNode.buildScript
    [] stage = "lib"   -> CurrentNode.library
    [] stage = "bin"   -> CurrentNode.binaries

ExternDeps(stage) ==
  IF stage = "build" THEN CurrentNode.buildDependencies ELSE CurrentNode.dependencies

(* dependencies_rustc_args gets past its `expect`s.                         *)
ExternsUsable(idxs) ==
  \A idx \in ToSet(idxs) : graph[idx + 1].library /\ LibraryAt(idx) \in forced

(* One target, which depends on `own`, the derivations of the same node.    *)
MakeTarget(stage, own) ==
  IF Target(stage)
  THEN /\ CurrentNode.sourceFound
       /\ ExternsUsable(ExternDeps(stage))
       /\ Make(Drv(stage, nodeIdx), CompileDerivation(ExternDeps(stage), own))
       /\ forced' = forced \cup {Drv("deps", nodeIdx)}
                       \cup {drv \in own : drv.type = "build"}
  ELSE UNCHANGED <<derivations, forced>>

MakeBuildScript ==
  /\ op = "build"
  /\ MakeTarget("build", {})
  /\ op' = "lib"
  /\ UNCHANGED <<graph, nodeIdx, libraryDerivations, result>>

MakeLibrary ==
  /\ op = "lib"
  /\ MakeTarget("lib", OwnBuildScript)
  /\ op' = "bin"
  /\ UNCHANGED <<graph, nodeIdx, libraryDerivations, result>>

(* The end of the loop body: the vector of the libraries becomes `libs`.    *)
EndNode(libs) ==
  /\ op = "bin"
  /\ MakeTarget("bin", OwnBuildScript \cup OwnLibrary)
  /\ libraryDerivations' = libs
  /\ nodeIdx' = nodeIdx + 1
  /\ op' = IF nodeIdx = RootIdx THEN "return" ELSE "deps"
  /\ UNCHANGED <<graph, result>>

(* Mutants of the next action: the binaries are pushed if there are any;    *)
(* the library goes to the front.                                           *)
PushBinaries ==
  EndNode(IF CurrentNode.binaries THEN Append(libraryDerivations, Drv("bin", nodeIdx))
          ELSE libraryDerivations)

PushInFront ==
  EndNode(IF CurrentNode.library THEN <<Drv("lib", nodeIdx)>> \o libraryDerivations
          ELSE libraryDerivations)

(* The binaries, whose derivation is dropped, and the push of the library.  *)
MakeBinaries ==
  EndNode(IF CurrentNode.library THEN Append(libraryDerivations, Drv("lib", nodeIdx))
          ELSE libraryDerivations)

(* Evaluating Nix code throws: the error is returned and nothing else is.   *)
(* A target's source is looked up before anything else is done for it.      *)
Fail ==
  /\ op = "deps" \/ (op \in {"build", "lib", "bin"} /\ Target(op) /\ CurrentNode.sourceFound)
  /\ op' = "error"
  /\ UNCHANGED <<graph, nodeIdx, libraryDerivations, derivations, forced, result>>

(* An index or an `expect` fails.  An output path that was never evaluated  *)
(* may turn out not to evaluate, a vendored source not to be found.         *)
Panic ==
  /\ \/ /\ op = "deps"
        /\ \E idx \in ToSet(DirectDeps(CurrentNode)) : ~InRange(idx)
        /\ op' = "index out of bounds"
     \/ /\ op \in {"build", "lib", "bin"} /\ Target(op)
        /\ ~CurrentNode.sourceFound
        /\ op' = "source not found"
     \/ /\ op \in {"build", "lib", "bin"} /\ Target(op)
        /\ CurrentNode.sourceFound
        /\ \E idx \in ToSet(ExternDeps(op)) :
             /\ ~ExternsUsable(<<idx>>)
             /\ op' = IF graph[idx + 1].library THEN "no output path"
                      ELSE "not a library crate"
     \/ /\ op = "return"
        /\ libraryDerivations = <<>>
        /\ op' = "empty build graph"
  /\ UNCHANGED <<graph, nodeIdx, libraryDerivations, derivations, forced, result>>

(* The last of the library derivations is returned.                         *)
Return ==
  /\ op = "return"
  /\ libraryDerivations # <<>>
  /\ result' = <<Last(libraryDerivations)>>
  /\ op' = "done"
  /\ UNCHANGED <<graph, nodeIdx, libraryDerivations, derivations, forced>>

Stopped == op \in {"done", "error"} \cup Panics

Terminating == Stopped /\ UNCHANGED vars

-------------------------------------------------------------------------------
Init ==
  /\ graph \in Graphs
  /\ op = "deps"
  /\ nodeIdx = 0
  /\ libraryDerivations = <<>>
  /\ derivations = [drv \in {} |-> <<>>]
  /\ forced = {}
  /\ result = <<>>

Next ==
  \/ MakeDeps
  \/ MakeBuildScript
  \/ MakeLibrary
  \/ MakeBinaries
  \/ Fail
  \/ Panic
  \/ Return
  \/ Terminating

Spec == Init /\ [][Next]_vars

-------------------------------------------------------------------------------
(* Properties.                                                              *)

Drvs == [type : {"deps", "build", "lib", "bin"}, node : 0..RootIdx]

(* Every variable holds a value of its Rust type; a derivation is made of   *)
(* derivations made before.                                                 *)
TypeOK ==
  /\ op \in {"deps", "build", "lib", "bin", "return"}
            \cup {"done", "error"} \cup Panics
  /\ nodeIdx \in 0..(RootIdx + 1)
  /\ libraryDerivations \in Seq(DOMAIN derivations)
  /\ DOMAIN derivations \subseteq Drvs
  /\ \A drv \in DOMAIN derivations : derivations[drv].inputs \subseteq DOMAIN derivations
  /\ forced \subseteq DOMAIN derivations
  /\ result \in Seq(DOMAIN derivations)

(* The libraries are those of the nodes built so far that have one, in the  *)
(* order of the graph: entry i belongs to node i for as long as every node  *)
(* before it has a library.                                                 *)
LibrariesInOrder ==
  /\ ToSet(libraryDerivations) =
       {Drv("lib", idx) : idx \in {m \in 0..nodeIdx - 1 : graph[m + 1].library}}
  /\ \A i, j \in DOMAIN libraryDerivations :
       i < j => libraryDerivations[i].node < libraryDerivations[j].node

(* Every node but the root, the ones others depend on, has a library.       *)
Linkable == \A n \in 1..RootIdx : graph[n].library

(* The nodes needed to build node idx, by edges of either kind: the least   *)
(* set that has those it depends on and is closed.                          *)
NeededBy(idx) ==
  {m \in 0..RootIdx :
     \A S \in SUBSET (0..RootIdx) :
       /\ ToSet(DirectDeps(graph[idx + 1])) \subseteq S
       /\ \A s \in S : ToSet(DirectDeps(graph[s + 1])) \subseteq S
       => m \in S}

(* The deps directory of a node has the library of everything the node      *)
(* needs, through any number of packages, and of nothing else.              *)
DepsComplete ==
  Linkable =>
  \A drv \in DOMAIN derivations : derivations[drv].dir = NeededBy(drv.node)

(* What rustc is told to link as package `node` is the library of that      *)
(* package, from a derivation it depends on; the library and all the        *)
(* library was compiled against are in the directory searched for them.     *)
ExternsFound ==
  Linkable =>
  \A drv \in DOMAIN derivations :
    \A e \in ToSet(derivations[drv].externs) :
      /\ e.drv = Drv("lib", e.node)
      /\ e.drv \in derivations[drv].inputs
      /\ {e.node} \cup derivations[e.drv].dir \subseteq derivations[drv].dir

(* The loop panics only over a package without a library, or one whose      *)
(* source is not found when a target is to be compiled from it.  Above all, *)
(* the `expect` on the output path of a dependency does not fail: make_deps *)
(* has evaluated the path, and may have failed with an error, before any    *)
(* target is compiled against the dependency.                               *)
PanicsForPackage ==
  op \in Panics =>
    /\ op # "no output path"
    /\ \E n \in DOMAIN graph : IF op = "source not found" THEN ~graph[n].sourceFound
                               ELSE ~graph[n].library

(* What is returned for a root with a library is that library, made of the  *)
(* libraries of everything the root needs.                                  *)
ReturnsRootLibrary ==
  op = "done" /\ Linkable /\ graph[RootIdx + 1].library =>
    /\ result = <<Drv("lib", RootIdx)>>
    /\ derivations[result[1]].dir = NeededBy(RootIdx)

(* Two statements of the code, each with a run that refutes it.           *)

(* "The derivation for the requested package is the root of the build       *)
(* graph": what the call returns was made for the root.                     *)
ReturnsRequested == op = "done" => result[1].node = RootIdx

(* The expectation "only library crates can be dependencies".               *)
OnlyLibraryDependencies == op # "not a library crate"

-------------------------------------------------------------------------------
(* The inductive invariant behind these properties.                         *)

InLoop == op \in {"deps", "build", "lib", "bin"}

(* The loop is at a node, or through with all of them.                      *)
LoopPosition ==
  /\ InLoop => nodeIdx <= RootIdx
  /\ op \in {"return", "done"} => nodeIdx = RootIdx + 1

(* What the node has by now.                                                *)
MadeSoFar ==
  /\ op \in {"build", "lib", "bin"} => Drv("deps", nodeIdx) \in DOMAIN derivations
  /\ op \in {"lib", "bin"} => OwnBuildScript \subseteq DOMAIN derivations
  /\ op = "bin" => OwnLibrary \subseteq DOMAIN derivations

(* While every node has a library, the index of a library is its node's.    *)
Aligned ==
  /\ Len(libraryDerivations) <= nodeIdx
  /\ \A n \in 0..nodeIdx :
       (\A k \in 1..n : graph[k].library) =>
         \A i \in 1..n : /\ i \in DOMAIN libraryDerivations
                         /\ libraryDerivations[i] = Drv("lib", i - 1)

(* Once make_deps is through, the output paths of all direct dependencies   *)
(* are known.                                                               *)
DepsEvaluated ==
  op \in {"build", "lib", "bin"} =>
    /\ \A idx \in ToSet(DirectDeps(CurrentNode)) : InRange(idx)
    /\ LibrariesAt(DirectDeps(CurrentNode)) \subseteq forced

(* Every derivation has the directory its node needs, and is compiled       *)
(* against libraries of direct dependencies.                                *)
ContentsRight ==
  Linkable =>
  \A drv \in DOMAIN derivations :
    /\ derivations[drv].dir = NeededBy(drv.node)
    /\ \A e \in ToSet(derivations[drv].externs) :
         /\ e.node \in ToSet(DirectDeps(graph[drv.node + 1]))
         /\ e.drv = Drv("lib", e.node)
         /\ e.drv \in derivations[drv].inputs

(* A target is compiled against the nodes its edges lead to, in their order.*)
ExternsOfEdges ==
  \A drv \in DOMAIN derivations :
    LET node    == graph[drv.node + 1]
        externs == derivations[drv].externs
    IN  [k \in DOMAIN externs |-> externs[k].node] =
          CASE drv.type = "deps"  -> <<>>
            [] drv.type = "build" -> node.buildDependencies
            [] OTHER -> node.dependencies

ResultLast ==
  op = "done" =>
    /\ libraryDerivations # <<>>
    /\ result = <<Last(libraryDerivations)>>

(* Together they are inductive, for a given graph: what the proofs carry.   *)
Inv ==
  /\ TypeOK
  /\ LoopPosition
  /\ MadeSoFar
  /\ LibrariesInOrder
  /\ Aligned
  /\ DepsEvaluated
  /\ ContentsRight
  /\ ResultLast
  /\ PanicsForPackage

===============================================================================
