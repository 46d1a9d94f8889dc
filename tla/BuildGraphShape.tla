---------------------------- MODULE BuildGraphShape ----------------------------
(***************************************************************************)
(* What the code that builds a graph promises to the code that walks it:   *)
(* the nodes of a `BuildGraph` (src/src/build_graph.rs) by what            *)
(* `BuildPackage::call` (src/src/build_package.rs) looks at.  Indices      *)
(* count from 0, as in the code.                                           *)
(***************************************************************************)
EXTENDS Integers, Sequences, SequencesExt

(* Of a BuildGraphNode: whether each kind of target is there, and whether   *)
(* the source the targets are compiled from is found: a path that names a   *)
(* directory, or a vendored source that VendoredSources::get returns.       *)
Targets == [buildScript : BOOLEAN, library : BOOLEAN, binaries : BOOLEAN,
            sourceFound : BOOLEAN]

(* A BuildGraphNode and its NodeEdges.                                      *)
Node == [dependencies : Seq(Nat), buildDependencies : Seq(Nat),
         buildScript : BOOLEAN, library : BOOLEAN, binaries : BOOLEAN,
         sourceFound : BOOLEAN]

NodeWith(targets, edges) ==
  [dependencies |-> edges.dependencies, buildDependencies |-> edges.buildDependencies,
   buildScript |-> targets.buildScript, library |-> targets.library,
   binaries |-> targets.binaries, sourceFound |-> targets.sourceFound]

(* The build dependencies come first, as in `all_direct_deps`.              *)
DirectDeps(node) == node.buildDependencies \o node.dependencies

(* There is a node, the root, and an edge leads to an earlier node.         *)
IsBuildGraph(g) ==
  /\ g \in Seq(Node) /\ g # <<>>
  /\ \A n \in DOMAIN g : \A i \in ToSet(DirectDeps(g[n])) : i < n - 1

===============================================================================
