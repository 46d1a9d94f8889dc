---------------------------- MODULE MCBuildPackage ----------------------------
(***************************************************************************)
(* Small build graphs for BuildPackage.                                    *)
(***************************************************************************)
EXTENDS BuildPackage

(* The kinds by which node n may depend on an earlier node.                 *)
Kinds == SUBSET {"normal", "build"}

(* The edges of node n to the nodes it depends on by `kind`.                *)
EdgesOf(n, choice, kind) ==
  SelectSeq([k \in 1..n |-> k - 1], LAMBDA m : kind \in choice[<<n, m>>])

GraphMissing(size, choice, scripts, libraries, binaries, missing) ==
  [k \in 1..size |->
     [dependencies |-> EdgesOf(k - 1, choice, "normal"),
      buildDependencies |-> EdgesOf(k - 1, choice, "build"),
      buildScript |-> k - 1 \in scripts,
      library |-> k - 1 \in libraries,
      binaries |-> binaries /\ k = size,
      sourceFound |-> k - 1 \notin missing]]

Graph(size, choice, scripts, libraries, binaries) ==
  GraphMissing(size, choice, scripts, libraries, binaries, {})

Pairs(size) == {e \in (0..size - 1) \X (0..size - 1) : e[2] < e[1]}

(* Every shape of three nodes, with or without libraries, and every shape   *)
(* of four nodes that have every target; the sources of some are missing.   *)
MCGraphs ==
  {Graph(3, choice, scripts, libraries, binaries) :
     choice \in [Pairs(3) -> Kinds], scripts \in {{}, {1}, 0..2},
     libraries \in SUBSET (0..2), binaries \in BOOLEAN}
  \cup {Graph(4, choice, 0..3, 0..3, TRUE) : choice \in [Pairs(4) -> Kinds]}
  \cup {Graph(1, <<>>, {}, {}, TRUE)}
  \cup {GraphMissing(3, choice, {1}, libraries, TRUE, missing) :
          choice \in [Pairs(3) -> {{}, {"normal"}}],
          libraries \in {{1}, 0..2}, missing \in {{0}, {1}, {2}, 0..2}}

(* A root with binaries and no library, alone or with dependencies.         *)
BinaryRootGraphs ==
  {Graph(1, <<>>, {}, {}, TRUE)} \cup
  {Graph(3, choice, {}, 0..1, TRUE) : choice \in [Pairs(3) -> Kinds]}

(* A dependency without a library.                                          *)
BinaryDependencyGraphs ==
  {Graph(3, choice, {}, 1..2, FALSE) : choice \in [Pairs(3) -> Kinds]}

===============================================================================
