------------------------------- MODULE BuildCall -------------------------------
(***************************************************************************)
(* `BuildPackage::call` (src/src/build_package.rs) from the resolve to the *)
(* derivation it returns: `BuildGraph::new` is called with the root of the *)
(* resolve (src/src/resolve_build_graph.rs), and when it has returned, the *)
(* loop over the nodes starts.  The first part is BuildGraph, whose        *)
(* variables keep their names; the second is an instance of BuildPackage   *)
(* that walks the nodes and edges the first has left.                      *)
(***************************************************************************)
EXTENDS BuildGraph, BuildGraphShape

CONSTANT Manifests  (* What the manifests may say: the targets of each package. *)

(* Binaries are looked for in the root package only.                        *)
ASSUME ManifestsAssumption ==
  \A t \in Manifests :
    /\ t \in [Packages -> Targets]
    /\ \A p \in Packages : t[p].binaries => p = Root

VARIABLES
  targets,             (* What the manifests say.                           *)
  loopOp,              (* BuildPackage's `op`, or "waiting" for the graph.   *)
  nodeIdx, libraryDerivations, derivations, forced,
  returned             (* BuildPackage's `result`.                           *)

insertVars == vars
loopVars == <<loopOp, nodeIdx, libraryDerivations, derivations, forced, returned>>
callVars == <<insertVars, targets, loopVars>>

(* The nodes and edges, as the loop sees them.                              *)
BuiltGraph == [n \in DOMAIN nodes |-> NodeWith(targets[nodes[n]], edges[n])]

Loop == INSTANCE BuildPackage
          WITH Graphs <- {g \in Seq(Node) : IsBuildGraph(g)},
               graph  <- BuiltGraph,
               op     <- loopOp,
               result <- returned

Insert == Step /\ UNCHANGED <<targets, loopVars>>

(* The graph was returned.                                                  *)
StartLoop ==
  /\ op = "done" /\ loopOp = "waiting"
  /\ loopOp' = "deps"
  /\ UNCHANGED <<insertVars, targets, nodeIdx, libraryDerivations, derivations, forced, returned>>

Build ==
  /\ UNCHANGED <<insertVars, targets>>
  /\ \/ Loop!MakeDeps \/ Loop!MakeBuildScript \/ Loop!MakeLibrary \/ Loop!MakeBinaries
     \/ Loop!Fail \/ Loop!Panic \/ Loop!Return

CallEnded == op = "panic" \/ Loop!Stopped

CallTerminating == CallEnded /\ UNCHANGED callVars

CallInit ==
  /\ Init
  /\ targets \in Manifests
  /\ loopOp = "waiting"
  /\ nodeIdx = 0
  /\ libraryDerivations = <<>>
  /\ derivations = [drv \in {} |-> <<>>]
  /\ forced = {}
  /\ returned = <<>>

CallStep == Insert \/ StartLoop \/ Build

CallNext == CallStep \/ CallTerminating

CallSpec == CallInit /\ [][CallNext]_callVars

(* Both parts are ordinary sequential code: nothing makes it wait, so it    *)
(* takes its next step as long as it has one.                               *)
CallFairSpec == CallSpec /\ WF_callVars(CallStep)

-------------------------------------------------------------------------------
(* Properties.                                                              *)

PackageOf(idx) == nodes[idx + 1]

(* Everything package p needs, by normal and build dependencies.            *)
NeededFor(p) ==
  {q \in Packages :
     \A S \in SUBSET Packages :
       FollowedDeps(resolve, p) \subseteq S /\ Order!Closed(S) => q \in S}

(* Every package that others depend on has a library.                       *)
DependenciesLinkable == \A p \in Order!Needed \ {Root} : targets[p].library

(* Which dependencies a target of each kind is compiled against.            *)
KindFor(type) == IF type = "build" THEN "build" ELSE "normal"

(* What Cargo resolved is what rustc is told: a target of a package is      *)
(* compiled against the libraries of the package's own dependencies of the  *)
(* kind, one each, in the order of the resolve.  In between, packages have  *)
(* become indices and indices positions in a vector of derivations.         *)
ExternsAsResolved ==
  DependenciesLinkable =>
  \A drv \in DOMAIN derivations :
    LET ds      == DepsOf(PackageOf(drv.node))
        externs == derivations[drv].externs
    IN  /\ drv.type # "deps" =>
             EdgesOf(ds, nodes, [k \in DOMAIN externs |-> externs[k].node],
                     KindFor(drv.type), Len(ds))
        /\ \A k \in DOMAIN externs : externs[k].drv = Loop!Drv("lib", externs[k].node)

(* The directory a package is compiled in has the libraries of the packages *)
(* it needs according to the resolve, however far down, and of no other.    *)
DirectoriesAsResolved ==
  DependenciesLinkable =>
  \A drv \in DOMAIN derivations :
    {PackageOf(m) : m \in derivations[drv].dir} = NeededFor(PackageOf(drv.node))

(* The call returns the library of the requested package, made of the       *)
(* libraries of everything that package needs.                              *)
ReturnsRequestedLibrary ==
  loopOp = "done" /\ DependenciesLinkable /\ targets[Root].library =>
    \E drv \in DOMAIN derivations :
      /\ returned = <<drv>>
      /\ drv.type = "lib" /\ PackageOf(drv.node) = Root
      /\ {PackageOf(m) : m \in derivations[drv].dir} = Order!Needed \ {Root}

(* From the resolve on, the call panics only over a package the root needs: *)
(* one that cannot be made a node of, whose source is not found, or that    *)
(* has no library.                                                          *)
PanicsOverNeeded ==
  op = "panic" \/ loopOp \in Loop!Panics =>
    \E p \in Order!Needed :
      resolve.status[p] # "ok" \/ ~targets[p].library \/ ~targets[p].sourceFound

(* The call ends, with a derivation, an error or a panic: the recursion     *)
(* also where development dependencies close a cycle.                       *)
CallEnds == <>CallEnded

-------------------------------------------------------------------------------
(* The inductive invariant behind these properties.                         *)

(* The loop does not run before the graph is finished.                      *)
LoopWaits ==
  /\ op # "done" => loopOp = "waiting"
  /\ loopOp = "waiting" =>
       /\ nodeIdx = 0 /\ libraryDerivations = <<>> /\ forced = {} /\ returned = <<>>
       /\ derivations = [drv \in {} |-> <<>>]

(* A package that makes the insertion panic is one that the root needs.     *)
PanicOfNeeded ==
  op = "panic" => \E p \in Order!Needed : resolve.status[p] # "ok"

(* Together with those of the two parts they are inductive, for a given     *)
(* resolve and given manifests.                                             *)
CallInv ==
  /\ Inv
  /\ PanicOfNeeded
  /\ LoopWaits
  /\ loopOp # "waiting" => Loop!Inv /\ Loop!ExternsOfEdges

===============================================================================
