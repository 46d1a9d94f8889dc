------------------------------ MODULE BuildOrder ------------------------------
(***************************************************************************)
(* What the documentation of `BuildGraph` promises about its node vector,  *)
(* with nothing of how the vector is computed: the packages the root needs *)
(* are laid out one by one, each of them after everything it depends on.   *)
(*                                                                         *)
(* Module BuildGraph, the recursion that really fills the vector, is shown *)
(* to implement this specification.                                        *)
(***************************************************************************)
EXTENDS Sequences, SequencesExt

CONSTANTS
  Packages,  (* The packages of the resolve.                                *)
  Root       (* The package whose graph is built.                           *)

VARIABLES
  deps,      (* deps[p]: the packages p needs to be built, p's edges.       *)
  order      (* The packages laid out so far, `BuildGraph::nodes`.          *)

vars == <<deps, order>>

Closed(S) == \A p \in S : deps[p] \subseteq S

(* What the root needs: the least set with the root in it that is closed.   *)
Needed == {p \in Packages :
             \A S \in SUBSET Packages : Root \in S /\ Closed(S) => p \in S}

Init ==
  /\ deps \in [Packages -> SUBSET Packages]
  /\ order = <<>>

Place(p) ==
  /\ p \in Needed \ ToSet(order)
  /\ deps[p] \subseteq ToSet(order)
  /\ order' = Append(order, p)
  /\ UNCHANGED deps

Next == \E p \in Packages : Place(p)

Spec == Init /\ [][Next]_vars

===============================================================================
