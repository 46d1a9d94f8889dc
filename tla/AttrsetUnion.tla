------------------------------ MODULE AttrsetUnion ------------------------------
(***************************************************************************)
(* What writing the merge of two attribute sets promises: the Nix value    *)
(* that is built has every key of either side once, with the value of the  *)
(* right side where both have it, and nothing is built when a step fails.  *)
(***************************************************************************)
VARIABLES
  left, right,  \* the two sides, as functions from keys to values
  inserted,     \* what has been inserted so far
  outcome       \* "none", "written" or "error"

vars == <<left, right, inserted, outcome>>

(* `left // right` of the Nix language.                                    *)
Union ==
  [k \in DOMAIN left \cup DOMAIN right |->
     IF k \in DOMAIN right THEN right[k] ELSE left[k]]

Init == DOMAIN inserted = {} /\ outcome = "none"

InsertPair ==
  /\ outcome = "none"
  /\ \E k \in DOMAIN Union \ DOMAIN inserted :
       inserted' = [j \in DOMAIN inserted \cup {k} |-> Union[j]]
  /\ UNCHANGED <<left, right, outcome>>

Finish ==
  /\ outcome = "none"
  /\ inserted = Union
  /\ outcome' = "written"
  /\ UNCHANGED <<left, right, inserted>>

Fail ==
  /\ outcome = "none"
  /\ outcome' = "error"
  /\ UNCHANGED <<left, right, inserted>>

Next == InsertPair \/ Finish \/ Fail

Spec == Init /\ [][Next]_vars
================================================================================
