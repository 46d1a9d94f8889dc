------------------------------ MODULE MCBuildCall ------------------------------
(***************************************************************************)
(* Small resolves and manifests for BuildCall.  Packages are numbered so   *)
(* that a followed dependency has a smaller number; the root has the       *)
(* largest.                                                                *)
(***************************************************************************)
EXTENDS BuildCall

MCPackages == 1..4
MCRoot == 4

(* The entries a resolve may have for one dependency package, in an order   *)
(* that the `HashSet` they come from leaves open.                           *)
None     == <<>>
Normal   == <<"normal", TRUE>>
ForBuild == <<"build", TRUE>>
Dev      == <<"dev", TRUE>>
Foreign  == <<"normal", FALSE>>

Plain == {None, <<Normal>>, <<ForBuild>>}
Rich  == Plain \cup {<<Normal, ForBuild>>, <<ForBuild, Normal>>, <<Dev, Normal>>,
                     <<Normal, Foreign, ForBuild>>, <<Normal, Normal>>}

Entries(q, choice) ==
  [k \in DOMAIN choice |->
     [pkg |-> q, kind |-> choice[k][1], active |-> choice[k][2]]]

Ascending  == <<1, 2, 3, 4>>
Descending == <<4, 3, 2, 1>>

(* The dependencies of p: for every package q, taken in `order`, the        *)
(* entries choice[<<p, q>>].                                                *)
DepsFrom(choice, order, p) ==
  FlattenSeq([k \in DOMAIN order |->
    IF <<p, order[k]>> \in DOMAIN choice
    THEN Entries(order[k], choice[<<p, order[k]>>])
    ELSE <<>>])

Resolve(choice, order, status) ==
  [deps |-> [p \in MCPackages |-> DepsFrom(choice, order, p)], status |-> status]

AllOk == [p \in MCPackages |-> "ok"]

Downward(S) == {e \in S \X S : e[2] < e[1]}

(* Every graph on four packages with edges of either kind; package 1 has    *)
(* the root as a development dependency.                                    *)
WideResolves ==
  {Resolve(choice @@ (<<1, 4>> :> <<Dev>>), Descending, AllOk) :
     choice \in [Downward(1..4) -> Plain]}

(* Three packages, the root with all shapes of entries, both orders.        *)
RichResolves ==
  {Resolve(root @@ (<<3, 2>> :> other), order, AllOk) :
     root \in [{<<4, 2>>, <<4, 3>>} -> Rich],
     other \in Plain, order \in {Ascending, Descending}}

(* Three packages of which some cannot be turned into a node.               *)
BrokenResolves ==
  {Resolve(choice, Ascending, [AllOk EXCEPT ![2] = s, ![3] = t]) :
     choice \in [Downward(2..4) -> {None, <<Normal>>, <<Foreign>>}],
     s \in Status, t \in {"ok", "missing"}}

(* Every package may have the root, or itself, as a development dependency. *)
CyclicResolves ==
  {Resolve([e \in Downward(2..4) |-> down[e]]
             @@ [e \in {<<p, p>> : p \in selfDev} |-> <<Dev>>]
             @@ [e \in {<<p, 4>> : p \in rootDev} |-> <<Dev, Dev>>],
           Ascending, AllOk) :
     down \in [Downward(2..4) -> {None, <<Normal>>}],
     selfDev \in SUBSET {2, 3}, rootDev \in SUBSET {2, 3}}

MCResolves == WideResolves \cup RichResolves \cup BrokenResolves \cup CyclicResolves

(* At most one package has no library, with it go the build scripts; or the *)
(* source of one package is not found.                                      *)
Manifest(without, unfound) ==
  [p \in MCPackages |->
     [buildScript |-> without = 0, library |-> p # without, binaries |-> p = MCRoot,
      sourceFound |-> p # unfound]]

MCManifests == {Manifest(without, 0) : without \in {0, 2, 4}} \cup {Manifest(0, 3)}

(* The node vector as a function of the packages a package depends on,      *)
(* listed once each in the order the resolve first names them: the post-    *)
(* order of a depth-first search that never sees the entries' kinds.        *)
RECURSIVE PostOrder(_, _), PostOrderAll(_, _)
PostOrder(p, done) ==
  IF p \in ToSet(done) THEN done
  ELSE LET followed == SelectSeq(DepsOf(p), Followed)
           packages == [k \in DOMAIN followed |-> followed[k].pkg]
       IN  Append(PostOrderAll(packages, done), p)
PostOrderAll(ps, done) ==
  IF ps = <<>> THEN done ELSE PostOrderAll(Tail(ps), PostOrder(Head(ps), done))

(* The finished vector is the post-order of the packages: interleaving the  *)
(* kinds, which come out of a HashSet in any order, does not show in it.    *)
NodesInPostOrder == op = "done" => nodes = PostOrder(Root, <<>>)

===============================================================================
