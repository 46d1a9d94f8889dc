----------------------------- MODULE CompileUnits -----------------------------
(***************************************************************************)
(* From a resolved workspace to compiled files.  The evaluator makes the   *)
(* nodes of the graph, then, node by node, the derivations: the deps       *)
(* directory ("deps"), the build script ("build"), the library ("lib") and *)
(* the binaries ("bin").  A derivation is an attribute set, a function     *)
(* from names to sequences of items, where an item [type, node] is a       *)
(* derivation or says who has set the attribute.  Nix then builds the      *)
(* derivations, each after its inputs and otherwise in any order: that is  *)
(* when the phases of make_derivation.rs and the parser of the output of   *)
(* build scripts run.                                                      *)
(*                                                                         *)
(* Besides the fields of NodeContents the workspace has                    *)
(*   global_overrides   attributes, or None                                *)
(*   crate_overrides    by package name, a function of the user: the       *)
(*                      attributes it returns, whether it adds them to its *)
(*                      argument, and whether it throws; or None           *)
(*   printed            the keys each package's build script prints        *)
(***************************************************************************)
EXTENDS RustcCommands, FiniteSets

CONSTANT Workspaces

(* A dependency precedes the package, is admitted by its requirement, and  *)
(* has a library, as build_package expects; the name of a library has no   *)
(* "-", and a procedural macro is nothing else (Cargo sees to both).  What *)
(* an override adds to the inputs is not one of these derivations.         *)
ASSUME WorkspacesAssumption ==
  \A w \in Workspaces :
    /\ Len(w.packages) \in Nat \ {0}
    /\ \A k \in 1..Len(w.packages) :
         LET targets == w.packages[k].targets
         IN  /\ w.deps[k] \in Seq(ToSet(w.deps[k]))
             /\ \A d \in ToSet(w.deps[k]) :
                  /\ d.kind \in {"normal", "build", "development"}
                  /\ d.kind # "development" =>
                       /\ d.to \in 1..(k - 1) /\ LibraryCrate(w, d.to) # None
                       /\ w.packages[d.to].version \in d.version_req
             /\ targets \in Seq(ToSet(targets))
             /\ \A t \in ToSet(targets) : t.kind = "lib" =>
                  /\ t.name \in Seq(ToSet(t.name) \ {"-"})
                  /\ "ProcMacro" \in ToSet(t.formats) => t.formats = <<"ProcMacro">>
    /\ LET crates == IF w.crate_overrides = None THEN {} ELSE DOMAIN w.crate_overrides
           given == {w.crate_overrides[name].attrs : name \in crates}
                      \cup ({w.global_overrides} \ {None})
       IN  \A attrs \in given :
             "buildInputs" \in DOMAIN attrs =>
               attrs.buildInputs \in Seq([type : {"native"}, node : Nat])

VARIABLES ws,     \* the workspace; never changes
          graph,  \* BuildGraph::nodes
          drvs,   \* the derivations made, by [type, node]
          op,     \* "graph", "evaluate", "build"; "error" of an override; "panic" over
                  \* a node, "missing" over a source that is not found
          built   \* what is in the output of each derivation built

vars == <<ws, graph, drvs, op, built>>

Item(type, node) == [type |-> type, node |-> node]
Size == Len(ws.packages)

(* f and the value of one more argument. *)
With(f, x, value) == [y \in DOMAIN f \cup {x} |-> IF y = x THEN value ELSE f[y]]

(***************************************************************************)
(* The graph.                                                              *)
(***************************************************************************)
MakeNode ==
  /\ op = "graph"
  /\ LET k == Len(graph) + 1
     IN  /\ ~NodePanics(ws, k)
         /\ graph' = Append(graph, BuildGraphNode(ws, k))
         /\ op' = IF k = Size THEN "evaluate" ELSE op
  /\ UNCHANGED <<ws, drvs, built>>

NodeFails ==
  /\ op = "graph" /\ NodePanics(ws, Len(graph) + 1)
  /\ op' = "panic"
  /\ UNCHANGED <<ws, graph, drvs, built>>

(***************************************************************************)
(* The derivations of the graph, in the order they are made.               *)
(***************************************************************************)
DrvsOf(k) ==
  << Item("deps", k) >>
    \o (IF graph[k].build_script = None THEN << >> ELSE << Item("build", k) >>)
    \o (IF graph[k].library = None THEN << >> ELSE << Item("lib", k) >>)
    \o (IF graph[k].binaries = << >> THEN << >> ELSE << Item("bin", k) >>)

AllDrvs == FlattenSeq([k \in DOMAIN graph |-> DrvsOf(k)])

HasDrv(type, k) == Contains(DrvsOf(k), Item(type, k))

NextDrv == AllDrvs[Cardinality(DOMAIN drvs) + 1]

(***************************************************************************)
(* Overrides.  In a merge the attributes of the right side win.            *)
(***************************************************************************)
merge(left, right) ==
  [a \in DOMAIN left \cup DOMAIN right |-> IF a \in DOMAIN right THEN right[a] ELSE left[a]]

NoAttributes == [a \in {} |-> << >>]
OrNone(attrs) == IF attrs = None THEN NoAttributes ELSE attrs

HasOverride(k) ==
  ws.crate_overrides # None /\ graph[k].name \in DOMAIN ws.crate_overrides

OverrideOf(k) == ws.crate_overrides[graph[k].name]

Throws(k) == HasOverride(k) /\ OverrideOf(k).throws

apply_overrides(k) ==
  LET argument == merge(OrNone(ws.global_overrides),
                        [version |-> << Item("unit", k) >>])
  IN  IF ~HasOverride(k) THEN OrNone(ws.global_overrides)
      ELSE IF OverrideOf(k).extends THEN merge(argument, OverrideOf(k).attrs)
      ELSE OverrideOf(k).attrs

InputsIn(attrs, name) == IF name \in DOMAIN attrs THEN attrs[name] ELSE << >>

(***************************************************************************)
(* make_deps and make_derivation.                                          *)
(***************************************************************************)
DirectDeps(k, kind) ==
  [i \in DOMAIN DepsOfKind(ws, k, kind) |-> DepsOfKind(ws, k, kind)[i].to]

LibraryDrvs(nodes) == [i \in DOMAIN nodes |-> Item("lib", nodes[i])]

AllDirectDeps(k) == LibraryDrvs(DirectDeps(k, "build") \o DirectDeps(k, "normal"))

make_deps_args(k) ==
  [buildInputs |-> AllDirectDeps(k) \o InputsIn(apply_overrides(k), "buildInputs")]

DirectOf(type, k) == DirectDeps(k, IF type = "build" THEN "build" ELSE "normal")

BuildScriptDrv(type, k) ==
  IF type = "build" \/ ~HasDrv("build", k) THEN << >> ELSE << Item("build", k) >>

LibraryDrv(type, k) ==
  IF type # "bin" \/ ~HasDrv("lib", k) THEN << >> ELSE << Item("lib", k) >>

OwnArguments ==
  {"name", "src", "configurePhase", "buildPhase", "installPhase", "dontStrip",
   "stripExclude", "version"}

make_derivation_args(type, k) ==
  LET overrides == apply_overrides(k)
      own == [a \in OwnArguments |-> << Item("unit", k) >>]
      inputs ==
        [nativeBuildInputs |-> << Item("parse-build-script-output", 0), Item("rustc", 0) >>
                                 \o InputsIn(overrides, "nativeBuildInputs"),
         buildInputs |-> BuildScriptDrv(type, k) \o LibraryDrv(type, k)
                           \o << Item("deps", k) >> \o LibraryDrvs(DirectOf(type, k))
                           \o InputsIn(overrides, "buildInputs")]
  IN  merge(merge(own, overrides), inputs)

(* The lookup of the source among the vendored ones finds nothing. *)
SourceMissing(d) ==
  /\ d.type # "deps" /\ graph[d.node].package_src = "vendored"
  /\ ~ws.packages[d.node].found

Make ==
  /\ op = "evaluate"
  /\ LET d == NextDrv
     IN  /\ ~SourceMissing(d) /\ ~Throws(d.node)
         /\ drvs' = With(drvs, d, IF d.type = "deps" THEN make_deps_args(d.node)
                                  ELSE make_derivation_args(d.type, d.node))
         /\ op' = IF d = Last(AllDrvs) THEN "build" ELSE op
  /\ UNCHANGED <<ws, graph, built>>

OverrideFails ==
  /\ op = "evaluate" /\ ~SourceMissing(NextDrv) /\ Throws(NextDrv.node)
  /\ op' = "error"
  /\ UNCHANGED <<ws, graph, drvs, built>>

SourceFails ==
  /\ op = "evaluate" /\ SourceMissing(NextDrv)
  /\ op' = "missing"
  /\ UNCHANGED <<ws, graph, drvs, built>>

(***************************************************************************)
(* parse-build-script-output.sh, run on the keys a build script prints:    *)
(* the arguments it puts in EXTRA_RUSTC_ARGS and the variables it exports  *)
(* in common.sh, which lib.sh and bin.sh source.                           *)
(***************************************************************************)
SharedKeys == {"rustc-flags", "rustc-cfg", "rustc-link-arg", "rustc-link-lib",
               "rustc-link-search"}
LibraryKeys == {"rustc-link-arg-lib", "rustc-cdylib-link-arg"}
BinaryKeys == {"rustc-link-arg-bins"}
VariableKeys == {"rustc-env", "metadata"}

(* What a derivation of [type] finds in the file it sources. *)
ScriptFile(k, type) ==
  [args |-> ws.printed[k] \cap
              (SharedKeys \cup (IF type = "lib" THEN LibraryKeys ELSE BinaryKeys)),
   exports |-> ws.printed[k] \cap VariableKeys]

Environment(source, file) ==
  [args |-> {<<source, key>> : key \in file.args},
   exports |-> {<<source, key>> : key \in file.exports}]

NothingSourced == [args |-> {}, exports |-> {}]

(* Mutant: the file for libraries is sourced by binaries as well. *)
configure_phase_lib(type, k) ==
  IF BuildScriptDrv(type, k) = << >> THEN NothingSourced
  ELSE Environment(k, ScriptFile(k, "lib"))

configure_phase(type, k) ==
  IF BuildScriptDrv(type, k) = << >> THEN NothingSourced
  ELSE Environment(k, ScriptFile(k, type))

(***************************************************************************)
(* Building.  What a phase of the user's does in place of the code's is    *)
(* unknown; it is taken to do nothing of what the code's would have done.  *)
(* A build that fails is one that never happens.                           *)
(***************************************************************************)
(* No override has replaced the argument. *)
Own(d, argument) == drvs[d][argument] = << Item("unit", d.node) >>

build_phase(type, k) ==
  LET crates == CratesOf(type, graph[k])
  IN  [i \in DOMAIN crates |->
        build_rustc_args(ws, graph, k, crates[i], DirectOf(type, k))]

Compiled(d) ==
  LET commands == IF Own(d, "buildPhase") THEN build_phase(d.type, d.node) ELSE << >>
  IN  [commands |-> commands, files |-> UNION {FilesWritten(c) : c \in ToSet(commands)},
       natives |-> {},
       environment |-> IF Own(d, "configurePhase") THEN configure_phase(d.type, d.node)
                       ELSE NothingSourced]

IsNative(item) == item.type = "native"

NativesOf(d) == {item \in ToSet(drvs[d].buildInputs) : IsNative(item)}

(* Mutant: the native directories of the dependencies are not copied. *)
deps_install_phase_own(k) ==
  [commands |-> << >>, files |-> {}, natives |-> NativesOf(Item("deps", k)),
   environment |-> NothingSourced]

(* Each direct dependency holds a link to its own deps directory. *)
deps_install_phase(k) ==
  [commands |-> << >>, files |-> {},
   natives |-> NativesOf(Item("deps", k)) \cup
                 UNION {built[Item("deps", d.node)].natives : d \in ToSet(AllDirectDeps(k))},
   environment |-> NothingSourced]

(* What a phase reads and another phase, of this derivation or of an       *)
(* input, has left: the deps directories of the dependencies, which their  *)
(* configure phases link; the executable that the install phase of a build *)
(* script runs; the files that it writes and a configure phase sources.    *)
PhasesFind(d) ==
  /\ d.type = "deps" => \A e \in ToSet(AllDirectDeps(d.node)) : Own(e, "configurePhase")
  /\ d.type = "build" /\ Own(d, "installPhase") => Own(d, "buildPhase")
  /\ d.type # "deps" /\ Own(d, "configurePhase") =>
       \A script \in ToSet(BuildScriptDrv(d.type, d.node)) : Own(script, "installPhase")

CanBuild(d) ==
  /\ d \notin DOMAIN built
  /\ \A input \in ToSet(drvs[d].buildInputs) :
       input \in DOMAIN drvs => input \in DOMAIN built
  /\ PhasesFind(d)

Build(d) ==
  /\ op = "build" /\ CanBuild(d)
  /\ built' = With(built, d, IF d.type = "deps" THEN deps_install_phase(d.node)
                             ELSE Compiled(d))
  /\ UNCHANGED <<ws, graph, drvs, op>>

(***************************************************************************)
(* The specification.                                                      *)
(***************************************************************************)
Init ==
  /\ ws \in Workspaces
  /\ graph = << >> /\ drvs = << >> /\ op = "graph" /\ built = << >>

Next ==
  \/ MakeNode
  \/ NodeFails
  \/ Make
  \/ OverrideFails
  \/ SourceFails
  \/ \E d \in DOMAIN drvs : Build(d)

Spec == Init /\ [][Next]_vars
-------------------------------------------------------------------------------
(***************************************************************************)
(* Properties.                                                             *)
(***************************************************************************)
(* A node has binaries only if it is the root's, derivations are made in   *)
(* the order of the graph, each after the derivations among its inputs,    *)
(* and built only when made.                                               *)
TypeOK ==
  /\ op \in {"graph", "evaluate", "build", "error", "panic", "missing"}
  /\ Len(graph) \in 0..Size
  /\ \A k \in DOMAIN graph : graph[k].binaries # << >> => k = Size
  /\ op \in {"graph", "panic"} => drvs = << >>
  /\ op # "build" => built = << >>
  /\ DOMAIN drvs = {AllDrvs[i] : i \in 1..Cardinality(DOMAIN drvs)}
  /\ \A d \in DOMAIN drvs : \A input \in ToSet(drvs[d].buildInputs) :
       input.type = "native" \/ input \in DOMAIN drvs
  /\ DOMAIN built \subseteq DOMAIN drvs

KindFor(d) == IF d.type = "build" THEN "build" ELSE "normal"

(* What the code needs to tell two dependencies on packages of one name    *)
(* apart: both are renamed, and neither's requirement admits the other's   *)
(* version.  Two entries for one package must agree.                       *)
Told(dep, other) ==
  IF dep.to = other.to THEN dep.rename = other.rename
  ELSE /\ dep.rename # None /\ other.rename # None
       /\ ws.packages[other.to].version \notin dep.version_req
       /\ ws.packages[dep.to].version \notin other.version_req

AllTold(deps) ==
  \A i, j \in DOMAIN deps :
    NameOf(ws, deps[i]) = NameOf(ws, deps[j]) => Told(deps[i], deps[j])

NameInToml(dep) ==
  IF dep.rename = None THEN graph[dep.to].library.name ELSE dep.rename

(* Every crate is compiled against the library of each dependency of its   *)
(* kind, under the name its manifest has for it, where the dependencies    *)
(* can be told apart.  The renames are collected from the resolve, the     *)
(* libraries from the edges, and the two meet only in package names.       *)
RenamedAsInToml ==
  \A d \in DOMAIN built : \A c \in ToSet(built[d].commands) :
    LET deps == DepsOfKind(ws, d.node, KindFor(d))
    IN  AllTold(deps) =>
          /\ Len(c.externs) = Len(deps)
          /\ \A i \in DOMAIN deps :
               /\ c.externs[i].drv = Item("lib", deps[i].to)
               /\ c.externs[i].name = Underscored(NameInToml(deps[i]))

LinkableStatically(k) ==
  \E f \in ToSet(graph[k].library.formats) : f \in {"Lib", "Rlib", "ProcMacro"}

(* The file a command links is one that the dependency's command has       *)
(* written: its name is computed twice, from the crate that is compiled    *)
(* and from the node of the dependency.  Not so for a library that is only *)
(* dynamic, or one whose build phase is overridden.                        *)
LibrariesFound ==
  \A d \in DOMAIN built : \A c \in ToSet(built[d].commands) :
    \A e \in ToSet(c.externs) :
      LinkableStatically(e.drv.node) /\ Own(e.drv, "buildPhase") =>
        e.drv \in DOMAIN built /\ e.file \in built[e.drv].files

(* Whether a row of parts can be taken apart again: versions, features and *)
(* flags have no part in common, and no feature begins with another.       *)
FeaturesApart ==
  LET PartsOf(rows) == UNION {ToSet(row) : row \in rows}
      libraries == {graph[k].library : k \in DOMAIN graph} \ {None}
      versions == {graph[k].version : k \in DOMAIN graph}
      features == UNION {ToSet(graph[k].features) : k \in DOMAIN graph}
      flags == {library.build_opts.extra_rustc_args : library \in libraries}
  IN  /\ PartsOf(versions) \cap PartsOf(features) = {}
      /\ PartsOf(versions) \cap PartsOf(flags) = {}
      /\ PartsOf(features) \cap PartsOf(flags) = {}
      /\ \A f, g \in features : IsPrefix(f, g) => f = g

(* Two libraries whose files have one name, and so replace each other in a *)
(* deps directory, have the same library name, version and features,       *)
(* unless the parts of their hashes can be cut in more than one way: they  *)
(* are hashed with nothing between them.                                   *)
LibrariesDistinct ==
  FeaturesApart =>
    \A d, e \in DOMAIN built :
      d.type = "lib" /\ e.type = "lib" /\ built[d].files \cap built[e].files # {} =>
        LET a == graph[d.node]
            b == graph[e.node]
        IN  /\ a.library.name = b.library.name
            /\ a.version = b.version /\ a.features = b.features

Below[k \in 1..Size] ==
  {k} \cup UNION {Below[d.to] : d \in {x \in ToSet(ws.deps[k]) : x.kind # "development"}}

NativeInputs(attrs) == {x \in ToSet(InputsIn(attrs, "buildInputs")) : IsNative(x)}

(* The native libraries that the user's overrides give a package: those of *)
(* its own override, or the global ones where it has none or adds to them. *)
GivenTo(k) ==
  LET global == OrNone(ws.global_overrides)
  IN  IF ~HasOverride(k) THEN NativeInputs(global)
      ELSE IF "buildInputs" \notin DOMAIN OverrideOf(k).attrs /\ OverrideOf(k).extends
           THEN NativeInputs(global)
      ELSE NativeInputs(OverrideOf(k).attrs)

(* The native libraries given to a package, and to every package it needs  *)
(* however far below, are in the deps directory of each derivation that is *)
(* built of it, whichever phases the overrides replace.                    *)
OverridesReach ==
  \A d \in DOMAIN built : d.type # "deps" =>
    /\ GivenTo(d.node) \subseteq ToSet(drvs[d].buildInputs)
    /\ \A k \in Below[d.node] : GivenTo(k) \subseteq built[Item("deps", d.node)].natives

ForTarget(key, type) ==
  \/ key \in {"rustc-flags", "rustc-cfg", "rustc-link-arg", "rustc-link-lib",
              "rustc-link-search"}
  \/ key \in {"rustc-link-arg-lib", "rustc-cdylib-link-arg"} /\ type = "lib"
  \/ key = "rustc-link-arg-bins" /\ type = "bin"

(* The overrides of the package give it inputs, and nothing else. *)
OnlyInputs(k) ==
  DOMAIN apply_overrides(k) \subseteq {"version", "buildInputs", "nativeBuildInputs"}

(* The arguments a crate gets from a build script are those its own        *)
(* package's script prints for that target, and the script has been run by *)
(* then; the script itself gets none.  An override of a phase can change   *)
(* that.                                                                   *)
FlagsOfOwnScript ==
  \A d \in DOMAIN built : d.type # "deps" /\ OnlyInputs(d.node) =>
    LET printed == IF HasDrv("build", d.node) /\ d.type # "build"
                   THEN ws.printed[d.node] ELSE {}
    IN  /\ built[d].environment.args
             = {<<d.node, key>> : key \in {x \in printed : ForTarget(x, d.type)}}
        /\ printed # {} => Item("build", d.node) \in DOMAIN built

(* "Add metadata environment variables for downstream crates."  What the   *)
(* build script of a package with `links` prints as metadata is in the     *)
(* environment of the build scripts of its dependents.  The variables are  *)
(* exported by a file that only the package's own crates source.           *)
MetadataReachesDependents ==
  \A d \in DOMAIN built : d.type = "build" =>
    \A j \in {dep.to : dep \in ToSet(DepsOfKind(ws, d.node, "normal"))} :
      ws.packages[j].links /\ "metadata" \in ws.printed[j] =>
        <<j, "metadata">> \in built[d].environment.exports
-------------------------------------------------------------------------------
(* The inductive invariant behind these properties.                        *)

Nodes == {BuildGraphNode(ws, k) : k \in 1..Size}

GraphMade ==
  /\ op \in {"graph", "evaluate", "build", "error", "panic", "missing"}
  /\ graph \in Seq(Nodes) /\ Len(graph) <= Size
  /\ \A k \in 1..Len(graph) : graph[k] = BuildGraphNode(ws, k)
  /\ op = "graph" => Len(graph) < Size
  /\ op \in {"evaluate", "build", "error", "missing"} => Len(graph) = Size

ArgsOf(d) ==
  IF d.type = "deps" THEN make_deps_args(d.node) ELSE make_derivation_args(d.type, d.node)

(* The first ones have been made, each as its package has it.              *)
DrvsMade ==
  /\ \E n \in Nat :
       /\ DOMAIN drvs = {AllDrvs[i] : i \in 1..n}
       /\ IsFiniteSet(DOMAIN drvs) /\ Cardinality(DOMAIN drvs) = n
       /\ op \in {"evaluate", "error", "missing"} => n = 0 \/ n < Len(AllDrvs)
       /\ op = "build" => n = Len(AllDrvs)
  /\ op \in {"graph", "panic"} => drvs = << >>
  /\ \A d \in DOMAIN drvs : drvs[d] = ArgsOf(d)

ResultOf(d) == IF d.type = "deps" THEN deps_install_phase(d.node) ELSE Compiled(d)

(* What is built is made of its inputs, which were built before.           *)
DrvsBuilt ==
  /\ op # "build" => built = << >>
  /\ DOMAIN built \subseteq DOMAIN drvs
  /\ \A d \in DOMAIN built :
       /\ built[d] = ResultOf(d)
       /\ \A input \in ToSet(drvs[d].buildInputs) :
            input \in DOMAIN drvs => input \in DOMAIN built

CompileInv == ws \in Workspaces /\ GraphMade /\ DrvsMade /\ DrvsBuilt
===============================================================================
