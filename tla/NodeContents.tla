----------------------------- MODULE NodeContents -----------------------------
(***************************************************************************)
(* What a node of the build graph says of its package: the constructors    *)
(* that build_graph.rs calls when insert_package makes the node.  Here     *)
(* they are operators on a workspace as Cargo has resolved it, a record ws *)
(* with                                                                    *)
(*   packages         the packages in the order of the nodes, root last;   *)
(*                    each has [name, version, features, source, root,     *)
(*                    found, links, profile, targets]; root says where a   *)
(*                    git package lies in the directory of the vendored    *)
(*                    sources, found whether these are known to hold it,   *)
(*                    and a profile is [codegen_units, rustflags]          *)
(*   deps             for each package the sequence of its dependencies,   *)
(*                    each [to, kind, rename, version_req], where rename   *)
(*                    is the name given in the manifest with `package =`,  *)
(*                    or None, and version_req the set of versions it      *)
(*                    admits                                               *)
(*   compile_target   the target compiled for, or None                     *)
(*   rustflags        the flags of the machine compiled for, by kind       *)
(* A name, a version and a feature are sequences of parts, "-" being one,  *)
(* so that a hash of several of them in a row can be told from another.    *)
(***************************************************************************)
EXTENDS Naturals, SequencesExt

CONSTANT None

(* The elements of seq that are in S, in their order. *)
Kept(seq, S) ==
  LET kept[i \in 0..Len(seq)] ==
        IF i = 0 THEN << >>
        ELSE IF seq[i] \in S THEN Append(kept[i - 1], seq[i]) ELSE kept[i - 1]
  IN  kept[Len(seq)]

FirstOr(seq, default) == IF seq = << >> THEN default ELSE Head(seq)

(***************************************************************************)
(* LibraryFormat and BuildOpts.                                            *)
(***************************************************************************)
is_proc_macro(formats) == formats = <<"ProcMacro">>

format_is_usable(format) == format \in {"Dylib", "Lib", "ProcMacro", "Rlib"}

(* The profile is the package's, of the two it has; the flags that follow  *)
(* the profile's are those of the machine the crate is compiled for.       *)
BuildOpts(ws, k, is_build_script_or_proc_macro) ==
  LET unit_for == IF is_build_script_or_proc_macro THEN "host" ELSE "normal"
      compile_kind == IF is_build_script_or_proc_macro \/ ws.compile_target = None
                      THEN "host" ELSE "target"
      profile == ws.packages[k].profile[unit_for]
  IN  [codegen_units |-> profile.codegen_units,
       extra_rustc_args |-> profile.rustflags \o ws.rustflags[compile_kind]]

(***************************************************************************)
(* The renames of the dependencies of a kind, by package name.  The first  *)
(* pass collects them with their version requirements, the second turns    *)
(* those of a single version into simple ones.                             *)
(***************************************************************************)
DepsOfKind(ws, k, kind) == Kept(ws.deps[k], {d \in ToSet(ws.deps[k]) : d.kind = kind})

Renamed(ws, k, kind) ==
  LET deps == DepsOfKind(ws, k, kind)
  IN  Kept(deps, {d \in ToSet(deps) : d.rename # None})

NameOf(ws, dep) == ws.packages[dep.to].name

(* [collapsed]: the numbers of versions for which the rename is simple. *)
RenamesWith(ws, k, kind, collapsed) ==
  LET renamed == Renamed(ws, k, kind)
      versions(name) == Kept(renamed, {d \in ToSet(renamed) : NameOf(ws, d) = name})
  IN  [name \in {NameOf(ws, d) : d \in ToSet(renamed)} |->
        [type |-> IF Len(versions(name)) \in collapsed THEN "Simple" ELSE "Extended",
         versions |-> [i \in DOMAIN versions(name) |->
                        [rename |-> versions(name)[i].rename,
                         version_req |-> versions(name)[i].version_req]]]]

(* Mutant: two versions are collapsed too.                                 *)
dependency_renames_collapsed(ws, k, kind) == RenamesWith(ws, k, kind, {1, 2})

dependency_renames(ws, k, kind) == RenamesWith(ws, k, kind, {1})

(***************************************************************************)
(* The crates of a package.                                                *)
(***************************************************************************)
TargetsOf(package, kind) ==
  Kept(package.targets, {t \in ToSet(package.targets) : t.kind = kind})

LibraryCrate(ws, k) ==
  LET libs == TargetsOf(ws.packages[k], "lib")
  IN  IF libs = << >> THEN None
      ELSE [name |-> Head(libs).name, formats |-> Head(libs).formats,
            build_opts |-> BuildOpts(ws, k, Contains(Head(libs).formats, "ProcMacro"))]

BuildScript(ws, k) ==
  IF TargetsOf(ws.packages[k], "build") = << >> THEN None
  ELSE [build_opts |-> BuildOpts(ws, k, TRUE),
        dependency_renames |-> dependency_renames(ws, k, "build")]

EnabledTargets(package) ==
  LET bins == TargetsOf(package, "bin")
  IN  Kept(bins, {t \in ToSet(bins) : /\ t.path # "metabuild"
                                      /\ t.required_features \subseteq ToSet(package.features)})

EnabledBinaries(ws, k) ==
  LET enabled == EnabledTargets(ws.packages[k])
  IN  [i \in DOMAIN enabled |->
        [name |-> enabled[i].name, build_opts |-> BuildOpts(ws, k, FALSE)]]

(* Mutant: the binaries of every package are kept. *)
BinaryCrates_of_all(ws, k) == EnabledBinaries(ws, k)

BinaryCrates(ws, k) ==
  IF k = Len(ws.packages) THEN EnabledBinaries(ws, k) ELSE << >>

(***************************************************************************)
(* A git package below the root of its repository, and a member of the     *)
(* workspace, are taken from their path; the rest from the vendored        *)
(* sources.                                                                *)
(***************************************************************************)
PackageSource(package) ==
  IF package.source = "path" \/ (package.source = "git" /\ package.root # "repository")
  THEN "path" ELSE "vendored"

(***************************************************************************)
(* The panics of the constructors: a source file that is not below the     *)
(* root of its package (a target's path is "inside" it, "outside" it, or   *)
(* "metabuild", a script that Cargo generates), a format that is not a     *)
(* library's, and a git package that is not among the vendored sources.    *)
(***************************************************************************)
LibraryFormats == {"Cdylib", "Dylib", "Lib", "ProcMacro", "Rlib", "Staticlib"}

FirstIsNotInside(targets) == targets # << >> /\ Head(targets).path # "inside"

NodePanics(ws, k) ==
  LET package == ws.packages[k]
      libs == TargetsOf(package, "lib")
  IN  \/ FirstIsNotInside(libs)
      \/ libs # << >> /\ ~(ToSet(Head(libs).formats) \subseteq LibraryFormats)
      \/ FirstIsNotInside(TargetsOf(package, "build"))
      \/ k = Len(ws.packages) /\ \E t \in ToSet(EnabledTargets(package)) : t.path = "outside"
      \/ package.source = "git" /\ package.root = "elsewhere"

BuildGraphNode(ws, k) ==
  [name |-> ws.packages[k].name, version |-> ws.packages[k].version,
   features |-> ws.packages[k].features,
   binaries |-> BinaryCrates(ws, k), build_script |-> BuildScript(ws, k),
   dependency_renames |-> dependency_renames(ws, k, "normal"),
   library |-> LibraryCrate(ws, k), package_src |-> PackageSource(ws.packages[k])]
===============================================================================
