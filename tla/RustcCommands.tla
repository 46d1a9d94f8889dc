----------------------------- MODULE RustcCommands -----------------------------
(***************************************************************************)
(* The rustc command of a crate: the data of build_rustc_args that decides *)
(* what is compiled, under which name, against which files and for which   *)
(* target.  Flags that are the same for every crate are left out.  A file  *)
(* that rustc writes or reads is [crate, metadata, extension], its name    *)
(* being lib<crate>-<metadata>.<extension> for a library.                  *)
(***************************************************************************)
EXTENDS NodeContents

Underscored(name) ==
  [i \in DOMAIN name |-> IF name[i] = "-" THEN "_" ELSE name[i]]

(***************************************************************************)
(* A Crate is [name, type, formats, deps_renames, build_opts].             *)
(***************************************************************************)
Crate(name, type, formats, renames, opts) ==
  [name |-> name, type |-> type, formats |-> formats,
   deps_renames |-> renames, build_opts |-> opts]

CratesOf(type, node) ==
  CASE type = "build" ->
         << Crate(<<"build_script_build">>, "build", << >>,
                  node.build_script.dependency_renames, node.build_script.build_opts) >>
    [] type = "lib" ->
         << Crate(node.library.name, "lib", node.library.formats,
                  node.dependency_renames, node.library.build_opts) >>
    [] type = "bin" ->
         [i \in DOMAIN node.binaries |->
            Crate(node.binaries[i].name, "bin", << >>,
                  node.dependency_renames, node.binaries[i].build_opts)]

is_usable_as_dependency(crate) == \E f \in ToSet(crate.formats) : format_is_usable(f)

(* The code's name for what is compiled for the target. *)
is_compiled_for_host(crate) ==
  crate.type = "bin" \/ (crate.type = "lib" /\ ~is_proc_macro(crate.formats))

(***************************************************************************)
(* The hash of a crate is taken of its parts in a row, with nothing        *)
(* between them; two hashes are equal if the rows are.                     *)
(***************************************************************************)
(* Mutant: the version is not part of the hash. *)
crate_metadata_unversioned(name, version, features, opts) ==
  name \o FlattenSeq(features) \o opts.extra_rustc_args

crate_metadata(name, version, features, opts) ==
  name \o version \o FlattenSeq(features) \o opts.extra_rustc_args

(***************************************************************************)
(* The file a dependent links, named from the node of the dependency.      *)
(***************************************************************************)
LinkedAs(node, name) ==
  [crate |-> name,
   metadata |-> crate_metadata(name, node.version, node.features,
                               node.library.build_opts),
   extension |-> IF is_proc_macro(node.library.formats) THEN "so" ELSE "rlib"]

(* Mutant: the file is named for the package instead of its library. *)
LinkedFileOfPackage(node) == LinkedAs(node, node.name)

LinkedFile(node) == LinkedAs(node, node.library.name)

ExternName(node, renames) ==
  IF node.name \notin DOMAIN renames THEN node.library.name
  ELSE LET rename == renames[node.name]
           matching == Kept(rename.versions, {v \in ToSet(rename.versions) :
                                                node.version \in v.version_req})
       IN  IF rename.type = "Simple" THEN Head(rename.versions).rename
           ELSE FirstOr(matching, [rename |-> node.library.name]).rename

(* [nodes] are the direct dependencies, as sequences of indices of [graph]. *)
dependencies_rustc_args(graph, dependencies, renames) ==
  [i \in DOMAIN dependencies |->
    LET node == graph[dependencies[i]]
    IN  [name |-> Underscored(ExternName(node, renames)),
         drv |-> [type |-> "lib", node |-> dependencies[i]],
         file |-> LinkedFile(node)]]

build_rustc_args(ws, graph, k, crate, dependencies) ==
  [crate_name |-> Underscored(crate.name), type |-> crate.type,
   formats |-> crate.formats,
   metadata |-> IF is_usable_as_dependency(crate)
                THEN crate_metadata(crate.name, graph[k].version,
                                    graph[k].features, crate.build_opts)
                ELSE << >>,
   codegen_units |-> IF crate.build_opts.codegen_units = None THEN 1
                     ELSE crate.build_opts.codegen_units,
   externs |-> dependencies_rustc_args(graph, dependencies, crate.deps_renames),
   target |-> IF is_compiled_for_host(crate) THEN ws.compile_target ELSE None,
   features |-> graph[k].features,
   args |-> crate.build_opts.extra_rustc_args]

(***************************************************************************)
(* The files rustc writes for a command.                                   *)
(***************************************************************************)
ExtensionOf(format) ==
  CASE format \in {"Lib", "Rlib"} -> "rlib"
    [] format \in {"Dylib", "Cdylib", "ProcMacro"} -> "so"
    [] format = "Staticlib" -> "a"

FilesWritten(command) ==
  IF command.type = "lib"
  THEN {[crate |-> command.crate_name, metadata |-> command.metadata,
         extension |-> ExtensionOf(f)] : f \in ToSet(command.formats)}
  ELSE {[crate |-> command.crate_name, metadata |-> << >>, extension |-> "bin"]}
===============================================================================
