# A verification of nix-jettison

nix-jettison is a Nix plugin, a Rust shared library, that adds three primops
under `builtins.jettison`: `vendorDeps`, `resolveBuildGraph` and
`buildPackage`. They parse a `Cargo.lock`, vendor its sources, let Cargo resolve
the workspace, lay the packages out as a build graph and make one derivation
per crate. This directory holds TLA+ models of that pipeline and of the bindings
it is built on, TLC runs that check them on small instances, and TLAPS proofs of
the parts where a statement about every instance is within reach.

Paths are relative to the repository; `src/` is its Rust crate,
`bindings/nix-bindings/src/` the bindings it is built on.

## 1. The system

### Components

| Component | Code | State it keeps | Operations |
|---|---|---|---|
| Cargo.lock parser | `src/cargo_lock_parser.rs` | cursor offset and semantic position | `new`, `next` |
| Vendoring | `src/vendor_deps.rs` | vector of sources, text of `config.toml` | `VendoredSources::new`, `get`, `to_dir`, the primop |
| Cargo resolve | `src/resolve_build_graph.rs` | Cargo's workspace resolve, read-only | `WorkspaceResolve::new`, `deps`, the primop |
| Build graph | `src/build_graph.rs` | nodes, edges, index by package ID | `BuildGraph::new`, `insert_package` |
| Node contents | `src/build_graph.rs` | none | constructors from manifests, `dependency_renames` |
| Package build | `src/build_package.rs`, `src/make_derivation.rs` | library derivations by node | the loop, `make_deps`, `make_derivation` |
| Build script output | `src/parse-build-script-output.sh` | three files of shell exports | a filter, run inside a derivation |
| Attrsets, lists | `bindings/.../attrset.rs`, `list.rs`, `thunk.rs` | iterators, write-once cells | merge, concat, write |
| Calls and context | `bindings/.../context.rs`, `callable.rs`, `primop.rs` | error slot, reference counts | call, eval, alloc |
| Values and namespaces | `bindings/.../value.rs`, `namespace.rs` | a thread-local key buffer | write, read |
| Macros, C++ layer | the rest of `bindings/` | none | code generation, calls into Nix |
| Plugin entry | `src/lib.rs`, `src/jettison.rs` | none | registers one constant |

### How they interact

`BuildPackage::call` first vendors: `VendoredSources::new` pulls entries out of
`CargoLockParser` one by one and asks the evaluator for a derivation of each.
Cargo then resolves the workspace offline against the vendor directory, and
`BuildGraph::new` walks the resolve. The loop of `BuildPackage::call` walks the
nodes by index; each node looks up the library derivations of the nodes its
edges name, and each vendored package is looked up in the sources by
`VendoredSources::get`. All of it is one thread, inside the evaluator: the
plugin calls into Nix (which may fail at every call), and Nix forces values by
calling back: a primop that evaluates an argument may find itself entered again
below its own frame.

What the plugin returns are descriptions of derivations. Nix builds them later,
each after its inputs and otherwise in any order, and runs the phases whose text
`make_derivation.rs` has written. A file that one phase writes is named by one
function and looked for by another; flags that one prints are read by the next.

### What is hard here

There is no concurrency, nothing is persisted, and no message is lost. What
goes wrong in this code is of other kinds:

* a recursion that hands out indices into a structure it is in the middle of
  building, and a loop that relies on the order it left behind;
* indices of one vector used for another (`library_derivations` is indexed by
  node, but has entries only for nodes with a library);
* facts established in one place and `expect`ed in another: an output path that
  evaluates, a source that is vendored, a vector that is sorted;
* an iterator that fills one entry over several entries of a file;
* evaluation that fails in the middle, and what is left then;
* names computed twice, where a file is written and where it is linked, and
  facts passed from derivation to derivation by what is in a directory;
* in the bindings: two-phase iterators whose length is promised beforehand,
  write-once cells, re-entrant callbacks under a borrowed buffer, reference
  counts and an error slot on error paths.

`PROJECT.json` lists each of them under `hazards`, at its line, with the
properties that would catch it.

### What makes each component correct

| Component | Correct if |
|---|---|
| Parser | returns the packages listed, each with its own fields, or an error; ends |
| Vendoring | has every source that the file lists, finds each by its ID, and configures Cargo for each git source |
| Build graph | has one node per package the root needs, every dependency before its dependents, edges true to the resolve |
| Package build | compiles each target against the right libraries, with everything they need in the directory searched; never panics on a graph that Cargo can produce; returns the requested package |
| Node contents, command lines | a crate is compiled against the file its dependency wrote, under the name its manifest has for it |
| Overrides, build scripts | what the user or a build script adds reaches the crates it is meant for, and no others |
| Attrsets | a merge of sides whose answers agree is the right-biased union, and its length is that of its pairs |
| Lists | written once, readable any number of times, also after a failure; as long as announced |
| Calls | each value is initialised once, no reference is given back twice or while it is used, complete arguments are given back on every path, and Nix sees an error exactly when there was one |

## 2. The modules

| Module | What it is |
|---|---|
| `BuildOrder` | abstract: the packages that the root needs are laid out one by one, each after everything it depends on |
| `BuildGraph` | `insert_package` as a stack of activations; implements `BuildOrder` |
| `BuildGraphProofs` | theorems about `BuildGraph` |
| `BuildGraphShape` | what a build graph is to the loop that walks it |
| `BuildPackage` | the loop that makes the derivations |
| `BuildPackageProofs` | theorems about `BuildPackage` |
| `MCBuildPackage` | build graphs for TLC |
| `BuildCall` | the two in a row: the graph is built from a resolve, then walked; extends `BuildGraph`, has an instance of `BuildPackage` |
| `BuildCallProofs` | theorems about `BuildCall`; extends `BuildGraphProofs`, has an instance of `BuildPackageProofs` |
| `MCBuildCall` | resolves and manifests for TLC, and the post-order as a recursive definition |
| `CargoLockParser` | one action per arm of `next_inner` |
| `CargoLockParserProofs` | theorems about `CargoLockParser` |
| `VendoredSources` | the consumer of the parser; extends `CargoLockParser` |
| `VendoredSourcesProofs` | theorems about `VendoredSources`; extends `CargoLockParserProofs` |
| `MCLockFiles`, `MCVendoredSources` | lock files for TLC |
| `NodeContents` | what a node of the graph says of its package, as operators on a resolved workspace |
| `RustcCommands` | the rustc command of a crate and the files it reads and writes; extends `NodeContents` |
| `CompileUnits` | from the workspace to compiled files: graph, derivations with overrides, and their builds; extends `RustcCommands` |
| `CompileUnitsProofs` | theorems about `CompileUnits` |
| `MCCompileUnits` | workspaces for TLC |
| `AttrsetUnion` | abstract: the union of two attribute sets is built key by key |
| `AttrsetPairs` | `Merge`, its iterator and the writer; implements `AttrsetUnion` |
| `AttrsetPairsProofs` | theorems about `AttrsetPairs` |
| `AttrsetTrees` | every attribute set a merge can be made of, by its three answers; extends `AttrsetPairs` |
| `MCAttrsets` | trees of attribute sets for TLC |
| `EvalStack` | the evaluator and the plugin on one stack, the error slots and the values |
| `ValueWriter` | `Value::write`, with the key buffer; extends `EvalStack` |
| `ValueReader` | `TryFromValue`; extends `ValueWriter` |
| `PrimopCalls` | calls of functions and of primops; extends `ValueReader` |
| `PrimopCallsProofs` | theorems about `PrimopCalls` |
| `ListTrees` | every list that can be written |
| `MCPrimops` | plugins and lists for TLC |

### BuildGraph

A frame of `stack` is an activation of `insert_package`: its package, how far
its `for` loop is, and its local `edges`. `op` says whether a call, a loop step
or a return comes next. `nodes`, `edges` and `pkgIdToIdx` are the fields of the
same names; a node is named by its package, since what else it contains is
copied from the manifest.

| Action | Code |
|---|---|
| `ReturnEarly` | the lookup at the top finds the package |
| `EnterPackage` | the lookup fails, the package is in the set, the loop starts |
| `SkipDependency` | a development dependency, or one for another platform |
| `VisitDependency` | the recursive call |
| `PushEdge` | its result is pushed to the vector of the dependency's kind |
| `PushNode` | the loop is over: node, edges and index are inserted |
| `ReturnGraph` | `BuildGraph::new` drops the index and returns |
| `Panic` | the package is not in the set; or, its loop over, it has a metabuild target, a target outside its root, a crate type that is no library's, or a Git source that is not vendored |

The input is a resolve: for each package a sequence of dependencies, in any
order, as the code reads them out of hash sets. The one assumption, `Acyclic`,
is Cargo's: it refuses a resolve whose normal and build dependencies have a
cycle. Development dependencies may close cycles, and do in the instances.

### BuildPackage

`op` is the derivation that the loop makes next for node `nodeIdx`: the
directory of its dependencies, its build script, its library, its binaries. A
derivation is a record: the derivations it has as `inputs`, the `--extern`
arguments, and `dir`, the nodes whose library is in its `deps` directory, which
`make_deps` fills by copying from the directories of the direct dependencies.
`forced` has the derivations whose output path was evaluated: `make_deps`
evaluates those of all direct dependencies and may fail there with an error,
while `dependencies_rustc_args` only `expect`s that it works. `Fail` may replace
every step that calls the evaluator; `Panic` is a failed index or `expect`: of a
dependency's library, or of the source of the package, which
`VendoredSources::get` may miss (the run `source_is_vendored` shows how).

Graphs are assumed to be as `BuildGraph` makes them (`IsBuildGraph`, in
`BuildGraphShape`): not empty, with edges that lead to earlier nodes. `HandedOver`
proves that of every graph `BuildGraph` ends with.

### BuildCall

`BuildPackage::call` from the resolve to the derivation it returns. The variables
of `BuildGraph` keep their names; `targets` is what the manifests say each package
has; the variables of the loop are those of `BuildPackage`, with `op` as `loopOp`
and `result` as `returned`. The loop's graph is no variable here but `BuiltGraph`,
the nodes and edges that are there, each with the targets of its package.

| Action | Code |
|---|---|
| `Insert` | a step of `BuildGraph::new` |
| `StartLoop` | `BuildGraph::new` has returned, and the `for` loop over its nodes begins |
| `Build` | a step of that loop |

The manifests have one restriction, `ManifestsAssumption`: only the root has
binaries, as `BinaryCrate::new` sees to. The properties speak of packages and of
the resolve, on which the caller and Cargo agree, where those of the parts speak
of indices, which neither ever sees: `ExternsAsResolved` and
`DirectoriesAsResolved` compare what a target is compiled with, in the end, with
what Cargo has resolved for its package.

### CargoLockParser

A file is a sequence of lines, each a key, a value and whether its closing quote
is there. The cursor is the number of lines before it; the arms of `next_inner`
are the actions. An action takes a whole field, so what it stands for is "the
expected text follows and the quote is closed". What a URL looks like is left
out: a source is the record of its parts, and `SourceKind` takes the decisions
of `PackageSource::parse` and `GitSource::try_from` on them.

`entry` is one variable for all of `next_inner`, as in the code: when a replaced
entry is skipped, the loop goes on with the entry half filled.

### VendoredSources

`Parse` is a step of the parser; the other actions are what the loop body does
with an entry (`SkipPath`, `VendorRegistry`, `VendorGit`) or how the loop ends
(`ParseFails`, `FetchFails`, `Panic`, `Return`). `Get` is the binary search of
the standard library, `SearchEnd` its loop as a recursive function. `Rank` is
the byte order of names and versions, so that `"0.10.0"` can come before
`"0.9.0"`. `RankAssumption` says that it orders every name and version of a file.

The model is of a release build. In a debug build the `debug_assert!` in the
loop panics on an unsorted vector.

### NodeContents, RustcCommands, CompileUnits

`BuildPackage` asks which libraries a derivation is made from; these three ask
what is compiled in it. The input is a workspace as Cargo has resolved it:
packages with their targets, features, profiles and sources, dependency entries
with kind, rename and version requirement, the machine compiled for, the user's
overrides, and what each build script will print. Names, versions and features are
sequences of parts, so that two hashes of parts in a row are equal exactly if
the rows are: `crate_metadata` hashes them with nothing between.

`NodeContents` has one operator per constructor that `insert_package` calls
(`BinaryCrates`, `BuildScript`, `LibraryCrate`, `BuildOpts`, `PackageSource`,
`dependency_renames`), and `NodePanics` for the panics of all of them: a file
outside its package, a `metabuild` script, a format that is no library's, a Git
source that is not vendored. `RustcCommands` has `crate_metadata`,
`dependencies_rustc_args` and `build_rustc_args`, and the names of the files that
rustc writes for a command. `LinkedFile` is the name computed from the node of a
dependency; `FilesWritten` that computed from the crate.

| Action of `CompileUnits` | Code |
|---|---|
| `MakeNode`, `NodeFails` | the node is made when its package is inserted |
| `Make`, `OverrideFails`, `SourceFails` | the next derivation of the loop; overrides are evaluated for each one anew |
| `Build` | Nix builds a derivation whose inputs are built: the phases run |

A derivation is its attributes; a merge in the code is a merge here, so that an
override of any of the eight `OwnArguments`, each phase among them, replaces it,
and one of `buildInputs` is added to. `deps_install_phase` copies the native
libraries of the direct dependencies, `configure_phase` sources what `ScriptFile`,
the parser of build script output, has made of the keys printed. `built` is the
outputs.

What a user's phase does is unknown. In its place the model does nothing of what
the code's phase would have done: without the code's `configurePhase` nothing is
sourced and `$out/deps` is not linked, without its `buildPhase` nothing is
compiled, without the `installPhase` of a build script no `lib.sh` is written.
`PhasesFind` says what a later phase needs of these, and a derivation for which it
is missing is never built. In general a build that fails is a derivation that is
not built, now or ever; `Build` has no fairness. Hooks such as `preBuild` are
attributes that are carried along, and what they do is left out; the properties
say nothing of crates whose overrides go beyond inputs where that could matter
(`OnlyInputs`).

`WorkspacesAssumption` says what Cargo has seen to when it hands over a resolve:
a dependency precedes the package and is admitted by its requirement, the name
of a library has no `-`, and a procedural macro has no other format. That a
dependency has a library is the precondition of `BuildPackage`. What an override
adds to the inputs is a native library, not a derivation of this graph.

### AttrsetPairs and AttrsetTrees

A side of a merge is what it answers: a length, the pairs of its iterator and what
is found under each key, which in the code come from three different functions.
It records two more things. A key of type `str` is written to `KEY_BUFFER` while it
is used, so a pair says whether its key is one (`str`), and a side which of its
lookups need the buffer (`borrows`: a literal probes its own keys one by one). And
asking a nested merge for its length may panic already (`panics`).

`Start` is `len()` and `pairs()`, `InsertPair` one turn of the loop of
`AttrsetValue::write` with the advance at its end. The panics are `LenPanics` (two
equal conflicting keys in the side that is iterated, or a `str` key looked up where
that needs the buffer), `ValuePanics` and `PastEndPanics`. `pairs` are the positions
of `MergePairs` and its flag. A step that calls Nix may fail (`InsertFails`,
`Start`, `Build`).

`ValuePanics` is `current_value` with nothing to return, in two ways. At a
conflicting key `MergePairs::with_value` uses the key of the left side again
(`attrset.rs:1192`) while the writer is using it (`:950`), so a hash map on the left
panics at the first key that the right side has too. And it expects the right side
to find the key (`:1193`), which a struct does not if it skips the field and has
another one renamed to it: it looks a key up among all its fields and stops at the
first (`:1603`). On the right of a merge that iterates the left side, the same struct
is no conflict, and its key is inserted twice.

So the properties need more than sides without repeated keys. `Agrees` says that
the three answers of a side are one: as many pairs as announced, no key twice, each
found with the value the iterator gives, and nothing else found. `KeysReadable`
says that no conflicting key is a `str` of the left side and no `str` is looked up
where that needs the buffer. `Proper` is both.

What a side can be is in `AttrsetTrees`: a value of Nix, a literal, a hash map, a
struct with `#[derive(Attrset)]` and its renames and skip conditions, an option,
a borrow, either of two, a concatenation, or again a merge. `SidesAgree` says when
`Agrees` holds, in terms of what a programmer writes (`ProperTree`): the fields of a
struct, skipped ones included, and the keys of a literal are different, the parts of
a concatenation share none, and those of a nested merge are `KeysReadable`. A hash
map is looked up by the UTF-8 of the key, and a key that has none panics; keys here
have one. A key with a NUL is in `ValueWriter`.

### EvalStack, ValueWriter, ValueReader, PrimopCalls

One stack holds the frames of both sides: `eval` is Nix evaluating something,
`primop`, `read`, `write`, `call` and `multi` are functions of the plugin. A call
pushes, a return pops and leaves its result in `res` of the caller. `slots` has
the error slot of each primop call: `with_raw` clears it or leaves an error
there, and errors that the plugin makes itself do not touch it. `values` has
every value allocated, with its references and whether it is initialised.

| Frame | Actions | Code |
|---|---|---|
| `eval` | `EvalEnters`, `EvalReturns`, `EvalEnds` | the evaluator, and the catch of the C++ wrapper |
| `write` | `WriteScalar` ... `write_primop`; `MakeBuilder`, `WriteItem`, `ItemWritten`, `BuildCollection`; `OnceTake`, `OnceFinish`, `OnceAgain` | the implementations of `Value`; collections; lists read once |
| `read` | `Find`, `ForceValue`, `Check`, `with_string`, `ReadParts`, `ReadPart` | the implementations of `TryFromValue`, `NixAttrset::get` |
| `call` | `CallAllocDest` ... `CallRelease` | `Callable::call` |
| `multi` | `MultiAllocDest` ... `MultiCallLast` | `Callable::call_multi` |
| `primop` | `from_raw`, `Body`, `try_into_value`, `force_inline`, `WriteReturn`, `set_err_msg`, `PrimopReturns` | `PrimOpImpl::call` and the callback around it |

What a value is does not matter here, only what writing it asks of Nix: a value
to be written is a tree, a value to be read a type. A plugin is a function from
names of primops to what each reads, does and returns. `TreesAssumption` and
`PluginsAssumption` say of which form these are: the items of a tree are trees, a
wrapped value is one, and a call has arguments. `KeyBorrowed` is the state
of the thread-local buffer for keys that are Rust strings: it is borrowed as
long as some frame below the running one writes an item under such a key or
evaluates an attribute found under one. An item says of which of four kinds its
key is (`KeyKinds`) and of which those that are looked at to get to the next one:
a Rust string panics while the buffer is borrowed, one with a NUL always, and one
that is looked up under another, as a merge does where both sides have a string
key, too. Which merges do that is the business of `AttrsetPairs`.

`ListTrees` is about lists alone, and stateless. An `Iter` answers each call with
an item or `"none"`; a list is indexed; both become a `Writeable`, which is asked
as often as its length says.

## 3. The runs

Runs that pass:

| Run | Question | Instance |
|---|---|---|
| `build_call` | Is the graph what the docs of `BuildGraph` promise, for every resolve? Is what Cargo resolved what rustc is told, and the requested library what is returned? What can panic, and does the call end? | every graph on four packages with normal or build edges; every list of entries (both kinds in both orders, duplicates, development, foreign platform) on three; packages that cannot become nodes; development cycles; all with a library, or all but a dependency, or all but the root |
| `build_package` | Is every target compiled against the right libraries, with their own dependencies at hand? | every graph of three nodes, any subset of libraries, with and without build scripts and binaries; every graph of four nodes with all targets |
| `vendoring` | Do parser and consumer vendor exactly what the file lists? | files of up to three packages from every kind of source, all orders of versions; entries of every shape; the replaced entry of the docs; files cut off after and inside every line |
| `compile_units` | Does what is compiled fit together, and does what is added reach what it is meant for? | 3414 workspaces of three packages in five families: renames (packages of one name or two, kinds, requirements, order, duplicates), files (formats, profiles, host and target), hashes (two libraries of one name with versions, features and flags that can and cannot be taken for each other), panics (every constructor's, and a source that is not found), overrides of inputs and of each phase with build scripts; every order of builds |
| `attrsets` | Does writing a merge build the union, whatever its sides are? | every two of 142 trees, over four keys, the improper ones included |
| `primops` | Whatever fails and whatever is entered meanwhile, is each value initialised once, and are references, errors and buffers kept straight? And are lists as long as they say? | 13 plugins of one or two primops, shaped after the three of this repository and after every other use of the bindings; every list of up to eight items put together in up to three ways |

Three packages are enough for an activation to be suspended while two others
run, for a package to be reached on two ways, and for a dependency of a
dependency; the fourth makes the diamond. Three lock entries are enough for a
skipped one between two others, and for the binary search to go both ways; the
registry-only listings go up to six, for an even and an odd number of elements
at each halving.

In `compile_units` package 3 depends on both others, or on a chain of them, which
is enough for two dependencies to be confused with each other, for two files to
have one name, and for something to be passed on once. Every dependency has a
library, as `BuildPackage` needs. The preconditions of its properties name what
the code cannot do. `AllTold`: two dependencies on packages of one name are told
apart only if both are renamed and neither requirement admits the other's
version; where one of them is not renamed, the other's rename is used for both.
`LinkableStatically`: a library that is only dynamic is looked for as an `.rlib`
that is not there. `FeaturesApart`: the parts of a hash follow each other with
nothing between them, so that a feature named like the end of a version or like a
flag, or one feature that begins with another (`a`, `bc` and `ab`, `c`), can make
two different libraries share a file. The instance has a collision for each of its
four conjuncts, and libraries of two features for which it holds. `OnlyInputs`: an
override of `configurePhase` keeps a package's flags from being sourced, one of
the other phases can keep its script from running.

In `primops`, primop calls nest two deep (`MaxDepth`), a list that is read has at
most one item (`MaxItems`), and one evaluation enters at most one primop. A
second call inside the first is what a borrowed buffer or a shared slot needs to
go wrong; a third would find what the second found. Every plugin may fail at
every step. `MaxIndex` is above the length of the longest list. `MayPanic` is
computed from the text of a plugin alone; the plugins shaped after `vendorDeps`,
`resolveBuildGraph` and the constant are not among those that may panic, but
`buildPackage` is: it looks up an override under a string key and evaluates it.

Runs that TLC is meant to refute, each a statement of the code or its docs that
the code does not keep (`findings` in `PROJECT.json`):

| Run | Statement | Refuted by |
|---|---|---|
| `returns_requested` | "The derivation for the requested package is the root of the build graph" | a root without a library |
| `only_library_dependencies` | "only library crates can be dependencies" | a dependency with binaries only, of which Cargo warns |
| `replaced_skipped` | "we skip entries with a `replace` field" | the documented entry, which has no checksum |
| `source_is_vendored` | "source is vendored" | versions 0.9.0 and 0.10.0 of a package |
| `unique_tables` | "doesn't actually matter, as long as it's unique" | two packages of one repository |
| `metadata_downstream` | "Add metadata environment variables for downstream crates" | a dependent with a build script: it sources nothing |

The fourth rests on a fact about Cargo that is not in this repository: a lock
file lists packages by name, then by semantic version.

### Fairness

`CallFairSpec` of `BuildCall` and `FairSpec` of `VendoredSources` assume weak
fairness of the next-state relation as a whole, nothing of single actions: the code is
sequential and waits for nothing, so it takes a step as long as it has one.
Termination then is a fact about the recursion and the parser's loop. That a
call into Nix returns at all is assumed.

The other modules state no fairness and no liveness. Their loops end by the
length of a finite input, and Nix may stop an evaluation or never build a
derivation. `CHECK_DEADLOCK FALSE` is set where a call is over, or has panicked,
and nothing is left to do.

### Bounds

The state spaces are finite because the inputs are, with one exception: in
`EvalStack` the guard of `EvalEnters` has the bound `MaxDepth`, and an evaluation
enters one primop. Elsewhere the inputs are the bounds: `MCPackages`, the lists of
entries in `Rich`, the graphs of `MCGraphs`, the files of `MCLockFileSet`, the
workspaces of `MCWorkspaces`, the trees and plugins of `MCAttrsets` and
`MCPrimops`.

## 4. The proofs

`BuildGraphProofs` proves, for all sets of packages and all resolves that satisfy
`ResolvesAssumption`:

| Theorem | Statement |
|---|---|
| `TypeInvariant` | `Spec => []TypeOK` |
| `Invariance` | `Spec => []Inv` |
| `PrecedenceInvariant` | `Spec => []DependenciesPrecede` |
| `OneNodeInvariant` | `Spec => []OneNodePerPackage` |
| `RootInvariant` | `Spec => []GraphOfRoot` |
| `EdgesInvariant` | `Spec => []EdgesMatchResolve` |
| `OrderRefinement` | `Spec => ImplementsBuildOrder` |
| `HandedOver` | `Spec => []HandedOverInv` |

None of the five properties is inductive: whether the index that `PushEdge`
stores belongs to the right package depends on what the activations below are
waiting for. `Inv` says so. `StackLinked`: each activation is suspended in the
call of the one above it, and a return in progress answers the top one.
`OpenOnce`: a package with an activation has no node yet, and no second
activation; this is where acyclicity is used, for the packages on the stack
between the two would form a set in which each needs another. `EdgesCollected`:
an activation has collected exactly the edges of the part of its loop it has
done. `OnlyNeeded`: nothing is entered that the root does not need.

`RootInvariant` needs one more argument: the finished node set contains the root
and is closed under dependencies, so the least such set is in it; `OnlyNeeded`
gives the other inclusion. `OrderRefinement` maps `PushNode` to `Place` and every
other step to a stutter. `EdgesInvariant` adds the order: the edges that an
activation has collected of a kind come from increasing positions of its
dependencies, and every followed entry of that kind in the part of the loop that
is done is at one of them (`Covers`); an entry that is pushed comes after all of
these.

`HandedOver` is the interface to `BuildPackage`: once `BuildGraph::new` has
returned, the nodes and edges, with any targets for the packages, satisfy
`IsBuildGraph`. It follows from `RootInvariant` (there is a node),
`EdgesInvariant` (each node has its edges) and `PrecedenceInvariant`, and it is
what `GraphsAssumption` asks, so the theorems below hold for the graphs that the
code builds.

`BuildPackageProofs` proves, for all sets of graphs that satisfy
`GraphsAssumption`:

| Theorem | Statement |
|---|---|
| `TypeInvariant` | `Spec => []TypeOK` |
| `Invariance` | `Spec => [](graph \in Graphs /\ Inv)` |
| `LibrariesInvariant` | `Spec => []LibrariesInOrder` |
| `DepsInvariant` | `Spec => []DepsComplete` |
| `ExternsInvariant` | `Spec => []ExternsFound` |
| `PanicInvariant` | `Spec => []PanicsForPackage` |
| `ReturnInvariant` | `Spec => []ReturnsRootLibrary` |

Here `Inv` says where the library of a node is and what is known when.
`Aligned`: as long as every node has a library, the library of node `i` is entry
`i`. `DepsEvaluated`: past `make_deps`, the output path of each direct dependency
has been evaluated, so that the later `expect` holds. `MadeSoFar`: which
derivations of the current node there are. `ContentsRight`: each derivation has
the directory its node needs and externs that are libraries of direct
dependencies.

The one idea beyond induction over the steps is `NeededStep`: what a node needs,
the least closed set with its dependencies, is those dependencies and what each
of them needs. So copying one level, from directories that are right, gives a
right directory, and no recursion over the graph is needed in the proof.
`ExternsInvariant` follows with it too. The properties under `Linkable` say
nothing of a graph in which a package before the root has no library; there the
libraries that follow are at the wrong indices (`Aligned` no longer says where
they are), and the run `only_library_dependencies` shows one outcome. A root
without a library is the case of `returns_requested`.

`BuildCallProofs` proves, for all sets of packages, all resolves that satisfy
`ResolvesAssumption` and all manifests that satisfy `ManifestsAssumption`:

| Theorem | Statement |
|---|---|
| `CallInvariance` | `CallSpec => []CallInv` |
| `CallInsertion` | `CallSpec => Spec`, of `BuildGraph` |
| `ExternsResolved` | `CallSpec => []ExternsAsResolved` |
| `DirectoriesResolved` | `CallSpec => []DirectoriesAsResolved` |
| `RequestedReturned` | `CallSpec => []ReturnsRequestedLibrary` |
| `PanicsResolved` | `CallSpec => []PanicsOverNeeded` |

Nothing is proved twice. `BuildGraph` is extended, and by `CallInsertion` its
theorems hold here. `BuildPackageProofs` is instantiated with the set of all
sequences that are build graphs, which satisfies `GraphsAssumption` by definition,
and with `BuiltGraph`, which is one of them from the moment `op` is `"done"`
(`FinishedGraph`, the lemma behind `HandedOver`) and does not change from then on.
`StartLoop` establishes the loop's invariant in that state, which is an initial
state of the instance, and every `Build` is a step of it. `CallInv` says so:
`LoopWaits`, the loop has done nothing while the graph is not finished, and the
invariants of both parts. TLC checks it in `build_call`.

What is new is the way back from indices to packages. An index is a package,
`PackageOf`, one to one because no package has two nodes. The direct
dependencies of a node are the followed dependencies of its package
(`EdgesMatchResolve`); so a set of packages that is closed in the resolve gives a
set of indices that is closed in the graph, and the other way round, and the two
least closed sets, `NeededBy` of an index and `NeededFor` of its package, are the
same packages. For the root that is everything in the graph but the root itself,
which is where the numbering is used once more: what a node needs is before it.
`ExternsAsResolved` puts two matches after each other: `EdgesMatchResolve` of the
graph, and `ExternsOfEdges` of the loop, by which the externs are the edges of
the target's kind, position by position. `PanicsOverNeeded` has two sources, as
the code has: `PanicOfNeeded` for an `expect` in the recursion, and
`PanicsForPackage` for the loop: a panic over a missing output path is impossible
whatever the graph is, one over an index needs a package without a library, and
one over a source a package whose source is not found.

`AttrsetPairsProofs` proves, for all sets of keys and values and for sides of any
length:

| Theorem | Statement |
|---|---|
| `TypeCorrect` | `Spec => []TypeOK` |
| `LengthExact` | `Spec => []LengthIsExact` |
| `KeysOnce` | `Spec => []NoKeyTwice` |
| `UnionImplemented` | `Spec => ImplementsUnion` |

`TypeCorrect` is about all sides, whatever they answer; the other three about
`Proper` ones, where "exact" includes that nothing panics. `KeysContained` turns
`Agrees` into the fact the rest uses: a key is found if and only if it is iterated,
so that the conflicts are the keys of both sides whichever was iterated
(`ConflictsAreShared`). Their invariant
is `WriterInv`: what is inserted are exactly the keys the walk has passed, each
once and with the value of the union (`ContentInv`); the flag says whether the
current key is in conflict, and the right position never rests on such a key
(`PositionInv`); and what is inserted plus what remains is the length counted
beforehand. For the last, `Remaining` counts the left pairs to come and the keys
of the right side that are not in conflict. That this is the length at the start
takes the one counting argument of the proof: the conflicts are as many as the
positions of the right side that are skipped, whichever side was iterated to
find them. Each advance then takes one away, by `SkipTo`, whose choice exists
because the position one past the end always stops it.

`CargoLockParserProofs` proves, for all sets of files of any length:

| Theorem | Statement |
|---|---|
| `ParserTypeInvariant` | `Spec => []ParserTypeOK` |
| `ParserYieldsListed` | `Spec => []YieldsListed` |
| `ParserErrorsExact` | `Spec => []ErrorsExact` |

`ParserInv` ties the cursor to the file: it is in the entry of some header `h`,
the lines between `h` and the cursor are what has been read into `entry`
(`CursorIn`), every entry before `h` is parsable, and the listed ones among them
are what has been returned (`Passed`). The second part is conditional on
`InDocumentedOrder`, as are the two properties: the fields of an entry are in the
order that the docs of `PackageEntry` give, with a checksum only after a registry
source. Without it the statement is false: an entry whose source does not come
right after its version is taken for one without a source. All files that TLC checks satisfy it, the
malformed and the truncated ones included; nothing else is assumed of a file but
that only its last line can lack a closing quote.

`VendoredSourcesProofs` proves, for the same files:

| Theorem | Statement |
|---|---|
| `TypeInvariant` | `Spec => []TypeOK` |
| `SourcesInvariant` | `Spec => []SourcesListed` |
| `TablesInvariant` | `Spec => []TablesComplete` |
| `GetInvariant` | `Spec => []GetFinds` |

Its `VendorInv` contains `ParserInv`: the sources and the tables are, in order,
those made of the entries that the loop has consumed (`VendoredFrom`,
`TablesFrom`), which is one entry less than the parser has returned while one is
pending. For `GetFinds`, `SearchEnd` is a recursive function of the number of
elements left. That such a function exists, and that the element looked for stays
among those left, is shown by the least size for which it would not be so, as no
induction theorem can be used here.

`PrimopCallsProofs` proves, for all trees and plugins that satisfy
`TreesAssumption` and `PluginsAssumption`, and every `MaxDepth`:

| Theorem | Statement |
|---|---|
| `PrimopInvariant` | `Spec => []PrimopInv` |
| `ValuesReleasedOnce` | `Spec => []ReleasedOnce` |
| `InitialisedOnceTheorem` | `Spec => []InitialisedOnce` |
| `PrimopOutcomeTheorem` | `Spec => []PrimopOutcome` |

`PrimopInv` says how the stack, the values and the error slots fit together:

* `Shape`: every frame is in a state its function can be in (`FrameOK`), and every
  frame but the last waits, without a result, in a call that can have pushed the
  frame above it (`Waits`). A write was given its value by the frame below.
* `Owned`, `Unowned`: each value that is not released belongs to at most one
  frame and has one reference; a write borrows the value of its caller. An
  argument that nobody owns was never written or is released. `MultiArgFails`
  is why this says "never written": there the value is lost, but it is not
  initialised.
* `Pending`: the value that a frame waits for is initialised exactly when the
  frame has been told that it is. `ReturnForced`: only a wrapped return value is a
  thunk.
* `Slots`: there are as many slots as frames of primops; only the last can have
  an error, and then the running frame knows of it.

The last one is the argument for `PrimopOutcome`: a later call into Nix clears
the slot, but a frame that failed makes no such call and only returns its
error. `CallRelease` and `MultiRelease` are the exception: they clear the slot
after a failure, and the primop writes its error into it again.

A step changes the last frame, pushes one or pops one. What each of the three
does to the parts of the invariant is proved once for stacks as such
(`ShapeSet`, `ShapePush`, `ShapePop` and the like), then each action has a lemma
of its own.

`InitialisedOnce` is the contract of `Value::write`. For a frame that writes it
follows from `PrimopInv`: its caller waits, so it has no result, so by `Pending`
what it gave is not initialised, and by `Owned` nobody else has it. The result of
a call needs an invariant of its own, `ResultsDue`: the result of every call on
the stack that has not got it yet is not initialised. `StaysDue` says why a step
keeps it: only the running frame initialises anything, which is its own result, or
the value that its caller gave it and owns as an item, a return value or an
argument, never as a result (`WrittenApart`).

`CompileUnitsProofs` proves, for all workspaces that satisfy
`WorkspacesAssumption`, of any size:

| Theorem | Statement |
|---|---|
| `CompileInvariant` | `Spec => []CompileInv` |
| `CompileTypeCorrect` | `Spec => []TypeOK` |
| `RenamesTheorem` | `Spec => []RenamedAsInToml` |
| `LibrariesTheorem` | `Spec => []LibrariesFound` |
| `OverridesTheorem` | `Spec => []OverridesReach` |
| `FlagsTheorem` | `Spec => []FlagsOfOwnScript` |

`CompileInv` says what is there in terms of the workspace alone: the nodes are
those of the packages (`GraphMade`); the derivations made are the first `n` in
the order of the graph, each with the attributes its package gives it
(`DrvsMade`); what is built is made of what its inputs left, and those were built
before it (`DrvsBuilt`). The last is what lets `Build` come in any order: an
output never changes, so a derivation that read its inputs then would read the
same now. The order of the derivations is proved strictly increasing, by node and
then by type, and the inputs of a derivation come before it in this order; so no
derivation is made twice, and `NextDrv` always finds its inputs made.

The properties then speak of one state each. `LibrariesFound` compares the two
names of a library's file, `LinkedFile` and `FilesWritten`. `RenamedAsInToml`
follows a dependency through both passes of `dependency_renames`: with `AllTold`,
whatever the code picks among the renames for a package name has the rename of
the dependency it is picked for. `OverridesReach` goes up the graph one level at
a time: the least package whose directory lacked something would have got it from
a directory that has it.

`FlattenSeq`, `Kept` and `Below` are recursive functions. That they exist, and
what they compute, is shown by the least argument for which it would not be so.

Only model-checked, and why:

* `CallEnds`, `VendoringEnds`: liveness.
* `NodesInPostOrder`: compares with a `RECURSIVE` definition.
* `SidesAgree`, `ListsAgree`: about recursive definitions over trees.
* `PanicsOnlyByKeys`: `MayPanic` looks into the trees of a plugin recursively.
* `LibrariesDistinct`: it compares rows of parts that are put together from
  names, versions, features and flags of any length. Where one ends and the next
  begins can be told for the parts that the instance has, not for all.

## 5. What is not modelled

* Of the derivations: flags and environment variables that are the same for
  every crate, source roots, and the shell text of the phases apart from the
  files and directories it passes on. Errors of `stdenv` and of missing
  attributes of the argument of `buildPackage` end the call before the loop.
* Of `crate_metadata`: that the hash is cut to 64 bits. Two rows of parts are
  taken to collide only if they are equal.
* Compiling for another machine, libraries that build scripts and procedural
  macros use are built for the target like any other, since `--target` depends
  on the type of the crate alone. The model has the command; nothing in the
  repository says what should happen, so no property speaks of it.
* `IntoValue` of the build graph, a tree of attribute sets without a decision.
* `to_dir` and the fetch derivations: external to the plugin once requested.
* Feature resolution, platform filtering and everything else inside Cargo.
* The plugin's entry: it registers the constant once, before anything runs.
* Of the bindings: what a converted value is, the wording of errors,
  `Context::eval`, builtins, and the parsing of macro inputs. Of namespaces only
  whether there is one: a namespace is a value that is copied, so what a primop is
  called does not depend on any order of steps.
  Lengths beyond 32 bits.
* That a value of one evaluator is kept in a `thread_local` and used in another
  (`vendor_deps.rs`): the model has one evaluator.

## 6. Plan

What could come next, in this order:

1. An abstract specification of the primop protocol that `PrimopCalls` implements:
   one call, its arguments, one result or one error.
2. More than one evaluator, for the value that `vendor_deps.rs` keeps in a
   `thread_local`.
3. `VendoredSources` below `CompileUnits`, so that the source of a crate is the one
   its lock entry names.
