---------------------------- MODULE MCCompileUnits ----------------------------
(***************************************************************************)
(* CompileUnits on workspaces of three packages: 1 and 2 are libraries, 3  *)
(* is the root.  Five families ask different questions, each varying what  *)
(* its question depends on.  Every dependency has a library, as            *)
(* BuildPackage needs.                                                     *)
(***************************************************************************)
EXTENDS CompileUnits, TLC

Foo == <<"foo">>
Bar == <<"bar", "-", "rs">>
V1 == <<"0.0.1">>
V12 == <<"0.0.1", "2">>
VPre == <<"0.0.1", "-Dhost">>

NoFlags == [host |-> << >>, target |-> << >>]
CrossFlags == [host |-> <<"-Dhost">>, target |-> << >>]

NoProfile == [codegen_units |-> None, rustflags |-> << >>]
OwnProfile == [codegen_units |-> 4, rustflags |-> <<"-Copt">>]
Profiles == [host |-> NoProfile, normal |-> NoProfile]

Target(kind, name, formats, required, path) ==
  [kind |-> kind, name |-> name, formats |-> formats, required_features |-> required,
   path |-> path]
Lib(name, formats) == Target("lib", name, formats, {}, "inside")
Bin(name, required) == Target("bin", name, << >>, required, "inside")
Script(path) == Target("build", <<"build_script_build">>, << >>, {}, path)

Package(name, version, features, source, links, targets) ==
  [name |-> name, version |-> version, features |-> features, source |-> source,
   root |-> IF links THEN "nested" ELSE "repository", found |-> TRUE, links |-> links,
   profile |-> Profiles, targets |-> targets]

Root ==
  Package(<<"app">>, V1, << <<"std">> >>, "path", FALSE,
          << Lib(<<"app">>, <<"Lib", "Cdylib">>), Bin(<<"app", "-", "cli">>, {<<"std">>}),
             Bin(<<"app", "-", "gui">>, {<<"gui">>}), Script("inside") >>)

Dep(to, kind, rename, req) ==
  [to |-> to, kind |-> kind, rename |-> rename, version_req |-> req]

Workspace(packages, deps, compile_target, rustflags, global, crate, printed) ==
  [packages |-> packages, deps |-> deps, compile_target |-> compile_target,
   rustflags |-> rustflags, global_overrides |-> global,
   crate_overrides |-> crate, printed |-> printed]

NothingPrinted == << {}, {}, {} >>

(* Packages of one name or of two, under any names and requirements, of    *)
(* any kinds, in both orders, and a second entry for the first of them.    *)
RenameDeps(to, version) ==
  {Dep(to, kind, rename, req) :
     kind \in {"normal", "build", "development"},
     rename \in {None, <<"dep", "-", "x">>, <<"dep", "-", "y">>},
     req \in {{version}, {V1, V12}}}

RenameWorkspaces ==
  {Workspace(<< Package(Foo, V1, << >>, "registry", FALSE, << Lib(Foo, <<"Lib">>) >>),
                Package(name, V12, << >>, "registry", FALSE, << Lib(Foo, <<"Lib">>) >>), Root >>,
             << << >>, << >>, entries >>, None, NoFlags, None, None, NothingPrinted) :
     name \in {Foo, Bar},
     entries \in UNION {{<<a, b>>, <<b, a>>, <<a, a, b>>} :
                          a \in RenameDeps(1, V1), b \in RenameDeps(2, V12)}}

(* Libraries of every format, under profiles of their own, compiled for    *)
(* the host or for another machine.                                        *)
Formats == {<<"Lib">>, <<"Rlib", "Cdylib">>, <<"Dylib">>, <<"ProcMacro">>, <<"Cdylib">>,
            <<"Staticlib", "Lib">>}

FileWorkspaces ==
  {Workspace(<< [Package(Foo, V1, << >>, "registry", FALSE, << Lib(lib1, formats) >>)
                   EXCEPT !.profile[for] = OwnProfile],
                Package(Bar, version, << >>, "git", TRUE, << Lib(Foo, <<"Lib">>) >>), Root >>,
             << << >>, << Dep(1, "normal", None, {V1}) >>,
                << Dep(1, kind, None, {V1}), Dep(2, "normal", None, {V1, V12}) >> >>,
             target, CrossFlags, None, None, NothingPrinted) :
     for \in {"host", "normal"}, lib1 \in {Foo, <<"foo_core">>}, formats \in Formats, version \in {V1, V12},
     kind \in {"normal", "build"}, target \in {None, "aarch64"}}

(* Two libraries of one name, a procedural macro among them, with versions *)
(* and features that can and cannot be taken for each other: <<"a">> and   *)
(* <<"b", "c">> make the same row as <<"a", "b">> and <<"c">>, a feature   *)
(* may begin where a version ends, a feature or the end of a version may   *)
(* be what a flag is.                                                      *)
FeatureSets ==
  {<< >>, << <<"a">>, <<"b", "c">> >>, << <<"a", "b">>, <<"c">> >>,
   << <<"b", "c">>, <<"c">> >>, << <<"2">> >>, << <<"-Dhost">> >>}

HashWorkspaces ==
  {Workspace(<< Package(Foo, V1, features1, "registry", FALSE, << Lib(Foo, formats[1]) >>),
                Package(Bar, version, features2, "git", TRUE, << Lib(Foo, formats[2]) >>), Root >>,
             << << >>, << >>, << Dep(1, "normal", None, {V1}), Dep(2, "normal", None, {version}) >> >>,
             "aarch64", CrossFlags, None, None, NothingPrinted) :
     features1 \in FeatureSets, features2 \in FeatureSets,
     version \in {V1, V12, VPre},
     formats \in {<< <<"Lib">>, <<"Lib">> >>, << <<"Dylib">>, <<"ProcMacro">> >>,
                  << <<"ProcMacro">>, <<"Dylib">> >>}}

(* Packages that make the construction or the lookup panic, or just not.   *)
Offending ==
  {[p EXCEPT !.targets = << t >>] :
     p \in {Package(Foo, V1, << >>, "registry", FALSE, << >>)},
     t \in {Target("lib", Foo, <<"Lib">>, {}, "outside"), Target("lib", Foo, <<"Lib">>, {}, "metabuild"),
           Lib(Foo, <<"Lib", "Bin">>)}}
  \cup {[Package(Foo, V1, << >>, source, FALSE, << Lib(Foo, <<"Lib">>), other >>)
           EXCEPT !.root = root, !.found = found] :
          source \in {"registry", "git", "path"}, root \in {"repository", "nested", "elsewhere"},
          found \in BOOLEAN,
          other \in {Script("outside"), Script("metabuild"), Script("inside"),
                     Target("bin", Foo, << >>, {}, "outside")}}

RootBins == {Target("bin", Foo, << >>, required, path) :
               required \in {{}, {<<"gui">>}}, path \in {"inside", "outside", "metabuild"}}

PanicWorkspaces ==
  {Workspace(<< first, Package(Bar, V1, << >>, "path", FALSE, << Lib(<<"bar">>, <<"Lib">>) >>),
                [Root EXCEPT !.targets = Append(@, bin)] >>,
             << << >>, << >>, << Dep(1, "normal", None, {V1}) >> >>,
             None, NoFlags, None, None, NothingPrinted) :
     first \in Offending, bin \in RootBins}

(* Overrides for everything and for the package at the bottom, and build   *)
(* scripts that print keys of every group.                                 *)
Native(n) == << Item("native", n) >>
Overrides ==
  {None, [buildInputs |-> Native(9)],
   [buildInputs |-> Native(9), preBuild |-> Native(9), nativeBuildInputs |-> Native(9)]}

CrateOverrides ==
  {None} \cup
  {Foo :> [attrs |-> attrs, extends |-> extends, throws |-> throws] :
     attrs \in {[buildInputs |-> Native(8)], [buildPhase |-> Native(8)],
                [configurePhase |-> Native(8)], [installPhase |-> Native(8)],
                [configurePhase |-> Native(8), installPhase |-> Native(8)]},
     extends \in BOOLEAN, throws \in BOOLEAN}

AllKeys == SharedKeys \cup LibraryKeys \cup BinaryKeys \cup VariableKeys

OverrideWorkspaces ==
  {Workspace(<< Package(Foo, V1, << >>, "registry", TRUE,
                        << Lib(Foo, <<"Lib">>), Bin(<<"foo", "-", "tool">>, {}) >> \o script),
                Package(Bar, V1, << >>, "git", FALSE, << Lib(<<"bar", "_", "rs">>, <<"Lib">>), Script("inside") >>),
                Root >>,
             << << >>, << Dep(1, "normal", None, {V1}) >>, << Dep(2, kind, None, {V1}) >> >>,
             None, NoFlags, global, crate, << first, AllKeys, AllKeys >>) :
     script \in {<< >>, << Script("inside") >>}, kind \in {"normal", "build"}, global \in Overrides,
     crate \in CrateOverrides, first \in {AllKeys, {"rustc-cfg"}}}

MCWorkspaces ==
  RenameWorkspaces \cup FileWorkspaces \cup HashWorkspaces \cup PanicWorkspaces
    \cup OverrideWorkspaces
===============================================================================
