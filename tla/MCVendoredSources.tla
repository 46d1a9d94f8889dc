--------------------------- MODULE MCVendoredSources ---------------------------
(***************************************************************************)
(* Small lock files for VendoredSources.                                   *)
(***************************************************************************)
EXTENDS VendoredSources, MCLockFiles

(* Names and versions in byte order, where "0.10.0" comes before "0.9.0".   *)
MCRank ==
  [s \in {"0.1.0", "0.10.0", "0.9.0", "serde", "syn", "url"} |->
     CASE s = "0.1.0" -> 1 [] s = "0.10.0" -> 2 [] s = "0.9.0" -> 3
       [] s = "serde" -> 4 [] s = "syn" -> 5 [] s = "url" -> 6]

(* The packages a file may list, in the order of Cargo: by name, then by    *)
(* version as numbers, then by source.                                      *)
Packages == <<<<"serde", "0.1.0">>, <<"serde", "0.9.0">>, <<"serde", "0.10.0">>,
              <<"syn", "0.1.0">>, <<"syn", "0.10.0">>, <<"url", "0.1.0">>>>

Registries == {"crates", "sparse", "other", "swapped"}

(* Package k: what its entry starts with, its source, if it has a checksum, *)
(* and what comes after it.                                                 *)
Shape(k, header, source, checksum, tail) ==
  Block(header, Packages[k][1], Packages[k][2], source,
        IF checksum THEN "c" \o Packages[k][2] ELSE "", tail)

Sourced(k, source) == Shape(k, "package", source, source \in Registries, "dependencies")

Listing(choice) ==
  LET chosen == SetToSortSeq(DOMAIN choice, <)
  IN  FileOf([k \in DOMAIN chosen |-> Sourced(chosen[k], choice[chosen[k]])])

(* At most `size` packages, each with a source.  A repository at one ref    *)
(* has one version of a package.                                            *)
Selections(size, from) ==
  {c \in UNION {[S -> from] : S \in {S \in SUBSET DOMAIN Packages : Cardinality(S) <= size}} :
     \A j, k \in DOMAIN c :
       c[j] = c[k] /\ Packages[j][1] = Packages[k][1] => j = k \/ c[j] \in Registries \cup {""}}

(* A package from a registry and from git at once: one SourceId.            *)
Twice == FileOf(<<Sourced(1, "crates"), Sourced(1, "git"), Sourced(6, "gitTag")>>)

Listings ==
  {Listing(c) : c \in Selections(3, {"", "crates", "git", "gitTag"})}
  \cup {Listing(c) : c \in Selections(6, {"", "sparse"})}
  \cup {Twice}

(* Every source, each with whatever may follow it: a checksum belongs to a  *)
(* registry, and a path dependency is not replaced.                         *)
AnyBlock(k) ==
  {Shape(k, "package", source, checksum, tail) :
     source \in Registries, checksum \in BOOLEAN, tail \in {"", "dependencies", "replace"}}
  \cup {Shape(k, "package", source, FALSE, tail) :
          source \in DOMAIN MCRawSources \ Registries, tail \in {"dependencies", "replace"}}
  \cup {Shape(k, "package", "", FALSE, tail) : tail \in {"", "dependencies"}}
  \cup {Shape(k, "patch", "crates", checksum, "") : checksum \in BOOLEAN}

(* The ones that Cargo writes, with the replaced entry of the docs.         *)
CargoBlock(k) ==
  {Shape(k, "package", "crates", TRUE, tail) : tail \in {"dependencies", "replace"}}
  \cup {Shape(k, "package", "gitTag", FALSE, tail) : tail \in {"", "replace"}}
  \cup {Shape(k, "package", "", FALSE, "dependencies"),
        Shape(k, "package", "crates", FALSE, "replace"),
        Shape(k, "patch", "crates", TRUE, "")}

(* Whole files, and files of two entries cut off anywhere.                  *)
WholeFiles ==
  {FileOf(<<>>)}
  \cup {FileOf(<<b>>) : b \in AnyBlock(1)}
  \cup {FileOf(<<b, c>>) : b \in AnyBlock(1), c \in CargoBlock(4)}
  \cup {FileOf(<<b, c, d>>) : b \in CargoBlock(1), c \in CargoBlock(4), d \in CargoBlock(6)}
  \cup {FileOf(<<Shape(1, "package", "crates", checksum, "replace"), Sourced(1, ""), c>>) :
          checksum \in BOOLEAN, c \in CargoBlock(4)}

CutFiles ==
  UNION {{CutOff(file, n), CutOffInside(file, n)} :
           n \in 1..9,
           file \in {FileOf(<<b, c>>) : b \in CargoBlock(1), c \in AnyBlock(4)}}

MCLockFileSet == Listings \cup WholeFiles \cup CutFiles

===============================================================================
