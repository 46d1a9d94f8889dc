------------------------------ MODULE MCLockFiles ------------------------------
(***************************************************************************)
(* Small Cargo.lock files, for the modules that are checked on them.       *)
(***************************************************************************)
EXTENDS Integers, Sequences, SequencesExt

Raw(protocol, url, refKey, refValue, rev) ==
  [protocol |-> protocol, url |-> url, refKey |-> refKey, refValue |-> refValue, rev |-> rev]

(* A source of every kind, and one for every way to be none.                *)
MCRawSources ==
  [crates   |-> Raw("registry", "crates.io-index", "", "", ""),
   sparse   |-> Raw("sparse", "crates.io-sparse", "", "", ""),
   other    |-> Raw("registry", "example.org", "", "", ""),
   swapped  |-> Raw("sparse", "crates.io-index", "", "", ""),
   git      |-> Raw("git", "repo", "", "", "r1"),
   gitTag   |-> Raw("git", "repo", "tag", "v1", "r1"),
   gitShort |-> Raw("git", "repo2", "", "", "short"),
   gitKey   |-> Raw("git", "repo", "version", "v1", "r1"),
   gitNoRev |-> Raw("git", "repo", "", "", ""),
   noPlus   |-> Raw("", "repo", "", "", ""),
   path     |-> Raw("path", "repo", "", "", "")]

TextLine(key, value) == [key |-> key, value |-> value, closed |-> TRUE]

(* The line of an optional field; "" if it is missing.                      *)
Optional(key, value) == IF value = "" THEN <<>> ELSE <<TextLine(key, value)>>

(* An entry, and the blank line after it.                                   *)
Block(header, name, version, source, checksum, tail) ==
  <<TextLine(header, ""), TextLine("name", name), TextLine("version", version)>>
    \o Optional("source", source) \o Optional("checksum", checksum)
    \o (IF tail = "" THEN <<>> ELSE <<TextLine(tail, "")>>)
    \o <<TextLine("blank", "")>>

(* A file of these entries, after the line that tells its version.          *)
FileOf(blocks) == <<TextLine("blank", "")>> \o FlattenSeq(blocks)

(* The file cut off after its first n lines, or inside the n-th.            *)
CutOff(file, n) == SubSeq(file, 1, n)
CutOffInside(file, n) == [CutOff(file, n) EXCEPT ![n].closed = FALSE]

===============================================================================
