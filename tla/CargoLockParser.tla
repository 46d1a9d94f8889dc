---------------------------- MODULE CargoLockParser ----------------------------
(***************************************************************************)
(* `CargoLockParser` (src/src/cargo_lock_parser.rs): the iterator over the *)
(* packages of a Cargo.lock file, one action per arm of the `match` in     *)
(* `next_inner`.                                                           *)
(*                                                                         *)
(* The file is a sequence of lines, each named for what it starts with.    *)
(* `cursorOffset` counts the lines before the cursor.  The cursor is at    *)
(* the end of the last of them, or, at the start of an entry, in front of  *)
(* the "[[" of the next.                                                   *)
(***************************************************************************)
EXTENDS Integers, Sequences, SequencesExt, FiniteSetsExt

CONSTANTS
  LockFiles,   (* The files to parse.                                       *)
  RawSources   (* The parts of each source string a file may contain.       *)

(* A line.  The value between the quotes is a string; `closed` tells if the *)
(* closing quote is there, as it is but in a file that was cut off.         *)
Line == [key : {"package", "patch", "name", "version", "source", "checksum",
                "dependencies", "replace", "blank"},
         value : STRING, closed : BOOLEAN]

(* `url` is the registry's or the repository's, `refKey` the key of the     *)
(* query, `rev` what follows the '#'; "" stands for a part that is missing. *)
RawSource == [protocol : STRING, url : STRING,
              refKey : STRING, refValue : STRING, rev : STRING]

ASSUME LockFilesAssumption ==
  /\ "" \notin DOMAIN RawSources
  /\ \A s \in DOMAIN RawSources : RawSources[s] \in RawSource
  /\ \A file \in LockFiles :
       /\ file \in Seq(Line)
       /\ \A k \in DOMAIN file :
         /\ file[k].closed \/ k = Len(file)
         /\ file[k].key = "source" => file[k].value \in DOMAIN RawSources

VARIABLES
  lines,           (* `src`, read-only.                                     *)
  cursorOffset, cursorPosition,
  entry,           (* The entry being filled in.                            *)
  item,            (* "pending" inside next_inner, or what it returned.     *)
  yielded          (* All entries returned so far.                          *)

parserVars == <<lines, cursorOffset, cursorPosition, entry, item, yielded>>

DummyEntry == [name |-> "", version |-> "", source |-> "", checksum |-> ""]

-------------------------------------------------------------------------------
(* Sources.                                                                 *)

CratesIo == {<<"registry", "crates.io-index">>, <<"sparse", "crates.io-sparse">>}

(* GitSource::try_from: it takes a revision and, if there is a query, one of *)
(* the three keys.                                                          *)
IsGit(raw) ==
  /\ raw.protocol = "git"
  /\ raw.rev # ""
  /\ raw.refKey \in {"", "branch", "tag", "rev"}

(* PackageSource::parse: the kind of source; no protocol and any other one  *)
(* are errors.                                                              *)
SourceKind(raw) ==
  CASE <<raw.protocol, raw.url>> \in CratesIo -> "crates.io"
    [] raw.protocol \in {"registry", "sparse"} /\ <<raw.protocol, raw.url>> \notin CratesIo ->
         "registry"
    [] IsGit(raw) -> "git"
    [] OTHER -> "error"

Kind(source) == SourceKind(RawSources[source])
IsRegistry(source) == source # "" /\ Kind(source) \in {"crates.io", "registry"}
IsSource(source) == Kind(source) \in {"crates.io", "registry", "git"}

-------------------------------------------------------------------------------
(* The cursor.                                                              *)

(* The n-th line after the cursor starts with `key`.                        *)
Follows(n, key) == cursorOffset + n <= Len(lines) /\ lines[cursorOffset + n].key = key
LineAfter(n) == lines[cursorOffset + n]

IsHeader(k) == lines[k].key \in {"package", "patch"}

(* search_from_cursor("[["), as the number of lines before what was found.  *)
NextHeaders == {k \in DOMAIN lines : k > cursorOffset /\ IsHeader(k)}

Inside(position) == item = "pending" /\ cursorPosition = position

(* next_inner returns early.  An unclosed quote leaves the cursor in its    *)
(* line, where no call looks again.                                         *)
Throw ==
  /\ item' = "error"
  /\ UNCHANGED <<lines, cursorOffset, cursorPosition, entry, yielded>>

(* The n-th line after the cursor is read into the entry.  The checksum is  *)
(* part of the source: a new source has none.                               *)
Read(n, field, position) ==
  /\ entry' = [entry EXCEPT !.checksum = IF field = "source" THEN "" ELSE @,
                            ![field] = LineAfter(n).value]
  /\ cursorOffset' = cursorOffset + n
  /\ cursorPosition' = position
  /\ UNCHANGED <<lines, item, yielded>>

MoveTo(position) ==
  /\ cursorPosition' = position
  /\ UNCHANGED <<lines, cursorOffset, entry, item, yielded>>

StartOfEntry ==
  /\ Inside("StartOfEntry")
  /\ IF Follows(1, "package") /\ Follows(2, "name") /\ LineAfter(2).closed
     THEN Read(2, "name", "EndOfName")
     ELSE Throw

(* Mutant: the line is not looked at.                                       *)
EndOfNameUnchecked ==
  /\ Inside("EndOfName")
  /\ cursorOffset' = cursorOffset + 1
  /\ cursorPosition' = "EndOfVersion"
  /\ UNCHANGED <<lines, entry, item, yielded>>

EndOfName ==
  /\ Inside("EndOfName")
  /\ IF Follows(1, "version") /\ LineAfter(1).closed
     THEN Read(1, "version", "EndOfVersion")
     ELSE Throw

(* Mutant: without a source the entry stays as it is.                       *)
EndOfVersionKept ==
  /\ Inside("EndOfVersion")
  /\ CASE ~Follows(1, "source") -> MoveTo("EndOfChecksum")
       [] Follows(1, "source") /\ LineAfter(1).closed /\ IsSource(LineAfter(1).value) ->
            Read(1, "source", "EndOfSource")
       [] OTHER -> Throw

(* Without a source, the one of a replaced entry before this one goes.      *)
EndOfVersion ==
  /\ Inside("EndOfVersion")
  /\ CASE ~Follows(1, "source") ->
            /\ entry' = [entry EXCEPT !.source = "", !.checksum = ""]
            /\ cursorPosition' = "EndOfChecksum"
            /\ UNCHANGED <<lines, cursorOffset, item, yielded>>
       [] Follows(1, "source") /\ LineAfter(1).closed /\ IsSource(LineAfter(1).value) ->
            Read(1, "source", "EndOfSource")
       [] OTHER -> Throw

(* Mutant: a checksum is read only if there is one.                         *)
EndOfSourceLenient ==
  /\ Inside("EndOfSource")
  /\ IF IsRegistry(entry.source) /\ Follows(1, "checksum")
     THEN Read(1, "checksum", "EndOfChecksum")
     ELSE MoveTo("EndOfChecksum")

EndOfSource ==
  /\ Inside("EndOfSource")
  /\ CASE ~IsRegistry(entry.source) -> MoveTo("EndOfChecksum")
       [] IsRegistry(entry.source) /\ Follows(1, "checksum") /\ LineAfter(1).closed ->
            Read(1, "checksum", "EndOfChecksum")
       [] OTHER -> Throw

(* The entry is returned, unless `skip` tells that it is replaced; then the *)
(* loop goes on with the entry that follows `from`.                         *)
NextEntry(skip, from) ==
  /\ Inside("EndOfChecksum")
  /\ IF from = {} THEN cursorPosition' = "EndOfFile" /\ UNCHANGED cursorOffset
     ELSE cursorPosition' = "StartOfEntry" /\ cursorOffset' = Min(from) - 1
  /\ IF skip THEN UNCHANGED <<item, yielded>>
     ELSE item' = "entry" /\ yielded' = Append(yielded, entry)
  /\ UNCHANGED <<lines, entry>>

(* Mutants of the next action: replaced entries are not skipped; the search *)
(* starts at the entry just read, so that it is found again.                *)
ReturnReplaced == NextEntry(FALSE, NextHeaders)

SearchAgain ==
  NextEntry(Follows(1, "replace"),
            {k \in DOMAIN lines : IsHeader(k) /\ (k > cursorOffset \/ Follows(1, "replace"))})

EndOfChecksum == NextEntry(Follows(1, "replace"), NextHeaders)

(* `None`, for this call and every later one.                               *)
EndOfFile ==
  /\ Inside("EndOfFile")
  /\ item' = "end"
  /\ UNCHANGED <<lines, cursorOffset, cursorPosition, entry, yielded>>

NextInner ==
  \/ StartOfEntry
  \/ EndOfName
  \/ EndOfVersion
  \/ EndOfSource
  \/ EndOfChecksum
  \/ EndOfFile

(* The next iteration of the `for` loop over the parser, which an error     *)
(* ends.                                                                    *)
CallNext ==
  /\ item = "entry"
  /\ item' = "pending"
  /\ entry' = DummyEntry
  /\ UNCHANGED <<lines, cursorOffset, cursorPosition, yielded>>

ParserInit ==
  /\ lines \in LockFiles
  /\ LET headers == {k \in DOMAIN lines : IsHeader(k)}
     IN  IF headers = {} THEN cursorPosition = "EndOfFile" /\ cursorOffset = 0
         ELSE cursorPosition = "StartOfEntry" /\ cursorOffset = Min(headers) - 1
  /\ entry = DummyEntry
  /\ item = "pending"
  /\ yielded = <<>>

Ended == item \in {"end", "error"}

ParserNext == NextInner \/ CallNext \/ (Ended /\ UNCHANGED parserVars)

ParserSpec == ParserInit /\ [][ParserNext]_parserVars

-------------------------------------------------------------------------------
(* Properties.                                                              *)

(* "" stands for a field that is missing.                                   *)
PackageEntry ==
  [name : STRING \cup {""}, version : STRING \cup {""},
   source : STRING \cup {""}, checksum : STRING \cup {""}]

ParserTypeOK ==
  /\ cursorOffset \in 0..Len(lines)
  /\ cursorPosition \in {"StartOfEntry", "EndOfName", "EndOfVersion",
                         "EndOfSource", "EndOfChecksum", "EndOfFile"}
  /\ entry \in PackageEntry
  /\ item \in {"pending", "entry", "end", "error"}
  /\ yielded \in Seq(PackageEntry)

Headers == {h \in DOMAIN lines : IsHeader(h)}

(* The lines of the entry that starts at line h, and the value of one.      *)
BlockOf(h) == {k \in DOMAIN lines : k > h /\ ~\E j \in (h + 1)..k : IsHeader(j)}
Field(h, key) ==
  LET found == {k \in BlockOf(h) : lines[k].key = key}
  IN  IF found = {} THEN "" ELSE lines[Min(found)].value

(* "Each entry can contain the following fields (in this order)", the last  *)
(* two of them mutually exclusive and the checksum for registries only;     *)
(* lines of no field come after them.                                       *)
Place == [name |-> 1, version |-> 2, source |-> 3, checksum |-> 4,
          dependencies |-> 5, replace |-> 5, blank |-> 6]

InDocumentedOrder ==
  \A h \in Headers :
    /\ \A j, k \in BlockOf(h) :
         j < k /\ lines[k].key # "blank" => Place[lines[j].key] < Place[lines[k].key]
    /\ \A k \in BlockOf(h) :
         lines[k].key = "checksum" =>
           lines[k - 1].key = "source" /\ IsRegistry(lines[k - 1].value)

(* What the file lists: the packages that are not replaced.                 *)
IsListed(h) ==
  lines[h].key = "package" /\ ~\E k \in BlockOf(h) : lines[k].key = "replace"

ListedHeaders == {h \in DOMAIN lines : IsListed(h)}

EntryAt(h) ==
  [name |-> Field(h, "name"), version |-> Field(h, "version"),
   source |-> Field(h, "source"),
   checksum |-> IF IsRegistry(Field(h, "source")) THEN Field(h, "checksum") ELSE ""]

(* `at` goes through hs in order from the first on and leaves none out.     *)
InSequence(at, hs) ==
  /\ \A j, k \in DOMAIN at : j < k => at[j] < at[k]
  /\ \A k \in DOMAIN at, h \in hs : h < at[k] => \E j \in DOMAIN at : at[j] = h

(* The entries returned are those the file lists, from the first on, none   *)
(* left out and no field taken from another entry; at the end, all of them. *)
YieldsListed ==
  InDocumentedOrder =>
    \E at \in [DOMAIN yielded -> ListedHeaders] :
      /\ InSequence(at, ListedHeaders)
      /\ \A k \in DOMAIN yielded : yielded[k] = EntryAt(at[k])
      /\ item = "end" => \A h \in ListedHeaders : \E k \in DOMAIN yielded : at[k] = h

(* An entry as the documentation of PackageEntry lays it out, with the      *)
(* fields in that order: a checksum if the source is a registry.            *)
DocumentedEntry(h) ==
  LET source == Field(h, "source")
      after(n) == IF h + n \in BlockOf(h) THEN lines[h + n].key ELSE "blank"
  IN  /\ lines[h].key = "package" /\ after(1) = "name" /\ after(2) = "version"
      /\ source # "" =>
           /\ after(3) = "source" /\ IsSource(source)
           /\ IsRegistry(source) => after(4) \in {"checksum", "replace"}

(* That, but for a registry entry that is replaced.                         *)
ParsableEntry(h) ==
  DocumentedEntry(h) /\ (IsRegistry(Field(h, "source")) => lines[h + 4].key = "checksum")

AllClosed == \A k \in DOMAIN lines : lines[k].closed

(* A file whose entries are laid out as Cargo does is parsed without error, *)
(* and a file with any other entry is not: nothing is guessed.              *)
ErrorsExact ==
  InDocumentedOrder =>
    /\ item = "error" => ~(AllClosed /\ \A h \in Headers : ParsableEntry(h))
    /\ item = "end" => \A h \in Headers : ParsableEntry(h)

(* "we skip entries with a `replace` field".                                *)
ReplacedSkipped ==
  (\A h \in Headers : DocumentedEntry(h)) /\ AllClosed => item # "error"

-------------------------------------------------------------------------------
(* The inductive invariant behind these properties.                         *)

LineIs(k, key, value) ==
  k \in DOMAIN lines /\ lines[k].key = key /\ lines[k].value = value

(* What has been read of the entry that starts at line h.                   *)
NameRead(h) == h \in Headers /\ lines[h].key = "package" /\ LineIs(h + 1, "name", entry.name)

VersionRead(h) == NameRead(h) /\ LineIs(h + 2, "version", entry.version)

SourceRead(h) ==
  VersionRead(h) /\ LineIs(h + 3, "source", entry.source) /\ IsSource(entry.source)

(* All of it: without a source, with a git source, with a registry.         *)
EntryRead(h) ==
  \/ /\ cursorOffset = h + 2 /\ VersionRead(h) /\ ~Follows(1, "source")
     /\ entry.source = "" /\ entry.checksum = ""
  \/ /\ cursorOffset = h + 3 /\ SourceRead(h)
     /\ ~IsRegistry(entry.source) /\ entry.checksum = ""
  \/ /\ cursorOffset = h + 4 /\ SourceRead(h)
     /\ IsRegistry(entry.source) /\ LineIs(h + 4, "checksum", entry.checksum)

(* The cursor is in the entry that starts at line h, or behind the last.    *)
CursorIn(h) ==
  \/ cursorPosition = "StartOfEntry" /\ cursorOffset + 1 = h /\ h \in Headers
  \/ cursorPosition = "EndOfName" /\ cursorOffset = h + 1 /\ NameRead(h)
  \/ cursorPosition = "EndOfVersion" /\ cursorOffset = h + 2 /\ VersionRead(h)
  \/ /\ cursorPosition = "EndOfSource" /\ cursorOffset = h + 3 /\ SourceRead(h)
     /\ entry.checksum = ""
  \/ cursorPosition = "EndOfChecksum" /\ EntryRead(h)
  \/ cursorPosition = "EndOfFile" /\ h = Len(lines) + 1

(* The listed ones of the entries before line h have been returned.         *)
YieldsBefore(h, es) ==
  \E at \in [DOMAIN es -> ListedHeaders] :
    /\ \A j, k \in DOMAIN es : j < k => at[j] < at[k]
    /\ \A g \in ListedHeaders : g < h <=> \E k \in DOMAIN es : at[k] = g
    /\ \A k \in DOMAIN es : es[k] = EntryAt(at[k])

Passed(h) ==
  /\ \A g \in Headers : g < h => ParsableEntry(g)
  /\ YieldsBefore(h, yielded)

CursorInv ==
  /\ \E h \in 1..(Len(lines) + 1) : CursorIn(h) /\ (InDocumentedOrder => Passed(h))
  /\ item = "entry" =>
       /\ cursorPosition \in {"StartOfEntry", "EndOfFile"}
       /\ yielded # <<>> /\ entry = yielded[Len(yielded)]
  /\ item = "end" => cursorPosition = "EndOfFile"
  /\ item = "error" /\ InDocumentedOrder =>
       ~(AllClosed /\ \A h \in Headers : ParsableEntry(h))

ParserInv == lines \in LockFiles /\ ParserTypeOK /\ CursorInv

===============================================================================
