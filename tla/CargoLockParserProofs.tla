------------------------- MODULE CargoLockParserProofs -------------------------
(***************************************************************************)
(* Proofs about CargoLockParser, for files of every length.  They rest on  *)
(* ParserInv: the cursor is in the entry of some header, everything before *)
(* that header has been returned or skipped, and what has been read of the *)
(* entry stands where the position of the cursor says.                     *)
(***************************************************************************)
EXTENDS CargoLockParser, WellFoundedInduction, TLAPS

-------------------------------------------------------------------------------
(* Least elements.                                                         *)

(* A set of natural numbers that is not empty has a least element.         *)
LEMMA LeastOf ==
  ASSUME NEW S \in SUBSET Nat, S # {}
  PROVE  \E x \in S : \A y \in S : x <= y
<1>1. PICK x \in S : \A y \in S : ~(<<y, x>> \in OpToRel(<, Nat))
  BY WFMin, NatLessThanWellFounded
<1>2. \A y \in S : ~(y < x)
  BY <1>1 DEF OpToRel
<1>3. ASSUME NEW y \in S
      PROVE  x <= y
  <2>1. x \in Nat /\ y \in Nat /\ ~(y < x)
    BY <1>1, <1>2
  <2> QED
    BY <2>1
<1> QED
  BY <1>1, <1>3

LEMMA MinOf ==
  ASSUME NEW S \in SUBSET Nat, S # {}
  PROVE  Min(S) \in S /\ \A y \in S : Min(S) <= y
BY LeastOf DEF Min

LEMMA MinOfOne ==
  ASSUME NEW x \in Nat
  PROVE  Min({x}) = x
BY MinOf

-------------------------------------------------------------------------------
(* The lines of a file.                                                    *)

LEMMA FileTyped ==
  ASSUME lines \in LockFiles
  PROVE  /\ lines \in Seq(Line) /\ Len(lines) \in Nat /\ DOMAIN lines = 1..Len(lines)
         /\ \A k \in DOMAIN lines :
              /\ lines[k].value \in STRING
              /\ lines[k].key = "source" =>
                   lines[k].value \in DOMAIN RawSources /\ lines[k].value # ""
<1>1. lines \in Seq(Line)
  BY LockFilesAssumption
<1>2. Len(lines) \in Nat /\ DOMAIN lines = 1..Len(lines)
  BY <1>1
<1>3. \A k \in DOMAIN lines : lines[k] \in Line
  BY <1>1
<1> QED
  BY <1>1, <1>2, <1>3, LockFilesAssumption DEF Line

LEMMA LineNumbers ==
  ASSUME lines \in LockFiles
  PROVE  /\ Len(lines) \in Nat
         /\ \A k : k \in DOMAIN lines <=> k \in Nat \ {0} /\ k <= Len(lines)
<1>1. Len(lines) \in Nat /\ DOMAIN lines = 1..Len(lines)
  BY FileTyped
<1> QED
  BY <1>1

LEMMA KeyTyped ==
  ASSUME lines \in LockFiles, NEW k \in DOMAIN lines, ~IsHeader(k)
  PROVE  lines[k].key \in DOMAIN Place
<1>1. lines \in Seq(Line)
  BY FileTyped
<1>2. lines[k] \in Line
  BY <1>1
<1> QED
  BY <1>2 DEF Line, IsHeader, Place

(* From a header on, the lines up to the next one are its block.           *)
LEMMA BlockFacts ==
  ASSUME lines \in LockFiles, NEW h \in Nat, NEW k \in DOMAIN lines,
         h < k, \A j \in (h + 1)..k : ~IsHeader(j)
  PROVE  k \in BlockOf(h)
BY DEF BlockOf

(* A line of the block with a field's key holds the field, if the fields   *)
(* are in order.                                                           *)
LEMMA FieldIs ==
  ASSUME lines \in LockFiles, InDocumentedOrder, NEW h \in Headers,
         NEW k \in BlockOf(h), NEW key \in {"name", "version", "source", "checksum"},
         lines[k].key = key
  PROVE  Field(h, key) = lines[k].value
<1>1. BlockOf(h) \subseteq DOMAIN lines /\ DOMAIN lines = 1..Len(lines) /\ Len(lines) \in Nat
  BY FileTyped DEF BlockOf
<1>2. ASSUME NEW j \in BlockOf(h), lines[j].key = key
      PROVE  j = k
  <2>1. Place[key] \in Nat /\ ~(Place[key] < Place[key]) /\ key # "blank"
    BY DEF Place
  <2>2. ~(j < k) /\ ~(k < j)
    BY <1>2, <2>1 DEF InDocumentedOrder
  <2> QED
    BY <1>1, <2>2
<1>3. {j \in BlockOf(h) : lines[j].key = key} = {k}
  BY <1>2
<1>4. Min({k}) = k
  BY <1>1, MinOfOne
<1> QED
  BY <1>3, <1>4 DEF Field

LEMMA FieldMissing ==
  ASSUME NEW h, NEW key, \A k \in BlockOf(h) : lines[k].key # key
  PROVE  Field(h, key) = ""
<1>1. {k \in BlockOf(h) : lines[k].key = key} = {}
  OBVIOUS
<1> QED
  BY <1>1 DEF Field

-------------------------------------------------------------------------------
(* What has been read of an entry is what the file has there.              *)

LEMMA NameIs ==
  ASSUME lines \in LockFiles, NEW h, NameRead(h)
  PROVE  /\ h \in Nat \ {0} /\ h + 1 \in BlockOf(h)
         /\ InDocumentedOrder => Field(h, "name") = entry.name
<1>1. h \in DOMAIN lines /\ h \in Headers /\ LineIs(h + 1, "name", entry.name)
  BY DEF NameRead, Headers
<1>2. h \in Nat \ {0}
  BY <1>1, LineNumbers
<1>3. h + 1 \in DOMAIN lines /\ \A j \in (h + 1)..(h + 1) : ~IsHeader(j)
  BY <1>1, <1>2 DEF LineIs, IsHeader
<1>4. h + 1 \in BlockOf(h)
  BY <1>2, <1>3, BlockFacts
<1>5. InDocumentedOrder => Field(h, "name") = entry.name
  BY <1>1, <1>4, FieldIs DEF LineIs
<1> QED
  BY <1>2, <1>4, <1>5

LEMMA VersionIs ==
  ASSUME lines \in LockFiles, NEW h, VersionRead(h)
  PROVE  /\ h \in Nat \ {0} /\ h + 1 \in BlockOf(h) /\ h + 2 \in BlockOf(h)
         /\ InDocumentedOrder => Field(h, "version") = entry.version
<1>1. NameRead(h) /\ h \in Headers /\ LineIs(h + 2, "version", entry.version)
  BY DEF VersionRead, NameRead
<1>2. h \in Nat \ {0} /\ h + 1 \in BlockOf(h)
  BY <1>1, NameIs
<1>3. h + 2 \in DOMAIN lines /\ \A j \in (h + 1)..(h + 2) : ~IsHeader(j)
  <2>1. \A j \in (h + 1)..(h + 2) : j = h + 1 \/ j = h + 2
    BY <1>2
  <2> QED
    BY <1>1, <2>1 DEF LineIs, IsHeader, NameRead
<1>4. h + 2 \in BlockOf(h)
  BY <1>2, <1>3, BlockFacts
<1>5. InDocumentedOrder => Field(h, "version") = entry.version
  BY <1>1, <1>4, FieldIs DEF LineIs
<1> QED
  BY <1>2, <1>4, <1>5

(* A line after the version is in the block, unless it is a header.        *)
LEMMA ThirdLine ==
  ASSUME lines \in LockFiles, NEW h, VersionRead(h),
         h + 3 \in DOMAIN lines, ~IsHeader(h + 3)
  PROVE  h + 3 \in BlockOf(h)
<1>1. h \in Nat \ {0} /\ h + 1 \in BlockOf(h) /\ h + 2 \in BlockOf(h)
  BY VersionIs
<1>2. ~IsHeader(h + 1) /\ ~IsHeader(h + 2)
  BY DEF VersionRead, NameRead, LineIs, IsHeader
<1>3. \A j \in (h + 1)..(h + 3) : j = h + 1 \/ j = h + 2 \/ j = h + 3
  BY <1>1
<1>4. \A j \in (h + 1)..(h + 3) : ~IsHeader(j)
  BY <1>2, <1>3
<1> QED
  BY <1>1, <1>4, BlockFacts

LEMMA SourceIs ==
  ASSUME lines \in LockFiles, NEW h, SourceRead(h)
  PROVE  /\ h + 3 \in BlockOf(h) /\ entry.source # ""
         /\ InDocumentedOrder => Field(h, "source") = entry.source
<1>1. VersionRead(h) /\ h \in Headers /\ LineIs(h + 3, "source", entry.source)
  BY DEF SourceRead, VersionRead, NameRead
<1>2. h + 3 \in BlockOf(h)
  BY <1>1, ThirdLine DEF LineIs, IsHeader
<1>3. InDocumentedOrder => Field(h, "source") = entry.source
  BY <1>1, <1>2, FieldIs DEF LineIs
<1> QED
  BY <1>1, <1>2, <1>3, FileTyped DEF LineIs

(* If no source follows the version, the entry has none.                   *)
LEMMA NoSource ==
  ASSUME lines \in LockFiles, InDocumentedOrder, NEW h, VersionRead(h),
         ~(h + 3 \in DOMAIN lines /\ lines[h + 3].key = "source")
  PROVE  Field(h, "source") = ""
<1>1. h \in Nat \ {0} /\ h \in Headers /\ h + 2 \in BlockOf(h)
  BY VersionIs DEF VersionRead, NameRead
<1>2. lines[h + 1].key = "name" /\ lines[h + 2].key = "version"
  BY DEF VersionRead, NameRead, LineIs
<1>3. ASSUME NEW k \in BlockOf(h), lines[k].key = "source"
      PROVE  FALSE
  <2>1. k \in Nat /\ k > h /\ k # h + 1 /\ k # h + 2 /\ k \in DOMAIN lines
        /\ k # h + 3
    BY <1>2, <1>3, LineNumbers DEF BlockOf
  <2>2. k > h + 3 /\ h + 3 \in DOMAIN lines
    BY <1>1, <2>1, LineNumbers
  <2>3. ~IsHeader(h + 3)
    <3>1. h + 3 \in (h + 1)..k
      BY <1>1, <2>1, <2>2
    <3> QED
      BY <3>1 DEF BlockOf
  <2>4. h + 3 \in BlockOf(h)
    BY <2>2, <2>3, ThirdLine
  <2>5. Place[lines[h + 3].key] < Place["source"] /\ h + 2 < h + 3 /\ h + 3 < k
    BY <1>1, <1>3, <2>1, <2>2, <2>4 DEF InDocumentedOrder
  <2>6. lines[h + 3].key # "blank" /\ lines[h + 3].key \in DOMAIN Place
    BY <2>2, <2>3, <2>5, KeyTyped DEF Place
  <2>7. Place["version"] < Place[lines[h + 3].key]
    BY <1>1, <1>2, <2>4, <2>5, <2>6 DEF InDocumentedOrder
  <2> QED
    BY <2>5, <2>6, <2>7 DEF Place
<1> QED
  BY <1>3, FieldMissing

-------------------------------------------------------------------------------
(* An entry that has been read to its end.                                 *)

LEMMA BlockBefore ==
  ASSUME lines \in LockFiles, NEW h \in Nat, NEW k \in BlockOf(h), NEW j \in Nat,
         h < j, j <= k
  PROVE  j \in BlockOf(h)
<1>1. k \in Nat /\ k <= Len(lines) /\ Len(lines) \in Nat
  BY LineNumbers DEF BlockOf
<1>2. j \in DOMAIN lines
  BY <1>1, LineNumbers
<1>3. \A i \in (h + 1)..j : i \in (h + 1)..k
  BY <1>1
<1>4. \A i \in (h + 1)..j : ~IsHeader(i)
  BY <1>3 DEF BlockOf
<1> QED
  BY <1>2, <1>4, BlockFacts

LEMMA BlockAfter ==
  ASSUME lines \in LockFiles, NEW h \in Nat, NEW k \in BlockOf(h),
         k + 1 \in DOMAIN lines, ~IsHeader(k + 1)
  PROVE  k + 1 \in BlockOf(h)
<1>1. k \in Nat /\ h < k + 1
  BY LineNumbers DEF BlockOf
<1>2. \A i \in (h + 1)..(k + 1) : i \in (h + 1)..k \/ i = k + 1
  BY <1>1
<1>3. \A i \in (h + 1)..(k + 1) : ~IsHeader(i)
  BY <1>2 DEF BlockOf
<1> QED
  BY <1>1, <1>3, BlockFacts

(* The last field read is at line k and the next line is neither a source  *)
(* nor a checksum: a replace field can only be that next line.             *)
LEMMA ReplaceFollows ==
  ASSUME lines \in LockFiles, InDocumentedOrder, NEW h \in Headers,
         lines[h].key = "package", NEW k \in BlockOf(h), cursorOffset = k,
         lines[k].key \in {"version", "source", "checksum"},
         k + 1 \in BlockOf(h) => lines[k + 1].key \notin {"source", "checksum"}
  PROVE  IsListed(h) <=> ~Follows(1, "replace")
<1>1. h \in Nat /\ k \in Nat /\ k > h /\ Len(lines) \in Nat
  BY LineNumbers DEF Headers, BlockOf
<1>2. ASSUME Follows(1, "replace")
      PROVE  ~IsListed(h)
  <2>1. k + 1 \in DOMAIN lines /\ lines[k + 1].key = "replace"
    BY <1>1, <1>2, LineNumbers DEF Follows
  <2>2. k + 1 \in BlockOf(h)
    BY <1>1, <2>1, BlockAfter DEF IsHeader
  <2> QED
    BY <2>1, <2>2 DEF IsListed
<1>3. ASSUME NEW m \in BlockOf(h), lines[m].key = "replace"
      PROVE  Follows(1, "replace")
  <2>1. m \in Nat /\ m <= Len(lines)
    BY LineNumbers DEF BlockOf
  <2>2. ~(m < k)
    <3>1. m < k => Place["replace"] < Place[lines[k].key]
      BY <1>3 DEF InDocumentedOrder
    <3> QED
      BY <3>1 DEF Place
  <2>3. m >= k + 1
    BY <1>1, <1>3, <2>1, <2>2
  <2>4. k + 1 \in BlockOf(h)
    BY <1>1, <2>1, <2>3, BlockBefore
  <2>5. m = k + 1
    <3>1. SUFFICES ASSUME k + 1 < m PROVE FALSE
      BY <1>1, <2>1, <2>3
    <3>2. Place[lines[k + 1].key] < Place["replace"]
      BY <1>3, <2>4, <3>1 DEF InDocumentedOrder
    <3>3. lines[k + 1].key \in DOMAIN Place
      BY <2>4, KeyTyped, <1>1 DEF BlockOf
    <3>4. Place[lines[k].key] < Place[lines[k + 1].key]
      <4>1. lines[k + 1].key # "blank" /\ k < k + 1
        BY <1>1, <3>2 DEF Place
      <4> QED
        BY <2>4, <4>1 DEF InDocumentedOrder
    <3> QED
      BY <2>4, <3>2, <3>3, <3>4 DEF Place
  <2> QED
    BY <1>1, <1>3, <2>1, <2>5 DEF Follows
<1> QED
  BY <1>2, <1>3 DEF IsListed

(* The entry holds what the file has, its lines are as they should be, and *)
(* it is listed unless a replace field follows.                            *)
LEMMA EntryIs ==
  ASSUME lines \in LockFiles, InDocumentedOrder, entry \in PackageEntry,
         NEW h, EntryRead(h)
  PROVE  /\ entry = EntryAt(h)
         /\ ParsableEntry(h)
         /\ IsListed(h) <=> ~Follows(1, "replace")
<1>1. VersionRead(h) /\ h \in Headers /\ lines[h].key = "package"
  BY DEF EntryRead, SourceRead, VersionRead, NameRead
<1>2. /\ h \in Nat \ {0} /\ h + 1 \in BlockOf(h) /\ h + 2 \in BlockOf(h)
      /\ Field(h, "version") = entry.version /\ Field(h, "name") = entry.name
      /\ lines[h + 1].key = "name" /\ lines[h + 2].key = "version"
  BY <1>1, NameIs, VersionIs DEF VersionRead, NameRead, LineIs
<1>3. (h + 2) + 1 = h + 3 /\ (h + 3) + 1 = h + 4 /\ (h + 3) - 1 = h + 2 /\ (h + 4) - 1 = h + 3
  BY <1>2
<1>4. CASE /\ cursorOffset = h + 2 /\ ~Follows(1, "source")
           /\ entry.source = "" /\ entry.checksum = ""
  <2>1. Field(h, "source") = "" /\ ~(h + 3 \in DOMAIN lines /\ lines[h + 3].key = "source")
    <3>1. ~(h + 3 \in DOMAIN lines /\ lines[h + 3].key = "source")
      BY <1>3, <1>4, LineNumbers DEF Follows
    <3> QED
      BY <1>1, <3>1, NoSource
  <2>2. ~IsRegistry("")
    BY DEF IsRegistry
  <2>3. h + 3 \in BlockOf(h) => lines[h + 3].key \notin {"source", "checksum"}
    <3>1. h + 3 \in BlockOf(h) => h + 3 \in DOMAIN lines
      BY DEF BlockOf
    <3>2. h + 3 \in BlockOf(h) /\ lines[h + 3].key = "checksum" => lines[h + 2].key = "source"
      BY <1>1, <1>3 DEF InDocumentedOrder
    <3> QED
      BY <1>2, <2>1, <3>1, <3>2
  <2>4. IsListed(h) <=> ~Follows(1, "replace")
    BY <1>1, <1>2, <1>3, <1>4, <2>3, ReplaceFollows
  <2>5. ParsableEntry(h)
    BY <1>1, <1>2, <2>1, <2>2 DEF ParsableEntry, DocumentedEntry
  <2>6. entry = EntryAt(h)
    BY <1>2, <1>4, <2>1, <2>2 DEF EntryAt, PackageEntry
  <2> QED
    BY <2>4, <2>5, <2>6
<1>5. CASE /\ cursorOffset = h + 3 /\ SourceRead(h)
           /\ ~IsRegistry(entry.source) /\ entry.checksum = ""
  <2>1. /\ Field(h, "source") = entry.source /\ entry.source # "" /\ h + 3 \in BlockOf(h)
        /\ lines[h + 3].key = "source" /\ lines[h + 3].value = entry.source
        /\ IsSource(entry.source)
    BY <1>5, SourceIs DEF SourceRead, LineIs
  <2>2. h + 4 \in BlockOf(h) => lines[h + 4].key \notin {"source", "checksum"}
    <3>1. h + 4 \in BlockOf(h) /\ lines[h + 4].key = "checksum" => IsRegistry(lines[h + 3].value)
      BY <1>1, <1>3 DEF InDocumentedOrder
    <3>2. h + 4 \in BlockOf(h) /\ lines[h + 4].key = "source" => Place["source"] < Place["source"]
      <4>1. h + 3 < h + 4
        BY <1>2
      <4> QED
        BY <1>1, <2>1, <4>1 DEF InDocumentedOrder
    <3>3. ~(Place["source"] < Place["source"])
      BY DEF Place
    <3>4. ~IsRegistry(lines[h + 3].value)
      BY <1>5, <2>1
    <3> QED
      BY <3>1, <3>2, <3>3, <3>4
  <2>3. IsListed(h) <=> ~Follows(1, "replace")
    BY <1>1, <1>3, <1>5, <2>1, <2>2, ReplaceFollows
  <2>4. ParsableEntry(h)
    BY <1>1, <1>2, <1>5, <2>1 DEF ParsableEntry, DocumentedEntry
  <2>5. entry = EntryAt(h)
    BY <1>2, <1>5, <2>1 DEF EntryAt, PackageEntry
  <2> QED
    BY <2>3, <2>4, <2>5
<1>6. CASE /\ cursorOffset = h + 4 /\ SourceRead(h)
           /\ IsRegistry(entry.source) /\ LineIs(h + 4, "checksum", entry.checksum)
  <2>1. /\ Field(h, "source") = entry.source /\ entry.source # "" /\ h + 3 \in BlockOf(h)
        /\ lines[h + 3].key = "source" /\ IsSource(entry.source)
    BY <1>6, SourceIs DEF SourceRead, LineIs
  <2>2. h + 4 \in BlockOf(h) /\ lines[h + 4].key = "checksum"
    BY <1>2, <1>3, <1>6, <2>1, BlockAfter DEF LineIs, IsHeader
  <2>3. Field(h, "checksum") = entry.checksum
    BY <1>1, <1>6, <2>2, FieldIs DEF LineIs
  <2>4. (h + 4) + 1 \in BlockOf(h) => lines[(h + 4) + 1].key \notin {"source", "checksum"}
    <3>1. SUFFICES ASSUME (h + 4) + 1 \in BlockOf(h), lines[(h + 4) + 1].key \in {"source", "checksum"}
                   PROVE  FALSE
      OBVIOUS
    <3>2. h + 4 < (h + 4) + 1 /\ lines[(h + 4) + 1].key # "blank"
      BY <1>2, <3>1
    <3>3. Place["checksum"] < Place[lines[(h + 4) + 1].key]
      BY <1>1, <2>2, <3>1, <3>2 DEF InDocumentedOrder
    <3> QED
      BY <3>1, <3>3 DEF Place
  <2>5. IsListed(h) <=> ~Follows(1, "replace")
    BY <1>1, <1>6, <2>2, <2>4, ReplaceFollows
  <2>6. ParsableEntry(h)
    BY <1>1, <1>2, <1>6, <2>1, <2>2 DEF ParsableEntry, DocumentedEntry
  <2>7. entry = EntryAt(h)
    BY <1>2, <1>6, <2>1, <2>3 DEF EntryAt, PackageEntry
  <2> QED
    BY <2>5, <2>6, <2>7
<1> QED
  BY <1>4, <1>5, <1>6 DEF EntryRead

(* The next header is the next of the file.                                *)
LEMMA NoHeaderInside ==
  ASSUME lines \in LockFiles, NEW h, EntryRead(h)
  PROVE  /\ h \in Headers /\ h \in Nat /\ cursorOffset \in Nat
         /\ NextHeaders = {k \in Headers : k > h}
<1>1. VersionRead(h) /\ h \in Headers
  BY DEF EntryRead, SourceRead, VersionRead, NameRead
<1>2. h \in Nat \ {0} /\ h + 1 \in BlockOf(h) /\ h + 2 \in BlockOf(h)
  BY <1>1, VersionIs
<1>3. cursorOffset \in BlockOf(h)
  <2>1. CASE cursorOffset = h + 2
    BY <1>2, <2>1
  <2>2. CASE cursorOffset = h + 3 /\ SourceRead(h)
    BY <2>2, SourceIs
  <2>3. CASE /\ cursorOffset = h + 4 /\ SourceRead(h)
             /\ LineIs(h + 4, "checksum", entry.checksum)
    <3>1. (h + 3) + 1 = h + 4
      BY <1>2
    <3> QED
      BY <1>2, <2>3, <3>1, SourceIs, BlockAfter DEF LineIs, IsHeader
  <2> QED
    BY <2>1, <2>2, <2>3 DEF EntryRead
<1>4. cursorOffset \in Nat /\ cursorOffset > h
  BY <1>3, LineNumbers DEF BlockOf
<1>5. ASSUME NEW k \in Headers
      PROVE  k > cursorOffset <=> k > h
  <2>1. k \in Nat /\ IsHeader(k)
    BY LineNumbers DEF Headers
  <2>2. ~(k \in (h + 1)..cursorOffset)
    BY <1>3, <2>1 DEF BlockOf
  <2> QED
    BY <1>2, <1>4, <2>1, <2>2
<1> QED
  BY <1>1, <1>2, <1>4, <1>5 DEF NextHeaders, Headers

-------------------------------------------------------------------------------
(* The file does not change, and neither does what it says.                *)

LEMMA FileStays ==
  ASSUME lines' = lines
  PROVE  /\ Headers' = Headers /\ ListedHeaders' = ListedHeaders
         /\ InDocumentedOrder' <=> InDocumentedOrder
         /\ AllClosed' <=> AllClosed
         /\ \A h : EntryAt(h)' = EntryAt(h)
         /\ \A h : ParsableEntry(h)' <=> ParsableEntry(h)
<1>1. Headers' = Headers
  BY DEF Headers, IsHeader
<1>2. \A h : BlockOf(h)' = BlockOf(h)
  BY DEF BlockOf, IsHeader
<1>3. \A h, key : Field(h, key)' = Field(h, key)
  BY <1>2 DEF Field
<1>4. \A h : EntryAt(h)' = EntryAt(h)
  BY <1>3 DEF EntryAt
<1>5. \A h : IsListed(h)' <=> IsListed(h)
  BY <1>2 DEF IsListed
<1>6. ListedHeaders' = ListedHeaders
  BY <1>5 DEF ListedHeaders
<1>7. InDocumentedOrder' <=> InDocumentedOrder
  BY <1>1, <1>2 DEF InDocumentedOrder
<1>8. \A h : DocumentedEntry(h)' <=> DocumentedEntry(h)
  BY <1>2, <1>3 DEF DocumentedEntry
<1>9. \A h : ParsableEntry(h)' <=> ParsableEntry(h)
  BY <1>3, <1>8 DEF ParsableEntry
<1>10. AllClosed' <=> AllClosed
  BY DEF AllClosed
<1> QED
  BY <1>1, <1>4, <1>6, <1>7, <1>9, <1>10

LEMMA PassedStays ==
  ASSUME lines' = lines, yielded' = yielded, NEW h
  PROVE  Passed(h)' <=> Passed(h)
<1>1. YieldsBefore(h, yielded)' <=> YieldsBefore(h, yielded)
  BY FileStays DEF YieldsBefore
<1> QED
  BY <1>1, FileStays DEF Passed

-------------------------------------------------------------------------------
(* Returning an entry, or skipping it.                                     *)

LEMMA YieldSkipped ==
  ASSUME NEW h, NEW n, NEW es, YieldsBefore(h, es),
         \A g \in ListedHeaders : g < n <=> g < h
  PROVE  YieldsBefore(n, es)
BY DEF YieldsBefore

LEMMA YieldAdded ==
  ASSUME lines \in LockFiles, NEW h \in ListedHeaders, NEW n, NEW es \in Seq(PackageEntry),
         YieldsBefore(h, es), NEW e \in PackageEntry, e = EntryAt(h),
         \A g \in ListedHeaders : g < n <=> g < h \/ g = h
  PROVE  YieldsBefore(n, Append(es, e))
<1> DEFINE size == Len(es)
           new == Append(es, e)
<1>1. /\ size \in Nat /\ DOMAIN es = 1..size /\ DOMAIN new = 1..(size + 1)
      /\ \A k \in 1..size : new[k] = es[k]
      /\ new[size + 1] = e
  OBVIOUS
<1>2. PICK at \in [DOMAIN es -> ListedHeaders] :
        /\ \A j, k \in DOMAIN es : j < k => at[j] < at[k]
        /\ \A g \in ListedHeaders : g < h <=> \E k \in DOMAIN es : at[k] = g
        /\ \A k \in DOMAIN es : es[k] = EntryAt(at[k])
  BY DEF YieldsBefore
<1>3. /\ \A j, k \in 1..size : j < k => at[j] < at[k]
      /\ \A g \in ListedHeaders : g < h <=> \E k \in 1..size : at[k] = g
      /\ \A k \in 1..size : es[k] = EntryAt(at[k]) /\ at[k] \in ListedHeaders
  BY <1>1, <1>2
<1> DEFINE next == [k \in 1..(size + 1) |-> IF k = size + 1 THEN h ELSE at[k]]
<1>4. /\ \A k \in 1..size : next[k] = at[k]
      /\ next[size + 1] = h
      /\ \A k \in 1..(size + 1) : k \in 1..size \/ k = size + 1
      /\ size + 1 \in 1..(size + 1) /\ 1..size \subseteq 1..(size + 1)
  BY <1>1
<1>5. next \in [1..(size + 1) -> ListedHeaders]
  BY <1>3, <1>4
<1> HIDE DEF size, new, next
<1>6. \A j, k \in 1..(size + 1) : j < k => next[j] < next[k]
  <2> SUFFICES ASSUME NEW j \in 1..(size + 1), NEW k \in 1..(size + 1), j < k
               PROVE  next[j] < next[k]
    OBVIOUS
  <2>1. j \in 1..size
    BY <1>1
  <2>2. CASE k \in 1..size
    BY <1>3, <1>4, <2>1, <2>2
  <2>3. CASE k = size + 1
    BY <1>3, <1>4, <2>1, <2>3
  <2> QED
    BY <1>4, <2>2, <2>3
<1>7. ASSUME NEW g \in ListedHeaders
      PROVE  g < n <=> \E k \in 1..(size + 1) : next[k] = g
  <2>1. (\E k \in 1..(size + 1) : next[k] = g) <=> (\E k \in 1..size : at[k] = g) \/ g = h
    BY <1>4
  <2> QED
    BY <1>3, <2>1
<1>8. \A k \in 1..(size + 1) : new[k] = EntryAt(next[k])
  BY <1>1, <1>3, <1>4
<1>9. YieldsBefore(n, new)
  <2>1. next \in [DOMAIN new -> ListedHeaders]
    BY <1>1, <1>5
  <2>2. \A j, k \in DOMAIN new : j < k => next[j] < next[k]
    BY <1>1, <1>6
  <2>3. \A g \in ListedHeaders : g < n <=> \E k \in DOMAIN new : next[k] = g
    BY <1>1, <1>7
  <2>4. \A k \in DOMAIN new : new[k] = EntryAt(next[k])
    BY <1>1, <1>8
  <2> QED
    BY <2>1, <2>2, <2>3, <2>4 DEF YieldsBefore
<1> QED
  BY <1>9 DEF new

(* After an entry the cursor is in the next one, or at the end of the file, *)
(* and this one is passed.                                                 *)
LEMMA NextEntryStep ==
  ASSUME lines \in LockFiles, ParserTypeOK, NEW h, EntryRead(h),
         InDocumentedOrder => Passed(h),
         EndOfChecksum
  PROVE  \E n \in 1..(Len(lines) + 1) :
           /\ n = IF NextHeaders = {} THEN Len(lines) + 1 ELSE Min(NextHeaders)
           /\ CursorIn(n)' /\ (InDocumentedOrder' => Passed(n)')
<1>0. PICK n : n = IF NextHeaders = {} THEN Len(lines) + 1 ELSE Min(NextHeaders)
  OBVIOUS
<1>1. /\ h \in Headers /\ h \in Nat /\ cursorOffset \in Nat
      /\ NextHeaders = {k \in Headers : k > h}
  BY NoHeaderInside
<1>2. /\ lines' = lines /\ entry' = entry
      /\ yielded' = IF Follows(1, "replace") THEN yielded ELSE Append(yielded, entry)
      /\ NextHeaders = {} => cursorPosition' = "EndOfFile"
      /\ NextHeaders # {} => cursorPosition' = "StartOfEntry" /\ cursorOffset' = Min(NextHeaders) - 1
  BY DEF EndOfChecksum, NextEntry
<1>3. /\ Len(lines) \in Nat /\ Headers \subseteq Nat
      /\ \A g \in Headers : g \in Nat \ {0} /\ g <= Len(lines)
  BY LineNumbers DEF Headers
<1>4. NextHeaders # {} => n \in Headers /\ n > h /\ \A g \in Headers : g > h => n <= g
  BY <1>0, <1>1, <1>3, MinOf
<1>5. n \in 1..(Len(lines) + 1) /\ h < n
  <2>1. h \in Nat /\ h <= Len(lines) /\ Len(lines) \in Nat
    BY <1>1, <1>3
  <2>2. CASE NextHeaders = {}
    <3>1. n = Len(lines) + 1
      BY <1>0, <2>2
    <3> QED
      BY <2>1, <3>1
  <2>3. CASE NextHeaders # {}
    <3>1. n \in Nat \ {0} /\ n <= Len(lines) /\ n > h
      BY <1>3, <1>4, <2>3
    <3> QED
      BY <2>1, <3>1
  <2> QED
    BY <2>2, <2>3
<1>6. \A g \in Headers : g < n <=> g < h \/ g = h
  <2> TAKE g \in Headers
  <2>1. g \in Nat /\ h \in Nat /\ n \in Nat /\ g <= Len(lines)
    BY <1>1, <1>3, <1>5
  <2>2. CASE NextHeaders = {}
    <3>1. ~(g > h) /\ n = Len(lines) + 1
      BY <1>0, <1>1, <2>2
    <3> QED
      BY <1>3, <2>1, <3>1
  <2>3. CASE NextHeaders # {}
    BY <1>4, <2>1, <2>3
  <2> QED
    BY <2>2, <2>3
<1>7. CursorIn(n)'
  <2>1. CASE NextHeaders = {}
    BY <1>0, <1>2, <2>1 DEF CursorIn
  <2>2. CASE NextHeaders # {}
    <3>1. n = Min(NextHeaders) /\ n \in Nat
      BY <1>0, <1>5, <2>2
    <3>2. cursorPosition' = "StartOfEntry" /\ cursorOffset' + 1 = n /\ n \in Headers'
      BY <1>2, <1>4, <2>2, <3>1, FileStays
    <3> QED
      BY <3>2 DEF CursorIn
  <2> QED
    BY <2>1, <2>2
<1>8. ASSUME InDocumentedOrder
      PROVE  Passed(n)'
  <2>1. entry = EntryAt(h) /\ ParsableEntry(h) /\ (IsListed(h) <=> ~Follows(1, "replace"))
    BY <1>8, EntryIs DEF ParserTypeOK
  <2>2. ListedHeaders \subseteq Headers /\ h \in DOMAIN lines
    BY <1>1 DEF ListedHeaders, Headers, IsListed, IsHeader
  <2>3. \A g \in Headers : g < n => ParsableEntry(g)
    BY <1>6, <1>8, <2>1 DEF Passed
  <2>4. YieldsBefore(n, yielded')
    <3>1. CASE Follows(1, "replace")
      <4>1. \A g \in ListedHeaders : g < n <=> g < h
        BY <1>6, <2>1, <2>2, <3>1 DEF ListedHeaders
      <4> QED
        BY <1>2, <1>8, <3>1, <4>1, YieldSkipped DEF Passed
    <3>2. CASE ~Follows(1, "replace")
      <4>1. h \in ListedHeaders
        BY <2>1, <2>2, <3>2 DEF ListedHeaders
      <4> QED
        BY <1>2, <1>6, <1>8, <2>1, <2>2, <3>2, <4>1, YieldAdded DEF Passed, ParserTypeOK
    <3> QED
      BY <3>1, <3>2
  <2>5. YieldsBefore(n, yielded)' <=> YieldsBefore(n, yielded')
    BY <1>2, FileStays DEF YieldsBefore
  <2> QED
    BY <1>2, <2>3, <2>4, <2>5, FileStays DEF Passed
<1> QED
  BY <1>0, <1>2, <1>5, <1>7, <1>8, FileStays

-------------------------------------------------------------------------------
(* The steps of the parser.                                                *)

(* Setting one field of an entry leaves the others.                        *)
Sets(f, e, field, value) ==
  /\ f.name = IF field = "name" THEN value ELSE e.name
  /\ f.version = IF field = "version" THEN value ELSE e.version
  /\ f.source = IF field = "source" THEN value ELSE e.source
  /\ f.checksum = IF field = "checksum" THEN value ELSE e.checksum

LEMMA FieldSet ==
  ASSUME NEW e \in PackageEntry, NEW value \in STRING \cup {""},
         NEW field \in {"name", "version", "source", "checksum"},
         NEW f, f = [e EXCEPT ![field] = value]
  PROVE  f \in PackageEntry /\ Sets(f, e, field, value)
BY DEF PackageEntry, Sets

(* A value that is read becomes the field of the entry.                    *)
LEMMA ReadFacts ==
  ASSUME lines \in LockFiles, ParserTypeOK, NEW n \in Nat, NEW position,
         NEW field \in {"name", "version", "source", "checksum"},
         cursorOffset + n \in DOMAIN lines, Read(n, field, position)
  PROVE  LET value == lines[cursorOffset + n].value
         IN  /\ lines' = lines /\ item' = item /\ yielded' = yielded
             /\ cursorOffset' = cursorOffset + n /\ cursorPosition' = position
             /\ entry' \in PackageEntry
             /\ entry'.name = IF field = "name" THEN value ELSE entry.name
             /\ entry'.version = IF field = "version" THEN value ELSE entry.version
             /\ entry'.source = IF field = "source" THEN value ELSE entry.source
             /\ field = "source" => entry'.checksum = ""
             /\ field = "checksum" => entry'.checksum = value
             /\ field \notin {"source", "checksum"} => entry'.checksum = entry.checksum
<1> DEFINE value == lines[cursorOffset + n].value
           checksum == IF field = "source" THEN "" ELSE entry.checksum
           cleared == [entry EXCEPT !.checksum = checksum]
<1>1. value \in STRING \cup {""} /\ entry \in PackageEntry
  BY FileTyped DEF ParserTypeOK
<1>2. /\ lines' = lines /\ item' = item /\ yielded' = yielded
      /\ cursorOffset' = cursorOffset + n /\ cursorPosition' = position
      /\ entry' = [cleared EXCEPT ![field] = value]
  BY DEF Read, LineAfter
<1>3. checksum \in STRING \cup {""}
  BY <1>1 DEF PackageEntry
<1>6. cleared = [entry EXCEPT !["checksum"] = checksum]
  OBVIOUS
<1> HIDE DEF value, checksum, cleared
<1>4. /\ cleared \in PackageEntry /\ cleared.checksum = checksum
      /\ cleared.name = entry.name /\ cleared.version = entry.version
      /\ cleared.source = entry.source
  <2>1. cleared \in PackageEntry /\ Sets(cleared, entry, "checksum", checksum)
    BY <1>1, <1>3, <1>6, FieldSet, Zenon
  <2> QED
    BY <2>1 DEF Sets
<1>5. entry' \in PackageEntry /\ Sets(entry', cleared, field, value)
  BY <1>1, <1>2, <1>4, FieldSet, Zenon
<1> QED
  BY <1>2, <1>4, <1>5 DEF value, checksum, Sets

(* The parser's step leaves the file as it is and its variables typed.     *)
LEMMA TypeStep ==
  ASSUME lines \in LockFiles, ParserTypeOK, NextInner \/ CallNext
  PROVE  lines' = lines /\ ParserTypeOK'
<1>1. /\ cursorOffset \in Nat /\ Len(lines) \in Nat /\ cursorOffset <= Len(lines)
      /\ entry \in PackageEntry /\ yielded \in Seq(PackageEntry)
      /\ \A k : k \in DOMAIN lines <=> k \in Nat \ {0} /\ k <= Len(lines)
  BY LineNumbers DEF ParserTypeOK
<1>2. ASSUME NEW n \in Nat \ {0}, NEW field \in {"name", "version", "source", "checksum"},
             NEW position \in {"EndOfName", "EndOfVersion", "EndOfSource", "EndOfChecksum"},
             NEW key, Follows(n, key), Read(n, field, position)
      PROVE  lines' = lines /\ ParserTypeOK'
  <2>1. cursorOffset + n \in DOMAIN lines
    BY <1>1, <1>2 DEF Follows
  <2>2. /\ lines' = lines /\ entry' \in PackageEntry /\ cursorOffset' = cursorOffset + n
        /\ cursorPosition' = position /\ item' = item /\ yielded' = yielded
    BY <1>2, <2>1, ReadFacts
  <2> QED
    BY <1>1, <2>1, <2>2 DEF ParserTypeOK
<1>3. ASSUME Throw
      PROVE  lines' = lines /\ ParserTypeOK'
  BY <1>3 DEF Throw, ParserTypeOK
<1>4. ASSUME MoveTo("EndOfChecksum")
      PROVE  lines' = lines /\ ParserTypeOK'
  BY <1>4 DEF MoveTo, ParserTypeOK
<1>5. CASE StartOfEntry
  BY <1>2, <1>3, <1>5 DEF StartOfEntry
<1>6. CASE EndOfName
  BY <1>2, <1>3, <1>6 DEF EndOfName
<1>7. CASE EndOfVersion
  <2>1. CASE ~Follows(1, "source")
    <3>1. /\ entry' = [entry EXCEPT !.source = "", !.checksum = ""]
          /\ cursorPosition' = "EndOfChecksum"
          /\ UNCHANGED <<lines, cursorOffset, item, yielded>>
      BY <1>7, <2>1 DEF EndOfVersion
    <3>2. entry' \in PackageEntry
      <4> DEFINE e == [entry EXCEPT !.source = ""]
      <4>1. e \in PackageEntry
        BY <1>1, FieldSet
      <4> HIDE DEF e
      <4>2. [e EXCEPT !.checksum = ""] \in PackageEntry
        BY <4>1, FieldSet
      <4> QED
        BY <3>1, <4>2 DEF e
    <3> QED
      BY <3>1, <3>2 DEF ParserTypeOK
  <2>2. CASE Follows(1, "source")
    BY <1>2, <1>3, <1>7, <2>2 DEF EndOfVersion
  <2> QED
    BY <2>1, <2>2
<1>8. CASE EndOfSource
  BY <1>2, <1>3, <1>4, <1>8 DEF EndOfSource
<1>9. CASE EndOfChecksum
  <2>1. /\ lines' = lines /\ entry' = entry /\ cursorPosition' \in {"EndOfFile", "StartOfEntry"}
        /\ item' \in {item, "entry"} /\ yielded' \in {yielded, Append(yielded, entry)}
        /\ NextHeaders = {} => cursorOffset' = cursorOffset
        /\ NextHeaders # {} => cursorOffset' = Min(NextHeaders) - 1
    BY <1>9 DEF EndOfChecksum, NextEntry
  <2>2. yielded' \in Seq(PackageEntry)
    BY <1>1, <2>1
  <2>3. cursorOffset' \in 0..Len(lines)
    <3>1. CASE NextHeaders = {}
      BY <1>1, <2>1, <3>1
    <3>2. CASE NextHeaders # {}
      <4>1. NextHeaders \in SUBSET Nat /\ \A k \in NextHeaders : 1 <= k /\ k <= Len(lines)
        BY LineNumbers DEF NextHeaders
      <4>2. Min(NextHeaders) \in Nat /\ 1 <= Min(NextHeaders) /\ Min(NextHeaders) <= Len(lines)
        BY <3>2, <4>1, MinOf
      <4> QED
        BY <1>1, <2>1, <3>2, <4>2
    <3> QED
      BY <3>1, <3>2
  <2> QED
    BY <2>1, <2>2, <2>3 DEF ParserTypeOK
<1>10. CASE EndOfFile
  BY <1>10 DEF EndOfFile, ParserTypeOK
<1>11. CASE CallNext
  BY <1>11 DEF CallNext, ParserTypeOK, DummyEntry, PackageEntry
<1> QED
  BY <1>5, <1>6, <1>7, <1>8, <1>9, <1>10, <1>11 DEF NextInner

(* Reading on in the entry of line h, nothing is returned.                 *)
LEMMA CursorReads ==
  ASSUME lines' = lines, yielded' = yielded, item' = "pending",
         NEW h \in 1..(Len(lines) + 1), CursorIn(h)', InDocumentedOrder => Passed(h)
  PROVE  CursorInv'
<1>1. InDocumentedOrder' => Passed(h)'
  BY FileStays, PassedStays
<1> QED
  BY <1>1 DEF CursorInv

(* An error leaves the cursor where it is: only some entry must be such    *)
(* that an error is due.                                                   *)
LEMMA CursorThrows ==
  ASSUME Throw, NEW h \in 1..(Len(lines) + 1), CursorIn(h), InDocumentedOrder => Passed(h),
         InDocumentedOrder /\ AllClosed => h \in Headers /\ ~ParsableEntry(h)
  PROVE  CursorInv'
<1>1. /\ lines' = lines /\ yielded' = yielded /\ entry' = entry /\ item' = "error"
      /\ cursorOffset' = cursorOffset /\ cursorPosition' = cursorPosition
  BY DEF Throw
<1>2. CursorIn(h)'
  BY <1>1, FileStays
  DEF CursorIn, EntryRead, SourceRead, VersionRead, NameRead, LineIs, Follows
<1>3. InDocumentedOrder' => Passed(h)'
  BY <1>1, FileStays, PassedStays
<1>4. InDocumentedOrder' => ~(AllClosed' /\ \A g \in Headers' : ParsableEntry(g)')
  BY <1>1, FileStays
<1> QED
  BY <1>1, <1>2, <1>3, <1>4 DEF CursorInv

LEMMA StartOfEntryStep ==
  ASSUME lines \in LockFiles, ParserTypeOK, CursorInv, StartOfEntry
  PROVE  CursorInv'
<1>1. PICK h \in 1..(Len(lines) + 1) : CursorIn(h) /\ (InDocumentedOrder => Passed(h))
  BY DEF CursorInv
<1>2. cursorOffset + 1 = h /\ h \in Headers /\ item = "pending"
  BY <1>1 DEF CursorIn, StartOfEntry, Inside
<1>3. h \in Nat \ {0} /\ cursorOffset \in Nat /\ Len(lines) \in Nat /\ cursorOffset + 2 = h + 1
  BY <1>2, LineNumbers DEF ParserTypeOK, Headers
<1>4. CASE Follows(1, "package") /\ Follows(2, "name") /\ LineAfter(2).closed
  <2>1. cursorOffset + 2 \in DOMAIN lines /\ lines[h].key = "package" /\ lines[h + 1].key = "name"
    BY <1>2, <1>3, <1>4, LineNumbers DEF Follows
  <2>2. Read(2, "name", "EndOfName")
    BY <1>4 DEF StartOfEntry
  <2>3. /\ lines' = lines /\ item' = item /\ yielded' = yielded /\ cursorOffset' = h + 1
        /\ cursorPosition' = "EndOfName" /\ entry'.name = lines[h + 1].value
    BY <1>3, <2>1, <2>2, ReadFacts
  <2>4. NameRead(h)'
    BY <1>2, <1>3, <2>1, <2>3, FileStays DEF NameRead, LineIs
  <2>5. CursorIn(h)'
    BY <2>3, <2>4 DEF CursorIn
  <2> QED
    BY <1>1, <1>2, <2>3, <2>5, CursorReads
<1>5. CASE ~(Follows(1, "package") /\ Follows(2, "name") /\ LineAfter(2).closed)
  <2>1. Throw
    BY <1>5 DEF StartOfEntry
  <2>2. ASSUME AllClosed, ParsableEntry(h)
        PROVE  FALSE
    <3>1. lines[h].key = "package" /\ h + 1 \in BlockOf(h) /\ lines[h + 1].key = "name"
      BY <2>2 DEF ParsableEntry, DocumentedEntry
    <3>2. h \in DOMAIN lines /\ h + 1 \in DOMAIN lines
      BY <1>2, <3>1 DEF Headers, BlockOf
    <3> QED
      BY <1>2, <1>3, <1>5, <2>2, <3>1, <3>2, LineNumbers DEF Follows, LineAfter, AllClosed
  <2> QED
    BY <1>1, <1>2, <2>1, <2>2, CursorThrows
<1> QED
  BY <1>4, <1>5

LEMMA EndOfNameStep ==
  ASSUME lines \in LockFiles, ParserTypeOK, CursorInv, EndOfName
  PROVE  CursorInv'
<1>1. PICK h \in 1..(Len(lines) + 1) : CursorIn(h) /\ (InDocumentedOrder => Passed(h))
  BY DEF CursorInv
<1>2. cursorOffset = h + 1 /\ NameRead(h) /\ item = "pending"
  BY <1>1 DEF CursorIn, EndOfName, Inside
<1>3. h \in Nat /\ Len(lines) \in Nat /\ cursorOffset + 1 = h + 2 /\ h \in Headers
  BY <1>2, LineNumbers DEF NameRead
<1>4. CASE Follows(1, "version") /\ LineAfter(1).closed
  <2>1. cursorOffset + 1 \in DOMAIN lines /\ lines[h + 2].key = "version"
    BY <1>3, <1>4, LineNumbers DEF Follows
  <2>2. Read(1, "version", "EndOfVersion")
    BY <1>4 DEF EndOfName
  <2>3. /\ lines' = lines /\ item' = item /\ yielded' = yielded /\ cursorOffset' = h + 2
        /\ cursorPosition' = "EndOfVersion"
        /\ entry'.name = entry.name /\ entry'.version = lines[h + 2].value
    BY <1>3, <2>1, <2>2, ReadFacts
  <2>4. VersionRead(h)'
    BY <1>2, <1>3, <2>1, <2>3, FileStays DEF VersionRead, NameRead, LineIs
  <2>5. CursorIn(h)'
    BY <2>3, <2>4 DEF CursorIn
  <2> QED
    BY <1>1, <1>2, <2>3, <2>5, CursorReads
<1>5. CASE ~(Follows(1, "version") /\ LineAfter(1).closed)
  <2>1. Throw
    BY <1>5 DEF EndOfName
  <2>2. ASSUME AllClosed, ParsableEntry(h)
        PROVE  FALSE
    <3>1. h + 2 \in BlockOf(h) /\ lines[h + 2].key = "version"
      BY <2>2 DEF ParsableEntry, DocumentedEntry
    <3>2. h + 2 \in DOMAIN lines
      BY <3>1 DEF BlockOf
    <3> QED
      BY <1>3, <1>5, <2>2, <3>1, <3>2, LineNumbers DEF Follows, LineAfter, AllClosed
  <2> QED
    BY <1>1, <1>3, <2>1, <2>2, CursorThrows
<1> QED
  BY <1>4, <1>5

LEMMA EndOfVersionStep ==
  ASSUME lines \in LockFiles, ParserTypeOK, CursorInv, EndOfVersion
  PROVE  CursorInv'
<1>1. PICK h \in 1..(Len(lines) + 1) : CursorIn(h) /\ (InDocumentedOrder => Passed(h))
  BY DEF CursorInv
<1>2. cursorOffset = h + 2 /\ VersionRead(h) /\ item = "pending"
  BY <1>1 DEF CursorIn, EndOfVersion, Inside
<1>3. h \in Nat /\ Len(lines) \in Nat /\ cursorOffset + 1 = h + 3 /\ h \in Headers
  BY <1>2, LineNumbers DEF VersionRead, NameRead
<1>4. CASE ~Follows(1, "source")
  <2>1. /\ entry' = [entry EXCEPT !.source = "", !.checksum = ""]
        /\ cursorPosition' = "EndOfChecksum"
        /\ lines' = lines /\ cursorOffset' = cursorOffset /\ item' = item /\ yielded' = yielded
    BY <1>4 DEF EndOfVersion
  <2>2. /\ entry'.source = "" /\ entry'.checksum = ""
        /\ entry'.name = entry.name /\ entry'.version = entry.version
    BY <2>1 DEF ParserTypeOK, PackageEntry
  <2>3. VersionRead(h)' /\ ~Follows(1, "source")'
    BY <1>2, <1>4, <2>1, <2>2, FileStays DEF VersionRead, NameRead, LineIs, Follows
  <2>4. CursorIn(h)'
    BY <1>2, <2>1, <2>2, <2>3 DEF CursorIn, EntryRead
  <2> QED
    BY <1>1, <1>2, <2>1, <2>4, CursorReads
<1>5. CASE Follows(1, "source") /\ LineAfter(1).closed /\ IsSource(LineAfter(1).value)
  <2>1. cursorOffset + 1 \in DOMAIN lines /\ lines[h + 3].key = "source"
    BY <1>3, <1>5, LineNumbers DEF Follows
  <2>2. Read(1, "source", "EndOfSource") /\ IsSource(lines[h + 3].value)
    BY <1>3, <1>5 DEF EndOfVersion, LineAfter
  <2>3. /\ lines' = lines /\ item' = item /\ yielded' = yielded /\ cursorOffset' = h + 3
        /\ cursorPosition' = "EndOfSource"
        /\ entry'.name = entry.name /\ entry'.version = entry.version
        /\ entry'.source = lines[h + 3].value /\ entry'.checksum = ""
    BY <1>3, <2>1, <2>2, ReadFacts
  <2>4. SourceRead(h)'
    BY <1>2, <1>3, <2>1, <2>2, <2>3, FileStays
    DEF SourceRead, VersionRead, NameRead, LineIs, IsSource, Kind, SourceKind, IsGit
  <2>5. CursorIn(h)'
    BY <2>3, <2>4 DEF CursorIn
  <2> QED
    BY <1>1, <1>2, <2>3, <2>5, CursorReads
<1>6. CASE Follows(1, "source") /\ ~(LineAfter(1).closed /\ IsSource(LineAfter(1).value))
  <2>1. Throw
    BY <1>6 DEF EndOfVersion
  <2>2. ASSUME InDocumentedOrder, AllClosed, ParsableEntry(h)
        PROVE  FALSE
    <3>1. h + 3 \in DOMAIN lines /\ lines[h + 3].key = "source"
      BY <1>3, <1>6, LineNumbers DEF Follows
    <3>2. h + 3 \in BlockOf(h)
      BY <1>2, <3>1, ThirdLine DEF IsHeader
    <3>3. Field(h, "source") = lines[h + 3].value /\ lines[h + 3].value # ""
      BY <1>3, <2>2, <3>1, <3>2, FieldIs, FileTyped
    <3>4. IsSource(lines[h + 3].value)
      BY <2>2, <3>3 DEF ParsableEntry, DocumentedEntry
    <3> QED
      BY <1>3, <1>6, <2>2, <3>1, <3>4 DEF LineAfter, AllClosed
  <2> QED
    BY <1>1, <1>3, <2>1, <2>2, CursorThrows
<1> QED
  BY <1>4, <1>5, <1>6

LEMMA EndOfSourceStep ==
  ASSUME lines \in LockFiles, ParserTypeOK, CursorInv, EndOfSource
  PROVE  CursorInv'
<1>1. PICK h \in 1..(Len(lines) + 1) : CursorIn(h) /\ (InDocumentedOrder => Passed(h))
  BY DEF CursorInv
<1>2. cursorOffset = h + 3 /\ SourceRead(h) /\ entry.checksum = "" /\ item = "pending"
  BY <1>1 DEF CursorIn, EndOfSource, Inside
<1>3. h \in Nat /\ Len(lines) \in Nat /\ cursorOffset + 1 = h + 4 /\ h \in Headers
  <2>1. h \in Headers
    BY <1>2 DEF SourceRead, VersionRead, NameRead
  <2>2. h \in Nat /\ Len(lines) \in Nat
    BY LineNumbers
  <2>3. cursorOffset = h + 3
    BY <1>2
  <2>4. cursorOffset + 1 = h + 4
    BY <2>2, <2>3
  <2> QED
    BY <2>1, <2>2, <2>4
<1>4. CASE ~IsRegistry(entry.source)
  <2>1. /\ cursorPosition' = "EndOfChecksum"
        /\ lines' = lines /\ cursorOffset' = cursorOffset /\ item' = item
        /\ yielded' = yielded /\ entry' = entry
    BY <1>4 DEF EndOfSource, MoveTo
  <2>2. SourceRead(h)'
    BY <1>2, <2>1, FileStays DEF SourceRead, VersionRead, NameRead, LineIs
  <2>3. CursorIn(h)'
    BY <1>2, <1>4, <2>1, <2>2 DEF CursorIn, EntryRead
  <2> QED
    BY <1>1, <1>2, <2>1, <2>3, CursorReads
<1>5. CASE IsRegistry(entry.source) /\ Follows(1, "checksum") /\ LineAfter(1).closed
  <2>1. cursorOffset + 1 \in DOMAIN lines /\ lines[h + 4].key = "checksum"
    BY <1>3, <1>5, LineNumbers DEF Follows
  <2>2. Read(1, "checksum", "EndOfChecksum")
    BY <1>5 DEF EndOfSource
  <2>3. /\ lines' = lines /\ item' = item /\ yielded' = yielded /\ cursorOffset' = h + 4
        /\ cursorPosition' = "EndOfChecksum"
        /\ entry'.name = entry.name /\ entry'.version = entry.version
        /\ entry'.source = entry.source /\ entry'.checksum = lines[h + 4].value
    BY <1>3, <2>1, <2>2, ReadFacts
  <2>4. SourceRead(h)' /\ IsRegistry(entry.source)' /\ LineIs(h + 4, "checksum", entry.checksum)'
    BY <1>2, <1>3, <1>5, <2>1, <2>3, FileStays
    DEF SourceRead, VersionRead, NameRead, LineIs, IsSource, IsRegistry
  <2>5. CursorIn(h)'
    BY <2>3, <2>4 DEF CursorIn, EntryRead
  <2> QED
    BY <1>1, <1>2, <2>3, <2>5, CursorReads
<1>6. CASE IsRegistry(entry.source) /\ ~(Follows(1, "checksum") /\ LineAfter(1).closed)
  <2>1. Throw
    BY <1>6 DEF EndOfSource
  <2>2. ASSUME InDocumentedOrder, AllClosed, ParsableEntry(h)
        PROVE  FALSE
    <3>1. Field(h, "source") = entry.source /\ entry.source # ""
      BY <1>2, <2>2, SourceIs
    <3>2. h + 4 \in BlockOf(h) /\ lines[h + 4].key = "checksum"
      BY <1>6, <2>2, <3>1 DEF ParsableEntry, DocumentedEntry
    <3>3. h + 4 \in DOMAIN lines
      BY <3>2 DEF BlockOf
    <3> QED
      BY <1>3, <1>6, <2>2, <3>2, <3>3, LineNumbers DEF Follows, LineAfter, AllClosed
  <2> QED
    BY <1>1, <1>3, <2>1, <2>2, CursorThrows
<1> QED
  BY <1>4, <1>5, <1>6

LEMMA EndOfChecksumStep ==
  ASSUME lines \in LockFiles, ParserTypeOK, CursorInv, EndOfChecksum
  PROVE  CursorInv'
<1>1. PICK h \in 1..(Len(lines) + 1) : CursorIn(h) /\ (InDocumentedOrder => Passed(h))
  BY DEF CursorInv
<1>2. EntryRead(h)
  BY <1>1 DEF CursorIn, EndOfChecksum, NextEntry, Inside
<1>3. /\ lines' = lines /\ entry' = entry
      /\ cursorPosition' \in {"StartOfEntry", "EndOfFile"}
      /\ \/ item' = "pending"
         \/ item' = "entry" /\ yielded' = Append(yielded, entry)
  BY DEF EndOfChecksum, NextEntry, Inside
<1>4. PICK n \in 1..(Len(lines) + 1) : CursorIn(n)' /\ (InDocumentedOrder' => Passed(n)')
  BY <1>1, <1>2, NextEntryStep
<1>5. item' = "entry" => yielded' # <<>> /\ entry' = yielded'[Len(yielded')]
  BY <1>3 DEF ParserTypeOK
<1> QED
  BY <1>3, <1>4, <1>5 DEF CursorInv

LEMMA EndOfFileStep ==
  ASSUME CursorInv, EndOfFile
  PROVE  CursorInv'
<1>1. PICK h \in 1..(Len(lines) + 1) : CursorIn(h) /\ (InDocumentedOrder => Passed(h))
  BY DEF CursorInv
<1>2. /\ lines' = lines /\ yielded' = yielded /\ item' = "end"
      /\ cursorPosition' = "EndOfFile" /\ h = Len(lines) + 1
  BY <1>1 DEF EndOfFile, Inside, CursorIn
<1>3. CursorIn(h)'
  BY <1>2 DEF CursorIn
<1>4. InDocumentedOrder' => Passed(h)'
  BY <1>1, <1>2, FileStays, PassedStays
<1> QED
  BY <1>2, <1>3, <1>4 DEF CursorInv

LEMMA CallNextStep ==
  ASSUME CursorInv, CallNext
  PROVE  CursorInv'
<1>1. PICK h \in 1..(Len(lines) + 1) : CursorIn(h) /\ (InDocumentedOrder => Passed(h))
  BY DEF CursorInv
<1>2. /\ lines' = lines /\ yielded' = yielded /\ item' = "pending"
      /\ cursorPosition' = cursorPosition /\ cursorOffset' = cursorOffset
      /\ cursorPosition \in {"StartOfEntry", "EndOfFile"}
  BY DEF CallNext, CursorInv
<1>3. CursorIn(h)'
  BY <1>1, <1>2, FileStays DEF CursorIn
<1> QED
  BY <1>1, <1>2, <1>3, CursorReads

(* The whole invariant, for the parser alone and for whoever calls it.     *)
LEMMA ParserStep ==
  ASSUME ParserInv, NextInner \/ CallNext \/ UNCHANGED parserVars
  PROVE  ParserInv' /\ lines' = lines
<1>1. lines \in LockFiles /\ ParserTypeOK /\ CursorInv
  BY DEF ParserInv
<1>2. CASE NextInner \/ CallNext
  <2>1. lines' = lines /\ ParserTypeOK'
    BY <1>1, <1>2, TypeStep
  <2>2. CursorInv'
    BY <1>1, <1>2, StartOfEntryStep, EndOfNameStep, EndOfVersionStep, EndOfSourceStep,
       EndOfChecksumStep, EndOfFileStep, CallNextStep
    DEF NextInner
  <2> QED
    BY <1>1, <2>1, <2>2 DEF ParserInv
<1>3. CASE UNCHANGED parserVars
  <2>1. /\ lines' = lines /\ cursorOffset' = cursorOffset /\ cursorPosition' = cursorPosition
        /\ entry' = entry /\ item' = item /\ yielded' = yielded
    BY <1>3 DEF parserVars
  <2>2. ParserTypeOK'
    BY <1>1, <2>1 DEF ParserTypeOK
  <2>3. \A h : CursorIn(h)' <=> CursorIn(h)
    BY <2>1, FileStays
    DEF CursorIn, EntryRead, SourceRead, VersionRead, NameRead, LineIs, Follows
  <2>4. \A h : Passed(h)' <=> Passed(h)
    BY <2>1, PassedStays
  <2>5. CursorInv'
    BY <1>1, <2>1, <2>3, <2>4, FileStays DEF CursorInv
  <2> QED
    BY <1>1, <2>1, <2>2, <2>5 DEF ParserInv
<1> QED
  BY <1>2, <1>3

LEMMA ParserStart ==
  ASSUME ParserInit
  PROVE  ParserInv
<1>1. /\ lines \in LockFiles /\ entry = DummyEntry /\ item = "pending" /\ yielded = <<>>
      /\ Headers = {} => cursorPosition = "EndOfFile" /\ cursorOffset = 0
      /\ Headers # {} => cursorPosition = "StartOfEntry" /\ cursorOffset = Min(Headers) - 1
  BY DEF ParserInit, Headers
<1>2. Len(lines) \in Nat /\ \A g \in Headers : g \in Nat \ {0} /\ g <= Len(lines)
  BY <1>1, LineNumbers DEF Headers
<1>3. PICK h : h = IF Headers = {} THEN Len(lines) + 1 ELSE Min(Headers)
  OBVIOUS
<1>4. Headers # {} => h \in Headers /\ \A g \in Headers : h <= g
  <2>1. Headers \subseteq Nat
    BY <1>2
  <2> QED
    BY <1>3, <2>1, MinOf
<1>5. h \in 1..(Len(lines) + 1)
  BY <1>2, <1>3, <1>4
<1>6. \A g \in Headers : ~(g < h)
  BY <1>2, <1>4
<1>7. CursorIn(h)
  <2>1. CASE Headers = {}
    BY <1>1, <1>3, <2>1 DEF CursorIn
  <2>2. CASE Headers # {}
    <3>1. h \in Nat /\ cursorOffset = h - 1
      BY <1>1, <1>2, <1>3, <1>4, <2>2
    <3>2. cursorOffset + 1 = h
      BY <3>1
    <3> QED
      BY <1>1, <1>4, <2>2, <3>2 DEF CursorIn
  <2> QED
    BY <2>1, <2>2
<1>8. YieldsBefore(h, yielded)
  <2>1. \A g \in ListedHeaders : ~(g < h)
    BY <1>6 DEF ListedHeaders, Headers, IsListed, IsHeader
  <2>2. DOMAIN yielded = {}
    BY <1>1
  <2>3. [k \in {} |-> 0] \in [DOMAIN yielded -> ListedHeaders]
    BY <2>2
  <2> QED
    BY <2>1, <2>2, <2>3 DEF YieldsBefore
<1>9. CursorInv
  BY <1>1, <1>5, <1>6, <1>7, <1>8 DEF CursorInv, Passed
<1>10. ParserTypeOK
  <2>1. cursorOffset \in 0..Len(lines)
    BY <1>1, <1>2, <1>3, <1>4
  <2>2. entry \in PackageEntry
    BY <1>1 DEF PackageEntry, DummyEntry
  <2>3. yielded \in Seq(PackageEntry)
    BY <1>1
  <2>4. cursorPosition \in {"StartOfEntry", "EndOfFile"}
    BY <1>1
  <2> QED
    BY <1>1, <2>1, <2>2, <2>3, <2>4 DEF ParserTypeOK
<1> QED
  BY <1>1, <1>9, <1>10 DEF ParserInv

-------------------------------------------------------------------------------
(* What follows from the invariant.                                        *)

LEMMA YieldsFollow ==
  ASSUME ParserInv
  PROVE  YieldsListed
<1> SUFFICES ASSUME InDocumentedOrder
             PROVE  \E at \in [DOMAIN yielded -> ListedHeaders] :
                      /\ InSequence(at, ListedHeaders)
                      /\ \A k \in DOMAIN yielded : yielded[k] = EntryAt(at[k])
                      /\ item = "end" =>
                           \A h \in ListedHeaders : \E k \in DOMAIN yielded : at[k] = h
  BY DEF YieldsListed
<1>1. PICK n \in 1..(Len(lines) + 1) : CursorIn(n) /\ Passed(n)
  BY DEF ParserInv, CursorInv
<1>2. PICK at \in [DOMAIN yielded -> ListedHeaders] :
        /\ \A j, k \in DOMAIN yielded : j < k => at[j] < at[k]
        /\ \A g \in ListedHeaders : g < n <=> \E k \in DOMAIN yielded : at[k] = g
        /\ \A k \in DOMAIN yielded : yielded[k] = EntryAt(at[k])
  BY <1>1 DEF Passed, YieldsBefore
<1>3. lines \in LockFiles /\ n \in Nat /\ \A h \in ListedHeaders : h \in Nat /\ h <= Len(lines)
  BY LineNumbers DEF ListedHeaders, ParserInv
<1>4. ASSUME NEW k \in DOMAIN at, NEW h \in ListedHeaders, h < at[k]
      PROVE  \E j \in DOMAIN at : at[j] = h
  <2>1. at[k] \in ListedHeaders /\ at[k] < n
    BY <1>2
  <2>2. h < n
    BY <1>3, <1>4, <2>1
  <2> QED
    BY <1>2, <2>2
<1>5. InSequence(at, ListedHeaders)
  BY <1>2, <1>4 DEF InSequence
<1>6. ASSUME item = "end", NEW h \in ListedHeaders
      PROVE  \E k \in DOMAIN yielded : at[k] = h
  <2>1. n = Len(lines) + 1
    BY <1>1, <1>6 DEF ParserInv, CursorInv, CursorIn
  <2>2. h < n
    BY <1>3, <2>1, LineNumbers
  <2> QED
    BY <1>2, <2>2
<1> QED
  BY <1>2, <1>5, <1>6

LEMMA ErrorsFollow ==
  ASSUME ParserInv
  PROVE  ErrorsExact
<1>1. ASSUME InDocumentedOrder, item = "end", NEW g \in Headers
      PROVE  ParsableEntry(g)
  <2>1. PICK h \in 1..(Len(lines) + 1) : CursorIn(h) /\ Passed(h)
    BY <1>1 DEF ParserInv, CursorInv
  <2>2. h = Len(lines) + 1
    BY <1>1, <2>1 DEF ParserInv, CursorInv, CursorIn
  <2>3. g < h
    BY <2>2, LineNumbers DEF ParserInv, Headers
  <2> QED
    BY <2>1, <2>3 DEF Passed
<1> QED
  BY <1>1 DEF ErrorsExact, ParserInv, CursorInv

(* The parser's variables keep their types: the cursor stays in the file.  *)
THEOREM ParserTypeInvariant == ParserSpec => []ParserTypeOK
<1>1. ParserInit => ParserInv
  BY ParserStart
<1>2. ParserInv /\ [ParserNext]_parserVars => ParserInv'
  BY ParserStep DEF ParserNext
<1>3. ParserInv => ParserTypeOK
  BY DEF ParserInv
<1> QED
  BY <1>1, <1>2, <1>3, PTL DEF ParserSpec

(* The entries returned are the ones the file lists, in its order, each    *)
(* with its own fields, and none is left out when the parser is done.      *)
THEOREM ParserYieldsListed == ParserSpec => []YieldsListed
<1>1. ParserInit => ParserInv
  BY ParserStart
<1>2. ParserInv /\ [ParserNext]_parserVars => ParserInv'
  BY ParserStep DEF ParserNext
<1>3. ParserInv => YieldsListed
  BY YieldsFollow
<1> QED
  BY <1>1, <1>2, <1>3, PTL DEF ParserSpec

(* Errors come from files with an entry that is not as Cargo writes it, and *)
(* from nothing else.                                                      *)
THEOREM ParserErrorsExact == ParserSpec => []ErrorsExact
<1>1. ParserInit => ParserInv
  BY ParserStart
<1>2. ParserInv /\ [ParserNext]_parserVars => ParserInv'
  BY ParserStep DEF ParserNext
<1>3. ParserInv => ErrorsExact
  BY ErrorsFollow
<1> QED
  BY <1>1, <1>2, <1>3, PTL DEF ParserSpec

================================================================================
