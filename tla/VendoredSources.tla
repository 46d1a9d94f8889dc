---------------------------- MODULE VendoredSources ----------------------------
(***************************************************************************)
(* VendoredSources (src/src/vendor_deps.rs): `new` consumes the entries of *)
(* CargoLockParser, fetches the source of each that has one and writes the *)
(* Cargo configuration; `get` then looks a source up by binary search.     *)
(*                                                                         *)
(* Models a release build, where the debug_assert! of `new`, that the      *)
(* vector is Sorted, is not evaluated.  A fetched derivation is known by   *)
(* the entry it is for.                                                    *)
(***************************************************************************)
EXTENDS CargoLockParser, FiniteSets

CONSTANTS Rank   (* The place of every name and version in byte order.      *)

ASSUME RankAssumption ==
  /\ \A s \in DOMAIN Rank : Rank[s] \in Int
  /\ \A s, t \in DOMAIN Rank : s # t => Rank[s] # Rank[t]
  /\ \A file \in LockFiles : \A k \in DOMAIN file :
       file[k].key \in {"name", "version"} => file[k].value \in DOMAIN Rank

VARIABLES
  sources,   (* The sources pushed so far: their id, and what is fetched.   *)
  config,    (* The git tables written to config.toml, by their key.        *)
  outcome    (* "running", or how `new` ended.                              *)

vendorVars == <<sources, config, outcome>>
vars == <<parserVars, vendorVars>>

-------------------------------------------------------------------------------
(* SourceId.                                                                *)

SourceIdOf(e) == [packageName |-> e.name, version |-> e.version]

(* The element of the vector for an entry.                                  *)
SourceOf(e) == [id |-> SourceIdOf(e), drv |-> e]

(* Ord for SourceId: the name, then the version, as strings.                *)
Before(a, b) ==
  \/ Rank[a.packageName] < Rank[b.packageName]
  \/ a.packageName = b.packageName /\ Rank[a.version] < Rank[b.version]

(* slice::binary_search_by: where the search ends when `size` elements from *)
(* `base` on are left, counted from 0; `greater` has the places of the      *)
(* elements that compare greater than the one looked for.                   *)
SearchEnd(seq, greater) ==
  LET end[size \in 1..Len(seq)] ==
        [base \in Nat |->
           IF size = 1 THEN base
           ELSE LET half == size \div 2
                    mid == base + half
                IN  end[size - half][IF mid + 1 \in greater THEN base ELSE mid]]
  IN  end[Len(seq)][0]

(* The element where a search for id has ended, if it is the one.           *)
FoundIn(seq, id, greater) ==
  LET at == IF seq = <<>> THEN {} ELSE {SearchEnd(seq, greater) + 1}
  IN  {seq[k].drv : k \in {k \in at : seq[k].id = id}}

(* Mutant: the two sides of the comparison are swapped.                     *)
GetSwapped(id) ==
  FoundIn(sources, id, {k \in DOMAIN sources : Before(sources[k].id, id)})

(* What `get` returns, as a set: empty for None.                            *)
Get(id) == FoundIn(sources, id, {k \in DOMAIN sources : Before(id, sources[k].id)})

-------------------------------------------------------------------------------
(* The loop of `new`.                                                       *)

(* The table of a git source in config.toml: the key and the contents are   *)
(* both made of these.                                                      *)
TableOf(raw) == [url |-> raw.url, refKey |-> raw.refKey, refValue |-> raw.refValue]

Current == RawSources[entry.source]

(* GitSource::fetch names its derivation for the first eight bytes of the   *)
(* revision; "short" stands for one that has fewer.                         *)
CanFetch(source) ==
  \/ Kind(source) = "crates.io"
  \/ Kind(source) = "git" /\ RawSources[source].rev # "short"

(* A step of the parser, inside `next`.                                     *)
Parse == NextInner /\ UNCHANGED vendorVars

Consume == outcome = "running" /\ CallNext

Push == sources' = Append(sources, SourceOf(entry))

(* Mutant: path dependencies are pushed as well.                            *)
VendorPath == Consume /\ entry.source = "" /\ Push /\ UNCHANGED <<config, outcome>>

SkipPath == Consume /\ entry.source = "" /\ UNCHANGED vendorVars

(* Mutant: a new source goes to the front.                                  *)
VendorRegistryInFront ==
  /\ Consume
  /\ entry.source # "" /\ Kind(entry.source) = "crates.io"
  /\ sources' = <<SourceOf(entry)>> \o sources
  /\ UNCHANGED <<config, outcome>>

VendorRegistry ==
  /\ Consume
  /\ entry.source # "" /\ Kind(entry.source) = "crates.io"
  /\ Push
  /\ UNCHANGED <<config, outcome>>

(* Mutant: one table for every repository.                                  *)
VendorGitOnce ==
  /\ Consume
  /\ entry.source # "" /\ Kind(entry.source) = "git" /\ CanFetch(entry.source)
  /\ config' = IF \E k \in DOMAIN config : config[k].url = Current.url THEN config
               ELSE Append(config, TableOf(Current))
  /\ Push
  /\ UNCHANGED outcome

VendorGit ==
  /\ Consume
  /\ entry.source # "" /\ Kind(entry.source) = "git" /\ CanFetch(entry.source)
  /\ config' = Append(config, TableOf(Current))
  /\ Push
  /\ UNCHANGED outcome

(* `new` ends here; what it has collected is dropped, unless it is Ok.      *)
End(how) ==
  /\ outcome = "running"
  /\ outcome' = how
  /\ UNCHANGED <<parserVars, sources, config>>

(* A call of the evaluator fails.                                           *)
FetchFails ==
  /\ item = "entry" /\ entry.source # "" /\ CanFetch(entry.source)
  /\ End("nix error")

(* A custom registry, or a revision that is cut too short to be sliced.     *)
Panic ==
  /\ item = "entry" /\ entry.source # "" /\ ~CanFetch(entry.source)
  /\ End("panic")

ParseFails == item = "error" /\ End("parse error")

Return == item = "end" /\ End("ok")

Terminating == outcome # "running" /\ UNCHANGED vars

Init == ParserInit /\ sources = <<>> /\ config = <<>> /\ outcome = "running"

Next ==
  \/ Parse
  \/ SkipPath
  \/ VendorRegistry
  \/ VendorGit
  \/ FetchFails
  \/ Panic
  \/ ParseFails
  \/ Return
  \/ Terminating

Spec == Init /\ [][Next]_vars

(* Ordinary sequential code, which takes its next step if it has one.       *)
FairSpec == Spec /\ WF_vars(Next)

-------------------------------------------------------------------------------
(* Properties.                                                              *)

SourceEntry ==
  [id : [packageName : DOMAIN Rank, version : DOMAIN Rank], drv : PackageEntry]

TypeOK ==
  /\ outcome \in {"running", "ok", "parse error", "nix error", "panic"}
  /\ sources \in Seq(SourceEntry)
  /\ \A k \in DOMAIN sources : sources[k].drv.source \in DOMAIN RawSources
  /\ config \in Seq({TableOf(RawSources[s]) : s \in DOMAIN RawSources})

(* The packages of the lock file that are not path dependencies.            *)
HeadersToVendor == {h \in ListedHeaders : EntryAt(h).source # ""}

ToVendor == {EntryAt(h) : h \in HeadersToVendor}

(* Through the parser and the loop, the sources are those the lock file     *)
(* lists, in its order, each under the id of its own package; when `new`    *)
(* returns, none is missing.                                                *)
SourcesListed ==
  InDocumentedOrder =>
    \E at \in [DOMAIN sources -> HeadersToVendor] :
      /\ InSequence(at, HeadersToVendor)
      /\ \A k \in DOMAIN sources : sources[k] = SourceOf(EntryAt(at[k]))
      /\ outcome = "ok" => \A h \in HeadersToVendor : \E k \in DOMAIN sources : at[k] = h

(* When `new` returns, config.toml has a table for every git source that    *)
(* Cargo will look for, with its url and its ref, and for no other.         *)
TablesComplete ==
  InDocumentedOrder /\ outcome = "ok" =>
    ToSet(config) =
      {TableOf(RawSources[e.source]) : e \in {e \in ToVendor : Kind(e.source) = "git"}}

(* If the sources are sorted the way the search expects, `get` finds every  *)
(* one of them by its id, and nothing by any other id.                      *)
Sorted == \A j, k \in DOMAIN sources : j < k => Before(sources[j].id, sources[k].id)

GetFinds ==
  InDocumentedOrder /\ outcome = "ok" /\ Sorted =>
    \A id \in [packageName : DOMAIN Rank, version : DOMAIN Rank] :
      Get(id) = {e \in ToVendor : SourceIdOf(e) = id}

(* The loop ends on every file, also when it skips replaced entries.        *)
VendoringEnds == <>(outcome # "running")

(* The expectation "source is vendored", of every package that has a        *)
(* source: whatever `new` was given, `get` finds what it has pushed.        *)
SourceIsVendored ==
  InDocumentedOrder /\ outcome = "ok" => \A e \in ToVendor : Get(SourceIdOf(e)) # {}

(* "The format of the key doesn't actually matter, as long as it's unique": *)
(* no two tables of config.toml have the same key.                          *)
UniqueTables == \A j, k \in DOMAIN config : config[j] = config[k] => j = k

-------------------------------------------------------------------------------
(* The inductive invariant behind these properties.                         *)

(* How many of the entries returned the loop has dealt with.                *)
Consumed == IF item = "entry" THEN Len(yielded) - 1 ELSE Len(yielded)

Known(e) ==
  /\ {e.name, e.version} \subseteq DOMAIN Rank
  /\ e.source # "" => e.source \in DOMAIN RawSources

(* The sources ss are, in order, those of the first n entries es.           *)
VendoredFrom(ss, es, n) ==
  \E at \in [DOMAIN ss -> 1..n] :
    /\ \A j, k \in DOMAIN ss : j < k => at[j] < at[k]
    /\ \A k \in DOMAIN ss : ss[k] = SourceOf(es[at[k]])
    /\ \A j \in 1..n : es[j].source # "" <=> \E k \in DOMAIN ss : at[k] = j

IsVendoredGit(e) == e.source # "" /\ Kind(e.source) = "git"

(* So are the tables cs, in any order.                                      *)
TablesFrom(cs, es, n) ==
  ToSet(cs) = {TableOf(RawSources[es[j].source]) : j \in {j \in 1..n : IsVendoredGit(es[j])}}

VendorInv ==
  /\ ParserInv
  /\ TypeOK
  /\ \A k \in DOMAIN yielded : Known(yielded[k])
  /\ outcome # "running" => item # "pending"
  /\ outcome = "ok" => item = "end"
  /\ VendoredFrom(sources, yielded, Consumed)
  /\ TablesFrom(config, yielded, Consumed)

===============================================================================
