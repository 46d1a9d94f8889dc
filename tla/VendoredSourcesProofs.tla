------------------------- MODULE VendoredSourcesProofs -------------------------
(***************************************************************************)
(* Proofs about VendoredSources, for lock files of every length.  They     *)
(* rest on the invariant of the parser and on VendorInv: the sources are,  *)
(* in order, those of the entries the loop has dealt with.  That the       *)
(* search of `get` is right, for vectors of every length, is proved first. *)
(***************************************************************************)
EXTENDS VendoredSources, CargoLockParserProofs

-------------------------------------------------------------------------------
(* The binary search.                                                      *)

SearchStep(end, size, greater) ==
  [base \in Nat |->
     IF size = 1 THEN base
     ELSE LET half == size \div 2
              mid == base + half
          IN  end[size - half][IF mid + 1 \in greater THEN base ELSE mid]]

Searches(end, n, greater) == end = [size \in 1..n |-> SearchStep(end, size, greater)]

LEMMA Half ==
  ASSUME NEW size \in Nat, size > 1
  PROVE  /\ size \div 2 \in Nat /\ size - (size \div 2) \in Nat
         /\ size \div 2 >= 1 /\ size - (size \div 2) >= size \div 2
         /\ size - (size \div 2) < size
OBVIOUS

LEMMA StepSame ==
  ASSUME NEW e, NEW f, NEW size \in Nat \ {0}, NEW greater,
         \A k \in 1..(size - 1) : e[k] = f[k]
  PROVE  SearchStep(e, size, greater) = SearchStep(f, size, greater)
<1>1. CASE size = 1
  BY <1>1 DEF SearchStep
<1>2. CASE size > 1
  <2>1. size - (size \div 2) \in 1..(size - 1)
    BY <1>2, Half
  <2>2. e[size - (size \div 2)] = f[size - (size \div 2)]
    BY <2>1
  <2> QED
    BY <2>2 DEF SearchStep
<1> QED
  BY <1>1, <1>2

LEMMA SearchExtends ==
  ASSUME NEW n \in Nat, NEW greater, NEW e, Searches(e, n, greater)
  PROVE  \E f : Searches(f, n + 1, greater)
<1> DEFINE f == [size \in 1..(n + 1) |->
                   IF size = n + 1 THEN SearchStep(e, n + 1, greater) ELSE e[size]]
<1>1. \A size \in 1..n : f[size] = e[size] /\ e[size] = SearchStep(e, size, greater)
  BY DEF Searches
<1>2. ASSUME NEW size \in 1..(n + 1)
      PROVE  f[size] = SearchStep(f, size, greater)
  <2>1. \A k \in 1..(size - 1) : e[k] = f[k]
    BY <1>1
  <2> HIDE DEF f
  <2>2. SearchStep(e, size, greater) = SearchStep(f, size, greater)
    BY <2>1, StepSame
  <2>3. f[size] = SearchStep(e, size, greater)
    <3>1. CASE size = n + 1
      BY <3>1 DEF f
    <3>2. CASE size # n + 1
      <4>1. size \in 1..n
        BY <3>2
      <4>2. f[size] = e[size]
        BY <3>2 DEF f
      <4> QED
        BY <1>1, <4>1, <4>2
    <3> QED
      BY <3>1, <3>2
  <2> QED
    BY <2>2, <2>3
<1>3. f = [size \in 1..(n + 1) |-> f[size]]
  OBVIOUS
<1> HIDE DEF f
<1>4. f = [size \in 1..(n + 1) |-> SearchStep(f, size, greater)]
  BY <1>2, <1>3
<1> QED
  BY <1>4 DEF Searches

(* The recursion of the search is well founded.                            *)
LEMMA SearchExists ==
  ASSUME NEW n \in Nat, NEW greater
  PROVE  \E f : Searches(f, n, greater)
<1> DEFINE Missing == {m \in Nat : ~\E f : Searches(f, m, greater)}
<1>1. SUFFICES ASSUME Missing # {} PROVE FALSE
  OBVIOUS
<1>2. PICK m \in Missing : \A k \in Missing : m <= k
  BY <1>1, LeastOf
<1>3. m # 0
  <2>1. Searches([size \in 1..0 |-> 0], 0, greater)
    BY DEF Searches
  <2> QED
    BY <1>2, <2>1
<1>4. m - 1 \in Nat /\ m - 1 \notin Missing /\ (m - 1) + 1 = m
  BY <1>2, <1>3
<1>5. PICK f : Searches(f, m - 1, greater)
  BY <1>4
<1>6. \E g : Searches(g, m, greater)
  BY <1>4, <1>5, SearchExtends
<1> QED
  BY <1>2, <1>6

LEMMA SearchIs ==
  ASSUME NEW seq, Len(seq) \in Nat, NEW greater
  PROVE  \E end : Searches(end, Len(seq), greater) /\ SearchEnd(seq, greater) = end[Len(seq)][0]
<1> DEFINE chosen == CHOOSE end : Searches(end, Len(seq), greater)
<1>1. SearchEnd(seq, greater) = chosen[Len(seq)][0]
  BY DEF SearchEnd, Searches, SearchStep
<1>2. Searches(chosen, Len(seq), greater)
  BY SearchExists
<1> QED
  BY <1>1, <1>2

(* The place looked for stays among the elements that are left.            *)
LEMMA SearchKeeps ==
  ASSUME NEW n \in Nat, NEW greater, NEW end, Searches(end, n, greater), NEW m \in Nat,
         \A k \in 1..n : k \in greater <=> k > m,
         NEW size \in 1..n, NEW base \in Nat, base + size <= n, base < m, m <= base + size
  PROVE  end[size][base] = m - 1
<1> DEFINE Lost == {s \in 1..n : \E b \in Nat : b + s <= n /\ b < m /\ m <= b + s
                                                /\ end[s][b] # m - 1}
<1>1. SUFFICES ASSUME Lost # {} PROVE FALSE
  OBVIOUS
<1>2. PICK s \in Lost : \A t \in Lost : s <= t
  <2>1. Lost \subseteq Nat
    OBVIOUS
  <2> QED
    BY <1>1, <2>1, LeastOf
<1>3. PICK b \in Nat : b + s <= n /\ b < m /\ m <= b + s /\ end[s][b] # m - 1
  BY <1>2
<1>4. s \in 1..n /\ s \in Nat
  BY <1>2
<1>5. end[s] = SearchStep(end, s, greater)
  BY <1>4 DEF Searches
<1>6. s > 1
  <2>1. SUFFICES ASSUME s = 1 PROVE FALSE
    BY <1>4
  <2>2. end[s][b] = b
    BY <1>5, <2>1 DEF SearchStep
  <2> QED
    BY <1>3, <2>1, <2>2
<1>7. PICK half : half = s \div 2
  OBVIOUS
<1>8. half \in Nat /\ s - half \in Nat /\ half >= 1 /\ s - half >= half /\ s - half < s
  BY <1>4, <1>6, <1>7, Half
<1>9. end[s][b] = end[s - half][IF b + half + 1 \in greater THEN b ELSE b + half]
  BY <1>5, <1>6, <1>7 DEF SearchStep
<1>10. s - half \in 1..n /\ s - half \notin Lost
  <2>1. s - half \in 1..n /\ ~(s <= s - half)
    BY <1>4, <1>8
  <2> QED
    BY <1>2, <2>1
<1>11. b + half + 1 \in 1..n
  BY <1>3, <1>4, <1>8
<1>12. CASE b + half + 1 \in greater
  <2>1. b + half + 1 > m
    BY <1>11, <1>12
  <2>2. b + (s - half) <= n /\ b < m /\ m <= b + (s - half)
    BY <1>3, <1>4, <1>8, <2>1
  <2>3. end[s - half][b] = m - 1
    BY <1>10, <2>2
  <2> QED
    BY <1>3, <1>9, <1>12, <2>3
<1>13. CASE b + half + 1 \notin greater
  <2>1. ~(b + half + 1 > m)
    BY <1>11, <1>13
  <2>2. /\ b + half \in Nat /\ (b + half) + (s - half) <= n
        /\ b + half < m /\ m <= (b + half) + (s - half)
    BY <1>3, <1>4, <1>8, <2>1
  <2>3. end[s - half][b + half] = m - 1
    BY <1>10, <2>2
  <2> QED
    BY <1>3, <1>9, <1>13, <2>3
<1> QED
  BY <1>12, <1>13

(* Whatever is greater, the search ends at an element.                     *)
LEMMA SearchStays ==
  ASSUME NEW n \in Nat, NEW greater, NEW end, Searches(end, n, greater),
         NEW size \in 1..n, NEW base \in Nat, base + size <= n
  PROVE  end[size][base] \in 0..(n - 1)
<1> DEFINE Lost == {s \in 1..n : \E b \in Nat : b + s <= n /\ end[s][b] \notin 0..(n - 1)}
<1>1. SUFFICES ASSUME Lost # {} PROVE FALSE
  OBVIOUS
<1>2. PICK s \in Lost : \A t \in Lost : s <= t
  <2>1. Lost \subseteq Nat
    OBVIOUS
  <2> QED
    BY <1>1, <2>1, LeastOf
<1>3. PICK b \in Nat : b + s <= n /\ end[s][b] \notin 0..(n - 1)
  BY <1>2
<1>4. s \in 1..n /\ s \in Nat
  BY <1>2
<1>5. end[s] = SearchStep(end, s, greater)
  BY <1>4 DEF Searches
<1>6. s > 1
  <2>1. SUFFICES ASSUME s = 1 PROVE FALSE
    BY <1>4
  <2>2. end[s][b] = b
    BY <1>5, <2>1 DEF SearchStep
  <2> QED
    BY <1>3, <2>1, <2>2
<1>7. PICK half : half = s \div 2
  OBVIOUS
<1>8. half \in Nat /\ s - half \in Nat /\ half >= 1 /\ s - half >= half /\ s - half < s
  BY <1>4, <1>6, <1>7, Half
<1>9. PICK c : c = IF b + half + 1 \in greater THEN b ELSE b + half
  OBVIOUS
<1>10. end[s][b] = end[s - half][c]
  BY <1>5, <1>6, <1>7, <1>9 DEF SearchStep
<1>11. s - half \in 1..n /\ s - half \notin Lost
  <2>1. s - half \in 1..n /\ ~(s <= s - half)
    BY <1>4, <1>8
  <2> QED
    BY <1>2, <2>1
<1>12. c \in Nat /\ c + (s - half) <= n
  BY <1>3, <1>4, <1>8, <1>9
<1> QED
  BY <1>3, <1>10, <1>11, <1>12

LEMMA SearchInside ==
  ASSUME NEW seq, Len(seq) \in Nat \ {0}, NEW greater
  PROVE  SearchEnd(seq, greater) + 1 \in 1..Len(seq)
<1>1. PICK end : /\ Searches(end, Len(seq), greater)
                 /\ SearchEnd(seq, greater) = end[Len(seq)][0]
  BY SearchIs
<1>2. end[Len(seq)][0] \in 0..(Len(seq) - 1)
  BY <1>1, SearchStays
<1> QED
  BY <1>1, <1>2

(* If just the elements after the m-th are greater, the search ends at it. *)
LEMMA SearchEnds ==
  ASSUME NEW seq, Len(seq) \in Nat, NEW greater, NEW m \in 1..Len(seq),
         \A k \in 1..Len(seq) : k \in greater <=> k > m
  PROVE  SearchEnd(seq, greater) = m - 1
<1>1. PICK end : /\ Searches(end, Len(seq), greater)
                 /\ SearchEnd(seq, greater) = end[Len(seq)][0]
  BY SearchIs
<1>2. end[Len(seq)][0] = m - 1
  BY <1>1, SearchKeeps
<1> QED
  BY <1>1, <1>2

-------------------------------------------------------------------------------
(* The order of the ids.                                                   *)

Ids == [packageName : DOMAIN Rank, version : DOMAIN Rank]

LEMMA BeforeOrders ==
  ASSUME NEW a \in Ids, NEW b \in Ids
  PROVE  /\ ~Before(a, a)
         /\ Before(a, b) => ~Before(b, a)
BY RankAssumption DEF Ids, Before

(* In a sorted vector `get` finds an id where it is, and nothing else.     *)
LEMMA GetOfSorted ==
  ASSUME TypeOK, Sorted, NEW id \in Ids
  PROVE  Get(id) = {sources[k].drv : k \in {k \in DOMAIN sources : sources[k].id = id}}
<1>1. /\ Len(sources) \in Nat /\ DOMAIN sources = 1..Len(sources)
      /\ \A k \in 1..Len(sources) : sources[k].id \in Ids
  <2>1. sources \in Seq(SourceEntry)
    BY DEF TypeOK
  <2>2. \A e \in SourceEntry : e.id \in Ids
    BY DEF SourceEntry, Ids
  <2> QED
    BY <2>1, <2>2
<1> DEFINE greater == {k \in DOMAIN sources : Before(id, sources[k].id)}
           at == IF sources = <<>> THEN {} ELSE {SearchEnd(sources, greater) + 1}
<1>2. Get(id) = {sources[k].drv : k \in {k \in at : sources[k].id = id}}
  BY DEF Get, FoundIn
<1>3. ASSUME NEW m \in DOMAIN sources, sources[m].id = id
      PROVE  at = {m}
  <2>1. ASSUME NEW k \in 1..Len(sources)
        PROVE  k \in greater <=> k > m
    <3>1. CASE k < m
      <4>1. Before(sources[k].id, id)
        BY <1>1, <1>3, <3>1 DEF Sorted
      <4> QED
        BY <1>1, <3>1, <4>1, BeforeOrders
    <3>2. CASE k = m
      BY <1>1, <1>3, <3>2, BeforeOrders
    <3>3. CASE k > m
      <4>1. Before(id, sources[k].id)
        BY <1>1, <1>3, <3>3 DEF Sorted
      <4> QED
        BY <1>1, <3>3, <4>1
    <3> QED
      BY <1>1, <3>1, <3>2, <3>3
  <2> HIDE DEF greater
  <2>2. SearchEnd(sources, greater) = m - 1
    BY <1>1, <1>3, <2>1, SearchEnds
  <2>3. sources # <<>> /\ (m - 1) + 1 = m
    BY <1>1, <1>3
  <2> QED
    BY <2>2, <2>3
<1>4. CASE \E m \in DOMAIN sources : sources[m].id = id
  <2>1. PICK m \in DOMAIN sources : sources[m].id = id
    BY <1>4
  <2>2. \A k \in DOMAIN sources : sources[k].id = id => {k} = {m}
    BY <1>3, <2>1
  <2>3. {k \in DOMAIN sources : sources[k].id = id} = {m}
    BY <2>1, <2>2
  <2> QED
    BY <1>2, <1>3, <2>1, <2>3
<1>5. CASE \A k \in DOMAIN sources : sources[k].id # id
  <2>1. at \subseteq DOMAIN sources
    <3>1. sources # <<>> => Len(sources) \in Nat \ {0}
      <4>1. sources \in Seq(SourceEntry)
        BY DEF TypeOK
      <4> QED
        BY <4>1
    <3> QED
      BY <1>1, <3>1, SearchInside
  <2> HIDE DEF at
  <2>2. {k \in at : sources[k].id = id} = {}
    BY <1>5, <2>1
  <2>3. {k \in DOMAIN sources : sources[k].id = id} = {}
    BY <1>5
  <2> QED
    BY <1>2, <2>2, <2>3
<1> QED
  BY <1>4, <1>5

-------------------------------------------------------------------------------
(* What the loop has collected of the first n entries.                     *)

LEMMA OneMore ==
  ASSUME NEW n \in Nat
  PROVE  /\ \A j : j \in 1..(n + 1) <=> j \in 1..n \/ j = n + 1
         /\ n + 1 \notin 1..n
         /\ \A j \in 1..n : j \in Nat /\ j < n + 1
         /\ \A j, k \in 1..(n + 1) : j < k => j \in 1..n
OBVIOUS

(* f is the sequence seq with e at its end.                                *)
Extends(f, seq, e) ==
  /\ Len(seq) \in Nat /\ DOMAIN seq = 1..Len(seq)
  /\ DOMAIN f = 1..(Len(seq) + 1)
  /\ \A k \in 1..Len(seq) : f[k] = seq[k]
  /\ f[Len(seq) + 1] = e

LEMMA AppendFacts ==
  ASSUME NEW S, NEW seq \in Seq(S), NEW e \in S
  PROVE  Extends(Append(seq, e), seq, e) /\ Append(seq, e) \in Seq(S)
BY DEF Extends

LEMMA VendoredSame ==
  ASSUME NEW ss, NEW es, NEW fs, NEW n \in Nat, VendoredFrom(ss, es, n),
         \A j \in 1..n : fs[j] = es[j]
  PROVE  VendoredFrom(ss, fs, n)
<1>1. PICK at \in [DOMAIN ss -> 1..n] :
        /\ \A j, k \in DOMAIN ss : j < k => at[j] < at[k]
        /\ \A k \in DOMAIN ss : ss[k] = SourceOf(es[at[k]])
        /\ \A j \in 1..n : es[j].source # "" <=> \E k \in DOMAIN ss : at[k] = j
  BY DEF VendoredFrom
<1>2. \A k \in DOMAIN ss : ss[k] = SourceOf(fs[at[k]])
  BY <1>1
<1>3. \A j \in 1..n : fs[j].source # "" <=> \E k \in DOMAIN ss : at[k] = j
  BY <1>1
<1> QED
  BY <1>1, <1>2, <1>3 DEF VendoredFrom

LEMMA VendoredSkip ==
  ASSUME NEW ss, NEW es, NEW n \in Nat, VendoredFrom(ss, es, n), es[n + 1].source = ""
  PROVE  VendoredFrom(ss, es, n + 1)
<1>1. PICK at \in [DOMAIN ss -> 1..n] :
        /\ \A j, k \in DOMAIN ss : j < k => at[j] < at[k]
        /\ \A k \in DOMAIN ss : ss[k] = SourceOf(es[at[k]])
        /\ \A j \in 1..n : es[j].source # "" <=> \E k \in DOMAIN ss : at[k] = j
  BY DEF VendoredFrom
<1>2. /\ \A j : j \in 1..(n + 1) <=> j \in 1..n \/ j = n + 1
      /\ n + 1 \notin 1..n
  BY OneMore
<1>3. at \in [DOMAIN ss -> 1..(n + 1)] /\ \A k \in DOMAIN ss : at[k] # n + 1
  BY <1>1, <1>2
<1>4. \A j \in 1..(n + 1) : es[j].source # "" <=> \E k \in DOMAIN ss : at[k] = j
  BY <1>1, <1>2, <1>3
<1> QED
  BY <1>1, <1>3, <1>4 DEF VendoredFrom

LEMMA VendoredPush ==
  ASSUME NEW S, NEW ss \in Seq(S), NEW es, NEW n \in Nat, VendoredFrom(ss, es, n),
         es[n + 1].source # "", NEW s \in S, s = SourceOf(es[n + 1])
  PROVE  VendoredFrom(Append(ss, s), es, n + 1)
<1> DEFINE size == Len(ss)
           new == Append(ss, s)
<1>1. /\ size \in Nat /\ DOMAIN ss = 1..size /\ DOMAIN new = 1..(size + 1)
      /\ \A k \in 1..size : new[k] = ss[k]
      /\ new[size + 1] = s
  <2>1. Extends(Append(ss, s), ss, s)
    BY AppendFacts, Zenon
  <2> QED
    BY <2>1 DEF Extends
<1>2. PICK at \in [DOMAIN ss -> 1..n] :
        /\ \A j, k \in DOMAIN ss : j < k => at[j] < at[k]
        /\ \A k \in DOMAIN ss : ss[k] = SourceOf(es[at[k]])
        /\ \A j \in 1..n : es[j].source # "" <=> \E k \in DOMAIN ss : at[k] = j
  BY DEF VendoredFrom
<1> HIDE DEF size, new
<1> DEFINE next == [k \in 1..(size + 1) |-> IF k = size + 1 THEN n + 1 ELSE at[k]]
<1>3. /\ \A k : k \in 1..(size + 1) <=> k \in 1..size \/ k = size + 1
      /\ size + 1 \notin 1..size
      /\ \A j : j \in 1..(n + 1) <=> j \in 1..n \/ j = n + 1
      /\ n + 1 \notin 1..n
  BY <1>1, OneMore
<1>4. /\ \A k \in 1..size : next[k] = at[k] /\ at[k] \in 1..n
      /\ next[size + 1] = n + 1
      /\ next \in [1..(size + 1) -> 1..(n + 1)]
  BY <1>1, <1>2, <1>3
<1> HIDE DEF next
<1>5. \A j, k \in 1..(size + 1) : j < k => next[j] < next[k]
  <2> SUFFICES ASSUME NEW j \in 1..(size + 1), NEW k \in 1..(size + 1), j < k
               PROVE  next[j] < next[k]
    OBVIOUS
  <2>1. j \in 1..size
    BY <1>1, OneMore, Zenon
  <2>2. CASE k \in 1..size
    BY <1>1, <1>2, <1>4, <2>1, <2>2
  <2>3. CASE k = size + 1
    <3>1. next[j] \in 1..n /\ next[k] = n + 1
      BY <1>4, <2>1, <2>3
    <3>2. next[j] < n + 1
      BY <3>1, OneMore, Zenon
    <3> QED
      BY <3>1, <3>2, Zenon
  <2> QED
    BY <1>3, <2>2, <2>3
<1>6. \A k \in 1..(size + 1) :
        new[k] = SourceOf(es[next[k]])
  BY <1>1, <1>2, <1>3, <1>4
<1>7. \A j \in 1..(n + 1) : es[j].source # "" <=> \E k \in 1..(size + 1) : next[k] = j
  <2> TAKE j \in 1..(n + 1)
  <2>1. CASE j = n + 1
    BY <1>3, <1>4, <2>1
  <2>2. CASE j \in 1..n
    <3>1. (\E k \in 1..(size + 1) : next[k] = j) <=> (\E k \in 1..size : at[k] = j)
      BY <1>3, <1>4, <2>2
    <3> QED
      BY <1>1, <1>2, <2>2, <3>1, Zenon
  <2> QED
    BY <1>3, <2>1, <2>2
<1>8. VendoredFrom(new, es, n + 1)
  <2>1. next \in [DOMAIN new -> 1..(n + 1)]
    BY <1>1, <1>4
  <2>2. \A j, k \in DOMAIN new : j < k => next[j] < next[k]
    BY <1>1, <1>5
  <2>3. \A k \in DOMAIN new : new[k] = SourceOf(es[next[k]])
    BY <1>1, <1>6
  <2>4. \A j \in 1..(n + 1) : es[j].source # "" <=> \E k \in DOMAIN new : next[k] = j
    BY <1>1, <1>7
  <2> QED
    BY <2>1, <2>2, <2>3, <2>4 DEF VendoredFrom
<1> QED
  BY <1>8 DEF new

LEMMA TablesSame ==
  ASSUME NEW cs, NEW es, NEW fs, NEW n \in Nat, TablesFrom(cs, es, n),
         \A j \in 1..n : fs[j] = es[j]
  PROVE  TablesFrom(cs, fs, n)
BY DEF TablesFrom, IsVendoredGit

LEMMA TablesSkip ==
  ASSUME NEW cs, NEW es, NEW n \in Nat, TablesFrom(cs, es, n), ~IsVendoredGit(es[n + 1])
  PROVE  TablesFrom(cs, es, n + 1)
<1>1. \A j : j \in 1..(n + 1) <=> j \in 1..n \/ j = n + 1
  OBVIOUS
<1>2. {j \in 1..(n + 1) : IsVendoredGit(es[j])} = {j \in 1..n : IsVendoredGit(es[j])}
  BY <1>1
<1> QED
  BY <1>2 DEF TablesFrom

LEMMA TablesAdd ==
  ASSUME NEW T, NEW cs \in Seq(T), NEW es, NEW n \in Nat, TablesFrom(cs, es, n),
         IsVendoredGit(es[n + 1]), NEW t \in T, t = TableOf(RawSources[es[n + 1].source])
  PROVE  TablesFrom(Append(cs, t), es, n + 1)
<1>1. \A j : j \in 1..(n + 1) <=> j \in 1..n \/ j = n + 1
  OBVIOUS
<1>2. {j \in 1..(n + 1) : IsVendoredGit(es[j])}
        = {j \in 1..n : IsVendoredGit(es[j])} \cup {n + 1}
  BY <1>1
<1>3. ToSet(Append(cs, t)) = ToSet(cs) \cup {t}
  <2> DEFINE new == Append(cs, t)
             size == Len(cs)
  <2>1. /\ size \in Nat /\ DOMAIN cs = 1..size /\ DOMAIN new = 1..(size + 1)
        /\ \A k \in 1..size : new[k] = cs[k]
        /\ new[size + 1] = t
    OBVIOUS
  <2> HIDE DEF new, size
  <2>2. \A k : k \in 1..(size + 1) <=> k \in 1..size \/ k = size + 1
    BY <2>1
  <2>3. {new[k] : k \in 1..(size + 1)} = {cs[k] : k \in 1..size} \cup {t}
    BY <2>1, <2>2
  <2> QED
    BY <2>1, <2>3 DEF ToSet, new
<1>4. ToSet(cs) = {TableOf(RawSources[es[j].source]) : j \in {j \in 1..n : IsVendoredGit(es[j])}}
  BY DEF TablesFrom
<1> QED
  BY <1>2, <1>3, <1>4 DEF TablesFrom

-------------------------------------------------------------------------------
(* The parser's part in a step.                                            *)

LEMMA ParseYields ==
  ASSUME NextInner
  PROVE  /\ item = "pending"
         /\ \/ yielded' = yielded /\ item' \in {"pending", "end", "error"}
            \/ EndOfChecksum /\ item' = "entry" /\ yielded' = Append(yielded, entry)
<1>1. ASSUME NEW n, NEW field, NEW position, Read(n, field, position)
      PROVE  item' = item /\ yielded' = yielded
  BY <1>1 DEF Read
<1>2. ASSUME NEW position, MoveTo(position)
      PROVE  item' = item /\ yielded' = yielded
  BY <1>2 DEF MoveTo
<1>3. Throw => item' = "error" /\ yielded' = yielded
  BY DEF Throw
<1>4. CASE StartOfEntry
  BY <1>1, <1>3, <1>4 DEF StartOfEntry, Inside
<1>5. CASE EndOfName
  BY <1>1, <1>3, <1>5 DEF EndOfName, Inside
<1>6. CASE EndOfVersion
  BY <1>1, <1>3, <1>6 DEF EndOfVersion, Inside
<1>7. CASE EndOfSource
  BY <1>1, <1>2, <1>3, <1>7 DEF EndOfSource, Inside
<1>8. CASE EndOfChecksum
  BY <1>8 DEF EndOfChecksum, NextEntry, Inside
<1>9. CASE EndOfFile
  BY <1>9 DEF EndOfFile, Inside
<1> QED
  BY <1>4, <1>5, <1>6, <1>7, <1>8, <1>9 DEF NextInner

(* The name, the version and the source of an entry are those of lines.    *)
LEMMA EntryKnown ==
  ASSUME ParserInv, EndOfChecksum
  PROVE  Known(entry)
<1>1. lines \in LockFiles
  BY DEF ParserInv
<1>2. PICK h \in 1..(Len(lines) + 1) : CursorIn(h)
  BY DEF ParserInv, CursorInv
<1>3. EntryRead(h)
  BY <1>2 DEF CursorIn, EndOfChecksum, NextEntry, Inside
<1>4. /\ LineIs(h + 1, "name", entry.name) /\ LineIs(h + 2, "version", entry.version)
      /\ entry.source = "" \/ LineIs(h + 3, "source", entry.source)
  BY <1>3 DEF EntryRead, SourceRead, VersionRead, NameRead
<1>5. entry.name \in DOMAIN Rank /\ entry.version \in DOMAIN Rank
  BY <1>1, <1>4, RankAssumption DEF LineIs
<1>6. entry.source = "" \/ entry.source \in DOMAIN RawSources
  BY <1>1, <1>4, FileTyped DEF LineIs
<1> QED
  BY <1>5, <1>6 DEF Known

-------------------------------------------------------------------------------
(* The invariant of the loop.                                              *)

LEMMA ParseStep ==
  ASSUME VendorInv, Parse
  PROVE  VendorInv'
<1>1. /\ ParserInv /\ TypeOK /\ \A k \in DOMAIN yielded : Known(yielded[k])
      /\ VendoredFrom(sources, yielded, Consumed) /\ TablesFrom(config, yielded, Consumed)
  BY DEF VendorInv
<1>2. NextInner /\ sources' = sources /\ config' = config /\ outcome' = outcome
  BY DEF Parse, vendorVars
<1>3. ParserInv'
  BY <1>1, <1>2, ParserStep
<1>4. item = "pending" /\ outcome = "running" /\ Consumed = Len(yielded)
  BY <1>2, ParseYields DEF VendorInv, Consumed
<1>5. TypeOK'
  BY <1>1, <1>2 DEF TypeOK
<1>6. yielded \in Seq(PackageEntry) /\ entry \in PackageEntry
  BY <1>1 DEF ParserInv, ParserTypeOK
<1>7. CASE yielded' = yielded /\ item' \in {"pending", "end", "error"}
  <2>1. Consumed' = Consumed
    BY <1>4, <1>7 DEF Consumed
  <2>2. \A k \in DOMAIN yielded' : Known(yielded'[k])
    BY <1>1, <1>7
  <2> QED
    BY <1>1, <1>2, <1>3, <1>4, <1>5, <1>7, <2>1, <2>2 DEF VendorInv, Known
<1>8. CASE EndOfChecksum /\ item' = "entry" /\ yielded' = Append(yielded, entry)
  <2>1. /\ Len(yielded) \in Nat /\ Len(yielded') = Len(yielded) + 1
        /\ DOMAIN yielded = 1..Len(yielded) /\ DOMAIN yielded' = 1..(Len(yielded) + 1)
        /\ \A k \in 1..Len(yielded) : yielded'[k] = yielded[k]
        /\ yielded'[Len(yielded) + 1] = entry
    BY <1>6, <1>8
  <2>2. Consumed' = Consumed /\ Consumed \in Nat
    BY <1>4, <1>8, <2>1 DEF Consumed
  <2>3. \A k \in DOMAIN yielded' : Known(yielded'[k])
    <3>1. Known(entry)
      BY <1>1, <1>8, EntryKnown
    <3>2. \A k \in 1..(Len(yielded) + 1) : k \in 1..Len(yielded) \/ k = Len(yielded) + 1
      BY <2>1
    <3> QED
      BY <1>1, <2>1, <3>1, <3>2
  <2>4. VendoredFrom(sources, yielded', Consumed)
    BY <1>1, <1>4, <2>1, <2>2, VendoredSame
  <2>5. TablesFrom(config, yielded', Consumed)
    BY <1>1, <1>4, <2>1, <2>2, TablesSame
  <2> QED
    BY <1>2, <1>3, <1>4, <1>5, <1>8, <2>2, <2>3, <2>4, <2>5 DEF VendorInv, Known
<1> QED
  BY <1>2, <1>7, <1>8, ParseYields

(* What every iteration of the loop finds.                                 *)
LEMMA ConsumeFacts ==
  ASSUME VendorInv, Consume
  PROVE  /\ ParserInv' /\ yielded' = yielded /\ item' = "pending" /\ outcome = "running"
         /\ Consumed \in Nat /\ Consumed' = Consumed + 1
         /\ entry = yielded[Consumed + 1] /\ entry \in PackageEntry /\ Known(entry)
<1>1. ParserInv /\ \A k \in DOMAIN yielded : Known(yielded[k])
  BY DEF VendorInv
<1>2. CallNext /\ outcome = "running"
  BY DEF Consume
<1>3. ParserInv'
  BY <1>1, <1>2, ParserStep
<1>4. item = "entry" /\ yielded' = yielded /\ item' = "pending"
  BY <1>2 DEF CallNext
<1>5. /\ yielded # <<>> /\ entry = yielded[Len(yielded)]
      /\ yielded \in Seq(PackageEntry) /\ entry \in PackageEntry
  BY <1>1, <1>4 DEF ParserInv, CursorInv, ParserTypeOK
<1>6. Len(yielded) \in Nat \ {0} /\ Len(yielded) \in DOMAIN yielded
  BY <1>5
<1>7. Consumed = Len(yielded) - 1 /\ Consumed' = Len(yielded)
  BY <1>4 DEF Consumed
<1> QED
  BY <1>1, <1>2, <1>3, <1>4, <1>5, <1>6, <1>7

LEMMA SkipPathStep ==
  ASSUME VendorInv, SkipPath
  PROVE  VendorInv'
<1>1. /\ ParserInv' /\ yielded' = yielded /\ item' = "pending" /\ outcome = "running"
      /\ Consumed \in Nat /\ Consumed' = Consumed + 1
      /\ entry = yielded[Consumed + 1]
  BY ConsumeFacts DEF SkipPath
<1>2. /\ TypeOK /\ \A k \in DOMAIN yielded : Known(yielded[k])
      /\ VendoredFrom(sources, yielded, Consumed) /\ TablesFrom(config, yielded, Consumed)
  BY DEF VendorInv
<1>3. entry.source = "" /\ sources' = sources /\ config' = config /\ outcome' = outcome
  BY DEF SkipPath, vendorVars
<1>4. VendoredFrom(sources, yielded, Consumed + 1)
  BY <1>1, <1>2, <1>3, VendoredSkip
<1>5. TablesFrom(config, yielded, Consumed + 1)
  BY <1>1, <1>2, <1>3, TablesSkip DEF IsVendoredGit
<1>6. TypeOK'
  BY <1>2, <1>3 DEF TypeOK
<1> QED
  BY <1>1, <1>2, <1>3, <1>4, <1>5, <1>6 DEF VendorInv, Known

(* A source that is pushed has the id of its own package.                  *)
LEMMA PushFacts ==
  ASSUME VendorInv, Consume, entry.source # "", Push
  PROVE  /\ VendoredFrom(sources', yielded', Consumed')
         /\ sources' \in Seq(SourceEntry)
         /\ \A k \in DOMAIN sources' : sources'[k].drv.source \in DOMAIN RawSources
<1>1. /\ yielded' = yielded /\ Consumed \in Nat /\ Consumed' = Consumed + 1
      /\ entry = yielded[Consumed + 1] /\ entry \in PackageEntry /\ Known(entry)
  BY ConsumeFacts
<1>2. /\ VendoredFrom(sources, yielded, Consumed) /\ sources \in Seq(SourceEntry)
      /\ \A k \in DOMAIN sources : sources[k].drv.source \in DOMAIN RawSources
  BY DEF VendorInv, TypeOK
<1>3. PICK s : s = SourceOf(entry)
  OBVIOUS
<1>4. s \in SourceEntry
  BY <1>1, <1>3 DEF SourceEntry, SourceOf, SourceIdOf, Known
<1>5. sources' = Append(sources, s)
  BY <1>3 DEF Push
<1>6. VendoredFrom(Append(sources, s), yielded, Consumed + 1)
  BY <1>1, <1>2, <1>3, <1>4, VendoredPush
<1>7. s.drv.source \in DOMAIN RawSources
  BY <1>1, <1>3 DEF Known, SourceOf
<1>8. \A k \in DOMAIN sources' : sources'[k].drv.source \in DOMAIN RawSources
  <2>1. /\ Len(sources) \in Nat /\ DOMAIN sources = 1..Len(sources)
        /\ DOMAIN sources' = 1..(Len(sources) + 1)
        /\ \A k \in 1..Len(sources) : sources'[k] = sources[k]
        /\ sources'[Len(sources) + 1] = s
    <3>1. Extends(sources', sources, s)
      BY <1>2, <1>4, <1>5, AppendFacts, Zenon
    <3> QED
      BY <3>1 DEF Extends
  <2>2. \A k \in DOMAIN sources' : k \in DOMAIN sources \/ k = Len(sources) + 1
    BY <2>1, OneMore
  <2> QED
    BY <1>2, <1>7, <2>1, <2>2
<1>9. sources' \in Seq(SourceEntry)
  BY <1>2, <1>4, <1>5, AppendFacts
<1> QED
  BY <1>1, <1>5, <1>6, <1>8, <1>9

LEMMA VendorRegistryStep ==
  ASSUME VendorInv, VendorRegistry
  PROVE  VendorInv'
<1>1. /\ Consume /\ entry.source # "" /\ Kind(entry.source) = "crates.io" /\ Push
      /\ config' = config /\ outcome' = outcome
  BY DEF VendorRegistry
<1>2. /\ ParserInv' /\ yielded' = yielded /\ item' = "pending" /\ outcome = "running"
      /\ Consumed \in Nat /\ Consumed' = Consumed + 1 /\ entry = yielded[Consumed + 1]
  BY <1>1, ConsumeFacts
<1>3. /\ VendoredFrom(sources', yielded', Consumed') /\ sources' \in Seq(SourceEntry)
      /\ \A k \in DOMAIN sources' : sources'[k].drv.source \in DOMAIN RawSources
  BY <1>1, PushFacts
<1>4. /\ TypeOK /\ \A k \in DOMAIN yielded : Known(yielded[k])
      /\ TablesFrom(config, yielded, Consumed)
  BY DEF VendorInv
<1>5. TablesFrom(config, yielded, Consumed + 1)
  BY <1>1, <1>2, <1>4, TablesSkip DEF IsVendoredGit
<1>6. TypeOK'
  BY <1>1, <1>3, <1>4 DEF TypeOK
<1> QED
  BY <1>1, <1>2, <1>3, <1>4, <1>5, <1>6 DEF VendorInv, Known

LEMMA VendorGitStep ==
  ASSUME VendorInv, VendorGit
  PROVE  VendorInv'
<1>1. /\ Consume /\ entry.source # "" /\ Kind(entry.source) = "git" /\ Push
      /\ config' = Append(config, TableOf(Current)) /\ outcome' = outcome
  BY DEF VendorGit
<1>2. /\ ParserInv' /\ yielded' = yielded /\ item' = "pending" /\ outcome = "running"
      /\ Consumed \in Nat /\ Consumed' = Consumed + 1 /\ entry = yielded[Consumed + 1]
      /\ Known(entry)
  BY <1>1, ConsumeFacts
<1>3. /\ VendoredFrom(sources', yielded', Consumed') /\ sources' \in Seq(SourceEntry)
      /\ \A k \in DOMAIN sources' : sources'[k].drv.source \in DOMAIN RawSources
  BY <1>1, PushFacts
<1>4. /\ TypeOK /\ \A k \in DOMAIN yielded : Known(yielded[k])
      /\ TablesFrom(config, yielded, Consumed)
  BY DEF VendorInv
<1> DEFINE Tables == {TableOf(RawSources[s]) : s \in DOMAIN RawSources}
<1>5. PICK t : t = TableOf(RawSources[entry.source])
  OBVIOUS
<1>6. t \in Tables /\ config \in Seq(Tables) /\ config' = Append(config, t)
  BY <1>1, <1>2, <1>4, <1>5 DEF Known, TypeOK, Current
<1> HIDE DEF Tables
<1>7. TablesFrom(Append(config, t), yielded, Consumed + 1)
  BY <1>1, <1>2, <1>4, <1>5, <1>6, TablesAdd DEF IsVendoredGit
<1>8. config' \in Seq(Tables)
  BY <1>6
<1>9. TypeOK'
  BY <1>1, <1>3, <1>4, <1>8 DEF TypeOK, Tables
<1> QED
  BY <1>1, <1>2, <1>3, <1>4, <1>6, <1>7, <1>9 DEF VendorInv, Known

LEMMA EndStep ==
  ASSUME VendorInv, NEW how \in {"ok", "parse error", "nix error", "panic"},
         item # "pending", how = "ok" => item = "end", End(how)
  PROVE  VendorInv'
<1>1. /\ UNCHANGED parserVars /\ outcome' = how /\ sources' = sources /\ config' = config
  BY DEF End
<1>2. item' = item /\ yielded' = yielded
  BY <1>1 DEF parserVars
<1>3. ParserInv'
  BY <1>1, ParserStep DEF VendorInv
<1>4. TypeOK'
  BY <1>1 DEF TypeOK, VendorInv
<1>5. Consumed' = Consumed
  BY <1>2 DEF Consumed
<1> QED
  BY <1>1, <1>2, <1>3, <1>4, <1>5 DEF VendorInv, Known

LEMMA StutterStep ==
  ASSUME VendorInv, UNCHANGED vars
  PROVE  VendorInv'
<1>1. /\ UNCHANGED parserVars /\ outcome' = outcome /\ sources' = sources /\ config' = config
  BY DEF vars, vendorVars
<1>2. item' = item /\ yielded' = yielded
  BY <1>1 DEF parserVars
<1>3. ParserInv'
  BY <1>1, ParserStep DEF VendorInv
<1>4. TypeOK'
  BY <1>1 DEF TypeOK, VendorInv
<1>5. Consumed' = Consumed
  BY <1>2 DEF Consumed
<1> QED
  BY <1>1, <1>2, <1>3, <1>4, <1>5 DEF VendorInv, Known

LEMMA VendorStep ==
  ASSUME VendorInv, [Next]_vars
  PROVE  VendorInv'
<1>1. CASE Parse
  BY <1>1, ParseStep
<1>2. CASE SkipPath
  BY <1>2, SkipPathStep
<1>3. CASE VendorRegistry
  BY <1>3, VendorRegistryStep
<1>4. CASE VendorGit
  BY <1>4, VendorGitStep
<1>5. CASE FetchFails
  BY <1>5, EndStep DEF FetchFails
<1>6. CASE Panic
  BY <1>6, EndStep DEF Panic
<1>7. CASE ParseFails
  BY <1>7, EndStep DEF ParseFails
<1>8. CASE Return
  BY <1>8, EndStep DEF Return
<1>9. CASE Terminating
  BY <1>9, StutterStep DEF Terminating
<1>10. CASE UNCHANGED vars
  BY <1>10, StutterStep
<1> QED
  BY <1>1, <1>2, <1>3, <1>4, <1>5, <1>6, <1>7, <1>8, <1>9, <1>10 DEF Next

LEMMA VendorStart ==
  ASSUME Init
  PROVE  VendorInv
<1>1. ParserInit /\ sources = <<>> /\ config = <<>> /\ outcome = "running"
  BY DEF Init
<1>2. ParserInv
  BY <1>1, ParserStart
<1>3. yielded = <<>> /\ item = "pending"
  BY <1>1 DEF ParserInit
<1>4. Consumed = 0 /\ DOMAIN yielded = {} /\ DOMAIN sources = {} /\ DOMAIN config = {}
  BY <1>1, <1>3 DEF Consumed
<1>5. VendoredFrom(sources, yielded, Consumed)
  <2>1. [k \in {} |-> 0] \in [DOMAIN sources -> 1..Consumed]
    BY <1>4
  <2>2. 1..Consumed = {}
    BY <1>4
  <2> QED
    BY <1>4, <2>1, <2>2 DEF VendoredFrom
<1>6. TablesFrom(config, yielded, Consumed)
  <2>1. 1..Consumed = {}
    BY <1>4
  <2> QED
    BY <1>4, <2>1 DEF TablesFrom, ToSet
<1>7. TypeOK
  BY <1>1, <1>4 DEF TypeOK
<1> QED
  BY <1>1, <1>2, <1>3, <1>4, <1>5, <1>6, <1>7 DEF VendorInv

-------------------------------------------------------------------------------
(* What follows from the invariant.                                        *)

LEMMA ShorterInterval ==
  ASSUME NEW m \in Nat, NEW n \in Nat, m <= n
  PROVE  /\ 1..m \subseteq 1..n /\ 1..n \subseteq Nat
         /\ \A k \in 1..m : \A j \in 1..n : j < k => j \in 1..m
OBVIOUS

LEMMA ConsumedIs ==
  ASSUME VendorInv
  PROVE  /\ Consumed \in Nat /\ 1..Consumed \subseteq DOMAIN yielded
         /\ DOMAIN yielded \subseteq Nat
         /\ \A k \in 1..Consumed : \A j \in DOMAIN yielded : j < k => j \in 1..Consumed
         /\ outcome = "ok" => item = "end" /\ DOMAIN yielded = 1..Consumed
<1>1. yielded \in Seq(PackageEntry)
  BY DEF VendorInv, ParserInv, ParserTypeOK
<1>2. Len(yielded) \in Nat /\ DOMAIN yielded = 1..Len(yielded)
  BY <1>1
<1>3. item = "entry" => Len(yielded) # 0
  BY <1>1 DEF VendorInv, ParserInv, CursorInv
<1>4. PICK n \in Nat : n = Len(yielded)
  BY <1>2
<1>5. Consumed \in Nat /\ Consumed <= n
  BY <1>3, <1>4 DEF Consumed
<1>6. outcome = "ok" => item = "end" /\ Consumed = n
  BY <1>4 DEF VendorInv, Consumed
<1>7. DOMAIN yielded = 1..n
  BY <1>2, <1>4
<1>8. /\ 1..Consumed \subseteq 1..n /\ 1..n \subseteq Nat
      /\ \A k \in 1..Consumed : \A j \in 1..n : j < k => j \in 1..Consumed
  BY <1>5, ShorterInterval
<1> QED
  BY <1>5, <1>6, <1>7, <1>8

(* A source is pushed for every entry that has one, and those entries are  *)
(* the ones the file lists.                                                *)
LEMMA SourcesFollow ==
  ASSUME VendorInv
  PROVE  SourcesListed
<1> SUFFICES ASSUME InDocumentedOrder
             PROVE  \E at \in [DOMAIN sources -> HeadersToVendor] :
                      /\ InSequence(at, HeadersToVendor)
                      /\ \A k \in DOMAIN sources : sources[k] = SourceOf(EntryAt(at[k]))
                      /\ outcome = "ok" =>
                           \A h \in HeadersToVendor : \E k \in DOMAIN sources : at[k] = h
  BY DEF SourcesListed
<1>1. PICK y \in [DOMAIN yielded -> ListedHeaders] :
        /\ InSequence(y, ListedHeaders)
        /\ \A k \in DOMAIN yielded : yielded[k] = EntryAt(y[k])
        /\ item = "end" => \A h \in ListedHeaders : \E k \in DOMAIN yielded : y[k] = h
  BY YieldsFollow DEF VendorInv, YieldsListed
<1>2. PICK v \in [DOMAIN sources -> 1..Consumed] :
        /\ \A j, k \in DOMAIN sources : j < k => v[j] < v[k]
        /\ \A k \in DOMAIN sources : sources[k] = SourceOf(yielded[v[k]])
        /\ \A j \in 1..Consumed :
             yielded[j].source # "" <=> \E k \in DOMAIN sources : v[k] = j
  BY DEF VendorInv, VendoredFrom
<1>3. /\ 1..Consumed \subseteq DOMAIN yielded /\ DOMAIN yielded \subseteq Nat
      /\ \A k \in 1..Consumed : \A j \in DOMAIN yielded : j < k => j \in 1..Consumed
      /\ outcome = "ok" => item = "end" /\ DOMAIN yielded = 1..Consumed
  BY ConsumedIs
<1>4. /\ HeadersToVendor \subseteq ListedHeaders /\ ListedHeaders \subseteq Nat
      /\ \A h \in HeadersToVendor : EntryAt(h).source # ""
  BY LineNumbers DEF HeadersToVendor, ListedHeaders, VendorInv, ParserInv
<1>5. \A k \in DOMAIN sources : v[k] \in 1..Consumed /\ v[k] \in DOMAIN yielded
  BY <1>2, <1>3
<1>6. ASSUME NEW j \in 1..Consumed, NEW h \in HeadersToVendor, y[j] = h
      PROVE  \E i \in DOMAIN sources : v[i] = j
  <2>1. yielded[j] = EntryAt(h)
    BY <1>1, <1>3, <1>6
  <2> QED
    BY <1>2, <1>4, <2>1
<1> DEFINE at == [k \in DOMAIN sources |-> y[v[k]]]
<1>7. at \in [DOMAIN sources -> HeadersToVendor]
  <2>1. ASSUME NEW k \in DOMAIN sources
        PROVE  y[v[k]] \in HeadersToVendor
    <3>1. yielded[v[k]].source # "" /\ yielded[v[k]] = EntryAt(y[v[k]])
      BY <1>1, <1>2, <1>5
    <3> QED
      BY <1>1, <1>5, <3>1 DEF HeadersToVendor
  <2> QED
    BY <2>1
<1>8. \A j, k \in DOMAIN sources : j < k => at[j] < at[k]
  BY <1>1, <1>2, <1>5 DEF InSequence
<1>9. ASSUME NEW k \in DOMAIN sources, NEW h \in HeadersToVendor, h < at[k]
      PROVE  \E i \in DOMAIN sources : at[i] = h
  <2>1. PICK j \in DOMAIN yielded : y[j] = h
    BY <1>1, <1>4, <1>5, <1>9 DEF InSequence
  <2>2. j \in Nat /\ v[k] \in Nat /\ h \in Nat /\ y[v[k]] \in Nat /\ y[j] < y[v[k]]
    BY <1>1, <1>3, <1>4, <1>5, <1>9, <2>1
  <2>3. ~(v[k] < j) /\ v[k] # j
    <3>1. v[k] < j => y[v[k]] < y[j]
      BY <1>1, <1>5 DEF InSequence
    <3>2. PICK a \in Nat : a = y[v[k]]
      BY <2>2
    <3>3. ~(a < h) /\ a # h
      BY <2>1, <2>2, <3>2
    <3>4. ~(a < y[j]) /\ a # y[j]
      BY <2>1, <3>3
    <3> QED
      BY <3>1, <3>2, <3>4
  <2>4. j \in 1..Consumed
    <3>1. j < v[k]
      BY <2>2, <2>3
    <3> QED
      BY <1>3, <1>5, <3>1
  <2>5. PICK i \in DOMAIN sources : v[i] = j
    BY <1>6, <2>1, <2>4
  <2> QED
    BY <2>1, <2>5
<1>10. InSequence(at, HeadersToVendor)
  BY <1>8, <1>9 DEF InSequence
<1>11. \A k \in DOMAIN sources : sources[k] = SourceOf(EntryAt(at[k]))
  BY <1>1, <1>2, <1>5
<1>12. ASSUME outcome = "ok", NEW h \in HeadersToVendor
       PROVE  \E k \in DOMAIN sources : at[k] = h
  <2>1. PICK j \in DOMAIN yielded : y[j] = h
    BY <1>1, <1>3, <1>4, <1>12
  <2>2. PICK k \in DOMAIN sources : v[k] = j
    BY <1>3, <1>6, <1>12, <2>1
  <2> QED
    BY <2>1, <2>2
<1> QED
  BY <1>7, <1>10, <1>11, <1>12

LEMMA TablesFollow ==
  ASSUME VendorInv
  PROVE  TablesComplete
<1> SUFFICES ASSUME InDocumentedOrder, outcome = "ok"
             PROVE  ToSet(config) =
                      {TableOf(RawSources[e.source]) : e \in {e \in ToVendor : Kind(e.source) = "git"}}
  BY DEF TablesComplete
<1>1. item = "end" /\ DOMAIN yielded = 1..Consumed
  BY ConsumedIs
<1>2. PICK y \in [DOMAIN yielded -> ListedHeaders] :
        /\ \A k \in DOMAIN yielded : yielded[k] = EntryAt(y[k])
        /\ \A h \in ListedHeaders : \E k \in DOMAIN yielded : y[k] = h
  BY <1>1, YieldsFollow DEF VendorInv, YieldsListed
<1> DEFINE gits == {j \in 1..Consumed : IsVendoredGit(yielded[j])}
<1>3. ToSet(config) = {TableOf(RawSources[yielded[j].source]) : j \in gits}
  BY DEF VendorInv, TablesFrom
<1>4. ASSUME NEW j \in gits
      PROVE  yielded[j] \in {e \in ToVendor : Kind(e.source) = "git"}
  <2>1. yielded[j] = EntryAt(y[j]) /\ y[j] \in ListedHeaders /\ IsVendoredGit(yielded[j])
    BY <1>1, <1>2
  <2>2. y[j] \in HeadersToVendor
    BY <2>1 DEF HeadersToVendor, IsVendoredGit
  <2> QED
    BY <2>1, <2>2 DEF ToVendor, IsVendoredGit
<1>5. ASSUME NEW e \in ToVendor, Kind(e.source) = "git"
      PROVE  \E j \in gits : yielded[j] = e
  <2>1. PICK h \in HeadersToVendor : e = EntryAt(h)
    BY DEF ToVendor
  <2>2. h \in ListedHeaders /\ e.source # ""
    BY <2>1 DEF HeadersToVendor
  <2>3. PICK j \in DOMAIN yielded : y[j] = h
    BY <1>2, <2>2
  <2>4. yielded[j] = e
    BY <1>2, <2>1, <2>3
  <2>5. j \in gits
    BY <1>1, <1>5, <2>2, <2>4 DEF IsVendoredGit
  <2> QED
    BY <2>4, <2>5
<1> HIDE DEF gits
<1> DEFINE listed == {e \in ToVendor : Kind(e.source) = "git"}
<1>6. {yielded[j] : j \in gits} = listed
  BY <1>4, <1>5
<1>7. {TableOf(RawSources[yielded[j].source]) : j \in gits}
        = {TableOf(RawSources[e.source]) : e \in {yielded[j] : j \in gits}}
  OBVIOUS
<1> QED
  BY <1>3, <1>6, <1>7

LEMMA GetFollows ==
  ASSUME VendorInv
  PROVE  GetFinds
<1> SUFFICES ASSUME InDocumentedOrder, outcome = "ok", Sorted, NEW id \in Ids
             PROVE  Get(id) = {e \in ToVendor : SourceIdOf(e) = id}
  BY DEF GetFinds, Ids
<1>1. PICK at \in [DOMAIN sources -> HeadersToVendor] :
        /\ \A k \in DOMAIN sources : sources[k] = SourceOf(EntryAt(at[k]))
        /\ \A h \in HeadersToVendor : \E k \in DOMAIN sources : at[k] = h
  BY SourcesFollow DEF SourcesListed
<1>2. Get(id) = {sources[k].drv : k \in {k \in DOMAIN sources : sources[k].id = id}}
  BY GetOfSorted DEF VendorInv
<1>3. \A k \in DOMAIN sources :
        sources[k].drv = EntryAt(at[k]) /\ sources[k].id = SourceIdOf(EntryAt(at[k]))
  BY <1>1 DEF SourceOf
<1>4. ASSUME NEW e \in Get(id)
      PROVE  e \in ToVendor /\ SourceIdOf(e) = id
  <2>1. PICK k \in DOMAIN sources : sources[k].id = id /\ e = sources[k].drv
    BY <1>2
  <2>2. e = EntryAt(at[k]) /\ SourceIdOf(EntryAt(at[k])) = id /\ at[k] \in HeadersToVendor
    BY <1>1, <1>3, <2>1
  <2> QED
    BY <2>2 DEF ToVendor
<1>5. ASSUME NEW e \in ToVendor, SourceIdOf(e) = id
      PROVE  e \in Get(id)
  <2>1. PICK h \in HeadersToVendor : e = EntryAt(h)
    BY DEF ToVendor
  <2>2. PICK k \in DOMAIN sources : at[k] = h
    BY <1>1
  <2>3. sources[k].drv = e /\ sources[k].id = id
    BY <1>3, <1>5, <2>1, <2>2
  <2> QED
    BY <1>2, <2>3
<1> QED
  BY <1>4, <1>5

LEMMA VendorInvariant == Spec => []VendorInv
<1>1. Init => VendorInv
  BY VendorStart
<1>2. VendorInv /\ [Next]_vars => VendorInv'
  BY VendorStep
<1> QED
  BY <1>1, <1>2, PTL DEF Spec

(* Everything pushed has the id of a package of the lock file and a source *)
(* that was parsed, and every table is one of a source.                    *)
THEOREM TypeInvariant == Spec => []TypeOK
<1>1. VendorInv => TypeOK
  BY DEF VendorInv
<1> QED
  BY <1>1, VendorInvariant, PTL

(* The sources are the ones the lock file lists, in its order; when `new`  *)
(* returns, none is missing.                                               *)
THEOREM SourcesInvariant == Spec => []SourcesListed
<1>1. VendorInv => SourcesListed
  BY SourcesFollow
<1> QED
  BY <1>1, VendorInvariant, PTL

(* config.toml has the table of every git source, and no other.            *)
THEOREM TablesInvariant == Spec => []TablesComplete
<1>1. VendorInv => TablesComplete
  BY TablesFollow
<1> QED
  BY <1>1, VendorInvariant, PTL

(* If the sources are sorted by id, the binary search of `get` finds every *)
(* package that has a source, and nothing under any other id.              *)
THEOREM GetInvariant == Spec => []GetFinds
<1>1. VendorInv => GetFinds
  BY GetFollows
<1> QED
  BY <1>1, VendorInvariant, PTL

================================================================================
