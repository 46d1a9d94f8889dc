--------------------------- MODULE CompileUnitsProofs ---------------------------
(***************************************************************************)
(* Proofs about CompileUnits, for workspaces of any size.  They rest on    *)
(* CompileInv: the derivations made so far are the first ones in the order *)
(* of the graph, each is what its package says it is, and what has been    *)
(* built was built from them after its inputs.                             *)
(***************************************************************************)
EXTENDS CompileUnits, SequenceTheorems, FiniteSetTheorems, WellFoundedInduction, TLAPS

-------------------------------------------------------------------------------
(* Least elements, and functions defined step by step.                     *)

(* A set of natural numbers that is not empty has a least element.         *)
LEMMA LeastOf ==
  ASSUME NEW S \in SUBSET Nat, S # {}
  PROVE  \E x \in S : \A y \in S : x <= y
<1>1. PICK x \in S : \A y \in S : ~(<<y, x>> \in OpToRel(<, Nat))
  BY WFMin, NatLessThanWellFounded
<1>2. \A y \in S : ~(y < x)
  BY <1>1 DEF OpToRel
<1>3. \A y \in S : x <= y
  BY <1>2
<1> QED
  BY <1>3

-------------------------------------------------------------------------------
(* Kept.                                                                   *)

KeptStep(kept, seq, S, i) ==
  IF i = 0 THEN << >>
  ELSE IF seq[i] \in S THEN Append(kept[i - 1], seq[i]) ELSE kept[i - 1]

Keeps(kept, seq, S, n) == kept = [i \in 0..n |-> KeptStep(kept, seq, S, i)]

LEMMA KeptExtends ==
  ASSUME NEW n \in Nat, NEW seq, NEW S, NEW e, Keeps(e, seq, S, n)
  PROVE  \E f : Keeps(f, seq, S, n + 1)
<1> DEFINE f == [i \in 0..(n + 1) |-> IF i = n + 1 THEN KeptStep(e, seq, S, n + 1) ELSE e[i]]
<1>1. \A i \in 0..n : f[i] = e[i] /\ e[i] = KeptStep(e, seq, S, i)
  BY DEF Keeps
<1>2. ASSUME NEW i \in 0..(n + 1)
      PROVE  f[i] = KeptStep(f, seq, S, i)
  <2>1. i # 0 => e[i - 1] = f[i - 1]
    BY <1>1
  <2>2. f[i] = KeptStep(e, seq, S, i)
    <3>1. CASE i = n + 1
      BY <3>1
    <3>2. CASE i # n + 1
      <4>1. i \in 0..n
        BY <3>2
      <4> HIDE DEF f
      <4> QED
        BY <1>1, <4>1
    <3> QED
      BY <3>1, <3>2
  <2> HIDE DEF f
  <2> QED
    BY <2>1, <2>2 DEF KeptStep
<1>3. f = [i \in 0..(n + 1) |-> f[i]]
  OBVIOUS
<1> HIDE DEF f
<1>4. f = [i \in 0..(n + 1) |-> KeptStep(f, seq, S, i)]
  BY <1>2, <1>3
<1> QED
  BY <1>4 DEF Keeps

LEMMA KeptExists ==
  ASSUME NEW n \in Nat, NEW seq, NEW S
  PROVE  \E f : Keeps(f, seq, S, n)
<1> DEFINE Missing == {m \in Nat : ~\E f : Keeps(f, seq, S, m)}
<1>1. SUFFICES ASSUME Missing # {} PROVE FALSE
  OBVIOUS
<1>2. PICK m \in Missing : \A k \in Missing : m <= k
  BY <1>1, LeastOf
<1>3. m # 0
  <2>1. Keeps([i \in 0..0 |-> << >>], seq, S, 0)
    BY DEF Keeps, KeptStep
  <2> QED
    BY <1>2, <2>1
<1>4. m - 1 \in Nat /\ m - 1 \notin Missing /\ (m - 1) + 1 = m
  BY <1>2, <1>3
<1>5. PICK f : Keeps(f, seq, S, m - 1)
  BY <1>4
<1>6. \E g : Keeps(g, seq, S, m)
  BY <1>4, <1>5, KeptExtends
<1> QED
  BY <1>2, <1>6

LEMMA KeptIs ==
  ASSUME NEW seq, Len(seq) \in Nat, NEW S
  PROVE  \E kept : Keeps(kept, seq, S, Len(seq)) /\ Kept(seq, S) = kept[Len(seq)]
<1> DEFINE chosen == CHOOSE kept : Keeps(kept, seq, S, Len(seq))
<1>1. Kept(seq, S) = chosen[Len(seq)]
  BY DEF Kept, Keeps, KeptStep
<1>2. Keeps(chosen, seq, S, Len(seq))
  BY KeptExists
<1> QED
  BY <1>1, <1>2

LEMMA ToSetAppend ==
  ASSUME NEW T, NEW s \in Seq(T), NEW x \in T
  PROVE  Append(s, x) \in Seq(T) /\ ToSet(Append(s, x)) = ToSet(s) \cup {x}
<1> DEFINE t == Append(s, x)
<1>1. t \in Seq(T) /\ Len(t) = Len(s) + 1 /\ t[Len(s) + 1] = x /\ Len(s) \in Nat
      /\ \A i \in 1..Len(s) : t[i] = s[i]
  OBVIOUS
<1>2. DOMAIN t = 1..(Len(s) + 1) /\ DOMAIN s = 1..Len(s)
  BY <1>1
<1> HIDE DEF t
<1>3. ToSet(t) = ToSet(s) \cup {x}
  BY <1>1, <1>2 DEF ToSet
<1> QED
  BY <1>1, <1>3 DEF t

LEMMA KeptGrows ==
  ASSUME NEW T, NEW seq \in Seq(T), NEW S, NEW kept, Keeps(kept, seq, S, Len(seq)),
         NEW i \in 1..Len(seq), kept[i - 1] \in Seq(T),
         ToSet(kept[i - 1]) = {seq[j] : j \in 1..(i - 1)} \cap S
  PROVE  kept[i] \in Seq(T) /\ ToSet(kept[i]) = {seq[j] : j \in 1..i} \cap S
<1>1. i \in 0..Len(seq) /\ i # 0 /\ i - 1 \in Nat /\ 1..i = 1..(i - 1) \cup {i}
  OBVIOUS
<1>2. kept[i] = IF seq[i] \in S THEN Append(kept[i - 1], seq[i]) ELSE kept[i - 1]
  BY <1>1 DEF Keeps, KeptStep
<1>3. {seq[j] : j \in 1..i} = {seq[j] : j \in 1..(i - 1)} \cup {seq[i]}
  BY <1>1
<1>4. CASE seq[i] \in S
  <2>1. seq[i] \in T
    OBVIOUS
  <2>2. kept[i] \in Seq(T) /\ ToSet(kept[i]) = ToSet(kept[i - 1]) \cup {seq[i]}
    BY <1>2, <1>4, <2>1, ToSetAppend
  <2> QED
    BY <1>3, <1>4, <2>2
<1>5. CASE seq[i] \notin S
  BY <1>2, <1>3, <1>5
<1> QED
  BY <1>4, <1>5

(* What is kept of a sequence are its elements in the set.                 *)
LEMMA KeptElements ==
  ASSUME NEW T, NEW seq \in Seq(T), NEW S
  PROVE  Kept(seq, S) \in Seq(T) /\ ToSet(Kept(seq, S)) = ToSet(seq) \cap S
<1>1. PICK kept : Keeps(kept, seq, S, Len(seq)) /\ Kept(seq, S) = kept[Len(seq)]
  BY KeptIs
<1> DEFINE Good(i) == kept[i] \in Seq(T) /\ ToSet(kept[i]) = {seq[j] : j \in 1..i} \cap S
           Bad == {i \in 0..Len(seq) : ~Good(i)}
<1>2. Bad = {}
  <2>1. SUFFICES ASSUME Bad # {} PROVE FALSE
    OBVIOUS
  <2>2. PICK i \in Bad : \A j \in Bad : i <= j
    <3>1. Bad \subseteq Nat
      OBVIOUS
    <3> QED
      BY <2>1, <3>1, LeastOf
  <2>3. i # 0
    <3>1. SUFFICES ASSUME i = 0 PROVE Good(0)
      BY <2>2
    <3>2. kept[0] = << >>
      BY <1>1 DEF Keeps, KeptStep
    <3> QED
      BY <3>2 DEF ToSet
  <2>4. i \in 1..Len(seq) /\ i - 1 \in 0..Len(seq) /\ ~(i <= i - 1)
    BY <2>2, <2>3
  <2>5. Good(i - 1)
    BY <2>2, <2>4
  <2>6. Good(i)
    BY <1>1, <2>4, <2>5, KeptGrows
  <2> QED
    BY <2>2, <2>6
<1>3. Good(Len(seq))
  <2>1. Len(seq) \in 0..Len(seq)
    OBVIOUS
  <2> HIDE DEF Good
  <2> QED
    BY <1>2, <2>1
<1>4. {seq[j] : j \in 1..Len(seq)} = ToSet(seq)
  BY DEF ToSet
<1> QED
  BY <1>1, <1>3, <1>4

-------------------------------------------------------------------------------
(* FlattenSeq.                                                             *)

FlatStep(flat, seqs, i) == IF i = 1 THEN seqs[i] ELSE flat[i - 1] \o seqs[i]

Flattens(flat, seqs, n) == flat = [i \in 1..n |-> FlatStep(flat, seqs, i)]

LEMMA FlatExtends ==
  ASSUME NEW n \in Nat, NEW seqs, NEW e, Flattens(e, seqs, n)
  PROVE  \E f : Flattens(f, seqs, n + 1)
<1> DEFINE f == [i \in 1..(n + 1) |-> IF i = n + 1 THEN FlatStep(e, seqs, n + 1) ELSE e[i]]
<1>1. \A i \in 1..n : f[i] = e[i] /\ e[i] = FlatStep(e, seqs, i)
  BY DEF Flattens
<1>2. ASSUME NEW i \in 1..(n + 1)
      PROVE  f[i] = FlatStep(f, seqs, i)
  <2>1. i # 1 => e[i - 1] = f[i - 1]
    BY <1>1
  <2>2. f[i] = FlatStep(e, seqs, i)
    <3>1. CASE i = n + 1
      BY <3>1
    <3>2. CASE i # n + 1
      <4>1. i \in 1..n
        BY <3>2
      <4> HIDE DEF f
      <4> QED
        BY <1>1, <4>1
    <3> QED
      BY <3>1, <3>2
  <2> HIDE DEF f
  <2> QED
    BY <2>1, <2>2 DEF FlatStep
<1>3. f = [i \in 1..(n + 1) |-> f[i]]
  OBVIOUS
<1> HIDE DEF f
<1>4. f = [i \in 1..(n + 1) |-> FlatStep(f, seqs, i)]
  BY <1>2, <1>3
<1> QED
  BY <1>4 DEF Flattens

LEMMA FlatExists ==
  ASSUME NEW n \in Nat, NEW seqs
  PROVE  \E f : Flattens(f, seqs, n)
<1> DEFINE Missing == {m \in Nat : ~\E f : Flattens(f, seqs, m)}
<1>1. SUFFICES ASSUME Missing # {} PROVE FALSE
  OBVIOUS
<1>2. PICK m \in Missing : \A k \in Missing : m <= k
  BY <1>1, LeastOf
<1>3. m # 0
  <2>1. Flattens([i \in 1..0 |-> << >>], seqs, 0)
    BY DEF Flattens
  <2> QED
    BY <1>2, <2>1
<1>4. m - 1 \in Nat /\ m - 1 \notin Missing /\ (m - 1) + 1 = m
  BY <1>2, <1>3
<1>5. PICK f : Flattens(f, seqs, m - 1)
  BY <1>4
<1>6. \E g : Flattens(g, seqs, m)
  BY <1>4, <1>5, FlatExtends
<1> QED
  BY <1>2, <1>6

LEMMA FlatIs ==
  ASSUME NEW seqs, Len(seqs) \in Nat \ {0}
  PROVE  \E flat : Flattens(flat, seqs, Len(seqs)) /\ FlattenSeq(seqs) = flat[Len(seqs)]
<1> DEFINE chosen == CHOOSE flat : Flattens(flat, seqs, Len(seqs))
<1>1. FlattenSeq(seqs) = chosen[Len(seqs)]
  BY DEF FlattenSeq, Flattens, FlatStep
<1>2. Flattens(chosen, seqs, Len(seqs))
  BY FlatExists
<1> QED
  BY <1>1, <1>2

-------------------------------------------------------------------------------
(* The order of the derivations.                                           *)

Types == {"deps", "build", "lib", "bin"}

Drvs == [type : Types, node : Nat]

Position(type) ==
  IF type = "deps" THEN 1 ELSE IF type = "build" THEN 2 ELSE IF type = "lib" THEN 3 ELSE 4

Before(d, e) ==
  d.node < e.node \/ (d.node = e.node /\ Position(d.type) < Position(e.type))

Increasing(s) == \A i, j \in 1..Len(s) : i < j => Before(s[i], s[j])

AllBefore(s, t) == \A d \in ToSet(s), e \in ToSet(t) : Before(d, e)

LEMMA BeforeOrder ==
  ASSUME NEW d \in Drvs, NEW e \in Drvs
  PROVE  ~(Before(d, e) /\ Before(e, d)) /\ (d # e => Before(d, e) \/ Before(e, d))
<1>1. d.node \in Nat /\ e.node \in Nat /\ d.type \in Types /\ e.type \in Types
  BY DEF Drvs
<1>2. d # e => d.node # e.node \/ d.type # e.type
  BY DEF Drvs
<1>3. d.type # e.type => Position(d.type) # Position(e.type)
  BY <1>1 DEF Types, Position
<1>4. Position(d.type) \in Nat /\ Position(e.type) \in Nat
  BY DEF Position
<1> QED
  BY <1>1, <1>2, <1>3, <1>4 DEF Before

LEMMA Joined ==
  ASSUME NEW s \in Seq(Drvs), NEW t \in Seq(Drvs), Increasing(s), Increasing(t), AllBefore(s, t)
  PROVE  s \o t \in Seq(Drvs) /\ Increasing(s \o t) /\ ToSet(s \o t) = ToSet(s) \cup ToSet(t)
<1> DEFINE u == s \o t
<1>1. /\ u \in Seq(Drvs) /\ Len(u) = Len(s) + Len(t) /\ Len(s) \in Nat /\ Len(t) \in Nat
      /\ \A i \in 1..Len(s) : u[i] = s[i]
      /\ \A i \in 1..Len(t) : u[Len(s) + i] = t[i]
  OBVIOUS
<1>2. DOMAIN u = 1..(Len(s) + Len(t)) /\ DOMAIN s = 1..Len(s) /\ DOMAIN t = 1..Len(t)
  BY <1>1
<1> HIDE DEF u
<1>3. \A i \in 1..Len(u) : i \in 1..Len(s) \/ (i - Len(s) \in 1..Len(t) /\ u[i] = t[i - Len(s)])
  <2> SUFFICES ASSUME NEW i \in 1..Len(u), i \notin 1..Len(s)
               PROVE  i - Len(s) \in 1..Len(t) /\ u[i] = t[i - Len(s)]
    OBVIOUS
  <2>1. i - Len(s) \in 1..Len(t) /\ Len(s) + (i - Len(s)) = i
    BY <1>1
  <2> QED
    BY <1>1, <2>1
<1>4. ToSet(u) = ToSet(s) \cup ToSet(t)
  <2>1. ToSet(u) \subseteq ToSet(s) \cup ToSet(t)
    BY <1>1, <1>2, <1>3 DEF ToSet
  <2>2. ToSet(s) \subseteq ToSet(u)
    BY <1>1, <1>2 DEF ToSet
  <2>3. \A i \in 1..Len(t) : Len(s) + i \in 1..(Len(s) + Len(t))
    BY <1>1
  <2>4. ToSet(t) \subseteq ToSet(u)
    BY <1>1, <1>2, <2>3 DEF ToSet
  <2> QED
    BY <2>1, <2>2, <2>4
<1>5. ASSUME NEW i \in 1..Len(u), NEW j \in 1..Len(u), i < j
      PROVE  Before(u[i], u[j])
  <2>1. CASE i \in 1..Len(s) /\ j \in 1..Len(s)
    BY <1>1, <1>5, <2>1 DEF Increasing
  <2>2. CASE i \in 1..Len(s) /\ j \notin 1..Len(s)
    <3>1. u[i] \in ToSet(s) /\ u[j] \in ToSet(t)
      BY <1>1, <1>2, <1>3, <2>2 DEF ToSet
    <3> QED
      BY <3>1 DEF AllBefore
  <2>3. CASE i \notin 1..Len(s)
    <3>1. j \notin 1..Len(s)
      BY <1>1, <1>5, <2>3
    <3>2. i - Len(s) \in 1..Len(t) /\ j - Len(s) \in 1..Len(t) /\ i - Len(s) < j - Len(s)
      BY <1>1, <1>3, <1>5, <2>3, <3>1
    <3> QED
      BY <1>3, <2>3, <3>1, <3>2 DEF Increasing
  <2> QED
    BY <2>1, <2>2, <2>3
<1> QED
  BY <1>1, <1>4, <1>5 DEF Increasing, u

(* The derivations that a node has.                                        *)
TypesOf(k) ==
  {"deps"} \cup (IF graph[k].build_script = None THEN {} ELSE {"build"})
           \cup (IF graph[k].library = None THEN {} ELSE {"lib"})
           \cup (IF graph[k].binaries = << >> THEN {} ELSE {"bin"})

LEMMA OneOrNone ==
  ASSUME NEW k \in Nat, NEW type \in Types, NEW s, s = << >> \/ s = << Item(type, k) >>
  PROVE  /\ s \in Seq(Drvs) /\ Increasing(s)
         /\ ToSet(s) = IF s = << >> THEN {} ELSE {Item(type, k)}
<1> DEFINE d == Item(type, k)
<1>1. d \in Drvs
  BY DEF Item, Drvs
<1> HIDE DEF d
<1>2. CASE s = << >>
  BY <1>2 DEF Increasing, ToSet
<1>3. CASE s = << d >>
  <2>1. s \in Seq(Drvs) /\ Len(s) = 1 /\ s[1] = d /\ DOMAIN s = {1} /\ s # << >>
    BY <1>1, <1>3
  <2> QED
    BY <2>1 DEF Increasing, ToSet, d
<1> QED
  BY <1>2, <1>3 DEF d

LEMMA DrvsOfNode ==
  ASSUME NEW k \in Nat
  PROVE  /\ DrvsOf(k) \in Seq(Drvs) /\ Increasing(DrvsOf(k))
         /\ ToSet(DrvsOf(k)) = {Item(type, k) : type \in TypesOf(k)}
<1> DEFINE s == << Item("deps", k) >>
           b == IF graph[k].build_script = None THEN << >> ELSE << Item("build", k) >>
           l == IF graph[k].library = None THEN << >> ELSE << Item("lib", k) >>
           n == IF graph[k].binaries = << >> THEN << >> ELSE << Item("bin", k) >>
<1>1. /\ s \in Seq(Drvs) /\ Increasing(s) /\ ToSet(s) = {Item("deps", k)}
  BY OneOrNone DEF Types
<1>2. /\ b \in Seq(Drvs) /\ Increasing(b)
      /\ ToSet(b) = IF graph[k].build_script = None THEN {} ELSE {Item("build", k)}
  BY OneOrNone DEF Types
<1>3. /\ l \in Seq(Drvs) /\ Increasing(l)
      /\ ToSet(l) = IF graph[k].library = None THEN {} ELSE {Item("lib", k)}
  BY OneOrNone DEF Types
<1>4. /\ n \in Seq(Drvs) /\ Increasing(n)
      /\ ToSet(n) = IF graph[k].binaries = << >> THEN {} ELSE {Item("bin", k)}
  BY OneOrNone DEF Types
<1>5. DrvsOf(k) = ((s \o b) \o l) \o n
  BY DEF DrvsOf
<1>6. /\ Before(Item("deps", k), Item("build", k)) /\ Before(Item("deps", k), Item("lib", k))
      /\ Before(Item("deps", k), Item("bin", k)) /\ Before(Item("build", k), Item("lib", k))
      /\ Before(Item("build", k), Item("bin", k)) /\ Before(Item("lib", k), Item("bin", k))
  BY DEF Before, Item, Position
<1> HIDE DEF s, b, l, n
<1>7. /\ s \o b \in Seq(Drvs) /\ Increasing(s \o b) /\ ToSet(s \o b) = ToSet(s) \cup ToSet(b)
  <2>1. AllBefore(s, b)
    BY <1>1, <1>2, <1>6 DEF AllBefore
  <2> QED
    BY <1>1, <1>2, <2>1, Joined
<1> DEFINE sb == s \o b
<1> HIDE DEF sb
<1>8. /\ sb \o l \in Seq(Drvs) /\ Increasing(sb \o l) /\ ToSet(sb \o l) = ToSet(sb) \cup ToSet(l)
  <2>1. AllBefore(sb, l)
    BY <1>1, <1>2, <1>3, <1>6, <1>7 DEF AllBefore, sb
  <2> QED
    BY <1>3, <1>7, <2>1, Joined DEF sb
<1> DEFINE sbl == sb \o l
<1> HIDE DEF sbl
<1>9. /\ sbl \o n \in Seq(Drvs) /\ Increasing(sbl \o n)
      /\ ToSet(sbl \o n) = ToSet(sbl) \cup ToSet(n)
  <2>1. AllBefore(sbl, n)
    BY <1>1, <1>2, <1>3, <1>4, <1>6, <1>7, <1>8 DEF AllBefore, sbl, sb
  <2> QED
    BY <1>4, <1>8, <2>1, Joined DEF sbl
<1>10. DrvsOf(k) = sbl \o n
  BY <1>5 DEF sbl, sb
<1>11. ToSet(sbl \o n) = ToSet(s) \cup ToSet(b) \cup ToSet(l) \cup ToSet(n)
  BY <1>7, <1>8, <1>9 DEF sbl, sb
<1>12. {Item(type, k) : type \in TypesOf(k)} = ToSet(s) \cup ToSet(b) \cup ToSet(l) \cup ToSet(n)
  BY <1>1, <1>2, <1>3, <1>4 DEF TypesOf
<1> QED
  BY <1>9, <1>10, <1>11, <1>12

(* The derivations of the nodes up to the i-th.                            *)
DrvsUpTo(i) == {d \in Drvs : d.node \in 1..i /\ d.type \in TypesOf(d.node)}

LEMMA ItemsOf ==
  ASSUME NEW k \in Nat
  PROVE  {Item(type, k) : type \in TypesOf(k)} = {d \in Drvs : d.node = k /\ d.type \in TypesOf(k)}
<1>1. TypesOf(k) \subseteq Types
  BY DEF TypesOf, Types
<1>2. \A d \in Drvs : d.node = k => d = Item(d.type, k)
  BY DEF Drvs, Item
<1>3. \A type \in Types : Item(type, k) \in Drvs /\ Item(type, k).node = k /\ Item(type, k).type = type
  BY DEF Drvs, Item
<1> HIDE DEF TypesOf
<1> QED
  BY <1>1, <1>2, <1>3

LEMMA FlatGrows ==
  ASSUME NEW n \in Nat, NEW flat, NEW seqs, \A k \in 1..n : seqs[k] = DrvsOf(k),
         Flattens(flat, seqs, n), NEW i \in 1..n,
         i > 1 => /\ flat[i - 1] \in Seq(Drvs) /\ Increasing(flat[i - 1])
                  /\ ToSet(flat[i - 1]) = DrvsUpTo(i - 1)
  PROVE  flat[i] \in Seq(Drvs) /\ Increasing(flat[i]) /\ ToSet(flat[i]) = DrvsUpTo(i)
<1>1. /\ DrvsOf(i) \in Seq(Drvs) /\ Increasing(DrvsOf(i))
      /\ ToSet(DrvsOf(i)) = {d \in Drvs : d.node = i /\ d.type \in TypesOf(i)}
  <2>1. i \in Nat
    OBVIOUS
  <2>2. /\ DrvsOf(i) \in Seq(Drvs) /\ Increasing(DrvsOf(i))
        /\ ToSet(DrvsOf(i)) = {Item(type, i) : type \in TypesOf(i)}
    BY ONLY <2>1, DrvsOfNode
  <2>3. {Item(type, i) : type \in TypesOf(i)} = {d \in Drvs : d.node = i /\ d.type \in TypesOf(i)}
    BY ONLY <2>1, ItemsOf
  <2> QED
    BY <2>2, <2>3
<1>2. flat[i] = IF i = 1 THEN DrvsOf(i) ELSE flat[i - 1] \o DrvsOf(i)
  BY DEF Flattens, FlatStep
<1>3. CASE i = 1
  <2>1. 1..i = {i}
    BY <1>3
  <2>2. DrvsUpTo(i) = {d \in Drvs : d.node = i /\ d.type \in TypesOf(i)}
    BY <2>1 DEF DrvsUpTo
  <2> QED
    BY <1>1, <1>2, <1>3, <2>2
<1>4. CASE i > 1
  <2>1. 1..i = 1..(i - 1) \cup {i}
    OBVIOUS
  <2>2. AllBefore(flat[i - 1], DrvsOf(i))
    <3>1. \A d \in DrvsUpTo(i - 1) : d.node < i
      BY DEF DrvsUpTo
    <3> QED
      BY <1>1, <1>4, <3>1 DEF AllBefore, Before
  <2>3. /\ flat[i] \in Seq(Drvs) /\ Increasing(flat[i])
        /\ ToSet(flat[i]) = ToSet(flat[i - 1]) \cup ToSet(DrvsOf(i))
    BY <1>1, <1>2, <1>4, <2>2, Joined
  <2>4. DrvsUpTo(i) = DrvsUpTo(i - 1) \cup {d \in Drvs : d.node = i /\ d.type \in TypesOf(i)}
    BY <2>1 DEF DrvsUpTo
  <2> QED
    BY <1>1, <1>4, <2>3, <2>4
<1> QED
  BY <1>3, <1>4

(* Every derivation has one place in the order.                            *)
LEMMA AllDrvsOrdered ==
  ASSUME Len(graph) \in Nat \ {0}, DOMAIN graph = 1..Len(graph)
  PROVE  AllDrvs \in Seq(Drvs) /\ Increasing(AllDrvs) /\ ToSet(AllDrvs) = DrvsUpTo(Len(graph))
<1> DEFINE n == Len(graph)
           seqs == [k \in 1..n |-> DrvsOf(k)]
<1>1. n \in Nat /\ n > 0
  OBVIOUS
<1>2. AllDrvs = FlattenSeq(seqs)
  BY DEF AllDrvs
<1> HIDE DEF n
<1>3. Len(seqs) = n /\ \A k \in 1..n : seqs[k] = DrvsOf(k)
  BY <1>1
<1> HIDE DEF seqs
<1>4. PICK flat : Flattens(flat, seqs, n) /\ FlattenSeq(seqs) = flat[n]
  BY <1>1, <1>3, FlatIs
<1> DEFINE Good(i) == flat[i] \in Seq(Drvs) /\ Increasing(flat[i]) /\ ToSet(flat[i]) = DrvsUpTo(i)
           Bad == {i \in 1..n : ~Good(i)}
<1>5. Bad = {}
  <2>1. SUFFICES ASSUME Bad # {} PROVE FALSE
    OBVIOUS
  <2>2. PICK i \in Bad : \A j \in Bad : i <= j
    <3>1. Bad \subseteq Nat
      OBVIOUS
    <3> QED
      BY <2>1, <3>1, LeastOf
  <2>3. i \in 1..n /\ ~Good(i)
    BY <2>2
  <2>4. i > 1 => i - 1 \in 1..n /\ ~(i <= i - 1)
    BY <1>1, <2>3
  <2>5. i > 1 => Good(i - 1)
    BY <2>2, <2>4
  <2>6. Good(i)
    BY <1>1, <1>3, <1>4, <2>3, <2>5, FlatGrows
  <2> QED
    BY <2>3, <2>6
<1>6. n \in 1..n
  BY <1>1
<1>7. Good(n)
  <2> HIDE DEF Good
  <2> QED
    BY <1>5, <1>6
<1> QED
  BY <1>2, <1>4, <1>7 DEF n

-------------------------------------------------------------------------------
(* The inputs of a derivation.                                             *)

Items == [type : Types \cup {"native"}, node : Nat]

NativeItems == [type : {"native"}, node : Nat]

LEMMA ToSetConcat ==
  ASSUME NEW T, NEW s \in Seq(T), NEW t \in Seq(T)
  PROVE  s \o t \in Seq(T) /\ ToSet(s \o t) = ToSet(s) \cup ToSet(t)
<1> DEFINE u == s \o t
<1>1. /\ u \in Seq(T) /\ Len(u) = Len(s) + Len(t) /\ Len(s) \in Nat /\ Len(t) \in Nat
      /\ \A i \in 1..Len(s) : u[i] = s[i]
      /\ \A i \in 1..Len(t) : u[Len(s) + i] = t[i]
  OBVIOUS
<1>2. DOMAIN u = 1..(Len(s) + Len(t)) /\ DOMAIN s = 1..Len(s) /\ DOMAIN t = 1..Len(t)
  BY <1>1
<1> HIDE DEF u
<1>3. \A i \in 1..Len(u) : i \in 1..Len(s) \/ (i - Len(s) \in 1..Len(t) /\ u[i] = t[i - Len(s)])
  <2> SUFFICES ASSUME NEW i \in 1..Len(u), i \notin 1..Len(s)
               PROVE  i - Len(s) \in 1..Len(t) /\ u[i] = t[i - Len(s)]
    OBVIOUS
  <2>1. i - Len(s) \in 1..Len(t) /\ Len(s) + (i - Len(s)) = i
    BY <1>1
  <2> QED
    BY <1>1, <2>1
<1>4. ToSet(u) \subseteq ToSet(s) \cup ToSet(t)
  BY <1>1, <1>2, <1>3 DEF ToSet
<1>5. ToSet(s) \subseteq ToSet(u)
  BY <1>1, <1>2 DEF ToSet
<1>6. \A i \in 1..Len(t) : Len(s) + i \in 1..(Len(s) + Len(t))
  BY <1>1
<1>7. ToSet(t) \subseteq ToSet(u)
  BY <1>1, <1>2, <1>6 DEF ToSet
<1> QED
  BY <1>1, <1>4, <1>5, <1>7 DEF u

LEMMA ToSetMap ==
  ASSUME NEW T, NEW s \in Seq(T), NEW U, NEW t, t \in [DOMAIN s -> U]
  PROVE  t \in Seq(U) /\ Len(t) = Len(s) /\ ToSet(t) = {t[i] : i \in 1..Len(s)}
<1>1. DOMAIN s = 1..Len(s) /\ Len(s) \in Nat
  OBVIOUS
<1>2. t \in Seq(U) /\ Len(t) = Len(s)
  BY <1>1
<1> QED
  BY <1>1, <1>2 DEF ToSet

Given == ws \in Workspaces

LEMMA PackagesGiven ==
  ASSUME Given
  PROVE  Size \in Nat \ {0}
BY WorkspacesAssumption DEF Given, Size

(* The dependencies of a kind, and what they are made into.                *)
LEMMA DepsGiven ==
  ASSUME Given, NEW k \in 1..Size, NEW kind
  PROVE  /\ DepsOfKind(ws, k, kind) \in Seq(ToSet(ws.deps[k]))
         /\ ToSet(DepsOfKind(ws, k, kind)) = {d \in ToSet(ws.deps[k]) : d.kind = kind}
         /\ \A d \in ToSet(DepsOfKind(ws, k, kind)) :
              kind # "development" =>
                /\ d.to \in 1..(k - 1) /\ LibraryCrate(ws, d.to) # None
                /\ ws.packages[d.to].version \in d.version_req
<1> DEFINE T == ToSet(ws.deps[k])
           S == {d \in T : d.kind = kind}
<1>1. /\ ws.deps[k] \in Seq(T)
      /\ \A d \in T : d.kind # "development" =>
           /\ d.to \in 1..(k - 1) /\ LibraryCrate(ws, d.to) # None
           /\ ws.packages[d.to].version \in d.version_req
  BY WorkspacesAssumption DEF Given, Size
<1>2. DepsOfKind(ws, k, kind) = Kept(ws.deps[k], S)
  BY DEF DepsOfKind
<1> HIDE DEF S
<1>3. Kept(ws.deps[k], S) \in Seq(T) /\ ToSet(Kept(ws.deps[k], S)) = T \cap S
  <2> DEFINE seq == ws.deps[k]
  <2> HIDE DEF seq
  <2>1. seq \in Seq(T) /\ ToSet(seq) = T
    BY <1>1 DEF seq
  <2> HIDE DEF T
  <2>2. Kept(seq, S) \in Seq(T) /\ ToSet(Kept(seq, S)) = ToSet(seq) \cap S
    BY <2>1, KeptElements
  <2> QED
    BY <2>1, <2>2 DEF seq
<1>4. T \cap S = {d \in T : d.kind = kind}
  BY DEF S
<1> QED
  BY <1>1, <1>2, <1>3, <1>4

LEMMA DirectGiven ==
  ASSUME Given, NEW k \in 1..Size, NEW kind \in {"normal", "build"}
  PROVE  /\ DirectDeps(k, kind) \in Seq(1..(k - 1))
         /\ Len(DirectDeps(k, kind)) = Len(DepsOfKind(ws, k, kind))
         /\ \A i \in 1..Len(DepsOfKind(ws, k, kind)) :
              DirectDeps(k, kind)[i] = DepsOfKind(ws, k, kind)[i].to
         /\ \A j \in ToSet(DirectDeps(k, kind)) : LibraryCrate(ws, j) # None
         /\ ToSet(DirectDeps(k, kind)) = {d.to : d \in {x \in ToSet(ws.deps[k]) : x.kind = kind}}
<1> DEFINE deps == DepsOfKind(ws, k, kind)
           direct == [i \in DOMAIN deps |-> deps[i].to]
           T == ToSet(ws.deps[k])
           K == {x \in T : x.kind = kind}
<1>1. /\ deps \in Seq(T)
      /\ ToSet(deps) = K
      /\ \A d \in ToSet(deps) : d.to \in 1..(k - 1) /\ LibraryCrate(ws, d.to) # None
  BY DepsGiven
<1>2. DirectDeps(k, kind) = direct
  BY DEF DirectDeps
<1> HIDE DEF deps, T, K
<1>3. DOMAIN deps = 1..Len(deps) /\ Len(deps) \in Nat
  BY <1>1
<1>4. \A i \in 1..Len(deps) : deps[i] \in ToSet(deps)
  BY <1>3 DEF ToSet
<1>5. direct \in [DOMAIN deps -> 1..(k - 1)] /\ \A i \in 1..Len(deps) : direct[i] = deps[i].to
  BY <1>1, <1>3, <1>4
<1> HIDE DEF direct
<1>6. direct \in Seq(1..(k - 1)) /\ Len(direct) = Len(deps)
      /\ ToSet(direct) = {direct[i] : i \in 1..Len(deps)}
  <2> DEFINE U == 1..(k - 1)
  <2>1. direct \in [DOMAIN deps -> U]
    BY <1>5
  <2> HIDE DEF U
  <2>2. direct \in Seq(U) /\ Len(direct) = Len(deps)
        /\ ToSet(direct) = {direct[i] : i \in 1..Len(deps)}
    BY <1>1, <2>1, ToSetMap
  <2> QED
    BY <2>2 DEF U
<1>7. ToSet(direct) = {d.to : d \in ToSet(deps)}
  BY <1>3, <1>5, <1>6 DEF ToSet
<1>8. \A j \in ToSet(direct) : LibraryCrate(ws, j) # None
  BY <1>1, <1>7
<1>9. ToSet(direct) = {d.to : d \in K}
  BY <1>1, <1>7
<1> QED
  BY <1>2, <1>5, <1>6, <1>8, <1>9 DEF deps, T, K

LEMMA LibraryDrvsOf ==
  ASSUME NEW n \in Nat, NEW s \in Seq(1..n)
  PROVE  /\ LibraryDrvs(s) \in Seq(Items)
         /\ ToSet(LibraryDrvs(s)) = {Item("lib", j) : j \in ToSet(s)}
<1> DEFINE t == LibraryDrvs(s)
           U == 1..n
<1>1. DOMAIN s = 1..Len(s) /\ \A i \in 1..Len(s) : s[i] \in Nat
  OBVIOUS
<1>2. DOMAIN t = DOMAIN s /\ t = [i \in DOMAIN s |-> t[i]]
      /\ \A i \in 1..Len(s) : t[i] = Item("lib", s[i])
  BY <1>1 DEF LibraryDrvs
<1>3. \A i \in 1..Len(s) : Item("lib", s[i]) \in Items
  BY <1>1 DEF Items, Item, Types
<1>4. s \in Seq(U)
  OBVIOUS
<1> HIDE DEF t, U
<1>5. t \in [DOMAIN s -> Items]
  BY <1>1, <1>2, <1>3
<1>6. t \in Seq(Items) /\ Len(t) = Len(s) /\ ToSet(t) = {t[i] : i \in 1..Len(s)}
  BY <1>4, <1>5, ToSetMap
<1>7. ToSet(t) = {Item("lib", j) : j \in ToSet(s)}
  BY <1>1, <1>2, <1>6 DEF ToSet
<1> QED
  BY <1>6, <1>7 DEF t

-------------------------------------------------------------------------------
(* What the overrides add.                                                 *)

LEMMA InputsOfMerge ==
  ASSUME NEW left, NEW right, NEW name
  PROVE  InputsIn(merge(left, right), name)
           = IF name \in DOMAIN right THEN right[name] ELSE InputsIn(left, name)
BY DEF InputsIn, merge

LEMMA NativeInputsGiven ==
  ASSUME NEW attrs,
         "buildInputs" \in DOMAIN attrs => attrs.buildInputs \in Seq(NativeItems)
  PROVE  /\ InputsIn(attrs, "buildInputs") \in Seq(NativeItems)
         /\ NativeInputs(attrs) = ToSet(InputsIn(attrs, "buildInputs"))
<1> DEFINE s == InputsIn(attrs, "buildInputs")
<1>1. s \in Seq(NativeItems)
  BY DEF InputsIn
<1> HIDE DEF s
<1>2. \A x \in ToSet(s) : x.type = "native"
  <2>1. \A i \in DOMAIN s : s[i] \in NativeItems
    BY <1>1
  <2> QED
    BY <2>1 DEF ToSet, NativeItems
<1> QED
  BY <1>1, <1>2 DEF NativeInputs, IsNative, s

(* The native libraries given to a package are those that its overrides    *)
(* leave in their result.                                                  *)
LEMMA OverrideInputs ==
  ASSUME Given, NEW k
  PROVE  /\ InputsIn(apply_overrides(k), "buildInputs") \in Seq(NativeItems)
         /\ ToSet(InputsIn(apply_overrides(k), "buildInputs")) = GivenTo(k)
<1> DEFINE b == "buildInputs"
           global == OrNone(ws.global_overrides)
           own == OverrideOf(k).attrs
           version == [version |-> << Item("unit", k) >>]
<1>1. b \in DOMAIN global => global.buildInputs \in Seq(NativeItems)
  BY WorkspacesAssumption DEF Given, OrNone, NoAttributes, NativeItems
<1>2. HasOverride(k) => (b \in DOMAIN own => own.buildInputs \in Seq(NativeItems))
  BY WorkspacesAssumption DEF Given, HasOverride, OverrideOf, NativeItems
<1>3. InputsIn(merge(global, version), b) = InputsIn(global, b)
  <2>1. b \notin DOMAIN version
    OBVIOUS
  <2> HIDE DEF global, version
  <2> QED
    BY <2>1, InputsOfMerge
<1>4. apply_overrides(k) = IF ~HasOverride(k) THEN global
                           ELSE IF OverrideOf(k).extends
                                THEN merge(merge(global, version), own) ELSE own
  BY DEF apply_overrides
<1>5. GivenTo(k) = IF ~HasOverride(k) THEN NativeInputs(global)
                   ELSE IF b \notin DOMAIN own /\ OverrideOf(k).extends THEN NativeInputs(global)
                   ELSE NativeInputs(own)
  BY DEF GivenTo
<1>6. /\ InputsIn(global, b) \in Seq(NativeItems)
      /\ NativeInputs(global) = ToSet(InputsIn(global, b))
  <2> HIDE DEF global
  <2> QED
    BY <1>1, NativeInputsGiven
<1>7. HasOverride(k) => /\ InputsIn(own, b) \in Seq(NativeItems)
                        /\ NativeInputs(own) = ToSet(InputsIn(own, b))
  <2> HIDE DEF own
  <2> QED
    BY <1>2, NativeInputsGiven
<1>8. CASE ~HasOverride(k)
  BY <1>4, <1>5, <1>6, <1>8
<1>9. CASE HasOverride(k) /\ ~OverrideOf(k).extends
  BY <1>4, <1>5, <1>7, <1>9
<1>10. CASE HasOverride(k) /\ OverrideOf(k).extends
  <2> DEFINE argument == merge(global, version)
  <2> HIDE DEF argument, own
  <2>1. InputsIn(merge(argument, own), b)
          = IF b \in DOMAIN own THEN own[b] ELSE InputsIn(argument, b)
    BY InputsOfMerge
  <2>2. InputsIn(own, b) = IF b \in DOMAIN own THEN own[b] ELSE << >>
    BY DEF InputsIn
  <2> HIDE DEF b, global, version
  <2>3. InputsIn(argument, b) = InputsIn(global, b)
    BY <1>3 DEF argument
  <2>4. apply_overrides(k) = merge(argument, own)
    BY <1>4, <1>10 DEF argument
  <2>5. CASE b \in DOMAIN own
    <3>1. InputsIn(apply_overrides(k), b) = InputsIn(own, b) /\ GivenTo(k) = NativeInputs(own)
      BY <1>5, <1>10, <2>1, <2>2, <2>4, <2>5
    <3> QED
      BY <1>7, <1>10, <3>1 DEF b
  <2>6. CASE b \notin DOMAIN own
    <3>1. InputsIn(apply_overrides(k), b) = InputsIn(global, b) /\ GivenTo(k) = NativeInputs(global)
      BY <1>5, <1>10, <2>1, <2>3, <2>4, <2>6
    <3> QED
      BY <1>6, <3>1 DEF b
  <2> QED
    BY <2>5, <2>6
<1> QED
  BY <1>8, <1>9, <1>10

-------------------------------------------------------------------------------
(* The inputs of a derivation are derivations before it, and what its      *)
(* overrides add.                                                          *)

Complete ==
  /\ Given /\ graph \in Seq(Nodes) /\ Len(graph) = Size
  /\ \A k \in 1..Size : graph[k] = BuildGraphNode(ws, k)

Direct(k, kind) == {d.to : d \in {x \in ToSet(ws.deps[k]) : x.kind = kind}}

OwnInputs(d) ==
  IF d.type = "deps"
  THEN {Item("lib", j) : j \in Direct(d.node, "build") \cup Direct(d.node, "normal")}
  ELSE {Item("deps", d.node)}
         \cup {Item("lib", j) : j \in Direct(d.node, IF d.type = "build" THEN "build" ELSE "normal")}
         \cup (IF d.type # "build" /\ "build" \in TypesOf(d.node)
               THEN {Item("build", d.node)} ELSE {})
         \cup (IF d.type = "bin" /\ "lib" \in TypesOf(d.node)
               THEN {Item("lib", d.node)} ELSE {})

LEMMA HasDrvIs ==
  ASSUME NEW k \in Nat, NEW type
  PROVE  HasDrv(type, k) <=> type \in TypesOf(k)
<1> DEFINE s == DrvsOf(k)
<1>1. ToSet(s) = {Item(t, k) : t \in TypesOf(k)}
  BY DrvsOfNode
<1> HIDE DEF s
<1>2. HasDrv(type, k) <=> Item(type, k) \in ToSet(s)
  BY DEF HasDrv, Contains, ToSet, s
<1>3. \A t : Item(t, k) = Item(type, k) => t = type
  BY DEF Item
<1> HIDE DEF TypesOf
<1> QED
  BY <1>1, <1>2, <1>3

LEMMA CompleteDomain ==
  ASSUME Complete
  PROVE  /\ Size \in Nat \ {0} /\ DOMAIN graph = 1..Size
         /\ AllDrvs \in Seq(Drvs) /\ Increasing(AllDrvs) /\ ToSet(AllDrvs) = DrvsUpTo(Size)
<1>1. Size \in Nat \ {0}
  BY PackagesGiven DEF Complete
<1>2. DOMAIN graph = 1..Len(graph) /\ Len(graph) = Size
  BY DEF Complete
<1> QED
  BY <1>1, <1>2, AllDrvsOrdered

LEMMA OwnInputsBefore ==
  ASSUME Complete, NEW d \in DrvsUpTo(Size), NEW x \in OwnInputs(d)
  PROVE  x \in DrvsUpTo(Size) /\ Before(x, d)
<1> DEFINE k == d.node
<1>1. k \in 1..Size /\ d.type \in TypesOf(k) /\ d.type \in Types /\ Size \in Nat /\ k \in Nat
  BY CompleteDomain DEF DrvsUpTo, Drvs
<1>2. ASSUME NEW kind \in {"normal", "build"}, NEW j \in Direct(k, kind)
      PROVE  Item("lib", j) \in DrvsUpTo(Size) /\ Before(Item("lib", j), d)
  <2>1. j \in 1..(k - 1) /\ LibraryCrate(ws, j) # None
    <3> HIDE DEF k
    <3>1. PICK e \in ToSet(ws.deps[k]) : e.kind = kind /\ j = e.to
      BY <1>2 DEF Direct
    <3>2. e \in {x_1 \in ToSet(ws.deps[k]) : x_1.kind = kind} /\ kind # "development"
      BY <3>1
    <3>3. e \in ToSet(DepsOfKind(ws, k, kind))
      BY <1>1, <3>2, DepsGiven DEF Complete
    <3> QED
      BY <1>1, <3>1, <3>2, <3>3, DepsGiven DEF Complete
  <2>2. j \in 1..Size /\ j < k /\ j \in Nat
    BY <1>1, <2>1
  <2>3. graph[j].library # None
    BY <2>1, <2>2 DEF Complete, BuildGraphNode
  <2>4. Item("lib", j) \in DrvsUpTo(Size)
    BY <2>2, <2>3 DEF DrvsUpTo, Drvs, Item, TypesOf, Types
  <2> QED
    BY <2>2, <2>4 DEF Before, Item
<1>3. ASSUME NEW type \in Types, type \in TypesOf(k), Position(type) < Position(d.type)
      PROVE  Item(type, k) \in DrvsUpTo(Size) /\ Before(Item(type, k), d)
  BY <1>1, <1>3 DEF DrvsUpTo, Drvs, Item, Before
<1>4. CASE d.type = "deps"
  BY <1>2, <1>4 DEF OwnInputs
<1>5. CASE d.type # "deps"
  <2>1. "deps" \in TypesOf(k)
    BY DEF TypesOf
  <2>2. /\ Position("deps") < Position(d.type)
        /\ d.type # "build" => Position("build") < Position(d.type)
        /\ d.type = "bin" => Position("lib") < Position(d.type)
    BY <1>1, <1>5 DEF Types, Position
  <2>3. "deps" \in Types /\ "build" \in Types /\ "lib" \in Types
    BY DEF Types
  <2> QED
    BY <1>2, <1>3, <1>5, <2>1, <2>2, <2>3 DEF OwnInputs
<1> QED
  BY <1>4, <1>5

LEMMA InputsOfDeps ==
  ASSUME Complete, NEW k \in 1..Size
  PROVE  /\ ToSet(AllDirectDeps(k))
              = {Item("lib", j) : j \in Direct(k, "build") \cup Direct(k, "normal")}
         /\ ToSet(make_deps_args(k).buildInputs) = ToSet(AllDirectDeps(k)) \cup GivenTo(k)
<1> DEFINE b == DirectDeps(k, "build")
           n == DirectDeps(k, "normal")
           natives == InputsIn(apply_overrides(k), "buildInputs")
           V == 1..(k - 1)
<1>1. k - 1 \in Nat
  BY CompleteDomain
<1>2. b \in Seq(V) /\ ToSet(b) = Direct(k, "build") /\ n \in Seq(V) /\ ToSet(n) = Direct(k, "normal")
  BY DirectGiven DEF Complete, Direct
<1>3. natives \in Seq(NativeItems) /\ ToSet(natives) = GivenTo(k)
  BY OverrideInputs DEF Complete
<1>4. make_deps_args(k).buildInputs = AllDirectDeps(k) \o natives
  BY DEF make_deps_args
<1>5. AllDirectDeps(k) = LibraryDrvs(b \o n)
  BY DEF AllDirectDeps
<1> HIDE DEF b, n, natives, V
<1>6. b \o n \in Seq(V) /\ ToSet(b \o n) = ToSet(b) \cup ToSet(n)
  BY <1>2, ToSetConcat
<1> DEFINE bn == b \o n
<1> HIDE DEF bn
<1>7. /\ LibraryDrvs(bn) \in Seq(Items)
      /\ ToSet(LibraryDrvs(bn)) = {Item("lib", j) : j \in ToSet(bn)}
  BY <1>1, <1>6, LibraryDrvsOf DEF bn, V
<1> DEFINE libs == LibraryDrvs(bn)
<1> HIDE DEF libs
<1>8. natives \in Seq(Items)
  <2>1. NativeItems \subseteq Items
    BY DEF NativeItems, Items
  <2> QED
    BY <1>3, <2>1
<1>9. ToSet(libs \o natives) = ToSet(libs) \cup ToSet(natives)
  BY <1>7, <1>8, ToSetConcat DEF libs
<1> QED
  BY <1>2, <1>3, <1>4, <1>5, <1>6, <1>7, <1>9 DEF libs, bn

LEMMA ItemOrNone ==
  ASSUME NEW k \in Nat, NEW type \in Types, NEW s, s = << >> \/ s = << Item(type, k) >>
  PROVE  s \in Seq(Items) /\ ToSet(s) = IF s = << >> THEN {} ELSE {Item(type, k)}
<1>1. s \in Seq(Drvs) /\ ToSet(s) = IF s = << >> THEN {} ELSE {Item(type, k)}
  BY OneOrNone
<1>2. Drvs \subseteq Items
  BY DEF Drvs, Items
<1> QED
  BY <1>1, <1>2

LEMMA InputsOfCrate ==
  ASSUME Complete, NEW k \in 1..Size, NEW type \in {"build", "lib", "bin"}
  PROVE  ToSet(make_derivation_args(type, k).buildInputs)
           = OwnInputs([type |-> type, node |-> k]) \cup GivenTo(k)
<1> DEFINE kind == IF type = "build" THEN "build" ELSE "normal"
           direct == DirectDeps(k, kind)
           natives == InputsIn(apply_overrides(k), "buildInputs")
           script == BuildScriptDrv(type, k)
           library == LibraryDrv(type, k)
           deps == << Item("deps", k) >>
           V == 1..(k - 1)
<1>1. k - 1 \in Nat /\ k \in Nat
  BY CompleteDomain
<1>2. direct \in Seq(V) /\ ToSet(direct) = Direct(k, kind)
  <2>1. kind \in {"normal", "build"}
    OBVIOUS
  <2> HIDE DEF kind
  <2> QED
    BY <2>1, DirectGiven DEF Complete, Direct
<1>3. natives \in Seq(Items) /\ ToSet(natives) = GivenTo(k)
  <2>1. natives \in Seq(NativeItems) /\ ToSet(natives) = GivenTo(k)
    BY OverrideInputs DEF Complete
  <2>2. NativeItems \subseteq Items
    BY DEF NativeItems, Items
  <2> QED
    BY <2>1, <2>2
<1>4. /\ script \in Seq(Items)
      /\ ToSet(script) = IF type # "build" /\ "build" \in TypesOf(k) THEN {Item("build", k)} ELSE {}
  <2>1. script = IF type # "build" /\ "build" \in TypesOf(k) THEN << Item("build", k) >> ELSE << >>
    BY <1>1, HasDrvIs DEF BuildScriptDrv
  <2>2. "build" \in Types
    BY DEF Types
  <2> HIDE DEF script
  <2> QED
    BY <1>1, <2>1, <2>2, ItemOrNone
<1>5. /\ library \in Seq(Items)
      /\ ToSet(library) = IF type = "bin" /\ "lib" \in TypesOf(k) THEN {Item("lib", k)} ELSE {}
  <2>1. library = IF type = "bin" /\ "lib" \in TypesOf(k) THEN << Item("lib", k) >> ELSE << >>
    BY <1>1, HasDrvIs DEF LibraryDrv
  <2>2. "lib" \in Types
    BY DEF Types
  <2> HIDE DEF library
  <2> QED
    BY <1>1, <2>1, <2>2, ItemOrNone
<1>6. deps \in Seq(Items) /\ ToSet(deps) = {Item("deps", k)}
  <2>1. "deps" \in Types /\ deps # << >>
    BY DEF Types
  <2> HIDE DEF deps
  <2>2. deps = << Item("deps", k) >>
    BY DEF deps
  <2> QED
    BY <1>1, <2>1, <2>2, ItemOrNone
<1> DEFINE libs == LibraryDrvs(direct)
<1>7. libs \in Seq(Items) /\ ToSet(libs) = {Item("lib", j) : j \in Direct(k, kind)}
  <2> HIDE DEF direct
  <2> QED
    BY <1>1, <1>2, LibraryDrvsOf
<1>8. make_derivation_args(type, k).buildInputs
        = (((script \o library) \o deps) \o libs) \o natives
  BY DEF make_derivation_args, merge, DirectOf
<1>9. OwnInputs([type |-> type, node |-> k])
        = ToSet(script) \cup ToSet(library) \cup ToSet(deps) \cup ToSet(libs)
  BY <1>4, <1>5, <1>6, <1>7 DEF OwnInputs
<1> HIDE DEF kind, direct, natives, script, library, deps, libs
<1> DEFINE sl == script \o library
           sld == sl \o deps
           sldl == sld \o libs
<1>10. sl \in Seq(Items) /\ ToSet(sl) = ToSet(script) \cup ToSet(library)
  BY <1>4, <1>5, ToSetConcat
<1> HIDE DEF sl
<1>11. sld \in Seq(Items) /\ ToSet(sld) = ToSet(sl) \cup ToSet(deps)
  BY <1>6, <1>10, ToSetConcat
<1> HIDE DEF sld
<1>12. sldl \in Seq(Items) /\ ToSet(sldl) = ToSet(sld) \cup ToSet(libs)
  BY <1>7, <1>11, ToSetConcat
<1> HIDE DEF sldl
<1>13. ToSet(sldl \o natives) = ToSet(sldl) \cup ToSet(natives)
  BY <1>3, <1>12, ToSetConcat
<1>14. make_derivation_args(type, k).buildInputs = sldl \o natives
  BY <1>8 DEF sl, sld, sldl
<1> QED
  BY <1>3, <1>9, <1>10, <1>11, <1>12, <1>13, <1>14

(* The inputs of a derivation.                                             *)
LEMMA InputsAre ==
  ASSUME Complete, NEW d \in DrvsUpTo(Size)
  PROVE  ToSet(ArgsOf(d).buildInputs) = OwnInputs(d) \cup GivenTo(d.node)
<1>1. d.node \in 1..Size /\ d.type \in Types /\ d = [type |-> d.type, node |-> d.node]
  BY DEF DrvsUpTo, Drvs
<1>2. CASE d.type = "deps"
  <2>1. ToSet(ArgsOf(d).buildInputs) = ToSet(AllDirectDeps(d.node)) \cup GivenTo(d.node)
    BY <1>1, <1>2, InputsOfDeps DEF ArgsOf
  <2>2. OwnInputs(d) = ToSet(AllDirectDeps(d.node))
    BY <1>1, <1>2, InputsOfDeps DEF OwnInputs
  <2> QED
    BY <2>1, <2>2
<1>3. CASE d.type # "deps"
  <2>1. d.type \in {"build", "lib", "bin"}
    BY <1>1, <1>3 DEF Types
  <2>2. ToSet(make_derivation_args(d.type, d.node).buildInputs)
          = OwnInputs([type |-> d.type, node |-> d.node]) \cup GivenTo(d.node)
    BY <1>1, <2>1, InputsOfCrate
  <2> QED
    BY <1>1, <1>3, <2>2 DEF ArgsOf
<1> QED
  BY <1>2, <1>3

LEMMA GivenNative ==
  ASSUME Complete, NEW k, NEW x \in GivenTo(k)
  PROVE  x.type = "native" /\ x \notin DrvsUpTo(Size)
<1>1. x.type = "native"
  <2> DEFINE natives == InputsIn(apply_overrides(k), "buildInputs")
  <2>1. natives \in Seq(NativeItems) /\ x \in ToSet(natives)
    BY OverrideInputs DEF Complete
  <2> HIDE DEF natives
  <2>2. \A i \in DOMAIN natives : natives[i] \in NativeItems
    BY <2>1
  <2> QED
    BY <2>1, <2>2 DEF ToSet, NativeItems
<1> QED
  BY <1>1 DEF DrvsUpTo, Drvs, Types

-------------------------------------------------------------------------------
(* Steps of the graph.                                                     *)

LEMMA MakeNodeStep ==
  ASSUME CompileInv, MakeNode
  PROVE  CompileInv'
<1> DEFINE k == Len(graph) + 1
           node == BuildGraphNode(ws, k)
<1>1. /\ op = "graph" /\ ws' = ws /\ drvs' = drvs /\ built' = built
      /\ graph' = Append(graph, node) /\ op' = IF k = Size THEN "evaluate" ELSE op
  BY DEF MakeNode
<1>2. graph \in Seq(Nodes) /\ Len(graph) < Size /\ Size \in Nat /\ drvs = << >> /\ built = << >>
  BY <1>1, PackagesGiven DEF CompileInv, GraphMade, DrvsMade, DrvsBuilt, Given
<1>3. k \in 1..Size
  BY <1>2
<1>4. node \in Nodes
  BY <1>3 DEF Nodes
<1> HIDE DEF node
<1>5. /\ graph' \in Seq(Nodes) /\ Len(graph') = k /\ Len(graph) \in Nat
      /\ graph'[k] = node /\ \A i \in 1..Len(graph) : graph'[i] = graph[i]
  BY <1>1, <1>2, <1>4
<1>6. \A i \in 1..k : graph'[i] = BuildGraphNode(ws, i)
  <2>1. 1..k = 1..Len(graph) \cup {k}
    BY <1>5
  <2>2. \A i \in 1..Len(graph) : graph[i] = BuildGraphNode(ws, i)
    BY DEF CompileInv, GraphMade
  <2> HIDE DEF k
  <2>3. graph'[k] = BuildGraphNode(ws, k)
    BY <1>5 DEF node
  <2> QED
    BY <1>5, <2>1, <2>2, <2>3
<1>7. Size' = Size /\ Nodes' = Nodes
  BY <1>1 DEF Size, Nodes
<1>8. GraphMade'
  <2>1. op' \in {"graph", "evaluate"} /\ (op' = "graph" => k < Size) /\ (op' = "evaluate" => k = Size)
    BY <1>1, <1>2, <1>3
  <2> HIDE DEF k
  <2> QED
    BY <1>1, <1>3, <1>5, <1>6, <1>7, <2>1 DEF GraphMade
<1>9. DrvsMade'
  <2>1. DOMAIN drvs' = {} /\ 1..0 = {}
    BY <1>1, <1>2
  <2>2. /\ DOMAIN drvs' = {AllDrvs'[i] : i \in 1..0}
        /\ IsFiniteSet(DOMAIN drvs') /\ Cardinality(DOMAIN drvs') = 0
    BY <2>1, FS_EmptySet
  <2>3. op' # "build" /\ drvs' = << >> /\ 0 \in Nat
    BY <1>1, <1>2
  <2> HIDE DEF k
  <2> QED
    BY <2>1, <2>2, <2>3 DEF DrvsMade
<1>10. DrvsBuilt'
  <2>1. DOMAIN built' = {} /\ op' # "build" /\ built' = << >>
    BY <1>1, <1>2
  <2> QED
    BY <2>1 DEF DrvsBuilt
<1> QED
  BY <1>1, <1>8, <1>9, <1>10 DEF CompileInv

LEMMA NodeFailsStep ==
  ASSUME CompileInv, NodeFails
  PROVE  CompileInv'
<1>1. /\ op = "graph" /\ op' = "panic" /\ ws' = ws /\ graph' = graph
      /\ drvs' = drvs /\ built' = built
  BY DEF NodeFails
<1>2. GraphMade'
  BY <1>1 DEF CompileInv, GraphMade, Size, Nodes
<1>3. drvs' = << >> /\ built' = << >>
  BY <1>1 DEF CompileInv, DrvsMade, DrvsBuilt
<1>4. DrvsMade'
  <2>1. DOMAIN drvs' = {} /\ 1..0 = {}
    BY <1>3
  <2>2. /\ DOMAIN drvs' = {AllDrvs'[i] : i \in 1..0}
        /\ IsFiniteSet(DOMAIN drvs') /\ Cardinality(DOMAIN drvs') = 0
    BY <2>1, FS_EmptySet
  <2> QED
    BY <1>1, <1>3, <2>1, <2>2 DEF DrvsMade
<1>5. DrvsBuilt'
  <2>1. DOMAIN built' = {}
    BY <1>3
  <2> QED
    BY <1>1, <1>3, <2>1 DEF DrvsBuilt
<1> QED
  BY <1>1, <1>2, <1>4, <1>5 DEF CompileInv

-------------------------------------------------------------------------------
(* Steps of the evaluator.                                                 *)

LEMMA InvComplete ==
  ASSUME CompileInv, op \in {"evaluate", "build", "error", "missing"}
  PROVE  Complete
BY DEF CompileInv, GraphMade, Complete, Given

LEMMA SameNodes ==
  ASSUME ws' = ws, graph' = graph
  PROVE  AllDrvs' = AllDrvs /\ \A d : ArgsOf(d)' = ArgsOf(d)
<1>1. AllDrvs' = AllDrvs
  BY DEF AllDrvs, DrvsOf
<1>2. ASSUME NEW k
      PROVE  apply_overrides(k)' = apply_overrides(k)
  BY DEF apply_overrides, HasOverride, OverrideOf
<1>3. ASSUME NEW k, NEW kind
      PROVE  DirectDeps(k, kind)' = DirectDeps(k, kind)
  BY DEF DirectDeps
<1>4. ASSUME NEW k
      PROVE  make_deps_args(k)' = make_deps_args(k)
  BY <1>2, <1>3 DEF make_deps_args, AllDirectDeps
<1>5. ASSUME NEW type, NEW k
      PROVE  make_derivation_args(type, k)' = make_derivation_args(type, k)
  BY <1>2, <1>3 DEF make_derivation_args, DirectOf, BuildScriptDrv, LibraryDrv, HasDrv, DrvsOf,
                    OwnArguments
<1> QED
  BY <1>1, <1>4, <1>5 DEF ArgsOf

MadeUpTo(n) ==
  /\ DOMAIN drvs = {AllDrvs[i] : i \in 1..n}
  /\ IsFiniteSet(DOMAIN drvs) /\ Cardinality(DOMAIN drvs) = n

LEMMA NextDrvIs ==
  ASSUME Complete, NEW n \in Nat, MadeUpTo(n), n = 0 \/ n < Len(AllDrvs)
  PROVE  /\ n + 1 \in 1..Len(AllDrvs) /\ NextDrv = AllDrvs[n + 1]
         /\ NextDrv \in DrvsUpTo(Size) /\ NextDrv \notin DOMAIN drvs
         /\ NextDrv = Last(AllDrvs) <=> n + 1 = Len(AllDrvs)
<1>1. AllDrvs \in Seq(Drvs) /\ Increasing(AllDrvs) /\ ToSet(AllDrvs) = DrvsUpTo(Size)
      /\ Size \in Nat \ {0}
  BY CompleteDomain
<1>2. Len(AllDrvs) # 0
  <2>1. Item("deps", 1) \in DrvsUpTo(Size)
    BY <1>1 DEF DrvsUpTo, Drvs, Types, TypesOf, Item
  <2>2. AllDrvs # << >>
    BY <1>1, <2>1 DEF ToSet
  <2> QED
    BY <1>1, <2>2
<1>3. Len(AllDrvs) \in Nat
  BY <1>1
<1>4. n + 1 \in 1..Len(AllDrvs)
  BY <1>2, <1>3
<1>5. NextDrv = AllDrvs[n + 1]
  BY DEF NextDrv, MadeUpTo
<1>6. \A i \in 1..Len(AllDrvs) : AllDrvs[i] \in ToSet(AllDrvs) /\ AllDrvs[i] \in Drvs
  BY <1>1 DEF ToSet
<1>7. \A i, j \in 1..Len(AllDrvs) : i < j => AllDrvs[i] # AllDrvs[j]
  BY <1>1, <1>6, BeforeOrder DEF Increasing
<1>8. NextDrv \notin DOMAIN drvs
  <2>1. \A i \in 1..n : i \in 1..Len(AllDrvs) /\ i < n + 1
    BY <1>3, <1>4
  <2> QED
    BY <1>4, <1>5, <1>7, <2>1 DEF MadeUpTo
<1>9. NextDrv = Last(AllDrvs) <=> n + 1 = Len(AllDrvs)
  <2>1. Last(AllDrvs) = AllDrvs[Len(AllDrvs)]
    BY DEF Last
  <2>2. Len(AllDrvs) \in 1..Len(AllDrvs) /\ (n + 1 # Len(AllDrvs) => n + 1 < Len(AllDrvs))
    BY <1>3, <1>4
  <2> QED
    BY <1>4, <1>5, <1>7, <2>1, <2>2
<1> QED
  BY <1>1, <1>4, <1>5, <1>6, <1>8, <1>9

LEMMA MadeCount ==
  ASSUME DrvsMade
  PROVE  \E n \in Nat :
           /\ MadeUpTo(n)
           /\ op \in {"evaluate", "error", "missing"} => n = 0 \/ n < Len(AllDrvs)
           /\ op = "build" => n = Len(AllDrvs)
BY DEF DrvsMade, MadeUpTo

LEMMA MakeStep ==
  ASSUME CompileInv, Make
  PROVE  CompileInv'
<1> DEFINE d == NextDrv
<1>1. /\ op = "evaluate" /\ ws' = ws /\ graph' = graph /\ built' = built
      /\ drvs' = With(drvs, d, ArgsOf(d))
      /\ op' = IF d = Last(AllDrvs) THEN "build" ELSE op
  BY DEF Make, ArgsOf
<1>2. Complete
  BY <1>1, InvComplete
<1>3. PICK n \in Nat : MadeUpTo(n) /\ (n = 0 \/ n < Len(AllDrvs))
  BY <1>1, MadeCount DEF CompileInv
<1>4. /\ n + 1 \in 1..Len(AllDrvs) /\ d = AllDrvs[n + 1]
      /\ d \in DrvsUpTo(Size) /\ d \notin DOMAIN drvs
      /\ d = Last(AllDrvs) <=> n + 1 = Len(AllDrvs)
  BY <1>2, <1>3, NextDrvIs
<1>5. AllDrvs' = AllDrvs /\ \A e : ArgsOf(e)' = ArgsOf(e)
  BY <1>1, SameNodes
<1>6. GraphMade'
  <2>1. GraphMade
    BY DEF CompileInv
  <2>2. op' \in {"evaluate", "build"}
    BY <1>1
  <2> QED
    BY <1>1, <2>1, <2>2 DEF GraphMade, Size, Nodes
<1> HIDE DEF d
<1>7. DrvsMade'
  <2>1. DOMAIN drvs' = DOMAIN drvs \cup {d}
    BY <1>1 DEF With
  <2>2. DOMAIN drvs' = {AllDrvs'[i] : i \in 1..(n + 1)}
    <3>1. 1..(n + 1) = 1..n \cup {n + 1}
      OBVIOUS
    <3>2. {AllDrvs[i] : i \in 1..(n + 1)} = {AllDrvs[i] : i \in 1..n} \cup {AllDrvs[n + 1]}
      BY <3>1
    <3> QED
      BY <1>3, <1>4, <1>5, <2>1, <3>2 DEF MadeUpTo
  <2>3. IsFiniteSet(DOMAIN drvs') /\ Cardinality(DOMAIN drvs') = n + 1
    <3> DEFINE D == DOMAIN drvs
    <3>1. IsFiniteSet(D) /\ Cardinality(D) = n /\ d \notin D
      BY <1>3, <1>4 DEF MadeUpTo
    <3> HIDE DEF D
    <3>2. IsFiniteSet(D \cup {d}) /\ Cardinality(D \cup {d}) = n + 1
      BY <3>1, FS_AddElement
    <3> QED
      BY <2>1, <3>2 DEF D
  <2>4. /\ n + 1 \in Nat /\ Len(AllDrvs') \in Nat
        /\ op' = "evaluate" => n + 1 < Len(AllDrvs')
        /\ op' = "build" => n + 1 = Len(AllDrvs')
        /\ op' \in {"evaluate", "build"}
    <3>1. Len(AllDrvs) \in Nat
      BY <1>2, CompleteDomain
    <3> QED
      BY <1>1, <1>4, <1>5, <3>1
  <2>5. \A e \in DOMAIN drvs' : drvs'[e] = ArgsOf(e)'
    <3>1. \A e \in DOMAIN drvs : drvs[e] = ArgsOf(e)
      BY DEF CompileInv, DrvsMade
    <3>2. \A e \in DOMAIN drvs' : drvs'[e] = IF e = d THEN ArgsOf(d) ELSE drvs[e]
      BY <1>1, <2>1 DEF With
    <3>3. \A e \in DOMAIN drvs' : drvs'[e] = ArgsOf(e)
      BY <2>1, <3>1, <3>2
    <3> QED
      BY <1>5, <3>3
  <2>6. op' \notin {"graph", "panic", "error", "missing"}
    BY <2>4
  <2> QED
    BY <2>2, <2>3, <2>4, <2>5, <2>6 DEF DrvsMade
<1>8. DrvsBuilt'
  <2>1. built = << >>
    BY <1>1 DEF CompileInv, DrvsBuilt
  <2>2. built' = << >> /\ DOMAIN built' = {}
    BY <1>1, <2>1
  <2> QED
    BY <2>2 DEF DrvsBuilt
<1> QED
  BY <1>1, <1>6, <1>7, <1>8 DEF CompileInv

LEMMA EvaluationFailsStep ==
  ASSUME CompileInv, OverrideFails \/ SourceFails
  PROVE  CompileInv'
<1>1. /\ op = "evaluate" /\ op' \in {"error", "missing"} /\ ws' = ws /\ graph' = graph
      /\ drvs' = drvs /\ built' = built
  BY DEF OverrideFails, SourceFails
<1>2. GraphMade'
  BY <1>1 DEF CompileInv, GraphMade, Size, Nodes
<1>3. AllDrvs' = AllDrvs /\ \A e : ArgsOf(e)' = ArgsOf(e)
  BY <1>1, SameNodes
<1>4. DrvsMade'
  <2>1. DrvsMade
    BY DEF CompileInv
  <2>2. PICK n \in Nat : MadeUpTo(n) /\ (n = 0 \/ n < Len(AllDrvs))
    BY <1>1, <2>1, MadeCount
  <2>3. \A e \in DOMAIN drvs' : drvs'[e] = ArgsOf(e)'
    BY <1>1, <1>3, <2>1 DEF DrvsMade
  <2>4. /\ DOMAIN drvs' = {AllDrvs'[i] : i \in 1..n}
        /\ IsFiniteSet(DOMAIN drvs') /\ Cardinality(DOMAIN drvs') = n
        /\ n = 0 \/ n < Len(AllDrvs')
    BY <1>1, <1>3, <2>2 DEF MadeUpTo
  <2>5. op' \in {"error", "missing"}
    BY <1>1
  <2> QED
    BY <2>3, <2>4, <2>5 DEF DrvsMade
<1>5. DrvsBuilt'
  <2>1. built' = << >> /\ DOMAIN built' = {}
    BY <1>1 DEF CompileInv, DrvsBuilt
  <2> QED
    BY <2>1 DEF DrvsBuilt
<1> QED
  BY <1>1, <1>2, <1>4, <1>5 DEF CompileInv

-------------------------------------------------------------------------------
(* Steps of the builders.                                                  *)

(* All derivations have been made by then.                                 *)
LEMMA AllMade ==
  ASSUME CompileInv, op = "build"
  PROVE  /\ Complete /\ DOMAIN drvs = DrvsUpTo(Size)
         /\ \A d \in DOMAIN drvs :
              ToSet(drvs[d].buildInputs) = OwnInputs(d) \cup GivenTo(d.node)
<1>1. Complete
  BY InvComplete
<1>2. PICK n \in Nat : MadeUpTo(n) /\ n = Len(AllDrvs)
  BY MadeCount DEF CompileInv
<1>3. AllDrvs \in Seq(Drvs) /\ ToSet(AllDrvs) = DrvsUpTo(Size)
  BY <1>1, CompleteDomain
<1>4. DOMAIN drvs = DrvsUpTo(Size)
  <2>1. DOMAIN AllDrvs = 1..n
    BY <1>2, <1>3
  <2>2. DOMAIN drvs = {AllDrvs[i] : i \in 1..n}
    BY <1>2 DEF MadeUpTo
  <2> QED
    BY <1>3, <2>1, <2>2 DEF ToSet
<1>5. \A d \in DOMAIN drvs : drvs[d] = ArgsOf(d)
  BY DEF CompileInv, DrvsMade
<1> QED
  BY <1>1, <1>4, <1>5, InputsAre

(* What is built has its own inputs built.                                 *)
LEMMA InputsBuilt ==
  ASSUME CompileInv, op = "build", NEW d \in DOMAIN drvs,
         \A input \in ToSet(drvs[d].buildInputs) :
           input \in DOMAIN drvs => input \in DOMAIN built
  PROVE  OwnInputs(d) \subseteq DOMAIN built
BY AllMade, OwnInputsBefore

(* The deps directories that are linked are there.                         *)
LEMMA LinkedDirectories ==
  ASSUME CompileInv, op = "build", NEW k \in 1..Size, Item("deps", k) \in DOMAIN drvs,
         OwnInputs(Item("deps", k)) \subseteq DOMAIN built
  PROVE  \A x \in ToSet(AllDirectDeps(k)) :
           /\ x.node \in Direct(k, "build") \cup Direct(k, "normal")
           /\ Item("deps", x.node) \in DOMAIN built
<1>1. ToSet(AllDirectDeps(k)) = OwnInputs(Item("deps", k))
  BY AllMade, InputsOfDeps DEF OwnInputs, Item
<1> SUFFICES ASSUME NEW x \in ToSet(AllDirectDeps(k))
             PROVE  /\ x.node \in Direct(k, "build") \cup Direct(k, "normal")
                    /\ Item("deps", x.node) \in DOMAIN built
  OBVIOUS
<1>2. /\ x.node \in Direct(k, "build") \cup Direct(k, "normal")
      /\ x.type = "lib" /\ x \in DOMAIN built
  BY <1>1 DEF OwnInputs, Item
<1>3. /\ x \in DOMAIN drvs
      /\ \A input \in ToSet(drvs[x].buildInputs) :
           input \in DOMAIN drvs => input \in DOMAIN built
  BY <1>2 DEF CompileInv, DrvsBuilt
<1>4. OwnInputs(x) \subseteq DOMAIN built
  BY <1>3, InputsBuilt
<1>5. Item("deps", x.node) \in OwnInputs(x)
  BY <1>2 DEF OwnInputs
<1> QED
  BY <1>2, <1>4, <1>5

LEMMA SameCompiled ==
  ASSUME ws' = ws, graph' = graph, drvs' = drvs
  PROVE  \A d : Compiled(d)' = Compiled(d)
<1> SUFFICES ASSUME NEW d
             PROVE  Compiled(d)' = Compiled(d)
  OBVIOUS
<1>1. ASSUME NEW k, NEW kind
      PROVE  DirectDeps(k, kind)' = DirectDeps(k, kind)
  BY DEF DirectDeps
<1>2. build_phase(d.type, d.node)' = build_phase(d.type, d.node)
  BY <1>1 DEF build_phase, DirectOf
<1>3. configure_phase(d.type, d.node)' = configure_phase(d.type, d.node)
  BY DEF configure_phase, BuildScriptDrv, HasDrv, DrvsOf, ScriptFile, Environment
<1> QED
  BY <1>2, <1>3 DEF Compiled, Own

LEMMA SameLinked ==
  ASSUME ws' = ws, graph' = graph, drvs' = drvs, NEW k,
         \A x \in ToSet(AllDirectDeps(k)) :
           built'[Item("deps", x.node)] = built[Item("deps", x.node)]
  PROVE  deps_install_phase(k)' = deps_install_phase(k)
<1>1. AllDirectDeps(k)' = AllDirectDeps(k)
  BY DEF AllDirectDeps, DirectDeps
<1>2. NativesOf(Item("deps", k))' = NativesOf(Item("deps", k))
  BY DEF NativesOf
<1>3. {built[Item("deps", x.node)].natives : x \in ToSet(AllDirectDeps(k))}'
        = {built[Item("deps", x.node)].natives : x \in ToSet(AllDirectDeps(k))}
  BY <1>1
<1> QED
  BY <1>2, <1>3 DEF deps_install_phase

LEMMA BuildStep ==
  ASSUME CompileInv, NEW d \in DOMAIN drvs, Build(d)
  PROVE  CompileInv'
<1>1. /\ op = "build" /\ op' = op /\ ws' = ws /\ graph' = graph /\ drvs' = drvs
      /\ built' = With(built, d, ResultOf(d)) /\ d \notin DOMAIN built
      /\ \A input \in ToSet(drvs[d].buildInputs) :
           input \in DOMAIN drvs => input \in DOMAIN built
  BY DEF Build, CanBuild, ResultOf
<1>2. DOMAIN built' = DOMAIN built \cup {d} /\ \A e \in DOMAIN built : built'[e] = built[e]
  BY <1>1 DEF With
<1>3. built'[d] = ResultOf(d)
  BY <1>1 DEF With
<1>4. GraphMade'
  BY <1>1 DEF CompileInv, GraphMade, Size, Nodes
<1>5. AllDrvs' = AllDrvs /\ \A e : ArgsOf(e)' = ArgsOf(e)
  BY <1>1, SameNodes
<1>6. DrvsMade'
  <2>1. DrvsMade
    BY DEF CompileInv
  <2>2. PICK n \in Nat : MadeUpTo(n) /\ n = Len(AllDrvs)
    BY <1>1, <2>1, MadeCount
  <2>3. \A e \in DOMAIN drvs' : drvs'[e] = ArgsOf(e)'
    BY <1>1, <1>5, <2>1 DEF DrvsMade
  <2>4. /\ DOMAIN drvs' = {AllDrvs'[i] : i \in 1..n}
        /\ IsFiniteSet(DOMAIN drvs') /\ Cardinality(DOMAIN drvs') = n /\ n = Len(AllDrvs')
    BY <1>1, <1>5, <2>2 DEF MadeUpTo
  <2>5. op' = "build"
    BY <1>1
  <2> QED
    BY <2>3, <2>4, <2>5 DEF DrvsMade
<1>7. \A e \in DOMAIN built :
        /\ e \in DOMAIN drvs /\ built[e] = ResultOf(e)
        /\ \A input \in ToSet(drvs[e].buildInputs) :
             input \in DOMAIN drvs => input \in DOMAIN built
  BY DEF CompileInv, DrvsBuilt
<1>8. ASSUME NEW e \in DOMAIN built'
      PROVE  ResultOf(e)' = ResultOf(e)
  <2>1. e \in DOMAIN drvs
    BY <1>2, <1>7
  <2>2. CASE e.type = "deps"
    <3> DEFINE k == e.node
    <3>1. e \in DrvsUpTo(Size)
      BY <1>1, <2>1, AllMade
    <3>2. k \in 1..Size /\ e = Item("deps", k)
      BY <2>2, <3>1 DEF DrvsUpTo, Drvs, Item
    <3>3. OwnInputs(e) \subseteq DOMAIN built
      BY <1>1, <1>2, <1>7, <2>1, InputsBuilt
    <3> HIDE DEF k
    <3>4. \A x \in ToSet(AllDirectDeps(k)) : Item("deps", x.node) \in DOMAIN built
      BY <1>1, <2>1, <3>2, <3>3, LinkedDirectories
    <3>5. \A x \in ToSet(AllDirectDeps(k)) :
            built'[Item("deps", x.node)] = built[Item("deps", x.node)]
      BY <1>2, <3>4
    <3>6. deps_install_phase(k)' = deps_install_phase(k)
      BY <1>1, <3>5, SameLinked
    <3> QED
      BY <2>2, <3>6 DEF ResultOf, k
  <2>3. CASE e.type # "deps"
    BY <1>1, <2>3, SameCompiled DEF ResultOf
  <2> QED
    BY <2>2, <2>3
<1>9. DrvsBuilt'
  <2>1. op' = "build"
    BY <1>1
  <2>2. DOMAIN built' \subseteq DOMAIN drvs'
    BY <1>1, <1>2, <1>7
  <2>3. \A e \in DOMAIN built' : built'[e] = ResultOf(e)'
    BY <1>2, <1>3, <1>7, <1>8
  <2>4. \A e \in DOMAIN built' : \A input \in ToSet(drvs'[e].buildInputs) :
          input \in DOMAIN drvs' => input \in DOMAIN built'
    BY <1>1, <1>2, <1>7
  <2> QED
    BY <2>1, <2>2, <2>3, <2>4 DEF DrvsBuilt
<1> QED
  BY <1>1, <1>4, <1>6, <1>9 DEF CompileInv

-------------------------------------------------------------------------------
(* The invariant.                                                          *)

LEMMA InitInv ==
  ASSUME Init
  PROVE  CompileInv
<1>1. /\ ws \in Workspaces /\ graph = << >> /\ drvs = << >> /\ op = "graph" /\ built = << >>
  BY DEF Init
<1>2. GraphMade
  <2>1. Size \in Nat \ {0}
    BY <1>1, PackagesGiven DEF Given
  <2>2. graph \in Seq(Nodes) /\ Len(graph) = 0
    BY <1>1
  <2> QED
    BY <1>1, <2>1, <2>2 DEF GraphMade
<1>3. DrvsMade
  <2>1. DOMAIN drvs = {} /\ 1..0 = {}
    BY <1>1
  <2>2. /\ DOMAIN drvs = {AllDrvs[i] : i \in 1..0}
        /\ IsFiniteSet(DOMAIN drvs) /\ Cardinality(DOMAIN drvs) = 0
    BY <2>1, FS_EmptySet
  <2> QED
    BY <1>1, <2>1, <2>2 DEF DrvsMade
<1>4. DrvsBuilt
  <2>1. DOMAIN built = {}
    BY <1>1
  <2> QED
    BY <1>1, <2>1 DEF DrvsBuilt
<1> QED
  BY <1>1, <1>2, <1>3, <1>4 DEF CompileInv

LEMMA StutterStep ==
  ASSUME CompileInv, UNCHANGED vars
  PROVE  CompileInv'
<1>1. ws' = ws /\ graph' = graph /\ drvs' = drvs /\ op' = op /\ built' = built
  BY DEF vars
<1>2. GraphMade'
  BY <1>1 DEF CompileInv, GraphMade, Size, Nodes
<1>3. AllDrvs' = AllDrvs /\ \A e : ArgsOf(e)' = ArgsOf(e)
  BY <1>1, SameNodes
<1>4. DrvsMade'
  <2>1. DrvsMade
    BY DEF CompileInv
  <2>2. PICK n \in Nat : /\ MadeUpTo(n)
                         /\ op \in {"evaluate", "error", "missing"} => n = 0 \/ n < Len(AllDrvs)
                         /\ op = "build" => n = Len(AllDrvs)
    BY <2>1, MadeCount
  <2>3. \A e \in DOMAIN drvs' : drvs'[e] = ArgsOf(e)'
    BY <1>1, <1>3, <2>1 DEF DrvsMade
  <2>4. /\ DOMAIN drvs' = {AllDrvs'[i] : i \in 1..n}
        /\ IsFiniteSet(DOMAIN drvs') /\ Cardinality(DOMAIN drvs') = n
        /\ op' \in {"evaluate", "error", "missing"} => n = 0 \/ n < Len(AllDrvs')
        /\ op' = "build" => n = Len(AllDrvs')
    BY <1>1, <1>3, <2>2 DEF MadeUpTo
  <2>5. op' \in {"graph", "panic"} => drvs' = << >>
    BY <1>1, <2>1 DEF DrvsMade
  <2> QED
    BY <2>3, <2>4, <2>5 DEF DrvsMade
<1>5. \A e : ResultOf(e)' = ResultOf(e)
  <2>1. ASSUME NEW k
        PROVE  deps_install_phase(k)' = deps_install_phase(k)
    BY <1>1, SameLinked
  <2> QED
    BY <1>1, <2>1, SameCompiled DEF ResultOf
<1>6. DrvsBuilt'
  <2>1. DrvsBuilt
    BY DEF CompileInv
  <2> QED
    BY <1>1, <1>5, <2>1 DEF DrvsBuilt
<1> QED
  BY <1>1, <1>2, <1>4, <1>6 DEF CompileInv

LEMMA NextInv ==
  ASSUME CompileInv, [Next]_vars
  PROVE  CompileInv'
<1>1. CASE MakeNode
  BY <1>1, MakeNodeStep
<1>2. CASE NodeFails
  BY <1>2, NodeFailsStep
<1>3. CASE Make
  BY <1>3, MakeStep
<1>4. CASE OverrideFails \/ SourceFails
  BY <1>4, EvaluationFailsStep
<1>5. CASE \E d \in DOMAIN drvs : Build(d)
  BY <1>5, BuildStep
<1>6. CASE UNCHANGED vars
  BY <1>6, StutterStep
<1> QED
  BY <1>1, <1>2, <1>3, <1>4, <1>5, <1>6 DEF Next

(* The inductive invariant: the nodes are those of the packages, the       *)
(* derivations made are the first in the order of the graph, each as its   *)
(* package has it, and what is built was built from those after its inputs *)
(* (make_derivation.rs, build_package.rs, build_graph.rs).                 *)
THEOREM CompileInvariant == Spec => []CompileInv
<1>1. Init => CompileInv
  BY InitInv
<1>2. CompileInv /\ [Next]_vars => CompileInv'
  BY NextInv
<1> QED
  BY <1>1, <1>2, PTL DEF Spec

LEMMA InputsMade ==
  ASSUME CompileInv, Complete, NEW n \in Nat, MadeUpTo(n), n <= Len(AllDrvs),
         NEW d \in DOMAIN drvs, NEW x \in ToSet(drvs[d].buildInputs)
  PROVE  x.type = "native" \/ x \in DOMAIN drvs
<1>1. /\ AllDrvs \in Seq(Drvs) /\ Increasing(AllDrvs) /\ ToSet(AllDrvs) = DrvsUpTo(Size)
      /\ DOMAIN AllDrvs = 1..Len(AllDrvs) /\ Len(AllDrvs) \in Nat
  BY CompleteDomain
<1>2. PICK i \in 1..n : d = AllDrvs[i]
  BY DEF MadeUpTo
<1>3. i \in 1..Len(AllDrvs)
  BY <1>1
<1>4. d \in DrvsUpTo(Size) /\ drvs[d] = ArgsOf(d)
  BY <1>1, <1>2, <1>3 DEF CompileInv, DrvsMade, ToSet
<1>5. x \in OwnInputs(d) \/ x \in GivenTo(d.node)
  BY <1>4, InputsAre
<1>6. CASE x \in GivenTo(d.node)
  BY <1>6, GivenNative
<1>7. CASE x \in OwnInputs(d)
  <2>1. x \in DrvsUpTo(Size) /\ Before(x, d)
    BY <1>4, <1>7, OwnInputsBefore
  <2>2. PICK j \in 1..Len(AllDrvs) : x = AllDrvs[j]
    BY <1>1, <2>1 DEF ToSet
  <2>3. x \in Drvs /\ d \in Drvs
    BY <1>4, <2>1 DEF DrvsUpTo
  <2>4. ~Before(d, x) /\ x # d
    BY <2>1, <2>3, BeforeOrder
  <2>5. ~(i < j) /\ i # j
    BY <1>1, <1>2, <1>3, <2>2, <2>4 DEF Increasing
  <2>6. j \in 1..n
    BY <2>5
  <2> QED
    BY <2>2, <2>6 DEF MadeUpTo
<1> QED
  BY <1>5, <1>6, <1>7

LEMMA InvTypeOK ==
  ASSUME CompileInv
  PROVE  TypeOK
<1>1. Size \in Nat \ {0} /\ Size = Len(ws.packages)
  BY PackagesGiven DEF CompileInv, Given, Size
<1>2. /\ op \in {"graph", "evaluate", "build", "error", "panic", "missing"} /\ Len(graph) \in 0..Size
      /\ DOMAIN graph = 1..Len(graph)
  BY <1>1 DEF CompileInv, GraphMade
<1>3. \A k \in DOMAIN graph : graph[k].binaries # << >> => k = Size
  BY <1>1, <1>2 DEF CompileInv, GraphMade, BuildGraphNode, BinaryCrates
<1>4. PICK n \in Nat : /\ MadeUpTo(n)
                       /\ op \in {"evaluate", "error", "missing"} => n = 0 \/ n < Len(AllDrvs)
                       /\ op = "build" => n = Len(AllDrvs)
  BY MadeCount DEF CompileInv
<1>5. DOMAIN drvs = {AllDrvs[i] : i \in 1..Cardinality(DOMAIN drvs)}
  BY <1>4 DEF MadeUpTo
<1>6. \A d \in DOMAIN drvs : \A input \in ToSet(drvs[d].buildInputs) :
        input.type = "native" \/ input \in DOMAIN drvs
  <2>1. CASE op \in {"graph", "panic"}
    <3>1. drvs = << >>
      BY <2>1 DEF CompileInv, DrvsMade
    <3>2. DOMAIN drvs = {}
      BY <3>1
    <3> QED
      BY <3>2
  <2>2. CASE op \in {"evaluate", "build", "error", "missing"}
    <3>1. Complete
      BY <2>2, InvComplete
    <3>2. Len(AllDrvs) \in Nat
      BY <3>1, CompleteDomain
    <3>3. n <= Len(AllDrvs)
      BY <1>4, <2>2, <3>2
    <3> QED
      BY <1>4, <3>1, <3>3, InputsMade
  <2> QED
    BY <1>2, <2>1, <2>2
<1> QED
  BY <1>2, <1>3, <1>5, <1>6 DEF TypeOK, CompileInv, DrvsMade, DrvsBuilt

(* Type correctness: binaries belong to the root only, the derivations are *)
(* made in the order of the graph with their inputs among those made       *)
(* before, and only derivations that were made are built.                  *)
THEOREM CompileTypeCorrect == Spec => []TypeOK
<1>1. CompileInv => TypeOK
  BY InvTypeOK
<1> QED
  BY <1>1, CompileInvariant, PTL

-------------------------------------------------------------------------------
(* What has been built.                                                    *)

LEMMA BuiltIs ==
  ASSUME CompileInv, NEW d \in DOMAIN built
  PROVE  /\ op = "build" /\ Complete /\ built[d] = ResultOf(d)
         /\ d \in DOMAIN drvs /\ d \in DrvsUpTo(Size) /\ d = Item(d.type, d.node)
         /\ d.node \in 1..Size /\ d.type \in TypesOf(d.node) /\ d.type \in Types
         /\ ToSet(drvs[d].buildInputs) = OwnInputs(d) \cup GivenTo(d.node)
         /\ OwnInputs(d) \subseteq DOMAIN built
<1>1. op = "build"
  <2>1. built # << >>
    OBVIOUS
  <2> QED
    BY <2>1 DEF CompileInv, DrvsBuilt
<1>2. /\ d \in DOMAIN drvs /\ built[d] = ResultOf(d)
      /\ \A input \in ToSet(drvs[d].buildInputs) :
           input \in DOMAIN drvs => input \in DOMAIN built
  BY DEF CompileInv, DrvsBuilt
<1>3. /\ Complete /\ d \in DrvsUpTo(Size)
      /\ ToSet(drvs[d].buildInputs) = OwnInputs(d) \cup GivenTo(d.node)
  BY <1>1, <1>2, AllMade
<1>4. OwnInputs(d) \subseteq DOMAIN built
  BY <1>1, <1>2, InputsBuilt
<1>5. /\ d = Item(d.type, d.node) /\ d.node \in 1..Size /\ d.type \in TypesOf(d.node)
      /\ d.type \in Types
  BY <1>3 DEF DrvsUpTo, Drvs, Item
<1> QED
  BY <1>1, <1>2, <1>3, <1>4, <1>5

(* Overrides that give inputs alone leave the phases as they are.          *)
LEMMA OwnArgument ==
  ASSUME CompileInv, NEW d \in DOMAIN built, d.type # "deps", OnlyInputs(d.node)
  PROVE  Own(d, "configurePhase")
<1> DEFINE overrides == apply_overrides(d.node)
           own == [a \in OwnArguments |-> << Item("unit", d.node) >>]
           merged == merge(own, overrides)
<1>1. drvs[d] = make_derivation_args(d.type, d.node)
  BY BuiltIs DEF CompileInv, DrvsMade, ArgsOf
<1>2. "configurePhase" \notin DOMAIN overrides
  BY DEF OnlyInputs
<1>3. own["configurePhase"] = << Item("unit", d.node) >> /\ "configurePhase" \in DOMAIN own
  BY DEF OwnArguments
<1> HIDE DEF own, overrides
<1>4. "configurePhase" \in DOMAIN merged /\ merged["configurePhase"] = << Item("unit", d.node) >>
  BY <1>2, <1>3 DEF merge
<1> DEFINE inputs ==
             [nativeBuildInputs |-> << Item("parse-build-script-output", 0), Item("rustc", 0) >>
                                      \o InputsIn(overrides, "nativeBuildInputs"),
              buildInputs |-> BuildScriptDrv(d.type, d.node) \o LibraryDrv(d.type, d.node)
                                \o << Item("deps", d.node) >>
                                \o LibraryDrvs(DirectOf(d.type, d.node))
                                \o InputsIn(overrides, "buildInputs")]
<1>5. make_derivation_args(d.type, d.node) = merge(merged, inputs)
  BY DEF make_derivation_args, own, overrides
<1>6. DOMAIN inputs = {"nativeBuildInputs", "buildInputs"}
  OBVIOUS
<1> HIDE DEF merged, inputs
<1>7. merge(merged, inputs)["configurePhase"] = << Item("unit", d.node) >>
  BY <1>4, <1>6 DEF merge
<1> QED
  BY <1>1, <1>5, <1>7 DEF Own

LEMMA InvFlags ==
  ASSUME CompileInv
  PROVE  FlagsOfOwnScript
<1> SUFFICES ASSUME NEW d \in DOMAIN built, d.type # "deps", OnlyInputs(d.node),
                    NEW printed,
                    printed = IF HasDrv("build", d.node) /\ d.type # "build"
                              THEN ws.printed[d.node] ELSE {}
             PROVE  /\ built[d].environment.args
                        = {<<d.node, key>> : key \in {x \in printed : ForTarget(x, d.type)}}
                    /\ printed # {} => Item("build", d.node) \in DOMAIN built
  BY DEF FlagsOfOwnScript
<1>1. /\ built[d] = Compiled(d) /\ d.type \in {"build", "lib", "bin"} /\ d.node \in Nat
      /\ OwnInputs(d) \subseteq DOMAIN built
  <2>1. Size \in Nat
    BY BuiltIs, CompleteDomain
  <2> QED
    BY <2>1, BuiltIs DEF ResultOf, Types
<1>2. built[d].environment = configure_phase(d.type, d.node)
  BY <1>1, OwnArgument DEF Compiled
<1>3. CASE d.type = "build" \/ ~HasDrv("build", d.node)
  <2>1. printed = {}
    BY <1>3
  <2>2. built[d].environment.args = {}
    BY <1>2, <1>3 DEF configure_phase, BuildScriptDrv, NothingSourced
  <2> QED
    BY <2>1, <2>2
<1>4. CASE d.type # "build" /\ HasDrv("build", d.node)
  <2>1. printed = ws.printed[d.node]
    BY <1>4
  <2>2. built[d].environment.args = {<<d.node, key>> : key \in ScriptFile(d.node, d.type).args}
    <3>1. << Item("build", d.node) >> # << >>
      OBVIOUS
    <3> QED
      BY <1>2, <1>4, <3>1 DEF configure_phase, BuildScriptDrv, Environment
  <2>3. ScriptFile(d.node, d.type).args = {x \in printed : ForTarget(x, d.type)}
    BY <1>1, <1>4, <2>1 DEF ScriptFile, ForTarget, SharedKeys, LibraryKeys, BinaryKeys
  <2>4. Item("build", d.node) \in DOMAIN built
    <3>1. "build" \in TypesOf(d.node)
      BY <1>1, <1>4, HasDrvIs
    <3>2. Item("build", d.node) \in OwnInputs(d)
      BY <1>4, <3>1 DEF OwnInputs
    <3> QED
      BY <1>1, <3>2
  <2> QED
    BY <2>2, <2>3, <2>4
<1> QED
  BY <1>3, <1>4

(* A crate gets the arguments that the build script of its own package     *)
(* prints for it, and the script has run by then                           *)
(* (parse-build-script-output.sh and configure_phase).                     *)
THEOREM FlagsTheorem == Spec => []FlagsOfOwnScript
<1>1. CompileInv => FlagsOfOwnScript
  BY InvFlags
<1> QED
  BY <1>1, CompileInvariant, PTL

-------------------------------------------------------------------------------
(* The native libraries.                                                   *)

BelowStep(below, k) ==
  {k} \cup UNION {below[d.to] : d \in {x \in ToSet(ws.deps[k]) : x.kind # "development"}}

(* A dependency that is not for development is on an earlier package, and  *)
(* for the build script or for the crates.                                 *)
LEMMA DependsOn ==
  ASSUME Given, NEW k \in 1..Size, NEW d \in ToSet(ws.deps[k]), d.kind # "development"
  PROVE  d.to \in 1..(k - 1) /\ d.to \in Direct(k, "build") \cup Direct(k, "normal")
<1>1. d.kind \in {"normal", "build", "development"} /\ d.to \in 1..(k - 1)
  BY WorkspacesAssumption DEF Given, Size
<1> QED
  BY <1>1 DEF Direct

LEMMA BelowExtends ==
  ASSUME Given, NEW n \in Nat, n + 1 <= Size,
         NEW e, e = [k \in 1..n |-> BelowStep(e, k)]
  PROVE  \E f : f = [k \in 1..(n + 1) |-> BelowStep(f, k)]
<1> DEFINE f == [k \in 1..(n + 1) |-> BelowStep(e, k)]
<1>1. \A k \in 1..n : f[k] = e[k]
  <2>1. \A k \in 1..n : k \in 1..(n + 1) /\ f[k] = BelowStep(e, k)
    OBVIOUS
  <2>2. \A k \in 1..n : e[k] = BelowStep(e, k)
    OBVIOUS
  <2> QED
    BY <2>1, <2>2
<1>2. ASSUME NEW k \in 1..(n + 1)
      PROVE  BelowStep(e, k) = BelowStep(f, k)
  <2>1. k \in 1..Size
    BY PackagesGiven
  <2>2. \A d \in ToSet(ws.deps[k]) : d.kind # "development" => d.to \in 1..n
    <3>1. 1..(k - 1) \subseteq 1..n
      OBVIOUS
    <3> QED
      BY <2>1, <3>1, DependsOn
  <2> HIDE DEF f
  <2> DEFINE needed == {x \in ToSet(ws.deps[k]) : x.kind # "development"}
  <2>3. \A d \in needed : e[d.to] = f[d.to]
    BY <1>1, <2>2
  <2> HIDE DEF needed
  <2>4. {e[d.to] : d \in needed} = {f[d.to] : d \in needed}
    BY ONLY <2>3
  <2> QED
    BY <2>4 DEF BelowStep, needed
<1>3. f = [k \in 1..(n + 1) |-> BelowStep(f, k)]
  <2>1. \A k \in 1..(n + 1) : f[k] = BelowStep(f, k)
    BY <1>2
  <2>2. f = [k \in 1..(n + 1) |-> f[k]]
    OBVIOUS
  <2> HIDE DEF f
  <2> QED
    BY <2>1, <2>2
<1> QED
  BY <1>3

LEMMA BelowIs ==
  ASSUME Given
  PROVE  \A k \in 1..Size : Below[k] = BelowStep(Below, k)
<1> DEFINE Defines(f, n) == f = [k \in 1..n |-> BelowStep(f, k)]
           Missing == {n \in 0..Size : ~\E f : Defines(f, n)}
<1>1. Size \in Nat
  BY PackagesGiven
<1>2. Missing = {}
  <2>1. SUFFICES ASSUME Missing # {} PROVE FALSE
    OBVIOUS
  <2>2. PICK m \in Missing : \A n \in Missing : m <= n
    <3>1. Missing \subseteq Nat
      BY <1>1
    <3> HIDE DEF Missing
    <3> QED
      BY <2>1, <3>1, LeastOf
  <2>3. m # 0
    <3>1. Defines([k \in 1..0 |-> {}], 0)
      OBVIOUS
    <3> QED
      BY <2>2, <3>1
  <2>4. m - 1 \in Nat /\ m - 1 \in 0..Size /\ ~(m <= m - 1) /\ (m - 1) + 1 = m /\ m <= Size
    BY <1>1, <2>2, <2>3
  <2>5. m - 1 \notin Missing
    BY <2>2, <2>4
  <2>6. \E f : Defines(f, m - 1)
    BY <2>4, <2>5
  <2>7. \E f : Defines(f, (m - 1) + 1)
    BY <2>4, <2>6, BelowExtends
  <2> QED
    BY <2>2, <2>4, <2>7
<1>3. \E f : Defines(f, Size)
  BY <1>1, <1>2
<1>4. Below = CHOOSE f : Defines(f, Size)
  BY DEF Below, BelowStep
<1>5. Defines(Below, Size)
  <2> HIDE DEF Defines
  <2> QED
    BY <1>3, <1>4
<1> QED
  BY <1>5

LEMMA ReachStep ==
  ASSUME CompileInv, NEW n \in 1..Size, Item("deps", n) \in DOMAIN built,
         \A j \in 1..(n - 1) : Item("deps", j) \in DOMAIN built =>
           \A k \in Below[j] : GivenTo(k) \subseteq built[Item("deps", j)].natives,
         NEW k \in Below[n]
  PROVE  GivenTo(k) \subseteq built[Item("deps", n)].natives
<1> DEFINE d == Item("deps", n)
<1>1. /\ d.type = "deps" /\ d.node = n
      /\ op = "build" /\ Complete /\ d \in DOMAIN drvs
      /\ built[d] = deps_install_phase(n)
      /\ ToSet(drvs[d].buildInputs) = OwnInputs(d) \cup GivenTo(n)
      /\ OwnInputs(d) \subseteq DOMAIN built
  <2>1. d.type = "deps" /\ d.node = n
    BY DEF Item
  <2> HIDE DEF d
  <2>2. d \in DOMAIN built
    BY DEF d
  <2> QED
    BY <2>1, <2>2, BuiltIs DEF ResultOf
<1> HIDE DEF d
<1>2. /\ built[d].natives
           = NativesOf(d) \cup UNION {built[Item("deps", x.node)].natives : x \in ToSet(AllDirectDeps(n))}
  BY <1>1 DEF deps_install_phase, d
<1>3. k = n \/ \E e \in ToSet(ws.deps[n]) : e.kind # "development" /\ k \in Below[e.to]
  <2>1. k \in BelowStep(Below, n)
    BY BelowIs DEF CompileInv, Given
  <2> QED
    BY <2>1 DEF BelowStep
<1>4. CASE k = n
  <2>1. GivenTo(n) \subseteq NativesOf(d)
    BY <1>1, GivenNative DEF NativesOf, IsNative
  <2> QED
    BY <1>2, <1>4, <2>1 DEF d
<1>5. CASE k # n
  <2>1. PICK e \in ToSet(ws.deps[n]) : e.kind # "development" /\ k \in Below[e.to]
    BY <1>3, <1>5
  <2> DEFINE j == e.to
             x == Item("lib", j)
  <2>2. j \in 1..(n - 1) /\ j \in Direct(n, "build") \cup Direct(n, "normal")
    BY <2>1, DependsOn DEF CompileInv, Given
  <2>3. x \in ToSet(AllDirectDeps(n)) /\ x.node = j
    BY <1>1, <2>2, InputsOfDeps DEF Item
  <2>4. Item("deps", x.node) \in DOMAIN built
    BY <1>1, <2>3, LinkedDirectories DEF d
  <2>5. GivenTo(k) \subseteq built[Item("deps", x.node)].natives
    BY <2>1, <2>2, <2>3, <2>4
  <2> HIDE DEF x
  <2>6. built[Item("deps", x.node)].natives \subseteq built[d].natives
    BY <1>2, <2>3
  <2> QED
    BY <2>5, <2>6 DEF d
<1> QED
  BY <1>4, <1>5

(* A deps directory holds the native libraries of everything below it.     *)
LEMMA Reaches ==
  ASSUME CompileInv
  PROVE  \A n \in 1..Size : Item("deps", n) \in DOMAIN built =>
           \A k \in Below[n] : GivenTo(k) \subseteq built[Item("deps", n)].natives
<1> DEFINE Good(n) == Item("deps", n) \in DOMAIN built =>
                        \A k \in Below[n] : GivenTo(k) \subseteq built[Item("deps", n)].natives
           Bad == {n \in 1..Size : ~Good(n)}
<1>1. SUFFICES ASSUME Bad # {} PROVE FALSE
  OBVIOUS
<1>2. PICK n \in Bad : \A j \in Bad : n <= j
  <2>1. Bad \subseteq Nat
    OBVIOUS
  <2> HIDE DEF Bad
  <2> QED
    BY <1>1, <2>1, LeastOf
<1>3. Size \in Nat /\ n \in 1..Size
  BY <1>2, PackagesGiven DEF CompileInv, Given
<1>4. \A j \in 1..(n - 1) : Good(j)
  <2> SUFFICES ASSUME NEW j \in 1..(n - 1) PROVE Good(j)
    OBVIOUS
  <2>1. j \in 1..Size /\ ~(n <= j)
    BY <1>3
  <2> HIDE DEF Good
  <2> QED
    BY <1>2, <2>1
<1>5. Good(n)
  BY <1>3, <1>4, ReachStep
<1> QED
  BY <1>2, <1>5

LEMMA InvOverridesReach ==
  ASSUME CompileInv
  PROVE  OverridesReach
<1> SUFFICES ASSUME NEW d \in DOMAIN built, d.type # "deps"
             PROVE  /\ GivenTo(d.node) \subseteq ToSet(drvs[d].buildInputs)
                    /\ \A k \in Below[d.node] :
                         GivenTo(k) \subseteq built[Item("deps", d.node)].natives
  BY DEF OverridesReach
<1>1. /\ d.node \in 1..Size
      /\ ToSet(drvs[d].buildInputs) = OwnInputs(d) \cup GivenTo(d.node)
      /\ OwnInputs(d) \subseteq DOMAIN built
  BY BuiltIs
<1>2. Item("deps", d.node) \in DOMAIN built
  BY <1>1 DEF OwnInputs
<1> QED
  BY <1>1, <1>2, Reaches

(* The native libraries the overrides give a package reach everything      *)
(* compiled above it, through the deps directories (apply_overrides and    *)
(* make_deps in make_derivation.rs).                                       *)
THEOREM OverridesTheorem == Spec => []OverridesReach
<1>1. CompileInv => OverridesReach
  BY InvOverridesReach
<1> QED
  BY <1>1, CompileInvariant, PTL

-------------------------------------------------------------------------------
(* The commands.                                                           *)

(* The renames for the crates of a type.                                   *)
RenamesFor(type, k) ==
  IF type = "build" THEN graph[k].build_script.dependency_renames
  ELSE graph[k].dependency_renames

LEMMA CrateRenames ==
  ASSUME NEW k, NEW type \in {"build", "lib", "bin"}, NEW i \in DOMAIN CratesOf(type, graph[k])
  PROVE  CratesOf(type, graph[k])[i].deps_renames = RenamesFor(type, k)
<1>1. CASE type = "build"
  BY <1>1 DEF CratesOf, Crate, RenamesFor
<1>2. CASE type = "lib"
  BY <1>2 DEF CratesOf, Crate, RenamesFor
<1>3. CASE type = "bin"
  BY <1>3 DEF CratesOf, Crate, RenamesFor
<1> QED
  BY <1>1, <1>2, <1>3

(* A command names the direct dependencies of its kind in their order.     *)
LEMMA ExternsOf ==
  ASSUME CompileInv, NEW d \in DOMAIN built, NEW c \in ToSet(built[d].commands)
  PROVE  /\ d.type \in {"build", "lib", "bin"}
         /\ c.externs = dependencies_rustc_args(graph, DirectOf(d.type, d.node),
                                                RenamesFor(d.type, d.node))
<1>1. built[d] = ResultOf(d) /\ d.type \in Types
  BY BuiltIs
<1>2. d.type # "deps"
  <2>1. SUFFICES ASSUME d.type = "deps" PROVE FALSE
    OBVIOUS
  <2>2. built[d].commands = << >>
    BY <1>1, <2>1 DEF ResultOf, deps_install_phase
  <2> QED
    BY <2>2 DEF ToSet
<1>3. d.type \in {"build", "lib", "bin"}
  BY <1>1, <1>2 DEF Types
<1> DEFINE crates == CratesOf(d.type, graph[d.node])
           direct == DirectOf(d.type, d.node)
<1>4. c \in ToSet(build_phase(d.type, d.node))
  <2>1. built[d].commands = IF Own(d, "buildPhase")
                            THEN build_phase(d.type, d.node) ELSE << >>
    BY <1>1, <1>2 DEF ResultOf, Compiled
  <2>2. c \notin ToSet(<< >>)
    BY DEF ToSet
  <2> QED
    BY <2>1, <2>2
<1>5. PICK i \in DOMAIN crates : c = build_rustc_args(ws, graph, d.node, crates[i], direct)
  <2>1. build_phase(d.type, d.node)
          = [i \in DOMAIN crates |-> build_rustc_args(ws, graph, d.node, crates[i], direct)]
    BY DEF build_phase
  <2> HIDE DEF crates, direct
  <2> QED
    BY <1>4, <2>1 DEF ToSet
<1>6. c.externs = dependencies_rustc_args(graph, direct, crates[i].deps_renames)
  BY <1>5 DEF build_rustc_args
<1>7. crates[i].deps_renames = RenamesFor(d.type, d.node)
  BY <1>3, CrateRenames
<1> QED
  BY <1>3, <1>6, <1>7

LEMMA DirectOfIs ==
  ASSUME Complete, NEW d \in DrvsUpTo(Size), d.type \in {"build", "lib", "bin"}
  PROVE  /\ DirectOf(d.type, d.node) = DirectDeps(d.node, KindFor(d))
         /\ DOMAIN DirectOf(d.type, d.node) = 1..Len(DepsOfKind(ws, d.node, KindFor(d)))
         /\ Len(DepsOfKind(ws, d.node, KindFor(d))) \in Nat
         /\ \A i \in DOMAIN DirectOf(d.type, d.node) :
              /\ DirectOf(d.type, d.node)[i] = DepsOfKind(ws, d.node, KindFor(d))[i].to
              /\ DirectOf(d.type, d.node)[i] \in 1..Size
              /\ LibraryCrate(ws, DirectOf(d.type, d.node)[i]) # None
              /\ Item("lib", DirectOf(d.type, d.node)[i]) \in OwnInputs(d)
<1> DEFINE kind == KindFor(d)
           direct == DirectDeps(d.node, kind)
           deps == DepsOfKind(ws, d.node, kind)
           k == d.node
           V == 1..(k - 1)
<1>1. k \in 1..Size /\ kind \in {"normal", "build"} /\ Size \in Nat
  BY CompleteDomain DEF DrvsUpTo, KindFor
<1>2. DirectOf(d.type, d.node) = direct
  BY DEF DirectOf, KindFor
<1>3. kind = IF d.type = "build" THEN "build" ELSE "normal"
  BY DEF KindFor
<1> HIDE DEF k, kind
<1>4. /\ direct \in Seq(V) /\ Len(direct) = Len(deps)
      /\ \A i \in 1..Len(deps) : direct[i] = deps[i].to
      /\ \A j \in ToSet(direct) : LibraryCrate(ws, j) # None
      /\ ToSet(direct) = Direct(k, kind)
  BY <1>1, DirectGiven DEF Complete, Direct, k
<1> HIDE DEF direct, deps, V
<1>5. DOMAIN direct = 1..Len(deps) /\ Len(deps) \in Nat
  BY <1>4
<1>6. \A i \in DOMAIN direct : direct[i] \in ToSet(direct)
  BY DEF ToSet
<1>7. \A i \in DOMAIN direct : direct[i] \in 1..Size
  <2>1. \A i \in DOMAIN direct : direct[i] \in V
    BY <1>4
  <2> QED
    BY <1>1, <2>1 DEF V
<1>8. \A j \in Direct(k, kind) : Item("lib", j) \in OwnInputs(d)
  BY <1>3 DEF OwnInputs, k
<1>9. \A i \in DOMAIN direct : Item("lib", direct[i]) \in OwnInputs(d)
  BY <1>4, <1>6, <1>8
<1>10. /\ DOMAIN direct = 1..Len(deps) /\ Len(deps) \in Nat
       /\ \A i \in DOMAIN direct :
            /\ direct[i] = deps[i].to /\ direct[i] \in 1..Size
            /\ LibraryCrate(ws, direct[i]) # None /\ Item("lib", direct[i]) \in OwnInputs(d)
  BY <1>4, <1>5, <1>6, <1>7, <1>9
<1>11. direct = DirectDeps(d.node, KindFor(d)) /\ deps = DepsOfKind(ws, d.node, KindFor(d))
  BY DEF direct, deps, kind
<1> QED
  BY <1>2, <1>10, <1>11

(* The library that Cargo says a package has.                              *)
LEMMA LibraryGiven ==
  ASSUME Given, NEW j \in 1..Size, NEW lib, lib = LibraryCrate(ws, j), lib # None
  PROVE  /\ Underscored(lib.name) = lib.name
         /\ "ProcMacro" \in ToSet(lib.formats) => is_proc_macro(lib.formats)
<1> DEFINE targets == ws.packages[j].targets
           isLib == {t \in ToSet(targets) : t.kind = "lib"}
           libs == Kept(targets, isLib)
           T == ToSet(targets)
<1>1. /\ targets \in Seq(T)
      /\ \A t \in T : t.kind = "lib" =>
           /\ t.name \in Seq(ToSet(t.name) \ {"-"})
           /\ "ProcMacro" \in ToSet(t.formats) => t.formats = <<"ProcMacro">>
  BY WorkspacesAssumption DEF Given, Size
<1>2. TargetsOf(ws.packages[j], "lib") = libs
  BY DEF TargetsOf
<1>3. libs # << >> /\ lib.name = Head(libs).name /\ lib.formats = Head(libs).formats
  BY <1>2 DEF LibraryCrate
<1>4. \A t \in isLib : t \in T /\ t.kind = "lib"
  OBVIOUS
<1> HIDE DEF targets, isLib, T
<1>5. libs \in Seq(T) /\ ToSet(libs) = ToSet(targets) \cap isLib
  BY <1>1, KeptElements
<1> HIDE DEF libs
<1>6. Head(libs) \in isLib
  <2>1. 1 \in DOMAIN libs /\ Head(libs) = libs[1]
    BY <1>3, <1>5
  <2> QED
    BY <1>5, <2>1 DEF ToSet
<1> DEFINE t == Head(libs)
<1>7. /\ t.name \in Seq(ToSet(t.name) \ {"-"})
      /\ "ProcMacro" \in ToSet(t.formats) => t.formats = <<"ProcMacro">>
  BY <1>1, <1>4, <1>6
<1> DEFINE name == t.name
           Parts == ToSet(name) \ {"-"}
<1>8. Underscored(name) = name
  <2>1. name \in Seq(Parts)
    BY <1>7
  <2>2. \A p \in Parts : p # "-"
    OBVIOUS
  <2> HIDE DEF name, Parts
  <2>3. name = [i \in DOMAIN name |-> name[i]]
    BY <2>1
  <2>4. \A i \in DOMAIN name : name[i] # "-"
    BY <2>1, <2>2
  <2> QED
    BY <2>3, <2>4 DEF Underscored
<1> QED
  BY <1>3, <1>7, <1>8 DEF is_proc_macro

(* What a library's own command writes, where its build phase is the usual *)
(* one.                                                                    *)
LEMMA LibraryFiles ==
  ASSUME CompileInv, NEW j \in 1..Size, Item("lib", j) \in DOMAIN built,
         graph[j].library # None, LinkableStatically(j), Own(Item("lib", j), "buildPhase")
  PROVE  LinkedFile(graph[j]) \in built[Item("lib", j)].files
<1> DEFINE drv == Item("lib", j)
           lib == graph[j].library
           crate == Crate(lib.name, "lib", lib.formats, graph[j].dependency_renames,
                          lib.build_opts)
           direct == DirectOf("lib", j)
           command == build_rustc_args(ws, graph, j, crate, direct)
           metadata == crate_metadata(lib.name, graph[j].version, graph[j].features,
                                      lib.build_opts)
<1>1. drv.type = "lib" /\ drv.node = j
  BY DEF Item
<1>2. /\ built[drv] = ResultOf(drv) /\ Complete
      /\ lib = LibraryCrate(ws, j)
  <2>1. built[drv] = ResultOf(drv) /\ Complete
    <3> HIDE DEF drv
    <3> QED
      BY BuiltIs DEF drv
  <2> QED
    BY <2>1 DEF Complete, BuildGraphNode
<1>3. /\ Underscored(lib.name) = lib.name
      /\ "ProcMacro" \in ToSet(lib.formats) => is_proc_macro(lib.formats)
  <2> HIDE DEF lib
  <2>1. lib # None
    BY DEF lib
  <2> QED
    BY <1>2, <2>1, LibraryGiven DEF Complete
<1>4. command \in ToSet(build_phase("lib", j))
  <2>1. CratesOf("lib", graph[j]) = << crate >>
    BY DEF CratesOf
  <2> HIDE DEF crate
  <2>2. build_phase("lib", j)
          = [i \in DOMAIN << crate >> |->
              build_rustc_args(ws, graph, j, << crate >>[i], direct)]
    BY <2>1 DEF build_phase
  <2> HIDE DEF direct
  <2>3. DOMAIN << crate >> = {1} /\ << crate >>[1] = crate
    OBVIOUS
  <2>4. DOMAIN build_phase("lib", j) = {1} /\ build_phase("lib", j)[1] = command
    BY <2>2, <2>3
  <2> HIDE DEF command
  <2> QED
    BY <2>4 DEF ToSet
<1>5. FilesWritten(command) \subseteq built[drv].files
  <2>1. built[drv].files = UNION {FilesWritten(c) : c \in ToSet(build_phase("lib", j))}
    BY <1>1, <1>2 DEF ResultOf, Compiled
  <2> HIDE DEF command
  <2> QED
    BY <1>4, <2>1
<1>6. /\ command.type = "lib" /\ command.crate_name = lib.name /\ command.formats = lib.formats
  BY <1>3 DEF build_rustc_args, Crate
<1>7. command.metadata = metadata
  <2>1. is_usable_as_dependency(crate)
    BY DEF is_usable_as_dependency, format_is_usable, LinkableStatically, Crate
  <2> QED
    BY <2>1 DEF build_rustc_args, Crate
<1>8. LinkedFile(graph[j]) = [crate |-> lib.name, metadata |-> metadata,
                              extension |-> IF is_proc_macro(lib.formats) THEN "so" ELSE "rlib"]
  BY DEF LinkedFile, LinkedAs
<1> HIDE DEF command, metadata, lib
<1>9. PICK f \in ToSet(lib.formats) : f \in {"Lib", "Rlib", "ProcMacro"}
  BY DEF LinkableStatically, lib
<1>10. ExtensionOf(f) = IF is_proc_macro(lib.formats) THEN "so" ELSE "rlib"
  <2>1. CASE "ProcMacro" \in ToSet(lib.formats)
    <3>1. is_proc_macro(lib.formats) /\ lib.formats = << "ProcMacro" >>
      BY <1>3, <2>1 DEF is_proc_macro
    <3>2. f = "ProcMacro"
      BY <1>9, <3>1 DEF ToSet
    <3> QED
      BY <3>1, <3>2 DEF ExtensionOf
  <2>2. CASE "ProcMacro" \notin ToSet(lib.formats)
    <3>1. lib.formats # << "ProcMacro" >>
      <4>1. "ProcMacro" \in ToSet(<< "ProcMacro" >>)
        BY DEF ToSet
      <4> QED
        BY <2>2, <4>1
    <3>2. f \in {"Lib", "Rlib"}
      BY <1>9, <2>2
    <3> QED
      BY <3>1, <3>2 DEF ExtensionOf, is_proc_macro
  <2> QED
    BY <2>1, <2>2
<1>11. LinkedFile(graph[j]) \in FilesWritten(command)
  BY <1>6, <1>7, <1>8, <1>9, <1>10 DEF FilesWritten
<1> QED
  BY <1>5, <1>11

LEMMA InvLibrariesFound ==
  ASSUME CompileInv
  PROVE  LibrariesFound
<1> SUFFICES ASSUME NEW d \in DOMAIN built, NEW c \in ToSet(built[d].commands),
                    NEW e \in ToSet(c.externs),
                    LinkableStatically(e.drv.node), Own(e.drv, "buildPhase")
             PROVE  e.drv \in DOMAIN built /\ e.file \in built[e.drv].files
  BY DEF LibrariesFound
<1> DEFINE direct == DirectOf(d.type, d.node)
<1>1. /\ d.type \in {"build", "lib", "bin"}
      /\ c.externs = dependencies_rustc_args(graph, direct, RenamesFor(d.type, d.node))
  BY ExternsOf
<1>2. Complete /\ d \in DrvsUpTo(Size) /\ OwnInputs(d) \subseteq DOMAIN built
  BY BuiltIs
<1>3. \A i \in DOMAIN direct :
        /\ direct[i] \in 1..Size /\ LibraryCrate(ws, direct[i]) # None
        /\ Item("lib", direct[i]) \in OwnInputs(d)
  BY <1>1, <1>2, DirectOfIs
<1> HIDE DEF direct
<1>4. PICK i \in DOMAIN direct : /\ e.drv = Item("lib", direct[i])
                                 /\ e.file = LinkedFile(graph[direct[i]])
  BY <1>1 DEF dependencies_rustc_args, ToSet, Item
<1> DEFINE j == direct[i]
<1>5. /\ j \in 1..Size /\ e.drv = Item("lib", j) /\ e.drv.node = j
      /\ Item("lib", j) \in DOMAIN built /\ graph[j].library # None
  BY <1>2, <1>3, <1>4 DEF Complete, BuildGraphNode, Item
<1> HIDE DEF j
<1>6. LinkedFile(graph[j]) \in built[Item("lib", j)].files
  BY <1>5, LibraryFiles
<1> QED
  BY <1>4, <1>5, <1>6 DEF j

(* The file named for a dependency is one that the dependency's command    *)
(* has written (dependencies_rustc_args and build_rustc_args).             *)
THEOREM LibrariesTheorem == Spec => []LibrariesFound
<1>1. CompileInv => LibrariesFound
  BY InvLibrariesFound
<1> QED
  BY <1>1, CompileInvariant, PTL

-------------------------------------------------------------------------------
(* The renames.                                                            *)

Entry(v) == [rename |-> v.rename, version_req |-> v.version_req]

EntriesOf(versions) == [m \in DOMAIN versions |-> Entry(versions[m])]

VersionsOf(k, kind, name) ==
  LET renamed == Renamed(ws, k, kind)
  IN  Kept(renamed, {v \in ToSet(renamed) : NameOf(ws, v) = name})

(* The renamed dependencies of a kind on packages of a name.               *)
LEMMA VersionsAre ==
  ASSUME Given, NEW k \in 1..Size, NEW kind, NEW name
  PROVE  /\ VersionsOf(k, kind, name) \in Seq(ToSet(ws.deps[k]))
         /\ ToSet(VersionsOf(k, kind, name))
              = {v \in ToSet(DepsOfKind(ws, k, kind)) : v.rename # None /\ NameOf(ws, v) = name}
         /\ ToSet(Renamed(ws, k, kind)) = {v \in ToSet(DepsOfKind(ws, k, kind)) : v.rename # None}
<1> DEFINE T == ToSet(ws.deps[k])
           deps == DepsOfKind(ws, k, kind)
           R == {v \in ToSet(deps) : v.rename # None}
           renamed == Kept(deps, R)
           N == {v \in ToSet(renamed) : NameOf(ws, v) = name}
           versions == Kept(renamed, N)
<1>1. deps \in Seq(T)
  BY DepsGiven
<1>2. Renamed(ws, k, kind) = renamed
  BY DEF Renamed
<1>3. VersionsOf(k, kind, name) = versions
  BY <1>2 DEF VersionsOf
<1>4. R \subseteq ToSet(deps)
  OBVIOUS
<1> HIDE DEF T, deps, R
<1>5. renamed \in Seq(T) /\ ToSet(renamed) = ToSet(deps) \cap R
  BY <1>1, KeptElements
<1>6. N \subseteq ToSet(renamed)
  OBVIOUS
<1> HIDE DEF renamed, N
<1>7. versions \in Seq(T) /\ ToSet(versions) = ToSet(renamed) \cap N
  BY <1>5, KeptElements
<1> HIDE DEF versions
<1>8. ToSet(renamed) = R /\ ToSet(versions) = N
  BY <1>4, <1>5, <1>6, <1>7
<1>9. N = {v \in ToSet(deps) : v.rename # None /\ NameOf(ws, v) = name}
  BY <1>8 DEF N, R
<1> QED
  BY <1>2, <1>3, <1>7, <1>8, <1>9 DEF T, deps, R

LEMMA RenamesAre ==
  ASSUME NEW k, NEW kind
  PROVE  /\ DOMAIN dependency_renames(ws, k, kind)
              = {NameOf(ws, v) : v \in ToSet(Renamed(ws, k, kind))}
         /\ \A name \in DOMAIN dependency_renames(ws, k, kind) :
              dependency_renames(ws, k, kind)[name]
                = [type |-> IF Len(VersionsOf(k, kind, name)) \in {1} THEN "Simple" ELSE "Extended",
                   versions |-> EntriesOf(VersionsOf(k, kind, name))]
BY DEF dependency_renames, RenamesWith, VersionsOf, EntriesOf, Entry

LEMMA EntriesAre ==
  ASSUME NEW T, NEW versions \in Seq(T)
  PROVE  /\ EntriesOf(versions) \in Seq({Entry(v) : v \in ToSet(versions)})
         /\ ToSet(EntriesOf(versions)) = {Entry(v) : v \in ToSet(versions)}
         /\ Len(EntriesOf(versions)) = Len(versions)
<1> DEFINE s == EntriesOf(versions)
           E == {Entry(v) : v \in ToSet(versions)}
<1>1. DOMAIN versions = 1..Len(versions) /\ Len(versions) \in Nat
  OBVIOUS
<1>2. DOMAIN s = DOMAIN versions /\ s = [m \in DOMAIN versions |-> s[m]]
      /\ \A m \in DOMAIN versions : s[m] = Entry(versions[m])
  BY DEF EntriesOf
<1>3. \A m \in DOMAIN versions : Entry(versions[m]) \in E
  BY DEF ToSet
<1>4. ToSet(s) = E
  BY <1>2 DEF ToSet
<1> HIDE DEF s, E
<1>5. s \in [DOMAIN versions -> E]
  BY <1>2, <1>3
<1>6. s \in Seq(E) /\ Len(s) = Len(versions)
  BY <1>5, ToSetMap
<1> QED
  BY <1>4, <1>6 DEF s, E

LEMMA FirstElement ==
  ASSUME NEW T, NEW s \in Seq(T), s # << >>
  PROVE  Head(s) \in ToSet(s)
BY DEF ToSet

LEMMA OnlyElement ==
  ASSUME NEW T, NEW s \in Seq(T), Len(s) = 1, NEW x \in ToSet(s)
  PROVE  x = Head(s)
<1>1. DOMAIN s = {1} /\ Head(s) = s[1]
  OBVIOUS
<1> QED
  BY <1>1 DEF ToSet

LEMMA RenameChosen ==
  ASSUME Complete, NEW k \in 1..Size, NEW kind \in {"normal", "build"},
         AllTold(DepsOfKind(ws, k, kind)), NEW i \in DOMAIN DepsOfKind(ws, k, kind)
  PROVE  ExternName(graph[DepsOfKind(ws, k, kind)[i].to], dependency_renames(ws, k, kind))
           = NameInToml(DepsOfKind(ws, k, kind)[i])
<1> DEFINE deps == DepsOfKind(ws, k, kind)
           dep == deps[i]
           node == graph[dep.to]
           name == NameOf(ws, dep)
           version == ws.packages[dep.to].version
           renames == dependency_renames(ws, k, kind)
           versions == VersionsOf(k, kind, name)
           entries == EntriesOf(versions)
           Match == {v \in ToSet(entries) : version \in v.version_req}
           matching == Kept(entries, Match)
           T == ToSet(ws.deps[k])
<1>1. dep \in ToSet(deps)
  BY DEF ToSet
<1>2. dep.to \in 1..(k - 1) /\ version \in dep.version_req
  BY <1>1, DepsGiven DEF Complete
<1>3. node.name = name /\ node.version = version
  <2>1. dep.to \in 1..Size
    BY <1>2, CompleteDomain
  <2> QED
    BY <2>1 DEF Complete, BuildGraphNode, NameOf
<1>4. /\ versions \in Seq(T)
      /\ ToSet(versions) = {v \in ToSet(deps) : v.rename # None /\ NameOf(ws, v) = name}
      /\ ToSet(Renamed(ws, k, kind)) = {v \in ToSet(deps) : v.rename # None}
  <2> HIDE DEF name, deps, T
  <2>1. Given
    BY DEF Complete
  <2>2. /\ versions \in Seq(ToSet(ws.deps[k]))
        /\ ToSet(versions) = {v \in ToSet(DepsOfKind(ws, k, kind)) :
                                v.rename # None /\ NameOf(ws, v) = name}
        /\ ToSet(Renamed(ws, k, kind))
             = {v \in ToSet(DepsOfKind(ws, k, kind)) : v.rename # None}
    BY <2>1, VersionsAre
  <2> QED
    BY <2>2 DEF deps, T
<1>5. \A v \in ToSet(deps) : NameOf(ws, v) = name => Told(dep, v)
  BY DEF AllTold, ToSet
<1>6. /\ DOMAIN renames = {NameOf(ws, v) : v \in ToSet(Renamed(ws, k, kind))}
      /\ name \in DOMAIN renames =>
           renames[name] = [type |-> IF Len(versions) \in {1} THEN "Simple" ELSE "Extended",
                            versions |-> entries]
  BY RenamesAre
<1>7. NameInToml(dep) = IF dep.rename = None THEN node.library.name ELSE dep.rename
  BY DEF NameInToml
<1>8. ExternName(node, renames)
        = IF name \notin DOMAIN renames THEN node.library.name
          ELSE IF renames[name].type = "Simple" THEN Head(renames[name].versions).rename
          ELSE FirstOr(Kept(renames[name].versions,
                            {v \in ToSet(renames[name].versions) : version \in v.version_req}),
                       [rename |-> node.library.name]).rename
  BY <1>3 DEF ExternName
<1> HIDE DEF deps, dep, node, name, version, renames
<1>9. CASE name \notin DOMAIN renames
  <2>1. dep.rename = None
    BY <1>1, <1>4, <1>6, <1>9 DEF name
  <2> QED
    BY <1>7, <1>8, <1>9, <2>1 DEF dep, node, renames, deps
<1>10. CASE name \in DOMAIN renames
  <2>1. PICK w \in ToSet(deps) : w.rename # None /\ NameOf(ws, w) = name
    BY <1>4, <1>6, <1>10
  <2>2. dep.rename # None
    BY <1>5, <2>1 DEF Told
  <2>3. dep \in ToSet(versions)
    <3>1. NameOf(ws, dep) = name
      BY DEF name
    <3> QED
      BY <1>1, <1>4, <2>2, <3>1
  <2> HIDE DEF versions, T
  <2>4. /\ entries \in Seq({Entry(v) : v \in ToSet(versions)})
        /\ ToSet(entries) = {Entry(v) : v \in ToSet(versions)}
        /\ Len(entries) = Len(versions)
    BY <1>4, EntriesAre
  <2> DEFINE E == {Entry(v) : v \in ToSet(versions)}
  <2>5. Entry(dep) \in ToSet(entries)
    BY <2>3, <2>4
  <2>6. Match \subseteq ToSet(entries) /\ Entry(dep) \in Match
    BY <1>2, <2>5 DEF Entry
  <2>7. \A v \in Match : v.rename = dep.rename
    <3> SUFFICES ASSUME NEW v \in Match PROVE v.rename = dep.rename
      OBVIOUS
    <3>1. PICK w_1 \in ToSet(versions) : v = Entry(w_1)
      BY <2>4
    <3>2. version \in w_1.version_req /\ v.rename = w_1.rename
      BY <3>1 DEF Entry
    <3>3. Told(dep, w_1)
      BY <1>4, <1>5
    <3> QED
      BY <3>2, <3>3 DEF Told, version
  <2>8. renames[name].versions = entries
        /\ (renames[name].type = "Simple" => Len(versions) = 1)
    BY <1>6, <1>10
  <2> HIDE DEF entries, E
  <2>9. CASE renames[name].type = "Simple"
    <3>1. Entry(dep) = Head(entries)
      BY <2>4, <2>5, <2>8, <2>9, OnlyElement DEF E
    <3>2. ExternName(node, renames) = Head(entries).rename
      BY <1>8, <1>10, <2>8, <2>9
    <3>3. Entry(dep).rename = dep.rename
      BY DEF Entry
    <3> QED
      BY <1>7, <2>2, <3>1, <3>2, <3>3 DEF node, renames, dep, deps
  <2>10. CASE renames[name].type # "Simple"
    <3>1. ExternName(node, renames) = FirstOr(matching, [rename |-> node.library.name]).rename
      BY <1>8, <1>10, <2>8, <2>10
    <3> HIDE DEF Match
    <3>2. matching \in Seq(E) /\ ToSet(matching) = ToSet(entries) \cap Match
      BY <2>4, KeptElements DEF E
    <3> HIDE DEF matching
    <3>3. matching # << >>
      <4>1. ToSet(<< >>) = {}
        BY DEF ToSet
      <4> QED
        BY <2>5, <2>6, <3>2, <4>1
    <3>4. Head(matching) \in Match
      BY <3>2, <3>3, FirstElement
    <3>5. ExternName(node, renames) = Head(matching).rename
      BY <3>1, <3>3 DEF FirstOr
    <3> QED
      BY <1>7, <2>2, <2>7, <3>4, <3>5 DEF node, renames, dep, deps
  <2> QED
    BY <2>9, <2>10
<1> QED
  BY <1>9, <1>10

LEMMA InvRenamed ==
  ASSUME CompileInv
  PROVE  RenamedAsInToml
<1> SUFFICES ASSUME NEW d \in DOMAIN built, NEW c \in ToSet(built[d].commands),
                    NEW deps, deps = DepsOfKind(ws, d.node, KindFor(d)), AllTold(deps)
             PROVE  /\ Len(c.externs) = Len(deps)
                    /\ \A i \in DOMAIN deps :
                         /\ c.externs[i].drv = Item("lib", deps[i].to)
                         /\ c.externs[i].name = Underscored(NameInToml(deps[i]))
  BY DEF RenamedAsInToml
<1> DEFINE direct == DirectOf(d.type, d.node)
           renames == RenamesFor(d.type, d.node)
           externs == dependencies_rustc_args(graph, direct, renames)
           k == d.node
           kind == KindFor(d)
<1>1. d.type \in {"build", "lib", "bin"} /\ c.externs = externs
  BY ExternsOf
<1>2. Complete /\ d \in DrvsUpTo(Size) /\ k \in 1..Size /\ d.type \in TypesOf(k)
  BY BuiltIs
<1>3. /\ DOMAIN direct = 1..Len(deps) /\ Len(deps) \in Nat
      /\ \A i \in DOMAIN direct : direct[i] = deps[i].to
  BY <1>1, <1>2, DirectOfIs
<1>4. DOMAIN deps = 1..Len(deps)
  <2>1. deps \in Seq(ToSet(ws.deps[k]))
    BY <1>2, DepsGiven DEF Complete
  <2> QED
    BY <2>1
<1>5. kind \in {"normal", "build"}
  BY DEF KindFor
<1>6. renames = dependency_renames(ws, k, kind)
  <2>1. CASE d.type = "build"
    <3>1. graph[k].build_script # None
      BY <1>2, <2>1 DEF TypesOf
    <3>2. graph[k].build_script = BuildScript(ws, k)
      BY <1>2 DEF Complete, BuildGraphNode
    <3>3. BuildScript(ws, k).dependency_renames = dependency_renames(ws, k, "build")
      BY <3>1, <3>2 DEF BuildScript
    <3> QED
      BY <2>1, <3>2, <3>3 DEF RenamesFor, KindFor
  <2>2. CASE d.type # "build"
    <3>1. graph[k].dependency_renames = dependency_renames(ws, k, "normal")
      BY <1>2 DEF Complete, BuildGraphNode
    <3> QED
      BY <2>2, <3>1 DEF RenamesFor, KindFor
  <2> QED
    BY <2>1, <2>2
<1> HIDE DEF direct, renames, k, kind
<1>7. /\ DOMAIN externs = 1..Len(deps) /\ externs = [i \in 1..Len(deps) |-> externs[i]]
      /\ \A i \in 1..Len(deps) :
           /\ externs[i].drv = Item("lib", deps[i].to)
           /\ externs[i].name = Underscored(ExternName(graph[deps[i].to], renames))
  BY <1>3 DEF dependencies_rustc_args, Item
<1> HIDE DEF externs
<1>8. Len(externs) = Len(deps)
  <2> DEFINE U == {externs[i] : i \in 1..Len(deps)}
  <2>1. externs \in [1..Len(deps) -> U]
    BY <1>7
  <2> HIDE DEF U
  <2>2. externs \in Seq(U) /\ Len(externs) \in Nat /\ DOMAIN externs = 1..Len(externs)
    BY <1>3, <2>1
  <2> QED
    BY <1>3, <1>7, <2>2
<1>9. \A i \in DOMAIN deps : ExternName(graph[deps[i].to], renames) = NameInToml(deps[i])
  <2>1. deps = DepsOfKind(ws, k, kind)
    BY DEF k, kind
  <2> QED
    BY <1>2, <1>5, <1>6, <2>1, RenameChosen DEF k
<1> QED
  BY <1>1, <1>4, <1>7, <1>8, <1>9

(* Where its dependencies can be told apart, a crate finds each under the  *)
(* name its manifest has for it (DependencyRenames and                     *)
(* dependencies_rustc_args).                                               *)
THEOREM RenamesTheorem == Spec => []RenamedAsInToml
<1>1. CompileInv => RenamedAsInToml
  BY InvRenamed
<1> QED
  BY <1>1, CompileInvariant, PTL
================================================================================
