------------------------ MODULE ZfsSnapshots_proofs -------------------------
(***************************************************************************)
(* Proofs about ZfsSnapshots, for any processes, instances, sources and    *)
(* datasets and any number of faults and writes.                           *)
(*                                                                         *)
(* The snapshots of a process are followed through its loops: at every     *)
(* label the invariant bounds them from above (nothing leaks, NoLeak) and, *)
(* if no other instance shadows it, from below (what its mover reads is    *)
(* there, SnapshotsHeld), by what the zfs calls of the loop have still to  *)
(* act on (Left).  What a reap is about to destroy belongs to a backup     *)
(* that is over, and stays over (SafeInv).                                 *)
(***************************************************************************)
EXTENDS ZfsSnapshots, FiniteSetTheorems, SequenceTheorems, TLAPS

-----------------------------------------------------------------------------
(* Sequences made of sets, and the loops over them.                        *)

Union(seq) == UNION Range(seq)

\* SetToSeq lists every element of a finite set once.
LEMMA SetToSeqIs ==
  ASSUME NEW S, IsFiniteSet(S)
  PROVE  /\ SetToSeq(S) \in Seq(S)
         /\ Range(SetToSeq(S)) = S
         /\ SetToSeq(S) = <<>> <=> S = {}
         /\ \A i, j \in DOMAIN SetToSeq(S) : SetToSeq(S)[i] = SetToSeq(S)[j] => i = j
  <1> DEFINE n == Cardinality(S)
             f == SetToSeq(S)
  <1>1. n \in Nat /\ ExistsBijection(1..n, S)
    BY FS_CardinalityType
  <1>2. \E g \in [1..n -> S] : IsInjective(g)
    BY <1>1 DEF ExistsBijection, Bijection, Injection
  <1>3. f \in [1..n -> S] /\ IsInjective(f)
    <2>1. f = CHOOSE g \in [1..n -> S] : IsInjective(g)
      BY DEF SetToSeq
    <2> HIDE DEF f, n
    <2> QED  BY <1>2, <2>1
  <1> HIDE DEF f
  <1>4. f \in Injection(1..n, S)
    BY <1>3 DEF Injection
  <1>5. IsFiniteSet(1..n) /\ Cardinality(1..n) = n
    BY <1>1, FS_Interval
  <1>6. f \in Surjection(1..n, S)
    BY <1>4, <1>5, FS_Injection
  <1>7. Range(f) = S
    BY <1>6, <1>3 DEF Surjection, Range
  <1>8. f \in Seq(S)
    BY <1>1, <1>3
  <1>9. f = <<>> <=> S = {}
    BY <1>3, <1>7, <1>8, <1>1 DEF Range
  <1> QED  BY <1>3, <1>7, <1>8, <1>9 DEF f, IsInjective

LEMMA UnionIs ==
  ASSUME NEW T, NEW seq \in Seq(SUBSET T)
  PROVE  /\ Union(<<>>) = {}
         /\ Union(seq) \subseteq T
         /\ \A i \in DOMAIN seq : seq[i] \subseteq Union(seq)
         /\ \A x \in Union(seq) : \E i \in DOMAIN seq : x \in seq[i]
         /\ Union(seq) = UNION {seq[i] : i \in DOMAIN seq}
  BY DEF Union, Range

LEMMA UnionTail ==
  ASSUME NEW T, NEW seq \in Seq(SUBSET T), seq # <<>>
  PROVE  /\ Tail(seq) \in Seq(SUBSET T) /\ Head(seq) \subseteq T
         /\ Union(seq) = Head(seq) \cup Union(Tail(seq))
         /\ Head(seq) = seq[1]
         /\ DOMAIN Tail(seq) = 1..(Len(seq) - 1)
         /\ \A i \in DOMAIN Tail(seq) : i + 1 \in DOMAIN seq /\ Tail(seq)[i] = seq[i + 1]
         /\ 1 \in DOMAIN seq
         /\ \A i \in DOMAIN seq : i \in Nat /\ (i = 1 \/ i - 1 \in DOMAIN Tail(seq))
  <1>1. /\ Head(seq) = seq[1] /\ 1 \in DOMAIN seq /\ DOMAIN seq = 1..Len(seq)
        /\ Len(seq) \in Nat \ {0} /\ Head(seq) \subseteq T
    BY EmptySeq
  <1>2. /\ Tail(seq) \in Seq(SUBSET T) /\ Len(Tail(seq)) = Len(seq) - 1
        /\ \A i \in 1..Len(Tail(seq)) : Tail(seq)[i] = seq[i + 1]
    BY HeadTailProperties
  <1>3. /\ DOMAIN Tail(seq) = 1..(Len(seq) - 1)
        /\ \A i \in DOMAIN Tail(seq) : i + 1 \in DOMAIN seq /\ Tail(seq)[i] = seq[i + 1]
        /\ \A i \in DOMAIN seq : i \in Nat /\ (i = 1 \/ i - 1 \in DOMAIN Tail(seq))
    BY <1>1, <1>2
  <1>4. ASSUME NEW x \in Union(seq)
        PROVE  x \in Head(seq) \cup Union(Tail(seq))
    <2>1. PICK i \in DOMAIN seq : x \in seq[i]
      BY DEF Union, Range
    <2>2. CASE i = 1
      BY <2>1, <2>2, <1>1
    <2>3. CASE i # 1
      <3>1. i - 1 \in DOMAIN Tail(seq) /\ Tail(seq)[i - 1] = seq[i]
        BY <2>3, <1>1, <1>2, <1>3
      <3> QED  BY <3>1, <2>1 DEF Union, Range
    <2> QED  BY <2>2, <2>3
  <1>5. ASSUME NEW x \in Union(Tail(seq))
        PROVE  x \in Union(seq)
    <2>1. PICK i \in DOMAIN Tail(seq) : x \in Tail(seq)[i]
      BY DEF Union, Range
    <2> QED  BY <2>1, <1>3 DEF Union, Range
  <1>6. Head(seq) \subseteq Union(seq)
    BY <1>1 DEF Union, Range
  <1> QED  BY <1>1, <1>2, <1>3, <1>4, <1>5, <1>6

\* OneByOne makes one call for each.
LEMMA OneByOneIs ==
  ASSUME NEW N, IsFiniteSet(N)
  PROVE  /\ OneByOne(N) \in Seq(SUBSET N)
         /\ Union(OneByOne(N)) = N
         /\ OneByOne(N) = <<>> <=> N = {}
  <1> DEFINE S == {{s} : s \in N}
             f == [s \in N |-> {s}]
  <1>1. IsFiniteSet(S)
    <2>1. f \in Surjection(N, S)
      BY DEF Surjection
    <2> QED  BY <2>1, FS_Surjection
  <1>2. UNION S = N /\ (S = {} <=> N = {}) /\ S \subseteq SUBSET N
    OBVIOUS
  <1>3. OneByOne(N) = SetToSeq(S)
    BY DEF OneByOne
  <1> HIDE DEF S
  <1>4. OneByOne(N) \in Seq(S) /\ Range(OneByOne(N)) = S /\ (OneByOne(N) = <<>> <=> S = {})
    BY <1>1, <1>3, SetToSeqIs
  <1>5. OneByOne(N) \in Seq(SUBSET N)
    BY <1>2, <1>4, SeqMonotonic
  <1> QED  BY <1>2, <1>4, <1>5 DEF Union

\* GroupByPool makes one call for each pool.
LEMMA GroupByPoolIs ==
  ASSUME NEW N, IsFiniteSet(N)
  PROVE  LET g == GroupByPool(N) IN
         /\ g \in Seq(SUBSET N)
         /\ Union(g) = N
         /\ g = <<>> <=> N = {}
         /\ \A i \in DOMAIN g : \A s \in g[i], t \in N : t \in g[i] <=> Pool(t) = Pool(s)
         /\ \A i, j \in DOMAIN g : i # j => g[i] \cap g[j] = {}
  <1> DEFINE Class(t) == {s \in N : Pool(s) = Pool(t)}
             S == {Class(t) : t \in N}
             f == [t \in N |-> Class(t)]
             g == GroupByPool(N)
  <1>1. IsFiniteSet(S)
    <2>1. f \in Surjection(N, S)
      BY DEF Surjection
    <2> QED  BY <2>1, FS_Surjection
  <1>2. UNION S = N /\ (S = {} <=> N = {}) /\ S \subseteq SUBSET N
    <2>1. \A t \in N : t \in Class(t) /\ Class(t) \subseteq N
      OBVIOUS
    <2> HIDE DEF Class
    <2> QED  BY <2>1
  <1>3. \A c \in S : \A s \in c, t \in N : t \in c <=> Pool(t) = Pool(s)
    <2>1. ASSUME NEW u \in N, NEW s \in Class(u), NEW t \in N
          PROVE  t \in Class(u) <=> Pool(t) = Pool(s)
      OBVIOUS
    <2> HIDE DEF Class
    <2> QED  BY <2>1
  <1>4. g = SetToSeq(S)
    BY DEF GroupByPool
  <1> HIDE DEF S, g
  <1>5. /\ g \in Seq(S) /\ Range(g) = S /\ (g = <<>> <=> S = {})
        /\ \A i, j \in DOMAIN g : g[i] = g[j] => i = j
    BY <1>1, <1>4, SetToSeqIs
  <1>6. g \in Seq(SUBSET N)
    BY <1>2, <1>5, SeqMonotonic
  <1>7. \A i \in DOMAIN g : g[i] \in S
    BY <1>5 DEF Range
  <1>8. \A i \in DOMAIN g : \A s \in g[i], t \in N : t \in g[i] <=> Pool(t) = Pool(s)
    BY <1>7, <1>3
  <1>9. ASSUME NEW i \in DOMAIN g, NEW j \in DOMAIN g, NEW x \in g[i], x \in g[j]
        PROVE  i = j
    <2>1. g[i] \subseteq N /\ g[j] \subseteq N
      BY <1>6
    <2>2. g[i] = g[j]
      BY <2>1, <1>8, <1>9
    <2> QED  BY <2>2, <1>5
  <1> QED  BY <1>2, <1>5, <1>6, <1>8, <1>9 DEF Union, g

-----------------------------------------------------------------------------
(* Datasets and names.                                                     *)

\* A set of naturals that is not empty has a least element.
LEMMA LeastIs ==
  ASSUME NEW S \in SUBSET Nat, S # {}
  PROVE  \E m \in S : \A k \in S : m <= k
  <1>1. \E m \in S : \A k \in S : ~(<<k, m>> \in OpToRel(<, Nat))
    BY NatLessThanWellFounded, WFMin
  <1>2. PICK m \in S : \A k \in S : ~(<<k, m>> \in OpToRel(<, Nat))
    BY <1>1
  <1>3. \A k \in S : ~(k < m)
    BY <1>2 DEF OpToRel
  <1> QED  BY <1>3

LEMMA GreatestIs ==
  ASSUME NEW S \in SUBSET Nat, S # {}, NEW b \in Nat, \A k \in S : k <= b
  PROVE  \E m \in S : \A k \in S : k <= m
  <1> DEFINE R == {n \in Nat : b - n \in S}
  <1>1. R # {}
    <2>1. PICK k \in S : TRUE
      OBVIOUS
    <2>2. b - k \in Nat /\ b - (b - k) = k
      OBVIOUS
    <2>3. b - k \in R
      BY <2>2
    <2> QED  BY <2>3
  <1>2. PICK n \in R : \A k \in R : n <= k
    BY <1>1, LeastIs
  <1>3. ASSUME NEW k \in S
        PROVE  k <= b - n
    <2>1. b - k \in Nat /\ b - (b - k) = k
      OBVIOUS
    <2>2. n <= b - k
      BY <1>2, <2>1
    <2> QED  BY <2>2
  <1> QED  BY <1>2, <1>3

\* Prefixes, pointwise.
LEMMA PrefixIs ==
  ASSUME NEW W, NEW s \in Seq(W), NEW t \in Seq(W)
  PROVE  IsPrefix(s, t) <=> Len(s) <= Len(t) /\ \A i \in 1..Len(s) : s[i] = t[i]
  <1>1. SubSeq(s, 1, Len(s)) = s
    BY SubSeqFull
  <1>2. ASSUME Len(s) <= Len(t)
        PROVE  /\ SubSeq(t, 1, Len(s)) \in Seq(W)
               /\ Len(SubSeq(t, 1, Len(s))) = Len(s)
               /\ \A i \in 1..Len(s) : SubSeq(t, 1, Len(s))[i] = t[i]
    <2>1. Len(s) \in Nat /\ \A i \in 1..Len(s) : t[i] \in W
      BY <1>2
    <2> QED  BY <2>1, SubSeqProperties
  <1>3. ASSUME Len(s) <= Len(t), \A i \in 1..Len(s) : s[i] = t[i]
        PROVE  s = SubSeq(t, 1, Len(s))
    BY <1>2, <1>3, SeqEqual
  <1> QED  BY <1>1, <1>2, <1>3 DEF IsPrefix

LEMMA DatasetLen == Len(Datasets) \in Nat /\ DOMAIN Datasets = 1..Len(Datasets)
  <1> DEFINE X == [name: Seq(STRING), mount: {None} \cup Path]
  <1>1. Datasets \in Seq(X)
    BY DatasetAssumption
  <1> HIDE DEF X
  <1> QED  BY <1>1

LEMMA DatasetTypes ==
  ASSUME NEW i \in DOMAIN Datasets
  PROVE  /\ Datasets[i] \in [name: Seq(STRING), mount: {None} \cup Path]
         /\ Datasets[i] \in Range(Datasets) /\ Datasets[i] # None
         /\ Datasets[i].mount # None => Datasets[i].mount \in Seq(STRING)
         /\ Datasets[i].name \in Seq(STRING) /\ Datasets[i].name # None
  <1>1. Datasets[i] \in [name: Seq(STRING), mount: {None} \cup Path]
    <2> DEFINE X == [name: Seq(STRING), mount: {None} \cup Path]
    <2>1. Datasets \in Seq(X)
      BY DatasetAssumption
    <2> HIDE DEF X
    <2>2. Datasets[i] \in X
      BY <2>1
    <2> QED  BY <2>2 DEF X
  <1>2. Datasets[i] \in Range(Datasets)
    BY DEF Range
  <1> QED  BY <1>1, <1>2, DatasetAssumption DEF Path

\* Two mountpoints above a path: the shorter is above the longer.
LEMMA PrefixesNest ==
  ASSUME NEW s \in Seq(STRING), NEW t \in Seq(STRING), NEW u \in Seq(STRING),
         IsPrefix(s, u), IsPrefix(t, u), Len(s) <= Len(t)
  PROVE  IsPrefix(s, t)
  BY PrefixIs

\* A mountpoint above a path.
Above(d, path) == d.mount # None /\ IsPrefix(d.mount, path)

\* DatasetFor finds a dataset above a path, and in the whole list the innermost one
\* if there is one.
LEMMA DatasetForIs ==
  ASSUME NEW path \in Path, NEW n \in 0..Len(Datasets)
  PROVE  /\ DatasetFor(path, n) # None =>
              DatasetFor(path, n) \in Range(Datasets) /\ Above(DatasetFor(path, n), path)
         /\ n = Len(Datasets) /\ DatasetFor(path, n) # None => Holds(DatasetFor(path, n), path)
         /\ n = Len(Datasets) /\ DatasetFor(path, n) = None =>
              \A d \in Range(Datasets) : ~Above(d, path)
  <1> DEFINE above == {i \in 1..n : Datasets[i].mount # None /\ IsPrefix(Datasets[i].mount, path)}
             Depth(i) == Len(Datasets[i].mount)
             Best(i) == \A k \in above :
                          Depth(k) < Depth(i) \/ (Depth(k) = Depth(i) /\ i <= k)
  <1>0. DOMAIN Datasets = 1..Len(Datasets) /\ 1..n \subseteq DOMAIN Datasets
    BY DatasetLen
  <1>1. DatasetFor(path, n) = IF above = {} THEN None
                           ELSE Datasets[CHOOSE i \in above : Best(i)]
    BY DEF DatasetFor
  <1>2. ASSUME n = Len(Datasets), NEW d \in Range(Datasets), Above(d, path)
        PROVE  \E i \in above : Datasets[i] = d
    BY <1>0, <1>2 DEF Range, Above
  <1>3. CASE above = {}
    <2>1. n = Len(Datasets) => \A d \in Range(Datasets) : ~Above(d, path)
      BY <1>2, <1>3
    <2> QED  BY <1>1, <1>3, <2>1
  <1>4. CASE above # {}
    <2> DEFINE D == {Depth(i) : i \in above}
    <2>1. \A i \in above : /\ i \in Nat /\ Datasets[i].mount \in Seq(STRING)
                           /\ Depth(i) \in Nat /\ Depth(i) <= Len(path)
      <3>1. SUFFICES ASSUME NEW i \in above
                     PROVE  /\ i \in Nat /\ Datasets[i].mount \in Seq(STRING)
                            /\ Depth(i) \in Nat /\ Depth(i) <= Len(path)
        OBVIOUS
      <3>2. Datasets[i].mount \in Seq(STRING)
        BY <1>0, DatasetTypes
      <3>3. i \in Nat
        OBVIOUS
      <3> QED  BY <3>2, <3>3 DEF IsPrefix
    <2>2. PICK m \in D : \A k \in D : k <= m
      <3>1. D \in SUBSET Nat /\ D # {} /\ \A k \in D : k <= Len(path)
        BY <1>4, <2>1
      <3>2. Len(path) \in Nat
        BY DEF Path
      <3> HIDE DEF D
      <3> QED  BY <3>1, <3>2, GreatestIs
    <2> DEFINE I == {i \in above : Depth(i) = m}
    <2>3. PICK b \in I : \A k \in I : b <= k
      <3>1. I \in SUBSET Nat /\ I # {}
        BY <2>1, <2>2
      <3> HIDE DEF I
      <3> QED  BY <3>1, LeastIs
    <2>4. Best(b)
      <3>1. \A k \in above : Depth(k) <= m /\ (Depth(k) = m => b <= k)
        BY <2>2, <2>3
      <3>2. Depth(b) = m
        BY <2>3
      <3> HIDE DEF above, Depth
      <3> QED  BY <3>1, <3>2, <2>1, <2>3
    <2> DEFINE c == CHOOSE i \in above : Best(i)
    <2>5. c \in above /\ Best(c)
      <3>1. b \in above
        BY <2>3
      <3> HIDE DEF above, Best
      <3> QED  BY <3>1, <2>4
    <2>6. DatasetFor(path, n) = Datasets[c]
      BY <1>1, <1>4
    <2> HIDE DEF c
    <2>7. Datasets[c] \in Range(Datasets) /\ Datasets[c] # None /\ Above(Datasets[c], path)
      BY <2>5, <1>0, DatasetTypes DEF Above
    <2>8. ASSUME n = Len(Datasets), NEW e \in Range(Datasets), Above(e, path)
          PROVE  IsPrefix(e.mount, Datasets[c].mount)
      <3>1. PICK k \in above : Datasets[k] = e
        BY <1>2, <2>8
      <3>2. Depth(k) <= Depth(c)
        BY <2>5, <2>1
      <3>3. path \in Seq(STRING)
        BY DEF Path
      <3> QED  BY <3>1, <3>2, <3>3, <2>1, <2>5, PrefixesNest
    <2>9. n = Len(Datasets) => Holds(Datasets[c], path)
      BY <2>7, <2>8 DEF Holds, Above
    <2> QED  BY <2>6, <2>7, <2>9
  <1> QED  BY <1>3, <1>4

\* What readPath leaves of a path below its mountpoint leads back to the path.
LEMMA RestLength ==
  ASSUME NEW l \in Nat, NEW n \in Nat, l <= n
  PROVE  (IF l + 1 <= n THEN n - (l + 1) + 1 ELSE 0) = n - l
  OBVIOUS

LEMMA BelowMount ==
  ASSUME NEW s \in Seq(STRING), NEW t \in Seq(STRING), IsPrefix(s, t)
  PROVE  s \o SubSeq(t, Len(s) + 1, Len(t)) = t
  <1> DEFINE u == SubSeq(t, Len(s) + 1, Len(t))
  <1>1. Len(s) <= Len(t) /\ \A i \in 1..Len(s) : s[i] = t[i]
    BY PrefixIs
  <1>2. /\ u \in Seq(STRING) /\ Len(u) = Len(t) - Len(s)
        /\ \A i \in 1..Len(t) - Len(s) : u[i] = t[Len(s) + i]
    <2>1. Len(s) + 1 \in Int /\ Len(t) \in Int /\ \A i \in Len(s) + 1..Len(t) : t[i] \in STRING
      OBVIOUS
    <2>2. /\ u \in Seq(STRING)
          /\ Len(u) = IF Len(s) + 1 <= Len(t) THEN Len(t) - (Len(s) + 1) + 1 ELSE 0
          /\ \A i \in 1..Len(t) - (Len(s) + 1) + 1 : u[i] = t[(Len(s) + 1) + i - 1]
      BY <2>1, SubSeqProperties
    <2> HIDE DEF u
    <2>3. Len(u) = Len(t) - Len(s)
      <3>1. Len(s) \in Nat /\ Len(t) \in Nat
        OBVIOUS
      <3>2. (IF Len(s) + 1 <= Len(t) THEN Len(t) - (Len(s) + 1) + 1 ELSE 0) = Len(t) - Len(s)
        BY <1>1, <3>1, RestLength, Zenon
      <3> QED  BY <2>2, <3>2
    <2>4. ASSUME NEW i \in 1..Len(t) - Len(s) PROVE u[i] = t[Len(s) + i]
      <3>1. /\ Len(t) - (Len(s) + 1) + 1 = Len(t) - Len(s)
            /\ (Len(s) + 1) + i - 1 = Len(s) + i
        BY <2>1
      <3> QED  BY <2>2, <3>1
    <2> QED  BY <2>2, <2>3, <2>4
  <1> HIDE DEF u
  <1>3. /\ s \o u \in Seq(STRING) /\ Len(s \o u) = Len(t)
        /\ \A i \in 1..Len(t) : (s \o u)[i] = IF i <= Len(s) THEN s[i] ELSE u[i - Len(s)]
    BY <1>2, ConcatProperties
  <1>4. ASSUME NEW i \in 1..Len(t) PROVE (s \o u)[i] = t[i]
    <2> DEFINE m == Len(s)
               n == Len(t)
    <2>1. m \in Nat /\ n \in Nat /\ m <= n
      BY <1>1
    <2>2. CASE i <= m
      <3>1. i \in 1..m
        BY <2>1, <2>2
      <3> QED  BY <1>1, <1>3, <2>2, <3>1
    <2>3. CASE ~(i <= m)
      <3> HIDE DEF m, n
      <3>1. i - m \in 1..n - m /\ m + (i - m) = i
        BY <2>1, <2>3 DEF n
      <3>2. (s \o u)[i] = u[i - m]
        BY <1>3, <2>3 DEF m
      <3>3. u[i - m] = t[m + (i - m)]
        BY <1>2, <3>1 DEF m, n
      <3> QED  BY <3>1, <3>2, <3>3
    <2> QED  BY <2>2, <2>3
  <1>5. s \o u = t
    BY <1>3, <1>4, SeqEqual
  <1> QED  BY <1>5 DEF u

\* One part in front, and one behind.
LEMMA Prepended ==
  ASSUME NEW W, NEW S \in Seq(W), NEW a \in Seq(W), Len(S) = 1
  PROVE  /\ S \o a \in Seq(W) /\ Len(S \o a) = 1 + Len(a)
         /\ \A i \in 1..Len(a) : (S \o a)[i + 1] = a[i]
  <1>1. /\ S \o a \in Seq(W) /\ Len(S \o a) = Len(S) + Len(a)
        /\ \A i \in 1..Len(S) + Len(a) : (S \o a)[i] = IF i <= Len(S) THEN S[i] ELSE a[i - Len(S)]
    BY ConcatProperties
  <1>2. Len(a) \in Nat
    OBVIOUS
  <1> QED  BY <1>1, <1>2

LEMMA Appended ==
  ASSUME NEW W, NEW T \in Seq(W), NEW a \in Seq(W), Len(T) = 1
  PROVE  /\ a \o T \in Seq(W) /\ Len(a \o T) = 1 + Len(a)
         /\ \A i \in 1..Len(a) : (a \o T)[i] = a[i]
  <1>1. /\ a \o T \in Seq(W) /\ Len(a \o T) = Len(a) + Len(T)
        /\ \A i \in 1..Len(a) + Len(T) : (a \o T)[i] = IF i <= Len(a) THEN a[i] ELSE T[i - Len(a)]
    BY ConcatProperties
  <1>2. Len(a) \in Nat
    OBVIOUS
  <1> QED  BY <1>1, <1>2

\* A name that begins with "sabon", the parts of a and at least one more, and has one
\* part after those of b, has a at the beginning of b.
LEMMA NameParts ==
  ASSUME NEW W, NEW S \in Seq(W), NEW T \in Seq(W), NEW a \in Seq(W), NEW b \in Seq(W),
         Len(S) = 1, Len(T) = 1, IsStrictPrefix(S \o a, (S \o b) \o T)
  PROVE  IsPrefix(a, b)
  <1> DEFINE x == S \o a
             z == S \o b
             y == z \o T
  <1>1. /\ x \in Seq(W) /\ Len(x) = 1 + Len(a)
        /\ \A i \in 1..Len(a) : x[i + 1] = a[i]
    BY Prepended
  <1>2. /\ z \in Seq(W) /\ Len(z) = 1 + Len(b)
        /\ \A i \in 1..Len(b) : z[i + 1] = b[i]
    BY Prepended
  <1>3. IsPrefix(x, y) /\ x # y
    BY DEF IsStrictPrefix
  <1> HIDE DEF x, z
  <1>4. /\ y \in Seq(W) /\ Len(y) = 2 + Len(b)
        /\ \A i \in 1..1 + Len(b) : y[i] = z[i]
    <2>1. y \in Seq(W) /\ Len(y) = 1 + Len(z) /\ \A i \in 1..Len(z) : y[i] = z[i]
      BY <1>2, Appended
    <2> HIDE DEF y
    <2> QED  BY <1>2, <2>1
  <1> HIDE DEF y
  <1>5. Len(x) <= Len(y) /\ \A i \in 1..Len(x) : x[i] = y[i]
    BY <1>1, <1>3, <1>4, PrefixIs
  <1>6. Len(x) # Len(y)
    <2>1. SUFFICES ASSUME Len(x) = Len(y) PROVE FALSE
      OBVIOUS
    <2> QED  BY <2>1, <1>1, <1>3, <1>4, <1>5, SeqEqual
  <1>7. Len(a) \in Nat /\ Len(b) \in Nat /\ Len(a) <= Len(b)
    BY <1>1, <1>4, <1>5, <1>6
  <1>8. \A i \in 1..Len(a) : a[i] = b[i]
    <2>1. SUFFICES ASSUME NEW i \in 1..Len(a) PROVE a[i] = b[i]
      OBVIOUS
    <2>2. i \in 1..Len(b) /\ i + 1 \in 1..1 + Len(b) /\ i + 1 \in 1..Len(x)
      BY <1>1, <1>7
    <2> QED  BY <2>2, <1>1, <1>2, <1>4, <1>5
  <1> QED  BY <1>7, <1>8, PrefixIs

\* The same of a name whose middle is in two parts.
LEMMA NameSplit ==
  \A W : \A S, T, a, u, v \in Seq(W) :
    Len(S) = 1 /\ Len(T) = 1 /\ IsStrictPrefix(S \o a, ((S \o u) \o v) \o T)
      => IsPrefix(a, u \o v)
  <1> TAKE W
  <1> DEFINE Q == Seq(W)
  <1>1. \A x, y \in Q : x \o y \in Q
    OBVIOUS
  <1>2. \A x, y, z \in Q : (x \o y) \o z = x \o (y \o z)
    BY ConcatAssociative
  <1>3. \A S, T, a, b \in Q :
          Len(S) = 1 /\ Len(T) = 1 /\ IsStrictPrefix(S \o a, (S \o b) \o T) => IsPrefix(a, b)
    BY NameParts
  <1> HIDE DEF Q
  <1>4. ASSUME NEW S \in Q, NEW T \in Q, NEW a \in Q, NEW u \in Q, NEW v \in Q,
               Len(S) = 1, Len(T) = 1, IsStrictPrefix(S \o a, ((S \o u) \o v) \o T)
        PROVE  IsPrefix(a, u \o v)
    <2>1. (S \o u) \o v = S \o (u \o v)
      <3>1. \A z \in Q : (S \o u) \o z = S \o (u \o z)
        BY <1>2, Zenon
      <3> QED  BY <3>1, Zenon
    <2>2. u \o v \in Q
      BY <1>1
    <2>3. IsStrictPrefix(S \o a, (S \o (u \o v)) \o T)
      BY <1>4, <2>1
    <2> QED  BY <1>3, <1>4, <2>2, <2>3
  <1> QED  BY <1>4 DEF Q

\* The snapshots of a process whose instance nobody shadows are owned by processes of
\* the same instance only.
LEMMA OwnsSame ==
  ASSUME NEW p \in Procs, NEW q \in Procs, NEW s, s.by = p, Owns(q, s), Unshadowed(p)
  PROVE  Instance[q] = Instance[p]
  <1> DEFINE W == STRING \cup {"sabon", "time"}
             a == Instance[q]
             u == Instance[p]
             v == App[p]
             S == <<"sabon">>
             T == <<"time">>
  <1>1. a \in Seq(STRING) /\ u \in Seq(STRING) /\ v \in Seq(STRING)
    BY ConfigAssumption
  <1>2. a \in Seq(W) /\ u \in Seq(W) /\ v \in Seq(W)
    BY <1>1, SeqMonotonic
  <1>3. S \in Seq(W) /\ T \in Seq(W) /\ Len(S) = 1 /\ Len(T) = 1
    OBVIOUS
  <1>4. IsStrictPrefix(S \o a, ((S \o u) \o v) \o T)
    BY DEF Owns, SnapName
  <1>5. ~(a # u /\ IsPrefix(a, u \o v))
    BY DEF Unshadowed
  <1> HIDE DEF W, a, u, v, S, T
  <1>6. IsPrefix(a, u \o v)
    BY <1>2, <1>3, <1>4, NameSplit
  <1>7. a = u
    BY <1>5, <1>6
  <1> QED  BY <1>7 DEF a, u

-----------------------------------------------------------------------------
(* The inductive invariant.                                                *)

\* A call whose container did its work.
Ran(p) == call[p] \in {"exited", "vanished"}

\* What the zfs calls of a loop have still to act on.
Left(p) == IF Ran(p) THEN Union(Tail(todo[p])) ELSE Union(todo[p])

Mine(p) == {s \in snaps : s.by = p}

LoopPc == {"sweep", "snap", "rollback", "cleanup"}
Early == {"new", "reap", "reaplist", "sweep", "idle", "resolve", "list"}

\* The movers that keep their snapshots: nobody tried to remove them in vain.
Reads == mover \ loose

\* Neither such a mover of p's nor a backup that could still start one.
Over(p) == pc[p] \in {"rollback", "cleanup", "done", "gone"} /\ p \notin Reads

Claims == [src: SUBSET Nat, lines: 0..Len(Datasets)]
Blinds == SUBSET {"reap", "reaplist", "resolve", "list"}

\* todo is a function, which TypeOK does not say.
FunInv == todo \in [Procs -> Seq(SUBSET SnapType)]

\* A loop has something to do, and nothing else has.
TodoInv == \A p \in Procs : todo[p] = <<>> <=> pc[p] \notin LoopPc

CmdOf(p) == CASE pc[p] = "snap" -> [do |-> "snapshot", args |-> Head(todo[p])]
              [] pc[p] \in {"sweep", "rollback", "cleanup"} ->
                   [do |-> "destroy", args |-> Head(todo[p])]
              [] OTHER -> NoCmd

\* A container runs the command of the call that made it, and a process that is
\* started has none.
CmdInv == \A p \in Procs :
  /\ call[p] = "none" => cmd[p] = NoCmd
  /\ pc[p] = "new" => call[p] = "none"
  /\ Alive(p) /\ call[p] # "none" => pc[p] \in CallPc /\ cmd[p] = CmdOf(p)

\* A reap dooms containers, not processes whose call is over.
DoomedInv == \A p, q \in Procs : q \in doomed[p] => call[q] \in {"created", "running", "exited"}

\* A mover outlives every call of its process, but for those of the cleanup when it
\* could not be removed.
MoverInv ==
  /\ \A p \in Reads : pc[p] \in {"mover", "done", "gone"} /\ call[p] = "none"
  /\ \A p \in loose : pc[p] \in {"cleanup", "done", "gone"} /\ cmd[p].do # "snapshot"

\* What a backup of each mode has claimed once it has resolved its sources.
Claim(p) ==
  /\ Mode[p] = "none" => claimed[p].src = {}
  /\ Mode[p] = "zfs"  => claimed[p].src = DOMAIN Sources[p]
  /\ Mode[p] = "auto" => \/ claimed[p].src = Snapshottable(p, Len(Datasets))
                         \/ "resolve" \in blind[p]
  /\ \A i \in claimed[p].src : ~Sources[p][i].foreign

\* It found its sources in the list of Snapshot, whole if that list was.
Listed(p) ==
  /\ \A i \in claimed[p].src : OnZfs(Sources[p][i], claimed[p].lines)
  /\ claimed[p].src = {} \/ claimed[p].lines = Len(Datasets) \/ "list" \in blind[p]

ClaimInv == \A p \in Procs :
  /\ pc[p] \in Early \ {"list"} => claimed[p].src = {}
  /\ pc[p] = "resolve" => Mode[p] = "auto"
  /\ pc[p] \in {"list", "snap", "mount", "mover"} \/ p \in mover => Claim(p)
  /\ pc[p] \in {"snap", "mount", "mover", "rollback", "cleanup"} \/ p \in mover => Listed(p)

\* While p takes its snapshots, the calls left are whole pools of them.
GroupInv == \A p \in Procs : pc[p] = "snap" =>
  /\ Union(todo[p]) \subseteq Names(p)
  /\ \A i \in DOMAIN todo[p] : \A s \in todo[p][i] : \A t \in Names(p) :
       t \in todo[p][i] <=> Pool(t) = Pool(s)
  /\ \A i, j \in DOMAIN todo[p] : i # j => todo[p][i] \cap todo[p][j] = {}

\* The snapshots of p there can be, and where its own calls are to blame for one.
MineInv == \A p \in Procs :
  /\ pc[p] \in Early => Mine(p) = {}
  /\ pc[p] = "snap" => Mine(p) \subseteq Names(p) \ Left(p)
  /\ pc[p] \in {"mount", "mover"} => Mine(p) \subseteq Names(p)
  /\ pc[p] \in {"rollback", "cleanup"} => Mine(p) \subseteq failed[p] \cup Left(p)
  /\ pc[p] = "done" => p \in kept \/ Mine(p) \subseteq failed[p]

\* The snapshots of p there must be.
HeldInv == \A p \in Procs : Unshadowed(p) =>
  /\ pc[p] = "snap" => Names(p) \ Left(p) \subseteq snaps
  /\ pc[p] = "mount" \/ p \in Reads => Names(p) \subseteq snaps

\* A snapshot command that may still run takes what there is not.
PendInv == \A p \in Procs :
  call[p] \in {"created", "running"} /\ cmd[p].do = "snapshot" =>
    \A s \in cmd[p].args : s.by = p /\ s \notin snaps

\* What is to be destroyed belongs to a backup that is over.
SafeInv == \A p \in Procs :
  /\ pc[p] \in {"sweep", "rollback", "cleanup"} =>
       \A s \in Union(todo[p]) : Unshadowed(s.by) => Over(s.by)
  /\ cmd[p].do = "destroy" => \A s \in cmd[p].args : Unshadowed(s.by) => Over(s.by)

\* One process of an instance at a time; a reap saw the movers of its predecessors.
OneAlive == \A p, q \in Procs :
  Alive(p) /\ Alive(q) /\ Instance[p] = Instance[q] => p = q
InUseInv == \A p, q \in Procs :
  pc[q] \in {"reap", "reaplist"} /\ p \in Reads /\ Instance[p] = Instance[q] => p \in inUse[q]

\* What was taken of one pool was taken at once, and nothing of a pool that is left.
AtInv == \A p \in Procs :
  /\ pc[p] \in Early => at[p] = {}
  /\ pc[p] = "snap" => \A x \in at[p] : x[1] \in Names(p) \ Left(p)
  /\ Alive(p) \/ p \in mover =>
       \A x, y \in at[p] : Pool(x[1]) = Pool(y[1]) => x[2] = y[2]

\* An orphan stays one: its process is gone and no container will take it again.
OrphanInv == \A p \in Procs : Alive(p) =>
  /\ \A s \in orphans[p] :
       /\ pc[s.by] = "gone"
       /\ ~(call[s.by] = "running" /\ cmd[s.by].do = "snapshot" /\ s \in cmd[s.by].args)
       /\ pc[p] \in {"reap", "reaplist"} => Owns(p, s) /\ s.by \notin inUse[p]
  /\ pc[p] = "sweep" /\ {"reap", "reaplist"} \cap blind[p] = {}
       => orphans[p] \cap snaps \subseteq failed[p] \cup Left(p)
  /\ pc[p] \notin {"reap", "reaplist", "sweep"} /\ {"reap", "reaplist"} \cap blind[p] = {}
       => orphans[p] \cap snaps \subseteq failed[p]

IInv == /\ TypeOK /\ FunInv /\ TodoInv /\ CmdInv /\ DoomedInv /\ MoverInv
        /\ ClaimInv /\ GroupInv /\ MineInv /\ HeldInv /\ PendInv /\ SafeInv
        /\ OneAlive /\ InUseInv /\ AtInv /\ OrphanInv

-----------------------------------------------------------------------------
(* Types.                                                                  *)

LEMMA SourceTypes ==
  ASSUME NEW p \in Procs
  PROVE  /\ DOMAIN Sources[p] \subseteq Nat /\ IsFiniteSet(DOMAIN Sources[p])
         /\ \A i \in DOMAIN Sources[p] : /\ Sources[p][i].path \in Path
                                         /\ Sources[p][i].foreign \in BOOLEAN
  <1> DEFINE X == [path: Path, foreign: BOOLEAN]
  <1>1. Sources[p] \in Seq(X)
    BY DatasetAssumption
  <1>2. \A i \in DOMAIN Sources[p] : Sources[p][i] \in X
    <2> HIDE DEF X
    <2> QED  BY <1>1
  <1>3. Len(Sources[p]) \in Nat /\ DOMAIN Sources[p] = 1..Len(Sources[p])
    <2> HIDE DEF X
    <2> QED  BY <1>1
  <1>4. IsFiniteSet(1..Len(Sources[p]))
    BY <1>3, FS_Interval
  <1> QED  BY <1>2, <1>3, <1>4

LEMMA SnapsFinite ==
  ASSUME NEW N \in SUBSET SnapType
  PROVE  IsFiniteSet(N)
  <1> DEFINE D == DOMAIN Datasets
             f == [x \in D \X Procs |-> [ds |-> Datasets[x[1]].name, by |-> x[2]]]
  <1>1. IsFiniteSet(D)
    <2>1. Len(Datasets) \in Nat /\ D = 1..Len(Datasets)
      BY DatasetLen
    <2>2. IsFiniteSet(1..Len(Datasets))
      BY <2>1, FS_Interval
    <2> QED  BY <2>1, <2>2
  <1>2. IsFiniteSet(D \X Procs)
    BY <1>1, ConfigAssumption, FS_Product
  <1>3. f \in Surjection(D \X Procs, SnapType)
    <2>1. f \in [D \X Procs -> SnapType]
      BY DEF SnapType
    <2>2. ASSUME NEW s \in SnapType
          PROVE  \E x \in D \X Procs : f[x] = s
      <3>1. PICK i \in D : s.ds = Datasets[i].name
        BY DEF SnapType
      <3>2. s.by \in Procs /\ s = [ds |-> s.ds, by |-> s.by]
        BY DEF SnapType
      <3>3. f[<<i, s.by>>] = s
        BY <3>1, <3>2
      <3> QED  BY <3>2, <3>3
    <2> HIDE DEF f
    <2> QED  BY <2>1, <2>2 DEF Surjection
  <1>4. IsFiniteSet(SnapType)
    BY <1>2, <1>3, FS_Surjection
  <1> QED  BY <1>4, FS_Subset

\* The snapshots of the sources p claims with c.
NamesOf(p, c) ==
  {[ds |-> DatasetFor(Sources[p][i].path, c.lines).name, by |-> p] : i \in c.src}

LEMMA NamesIs ==
  ASSUME NEW p
  PROVE  Names(p) = NamesOf(p, claimed[p]) /\ Names(p)' = NamesOf(p, claimed'[p])
  <1>1. \A i \in claimed[p].src :
          Mount(p, i).ds = DatasetFor(Sources[p][i].path, claimed[p].lines).name
    BY DEF Mount
  <1>2. \A i \in claimed'[p].src :
          Mount(p, i)'.ds = DatasetFor(Sources[p][i].path, claimed'[p].lines).name
    BY DEF Mount
  <1>3. Names(p) = NamesOf(p, claimed[p])
    BY <1>1 DEF Names, NamesOf
  <1>4. Names(p)' = NamesOf(p, claimed'[p])
    BY <1>2 DEF Names, NamesOf
  <1> QED  BY <1>3, <1>4

LEMMA NamesOfIs ==
  ASSUME NEW p \in Procs, NEW c \in Claims, c.src \subseteq DOMAIN Sources[p],
         \A i \in c.src : OnZfs(Sources[p][i], c.lines)
  PROVE  /\ NamesOf(p, c) \subseteq SnapType
         /\ \A s \in NamesOf(p, c) : s.by = p
         /\ c.src = {} => NamesOf(p, c) = {}
  <1>0. c.lines \in 0..Len(Datasets)
    BY DEF Claims
  <1>1. SUFFICES ASSUME NEW i \in c.src
                 PROVE  DatasetFor(Sources[p][i].path, c.lines).name \in
                          {Datasets[k].name : k \in DOMAIN Datasets}
    BY DEF NamesOf, SnapType
  <1>2. DatasetFor(Sources[p][i].path, c.lines) \in Range(Datasets)
    BY <1>0, SourceTypes, DatasetForIs DEF OnZfs
  <1> QED  BY <1>2 DEF Range

\* The arguments of a loop over the snapshots N.
LEMMA LoopArgs ==
  ASSUME NEW N \in SUBSET SnapType
  PROVE  /\ OneByOne(N) \in Seq(SUBSET SnapType)
         /\ Union(OneByOne(N)) = N
         /\ OneByOne(N) = <<>> <=> N = {}
         /\ GroupByPool(N) \in Seq(SUBSET SnapType)
         /\ Union(GroupByPool(N)) = N
         /\ GroupByPool(N) = <<>> <=> N = {}
         /\ \A i \in DOMAIN GroupByPool(N) : \A s \in GroupByPool(N)[i], t \in N :
              t \in GroupByPool(N)[i] <=> Pool(t) = Pool(s)
         /\ \A i, j \in DOMAIN GroupByPool(N) :
              i # j => GroupByPool(N)[i] \cap GroupByPool(N)[j] = {}
  <1>1. IsFiniteSet(N)
    BY SnapsFinite
  <1> DEFINE A == SUBSET N
             B == SUBSET SnapType
  <1>2. A \subseteq B
    OBVIOUS
  <1>3. OneByOne(N) \in Seq(A) /\ GroupByPool(N) \in Seq(A)
    BY <1>1, OneByOneIs, GroupByPoolIs
  <1>4. OneByOne(N) \in Seq(B) /\ GroupByPool(N) \in Seq(B)
    <2> HIDE DEF A, B
    <2> QED  BY <1>2, <1>3, SeqMonotonic
  <1> QED  BY <1>1, <1>4, OneByOneIs, GroupByPoolIs

\* The claims of a process whose sources are on datasets.
LEMMA NamesTypes ==
  ASSUME IInv, NEW p \in Procs,
         pc[p] \in {"snap", "mount", "mover", "rollback", "cleanup"} \/ p \in mover
                   \/ claimed[p].src = {}
  PROVE  Names(p) \in SUBSET SnapType /\ \A s \in Names(p) : s.by = p
  <1>1. claimed[p] \in Claims /\ claimed[p].src \subseteq DOMAIN Sources[p]
    BY DEF IInv, TypeOK, Claims
  <1>2. \A i \in claimed[p].src : OnZfs(Sources[p][i], claimed[p].lines)
    BY DEF IInv, ClaimInv, Listed
  <1> QED  BY <1>1, <1>2, NamesIs, NamesOfIs

\* A process claims sources, or counts the lines it found them in.
LEMMA ClaimsSrc ==
  ASSUME claimed \in [Procs -> Claims], NEW p \in Procs, NEW S \in SUBSET Nat,
         claimed' = [claimed EXCEPT ![p].src = S]
  PROVE  /\ claimed' \in [Procs -> Claims] /\ claimed'[p].src = S
         /\ \A q \in Procs : q # p => claimed'[q] = claimed[q]
  <1>1. claimed'[p] = [claimed[p] EXCEPT !.src = S] /\ claimed[p] \in Claims
    OBVIOUS
  <1>2. claimed'[p] \in Claims /\ claimed'[p].src = S
    BY <1>1 DEF Claims
  <1> QED  BY <1>2

LEMMA ClaimsLines ==
  ASSUME claimed \in [Procs -> Claims], NEW p \in Procs, NEW n \in 0..Len(Datasets),
         claimed' = [claimed EXCEPT ![p].lines = n]
  PROVE  /\ claimed' \in [Procs -> Claims]
         /\ claimed'[p].lines = n /\ claimed'[p].src = claimed[p].src
         /\ \A q \in Procs : q # p => claimed'[q] = claimed[q]
  <1>1. claimed'[p] = [claimed[p] EXCEPT !.lines = n] /\ claimed[p] \in Claims
    OBVIOUS
  <1>2. claimed'[p] \in Claims /\ claimed'[p].lines = n /\ claimed'[p].src = claimed[p].src
    BY <1>1 DEF Claims
  <1> QED  BY <1>2

LEMMA TodoTypes ==
  ASSUME IInv, NEW p \in Procs
  PROVE  /\ todo[p] \in Seq(SUBSET SnapType) /\ Union(todo[p]) \subseteq SnapType
         /\ pc[p] \in LoopPc =>
              /\ todo[p] # <<>> /\ Tail(todo[p]) \in Seq(SUBSET SnapType)
              /\ Head(todo[p]) \in SUBSET SnapType
              /\ Union(todo[p]) = Head(todo[p]) \cup Union(Tail(todo[p]))
  <1>1. todo[p] \in Seq(SUBSET SnapType)
    BY DEF IInv, FunInv
  <1>2. Union(todo[p]) \subseteq SnapType
    BY <1>1, UnionIs
  <1>3. pc[p] \in LoopPc => todo[p] # <<>>
    BY DEF IInv, TodoInv
  <1> QED  BY <1>1, <1>2, <1>3, UnionTail

-----------------------------------------------------------------------------
(* How a zfs call ends, whether it succeeded or not.                       *)

SweepSet(p) == {s \in snaps : Owns(p, s) /\ s.by \notin inUse[p]}

\* A listing that arrives whole, or leaves its mark.
Outcome(p) ==
  \/ /\ pc[p] = "reaplist" /\ claimed'[p] = claimed[p] /\ failed'[p] = failed[p]
     /\ \E S \in SUBSET SweepSet(p) :
          todo'[p] = OneByOne(S) /\ (S = SweepSet(p) \/ "reaplist" \in blind'[p])
     /\ pc'[p] = (IF todo'[p] = <<>> THEN "idle" ELSE "sweep")
  \/ /\ pc[p] = "resolve" /\ todo'[p] = <<>> /\ failed'[p] = failed[p]
     /\ \A i \in claimed'[p].src : i \in DOMAIN Sources[p] /\ ~Sources[p][i].foreign
     /\ claimed'[p].src = Snapshottable(p, Len(Datasets)) \/ "resolve" \in blind'[p]
     /\ pc'[p] = (IF claimed'[p].src = {} THEN "mount" ELSE "list")
  \/ /\ pc[p] = "list" /\ failed'[p] = failed[p] /\ claimed'[p].src = claimed[p].src
     /\ \A i \in claimed'[p].src : OnZfs(Sources[p][i], claimed'[p].lines)
     /\ claimed'[p].lines = Len(Datasets) \/ "list" \in blind'[p]
     /\ todo'[p] = GroupByPool(NamesOf(p, claimed'[p]))
     /\ pc'[p] = (IF todo'[p] = <<>> THEN "mount" ELSE "snap")
  \/ /\ pc[p] = "list" /\ pc'[p] = "done"
     /\ todo'[p] = <<>> /\ claimed'[p] = claimed[p] /\ failed'[p] = failed[p]
  \/ /\ pc[p] = "snap" /\ Ran(p) /\ todo'[p] = Tail(todo[p])
     /\ pc'[p] = (IF todo'[p] = <<>> THEN "mount" ELSE "snap")
     /\ claimed'[p] = claimed[p]
  \/ /\ pc[p] = "snap" /\ failed'[p] = failed[p] \cup Head(todo[p])
     /\ todo'[p] = OneByOne(Names(p) \ Union(todo[p]))
     /\ pc'[p] = (IF todo'[p] = <<>> THEN "done" ELSE "rollback")
     /\ claimed'[p] = claimed[p]
  \/ /\ pc[p] \in {"sweep", "rollback", "cleanup"} /\ todo'[p] = Tail(todo[p])
     /\ Ran(p) \/ Head(todo[p]) \subseteq failed'[p]
     /\ pc'[p] = (IF todo'[p] # <<>> THEN pc[p]
                  ELSE IF pc[p] = "sweep" THEN "idle" ELSE "done")
     /\ claimed'[p] = claimed[p]

LEMMA CallOver ==
  ASSUME IInv, NEW p \in Procs, CallReturns(p) \/ CallFails(p)
  PROVE  /\ Alive(p) /\ pc[p] \in CallPc /\ pc[p] # "new" /\ pc'[p] \notin {"new", "gone"}
         /\ pc' \in [Procs -> Pc] /\ todo' \in [Procs -> Seq(SUBSET SnapType)]
         /\ claimed' \in [Procs -> Claims] /\ claimed'[p].src \subseteq DOMAIN Sources[p]
         /\ failed' \in [Procs -> SUBSET SnapType]
         /\ blind' \in [Procs -> Blinds]
         /\ faults' \in 0..MaxFaults
         /\ \A q \in Procs : q # p =>
              /\ pc'[q] = pc[q] /\ todo'[q] = todo[q] /\ claimed'[q] = claimed[q]
              /\ failed'[q] = failed[q] /\ blind'[q] = blind[q]
         /\ CallEnds(p)
         /\ UNCHANGED <<cancelled, inUse, kept, hostVars, loose, orphans>>
         /\ failed[p] \subseteq failed'[p] /\ blind[p] \subseteq blind'[p]
         /\ Outcome(p)
         /\ todo'[p] = <<>> <=> pc'[p] \notin LoopPc
  <1> DEFINE X == Seq(SUBSET SnapType)
  <1>1. /\ pc \in [Procs -> Pc] /\ todo \in [Procs -> X]
        /\ claimed \in [Procs -> Claims] /\ claimed[p].src \subseteq DOMAIN Sources[p]
        /\ failed \in [Procs -> SUBSET SnapType]
        /\ blind \in [Procs -> Blinds]
        /\ faults \in 0..MaxFaults /\ MaxFaults \in Nat /\ snaps \in SUBSET SnapType
    BY ConfigAssumption DEF IInv, TypeOK, FunInv, Claims, Blinds
  <1>2. Alive(p) /\ pc[p] \in CallPc
    <2>1. CASE CallReturns(p)
      BY <2>1 DEF CallReturns, IInv, CmdInv
    <2>2. CASE CallFails(p)
      BY <2>2 DEF CallFails
    <2> QED  BY <2>1, <2>2
  <1>3. todo[p] = <<>> <=> pc[p] \notin LoopPc
    BY DEF IInv, TodoInv
  <1>4. pc[p] \in LoopPc => Tail(todo[p]) \in X /\ Head(todo[p]) \in SUBSET SnapType
    BY TodoTypes
  <1>5. SweepSet(p) \in SUBSET SnapType
    BY <1>1 DEF SweepSet
  <1>6. (\A S \in SUBSET SweepSet(p) : OneByOne(S) \in X) /\ OneByOne({}) = <<>>
    <2>1. {} \in SUBSET SnapType /\ SUBSET SweepSet(p) \subseteq SUBSET SnapType
      BY <1>5
    <2> QED  BY <2>1, LoopArgs
  <1>7. pc[p] = "snap" => OneByOne(Names(p) \ Union(todo[p])) \in X
    <2>1. pc[p] = "snap" => Names(p) \ Union(todo[p]) \in SUBSET SnapType
      BY NamesTypes
    <2> QED  BY <2>1, LoopArgs
  <1>8. ASSUME claimed'[p] \in Claims, claimed'[p].src \subseteq DOMAIN Sources[p],
               \A i \in claimed'[p].src : OnZfs(Sources[p][i], claimed'[p].lines)
        PROVE  GroupByPool(NamesOf(p, claimed'[p])) \in X
    <2>1. NamesOf(p, claimed'[p]) \in SUBSET SnapType
      BY <1>8, NamesOfIs
    <2> QED  BY <2>1, LoopArgs
  <1>9. Union(todo[p]) = UNION {todo[p][i] : i \in DOMAIN todo[p]}
    BY DEF Union, Range
  <1>10. /\ DOMAIN Sources[p] \subseteq Nat /\ Len(Datasets) \in 0..Len(Datasets)
         /\ \A n \in Nat : \A i \in Snapshottable(p, n) :
              i \in DOMAIN Sources[p] /\ ~Sources[p][i].foreign
         /\ pc[p] = "resolve" => claimed[p].src = {}
    BY SourceTypes, DatasetLen DEF Snapshottable, IInv, ClaimInv, Early
  <1>11. /\ CallEnds(p)
         /\ UNCHANGED <<cancelled, inUse, kept, hostVars, loose, orphans>>
    BY DEF CallReturns, CallFails
  <1>12. /\ failed' \in [Procs -> SUBSET SnapType] /\ faults' \in 0..MaxFaults
         /\ failed[p] \subseteq failed'[p]
         /\ \A q \in Procs : q # p => failed'[q] = failed[q]
         /\ pc[p] \notin LoopPc => failed'[p] = failed[p]
         /\ CallFails(p) /\ pc[p] \in LoopPc => failed'[p] = failed[p] \cup Head(todo[p])
    <2>1. CASE CallReturns(p)
      <3>1. failed' = failed /\ (faults' = faults \/ Fault)
        BY <2>1 DEF CallReturns
      <3>2. CallFails(p) /\ pc[p] \in LoopPc => failed'[p] = failed[p] \cup Head(todo[p])
        BY <1>1, <1>3, <1>4 DEF CallFails
      <3>3. faults' \in 0..MaxFaults
        BY <3>1, <1>1 DEF Fault
      <3> QED  BY <3>1, <3>2, <3>3, <1>1
    <2>2. CASE CallFails(p)
      <3>1. failed' = [failed EXCEPT ![p] = IF todo[p] = <<>> THEN @ ELSE @ \cup Head(todo[p])]
        BY <2>2 DEF CallFails
      <3>2. faults' = faults \/ (faults < MaxFaults /\ faults' = faults + 1)
        BY <2>2 DEF CallFails, Fault
      <3>3. faults' \in 0..MaxFaults
        BY <3>2, <1>1
      <3> HIDE DEF X
      <3> QED  BY <3>1, <3>3, <1>1, <1>3, <1>4
    <2> QED  BY <2>1, <2>2
  <1>13. ASSUME NEW B \in SUBSET Lists, blind' = [blind EXCEPT ![p] = @ \cup B]
         PROVE  /\ blind' \in [Procs -> Blinds] /\ blind[p] \subseteq blind'[p]
                /\ B \subseteq blind'[p]
                /\ \A q \in Procs : q # p => blind'[q] = blind[q]
    <2>1. blind'[p] = blind[p] \cup B /\ blind[p] \in Blinds
      BY <1>1, <1>13
    <2>2. blind'[p] \in Blinds
      BY <2>1 DEF Blinds, Lists
    <2> QED  BY <1>1, <1>13, <2>1, <2>2
  <1> DEFINE Marked == /\ blind' \in [Procs -> Blinds] /\ blind[p] \subseteq blind'[p]
                       /\ \A q \in Procs : q # p => blind'[q] = blind[q]
  <1>14. ASSUME CallReturns(p)
         PROVE  /\ pc' \in [Procs -> Pc] /\ todo' \in [Procs -> X]
                /\ claimed' \in [Procs -> Claims] /\ claimed'[p].src \subseteq DOMAIN Sources[p]
                /\ \A q \in Procs : q # p =>
                     pc'[q] = pc[q] /\ todo'[q] = todo[q] /\ claimed'[q] = claimed[q]
                /\ Outcome(p) /\ Marked
                /\ todo'[p] = <<>> <=> pc'[p] \notin LoopPc
    <2>0. PICK seen \in BOOLEAN :
            /\ \/ Sweeps(p, seen) \/ Resolves(p, seen) \/ Groups(p, seen)
               \/ Snaps(p) \/ Destroys(p)
            /\ blind' = [blind EXCEPT ![p] = IF seen THEN @ ELSE @ \cup ({pc[p]} \cap Lists)]
      BY <1>14 DEF CallReturns
    <2>1. Ran(p)
      BY <1>14 DEF CallReturns, Ran
    <2>7. Marked /\ (~seen /\ pc[p] \in Lists => pc[p] \in blind'[p])
      <3>1. CASE seen
        BY <2>0, <3>1, <1>1
      <3>2. CASE ~seen
        <4>1. blind' = [blind EXCEPT ![p] = @ \cup ({pc[p]} \cap Lists)]
          BY <2>0, <3>2
        <4>2. {pc[p]} \cap Lists \in SUBSET Lists
          OBVIOUS
        <4>3. Marked /\ {pc[p]} \cap Lists \subseteq blind'[p]
          BY <4>1, <4>2, <1>13
        <4> QED  BY <4>3
      <3> QED  BY <3>1, <3>2
    <2> HIDE DEF Marked
    <2>2. CASE Sweeps(p, seen)
      <3>1. pc[p] = "reaplist" /\ claimed' = claimed
        BY <2>2 DEF Sweeps
      <3>2. PICK S \in SUBSET SweepSet(p) :
              /\ seen => S = SweepSet(p)
              /\ Loop(p, "sweep", OneByOne(S), "idle")
        BY <2>2 DEF Sweeps, SweepSet
      <3>3. PICK args \in X :
              /\ args = OneByOne(S)
              /\ todo' = [todo EXCEPT ![p] = args]
              /\ pc' = [pc EXCEPT ![p] = IF args = <<>> THEN "idle" ELSE "sweep"]
        BY <3>2, <1>6 DEF Loop, Goto
      <3>4. failed'[p] = failed[p] /\ (S = SweepSet(p) \/ "reaplist" \in blind'[p])
        BY <3>1, <3>2, <2>7, <1>12 DEF LoopPc, Lists
      <3> HIDE DEF X
      <3>5. /\ todo'[p] = args /\ pc'[p] = (IF args = <<>> THEN "idle" ELSE "sweep")
            /\ pc' \in [Procs -> Pc] /\ todo' \in [Procs -> X]
            /\ \A q \in Procs : q # p => pc'[q] = pc[q] /\ todo'[q] = todo[q]
        BY <3>3, <1>1 DEF Pc, CallPc
      <3>6. Outcome(p)
        BY <3>1, <3>3, <3>4, <3>5 DEF Outcome
      <3> QED  BY <3>1, <3>5, <3>6, <2>7, <1>1 DEF LoopPc
    <2>3. CASE Resolves(p, seen)
      <3>1. PICK n \in Nat :
              /\ seen => n = Len(Datasets)
              /\ claimed' = [claimed EXCEPT ![p].src = Snapshottable(p, n)]
        <4>1. PICK m \in Lines(seen) : claimed' = [claimed EXCEPT ![p].src = Snapshottable(p, m)]
          BY <2>3 DEF Resolves
        <4>2. m \in Nat /\ (seen => m = Len(Datasets))
          BY <4>1, DatasetLen DEF Lines
        <4> QED  BY <4>1, <4>2
      <3>2. /\ pc[p] = "resolve" /\ todo' = todo
            /\ pc' = [pc EXCEPT ![p] = IF claimed'[p].src = {} THEN "mount" ELSE "list"]
        BY <2>3 DEF Resolves, Goto
      <3>3. /\ failed'[p] = failed[p] /\ todo[p] = <<>>
            /\ n = Len(Datasets) \/ "resolve" \in blind'[p]
        BY <3>1, <3>2, <1>3, <1>12, <2>7 DEF LoopPc, Lists
      <3>4. /\ claimed' \in [Procs -> Claims] /\ claimed'[p].src = Snapshottable(p, n)
            /\ \A q \in Procs : q # p => claimed'[q] = claimed[q]
        <4>1. Snapshottable(p, n) \in SUBSET Nat
          BY <1>10
        <4> QED  BY <1>1, <3>1, <4>1, ClaimsSrc
      <3> HIDE DEF X
      <3>5. /\ pc'[p] = (IF claimed'[p].src = {} THEN "mount" ELSE "list")
            /\ pc' \in [Procs -> Pc] /\ \A q \in Procs : q # p => pc'[q] = pc[q]
        BY <3>2, <1>1 DEF Pc, CallPc
      <3>6. Outcome(p)
        BY <3>2, <3>3, <3>4, <3>5, <1>10 DEF Outcome
      <3> QED  BY <3>2, <3>3, <3>4, <3>5, <3>6, <2>7, <1>1, <1>10 DEF LoopPc
    <2>4. CASE Groups(p, seen)
      <3>1. pc[p] = "list" /\ failed'[p] = failed[p] /\ todo[p] = <<>>
        BY <2>4, <1>3, <1>12 DEF Groups, LoopPc
      <3>2. PICK n \in 0..Len(Datasets) :
              /\ seen => n = Len(Datasets)
              /\ IF \A i \in claimed[p].src : OnZfs(Sources[p][i], n)
                 THEN /\ claimed' = [claimed EXCEPT ![p].lines = n]
                      /\ Loop(p, "snap", GroupByPool(Names(p)'), "mount")
                 ELSE Goto(p, "done") /\ UNCHANGED <<todo, claimed>>
        BY <2>4, <1>10 DEF Groups, Lines
      <3>3. CASE \A i \in claimed[p].src : OnZfs(Sources[p][i], n)
        <4>1. /\ claimed' \in [Procs -> Claims] /\ claimed'[p].lines = n
              /\ claimed'[p].src = claimed[p].src /\ claimed'[p] \in Claims
              /\ \A q \in Procs : q # p => claimed'[q] = claimed[q]
          BY <3>2, <3>3, <1>1, ClaimsLines
        <4>2. PICK args \in X :
                /\ args = GroupByPool(NamesOf(p, claimed'[p]))
                /\ todo' = [todo EXCEPT ![p] = args]
                /\ pc' = [pc EXCEPT ![p] = IF args = <<>> THEN "mount" ELSE "snap"]
          <5>1. GroupByPool(NamesOf(p, claimed'[p])) \in X
            BY <3>3, <4>1, <1>1, <1>8
          <5>2. Names(p)' = NamesOf(p, claimed'[p])
            BY NamesIs
          <5> QED  BY <3>2, <3>3, <5>1, <5>2 DEF Loop, Goto
        <4>3. n = Len(Datasets) \/ "list" \in blind'[p]
          BY <3>1, <3>2, <2>7 DEF Lists
        <4> HIDE DEF X
        <4>4. /\ todo'[p] = args /\ pc'[p] = (IF args = <<>> THEN "mount" ELSE "snap")
              /\ pc' \in [Procs -> Pc] /\ todo' \in [Procs -> X]
              /\ \A q \in Procs : q # p => pc'[q] = pc[q] /\ todo'[q] = todo[q]
          BY <4>2, <1>1 DEF Pc, CallPc
        <4>5. Outcome(p)
          BY <3>1, <3>3, <4>1, <4>2, <4>3, <4>4 DEF Outcome
        <4> QED  BY <3>1, <4>1, <4>4, <4>5, <2>7, <1>1 DEF LoopPc
      <3>4. CASE ~(\A i \in claimed[p].src : OnZfs(Sources[p][i], n))
        <4>1. todo' = todo /\ claimed' = claimed /\ pc' = [pc EXCEPT ![p] = "done"]
          BY <3>2, <3>4 DEF Goto
        <4> HIDE DEF X
        <4> QED  BY <3>1, <4>1, <2>7, <1>1 DEF Pc, LoopPc, Outcome
      <3> QED  BY <3>3, <3>4
    <2>5. CASE Snaps(p)
      <3>1. pc[p] = "snap" /\ claimed' = claimed
        BY <2>5 DEF Snaps
      <3>2. PICK args \in X :
              /\ args = Tail(todo[p])
              /\ todo' = [todo EXCEPT ![p] = args]
              /\ pc' = [pc EXCEPT ![p] = IF args = <<>> THEN "mount" ELSE "snap"]
        BY <2>5, <3>1, <1>4 DEF Snaps, Loop, Goto, LoopPc
      <3> HIDE DEF X
      <3> QED  BY <3>1, <3>2, <2>1, <2>7, <1>1 DEF Pc, CallPc, LoopPc, Outcome
    <2>6. CASE Destroys(p)
      <3>1. pc[p] \in {"sweep", "rollback", "cleanup"} /\ claimed' = claimed
        BY <2>6 DEF Destroys
      <3>2. PICK args \in X :
              /\ args = Tail(todo[p])
              /\ todo' = [todo EXCEPT ![p] = args]
              /\ pc' = [pc EXCEPT ![p] = IF args # <<>> THEN pc[p]
                                         ELSE IF pc[p] = "sweep" THEN "idle" ELSE "done"]
        BY <2>6, <3>1, <1>4 DEF Destroys, Loop, Goto, LoopPc
      <3> HIDE DEF X
      <3> QED  BY <3>1, <3>2, <2>1, <2>7, <1>1 DEF Pc, CallPc, LoopPc, Outcome
    <2> QED  BY <2>0, <2>2, <2>3, <2>4, <2>5, <2>6
  <1>15. ASSUME CallFails(p)
         PROVE  /\ pc' \in [Procs -> Pc] /\ todo' \in [Procs -> X]
                /\ claimed' \in [Procs -> Claims] /\ claimed'[p].src \subseteq DOMAIN Sources[p]
                /\ \A q \in Procs : q # p =>
                     pc'[q] = pc[q] /\ todo'[q] = todo[q] /\ claimed'[q] = claimed[q]
                /\ Outcome(p) /\ Marked
                /\ todo'[p] = <<>> <=> pc'[p] \notin LoopPc
    <2>1. Fails(p)
      BY <1>15 DEF CallFails
    <2>7. Marked /\ (pc[p] \in Lists => pc[p] \in blind'[p])
      <3>1. blind' = [blind EXCEPT ![p] = @ \cup ({pc[p]} \cap Lists)]
        BY <1>15 DEF CallFails
      <3>2. {pc[p]} \cap Lists \in SUBSET Lists
        OBVIOUS
      <3>3. Marked /\ {pc[p]} \cap Lists \subseteq blind'[p]
        BY <3>1, <3>2, <1>13
      <3> QED  BY <3>3
    <2> HIDE DEF Marked
    <2>2. CASE pc[p] = "reaplist"
      <3>1. pc' = [pc EXCEPT ![p] = "idle"] /\ UNCHANGED <<todo, claimed>>
        BY <2>1, <2>2 DEF Fails, Goto
      <3>2. failed'[p] = failed[p] /\ "reaplist" \in blind'[p] /\ todo[p] = <<>>
        BY <2>2, <1>3, <1>12, <2>7 DEF LoopPc, Lists
      <3> HIDE DEF X
      <3>3. /\ todo'[p] = <<>> /\ pc'[p] = "idle" /\ pc' \in [Procs -> Pc]
            /\ \A q \in Procs : q # p => pc'[q] = pc[q]
        BY <3>1, <3>2, <1>1 DEF Pc
      <3>4. \E S \in SUBSET SweepSet(p) : todo'[p] = OneByOne(S)
        BY <3>3, <1>6
      <3>5. Outcome(p)
        BY <2>2, <3>1, <3>2, <3>3, <3>4 DEF Outcome
      <3> QED  BY <3>1, <3>3, <3>5, <2>7, <1>1 DEF LoopPc
    <2>3. CASE pc[p] = "resolve"
      <3>1. pc' = [pc EXCEPT ![p] = "mount"] /\ UNCHANGED <<todo, claimed>>
        BY <2>1, <2>3 DEF Fails, Goto
      <3>2. failed'[p] = failed[p] /\ "resolve" \in blind'[p] /\ todo[p] = <<>>
        BY <2>3, <1>3, <1>12, <2>7 DEF LoopPc, Lists
      <3> HIDE DEF X
      <3> QED  BY <2>3, <3>1, <3>2, <2>7, <1>1, <1>10 DEF Pc, LoopPc, Outcome
    <2>4. CASE pc[p] = "list"
      <3>1. pc' = [pc EXCEPT ![p] = "done"] /\ UNCHANGED <<todo, claimed>>
        BY <2>1, <2>4 DEF Fails, Goto
      <3>2. failed'[p] = failed[p] /\ todo[p] = <<>>
        BY <2>4, <1>3, <1>12 DEF LoopPc
      <3> HIDE DEF X
      <3> QED  BY <2>4, <3>1, <3>2, <2>7, <1>1 DEF Pc, LoopPc, Outcome
    <2>5. CASE pc[p] = "snap"
      <3>1. PICK args \in X :
              /\ args = OneByOne(Names(p) \ Union(todo[p]))
              /\ todo' = [todo EXCEPT ![p] = args]
              /\ pc' = [pc EXCEPT ![p] = IF args = <<>> THEN "done" ELSE "rollback"]
              /\ claimed' = claimed
        BY <2>1, <2>5, <1>7, <1>9 DEF Fails, Loop, Goto
      <3>2. failed'[p] = failed[p] \cup Head(todo[p])
        BY <2>5, <1>12, <1>15 DEF LoopPc
      <3> HIDE DEF X
      <3> QED  BY <2>5, <3>1, <3>2, <2>7, <1>1 DEF Pc, CallPc, LoopPc, Outcome
    <2>6. CASE pc[p] \in {"sweep", "rollback", "cleanup"}
      <3>1. Destroys(p)
        BY <2>1, <2>6 DEF Fails
      <3>2. PICK args \in X :
              /\ args = Tail(todo[p])
              /\ todo' = [todo EXCEPT ![p] = args]
              /\ pc' = [pc EXCEPT ![p] = IF args # <<>> THEN pc[p]
                                         ELSE IF pc[p] = "sweep" THEN "idle" ELSE "done"]
              /\ claimed' = claimed
        BY <2>6, <3>1, <1>4 DEF Destroys, Loop, Goto, LoopPc
      <3>3. Head(todo[p]) \subseteq failed'[p]
        BY <2>6, <1>12, <1>15 DEF LoopPc
      <3> HIDE DEF X
      <3> QED  BY <2>6, <3>2, <3>3, <2>7, <1>1 DEF Pc, CallPc, LoopPc, Outcome
    <2> QED  BY <1>2, <2>2, <2>3, <2>4, <2>5, <2>6 DEF CallPc
  <1>16. pc'[p] \notin {"new", "gone"}
    <2>1. Outcome(p)
      BY <1>14, <1>15
    <2> QED  BY <2>1, <1>2 DEF Outcome, Alive
  <1> QED  BY <1>2, <1>11, <1>12, <1>14, <1>15, <1>16 DEF Alive

-----------------------------------------------------------------------------
(* What the other actions do to the processes.                             *)

\* The cleanup of the mover's snapshots.
LEMMA CleanupIs ==
  ASSUME IInv, NEW p \in Procs, pc[p] \in {"mount", "mover"}, Cleanup(p)
  PROVE  /\ todo' = [todo EXCEPT ![p] = todo'[p]] /\ todo'[p] \in Seq(SUBSET SnapType)
         /\ Union(todo'[p]) = Names(p)
         /\ pc' = [pc EXCEPT ![p] = IF todo'[p] = <<>> THEN "done" ELSE "cleanup"]
         /\ Names(p) \subseteq SnapType /\ \A s \in Names(p) : s.by = p
  <1> DEFINE X == Seq(SUBSET SnapType)
  <1>1. Names(p) \in SUBSET SnapType /\ \A s \in Names(p) : s.by = p
    BY NamesTypes
  <1>2. PICK args \in X : args = OneByOne(Names(p)) /\ Union(args) = Names(p)
    BY <1>1, LoopArgs
  <1>3. /\ todo' = [todo EXCEPT ![p] = args]
        /\ pc' = [pc EXCEPT ![p] = IF args = <<>> THEN "done" ELSE "cleanup"]
    BY <1>2 DEF Cleanup, Loop, Goto
  <1>4. todo \in [Procs -> X]
    BY DEF IInv, FunInv
  <1> HIDE DEF X
  <1>5. todo'[p] = args
    BY <1>3, <1>4
  <1> QED  BY <1>1, <1>2, <1>3, <1>5 DEF X

LEMMA InitIInv == Init => IInv
  <1> SUFFICES ASSUME Init PROVE IInv
    OBVIOUS
  <1>1. todo \in [Procs -> Seq(SUBSET SnapType)]
    BY DEF Init
  <1>2. NoCmd \in [do: {"list", "snapshot", "destroy"}, args: SUBSET SnapType]
    BY DEF NoCmd
  <1>7. \A p \in Procs : NoClaim \in Claims /\ NoClaim.src = {}
    BY DatasetLen DEF NoClaim, Claims
  <1>3. TypeOK
    BY <1>2, <1>7, ConfigAssumption DEF Init, TypeOK, Pc, CallPc, Claims
  <1>4. FunInv /\ TodoInv /\ CmdInv /\ DoomedInv /\ MoverInv
    BY <1>1 DEF Init, FunInv, TodoInv, LoopPc, CmdInv, DoomedInv, MoverInv, Reads, Alive
  <1>5. ClaimInv /\ GroupInv /\ MineInv /\ HeldInv
    BY DEF Init, ClaimInv, NoClaim, GroupInv, MineInv, HeldInv, Reads, Early, Mine
  <1>6. PendInv /\ SafeInv /\ OneAlive /\ InUseInv /\ AtInv /\ OrphanInv
    BY DEF Init, PendInv, SafeInv, OneAlive, InUseInv, Reads, AtInv, OrphanInv, Alive, NoCmd
  <1> QED  BY <1>3, <1>4, <1>5, <1>6 DEF IInv

LEMMA TypeStep ==
  ASSUME IInv, Next
  PROVE  TypeOK' /\ FunInv' /\ TodoInv'
  <1> DEFINE X == Seq(SUBSET SnapType)
             C == [do: {"list", "snapshot", "destroy"}, args: SUBSET SnapType]
             Ok == TypeOK' /\ todo' \in [Procs -> X] /\ TodoInv'
  <1>1. /\ TypeOK /\ todo \in [Procs -> X]
        /\ \A p \in Procs : todo[p] = <<>> <=> pc[p] \notin LoopPc
    BY DEF IInv, FunInv, TodoInv
  <1>2. MaxFaults \in Nat /\ MaxWrites \in Nat
    BY ConfigAssumption
  <1>3. SUFFICES Ok
    BY DEF FunInv
  <1>4. <<>> \in X /\ NoCmd \in C
    BY DEF NoCmd
  <1>5. \A seq \in X : \A i \in DOMAIN seq : seq[i] \subseteq SnapType
    OBVIOUS
  <1>6. \A p \in Procs : pc[p] \in LoopPc => Head(todo[p]) \in SUBSET SnapType
    BY TodoTypes
  <1> HIDE DEF X
  <1>7. todo' \in [Procs -> X] => \A p \in Procs : \A i \in DOMAIN todo'[p] : todo'[p][i] \subseteq SnapType
    BY <1>5
  <1>0. claimed \in [Procs -> Claims] /\ blind \in [Procs -> Blinds] /\ loose \subseteq mover
    BY DEF IInv, TypeOK, Claims, Blinds
  <1>23. ASSUME NEW p \in Procs, StartUnreaped(p) PROVE Ok
    <2>1. /\ orphans' \in [Procs -> SUBSET SnapType] /\ pc' \in [Procs -> Pc]
          /\ faults' \in 0..MaxFaults
      BY <1>1, <1>2, <1>23 DEF StartUnreaped, Begins, Fault, TypeOK, Goto, Pc
    <2>2. blind' \in [Procs -> SUBSET {"reap", "reaplist", "resolve", "list"}]
      BY <1>1, <1>23 DEF StartUnreaped, TypeOK
    <2>3. TodoInv'
      BY <1>1, <1>23 DEF StartUnreaped, Begins, TypeOK, Goto, TodoInv, LoopPc
    <2>4. UNCHANGED <<todo, call, cmd, cancelled, claimed, inUse, doomed, kept, hostVars, failed,
                      loose>>
      BY <1>23 DEF StartUnreaped
    <2> QED  BY <2>1, <2>2, <2>3, <2>4, <1>1 DEF TypeOK, hostVars
  <1>8. ASSUME NEW p \in Procs, Start(p) PROVE Ok
    <2>1. /\ inUse' \in [Procs -> SUBSET Procs] /\ doomed' \in [Procs -> SUBSET Procs]
          /\ orphans' \in [Procs -> SUBSET SnapType] /\ pc' \in [Procs -> Pc]
      BY <1>1, <1>8 DEF Start, Begins, TypeOK, Goto, Pc
    <2> QED  BY <2>1, <1>1, <1>8 DEF Start, Begins, TypeOK, Goto, TodoInv, LoopPc, hostVars, Pc
  <1>9. ASSUME NEW p \in Procs, ReapContainer(p) PROVE Ok
    BY <1>1, <1>9 DEF ReapContainer, TypeOK, TodoInv, hostVars, history
  <1>10. ASSUME NEW p \in Procs, ReapContainersDone(p) PROVE Ok
    BY <1>1, <1>10 DEF ReapContainersDone, TypeOK, TodoInv, hostVars, history, Goto, Pc, CallPc, LoopPc
  <1>11. ASSUME NEW p \in Procs, Cancel(p) PROVE Ok
    BY <1>1, <1>2, <1>11 DEF Cancel, TypeOK, TodoInv, procVars, hostVars, history, Fault
  <1>12. ASSUME NEW p \in Procs, End(p) PROVE Ok
    <2>1. /\ pc' \in [Procs -> Pc] /\ todo' = [todo EXCEPT ![p] = <<>>] /\ pc' = [pc EXCEPT ![p] = "gone"]
      BY <1>1, <1>12 DEF End, TypeOK, Goto, Pc
    <2>2. todo' \in [Procs -> X] /\ TodoInv'
      BY <2>1, <1>1, <1>4 DEF TodoInv, LoopPc, TypeOK
    <2>3. /\ inUse' \in [Procs -> SUBSET Procs] /\ doomed' \in [Procs -> SUBSET Procs]
          /\ failed' \in [Procs -> SUBSET SnapType] /\ orphans' \in [Procs -> SUBSET SnapType]
          /\ faults' \in 0..MaxFaults /\ cancelled' \subseteq Procs
      BY <1>1, <1>2, <1>12 DEF End, TypeOK, Fault
    <2>4. claimed' \in [Procs -> Claims] /\ \A q \in Procs : claimed'[q].src \subseteq DOMAIN Sources[q]
      <3>1. NoClaim \in Claims /\ NoClaim.src = {}
        BY DatasetLen DEF NoClaim, Claims
      <3>2. claimed' = claimed \/ claimed' = [claimed EXCEPT ![p] = NoClaim]
        BY <1>12 DEF End
      <3>3. \A q \in Procs : claimed'[q] = claimed[q] \/ claimed'[q] = NoClaim
        BY <1>0, <3>2
      <3>4. claimed' \in [Procs -> Claims]
        BY <1>0, <3>1, <3>2
      <3> QED  BY <1>1, <3>1, <3>3, <3>4 DEF TypeOK
    <2>5. /\ at' \in [Procs -> SUBSET (SnapType \X (0..MaxWrites))]
          /\ blind' \in [Procs -> SUBSET {"reap", "reaplist", "resolve", "list"}]
      BY <1>1, <1>12 DEF End, TypeOK
    <2>6. UNCHANGED <<call, cmd, kept, snaps, mover, writes, loose>>
      BY <1>12 DEF End
    <2> QED  BY <1>1, <1>7, <2>1, <2>2, <2>3, <2>4, <2>5, <2>6 DEF TypeOK, Claims
  <1>13. ASSUME NEW p \in Procs, CallCreate(p) PROVE Ok
    <2>1. cmd' = [cmd EXCEPT ![p] = CmdOf(p)] /\ call' = [call EXCEPT ![p] = "created"]
      BY <1>13 DEF CallCreate, CmdOf
    <2>2. CmdOf(p) \in C
      <3>1. CASE pc[p] = "snap"
        BY <3>1, <1>6 DEF CmdOf, LoopPc
      <3>2. CASE pc[p] \in {"sweep", "rollback", "cleanup"}
        BY <3>2, <1>6 DEF CmdOf, LoopPc
      <3>3. CASE pc[p] \notin LoopPc
        BY <3>3, <1>4 DEF CmdOf, LoopPc
      <3> QED  BY <3>1, <3>2, <3>3 DEF LoopPc
    <2>3. cmd' \in [Procs -> C]
      <3>1. cmd \in [Procs -> C]
        BY <1>1 DEF TypeOK
      <3> HIDE DEF C
      <3> QED  BY <2>1, <2>2, <3>1
    <2>4. UNCHANGED <<pc, todo, cancelled, claimed, inUse, doomed, kept, faults, hostVars, history>>
      BY <1>13 DEF CallCreate
    <2> QED  BY <1>1, <2>1, <2>3, <2>4 DEF TypeOK, TodoInv, hostVars, history
  <1>14. ASSUME NEW p \in Procs, CallStart(p) PROVE Ok
    BY <1>1, <1>14 DEF CallStart, TypeOK, TodoInv, hostVars, history
  <1>15. ASSUME NEW p \in Procs, CallRuns(p) PROVE Ok
    <2>1. cmd[p].do \in {"list", "snapshot", "destroy"} /\ cmd[p].args \subseteq SnapType
      BY <1>1 DEF TypeOK
    <2>2. snaps' \subseteq SnapType /\ at' \in [Procs -> SUBSET (SnapType \X (0..MaxWrites))]
      <3>1. CASE cmd[p].do = "snapshot"
        <4>1. cmd[p].args \X {writes} \subseteq SnapType \X (0..MaxWrites)
          BY <2>1, <1>1 DEF TypeOK
        <4>2. /\ snaps' = snaps \cup cmd[p].args
              /\ at' = [at EXCEPT ![p] = @ \cup (cmd[p].args \X {writes})]
          BY <3>1, <1>15 DEF CallRuns
        <4>3. /\ snaps \subseteq SnapType
              /\ at \in [Procs -> SUBSET (SnapType \X (0..MaxWrites))]
          BY <1>1 DEF TypeOK
        <4> QED  BY <2>1, <4>1, <4>2, <4>3
      <3>2. CASE cmd[p].do # "snapshot"
        BY <3>2, <2>1, <1>1, <1>15 DEF CallRuns, TypeOK
      <3> QED  BY <3>1, <3>2
    <2>3. /\ call' \in [Procs -> {"none", "created", "running", "exited", "reaped", "vanished"}]
          /\ UNCHANGED <<pc, todo, cmd, cancelled, claimed, inUse, doomed, kept, faults, mover, writes,
                 history>>
      BY <1>1, <1>15 DEF CallRuns, TypeOK
    <2> QED  BY <1>1, <2>2, <2>3 DEF TypeOK, TodoInv, history
  <1>16. ASSUME NEW p \in Procs, CallReturns(p) \/ CallFails(p) PROVE Ok
    <2>1. /\ pc' \in [Procs -> Pc] /\ todo' \in [Procs -> X]
          /\ claimed' \in [Procs -> Claims] /\ claimed'[p].src \subseteq DOMAIN Sources[p]
          /\ failed' \in [Procs -> SUBSET SnapType] /\ blind' \in [Procs -> Blinds]
          /\ faults' \in 0..MaxFaults
          /\ \A q \in Procs : q # p => pc'[q] = pc[q] /\ todo'[q] = todo[q] /\ claimed'[q] = claimed[q]
          /\ CallEnds(p)
          /\ UNCHANGED <<cancelled, inUse, kept, hostVars, loose, orphans>>
          /\ todo'[p] = <<>> <=> pc'[p] \notin LoopPc
      BY <1>16, CallOver DEF X
    <2>2. /\ call' \in [Procs -> {"none", "created", "running", "exited", "reaped", "vanished"}]
          /\ doomed' \in [Procs -> SUBSET Procs]
      BY <1>1, <2>1 DEF CallEnds, TypeOK
    <2>3. cmd' \in [Procs -> C]
      <3>1. cmd \in [Procs -> C] /\ cmd' = [cmd EXCEPT ![p] = NoCmd]
        BY <1>1, <2>1 DEF TypeOK, CallEnds
      <3> HIDE DEF C
      <3> QED  BY <3>1, <1>4
    <2>4. TodoInv'
      BY <1>1, <2>1 DEF TodoInv
    <2>5. \A q \in Procs : claimed'[q].src \subseteq DOMAIN Sources[q]
      BY <1>1, <2>1 DEF TypeOK
    <2> QED  BY <1>1, <1>7, <2>1, <2>2, <2>3, <2>4, <2>5 DEF TypeOK, hostVars, Claims, Blinds
  <1>17. ASSUME NEW p \in Procs, Backup(p) PROVE Ok
    <2>1. Mode[p] \in {"none", "zfs", "auto"} /\ DOMAIN Sources[p] \subseteq Nat
      BY ConfigAssumption, SourceTypes
    <2>2. PICK l \in {"mount", "resolve", "done", "list"}, S \in {{}, DOMAIN Sources[p]} :
            pc' = [pc EXCEPT ![p] = l] /\ claimed' = [claimed EXCEPT ![p].src = S]
      BY <2>1, <1>17 DEF Backup, Goto
    <2>3. pc[p] = "idle" /\ UNCHANGED <<todo, call, cmd, cancelled, inUse, doomed, kept, faults, hostVars, history>>
      BY <1>17 DEF Backup
    <2>4. TodoInv'
      BY <1>1, <2>2, <2>3 DEF TodoInv, LoopPc, TypeOK
    <2>5. pc' \in [Procs -> Pc]
      BY <1>1, <2>2 DEF TypeOK, Pc, CallPc
    <2>6. /\ claimed' \in [Procs -> Claims] /\ claimed'[p].src = S
          /\ \A q \in Procs : q # p => claimed'[q] = claimed[q]
      <3>1. S \in SUBSET Nat
        BY <2>1
      <3> QED  BY <1>0, <2>2, <3>1, ClaimsSrc
    <2>7. \A q \in Procs : claimed'[q].src \subseteq DOMAIN Sources[q]
      BY <1>1, <2>6 DEF TypeOK
    <2> QED  BY <1>1, <2>3, <2>4, <2>5, <2>6, <2>7 DEF TypeOK, hostVars, history, Claims
  <1>18. ASSUME NEW p \in Procs, pc[p] \in {"mount", "mover"}, Cleanup(p)
         PROVE  pc' \in [Procs -> Pc] /\ todo' \in [Procs -> X] /\ TodoInv'
    <2>1. /\ todo' = [todo EXCEPT ![p] = todo'[p]] /\ todo'[p] \in X
          /\ pc' = [pc EXCEPT ![p] = IF todo'[p] = <<>> THEN "done" ELSE "cleanup"]
      BY <1>18, CleanupIs DEF X
    <2> QED  BY <2>1, <1>1 DEF TypeOK, Pc, CallPc, TodoInv, LoopPc
  <1>19. ASSUME NEW p \in Procs, MoverStart(p) PROVE Ok
    <2>1. pc[p] = "mount" /\ UNCHANGED <<call, cmd, cancelled, claimed, inUse, doomed, kept, snaps, writes, at, history>>
      BY <1>19 DEF MoverStart
    <2>2. mover' \subseteq Procs /\ mover \subseteq mover' /\ faults' \in 0..MaxFaults
      BY <1>1, <1>2, <1>19 DEF MoverStart, TypeOK, Fault
    <2>3. pc' \in [Procs -> Pc] /\ todo' \in [Procs -> X] /\ TodoInv'
      <3>1. CASE Cleanup(p)
        BY <3>1, <2>1, <1>18
      <3>2. CASE Goto(p, "mover") /\ todo' = todo
        BY <3>2, <2>1, <1>1 DEF Goto, TypeOK, Pc, TodoInv, LoopPc
      <3> QED  BY <3>1, <3>2, <1>19 DEF MoverStart
    <2> QED  BY <1>0, <1>1, <1>7, <2>1, <2>2, <2>3 DEF TypeOK, history
  <1>20. ASSUME NEW p \in Procs, MoverEnds(p) PROVE Ok
    BY <1>1, <1>20 DEF MoverEnds, TypeOK, TodoInv, procVars
  <1>21. ASSUME NEW p \in Procs, MoverReturns(p) PROVE Ok
    <2>1. pc[p] = "mover" /\ UNCHANGED <<call, cmd, cancelled, claimed, inUse, doomed, snaps, writes, at, failed, blind, orphans>>
      BY <1>21 DEF MoverReturns
    <2>4. p \notin loose
      BY <2>1 DEF IInv, MoverInv
    <2>2. mover' \subseteq Procs /\ kept' \subseteq Procs /\ loose' \subseteq mover' /\ faults' \in 0..MaxFaults
      BY <1>0, <1>1, <1>2, <1>21, <2>4 DEF MoverReturns, TypeOK, Fault
    <2>3. pc' \in [Procs -> Pc] /\ todo' \in [Procs -> X] /\ TodoInv'
      <3>1. CASE Cleanup(p)
        BY <3>1, <2>1, <1>18
      <3>2. CASE Goto(p, "done") /\ todo' = todo
        BY <3>2, <2>1, <1>1 DEF Goto, TypeOK, Pc, TodoInv, LoopPc
      <3> QED  BY <3>1, <3>2, <1>21 DEF MoverReturns
    <2> QED  BY <1>0, <1>1, <1>7, <2>1, <2>2, <2>3 DEF TypeOK, history
  <1>22. CASE Write
    BY <1>1, <1>2, <1>22 DEF Write, TypeOK, TodoInv, procVars, history
  <1> QED  BY <1>8, <1>9, <1>10, <1>11, <1>12, <1>13, <1>14, <1>15, <1>16, <1>17, <1>19,
              <1>20, <1>21, <1>22, <1>23 DEF Next

\* The calls, the movers and the processes of one instance.
LEMMA CallStep ==
  ASSUME IInv, Next
  PROVE  CmdInv' /\ DoomedInv' /\ MoverInv' /\ OneAlive' /\ InUseInv'
  <1> DEFINE Ok == CmdInv' /\ DoomedInv' /\ MoverInv' /\ OneAlive' /\ InUseInv'
  <1>1. TypeOK /\ CmdInv /\ DoomedInv /\ MoverInv /\ OneAlive /\ InUseInv
    BY DEF IInv
  <1>2. /\ pc \in [Procs -> Pc] /\ mover \subseteq Procs /\ loose \subseteq mover
        /\ call \in [Procs -> {"none", "created", "running", "exited", "reaped", "vanished"}]
        /\ inUse \in [Procs -> SUBSET Procs] /\ doomed \in [Procs -> SUBSET Procs]
        /\ DOMAIN cmd = Procs /\ todo = [p \in Procs |-> todo[p]]
        /\ cmd = [p \in Procs |-> cmd[p]]
    BY DEF IInv, TypeOK, FunInv
  <1>3. ASSUME UNCHANGED <<pc, todo, call, cmd, doomed, inUse, mover, loose>> PROVE Ok
    BY <1>1, <1>3 DEF CmdInv, DoomedInv, MoverInv, Reads, OneAlive, InUseInv, Alive, CmdOf
  <1>20. ASSUME NEW p \in Procs, StartUnreaped(p) PROVE Ok
    <2>1. /\ pc[p] = "new" /\ pc' = [pc EXCEPT ![p] = "idle"]
          /\ \A q \in Procs : Alive(q) => Instance[q] # Instance[p]
          /\ UNCHANGED <<todo, call, cmd, mover, loose, doomed, inUse>>
      BY <1>20 DEF StartUnreaped, Begins, Goto, hostVars
    <2>2. CmdInv'
      BY <1>1, <1>2, <2>1 DEF CmdInv, Alive, CmdOf
    <2>3. DoomedInv' /\ MoverInv'
      BY <1>1, <1>2, <2>1 DEF DoomedInv, MoverInv, Reads
    <2>4. OneAlive' /\ InUseInv'
      BY <1>1, <1>2, <2>1 DEF OneAlive, InUseInv, Reads, Alive
    <2> QED  BY <2>2, <2>3, <2>4
  <1>4. ASSUME NEW p \in Procs, Start(p) PROVE Ok
    <2>1. /\ pc[p] = "new" /\ pc' = [pc EXCEPT ![p] = "reap"]
          /\ \A q \in Procs : Alive(q) => Instance[q] # Instance[p]
          /\ inUse' = [inUse EXCEPT ![p] = mover]
          /\ doomed' = [doomed EXCEPT ![p] = {q \in Procs : call[q] \in {"created", "exited"}}]
          /\ UNCHANGED <<todo, call, cmd, mover, loose>>
      BY <1>4 DEF Start, Begins, Goto, hostVars
    <2>2. CmdInv'
      BY <1>1, <1>2, <2>1 DEF CmdInv, Alive, CmdOf
    <2>3. DoomedInv' /\ MoverInv'
      BY <1>1, <1>2, <2>1 DEF DoomedInv, MoverInv, Reads
    <2>4. OneAlive' /\ InUseInv'
      BY <1>1, <1>2, <2>1 DEF OneAlive, InUseInv, Reads, Alive
    <2> QED  BY <2>2, <2>3, <2>4
  <1>5. ASSUME NEW p \in Procs, ReapContainer(p) PROVE Ok
    <2>1. PICK q \in doomed[p] :
            /\ call' = [call EXCEPT ![q] = IF @ = "exited" THEN "vanished" ELSE "reaped"]
            /\ doomed' = [r \in Procs |-> doomed[r] \ {q}]
      BY <1>5 DEF ReapContainer
    <2>2. UNCHANGED <<pc, todo, cmd, inUse, mover, loose>>
      BY <1>5 DEF ReapContainer, hostVars, history
    <2>3. q \in Procs /\ call[q] \in {"created", "running", "exited"}
      BY <1>1, <1>2, <2>1 DEF DoomedInv
    <2>4. CmdInv'
      BY <1>1, <1>2, <2>1, <2>2, <2>3 DEF CmdInv, Alive, CmdOf
    <2>5. DoomedInv' /\ MoverInv'
      BY <1>1, <1>2, <2>1, <2>2, <2>3 DEF DoomedInv, MoverInv, Reads
    <2>6. OneAlive' /\ InUseInv'
      BY <1>1, <2>2 DEF OneAlive, InUseInv, Reads, Alive
    <2> QED  BY <2>4, <2>5, <2>6
  <1>6. ASSUME NEW p \in Procs, NEW l \in Pc \ {"new", "gone", "reap"}, pc[p] \notin CallPc, Alive(p),
               l = "reaplist" => pc[p] = "reap",
               p \in Reads' => l \in {"mover", "done"}, p \in loose' => l \in {"cleanup", "done"},
               pc' = [pc EXCEPT ![p] = l], \A q \in Procs : q # p => todo'[q] = todo[q],
               UNCHANGED <<call, cmd, doomed, inUse>>,
               \A q \in Procs : q # p => (q \in Reads' <=> q \in Reads) /\ (q \in loose' <=> q \in loose),
               Reads' \cup loose' \subseteq Procs
        PROVE  Ok
    <2>1. CmdInv'
      <3>1. call[p] = "none" /\ cmd[p] = NoCmd
        BY <1>1, <1>6 DEF CmdInv
      <3> QED  BY <1>1, <1>2, <1>6, <3>1 DEF CmdInv, Alive, CmdOf
    <2>2. DoomedInv' /\ MoverInv'
      <3>1. call[p] = "none"
        BY <1>1, <1>6 DEF CmdInv
      <3>2. DoomedInv'
        BY <1>1, <1>6 DEF DoomedInv
      <3>3. MoverInv'
        <4>1. call[p] = "none" /\ cmd[p].do # "snapshot"
          BY <1>1, <3>1 DEF CmdInv, NoCmd
        <4>2. pc'[p] = l /\ \A q \in Procs : q # p => pc'[q] = pc[q]
          BY <1>2, <1>6
        <4> QED  BY <1>1, <1>2, <1>6, <4>1, <4>2 DEF MoverInv
      <3> QED  BY <3>2, <3>3
    <2>3. OneAlive'
      BY <1>1, <1>2, <1>6 DEF OneAlive, Alive
    <2>4. InUseInv'
      <3>1. pc'[p] = l /\ \A q \in Procs : q # p => pc'[q] = pc[q]
        BY <1>2, <1>6
      <3>2. \A q \in Procs : pc'[q] \in {"reap", "reaplist"} => pc[q] \in {"reap", "reaplist"}
        BY <1>6, <3>1
      <3>3. SUFFICES ASSUME NEW q \in Procs, NEW r \in Procs, pc'[q] \in {"reap", "reaplist"},
                            r \in Reads', Instance[r] = Instance[q]
                     PROVE  r \in inUse[q]
        BY <1>6 DEF InUseInv
      <3>4. CASE r # p
        BY <1>1, <1>6, <3>2, <3>3, <3>4 DEF InUseInv
      <3>5. CASE r = p
        <4>1. Alive(q) /\ q # p
          BY <1>6, <3>1, <3>2, <3>3, <3>5 DEF Alive
        <4> QED  BY <1>1, <1>6, <3>3, <3>5, <4>1 DEF OneAlive
      <3> QED  BY <3>4, <3>5
    <2> QED  BY <2>1, <2>2, <2>3, <2>4
  <1>7. ASSUME NEW p \in Procs, ReapContainersDone(p) PROVE Ok
    <2>1. /\ pc[p] = "reap" /\ Alive(p) /\ pc' = [pc EXCEPT ![p] = "reaplist"]
          /\ UNCHANGED <<todo, call, cmd, doomed, inUse, mover, loose>>
      BY <1>7 DEF ReapContainersDone, Goto, hostVars, history
    <2>2. /\ p \notin Reads' /\ p \notin loose' /\ Reads' = Reads /\ Reads \cup loose \subseteq Procs
          /\ "reaplist" \in Pc \ {"new", "gone", "reap"} /\ pc[p] \notin CallPc
      BY <1>1, <1>2, <2>1 DEF MoverInv, Reads, Pc, CallPc
    <2> QED  BY <2>1, <2>2, <1>6
  <1>8. ASSUME NEW p \in Procs, Cancel(p) PROVE Ok
    BY <1>3, <1>8 DEF Cancel, procVars, hostVars, history
  <1>9. ASSUME NEW p \in Procs, End(p) PROVE Ok
    <2>1. /\ pc' = [pc EXCEPT ![p] = "gone"] /\ UNCHANGED <<call, cmd, mover, loose>>
          /\ inUse' = [inUse EXCEPT ![p] = {}] /\ doomed' = [doomed EXCEPT ![p] = {}]
          /\ todo' = [todo EXCEPT ![p] = <<>>]
      BY <1>9 DEF End, Goto
    <2>2. CmdInv'
      BY <1>1, <1>2, <2>1 DEF CmdInv, Alive, CmdOf
    <2>3. DoomedInv' /\ MoverInv'
      BY <1>1, <1>2, <2>1 DEF DoomedInv, MoverInv, Reads
    <2>4. OneAlive' /\ InUseInv'
      BY <1>1, <1>2, <2>1 DEF OneAlive, InUseInv, Reads, Alive
    <2> QED  BY <2>2, <2>3, <2>4
  <1>10. ASSUME NEW p \in Procs, CallCreate(p) PROVE Ok
    <2>1. /\ Alive(p) /\ pc[p] \in CallPc /\ cmd' = [cmd EXCEPT ![p] = CmdOf(p)]
          /\ call' = [call EXCEPT ![p] = "created"] /\ call[p] = "none"
          /\ UNCHANGED <<pc, todo, doomed, inUse, mover, loose>>
      BY <1>10 DEF CallCreate, CmdOf, hostVars, history
    <2>2. CmdInv'
      <3>1. SUFFICES ASSUME NEW q \in Procs
                     PROVE  /\ call'[q] = "none" => cmd'[q] = NoCmd
                            /\ pc[q] = "new" => call'[q] = "none"
                            /\ Alive(q) /\ call'[q] # "none" => pc[q] \in CallPc /\ cmd'[q] = CmdOf(q)
        BY <2>1 DEF CmdInv, Alive, CmdOf
      <3> QED  BY <1>1, <1>2, <2>1 DEF CmdInv, Alive
    <2>3. DoomedInv'
      BY <1>1, <1>2, <2>1 DEF DoomedInv
    <2>4. p \notin Reads /\ (p \in loose => pc[p] = "cleanup")
      BY <1>1, <2>1 DEF MoverInv, CallPc
    <2>6. pc[p] = "cleanup" => CmdOf(p).do = "destroy"
      BY DEF CmdOf
    <2>7. Reads' = Reads
      BY <2>1 DEF Reads
    <2>8. MoverInv'
      BY <1>1, <1>2, <2>1, <2>4, <2>6, <2>7 DEF MoverInv
    <2>5. MoverInv' /\ OneAlive' /\ InUseInv'
      BY <1>1, <2>1, <2>7, <2>8 DEF OneAlive, InUseInv, Alive
    <2> QED  BY <2>2, <2>3, <2>5
  <1>11. ASSUME NEW p \in Procs, NEW c \in {"running", "exited"}, call[p] # "none",
                call' = [call EXCEPT ![p] = c], UNCHANGED <<pc, todo, cmd, doomed, inUse, mover, loose>>
         PROVE  Ok
    <2>1. CmdInv' /\ DoomedInv'
      BY <1>1, <1>2, <1>11 DEF CmdInv, DoomedInv, Alive, CmdOf
    <2>2. MoverInv' /\ OneAlive' /\ InUseInv'
      BY <1>1, <1>2, <1>11 DEF MoverInv, Reads, OneAlive, InUseInv, Alive
    <2> QED  BY <2>1, <2>2
  <1>12. ASSUME NEW p \in Procs, CallStart(p) PROVE Ok
    BY <1>11, <1>12 DEF CallStart, hostVars, history
  <1>13. ASSUME NEW p \in Procs, CallRuns(p) PROVE Ok
    BY <1>11, <1>13 DEF CallRuns, history
  <1>14. ASSUME NEW p \in Procs, CallReturns(p) \/ CallFails(p) PROVE Ok
    <2>1. /\ Alive(p) /\ pc[p] \in CallPc /\ pc'[p] \notin {"new", "gone"}
          /\ \A q \in Procs : q # p => pc'[q] = pc[q] /\ todo'[q] = todo[q]
          /\ UNCHANGED <<inUse, mover, loose>> /\ Outcome(p)
      BY <1>14, CallOver DEF hostVars
    <2>2. /\ call' = [call EXCEPT ![p] = "none"] /\ cmd' = [cmd EXCEPT ![p] = NoCmd]
          /\ doomed' = [q \in Procs |-> doomed[q] \ {p}]
      BY <1>14, CallOver DEF CallEnds
    <2>3. /\ p \notin Reads /\ (p \in loose => pc'[p] \in {"cleanup", "done"})
          /\ Reads' = Reads /\ Reads \cup loose \subseteq Procs
      BY <1>1, <1>2, <2>1 DEF MoverInv, CallPc, Reads, Outcome
    <2>8. pc'[p] \notin {"reap", "reaplist"}
      BY <2>1 DEF Outcome
    <2>4. CmdInv'
      BY <1>1, <1>2, <2>1, <2>2 DEF CmdInv, Alive, CmdOf
    <2>5. DoomedInv'
      BY <1>1, <1>2, <2>2 DEF DoomedInv
    <2>6. MoverInv'
      <3>1. cmd'[p].do # "snapshot" /\ \A q \in Procs : q # p => cmd'[q] = cmd[q] /\ call'[q] = call[q]
        BY <1>2, <2>2 DEF NoCmd
      <3>2. \A q \in Reads' : q \in Procs /\ q # p /\ q \in Reads
        BY <2>3
      <3>3. \A q \in loose' : q \in Procs /\ q \in loose
        BY <2>1, <2>3
      <3> QED  BY <1>1, <2>1, <2>3, <3>1, <3>2, <3>3 DEF MoverInv
    <2>7. OneAlive' /\ InUseInv'
      BY <1>1, <1>2, <2>1, <2>3, <2>8 DEF OneAlive, InUseInv, Alive
    <2> QED  BY <2>4, <2>5, <2>6, <2>7
  <1>15. ASSUME NEW p \in Procs, Backup(p) PROVE Ok
    <2>1. Mode[p] \in {"none", "zfs", "auto"}
      BY ConfigAssumption
    <2>2. PICK l \in {"mount", "resolve", "done", "list"} : pc' = [pc EXCEPT ![p] = l]
      BY <2>1, <1>15 DEF Backup, Goto
    <2>3. /\ pc[p] = "idle" /\ Alive(p)
          /\ UNCHANGED <<todo, call, cmd, doomed, inUse, mover, loose>>
      BY <1>15 DEF Backup, hostVars, history
    <2>4. /\ p \notin Reads' /\ p \notin loose' /\ Reads' = Reads /\ Reads \cup loose \subseteq Procs
          /\ l \in Pc \ {"new", "gone", "reap"} /\ l # "reaplist" /\ pc[p] \notin CallPc
      BY <1>1, <1>2, <2>2, <2>3 DEF MoverInv, Reads, Pc, CallPc
    <2> QED  BY <2>2, <2>3, <2>4, <1>6
  <1>16. ASSUME NEW p \in Procs, MoverStart(p) PROVE Ok
    <2>1. pc[p] = "mount" /\ Alive(p) /\ UNCHANGED <<call, cmd, doomed, inUse, loose>>
      BY <1>16 DEF MoverStart, history
    <2>2. p \notin Reads /\ p \notin loose /\ pc[p] \notin CallPc /\ Reads \cup loose \subseteq Procs
      BY <1>1, <1>2, <2>1 DEF MoverInv, Reads, CallPc
    <2>3. CASE mover' = mover \cup {p} /\ Goto(p, "mover") /\ todo' = todo
      <3>1. /\ "mover" \in Pc \ {"new", "gone", "reap"} /\ "mover" # "reaplist"
            /\ Reads' = Reads \cup {p}
        BY <2>1, <2>2, <2>3 DEF Pc, CallPc, Reads
      <3> QED  BY <2>1, <2>2, <2>3, <3>1, <1>6 DEF Goto
    <2>4. CASE Cleanup(p) /\ mover' = mover
      <3>1. PICK l \in {"done", "cleanup"} :
              pc' = [pc EXCEPT ![p] = l] /\ \A q \in Procs : q # p => todo'[q] = todo[q]
        BY <1>2, <2>4 DEF Cleanup, Loop, Goto
      <3>2. l \in Pc \ {"new", "gone", "reap"} /\ l # "reaplist" /\ Reads' = Reads
        BY <2>1, <2>4, <3>1 DEF Pc, CallPc, Reads
      <3> QED  BY <2>1, <2>2, <2>4, <3>1, <3>2, <1>6
    <2> QED  BY <2>3, <2>4, <1>16 DEF MoverStart
  <1>17. ASSUME NEW p \in Procs, MoverEnds(p) PROVE Ok
    <2>1. UNCHANGED <<pc, todo, call, cmd, doomed, inUse>>
      BY <1>17 DEF MoverEnds, procVars
    <2>2. Reads' \subseteq Reads /\ loose' \subseteq loose
      BY <1>17 DEF MoverEnds, Reads
    <2>3. CmdInv' /\ DoomedInv'
      BY <1>1, <2>1 DEF CmdInv, DoomedInv, Alive, CmdOf
    <2>4. MoverInv' /\ OneAlive' /\ InUseInv'
      BY <1>1, <2>1, <2>2 DEF MoverInv, OneAlive, InUseInv, Alive
    <2> QED  BY <2>3, <2>4
  <1>18. ASSUME NEW p \in Procs, MoverReturns(p) PROVE Ok
    <2>1. pc[p] = "mover" /\ Alive(p) /\ UNCHANGED <<call, cmd, doomed, inUse>>
      BY <1>18 DEF MoverReturns
    <2>2. pc[p] \notin CallPc /\ call[p] = "none"
      BY <1>1, <2>1 DEF CmdInv, CallPc
    <2>5. p \notin loose /\ Reads \cup loose \subseteq Procs
      BY <1>1, <1>2, <2>1 DEF MoverInv, Reads
    <2>3. CASE mover' = mover /\ loose' = loose /\ Goto(p, "done") /\ todo' = todo
      <3>1. "done" \in Pc \ {"new", "gone", "reap"} /\ "done" # "reaplist" /\ Reads' = Reads
        BY <2>3 DEF Pc, CallPc, Reads
      <3> QED  BY <2>1, <2>2, <2>3, <2>5, <3>1, <1>6 DEF Goto
    <2>4. CASE /\ Cleanup(p) /\ Reads' = Reads \ {p}
               /\ loose' \subseteq Procs /\ \A q \in Procs : q # p => (q \in loose' <=> q \in loose)
      <3>1. PICK l \in {"done", "cleanup"} :
              pc' = [pc EXCEPT ![p] = l] /\ \A q \in Procs : q # p => todo'[q] = todo[q]
        BY <1>2, <2>4 DEF Cleanup, Loop, Goto
      <3>2. l \in Pc \ {"new", "gone", "reap"} /\ l # "reaplist"
        BY <3>1 DEF Pc, CallPc
      <3> QED  BY <2>1, <2>2, <2>4, <2>5, <3>1, <3>2, <1>6
    <2>6. CASE Cleanup(p) /\ (mover' = mover \ {p} \/ (p \notin mover /\ mover' = mover)) /\ loose' = loose
      <3>1. Reads' = Reads \ {p}
        BY <2>5, <2>6 DEF Reads
      <3> QED  BY <2>4, <2>5, <2>6, <3>1
    <2>7. CASE Cleanup(p) /\ p \in mover /\ mover' = mover /\ loose' = loose \cup {p}
      <3>1. Reads' = Reads \ {p}
        BY <2>7 DEF Reads
      <3> QED  BY <1>2, <2>4, <2>5, <2>7, <3>1
    <2> QED  BY <2>3, <2>6, <2>7, <1>18 DEF MoverReturns
  <1>19. CASE Write
    BY <1>3, <1>19 DEF Write, procVars, history
  <1> QED  BY <1>4, <1>5, <1>7, <1>8, <1>9, <1>10, <1>12, <1>13, <1>14, <1>15, <1>16, <1>17,
              <1>18, <1>19, <1>20 DEF Next

\* What the processes claim, and the groups their snapshots are taken in.
LEMMA ClaimStep ==
  ASSUME IInv, Next
  PROVE  ClaimInv' /\ GroupInv'
  <1> DEFINE Ok == ClaimInv' /\ GroupInv'
             Late == {"snap", "mount", "mover", "rollback", "cleanup"}
  <1>1. TypeOK /\ ClaimInv /\ GroupInv /\ MoverInv
    BY DEF IInv
  <1>2. /\ pc \in [Procs -> Pc] /\ mover \subseteq Procs
        /\ blind \in [Procs -> Blinds] /\ claimed \in [Procs -> Claims] /\ DOMAIN todo = Procs
    BY DEF IInv, TypeOK, FunInv, Blinds, Claims
  <1>3. \A p : Names(p) = NamesOf(p, claimed[p]) /\ Names(p)' = NamesOf(p, claimed'[p])
    BY NamesIs
  \* The parts of the invariant for one process.
  <1> DEFINE ClaimOk(q) ==
               /\ pc[q] \in Early \ {"list"} => claimed[q].src = {}
               /\ pc[q] = "resolve" => Mode[q] = "auto"
               /\ pc[q] \in {"list", "snap", "mount", "mover"} \/ q \in mover => Claim(q)
               /\ pc[q] \in Late \/ q \in mover => Listed(q)
             GroupOk(q) == pc[q] = "snap" =>
               /\ Union(todo[q]) \subseteq Names(q)
               /\ \A i \in DOMAIN todo[q] : \A s \in todo[q][i] : \A t \in Names(q) :
                    t \in todo[q][i] <=> Pool(t) = Pool(s)
               /\ \A i, j \in DOMAIN todo[q] : i # j => todo[q][i] \cap todo[q][j] = {}
  <1>4. \A q \in Procs : ClaimOk(q) /\ GroupOk(q)
    BY <1>1 DEF ClaimInv, GroupInv
  <1>0. \A q \in Procs : q \in mover => pc[q] \in {"mover", "cleanup", "done", "gone"}
    BY <1>1 DEF MoverInv, Reads
  <1>5. ASSUME \A q \in Procs : ClaimOk(q)' /\ GroupOk(q)' PROVE Ok
    BY <1>5 DEF ClaimInv, GroupInv
  \* A process whose part does not change, but for its mover and its label.
  <1>6. ASSUME NEW q \in Procs, pc'[q] = pc[q], claimed'[q] = claimed[q], blind'[q] = blind[q],
               todo'[q] = todo[q], q \in mover' => q \in mover
        PROVE  ClaimOk(q)' /\ GroupOk(q)'
    <2>1. ClaimOk(q)'
      BY <1>4, <1>6 DEF Claim, Listed
    <2>2. Names(q)' = Names(q)
      BY <1>3, <1>6
    <2>3. GroupOk(q)
      BY <1>4
    <2>4. GroupOk(q)'
      BY <2>2, <2>3, <1>6
    <2> QED  BY <2>1, <2>4
  <1>7. ASSUME UNCHANGED <<pc, claimed, blind, todo>>, mover' \subseteq mover PROVE Ok
    BY <1>5, <1>6, <1>7
  <1>8. ASSUME NEW p \in Procs, Start(p) PROVE Ok
    <2>1. /\ pc[p] = "new" /\ pc' = [pc EXCEPT ![p] = "reap"]
          /\ UNCHANGED <<claimed, blind, todo, mover>>
      BY <1>8 DEF Start, Begins, Goto, hostVars
    <2>2. ClaimOk(p)' /\ GroupOk(p)'
      <3>1. pc'[p] = "reap" /\ p \notin mover /\ claimed[p].src = {}
        BY <1>0, <1>2, <1>4, <2>1 DEF Early
      <3> QED  BY <3>1, <2>1
    <2> QED  BY <2>1, <2>2, <1>2, <1>5, <1>6
  <1>17. ASSUME NEW p \in Procs, StartUnreaped(p) PROVE Ok
    <2>1. /\ pc[p] = "new" /\ pc' = [pc EXCEPT ![p] = "idle"]
          /\ blind' = [blind EXCEPT ![p] = {"reap"}]
          /\ UNCHANGED <<claimed, todo, mover>>
      BY <1>17 DEF StartUnreaped, Begins, Goto, hostVars
    <2>2. ClaimOk(p)' /\ GroupOk(p)'
      <3>1. pc'[p] = "idle" /\ p \notin mover /\ claimed[p].src = {}
        BY <1>0, <1>2, <1>4, <2>1 DEF Early
      <3> QED  BY <3>1, <2>1
    <2> QED  BY <2>1, <2>2, <1>2, <1>5, <1>6
  <1>9. ASSUME NEW p \in Procs, ReapContainersDone(p) PROVE Ok
    <2>1. /\ pc[p] = "reap" /\ pc' = [pc EXCEPT ![p] = "reaplist"]
          /\ UNCHANGED <<claimed, blind, todo, mover>>
      BY <1>9 DEF ReapContainersDone, Goto, hostVars, history
    <2>2. ClaimOk(p)' /\ GroupOk(p)'
      <3>1. pc'[p] = "reaplist" /\ p \notin mover /\ claimed[p].src = {}
        BY <1>0, <1>2, <1>4, <2>1 DEF Early
      <3> QED  BY <3>1, <2>1
    <2> QED  BY <2>1, <2>2, <1>2, <1>5, <1>6
  <1>10. ASSUME NEW p \in Procs, End(p) PROVE Ok
    <2>1. /\ pc' = [pc EXCEPT ![p] = "gone"] /\ UNCHANGED mover
          /\ todo' = [todo EXCEPT ![p] = <<>>]
          /\ p \in mover => UNCHANGED <<claimed, blind>>
          /\ p \notin mover => /\ claimed' = [claimed EXCEPT ![p] = NoClaim]
                               /\ blind' = [blind EXCEPT ![p] = {}]
      BY <1>10 DEF End, Goto
    <2>2. \A q \in Procs : q # p => ClaimOk(q)' /\ GroupOk(q)'
      BY <2>1, <1>2, <1>6
    <2>3. pc'[p] = "gone"
      BY <2>1, <1>2
    <2>4. ClaimOk(p)' /\ GroupOk(p)'
      <3>1. CASE p \in mover
        BY <3>1, <2>1, <2>3, <1>4 DEF Early, Claim, Listed
      <3>2. CASE p \notin mover
        BY <3>2, <2>1, <2>3 DEF Early
      <3> QED  BY <3>1, <3>2
    <2> QED  BY <2>2, <2>4, <1>5
  <1>11. ASSUME NEW p \in Procs, CallReturns(p) \/ CallFails(p) PROVE Ok
    <2>1. /\ pc[p] \in CallPc /\ Outcome(p) /\ mover' = mover
          /\ blind[p] \subseteq blind'[p] /\ claimed'[p] \in Claims
          /\ claimed'[p].src \subseteq DOMAIN Sources[p]
          /\ \A q \in Procs : q # p =>
               /\ pc'[q] = pc[q] /\ todo'[q] = todo[q] /\ claimed'[q] = claimed[q]
               /\ blind'[q] = blind[q]
      BY <1>11, CallOver DEF hostVars
    <2>2. \A q \in Procs : q # p => ClaimOk(q)' /\ GroupOk(q)'
      BY <2>1, <1>6
    <2>3. p \in mover => pc[p] = "cleanup"
      BY <1>0, <2>1 DEF CallPc
    <2>4. /\ ClaimOk(p) /\ Mode[p] \in {"none", "zfs", "auto"}
          /\ pc[p] = "resolve" => Mode[p] = "auto"
      BY <1>4, ConfigAssumption
    <2>5. ClaimOk(p)'
      <3>1. CASE /\ pc[p] \in {"reaplist", "sweep"} /\ claimed'[p] = claimed[p]
                 /\ pc'[p] \in {"sweep", "idle"}
        BY <3>1, <2>1, <2>3, <2>4 DEF Early
      <3>2. CASE /\ pc[p] = "resolve"
                 /\ pc'[p] = (IF claimed'[p].src = {} THEN "mount" ELSE "list")
                 /\ \A i \in claimed'[p].src : ~Sources[p][i].foreign
                 /\ claimed'[p].src = Snapshottable(p, Len(Datasets)) \/ "resolve" \in blind'[p]
        <4>1. Claim(p)'
          BY <3>2, <2>4 DEF Claim, Snapshottable, OnZfs, DatasetFor
        <4>2. claimed'[p].src = {} => Listed(p)'
          BY DEF Listed
        <4> QED  BY <3>2, <2>1, <2>3, <4>1, <4>2 DEF Early
      <3>3. CASE /\ pc[p] = "list" /\ claimed'[p].src = claimed[p].src
                 /\ pc'[p] \in {"mount", "snap"}
                 /\ \A i \in claimed'[p].src : OnZfs(Sources[p][i], claimed'[p].lines)
                 /\ claimed'[p].lines = Len(Datasets) \/ "list" \in blind'[p]
        <4>1. Listed(p)'
          BY <3>3 DEF Listed, OnZfs, DatasetFor
        <4>2. Claim(p)'
          BY <3>3, <2>1, <2>4 DEF Claim, Snapshottable, OnZfs, DatasetFor
        <4> QED  BY <3>3, <2>1, <2>3, <4>1, <4>2 DEF Early
      <3>6. CASE pc[p] = "list" /\ pc'[p] = "done"
        BY <3>6, <2>1, <2>3 DEF Early
      <3>4. CASE /\ pc[p] = "snap" /\ claimed'[p] = claimed[p]
                 /\ pc'[p] \in {"mount", "snap", "rollback", "done"}
        BY <3>4, <2>1, <2>3, <2>4 DEF Early, Claim, Listed
      <3>5. CASE /\ pc[p] \in {"rollback", "cleanup"} /\ claimed'[p] = claimed[p]
                 /\ pc'[p] \in {pc[p], "done"}
        BY <3>5, <2>1, <2>3, <2>4 DEF Early, Claim, Listed
      <3> QED  BY <2>1, <3>1, <3>2, <3>3, <3>4, <3>5, <3>6 DEF Outcome
    <2>6. GroupOk(p)'
      <3>1. SUFFICES ASSUME pc'[p] = "snap" PROVE GroupOk(p)'
        OBVIOUS
      <3>2. CASE /\ pc[p] = "list"
                 /\ \A i \in claimed'[p].src : OnZfs(Sources[p][i], claimed'[p].lines)
                 /\ todo'[p] = GroupByPool(NamesOf(p, claimed'[p]))
        <4> DEFINE N == NamesOf(p, claimed'[p])
        <4>1. N \in SUBSET SnapType
          BY <3>2, <2>1, NamesOfIs
        <4>2. Names(p)' = N
          BY <1>3
        <4> HIDE DEF N
        <4> QED  BY <3>2, <4>1, <4>2, LoopArgs DEF N
      <3>3. CASE pc[p] = "snap" /\ claimed'[p] = claimed[p] /\ todo'[p] = Tail(todo[p])
        <4>1. Names(p)' = Names(p)
          BY <3>3, <1>3
        <4>2. todo[p] \in Seq(SUBSET SnapType) /\ todo[p] # <<>>
          BY <3>3, TodoTypes DEF LoopPc
        <4>3. /\ \A i \in DOMAIN todo'[p] : i + 1 \in DOMAIN todo[p] /\ todo'[p][i] = todo[p][i + 1]
              /\ \A i \in DOMAIN todo'[p] : i \in Int
              /\ Union(todo'[p]) \subseteq Union(todo[p])
          <5> DEFINE seq == todo[p]
          <5>1. seq \in Seq(SUBSET SnapType) /\ seq # <<>> /\ todo'[p] = Tail(seq)
            BY <3>3, <4>2
          <5> HIDE DEF seq
          <5>2. /\ \A i \in DOMAIN Tail(seq) : i + 1 \in DOMAIN seq /\ Tail(seq)[i] = seq[i + 1]
                /\ DOMAIN Tail(seq) = 1..(Len(seq) - 1)
                /\ Union(seq) = Head(seq) \cup Union(Tail(seq))
            BY <5>1, UnionTail
          <5> QED  BY <5>1, <5>2 DEF seq
        <4>4. GroupOk(p)
          BY <1>4
        <4>5. \A i, j \in DOMAIN todo'[p] : i # j => i + 1 # j + 1
          BY <4>3
        <4>6. \A i, j \in DOMAIN todo'[p] : i # j => todo'[p][i] \cap todo'[p][j] = {}
          BY <3>3, <4>3, <4>4, <4>5
        <4>7. \A i \in DOMAIN todo'[p] : \A s \in todo'[p][i] : \A t \in Names(p) :
                t \in todo'[p][i] <=> Pool(t) = Pool(s)
          BY <3>3, <4>3, <4>4
        <4> QED  BY <3>3, <4>1, <4>3, <4>4, <4>6, <4>7
      <3> QED  BY <2>1, <3>1, <3>2, <3>3 DEF Outcome
    <2> QED  BY <2>2, <2>5, <2>6, <1>5
  <1>12. ASSUME NEW p \in Procs, Backup(p) PROVE Ok
    <2>1. /\ pc[p] = "idle" /\ UNCHANGED <<todo, blind, mover>>
          /\ Mode[p] \in {"none", "zfs", "auto"}
      BY <1>12, ConfigAssumption DEF Backup, hostVars, history
    <2>2. PICK l \in Pc, S \in SUBSET DOMAIN Sources[p] :
            /\ pc' = [pc EXCEPT ![p] = l] /\ claimed' = [claimed EXCEPT ![p].src = S]
            /\ \/ Mode[p] = "none" /\ l = "mount" /\ S = {}
               \/ Mode[p] = "auto" /\ l = "resolve" /\ S = {}
               \/ /\ Mode[p] = "auto" /\ l = "mount" /\ S = {}
                  /\ \A i \in DOMAIN Sources[p] : Sources[p][i].foreign
               \/ l = "done"
               \/ /\ Mode[p] = "zfs" /\ l = "list" /\ S = DOMAIN Sources[p]
                  /\ \A i \in DOMAIN Sources[p] : ~Sources[p][i].foreign
      <3> DEFINE foreign == {i \in DOMAIN Sources[p] : Sources[p][i].foreign}
                 Begin(l, S) == pc' = [pc EXCEPT ![p] = l] /\ claimed' = [claimed EXCEPT ![p].src = S]
      <3>1. CASE Mode[p] = "none"
        <4>1. Begin("mount", {})
          BY <3>1, <1>12 DEF Backup, Goto
        <4> QED  BY <3>1, <4>1 DEF Pc
      <3>2. CASE Mode[p] = "auto"
        <4>1. Begin(IF foreign = DOMAIN Sources[p] THEN "mount" ELSE "resolve", {})
          BY <3>2, <1>12 DEF Backup, Goto
        <4> QED  BY <3>2, <4>1 DEF Pc, CallPc
      <3>3. CASE Mode[p] = "zfs"
        <4>1. IF foreign # {} THEN Begin("done", {}) ELSE Begin("list", DOMAIN Sources[p])
          BY <3>3, <1>12 DEF Backup, Goto
        <4> QED  BY <3>3, <4>1 DEF Pc, CallPc
      <3> QED  BY <2>1, <3>1, <3>2, <3>3
    <2>6. claimed'[p].src = S /\ \A q \in Procs : q # p => claimed'[q] = claimed[q]
      <3>1. S \in SUBSET Nat
        BY <2>2, SourceTypes
      <3> QED  BY <1>2, <2>2, <3>1, ClaimsSrc
    <2>3. \A q \in Procs : q # p => ClaimOk(q)' /\ GroupOk(q)'
      BY <2>1, <2>2, <2>6, <1>2, <1>6
    <2>4. pc'[p] = l /\ p \notin mover
      BY <2>1, <2>2, <1>0, <1>2
    <2>7. l \notin {"done", "resolve"} => Claim(p)'
      BY <2>1, <2>2, <2>6 DEF Claim, Snapshottable
    <2>8. l # "list" => Listed(p)' \/ l = "done"
      BY <2>2, <2>6 DEF Listed
    <2>9. l \in {"mount", "resolve", "done", "list"}
      BY <2>2
    <2>10. l = "resolve" => Mode[p] = "auto" /\ S = {}
      BY <2>2
    <2>5. ClaimOk(p)' /\ GroupOk(p)'
      BY <2>1, <2>4, <2>6, <2>7, <2>8, <2>9, <2>10 DEF Early
    <2> QED  BY <2>3, <2>5, <1>5
  <1>13. ASSUME NEW p \in Procs, MoverStart(p) PROVE Ok
    <2>1. /\ pc[p] = "mount" /\ UNCHANGED <<claimed, blind>> /\ mover' \subseteq mover \cup {p}
      BY <1>13 DEF MoverStart, history
    <2>2. \E l \in {"mover", "done", "cleanup"} : pc' = [pc EXCEPT ![p] = l]
      BY <1>13 DEF MoverStart, Cleanup, Loop, Goto
    <2>3. \A q \in Procs : q # p => todo'[q] = todo[q]
      BY <1>2, <1>13 DEF MoverStart, Cleanup, Loop
    <2>4. \A q \in Procs : q # p => ClaimOk(q)' /\ GroupOk(q)'
      BY <2>1, <2>2, <2>3, <1>2, <1>6
    <2>5. ClaimOk(p)' /\ GroupOk(p)'
      <3>1. pc'[p] \in {"mover", "done", "cleanup"}
        BY <2>2, <1>2
      <3>2. Claim(p)' /\ Listed(p)'
        BY <2>1, <1>4 DEF Claim, Listed
      <3> QED  BY <2>1, <3>1, <3>2 DEF Early
    <2> QED  BY <2>4, <2>5, <1>5
  <1>14. ASSUME NEW p \in Procs, MoverReturns(p) PROVE Ok
    <2>1. /\ pc[p] = "mover" /\ UNCHANGED <<claimed, blind>> /\ mover' \subseteq mover
      BY <1>14 DEF MoverReturns
    <2>2. \E l \in {"done", "cleanup"} : pc' = [pc EXCEPT ![p] = l]
      BY <1>14 DEF MoverReturns, Cleanup, Loop, Goto
    <2>3. \A q \in Procs : q # p => todo'[q] = todo[q]
      BY <1>2, <1>14 DEF MoverReturns, Cleanup, Loop
    <2>4. \A q \in Procs : q # p => ClaimOk(q)' /\ GroupOk(q)'
      BY <2>1, <2>2, <2>3, <1>2, <1>6
    <2>5. ClaimOk(p)' /\ GroupOk(p)'
      <3>1. pc'[p] \in {"done", "cleanup"}
        BY <2>2, <1>2
      <3>2. Claim(p)' /\ Listed(p)'
        BY <2>1, <1>4 DEF Claim, Listed
      <3> QED  BY <2>1, <3>1, <3>2 DEF Early
    <2> QED  BY <2>4, <2>5, <1>5
  <1>15. ASSUME NEW p \in Procs,
                \/ ReapContainer(p) \/ Cancel(p) \/ CallCreate(p) \/ CallStart(p) \/ CallRuns(p)
                \/ MoverEnds(p)
         PROVE  Ok
    <2>1. UNCHANGED <<pc, claimed, blind, todo>> /\ mover' \subseteq mover
      BY <1>15 DEF ReapContainer, Cancel, CallCreate, CallStart, CallRuns, MoverEnds,
                   procVars, hostVars, history
    <2> QED  BY <2>1, <1>7
  <1>16. CASE Write
    BY <1>7, <1>16 DEF Write, procVars, history
  <1> QED  BY <1>8, <1>9, <1>10, <1>11, <1>12, <1>13, <1>14, <1>15, <1>16, <1>17 DEF Next

-----------------------------------------------------------------------------
(* The steps as the snapshots see them.                                    *)

\* A step that no snapshot and no loop takes notice of.
Calm ==
  /\ UNCHANGED <<snaps, at, claimed, failed, todo, kept>>
  /\ mover' \subseteq mover /\ Reads' \subseteq Reads
  /\ \A q \in Procs : /\ Ran(q)' <=> Ran(q)
                      /\ blind'[q] = blind[q] \/ pc[q] = "new"
                      /\ \/ pc'[q] = pc[q]
                         \/ pc[q] = "new" /\ pc'[q] \in {"reap", "idle"}
                         \/ pc[q] = "reap" /\ pc'[q] = "reaplist"

LEMMA Calms ==
  ASSUME IInv,
         \/ \E p \in Procs : \/ Start(p) \/ StartUnreaped(p)
                             \/ ReapContainer(p) \/ ReapContainersDone(p)
                             \/ Cancel(p) \/ CallCreate(p) \/ CallStart(p) \/ MoverEnds(p)
         \/ Write
  PROVE  Calm
  <1>1. /\ pc \in [Procs -> Pc] /\ DoomedInv /\ doomed \in [Procs -> SUBSET Procs]
        /\ call \in [Procs -> {"none", "created", "running", "exited", "reaped", "vanished"}]
    BY DEF IInv, TypeOK
  <1>10. DOMAIN blind = Procs
    BY DEF IInv, TypeOK
  <1>2. ASSUME NEW p \in Procs, Start(p) PROVE Calm
    BY <1>1, <1>2 DEF Start, Begins, Calm, Reads, Ran, Goto, hostVars
  <1>11. ASSUME NEW p \in Procs, StartUnreaped(p) PROVE Calm
    BY <1>1, <1>10, <1>11 DEF StartUnreaped, Begins, Calm, Reads, Ran, Goto, hostVars
  <1>3. ASSUME NEW p \in Procs, ReapContainer(p) PROVE Calm
    <2>1. PICK q \in doomed[p] :
            call' = [call EXCEPT ![q] = IF @ = "exited" THEN "vanished" ELSE "reaped"]
      BY <1>3 DEF ReapContainer
    <2>2. q \in Procs /\ call[q] \in {"created", "running", "exited"}
      BY <1>1, <2>1 DEF DoomedInv
    <2>3. \A r \in Procs : Ran(r)' <=> Ran(r)
      BY <1>1, <2>1, <2>2 DEF Ran
    <2> QED  BY <1>3, <2>3 DEF ReapContainer, Calm, Reads, hostVars, history
  <1>4. ASSUME NEW p \in Procs, ReapContainersDone(p) PROVE Calm
    BY <1>1, <1>4 DEF ReapContainersDone, Calm, Reads, Ran, Goto, hostVars, history
  <1>5. ASSUME NEW p \in Procs, Cancel(p) PROVE Calm
    BY <1>5 DEF Cancel, Calm, Reads, Ran, procVars, hostVars, history
  <1>6. ASSUME NEW p \in Procs, CallCreate(p) PROVE Calm
    BY <1>1, <1>6 DEF CallCreate, Calm, Reads, Ran, hostVars, history
  <1>7. ASSUME NEW p \in Procs, CallStart(p) PROVE Calm
    BY <1>1, <1>7 DEF CallStart, Calm, Reads, Ran, hostVars, history
  <1>8. ASSUME NEW p \in Procs, MoverEnds(p) PROVE Calm
    BY <1>8 DEF MoverEnds, Calm, Reads, Ran, procVars, history
  <1>9. CASE Write
    BY <1>9 DEF Write, Calm, Reads, Ran, procVars, history
  <1> QED  BY <1>2, <1>3, <1>4, <1>5, <1>6, <1>7, <1>8, <1>9, <1>11

\* A process whose claims and loop do not change.
LEMMA StillIs ==
  ASSUME NEW q, claimed'[q] = claimed[q], todo'[q] = todo[q], Ran(q)' <=> Ran(q)
  PROVE  Names(q)' = Names(q) /\ Left(q)' = Left(q) /\ (snaps' = snaps => Mine(q)' = Mine(q))
  BY NamesIs DEF Left, Mine

LEMMA CalmIs ==
  ASSUME Calm, NEW q \in Procs
  PROVE  Names(q)' = Names(q) /\ Left(q)' = Left(q) /\ Mine(q)' = Mine(q)
  BY StillIs DEF Calm

\* The container of a zfs call does its work.
LEMMA RunsIs ==
  ASSUME IInv, NEW p \in Procs, CallRuns(p)
  PROVE  /\ pc[p] # "new" /\ p \notin Reads /\ (cmd[p].do = "snapshot" => p \notin mover)
         /\ UNCHANGED <<pc, todo, cmd, claimed, inUse, kept, mover, failed, blind, orphans, writes>>
         /\ Reads' = Reads
         /\ call[p] = "running" /\ call' = [call EXCEPT ![p] = "exited"]
         /\ \A q \in Procs : Names(q)' = Names(q)
         /\ \A q \in Procs : q # p => Left(q)' = Left(q)
         /\ pc[p] \in LoopPc => Left(p) = Head(todo[p]) \cup Left(p)' /\ Left(p) = Union(todo[p])
         /\ \/ /\ cmd[p].do = "snapshot"
               /\ Alive(p) => pc[p] = "snap" /\ cmd[p].args = Head(todo[p])
               /\ \A s \in cmd[p].args : s.by = p /\ s \notin snaps
               /\ snaps' = snaps \cup cmd[p].args
               /\ at' = [at EXCEPT ![p] = @ \cup (cmd[p].args \X {writes})]
            \/ /\ cmd[p].do = "destroy" /\ at' = at
               /\ Alive(p) => /\ pc[p] \in {"sweep", "rollback", "cleanup"}
                              /\ cmd[p].args = Head(todo[p])
               /\ snaps' = snaps \ cmd[p].args
            \/ /\ cmd[p].do = "list" /\ (Alive(p) => pc[p] \notin LoopPc)
               /\ at' = at /\ snaps' = snaps
  <1>1. /\ pc \in [Procs -> Pc] /\ CmdInv /\ MoverInv /\ PendInv
        /\ call \in [Procs -> {"none", "created", "running", "exited", "reaped", "vanished"}]
        /\ cmd[p].do \in {"list", "snapshot", "destroy"}
    BY DEF IInv, TypeOK
  <1>2. /\ call[p] = "running" /\ call' = [call EXCEPT ![p] = "exited"]
        /\ UNCHANGED <<pc, todo, cmd, claimed, inUse, kept, mover, failed, blind, orphans, writes>>
        /\ Reads' = Reads
    BY DEF CallRuns, history, Reads
  <1>3. pc[p] # "new" /\ p \notin Reads /\ (cmd[p].do = "snapshot" => p \notin mover)
    BY <1>1, <1>2 DEF CmdInv, MoverInv, Reads
  <1>4. \A q \in Procs : Names(q)' = Names(q)
    BY <1>2, NamesIs
  <1>5. \A q \in Procs : q # p => Left(q)' = Left(q)
    BY <1>1, <1>2 DEF Left, Ran
  <1>6. pc[p] \in LoopPc => Left(p) = Head(todo[p]) \cup Left(p)' /\ Left(p) = Union(todo[p])
    BY <1>1, <1>2, TodoTypes DEF Left, Ran
  <1>7. Alive(p) => cmd[p] = CmdOf(p)
    BY <1>1, <1>2 DEF CmdInv
  <1>8. CASE cmd[p].do = "snapshot"
    <2>1. Alive(p) => pc[p] = "snap" /\ cmd[p].args = Head(todo[p])
      BY <1>7, <1>8 DEF CmdOf, NoCmd
    <2>2. \A s \in cmd[p].args : s.by = p /\ s \notin snaps
      BY <1>1, <1>2, <1>8 DEF PendInv
    <2>3. /\ snaps' = snaps \cup cmd[p].args
          /\ at' = [at EXCEPT ![p] = @ \cup (cmd[p].args \X {writes})]
      BY <1>8 DEF CallRuns
    <2> QED  BY <1>2, <1>3, <1>4, <1>5, <1>6, <1>8, <2>1, <2>2, <2>3
  <1>9. CASE cmd[p].do = "destroy"
    <2>1. Alive(p) => pc[p] \in {"sweep", "rollback", "cleanup"} /\ cmd[p].args = Head(todo[p])
      BY <1>7, <1>9 DEF CmdOf, NoCmd
    <2>2. snaps' = snaps \ cmd[p].args /\ at' = at
      BY <1>9 DEF CallRuns
    <2> QED  BY <1>2, <1>3, <1>4, <1>5, <1>6, <1>9, <2>1, <2>2
  <1>10. CASE cmd[p].do = "list"
    <2>1. Alive(p) => pc[p] \notin LoopPc
      BY <1>7, <1>10 DEF CmdOf, NoCmd, LoopPc
    <2>2. snaps' = snaps /\ at' = at
      BY <1>10 DEF CallRuns
    <2> QED  BY <1>2, <1>3, <1>4, <1>5, <1>6, <1>10, <2>1, <2>2
  <1> QED  BY <1>1, <1>8, <1>9, <1>10

\* The pool a snapshot call takes is none of those left.
LEMMA SnapRuns ==
  ASSUME IInv, NEW p \in Procs, CallRuns(p), pc[p] = "snap"
  PROVE  /\ Left(p) = Head(todo[p]) \cup Left(p)' /\ Head(todo[p]) \cap Left(p)' = {}
         /\ Head(todo[p]) \subseteq Names(p)
         /\ \A s \in Head(todo[p]), t \in Names(p) : Pool(t) = Pool(s) => t \in Head(todo[p])
  <1> DEFINE seq == todo[p]
  <1>1. seq \in Seq(SUBSET SnapType) /\ seq # <<>>
    BY TodoTypes DEF LoopPc
  <1>2. Left(p) = Head(seq) \cup Left(p)' /\ Left(p) = Union(seq)
    BY RunsIs DEF LoopPc
  <1>3. Left(p)' = Union(Tail(seq))
    <2>1. call \in [Procs -> {"none", "created", "running", "exited", "reaped", "vanished"}]
      BY DEF IInv, TypeOK
    <2>2. Ran(p)' /\ todo' = todo
      BY <2>1, RunsIs DEF Ran
    <2> QED  BY <2>2 DEF Left
  <1>4. /\ Union(seq) \subseteq Names(p)
        /\ \A i \in DOMAIN seq : \A s \in seq[i] : \A t \in Names(p) :
             t \in seq[i] <=> Pool(t) = Pool(s)
        /\ \A i, j \in DOMAIN seq : i # j => seq[i] \cap seq[j] = {}
    BY DEF IInv, GroupInv
  <1> HIDE DEF seq
  <1>5. /\ Tail(seq) \in Seq(SUBSET SnapType) /\ Head(seq) = seq[1] /\ 1 \in DOMAIN seq
        /\ DOMAIN Tail(seq) = 1..(Len(seq) - 1)
        /\ \A i \in DOMAIN Tail(seq) : i + 1 \in DOMAIN seq /\ Tail(seq)[i] = seq[i + 1]
    BY <1>1, UnionTail
  <1>6. ASSUME NEW x \in Head(seq), x \in Union(Tail(seq)) PROVE FALSE
    <2>1. PICK i \in DOMAIN Tail(seq) : x \in Tail(seq)[i]
      BY <1>6 DEF Union, Range
    <2>2. i + 1 \in DOMAIN seq /\ i + 1 # 1 /\ x \in seq[i + 1]
      BY <1>5, <2>1
    <2> QED  BY <1>4, <1>5, <1>6, <2>2
  <1>7. \A s \in Head(seq), t \in Names(p) : Pool(t) = Pool(s) => t \in Head(seq)
    BY <1>4, <1>5
  <1>8. Head(seq) \cap Left(p)' = {} /\ Head(seq) \subseteq Names(p)
    BY <1>2, <1>3, <1>4, <1>6
  <1> QED  BY <1>2, <1>7, <1>8 DEF seq

\* What is left when a zfs call is over.
LEMMA OverIs ==
  ASSUME IInv, NEW p \in Procs, CallReturns(p) \/ CallFails(p)
  PROVE  /\ p \notin Reads /\ Reads' = Reads /\ Left(p)' = Union(todo'[p])
         /\ \A q \in Procs : q # p => Names(q)' = Names(q) /\ Left(q)' = Left(q)
         /\ \A q \in Procs : Mine(q)' = Mine(q)
         /\ pc[p] \notin {"resolve", "list"} => Names(p)' = Names(p)
         /\ pc[p] \in LoopPc => /\ Left(p) \subseteq Head(todo[p]) \cup Union(Tail(todo[p]))
                                /\ Ran(p) => Left(p) = Union(Tail(todo[p]))
         /\ Union(<<>>) = {}
  <1>1. /\ pc[p] \in CallPc /\ Outcome(p) /\ CallEnds(p) /\ UNCHANGED <<snaps, mover, loose>>
        /\ \A q \in Procs : q # p => todo'[q] = todo[q] /\ claimed'[q] = claimed[q]
    BY CallOver DEF hostVars
  <1>2. call \in [Procs -> {"none", "created", "running", "exited", "reaped", "vanished"}]
    BY DEF IInv, TypeOK
  <1>3. p \notin Reads /\ Reads' = Reads
    BY <1>1 DEF IInv, MoverInv, CallPc, Reads
  <1>4. Left(p)' = Union(todo'[p])
    BY <1>1, <1>2 DEF CallEnds, Left, Ran
  <1>5. \A q \in Procs : q # p => (Ran(q)' <=> Ran(q))
    BY <1>1, <1>2 DEF CallEnds, Ran
  <1>6. \A q \in Procs : q # p => Names(q)' = Names(q) /\ Left(q)' = Left(q)
    BY <1>1, <1>5, StillIs
  <1>7. pc[p] \notin {"resolve", "list"} => Names(p)' = Names(p)
    <2>1. pc[p] \notin {"resolve", "list"} => claimed'[p] = claimed[p]
      BY <1>1 DEF Outcome
    <2> QED  BY <2>1, NamesIs
  <1>8. pc[p] \in LoopPc => /\ Left(p) \subseteq Head(todo[p]) \cup Union(Tail(todo[p]))
                            /\ Ran(p) => Left(p) = Union(Tail(todo[p]))
    BY TodoTypes DEF Left
  <1>9. \A q \in Procs : Mine(q)' = Mine(q)
    BY <1>1 DEF Mine
  <1>10. Union(<<>>) = {}
    BY DEF Union, Range
  <1> QED  BY <1>3, <1>4, <1>6, <1>7, <1>8, <1>9, <1>10

\* A mover starts, or returns: its snapshots stay, or are all to be destroyed.
MoverStep(p) ==
  \/ /\ pc[p] = "mount" /\ pc' = [pc EXCEPT ![p] = "mover"]
     /\ Reads' = Reads \cup {p} /\ todo' = todo /\ kept' = kept
  \/ /\ pc[p] = "mover" /\ pc' = [pc EXCEPT ![p] = "done"]
     /\ kept' = kept \cup {p} /\ todo' = todo /\ Reads' = Reads
  \/ /\ pc[p] \in {"mount", "mover"} /\ Reads' = Reads \ {p} /\ kept' = kept
     /\ pc' = [pc EXCEPT ![p] = IF todo'[p] = <<>> THEN "done" ELSE "cleanup"]
     /\ Union(todo'[p]) = Names(p)

LEMMA MoverStepIs ==
  ASSUME IInv, NEW p \in Procs, MoverStart(p) \/ MoverReturns(p)
  PROVE  /\ Alive(p) /\ pc[p] \in {"mount", "mover"} /\ call[p] = "none" /\ MoverStep(p)
         /\ UNCHANGED <<snaps, at, claimed, failed, blind, orphans, inUse, call, cmd>>
         /\ mover' \subseteq mover \cup {p}
         /\ \A q \in Procs : Names(q)' = Names(q) /\ Mine(q)' = Mine(q)
         /\ \A q \in Procs : q # p => Left(q)' = Left(q) /\ todo'[q] = todo[q]
         /\ Left(p)' = Union(todo'[p])
         /\ \A s \in Names(p) : s.by = p
         /\ Union(<<>>) = {}
  <1>1. /\ pc[p] \in {"mount", "mover"} /\ Alive(p)
        /\ UNCHANGED <<snaps, at, claimed, failed, blind, orphans, inUse, call, cmd>>
        /\ mover' \subseteq mover \cup {p}
    BY DEF MoverStart, MoverReturns, history
  <1>2. call[p] = "none" /\ p \notin loose /\ (pc[p] = "mount" => p \notin Reads)
    BY <1>1 DEF IInv, CmdInv, MoverInv, CallPc
  <1>3. MoverStep(p) /\ \A q \in Procs : q # p => todo'[q] = todo[q]
    <2>1. todo \in [Procs -> Seq(SUBSET SnapType)]
      BY DEF IInv, FunInv
    <2>2. ASSUME Cleanup(p)
          PROVE  /\ pc' = [pc EXCEPT ![p] = IF todo'[p] = <<>> THEN "done" ELSE "cleanup"]
                 /\ Union(todo'[p]) = Names(p)
                 /\ \A q \in Procs : q # p => todo'[q] = todo[q]
      BY <1>1, <2>1, <2>2, CleanupIs
    <2>3. CASE MoverStart(p)
      <3>1. pc[p] = "mount" /\ kept' = kept /\ loose' = loose
        BY <2>3 DEF MoverStart, history
      <3>2. CASE mover' = mover \cup {p} /\ Goto(p, "mover") /\ todo' = todo
        <4>1. Reads' = Reads \cup {p}
          BY <3>1, <3>2, <1>2 DEF Reads
        <4> QED  BY <3>1, <3>2, <4>1 DEF MoverStep, Goto
      <3>3. CASE Cleanup(p) /\ mover' = mover
        <4>1. Reads' = Reads \ {p}
          BY <3>1, <3>3, <1>2 DEF Reads
        <4> QED  BY <3>1, <3>3, <4>1, <2>2 DEF MoverStep
      <3> QED  BY <2>3, <3>2, <3>3 DEF MoverStart
    <2>4. CASE MoverReturns(p)
      <3>1. pc[p] = "mover"
        BY <2>4 DEF MoverReturns
      <3>2. CASE mover' = mover /\ loose' = loose /\ Goto(p, "done") /\ todo' = todo /\ kept' = kept \cup {p}
        <4>1. Reads' = Reads
          BY <3>2 DEF Reads
        <4> QED  BY <3>1, <3>2, <4>1 DEF MoverStep, Goto
      <3>3. CASE Cleanup(p) /\ Reads' = Reads \ {p} /\ kept' = kept
        BY <3>1, <3>3, <2>2 DEF MoverStep
      <3>4. CASE p \notin mover /\ Cleanup(p) /\ UNCHANGED <<mover, loose, kept>>
        <4>1. Reads' = Reads \ {p}
          BY <3>4 DEF Reads
        <4> QED  BY <3>3, <3>4, <4>1
      <3>5. CASE mover' = mover \ {p} /\ Cleanup(p) /\ UNCHANGED <<loose, kept>>
        <4>1. Reads' = Reads \ {p}
          BY <3>5 DEF Reads
        <4> QED  BY <3>3, <3>5, <4>1
      <3>6. CASE loose' = loose \cup {p} /\ Cleanup(p) /\ UNCHANGED <<mover, kept>>
        <4>1. Reads' = Reads \ {p}
          BY <3>6 DEF Reads
        <4> QED  BY <3>3, <3>6, <4>1
      <3> QED  BY <2>4, <3>2, <3>4, <3>5, <3>6 DEF MoverReturns
    <2> QED  BY <2>3, <2>4
  <1>4. \A q \in Procs : Names(q)' = Names(q) /\ Mine(q)' = Mine(q)
    BY <1>1, NamesIs DEF Mine
  <1>5. \A q \in Procs : q # p => Left(q)' = Left(q)
    BY <1>1, <1>3 DEF Left, Ran
  <1>6. Left(p)' = Union(todo'[p])
    BY <1>1, <1>2 DEF Left, Ran
  <1>7. \A s \in Names(p) : s.by = p
    BY <1>1, NamesTypes
  <1>8. Union(<<>>) = {}
    BY DEF Union, Range
  <1> QED  BY <1>1, <1>2, <1>3, <1>4, <1>5, <1>6, <1>7, <1>8

\* A backup begins, or is refused.
LEMMA BackupIs ==
  ASSUME IInv, NEW p \in Procs, Backup(p)
  PROVE  /\ pc[p] = "idle" /\ Alive(p) /\ pc'[p] \in {"mount", "resolve", "done", "list"}
         /\ pc'[p] # "list" => Names(p)' = {}
         /\ \A q \in Procs : q # p => pc'[q] = pc[q] /\ Names(q)' = Names(q)
         /\ UNCHANGED <<todo, call, cmd, inUse, kept, failed, blind, orphans, snaps, mover, at>>
         /\ \A q \in Procs : Left(q)' = Left(q) /\ Mine(q)' = Mine(q)
         /\ call[p] = "none" /\ p \notin mover /\ Reads' = Reads /\ p \notin Reads
  <1>1. /\ pc[p] = "idle" /\ Alive(p)
        /\ UNCHANGED <<todo, call, cmd, inUse, kept, failed, blind, orphans, snaps, mover, at>>
        /\ Reads' = Reads
    BY DEF Backup, hostVars, history, Reads
  <1>2. /\ pc \in [Procs -> Pc] /\ claimed \in [Procs -> Claims]
        /\ Mode[p] \in {"none", "zfs", "auto"}
    BY ConfigAssumption DEF IInv, TypeOK, Claims
  <1>3. PICK l \in {"mount", "resolve", "done", "list"}, S \in {{}, DOMAIN Sources[p]} :
          /\ pc' = [pc EXCEPT ![p] = l] /\ claimed' = [claimed EXCEPT ![p].src = S]
          /\ l # "list" => S = {}
    BY <1>2 DEF Backup, Goto
  <1>4. /\ pc'[p] = l /\ claimed'[p].src = S
        /\ \A q \in Procs : q # p => pc'[q] = pc[q] /\ claimed'[q] = claimed[q]
    <2>1. S \in SUBSET Nat
      BY <1>3, SourceTypes
    <2>2. claimed'[p].src = S /\ \A q \in Procs : q # p => claimed'[q] = claimed[q]
      BY <1>2, <1>3, <2>1, ClaimsSrc
    <2> QED  BY <1>2, <1>3, <2>2
  <1>5. \A q \in Procs : q # p => Names(q)' = Names(q)
    BY <1>4, NamesIs
  <1>6. l # "list" => Names(p)' = {}
    BY <1>3, <1>4, NamesIs DEF NamesOf
  <1>7. \A q \in Procs : Left(q)' = Left(q) /\ Mine(q)' = Mine(q)
    BY <1>1 DEF Left, Ran, Mine
  <1>8. call[p] = "none" /\ p \notin mover /\ p \notin Reads
    BY <1>1 DEF IInv, CmdInv, MoverInv, Reads, CallPc
  <1> QED  BY <1>1, <1>3, <1>4, <1>5, <1>6, <1>7, <1>8

LEMMA EndIs ==
  ASSUME IInv, NEW p \in Procs, End(p)
  PROVE  /\ Alive(p) /\ pc' = [pc EXCEPT ![p] = "gone"]
         /\ UNCHANGED <<call, cmd, kept, snaps, mover>> /\ Reads' = Reads
         /\ todo' = [todo EXCEPT ![p] = <<>>] /\ inUse' = [inUse EXCEPT ![p] = {}]
         /\ failed' = [failed EXCEPT ![p] = {}] /\ orphans' = [orphans EXCEPT ![p] = {}]
         /\ p \in mover => UNCHANGED <<at, claimed, blind>>
         /\ \A q \in Procs : q # p =>
              /\ pc'[q] = pc[q] /\ todo'[q] = todo[q] /\ at'[q] = at[q] /\ blind'[q] = blind[q]
              /\ failed'[q] = failed[q] /\ orphans'[q] = orphans[q] /\ inUse'[q] = inUse[q]
              /\ Names(q)' = Names(q) /\ Left(q)' = Left(q)
         /\ \A q \in Procs : Mine(q)' = Mine(q)
         /\ p \in mover => Names(p)' = Names(p)
         /\ pc'[p] = "gone"
  <1>1. /\ Alive(p) /\ pc' = [pc EXCEPT ![p] = "gone"]
        /\ UNCHANGED <<call, cmd, kept, snaps, mover>> /\ Reads' = Reads
        /\ todo' = [todo EXCEPT ![p] = <<>>] /\ inUse' = [inUse EXCEPT ![p] = {}]
        /\ failed' = [failed EXCEPT ![p] = {}] /\ orphans' = [orphans EXCEPT ![p] = {}]
        /\ p \in mover => UNCHANGED <<at, claimed, blind>>
        /\ p \notin mover => /\ claimed' = [claimed EXCEPT ![p] = NoClaim]
                             /\ at' = [at EXCEPT ![p] = {}] /\ blind' = [blind EXCEPT ![p] = {}]
    BY DEF End, Goto, Reads
  <1>2. /\ pc \in [Procs -> Pc] /\ DOMAIN todo = Procs /\ DOMAIN claimed = Procs
        /\ DOMAIN at = Procs /\ DOMAIN blind = Procs /\ DOMAIN failed = Procs
        /\ DOMAIN orphans = Procs /\ DOMAIN inUse = Procs
    BY DEF IInv, TypeOK, FunInv
  <1>3. \A q \in Procs : q # p =>
          /\ pc'[q] = pc[q] /\ todo'[q] = todo[q] /\ at'[q] = at[q] /\ blind'[q] = blind[q]
          /\ failed'[q] = failed[q] /\ orphans'[q] = orphans[q] /\ inUse'[q] = inUse[q]
          /\ claimed'[q] = claimed[q]
    BY <1>1, <1>2
  <1>4. \A q \in Procs : q # p => Names(q)' = Names(q) /\ Left(q)' = Left(q)
    BY <1>1, <1>3, StillIs DEF Ran
  <1>5. p \in mover => Names(p)' = Names(p)
    BY <1>1, NamesIs
  <1> QED  BY <1>1, <1>2, <1>3, <1>4, <1>5 DEF Mine

\* The kinds of steps.
LEMMA StepKinds ==
  ASSUME IInv, Next
  PROVE  \/ Calm
         \/ \E p \in Procs : \/ End(p) \/ CallRuns(p) \/ CallReturns(p) \/ CallFails(p)
                             \/ Backup(p) \/ MoverStart(p) \/ MoverReturns(p)
  BY Calms DEF Next

-----------------------------------------------------------------------------
(* The snapshots there can be, and those there must be.                    *)

LEMMA MineStep ==
  ASSUME IInv, Next
  PROVE  MineInv'
  <1> DEFINE MineOk(q) ==
        /\ pc[q] \in Early => Mine(q) = {}
        /\ pc[q] = "snap" => Mine(q) \subseteq Names(q) \ Left(q)
        /\ pc[q] \in {"mount", "mover"} => Mine(q) \subseteq Names(q)
        /\ pc[q] \in {"rollback", "cleanup"} => Mine(q) \subseteq failed[q] \cup Left(q)
        /\ pc[q] = "done" => q \in kept \/ Mine(q) \subseteq failed[q]
  <1>1. \A q \in Procs : MineOk(q)
    BY DEF IInv, MineInv
  <1>2. SUFFICES ASSUME NEW q \in Procs PROVE MineOk(q)'
    BY DEF MineInv
  <1>3. ASSUME pc'[q] = pc[q], Names(q)' = Names(q), Left(q)' = Left(q), Mine(q)' \subseteq Mine(q),
               failed'[q] = failed[q], kept \subseteq kept'
        PROVE  MineOk(q)'
    BY <1>1, <1>3
  <1>4. CASE Calm
    <2>1. Names(q)' = Names(q) /\ Left(q)' = Left(q) /\ Mine(q)' = Mine(q)
      BY <1>4, CalmIs
    <2> QED  BY <1>1, <1>4, <2>1 DEF Calm, Early
  <1>5. ASSUME NEW p \in Procs, End(p) PROVE MineOk(q)'
    <2>1. CASE q = p
      BY <2>1, <1>5, EndIs DEF Early
    <2>2. CASE q # p
      BY <2>2, <1>3, <1>5, EndIs
    <2> QED  BY <2>1, <2>2
  <1>6. ASSUME NEW p \in Procs, CallRuns(p) PROVE MineOk(q)'
    <2>1. /\ pc[p] # "new" /\ pc' = pc /\ Names(q)' = Names(q) /\ failed' = failed /\ kept' = kept
          /\ q # p => Left(q)' = Left(q)
      BY <1>6, RunsIs
    <2>2. CASE cmd[p].do = "snapshot"
      <3>1. /\ Alive(p) => pc[p] = "snap" /\ cmd[p].args = Head(todo[p])
            /\ \A s \in cmd[p].args : s.by = p
            /\ snaps' = snaps \cup cmd[p].args
            /\ pc[p] \in LoopPc => Left(p) = Head(todo[p]) \cup Left(p)' /\ Left(p) = Union(todo[p])
        BY <2>2, <1>6, RunsIs
      <3>2. CASE q # p
        BY <2>1, <3>1, <3>2, <1>3 DEF Mine
      <3>3. CASE q = p /\ Alive(p)
        <4>1. Mine(p)' \subseteq Mine(p) \cup Head(todo[p])
          BY <3>1, <3>3 DEF Mine
        <4>2. /\ Left(p) = Head(todo[p]) \cup Left(p)' /\ Head(todo[p]) \cap Left(p)' = {}
              /\ Head(todo[p]) \subseteq Names(p)
          BY <1>6, <3>1, <3>3, SnapRuns
        <4> QED  BY <1>1, <2>1, <3>1, <3>3, <4>1, <4>2 DEF Early, LoopPc
      <3>4. CASE q = p /\ ~Alive(p)
        <4>1. pc[p] = "gone"
          BY <2>1, <3>4 DEF Alive
        <4> QED  BY <2>1, <3>4, <4>1 DEF Early
      <3> QED  BY <3>2, <3>3, <3>4
    <2>3. CASE cmd[p].do = "destroy"
      <3>1. /\ Alive(p) => /\ pc[p] \in {"sweep", "rollback", "cleanup"}
                           /\ cmd[p].args = Head(todo[p])
            /\ snaps' = snaps \ cmd[p].args
            /\ pc[p] \in LoopPc => Left(p) = Head(todo[p]) \cup Left(p)'
        BY <2>3, <1>6, RunsIs
      <3>2. Mine(q)' = Mine(q) \ cmd[p].args
        BY <3>1 DEF Mine
      <3>3. CASE q # p
        BY <2>1, <3>2, <3>3, <1>3
      <3>4. CASE q = p /\ Alive(p)
        BY <1>1, <2>1, <3>1, <3>2, <3>4 DEF Early, LoopPc
      <3>5. CASE q = p /\ ~Alive(p)
        <4>1. pc[p] = "gone"
          BY <2>1, <3>5 DEF Alive
        <4> QED  BY <2>1, <3>5, <4>1 DEF Early
      <3> QED  BY <3>3, <3>4, <3>5
    <2>4. CASE cmd[p].do = "list"
      <3>1. (Alive(p) => pc[p] \notin LoopPc) /\ snaps' = snaps
        BY <2>4, <1>6, RunsIs
      <3>2. Mine(q)' = Mine(q)
        BY <3>1 DEF Mine
      <3>3. q = p => pc[p] \notin LoopPc
        BY <3>1, <2>1 DEF Alive, LoopPc
      <3> QED  BY <1>1, <2>1, <3>2, <3>3 DEF LoopPc
    <2>5. cmd[p].do \in {"list", "snapshot", "destroy"}
      BY DEF IInv, TypeOK
    <2> QED  BY <2>2, <2>3, <2>4, <2>5
  <1>7. ASSUME NEW p \in Procs, CallReturns(p) \/ CallFails(p) PROVE MineOk(q)'
    <2>1. /\ Outcome(p) /\ kept' = kept /\ failed[p] \subseteq failed'[p]
          /\ q # p => pc'[q] = pc[q] /\ failed'[q] = failed[q]
      BY <1>7, CallOver
    <2>2. /\ Left(p)' = Union(todo'[p]) /\ Mine(q)' = Mine(q)
          /\ q # p => Names(q)' = Names(q) /\ Left(q)' = Left(q)
          /\ pc[p] \notin {"resolve", "list"} => Names(p)' = Names(p)
          /\ pc[p] \in LoopPc => /\ Left(p) \subseteq Head(todo[p]) \cup Union(Tail(todo[p]))
                                 /\ Ran(p) => Left(p) = Union(Tail(todo[p]))
          /\ Union(<<>>) = {}
      BY <1>7, OverIs
    <2>3. CASE q # p
      BY <2>1, <2>2, <2>3, <1>3
    <2>4. CASE q = p
      <3>1. CASE pc[p] \in Early
        <4>1. Mine(p)' = {}
          BY <2>2, <2>4, <3>1, <1>1
        <4>2. pc'[p] \notin {"rollback", "cleanup", "gone"}
          BY <2>1, <3>1 DEF Outcome, Early
        <4> QED  BY <2>4, <4>1, <4>2
      <3>2. CASE pc[p] = "snap" /\ Ran(p) /\ todo'[p] = Tail(todo[p])
                 /\ pc'[p] = (IF todo'[p] = <<>> THEN "mount" ELSE "snap")
        BY <1>1, <2>2, <2>4, <3>2 DEF Early, LoopPc
      <3>3. CASE /\ pc[p] = "snap" /\ failed'[p] = failed[p] \cup Head(todo[p])
                 /\ todo'[p] = OneByOne(Names(p) \ Union(todo[p]))
                 /\ pc'[p] = (IF todo'[p] = <<>> THEN "done" ELSE "rollback")
        <4>1. Names(p) \ Union(todo[p]) \in SUBSET SnapType
          BY <3>3, NamesTypes
        <4>2. Union(todo'[p]) = Names(p) \ Union(todo[p])
          BY <3>3, <4>1, LoopArgs
        <4>3. Union(todo[p]) \subseteq Left(p) \cup Head(todo[p])
          BY <3>3, TodoTypes DEF Left, LoopPc
        <4>4. Mine(p) \subseteq failed'[p] \cup Union(todo'[p])
          BY <1>1, <3>3, <4>2, <4>3
        <4>5. CASE todo'[p] = <<>>
          BY <2>2, <2>4, <3>3, <4>4, <4>5 DEF Early
        <4>6. CASE todo'[p] # <<>>
          BY <2>2, <2>4, <3>3, <4>4, <4>6 DEF Early
        <4> QED  BY <4>5, <4>6
      <3>4. CASE /\ pc[p] \in {"rollback", "cleanup"} /\ todo'[p] = Tail(todo[p])
                 /\ Ran(p) \/ Head(todo[p]) \subseteq failed'[p]
                 /\ pc'[p] = (IF todo'[p] # <<>> THEN pc[p] ELSE "done")
        <4>1. Mine(p) \subseteq failed[p] \cup Left(p)
          BY <1>1, <3>4
        <4>2. Mine(p) \subseteq failed'[p] \cup Union(todo'[p])
          BY <2>1, <2>2, <3>4, <4>1 DEF LoopPc
        <4>3. CASE todo'[p] = <<>>
          BY <2>2, <2>4, <3>4, <4>2, <4>3 DEF Early
        <4>4. CASE todo'[p] # <<>>
          BY <2>2, <2>4, <3>4, <4>2, <4>4 DEF Early
        <4> QED  BY <4>3, <4>4
      <3> QED  BY <2>1, <3>1, <3>2, <3>3, <3>4 DEF Outcome, Early
    <2> QED  BY <2>3, <2>4
  <1>8. ASSUME NEW p \in Procs, Backup(p) PROVE MineOk(q)'
    <2>1. CASE q = p
      BY <2>1, <1>1, <1>8, BackupIs DEF Early
    <2>2. CASE q # p
      BY <2>2, <1>3, <1>8, BackupIs
    <2> QED  BY <2>1, <2>2
  <1>9. ASSUME NEW p \in Procs, MoverStart(p) \/ MoverReturns(p) PROVE MineOk(q)'
    <2>1. /\ pc[p] \in {"mount", "mover"} /\ MoverStep(p) /\ failed' = failed
          /\ Names(q)' = Names(q) /\ Mine(q)' = Mine(q)
          /\ q # p => Left(q)' = Left(q)
          /\ Left(p)' = Union(todo'[p]) /\ Union(<<>>) = {}
      BY <1>9, MoverStepIs
    <2>2. pc \in [Procs -> Pc]
      BY DEF IInv, TypeOK
    <2>3. CASE q # p
      <3>1. pc'[q] = pc[q] /\ kept \subseteq kept'
        BY <2>1, <2>2, <2>3 DEF MoverStep
      <3> QED  BY <2>1, <2>3, <3>1, <1>3
    <2>4. CASE q = p
      <3>1. Mine(p) \subseteq Names(p)
        BY <2>1, <2>4, <1>1
      <3> QED  BY <2>1, <2>2, <2>4, <3>1 DEF MoverStep, Early
    <2> QED  BY <2>3, <2>4
  <1> QED  BY <1>4, <1>5, <1>6, <1>7, <1>8, <1>9, StepKinds

LEMMA HeldStep ==
  ASSUME IInv, Next
  PROVE  HeldInv'
  <1> DEFINE HeldOk(q) == Unshadowed(q) =>
        /\ pc[q] = "snap" => Names(q) \ Left(q) \subseteq snaps
        /\ pc[q] = "mount" \/ q \in Reads => Names(q) \subseteq snaps
  <1>1. \A q \in Procs : HeldOk(q)
    BY DEF IInv, HeldInv
  <1>2. SUFFICES ASSUME NEW q \in Procs, Unshadowed(q) PROVE HeldOk(q)'
    BY DEF HeldInv, Unshadowed
  <1>3. ASSUME pc'[q] = pc[q], Names(q)' = Names(q), Left(q)' = Left(q), snaps' = snaps,
               q \in Reads' => q \in Reads
        PROVE  HeldOk(q)'
    BY <1>1, <1>2, <1>3
  <1>4. CASE Calm
    <2>1. Names(q)' = Names(q) /\ Left(q)' = Left(q)
      BY <1>4, CalmIs
    <2> QED  BY <1>1, <1>2, <1>4, <2>1 DEF Calm
  <1>5. ASSUME NEW p \in Procs, End(p) PROVE HeldOk(q)'
    <2>1. CASE q = p
      <3>1. q \in Reads => q \in mover
        BY DEF Reads
      <3>2. /\ pc'[q] = "gone" /\ Reads' = Reads /\ snaps' = snaps
            /\ q \in mover => Names(q)' = Names(q)
        BY <2>1, <1>5, EndIs
      <3> QED  BY <3>1, <3>2, <1>1, <1>2
    <2>2. CASE q # p
      BY <2>2, <1>3, <1>5, EndIs
    <2> QED  BY <2>1, <2>2
  <1>6. ASSUME NEW p \in Procs, CallRuns(p) PROVE HeldOk(q)'
    <2>1. /\ pc[p] # "new" /\ p \notin Reads /\ pc' = pc /\ Reads' = Reads /\ Names(q)' = Names(q)
          /\ q # p => Left(q)' = Left(q)
      BY <1>6, RunsIs
    <2>2. CASE cmd[p].do = "snapshot"
      <3>1. /\ Alive(p) => pc[p] = "snap" /\ cmd[p].args = Head(todo[p])
            /\ snaps' = snaps \cup cmd[p].args
            /\ pc[p] \in LoopPc => Left(p) = Head(todo[p]) \cup Left(p)'
        BY <2>2, <1>6, RunsIs
      <3>2. pc[p] = "snap" => Alive(p)
        BY DEF Alive
      <3> QED  BY <1>1, <1>2, <2>1, <3>1, <3>2 DEF LoopPc
    <2>3. CASE cmd[p].do = "destroy"
      <3>1. /\ Alive(p) => pc[p] \in {"sweep", "rollback", "cleanup"}
            /\ snaps' = snaps \ cmd[p].args
        BY <2>3, <1>6, RunsIs
      <3>2. ASSUME pc[q] \in {"snap", "mount"} \/ q \in Reads
            PROVE  cmd[p].args \cap Names(q) = {}
        <4>1. \A s \in Names(q) : s.by = q
          BY <3>2, NamesTypes DEF Reads
        <4>2. ~Over(q)
          BY <3>2 DEF Over
        <4>3. \A s \in cmd[p].args : Unshadowed(s.by) => Over(s.by)
          BY <2>3 DEF IInv, SafeInv
        <4> QED  BY <1>2, <4>1, <4>2, <4>3
      <3>3. pc[q] = "snap" => q # p
        BY <3>1 DEF Alive
      <3> QED  BY <1>1, <1>2, <2>1, <3>1, <3>2, <3>3
    <2>4. CASE cmd[p].do = "list"
      <3>1. (Alive(p) => pc[p] \notin LoopPc) /\ snaps' = snaps
        BY <2>4, <1>6, RunsIs
      <3>2. pc[q] = "snap" => q # p
        BY <3>1 DEF Alive, LoopPc
      <3> QED  BY <1>1, <1>2, <2>1, <3>1, <3>2
    <2>5. cmd[p].do \in {"list", "snapshot", "destroy"}
      BY DEF IInv, TypeOK
    <2> QED  BY <2>2, <2>3, <2>4, <2>5
  <1>7. ASSUME NEW p \in Procs, CallReturns(p) \/ CallFails(p) PROVE HeldOk(q)'
    <2>1. /\ Outcome(p) /\ UNCHANGED snaps
          /\ q # p => pc'[q] = pc[q]
          /\ claimed'[p] \in Claims /\ claimed'[p].src \subseteq DOMAIN Sources[p]
      BY <1>7, CallOver DEF hostVars
    <2>2. /\ Left(p)' = Union(todo'[p]) /\ p \notin Reads /\ Reads' = Reads
          /\ q # p => Names(q)' = Names(q) /\ Left(q)' = Left(q)
          /\ pc[p] \notin {"resolve", "list"} => Names(p)' = Names(p)
          /\ pc[p] \in LoopPc => (Ran(p) => Left(p) = Union(Tail(todo[p])))
          /\ Union(<<>>) = {}
      BY <1>7, OverIs
    <2>3. CASE q # p
      BY <2>1, <2>2, <2>3, <1>3
    <2>4. CASE q = p
      <3>1. CASE pc'[p] \notin {"snap", "mount"}
        BY <2>1, <2>2, <2>4, <3>1
      <3>2. CASE pc[p] = "resolve" /\ pc'[p] = (IF claimed'[p].src = {} THEN "mount" ELSE "list")
        <4>1. claimed'[p].src = {} => Names(p)' = {}
          BY NamesIs DEF NamesOf
        <4> QED  BY <2>1, <2>2, <2>4, <3>2, <4>1
      <3>3. CASE /\ pc[p] = "list"
                 /\ \A i \in claimed'[p].src : OnZfs(Sources[p][i], claimed'[p].lines)
                 /\ todo'[p] = GroupByPool(NamesOf(p, claimed'[p]))
                 /\ pc'[p] = (IF todo'[p] = <<>> THEN "mount" ELSE "snap")
        <4>1. NamesOf(p, claimed'[p]) \in SUBSET SnapType
          BY <2>1, <3>3, NamesOfIs
        <4>2. Union(todo'[p]) = NamesOf(p, claimed'[p])
          BY <3>3, <4>1, LoopArgs
        <4>3. Names(p)' = Union(todo'[p])
          BY <4>2, NamesIs
        <4> QED  BY <2>1, <2>2, <2>4, <3>3, <4>3
      <3>4. CASE pc[p] = "snap" /\ Ran(p) /\ todo'[p] = Tail(todo[p])
                 /\ pc'[p] = (IF todo'[p] = <<>> THEN "mount" ELSE "snap")
        BY <1>1, <1>2, <2>1, <2>2, <2>4, <3>4 DEF LoopPc
      <3> QED  BY <2>1, <3>1, <3>2, <3>3, <3>4 DEF Outcome
    <2> QED  BY <2>3, <2>4
  <1>8. ASSUME NEW p \in Procs, Backup(p) PROVE HeldOk(q)'
    <2>1. CASE q = p
      BY <2>1, <1>8, BackupIs
    <2>2. CASE q # p
      BY <2>2, <1>3, <1>8, BackupIs
    <2> QED  BY <2>1, <2>2
  <1>9. ASSUME NEW p \in Procs, MoverStart(p) \/ MoverReturns(p) PROVE HeldOk(q)'
    <2>1. /\ pc[p] \in {"mount", "mover"} /\ MoverStep(p) /\ snaps' = snaps
          /\ Names(q)' = Names(q)
          /\ q # p => Left(q)' = Left(q)
      BY <1>9, MoverStepIs
    <2>2. pc \in [Procs -> Pc]
      BY DEF IInv, TypeOK
    <2>3. CASE q # p
      <3>1. pc'[q] = pc[q] /\ (q \in Reads' => q \in Reads)
        BY <2>1, <2>2, <2>3 DEF MoverStep
      <3> QED  BY <2>1, <2>3, <3>1, <1>3
    <2>4. CASE q = p
      BY <1>1, <1>2, <2>1, <2>2, <2>4 DEF MoverStep
    <2> QED  BY <2>3, <2>4
  <1> QED  BY <1>4, <1>5, <1>6, <1>7, <1>8, <1>9, StepKinds

\* Only the call that is created next can be about to take a snapshot.
LEMMA PendStep ==
  ASSUME IInv, Next
  PROVE  PendInv'
  <1> DEFINE PendOk(q) == call[q] \in {"created", "running"} /\ cmd[q].do = "snapshot" =>
                            \A s \in cmd[q].args : s.by = q /\ s \notin snaps
  <1>1. (\A q \in Procs : PendOk(q)) /\ (PendInv' <=> \A q \in Procs : PendOk(q)')
    BY DEF IInv, PendInv
  <1>2. /\ call \in [Procs -> {"none", "created", "running", "exited", "reaped", "vanished"}]
        /\ cmd \in [Procs -> [do: {"list", "snapshot", "destroy"}, args: SUBSET SnapType]]
        /\ doomed \in [Procs -> SUBSET Procs]
    BY DEF IInv, TypeOK
  <1>3. ASSUME NEW q \in Procs, cmd'[q] = cmd[q], snaps' = snaps,
               call'[q] \in {"created", "running"} => call[q] \in {"created", "running"}
        PROVE  PendOk(q)'
    BY <1>1, <1>3
  <1>4. ASSUME UNCHANGED <<call, cmd, snaps>> PROVE PendInv'
    BY <1>1, <1>3, <1>4
  <1>5. ASSUME NEW p \in Procs,
               \/ Start(p) \/ StartUnreaped(p) \/ ReapContainersDone(p) \/ Cancel(p)
               \/ End(p) \/ Backup(p)
               \/ MoverStart(p) \/ MoverEnds(p) \/ MoverReturns(p)
        PROVE  PendInv'
    BY <1>4, <1>5 DEF Start, StartUnreaped, ReapContainersDone, Cancel, End, Backup,
                      MoverStart, MoverEnds, MoverReturns, procVars, hostVars
  <1>6. CASE Write
    BY <1>4, <1>6 DEF Write, procVars
  <1>7. ASSUME NEW p \in Procs, ReapContainer(p) PROVE PendInv'
    <2>1. PICK q \in doomed[p] :
            call' = [call EXCEPT ![q] = IF @ = "exited" THEN "vanished" ELSE "reaped"]
      BY <1>7 DEF ReapContainer
    <2>2. UNCHANGED <<cmd, snaps>>
      BY <1>7 DEF ReapContainer, hostVars
    <2> QED  BY <1>1, <1>2, <1>3, <2>1, <2>2
  <1>8. ASSUME NEW p \in Procs, CallCreate(p) PROVE PendInv'
    <2>1. /\ call[p] = "none" /\ UNCHANGED <<snaps, todo, pc>>
          /\ call' = [call EXCEPT ![p] = "created"] /\ cmd' = [cmd EXCEPT ![p] = CmdOf(p)]
      BY <1>8 DEF CallCreate, CmdOf, hostVars
    <2>2. \A q \in Procs : q # p => PendOk(q)'
      BY <1>2, <1>3, <2>1
    <2>3. ASSUME cmd'[p].do = "snapshot", NEW s \in cmd'[p].args
          PROVE  s.by = p /\ s \notin snaps'
      <3>1. cmd'[p] = CmdOf(p)
        BY <1>2, <2>1
      <3>2. pc[p] = "snap" /\ s \in Head(todo[p])
        BY <2>3, <3>1 DEF CmdOf, NoCmd
      <3>3. s \in Union(todo[p]) /\ Left(p) = Union(todo[p])
        BY <2>1, <3>2, TodoTypes DEF LoopPc, Left, Ran
      <3>4. Union(todo[p]) \subseteq Names(p) /\ Mine(p) \subseteq Names(p) \ Left(p)
        BY <3>2 DEF IInv, GroupInv, MineInv
      <3>5. s.by = p
        BY <3>2, <3>3, <3>4, NamesTypes
      <3> QED  BY <2>1, <3>3, <3>4, <3>5 DEF Mine
    <2> QED  BY <1>1, <2>2, <2>3
  <1>9. ASSUME NEW p \in Procs, CallStart(p) PROVE PendInv'
    BY <1>1, <1>2, <1>3, <1>9 DEF CallStart, hostVars
  <1>10. ASSUME NEW p \in Procs, CallRuns(p) PROVE PendInv'
    <2>1. /\ call' = [call EXCEPT ![p] = "exited"] /\ cmd' = cmd
      BY <1>10, RunsIs
    <2>2. \/ snaps' \subseteq snaps
          \/ (\A s \in cmd[p].args : s.by = p) /\ snaps' = snaps \cup cmd[p].args
      BY <1>10, RunsIs
    <2>3. ASSUME NEW q \in Procs PROVE PendOk(q)'
      BY <1>1, <1>2, <2>1, <2>2
    <2> QED  BY <1>1, <2>3
  <1>11. ASSUME NEW p \in Procs, CallReturns(p) \/ CallFails(p) PROVE PendInv'
    <2>1. CallEnds(p) /\ snaps' = snaps
      BY <1>11, CallOver DEF hostVars
    <2> QED  BY <1>1, <1>2, <1>3, <2>1 DEF CallEnds
  <1> QED  BY <1>5, <1>6, <1>7, <1>8, <1>9, <1>10, <1>11 DEF Next

\* A backup that is over stays over.
LEMMA OverStays ==
  ASSUME IInv, Next, NEW r \in Procs, Over(r)
  PROVE  Over(r)'
  <1>1. pc[r] \in {"rollback", "cleanup", "done", "gone"} /\ r \notin Reads
    BY DEF Over
  <1>2. CASE Calm
    BY <1>1, <1>2 DEF Calm, Over
  <1>3. ASSUME NEW p \in Procs, End(p) PROVE Over(r)'
    BY <1>1, <1>3, EndIs DEF Over
  <1>4. ASSUME NEW p \in Procs, CallRuns(p) PROVE Over(r)'
    BY <1>1, <1>4, RunsIs DEF Over
  <1>5. ASSUME NEW p \in Procs, CallReturns(p) \/ CallFails(p) PROVE Over(r)'
    <2>1. Outcome(p) /\ Reads' = Reads /\ (r # p => pc'[r] = pc[r])
      BY <1>5, CallOver, OverIs
    <2> QED  BY <1>1, <2>1 DEF Over, Outcome
  <1>6. ASSUME NEW p \in Procs, Backup(p) PROVE Over(r)'
    BY <1>1, <1>6, BackupIs DEF Over
  <1>7. ASSUME NEW p \in Procs, MoverStart(p) \/ MoverReturns(p) PROVE Over(r)'
    <2>1. pc[p] \in {"mount", "mover"} /\ MoverStep(p)
      BY <1>7, MoverStepIs
    <2>2. pc \in [Procs -> Pc] /\ r # p
      BY <1>1, <2>1 DEF IInv, TypeOK
    <2> QED  BY <1>1, <2>1, <2>2 DEF Over, MoverStep
  <1> QED  BY <1>2, <1>3, <1>4, <1>5, <1>6, <1>7, StepKinds

\* What a reap finds to destroy belongs to a process that is gone with its mover.
LEMMA SweepSafe ==
  ASSUME IInv, NEW p \in Procs, pc[p] = "reaplist", NEW s \in SweepSet(p), Unshadowed(s.by)
  PROVE  Over(s.by)
  <1>1. s \in snaps /\ Owns(p, s) /\ s.by \notin inUse[p] /\ s.by \in Procs
    BY DEF SweepSet, IInv, TypeOK, SnapType
  <1>2. s \in Mine(s.by)
    BY <1>1 DEF Mine
  <1>3. pc[s.by] \notin Early
    BY <1>1, <1>2 DEF IInv, MineInv
  <1>4. s.by # p /\ Alive(p)
    BY <1>3 DEF Early, Alive
  <1>5. Instance[p] = Instance[s.by]
    BY <1>1, OwnsSame
  <1>6. ~Alive(s.by)
    BY <1>1, <1>4, <1>5 DEF IInv, OneAlive
  <1>7. s.by \notin Reads
    BY <1>1, <1>4, <1>5 DEF IInv, InUseInv
  <1> QED  BY <1>3, <1>6, <1>7 DEF Over, Alive, Early

\* The calls whose command is another one after a step.
LEMMA CmdKinds ==
  ASSUME IInv, Next, NEW q \in Procs
  PROVE  \/ cmd'[q] = cmd[q]
         \/ cmd'[q] = NoCmd
         \/ cmd'[q] = CmdOf(q)
  <1>1. cmd \in [Procs -> [do: {"list", "snapshot", "destroy"}, args: SUBSET SnapType]]
    BY DEF IInv, TypeOK
  <1>2. ASSUME NEW p \in Procs, CallCreate(p)
        PROVE  cmd'[q] = cmd[q] \/ cmd'[q] = CmdOf(q)
    <2>1. cmd' = [cmd EXCEPT ![p] = CmdOf(p)]
      BY <1>2 DEF CallCreate, CmdOf
    <2> QED  BY <1>1, <2>1
  <1>3. ASSUME NEW p \in Procs, CallReturns(p) \/ CallFails(p)
        PROVE  cmd'[q] = cmd[q] \/ cmd'[q] = NoCmd
    <2>1. cmd' = [cmd EXCEPT ![p] = NoCmd]
      BY <1>3, CallOver DEF CallEnds
    <2> QED  BY <1>1, <2>1
  <1>4. ASSUME NEW p \in Procs,
               \/ Start(p) \/ StartUnreaped(p)
               \/ ReapContainer(p) \/ ReapContainersDone(p) \/ Cancel(p) \/ End(p)
               \/ CallStart(p) \/ CallRuns(p) \/ Backup(p) \/ MoverStart(p) \/ MoverEnds(p)
               \/ MoverReturns(p)
        PROVE  cmd' = cmd
    BY <1>4 DEF Start, StartUnreaped, ReapContainer, ReapContainersDone, Cancel, End,
                CallStart, CallRuns, Backup, MoverStart, MoverEnds, MoverReturns, procVars
  <1>5. CASE Write
    BY <1>5 DEF Write, procVars
  <1> QED  BY <1>2, <1>3, <1>4, <1>5 DEF Next

LEMMA SafeStep ==
  ASSUME IInv, Next
  PROVE  SafeInv'
  <1> DEFINE D == {"sweep", "rollback", "cleanup"}
             Safe(S) == \A s \in S : Unshadowed(s.by) => Over(s.by)
             SafeNext(S) == \A s \in S : Unshadowed(s.by) => Over(s.by)'
  <1>1. \A q \in Procs : /\ pc[q] \in D => Safe(Union(todo[q]))
                         /\ cmd[q].do = "destroy" => Safe(cmd[q].args)
    BY DEF IInv, SafeInv
  <1>2. SUFFICES ASSUME NEW q \in Procs
                 PROVE  /\ pc'[q] \in D => SafeNext(Union(todo'[q]))
                        /\ cmd'[q].do = "destroy" => SafeNext(cmd'[q].args)
    BY DEF SafeInv, Unshadowed
  <1>3. ASSUME NEW S \in SUBSET SnapType, Safe(S)
        PROVE  SafeNext(S)
    <2>1. \A s \in S : s.by \in Procs
      BY DEF SnapType
    <2> QED  BY <1>3, <2>1, OverStays
  <1>4. Union(todo[q]) \in SUBSET SnapType /\ cmd[q].args \in SUBSET SnapType
    BY TodoTypes DEF IInv, TypeOK
  <1>5. cmd'[q].do = "destroy" => SafeNext(cmd'[q].args)
    <2>1. CASE cmd'[q] = cmd[q]
      BY <1>1, <1>3, <1>4, <2>1
    <2>2. CASE cmd'[q] = NoCmd
      BY <2>2 DEF NoCmd
    <2>3. CASE cmd'[q] = CmdOf(q) /\ cmd'[q].do = "destroy"
      <3>1. pc[q] \in D /\ cmd'[q].args = Head(todo[q])
        BY <2>3 DEF CmdOf, NoCmd
      <3>2. Head(todo[q]) \subseteq Union(todo[q]) /\ Head(todo[q]) \in SUBSET SnapType
        BY <3>1, TodoTypes DEF LoopPc
      <3>3. Safe(Head(todo[q]))
        BY <1>1, <3>1, <3>2
      <3> QED  BY <1>3, <3>1, <3>2, <3>3
    <2> QED  BY <2>1, <2>2, <2>3, CmdKinds
  <1>6. ASSUME pc[q] \in D, Union(todo'[q]) \subseteq Union(todo[q])
        PROVE  SafeNext(Union(todo'[q]))
    <2>1. Safe(Union(todo'[q])) /\ Union(todo'[q]) \in SUBSET SnapType
      BY <1>1, <1>4, <1>6
    <2> QED  BY <1>3, <2>1
  <1>7. ASSUME pc'[q] \in D PROVE SafeNext(Union(todo'[q]))
    <2>1. CASE Calm
      BY <1>6, <1>7, <2>1 DEF Calm
    <2>2. ASSUME NEW p \in Procs, End(p) PROVE SafeNext(Union(todo'[q]))
      BY <1>6, <1>7, <2>2, EndIs
    <2>3. ASSUME NEW p \in Procs, CallRuns(p) PROVE SafeNext(Union(todo'[q]))
      BY <1>6, <1>7, <2>3, RunsIs
    <2>4. ASSUME NEW p \in Procs, CallReturns(p) \/ CallFails(p) PROVE SafeNext(Union(todo'[q]))
      <3>1. /\ Outcome(p) /\ Reads' = Reads
            /\ q # p => pc'[q] = pc[q] /\ todo'[q] = todo[q]
        BY <2>4, CallOver, OverIs
      <3>2. CASE q # p
        BY <1>6, <1>7, <3>1, <3>2
      <3>3. CASE /\ q = p /\ pc[p] = "reaplist"
                 /\ \E S \in SUBSET SweepSet(p) : todo'[p] = OneByOne(S)
        <4>0. PICK S \in SUBSET SweepSet(p) : todo'[p] = OneByOne(S)
          BY <3>3
        <4>1. S \in SUBSET SnapType
          BY DEF SweepSet, IInv, TypeOK
        <4>2. Union(todo'[p]) = S
          BY <4>0, <4>1, LoopArgs
        <4>3. Safe(S)
          BY <3>3, SweepSafe
        <4> QED  BY <1>3, <3>3, <4>1, <4>2, <4>3
      <3>4. CASE q = p /\ pc[p] = "snap" /\ todo'[p] = OneByOne(Names(p) \ Union(todo[p]))
        <4>1. Names(p) \ Union(todo[p]) \in SUBSET SnapType /\ \A s \in Names(p) : s.by = p
          BY <3>4, NamesTypes
        <4>2. Union(todo'[p]) = Names(p) \ Union(todo[p])
          BY <3>4, <4>1, LoopArgs
        <4>3. Over(p)'
          <5>1. p \notin Reads /\ pc'[p] = "rollback"
            BY <1>7, <2>4, <3>1, <3>4, OverIs DEF Outcome
          <5> QED  BY <3>1, <5>1 DEF Over
        <4> QED  BY <3>4, <4>1, <4>2, <4>3
      <3>5. CASE q = p /\ pc[p] \in D /\ todo'[p] = Tail(todo[p])
        <4>1. Union(Tail(todo[p])) \subseteq Union(todo[p])
          BY <3>5, TodoTypes DEF LoopPc
        <4> QED  BY <1>6, <3>5, <4>1
      <3> QED  BY <1>7, <3>1, <3>2, <3>3, <3>4, <3>5 DEF Outcome
    <2>5. ASSUME NEW p \in Procs, Backup(p) PROVE SafeNext(Union(todo'[q]))
      BY <1>6, <1>7, <2>5, BackupIs
    <2>6. ASSUME NEW p \in Procs, MoverStart(p) \/ MoverReturns(p) PROVE SafeNext(Union(todo'[q]))
      <3>1. /\ MoverStep(p) /\ pc[p] \in {"mount", "mover"} /\ pc \in [Procs -> Pc]
            /\ q # p => todo'[q] = todo[q]
            /\ \A s \in Names(p) : s.by = p
        BY <2>6, MoverStepIs DEF IInv, TypeOK
      <3>2. CASE q # p
        <4>1. pc'[q] = pc[q]
          BY <3>1, <3>2 DEF MoverStep
        <4> QED  BY <1>6, <1>7, <3>1, <3>2, <4>1
      <3>3. CASE q = p
        <4>1. Over(p)' /\ Union(todo'[p]) = Names(p)
          BY <1>7, <3>1, <3>3 DEF MoverStep, Over
        <4> QED  BY <3>1, <3>3, <4>1
      <3> QED  BY <3>2, <3>3
    <2> QED  BY <2>1, <2>2, <2>3, <2>4, <2>5, <2>6, StepKinds
  <1> QED  BY <1>5, <1>7

-----------------------------------------------------------------------------
(* When the snapshots were taken.                                          *)

LEMMA AtStep ==
  ASSUME IInv, Next
  PROVE  AtInv'
  <1> DEFINE Even(S) == \A x, y \in S : Pool(x[1]) = Pool(y[1]) => x[2] = y[2]
             AtOk(q) ==
               /\ pc[q] \in Early => at[q] = {}
               /\ pc[q] = "snap" => \A x \in at[q] : x[1] \in Names(q) \ Left(q)
               /\ Alive(q) \/ q \in mover => Even(at[q])
  <1>1. \A q \in Procs : AtOk(q)
    BY DEF IInv, AtInv
  <1>2. SUFFICES ASSUME NEW q \in Procs PROVE AtOk(q)'
    BY DEF AtInv, Pool
  <1>3. ASSUME pc'[q] = pc[q], Names(q)' = Names(q), Left(q)' = Left(q), at'[q] = at[q],
               q \in mover' => q \in mover
        PROVE  AtOk(q)'
    BY <1>1, <1>3 DEF Alive, Pool
  <1>4. CASE Calm
    <2>1. /\ Names(q)' = Names(q) /\ Left(q)' = Left(q) /\ at' = at /\ mover' \subseteq mover
      BY <1>4, CalmIs DEF Calm
    <2>2. CASE pc'[q] = pc[q]
      BY <1>3, <2>1, <2>2
    <2>3. CASE pc[q] \in {"new", "reap"} /\ pc'[q] \in {"reap", "idle", "reaplist"}
      <3>1. at'[q] = {}
        BY <1>1, <2>1, <2>3 DEF Early
      <3> QED  BY <2>3, <3>1
    <2> QED  BY <1>4, <2>2, <2>3 DEF Calm
  <1>5. ASSUME NEW p \in Procs, End(p) PROVE AtOk(q)'
    <2>1. CASE q = p
      <3>1. pc'[p] = "gone" /\ mover' = mover /\ Alive(p) /\ (p \in mover => at' = at)
        BY <1>5, EndIs
      <3>2. ~Alive(p)' /\ Even(at[p])
        BY <1>1, <3>1 DEF Alive
      <3> QED  BY <2>1, <3>1, <3>2 DEF Early, Pool
    <2>2. CASE q # p
      BY <2>2, <1>3, <1>5, EndIs
    <2> QED  BY <2>1, <2>2
  <1>6. ASSUME NEW p \in Procs, CallRuns(p) PROVE AtOk(q)'
    <2>1. /\ pc[p] # "new" /\ (cmd[p].do = "snapshot" => p \notin mover) /\ pc' = pc /\ mover' = mover /\ Names(q)' = Names(q)
          /\ q # p => Left(q)' = Left(q)
      BY <1>6, RunsIs
    <2>2. DOMAIN at = Procs /\ cmd[p].do \in {"list", "snapshot", "destroy"}
      BY DEF IInv, TypeOK
    <2>3. CASE cmd[p].do # "snapshot"
      <3>1. at' = at /\ (Alive(p) => pc[p] # "snap")
        BY <2>2, <2>3, <1>6, RunsIs DEF LoopPc
      <3>2. pc[q] = "snap" => q # p
        BY <3>1 DEF Alive
      <3> QED  BY <1>1, <2>1, <3>1, <3>2 DEF Alive, Pool
    <2>4. CASE cmd[p].do = "snapshot"
      <3>1. /\ Alive(p) => pc[p] = "snap" /\ cmd[p].args = Head(todo[p])
            /\ at' = [at EXCEPT ![p] = @ \cup (cmd[p].args \X {writes})]
        BY <2>4, <1>6, RunsIs
      <3>2. CASE q # p
        BY <1>3, <2>1, <2>2, <3>1, <3>2
      <3>3. CASE q = p /\ ~Alive(p)
        <4>1. pc[p] = "gone"
          BY <2>1, <3>3 DEF Alive
        <4> QED  BY <2>1, <2>4, <3>3, <4>1 DEF Early, Alive
      <3>4. CASE q = p /\ Alive(p)
        <4> DEFINE H == Head(todo[p])
        <4>1. pc[p] = "snap" /\ at'[p] = at[p] \cup (H \X {writes})
          BY <2>2, <3>1, <3>4
        <4>2. /\ Left(p) = H \cup Left(p)' /\ H \cap Left(p)' = {} /\ H \subseteq Names(p)
              /\ \A s \in H, t \in Names(p) : Pool(t) = Pool(s) => t \in H
          BY <1>6, <4>1, SnapRuns
        <4>3. (\A x \in at[p] : x[1] \in Names(p) \ Left(p)) /\ Even(at[p])
          BY <1>1, <3>4, <4>1
        <4> HIDE DEF H
        <4>4. \A x \in at'[p] : x[1] \in Names(p) \ Left(p)'
          BY <4>1, <4>2, <4>3
        <4>5. \A x \in at[p], y \in H \X {writes} : Pool(x[1]) # Pool(y[1])
          BY <4>2, <4>3
        <4>6. Even(at[p] \cup (H \X {writes}))
          BY <4>3, <4>5
        <4> QED  BY <2>1, <3>4, <4>1, <4>4, <4>6 DEF Early, Pool
      <3> QED  BY <3>2, <3>3, <3>4
    <2> QED  BY <2>3, <2>4
  <1>7. ASSUME NEW p \in Procs, CallReturns(p) \/ CallFails(p) PROVE AtOk(q)'
    <2>1. /\ Outcome(p) /\ UNCHANGED <<at, mover>> /\ Alive(p)
          /\ q # p => pc'[q] = pc[q]
      BY <1>7, CallOver DEF hostVars
    <2>2. /\ Left(p)' = Union(todo'[p])
          /\ q # p => Names(q)' = Names(q) /\ Left(q)' = Left(q)
          /\ pc[p] \notin {"resolve", "list"} => Names(p)' = Names(p)
          /\ pc[p] \in LoopPc => (Ran(p) => Left(p) = Union(Tail(todo[p])))
      BY <1>7, OverIs
    <2>3. CASE q # p
      BY <2>1, <2>2, <2>3, <1>3
    <2>4. CASE q = p
      <3>1. CASE pc[p] \in Early
        <4>1. at'[p] = {}
          BY <1>1, <2>1, <3>1
        <4> QED  BY <2>4, <4>1
      <3>2. Even(at[p])
        BY <1>1, <2>1
      <3>3. CASE pc'[p] \notin Early \cup {"snap"}
        BY <2>1, <2>4, <3>2, <3>3 DEF Pool
      <3>4. CASE pc[p] = "snap" /\ Ran(p) /\ todo'[p] = Tail(todo[p])
                 /\ pc'[p] = (IF todo'[p] = <<>> THEN "mount" ELSE "snap")
        <4>1. Left(p)' = Left(p) /\ Names(p)' = Names(p) /\ pc'[p] \notin Early
          BY <2>2, <3>4 DEF LoopPc, Early
        <4> QED  BY <1>1, <2>1, <2>4, <3>2, <3>4, <4>1 DEF Pool
      <3> QED  BY <2>1, <3>1, <3>3, <3>4 DEF Outcome, Early
    <2> QED  BY <2>3, <2>4
  <1>8. ASSUME NEW p \in Procs, Backup(p) PROVE AtOk(q)'
    <2>1. CASE q = p
      <3>1. at'[p] = {}
        BY <1>1, <1>8, BackupIs DEF Early
      <3> QED  BY <2>1, <3>1
    <2>2. CASE q # p
      BY <2>2, <1>3, <1>8, BackupIs
    <2> QED  BY <2>1, <2>2
  <1>9. ASSUME NEW p \in Procs, MoverStart(p) \/ MoverReturns(p) PROVE AtOk(q)'
    <2>1. /\ pc[p] \in {"mount", "mover"} /\ MoverStep(p) /\ at' = at /\ Alive(p)
          /\ mover' \subseteq mover \cup {p}
          /\ Names(q)' = Names(q)
          /\ q # p => Left(q)' = Left(q)
      BY <1>9, MoverStepIs
    <2>2. pc \in [Procs -> Pc]
      BY DEF IInv, TypeOK
    <2>3. CASE q # p
      <3>1. pc'[q] = pc[q] /\ (q \in mover' => q \in mover)
        BY <2>1, <2>2, <2>3 DEF MoverStep
      <3> QED  BY <2>1, <2>3, <3>1, <1>3
    <2>4. CASE q = p
      <3>1. pc'[p] \in {"mover", "done", "cleanup"} /\ Even(at[p])
        BY <1>1, <2>1, <2>2 DEF MoverStep
      <3> QED  BY <2>1, <2>4, <3>1 DEF Early, Pool
    <2> QED  BY <2>3, <2>4
  <1> QED  BY <1>4, <1>5, <1>6, <1>7, <1>8, <1>9, StepKinds

-----------------------------------------------------------------------------
(* The orphans of a reap.                                                  *)

\* A process that is gone starts no container.
LEMMA GoneStays ==
  ASSUME IInv, Next, NEW r \in Procs, pc[r] = "gone"
  PROVE  /\ pc'[r] = "gone" /\ cmd'[r] = cmd[r]
         /\ call'[r] = "running" => call[r] = "running"
  <1> DEFINE Ok == /\ pc'[r] = "gone" /\ cmd'[r] = cmd[r]
                   /\ call'[r] = "running" => call[r] = "running"
  <1>1. /\ pc \in [Procs -> Pc] /\ doomed \in [Procs -> SUBSET Procs]
        /\ call \in [Procs -> {"none", "created", "running", "exited", "reaped", "vanished"}]
        /\ cmd \in [Procs -> [do: {"list", "snapshot", "destroy"}, args: SUBSET SnapType]]
    BY DEF IInv, TypeOK
  <1>2. ~Alive(r)
    BY DEF Alive
  <1>3. ASSUME NEW p \in Procs, Start(p) \/ StartUnreaped(p) \/ ReapContainersDone(p) PROVE Ok
    BY <1>1, <1>2, <1>3 DEF Start, StartUnreaped, Begins, ReapContainersDone, Goto
  <1>4. ASSUME NEW p \in Procs, ReapContainer(p) PROVE Ok
    <2>1. PICK q \in doomed[p] :
            call' = [call EXCEPT ![q] = IF @ = "exited" THEN "vanished" ELSE "reaped"]
      BY <1>4 DEF ReapContainer
    <2>2. UNCHANGED <<pc, cmd>>
      BY <1>4 DEF ReapContainer
    <2> QED  BY <1>1, <2>1, <2>2
  <1>5. ASSUME NEW p \in Procs, Cancel(p) \/ MoverEnds(p) PROVE Ok
    BY <1>5 DEF Cancel, MoverEnds, procVars
  <1>6. ASSUME NEW p \in Procs, End(p) PROVE Ok
    BY <1>1, <1>6, EndIs
  <1>7. ASSUME NEW p \in Procs, CallCreate(p) \/ CallStart(p) PROVE Ok
    <2>1. r # p
      BY <1>2, <1>7 DEF CallCreate, CallStart
    <2> QED  BY <1>1, <1>7, <2>1 DEF CallCreate, CallStart
  <1>8. ASSUME NEW p \in Procs, CallRuns(p) PROVE Ok
    BY <1>1, <1>8, RunsIs
  <1>9. ASSUME NEW p \in Procs, CallReturns(p) \/ CallFails(p) PROVE Ok
    <2>1. Alive(p) /\ CallEnds(p) /\ (r # p => pc'[r] = pc[r])
      BY <1>9, CallOver
    <2> QED  BY <1>1, <1>2, <2>1 DEF CallEnds
  <1>10. ASSUME NEW p \in Procs, Backup(p) PROVE Ok
    BY <1>2, <1>10, BackupIs
  <1>11. ASSUME NEW p \in Procs, MoverStart(p) \/ MoverReturns(p) PROVE Ok
    <2>1. Alive(p) /\ MoverStep(p) /\ UNCHANGED <<call, cmd>>
      BY <1>11, MoverStepIs
    <2> QED  BY <1>1, <1>2, <2>1 DEF MoverStep
  <1>12. CASE Write
    BY <1>12 DEF Write, procVars
  <1> QED  BY <1>3, <1>4, <1>5, <1>6, <1>7, <1>8, <1>9, <1>10, <1>11, <1>12 DEF Next

LEMMA OrphanStep ==
  ASSUME IInv, Next
  PROVE  OrphanInv'
  <1> DEFINE R == {"reap", "reaplist"}
             Began(q) == Start(q) \/ StartUnreaped(q)
             Quiet(s) == /\ pc[s.by] = "gone"
                         /\ ~(call[s.by] = "running" /\ cmd[s.by].do = "snapshot"
                                                     /\ s \in cmd[s.by].args)
             Found(q) == pc[q] \in R => \A s \in orphans[q] : Owns(q, s) /\ s.by \notin inUse[q]
             Swept(q) ==
               /\ pc[q] = "sweep" /\ R \cap blind[q] = {}
                    => orphans[q] \cap snaps \subseteq failed[q] \cup Left(q)
               /\ pc[q] \notin R \cup {"sweep"} /\ R \cap blind[q] = {}
                    => orphans[q] \cap snaps \subseteq failed[q]
  <1>1. /\ pc \in [Procs -> Pc] /\ inUse \in [Procs -> SUBSET Procs]
        /\ orphans \in [Procs -> SUBSET SnapType] /\ snaps \subseteq SnapType
        /\ DOMAIN blind = Procs
        /\ \A s \in SnapType : s.by \in Procs
    BY DEF IInv, TypeOK, SnapType
  <1>2. \A q \in Procs : Alive(q) => /\ \A s \in orphans[q] : Quiet(s)
                                     /\ Found(q) /\ Swept(q)
    BY DEF IInv, OrphanInv
  <1>3. SUFFICES ASSUME NEW q \in Procs, Alive(q)'
                 PROVE  (\A s \in orphans'[q] : Quiet(s)') /\ Found(q)' /\ Swept(q)'
    BY DEF OrphanInv, Owns, SnapName
  <1>4. CASE Began(q)
    <2>1. /\ pc[q] = "new"
          /\ \/ pc'[q] = "reap" /\ inUse'[q] = mover
             \/ pc'[q] = "idle" /\ "reap" \in blind'[q]
          /\ \A r \in Procs : r # q => pc'[r] = pc[r]
          /\ UNCHANGED <<call, cmd, snaps>>
          /\ orphans'[q] = {s \in snaps : Owns(q, s) /\ ~Alive(s.by) /\ s.by \notin mover}
      BY <1>1, <1>4 DEF Start, StartUnreaped, Begins, Goto, hostVars
    <2>2. ASSUME NEW s \in orphans'[q] PROVE Quiet(s)'
      <3>1. s \in snaps /\ ~Alive(s.by) /\ s.by \in Procs
        BY <1>1, <2>1
      <3>2. pc[s.by] \notin Early
        <4>1. s \in Mine(s.by)
          BY <3>1 DEF Mine
        <4> QED  BY <3>1, <4>1 DEF IInv, MineInv
      <3>3. pc[s.by] = "gone" /\ s.by # q
        BY <2>1, <3>1, <3>2 DEF Alive, Early
      <3>4. ~(call[s.by] = "running" /\ cmd[s.by].do = "snapshot" /\ s \in cmd[s.by].args)
        BY <3>1 DEF IInv, PendInv
      <3> QED  BY <2>1, <3>1, <3>3, <3>4
    <2>3. Found(q)'
      BY <2>1 DEF Owns, SnapName
    <2> QED  BY <2>1, <2>2, <2>3
  <1>5. ASSUME ~Began(q)
        PROVE  Alive(q) /\ orphans'[q] = orphans[q] /\ inUse'[q] = inUse[q]
    <2>1. ASSUME NEW p \in Procs, Began(p)
          PROVE  /\ pc'[q] = pc[q] /\ orphans'[q] = orphans[q] /\ inUse'[q] = inUse[q]
      <3>1. p # q
        BY <1>5, <2>1
      <3> QED  BY <1>1, <2>1, <3>1 DEF Start, StartUnreaped, Begins, Goto
    <2>2. ASSUME NEW p \in Procs, End(p)
          PROVE  /\ pc'[q] = pc[q] /\ orphans'[q] = orphans[q] /\ inUse'[q] = inUse[q]
      <3>1. p # q
        BY <1>3, <2>2, EndIs DEF Alive
      <3> QED  BY <2>2, <3>1, EndIs
    <2>3. ASSUME NEW p \in Procs,
                 \/ ReapContainer(p) \/ ReapContainersDone(p) \/ Cancel(p)
                 \/ CallCreate(p) \/ CallStart(p) \/ CallRuns(p)
                 \/ CallReturns(p) \/ CallFails(p)
                 \/ Backup(p) \/ MoverStart(p) \/ MoverEnds(p) \/ MoverReturns(p)
          PROVE  UNCHANGED <<orphans, inUse>>
      BY <2>3 DEF ReapContainer, ReapContainersDone, Cancel, CallCreate, CallStart, CallRuns,
                  CallReturns, CallFails, Backup, MoverStart, MoverEnds, MoverReturns,
                  procVars, history
    <2>4. ASSUME Write PROVE UNCHANGED <<orphans, inUse>>
      BY <2>4 DEF Write, procVars, history
    <2>5. orphans'[q] = orphans[q] /\ inUse'[q] = inUse[q]
      BY <2>1, <2>2, <2>3, <2>4 DEF Next
    <2>6. Alive(q)
      <3>1. pc[q] # "gone"
        BY <1>3, GoneStays DEF Alive
      <3>2. ASSUME pc[q] = "new" PROVE pc'[q] = "new"
        <4>1. ~Alive(q)
          BY <3>2 DEF Alive
        <4>2. ASSUME NEW p \in Procs, ReapContainersDone(p) PROVE pc'[q] = pc[q]
          BY <1>1, <3>2, <4>2 DEF ReapContainersDone, Goto
        <4>3. ASSUME NEW p \in Procs,
                     \/ ReapContainer(p) \/ Cancel(p) \/ CallCreate(p) \/ CallStart(p)
                     \/ CallRuns(p) \/ MoverEnds(p)
              PROVE  pc' = pc
          BY <4>3 DEF ReapContainer, Cancel, CallCreate, CallStart, CallRuns, MoverEnds, procVars
        <4>4. ASSUME NEW p \in Procs, CallReturns(p) \/ CallFails(p) PROVE pc'[q] = pc[q]
          BY <3>2, <4>4, CallOver
        <4>5. ASSUME NEW p \in Procs, Backup(p) PROVE pc'[q] = pc[q]
          BY <3>2, <4>5, BackupIs
        <4>6. ASSUME NEW p \in Procs, MoverStart(p) \/ MoverReturns(p) PROVE pc'[q] = pc[q]
          <5>1. q # p /\ MoverStep(p)
            BY <4>1, <4>6, MoverStepIs
          <5> QED  BY <1>1, <5>1 DEF MoverStep
        <4>7. ASSUME Write PROVE pc' = pc
          BY <4>7 DEF Write, procVars
        <4> QED  BY <3>2, <2>1, <2>2, <4>2, <4>3, <4>4, <4>5, <4>6, <4>7 DEF Next
      <3> QED  BY <1>3, <3>1, <3>2 DEF Alive
    <2> QED  BY <2>5, <2>6
  <1>6. CASE ~Began(q)
    <2> DEFINE O == orphans[q]
    <2>1. /\ Alive(q) /\ orphans'[q] = O /\ inUse'[q] = inUse[q]
          /\ \A s \in O : Quiet(s) /\ s.by \in Procs
          /\ Found(q) /\ Swept(q)
      BY <1>1, <1>2, <1>5, <1>6
    <2>2. \A s \in O : Quiet(s)'
      BY <2>1, GoneStays
    <2>3. O \cap snaps' \subseteq O \cap snaps
      <3>1. ASSUME NEW p \in Procs, CallRuns(p) PROVE O \cap snaps' \subseteq snaps
        <4>1. call[p] = "running"
          BY <3>1, RunsIs
        <4>2. \/ snaps' \subseteq snaps
              \/ /\ cmd[p].do = "snapshot" /\ snaps' = snaps \cup cmd[p].args
                 /\ \A s \in cmd[p].args : s.by = p
          BY <3>1, RunsIs
        <4> QED  BY <2>1, <4>1, <4>2
      <3>2. ASSUME ~\E p \in Procs : CallRuns(p) PROVE snaps' = snaps
        <4>1. ASSUME NEW p \in Procs, CallReturns(p) \/ CallFails(p) PROVE snaps' = snaps
          BY <4>1, CallOver DEF hostVars
        <4> QED  BY <3>2, <4>1, StepKinds, EndIs, BackupIs, MoverStepIs DEF Calm
      <3> QED  BY <3>1, <3>2
    <2>4. ASSUME pc'[q] = pc[q], failed'[q] = failed[q], Left(q)' = Left(q), blind'[q] = blind[q]
          PROVE  Found(q)' /\ Swept(q)'
      BY <2>1, <2>3, <2>4 DEF Owns, SnapName
    <2>5. ASSUME pc[q] \notin R \cup {"sweep"}, pc'[q] \notin R \cup {"sweep"},
                 failed[q] \subseteq failed'[q], blind[q] \subseteq blind'[q]
          PROVE  Found(q)' /\ Swept(q)'
      BY <2>1, <2>3, <2>5
    <2>6. ASSUME Calm PROVE Found(q)' /\ Swept(q)'
      <3>1. Left(q)' = Left(q) /\ failed'[q] = failed[q] /\ blind'[q] = blind[q]
        BY <2>1, <2>6, CalmIs DEF Calm, Alive
      <3>2. CASE pc'[q] = pc[q]
        BY <2>4, <3>1, <3>2
      <3>3. CASE pc[q] = "reap" /\ pc'[q] = "reaplist"
        BY <2>1, <3>3 DEF Owns, SnapName
      <3>4. pc[q] # "new"
        BY <2>1 DEF Alive
      <3> QED  BY <2>6, <3>2, <3>3, <3>4 DEF Calm
    <2>7. ASSUME NEW p \in Procs, End(p) PROVE Found(q)' /\ Swept(q)'
      <3>1. p # q
        BY <1>3, <2>7, EndIs DEF Alive
      <3> QED  BY <2>4, <2>7, <3>1, EndIs
    <2>8. ASSUME NEW p \in Procs, CallRuns(p) PROVE Found(q)' /\ Swept(q)'
      <3>1. UNCHANGED <<pc, failed, blind>> /\ (q # p => Left(q)' = Left(q))
        BY <2>8, RunsIs
      <3>2. CASE q # p
        BY <2>4, <3>1, <3>2
      <3>3. CASE q = p /\ pc[q] = "sweep"
        <4>1. Left(p) = Head(todo[p]) \cup Left(p)'
          BY <2>8, <3>3, RunsIs DEF LoopPc
        <4>2. snaps' = snaps \ Head(todo[p])
          BY <2>1, <2>8, <3>3, RunsIs DEF LoopPc
        <4> QED  BY <2>1, <3>1, <3>3, <4>1, <4>2
      <3>4. CASE pc[q] # "sweep"
        BY <2>1, <2>3, <3>1, <3>4 DEF Owns, SnapName
      <3> QED  BY <3>2, <3>3, <3>4
    <2>9. ASSUME NEW p \in Procs, CallReturns(p) \/ CallFails(p) PROVE Found(q)' /\ Swept(q)'
      <3>1. /\ Outcome(p) /\ snaps' = snaps
            /\ q # p => pc'[q] = pc[q] /\ failed'[q] = failed[q] /\ blind'[q] = blind[q]
            /\ failed[p] \subseteq failed'[p] /\ blind[p] \subseteq blind'[p]
            /\ pc[p] \in CallPc
        BY <2>9, CallOver DEF hostVars
      <3>2. /\ Left(p)' = Union(todo'[p])
            /\ q # p => Left(q)' = Left(q)
            /\ pc[p] \in LoopPc => /\ Left(p) \subseteq Head(todo[p]) \cup Union(Tail(todo[p]))
                                   /\ Ran(p) => Left(p) = Union(Tail(todo[p]))
            /\ Union(<<>>) = {}
        BY <2>9, OverIs
      <3>3. CASE q # p
        BY <2>4, <3>1, <3>2, <3>3
      <3>4. CASE /\ q = p /\ pc[p] = "reaplist"
                 /\ \E S \in SUBSET SweepSet(p) :
                      todo'[p] = OneByOne(S) /\ (S = SweepSet(p) \/ "reaplist" \in blind'[p])
                 /\ pc'[p] = (IF todo'[p] = <<>> THEN "idle" ELSE "sweep")
        <4>0. PICK S \in SUBSET SweepSet(p) :
                todo'[p] = OneByOne(S) /\ (S = SweepSet(p) \/ "reaplist" \in blind'[p])
          BY <3>4
        <4>1. S \in SUBSET SnapType
          BY <1>1 DEF SweepSet
        <4>2. Left(p)' = S
          BY <3>2, <4>0, <4>1, LoopArgs
        <4>3. O \cap snaps' \subseteq SweepSet(p)
          BY <2>1, <3>1, <3>4 DEF SweepSet
        <4>4. todo'[p] = <<>> => S = {}
          BY <3>2, <4>2
        <4>5. CASE "reaplist" \in blind'[p]
          BY <3>4, <4>5
        <4>6. CASE S = SweepSet(p)
          BY <2>1, <3>4, <4>2, <4>3, <4>4, <4>6
        <4> QED  BY <4>0, <4>5, <4>6
      <3>6. CASE /\ q = p /\ pc[p] = "sweep" /\ todo'[p] = Tail(todo[p])
                 /\ Ran(p) \/ Head(todo[p]) \subseteq failed'[p]
                 /\ pc'[p] = (IF todo'[p] # <<>> THEN "sweep" ELSE "idle")
        <4>0. SUFFICES ASSUME R \cap blind'[p] = {} PROVE Found(q)' /\ Swept(q)'
          BY <3>6
        <4>4. R \cap blind[p] = {}
          BY <3>1, <4>0
        <4>1. O \cap snaps' \subseteq failed'[p] \cup Union(todo'[p])
          <5>1. O \cap snaps \subseteq failed[p] \cup Left(p)
            BY <2>1, <3>6, <4>4
          <5>2. Left(p) \subseteq failed'[p] \cup Union(todo'[p])
            BY <3>2, <3>6 DEF LoopPc
          <5> QED  BY <3>1, <5>1, <5>2
        <4>2. CASE todo'[p] = <<>>
          BY <2>1, <3>2, <3>6, <4>1, <4>2
        <4>3. CASE todo'[p] # <<>>
          BY <2>1, <3>2, <3>6, <4>1, <4>3
        <4> QED  BY <4>2, <4>3
      <3>7. CASE q = p /\ pc[p] \notin R \cup {"sweep"}
        <4>1. pc'[p] \notin R \cup {"sweep"}
          BY <3>1, <3>7 DEF Outcome
        <4> QED  BY <2>5, <3>1, <3>7, <4>1
      <3>8. pc[p] # "reap"
        BY <3>1 DEF CallPc
      <3>9. ASSUME q = p, pc[p] \in {"reaplist", "sweep"} PROVE Found(q)' /\ Swept(q)'
        BY <3>1, <3>4, <3>6, <3>9 DEF Outcome
      <3> QED  BY <3>3, <3>7, <3>8, <3>9
    <2>10. ASSUME NEW p \in Procs, Backup(p) PROVE Found(q)' /\ Swept(q)'
      <3>1. /\ q # p => pc'[q] = pc[q]
            /\ pc[p] = "idle" /\ pc'[p] \in {"mount", "resolve", "done", "list"}
            /\ Left(q)' = Left(q) /\ UNCHANGED <<failed, blind>>
        BY <2>10, BackupIs
      <3>2. CASE q = p
        BY <2>5, <3>1, <3>2
      <3>3. CASE q # p
        BY <2>4, <3>1, <3>3
      <3> QED  BY <3>2, <3>3
    <2>11. ASSUME NEW p \in Procs, MoverStart(p) \/ MoverReturns(p) PROVE Found(q)' /\ Swept(q)'
      <3>1. /\ MoverStep(p) /\ pc[p] \in {"mount", "mover"} /\ UNCHANGED <<failed, blind>>
            /\ q # p => Left(q)' = Left(q)
        BY <2>11, MoverStepIs
      <3>2. CASE q = p
        <4>1. pc'[p] \in {"mover", "done", "cleanup"}
          BY <1>1, <3>1 DEF MoverStep
        <4> QED  BY <2>5, <3>1, <3>2, <4>1
      <3>3. CASE q # p
        <4>1. pc'[q] = pc[q]
          BY <1>1, <3>1, <3>3 DEF MoverStep
        <4> QED  BY <2>4, <3>1, <3>3, <4>1
      <3> QED  BY <3>2, <3>3
    <2>12. Found(q)' /\ Swept(q)'
      BY <2>6, <2>7, <2>8, <2>9, <2>10, <2>11, StepKinds
    <2> QED  BY <2>1, <2>2, <2>12
  <1> QED  BY <1>4, <1>6

-----------------------------------------------------------------------------
LEMMA NextIInv == IInv /\ [Next]_vars => IInv'
  <1>1. ASSUME IInv, Next PROVE IInv'
    BY <1>1, TypeStep, CallStep, ClaimStep, MineStep, HeldStep, PendStep, SafeStep, AtStep,
       OrphanStep DEF IInv
  <1>2. ASSUME IInv, UNCHANGED vars PROVE IInv'
    <2>1. UNCHANGED <<pc, todo, call, cmd, cancelled, claimed, inUse, doomed, snaps, mover, kept,
                      faults, writes, at, failed, blind, loose, orphans>>
      BY <1>2 DEF vars, procVars, hostVars, history
    <2>2. \A q \in Procs : Names(q)' = Names(q) /\ Left(q)' = Left(q) /\ Mine(q)' = Mine(q)
      BY <2>1, StillIs DEF Ran
    <2>3. /\ TypeOK' /\ FunInv' /\ TodoInv' /\ CmdInv' /\ DoomedInv' /\ MoverInv'
      BY <1>2, <2>1 DEF IInv, TypeOK, FunInv, TodoInv, CmdInv, CmdOf, Alive, DoomedInv, MoverInv, Reads
    <2>4. ClaimInv'
      BY <1>2, <2>1 DEF IInv, ClaimInv, Claim, Listed
    <2>5. GroupInv'
      BY <1>2, <2>1, <2>2 DEF IInv, GroupInv
    <2>6. MineInv' /\ HeldInv'
      BY <1>2, <2>1, <2>2 DEF IInv, MineInv, HeldInv, Reads, Unshadowed
    <2>7. PendInv' /\ SafeInv' /\ OneAlive' /\ InUseInv'
      BY <1>2, <2>1 DEF IInv, PendInv, SafeInv, Over, Reads, Unshadowed, OneAlive, InUseInv, Alive
    <2>8. AtInv' /\ OrphanInv'
      BY <1>2, <2>1, <2>2 DEF IInv, AtInv, OrphanInv, Alive
    <2> QED  BY <2>3, <2>4, <2>5, <2>6, <2>7, <2>8 DEF IInv
  <1> QED  BY <1>1, <1>2

LEMMA SpecIInv == Spec => []IInv
  BY InitIInv, NextIInv, PTL DEF Spec

-----------------------------------------------------------------------------
(* Theorems.                                                               *)

\* Every process stays inside its control flow, and every zfs call, snapshot and
\* history it keeps is about snapshots of listed datasets, whatever the reaps of other
\* processes remove under its calls.
THEOREM TypeCorrect == Spec => []TypeOK
  <1>1. IInv => TypeOK
    BY DEF IInv
  <1> QED  BY <1>1, SpecIInv, PTL

\* No rollback, cleanup or reap destroys what a running mover reads, for any number of
\* processes, instances, sources and datasets: while the name of no other instance is
\* a prefix of "<instance>-<app>", the snapshots a mover was started on exist until it
\* ends or RunMover tries to remove it, also when its process died and its successor
\* reaps.  A mover whose removal failed (loose) is not covered: the cleanup that
\* follows does destroy what it reads.
THEOREM MoverKeepsSnapshots == Spec => []SnapshotsHeld
  <1>1. IInv => SnapshotsHeld
    BY DEF IInv, HeldInv, SnapshotsHeld, Reads, TypeOK
  <1> QED  BY <1>1, SpecIInv, PTL

\* groupByPool and Snapshot: one call takes all the snapshots of a pool, so whatever
\* the app writes between two calls, what a mover reads of one pool is of one moment.
THEOREM PoolsAreConsistent == Spec => []PoolConsistent
  <1>1. IInv => PoolConsistent
    BY DEF IInv, AtInv, PoolConsistent, TypeOK
  <1> QED  BY <1>1, SpecIInv, PTL

\* A source that was not claimed is mounted live.
LEMMA MountLive ==
  ASSUME NEW p, NEW i, i \notin claimed[p].src
  PROVE  Mount(p, i).ds = None
  BY DEF Mount

\* datasetFor, readPath and autoMounts: for every nesting of mountpoints, a mover finds
\* each source in the snapshot of the innermost dataset above it, at the path the source
\* has below the mountpoint; it reads it live only if there is no such dataset, the
\* source is foreign, or the listing of Resolve failed or was cut.  If the one of
\* Snapshot was cut, the dataset may be one further out, with the path to match.
THEOREM SourcesAreRead == Spec => []ReadsItsSource
  <1>1. ASSUME IInv, NEW p \in mover, NEW i \in DOMAIN Sources[p]
        PROVE  LET path == Sources[p][i].path
                   on == {d \in Range(Datasets) : Holds(d, path)}
                   m == Mount(p, i)
               IN  IF Mode[p] = "none" \/ Sources[p][i].foreign \/ on = {} THEN m.ds = None
                   ELSE \/ m.ds = None /\ "resolve" \in blind[p]
                        \/ \E d \in (IF "list" \in blind[p] THEN Range(Datasets) ELSE on) :
                             m.ds = d.name /\ d.mount # None /\ d.mount \o m.sub = path
    <2>0. i \notin claimed[p].src => Mount(p, i).ds = None
      BY MountLive
    <2> DEFINE path == Sources[p][i].path
               on == {d \in Range(Datasets) : Holds(d, path)}
               m == Mount(p, i)
               n == claimed[p].lines
               d0 == DatasetFor(path, n)
               all == Len(Datasets)
    <2>1. p \in Procs /\ Claim(p) /\ Listed(p) /\ n \in 0..all /\ all \in 0..all
      BY <1>1, DatasetLen DEF IInv, TypeOK, ClaimInv
    <2>2. path \in Path /\ Sources[p][i].foreign \in BOOLEAN
      BY <1>1, <2>1, SourceTypes
    <2>3. Mode[p] \in {"none", "zfs", "auto"}
      BY <2>1, ConfigAssumption
    <2>4. OnZfs(Sources[p][i], all) <=> on # {}
      <3>1. DatasetFor(path, all) # None => DatasetFor(path, all) \in on
        BY <2>1, <2>2, DatasetForIs
      <3>2. DatasetFor(path, all) = None => \A d \in Range(Datasets) : ~Above(d, path)
        BY <2>1, <2>2, DatasetForIs
      <3>3. \A d \in on : d \in Range(Datasets) /\ Above(d, path)
        BY DEF Holds, Above
      <3> QED  BY <3>1, <3>2, <3>3 DEF OnZfs
    <2>5. i \notin claimed[p].src => m.ds = None
      BY <2>0
    <2>6. ASSUME i \in claimed[p].src
          PROVE  /\ on # {} /\ ~Sources[p][i].foreign
                 /\ d0 \in Range(Datasets) /\ (d0 \in on \/ "list" \in blind[p])
                 /\ m.ds = d0.name /\ d0.mount # None /\ d0.mount \o m.sub = path
      <3>1. OnZfs(Sources[p][i], n) /\ (n = all \/ "list" \in blind[p]) /\ ~Sources[p][i].foreign
        BY <2>1, <2>6 DEF Listed, Claim
      <3>2. d0 \in Range(Datasets) /\ Above(d0, path) /\ (n = all => Holds(d0, path))
        BY <2>1, <2>2, <3>1, DatasetForIs DEF OnZfs
      <3>3. on # {}
        <4>1. DatasetFor(path, all) # None
          BY <2>1, <2>2, <3>2, DatasetForIs
        <4> QED  BY <2>4, <4>1 DEF OnZfs
      <3>4. m.ds = d0.name /\ m.sub = SubSeq(path, Len(d0.mount) + 1, Len(path))
        BY <2>6 DEF Mount
      <3>5. d0.mount # None /\ IsPrefix(d0.mount, path)
        BY <3>2 DEF Above
      <3>6. d0.mount \in Path
        BY <3>2, <3>5, DatasetTypes DEF Range, Path
      <3>7. d0.mount \o m.sub = path
        <4> HIDE DEF d0, m
        <4> QED  BY <2>2, <3>4, <3>5, <3>6, BelowMount DEF Path
      <3>8. d0 \in on \/ "list" \in blind[p]
        BY <3>1, <3>2
      <3> HIDE DEF d0, m, on, n
      <3> QED  BY <3>1, <3>2, <3>3, <3>4, <3>5, <3>7, <3>8
    <2> HIDE DEF m, d0, on, n
    <2>7. CASE Mode[p] = "none"
      <3>1. i \notin claimed[p].src
        BY <2>1, <2>7 DEF Claim
      <3> QED  BY <2>5, <2>7, <3>1 DEF m, on
    <2>8. CASE i \in claimed[p].src /\ Mode[p] # "none"
      <3>1. \E d \in (IF "list" \in blind[p] THEN Range(Datasets) ELSE on) :
              m.ds = d.name /\ d.mount # None /\ d.mount \o m.sub = path
        BY <2>6, <2>8
      <3> QED  BY <2>6, <2>8, <3>1 DEF m, on
    <2>9. CASE i \notin claimed[p].src /\ Mode[p] # "none"
      <3>1. m.ds = None
        BY <2>5, <2>9
      <3>2. CASE Mode[p] = "zfs"
        BY <1>1, <2>1, <2>9, <3>2 DEF Claim
      <3>3. CASE Mode[p] = "auto" /\ "resolve" \in blind[p]
        BY <3>1, <3>3 DEF m, on
      <3>4. CASE Mode[p] = "auto" /\ claimed[p].src = Snapshottable(p, all)
        <4>1. Sources[p][i].foreign \/ ~OnZfs(Sources[p][i], all)
          BY <1>1, <2>9, <3>4 DEF Snapshottable
        <4>2. Sources[p][i].foreign \/ on = {}
          BY <2>4, <4>1
        <4> QED  BY <3>1, <4>2 DEF m, on
      <3> QED  BY <2>1, <2>3, <2>9, <3>2, <3>3, <3>4 DEF Claim
    <2> QED  BY <2>7, <2>8, <2>9
  <1>2. IInv => ReadsItsSource
    BY <1>1 DEF ReadsItsSource
  <1> QED  BY <1>2, SpecIInv, PTL

\* Snapshot's rollback and the backup's cleanup: a backup that returned has left no
\* snapshot behind but for a mover it left running, or where a zfs call about that very
\* snapshot returned an error, whichever call fails and whenever the context ends.
THEOREM LeaksNothing == Spec => []NoLeak
  <1>1. ASSUME IInv, NEW s \in snaps, pc[s.by] = "done"
        PROVE  s.by \in kept \/ s \in failed[s.by]
    <2>1. s.by \in Procs
      BY <1>1 DEF IInv, TypeOK, SnapType
    <2>2. s \in Mine(s.by)
      BY <1>1 DEF Mine
    <2> QED  BY <1>1, <2>1, <2>2 DEF IInv, MineInv
  <1>2. IInv => NoLeak
    BY <1>1 DEF NoLeak
  <1> QED  BY <1>2, SpecIInv, PTL

\* ReapSnapshotter: what a crashed predecessor left behind and no mover reads is gone
\* once the reap of one successor is through, but for what zfs refused to destroy.
\* The successor has a snapshot mode configured, could list movers and containers, and
\* its list of snapshots arrived whole.
THEOREM OneRestartReaps == Spec => []OrphansReaped
  <1>1. IInv => OrphansReaped
    BY DEF IInv, OrphanInv, OrphansReaped
  <1> QED  BY <1>1, SpecIInv, PTL

=============================================================================
