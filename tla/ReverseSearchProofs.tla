-------------------------- MODULE ReverseSearchProofs -------------------------
(***************************************************************************)
(* Proofs about ReverseSearch, for every pair of layers, shape and radius. *)
(* The inductive invariant SearchInv says what is remembered of a request: *)
(* the search of its shape in the two layers, and the answers that makes.  *)
(* On it rest the four properties, with four facts about the operators:    *)
(* the order of the hits is a strict total one, so a sorted list is the    *)
(* only one there is; the foot of a leg is its closest place; nothing of a *)
(* layer is lost between its records and the hits; and a house number      *)
(* rounds to within one of where it fell.                                  *)
(***************************************************************************)
EXTENDS ReverseSearch, FiniteSetTheorems, FunctionTheorems,
        SequenceTheorems, WellFoundedInduction, TLAPS

-----------------------------------------------------------------------------
(***************************************************************************)
(* Least and greatest                                                      *)
(***************************************************************************)
(* A set of naturals that is not empty has a least one. *)
LEMMA LeastExists ==
  ASSUME NEW S \in SUBSET Nat, S # {}
  PROVE  \E x \in S : \A y \in S : x <= y
<1>1. PICK x \in S : \A y \in S : ~(<<y, x>> \in OpToRel(<, Nat))
  BY NatLessThanWellFounded, WFMin
<1>2. \A y \in S : ~(y < x)
  BY <1>1 DEF OpToRel
<1>3. \A y \in S : x <= y
  BY <1>2
<1> QED  BY <1>3

-----------------------------------------------------------------------------
(***************************************************************************)
(* Keys                                                                    *)
(***************************************************************************)
(* What the hits are sorted by, the order of the two layers last. *)
Key(h) == OrderingKey(h) \o Position(h)

(* Five numbers and two are seven. *)
LEMMA FiveAndTwo ==
  ASSUME NEW k \in Seq(Int), NEW p \in Seq(Int), Len(k) = 5, Len(p) = 2
  PROVE  /\ k \o p \in [1 .. 7 -> Int]
         /\ (k \o p)[1] = k[1] /\ (k \o p)[2] = k[2] /\ (k \o p)[3] = k[3]
         /\ (k \o p)[4] = k[4] /\ (k \o p)[5] = k[5]
         /\ (k \o p)[6] = p[1] /\ (k \o p)[7] = p[2]
<1> DEFINE s == k \o p
<1>1. /\ s \in Seq(Int) /\ Len(s) = Len(k) + Len(p)
      /\ \A i \in 1 .. Len(k) + Len(p) :
           s[i] = IF i <= Len(k) THEN k[i] ELSE p[i - Len(k)]
  BY ConcatProperties
<1> HIDE DEF s
<1>2. /\ s \in Seq(Int) /\ Len(s) = 7
      /\ \A i \in 1 .. 7 : s[i] = IF i <= 5 THEN k[i] ELSE p[i - 5]
  BY <1>1
<1>3. s \in [1 .. 7 -> Int]
  BY <1>2, LenProperties
<1>4. s[1] = k[1] /\ s[2] = k[2] /\ s[3] = k[3] /\ s[4] = k[4] /\ s[5] = k[5]
  BY <1>2
<1>5. s[6] = p[1] /\ s[7] = p[2]
  BY <1>2
<1> QED  BY <1>3, <1>4, <1>5 DEF s

(* What the order asks of a hit. *)
IsHit(h) == /\ h.contained \in BOOLEAN /\ h.banded \in BOOLEAN
            /\ h.distance2 \in Int /\ h.nguid \in Int /\ h.nth \in Int

(* The seven numbers of a key. *)
LEMMA KeyFacts ==
  ASSUME NEW h, IsHit(h)
  PROVE  /\ Key(h) \in [1 .. 7 -> Int]
         /\ Key(h)[1] = (IF h.contained THEN 0 ELSE 1)
         /\ Key(h)[2] = (IF h.banded THEN 0 ELSE 1)
         /\ Key(h)[3] = (IF h.contained THEN -Precision(h.tier) ELSE 0)
         /\ Key(h)[4] = h.distance2
         /\ Key(h)[5] = h.nguid
         /\ Key(h)[6] = (IF h.layer = "ssap" THEN 0 ELSE 1)
         /\ Key(h)[7] = h.nth
<1> DEFINE k == OrderingKey(h)
           p == Position(h)
<1>1. /\ k \in Seq(Int) /\ Len(k) = 5
      /\ k[1] = (IF h.contained THEN 0 ELSE 1)
      /\ k[2] = (IF h.banded THEN 0 ELSE 1)
      /\ k[3] = (IF h.contained THEN -Precision(h.tier) ELSE 0)
      /\ k[4] = h.distance2
      /\ k[5] = h.nguid
  BY DEF OrderingKey, IsHit, Precision
<1>2. /\ p \in Seq(Int) /\ Len(p) = 2
      /\ p[1] = (IF h.layer = "ssap" THEN 0 ELSE 1)
      /\ p[2] = h.nth
  BY DEF Position, IsHit
<1> HIDE DEF k, p
<1>3. /\ k \o p \in [1 .. 7 -> Int]
      /\ (k \o p)[1] = k[1] /\ (k \o p)[2] = k[2] /\ (k \o p)[3] = k[3]
      /\ (k \o p)[4] = k[4] /\ (k \o p)[5] = k[5]
      /\ (k \o p)[6] = p[1] /\ (k \o p)[7] = p[2]
  BY <1>1, <1>2, FiveAndTwo
<1> QED  BY <1>1, <1>2, <1>3 DEF Key, k, p

(* The order is lexicographic on the keys. *)
LEMMA BeforeByKey ==
  ASSUME NEW h, NEW g, IsHit(h)
  PROVE  Before(h, g) <=> \E i \in 1 .. 7 : /\ Key(h)[i] < Key(g)[i]
                                            /\ \A j \in 1 .. (i - 1) :
                                                 Key(h)[j] = Key(g)[j]
<1>1. DOMAIN Key(h) = 1 .. 7
  BY KeyFacts
<1> QED  BY <1>1, Zenon DEF Before, Key

(* No hit is before itself, and none is before another that is before it.  *)
LEMMA BeforeIsStrict ==
  ASSUME NEW h, NEW g, NEW f, IsHit(h), IsHit(g), IsHit(f)
  PROVE  /\ ~Before(h, h)
         /\ Before(h, g) /\ Before(g, f) => Before(h, f)
         /\ Key(h) # Key(g) => Before(h, g) \/ Before(g, h)
<1> DEFINE a == Key(h)
           b == Key(g)
           c == Key(f)
<1>1. a \in [1 .. 7 -> Int] /\ b \in [1 .. 7 -> Int] /\ c \in [1 .. 7 -> Int]
  BY KeyFacts
<1> HIDE DEF a, b, c
<1>2. ~Before(h, h)
  BY <1>1, BeforeByKey DEF a
<1>3. ASSUME Before(h, g), Before(g, f)
      PROVE  Before(h, f)
  <2>1. PICK i \in 1 .. 7 : a[i] < b[i] /\ \A j \in 1 .. (i - 1) : a[j] = b[j]
    BY <1>3, BeforeByKey DEF a, b
  <2>2. PICK k \in 1 .. 7 : b[k] < c[k] /\ \A j \in 1 .. (k - 1) : b[j] = c[j]
    BY <1>3, BeforeByKey DEF b, c
  <2> DEFINE m == Low(i, k)
  <2>3. m \in 1 .. 7 /\ m <= i /\ m <= k /\ (m = i \/ m = k)
    BY DEF Low
  <2>4. m < i => m \in 1 .. (i - 1)
    BY <2>3
  <2>5. m < k => m \in 1 .. (k - 1)
    BY <2>3
  <2>6. a[m] < c[m]
    BY <1>1, <2>1, <2>2, <2>3, <2>4, <2>5
  <2>7. \A j \in 1 .. (m - 1) : a[j] = c[j]
    BY <2>1, <2>2, <2>3
  <2> QED  BY <2>3, <2>6, <2>7, BeforeByKey DEF a, c
<1>4. ASSUME a # b
      PROVE  Before(h, g) \/ Before(g, h)
  <2> DEFINE D == {i \in 1 .. 7 : a[i] # b[i]}
  <2>1. D # {} /\ D \subseteq Nat
    BY <1>1, <1>4
  <2>2. PICK i \in D : \A j \in D : i <= j
    BY <2>1, LeastExists
  <2>3. \A j \in 1 .. (i - 1) : a[j] = b[j]
    BY <2>2
  <2>4. a[i] < b[i] \/ b[i] < a[i]
    BY <1>1, <2>2
  <2>5. (\E j \in 1 .. 7 : a[j] < b[j] /\ \A l \in 1 .. (j - 1) : a[l] = b[l])
        \/ (\E j \in 1 .. 7 :
               b[j] < a[j] /\ \A l \in 1 .. (j - 1) : b[l] = a[l])
    BY <2>2, <2>3, <2>4
  <2> QED  BY <2>5, BeforeByKey DEF a, b
<1> QED  BY <1>2, <1>3, <1>4 DEF a, b

-----------------------------------------------------------------------------
(***************************************************************************)
(* Sorting                                                                 *)
(***************************************************************************)
(* A finite set of hits no two of which have the same key. *)
Sortable(S) == /\ IsFiniteSet(S)
               /\ \A h \in S : IsHit(h)
               /\ \A h, g \in S : Key(h) = Key(g) => h = g

(* The hits of a set that come before one. *)
Earlier(S, h) == {g \in S : Before(g, h)}

(* How many are before a hit tells the hits apart. *)
LEMMA EarlierFacts ==
  ASSUME NEW S, Sortable(S), NEW h \in S, NEW g \in S
  PROVE  /\ IsFiniteSet(Earlier(S, h)) /\ Cardinality(Earlier(S, h)) \in Nat
         /\ Cardinality(Earlier(S, h)) < Cardinality(S)
         /\ Before(h, g) <=>
              Cardinality(Earlier(S, h)) < Cardinality(Earlier(S, g))
         /\ Cardinality(Earlier(S, h)) = Cardinality(Earlier(S, g)) => h = g
<1>1. IsFiniteSet(S) /\ \A f \in S : IsHit(f)
  BY DEF Sortable
<1>2. ASSUME NEW f \in S
      PROVE  /\ Earlier(S, f) \in SUBSET S /\ IsFiniteSet(Earlier(S, f))
             /\ Cardinality(Earlier(S, f)) \in Nat
             /\ Cardinality(Earlier(S, f)) < Cardinality(S)
  <2>1. Earlier(S, f) \in SUBSET S
    BY DEF Earlier
  <2>2. Earlier(S, f) # S
    BY <1>1, BeforeIsStrict DEF Earlier
  <2>3. /\ IsFiniteSet(Earlier(S, f))
        /\ Cardinality(Earlier(S, f)) <= Cardinality(S)
        /\ Cardinality(Earlier(S, f)) # Cardinality(S)
    BY <1>1, <2>1, <2>2, FS_Subset
  <2>4. Cardinality(Earlier(S, f)) \in Nat /\ Cardinality(S) \in Nat
    BY <1>1, <2>3, FS_CardinalityType
  <2> QED  BY <2>1, <2>3, <2>4
<1>3. ASSUME NEW f \in S, NEW e \in S, Before(f, e)
      PROVE  Cardinality(Earlier(S, f)) < Cardinality(Earlier(S, e))
  <2>1. Earlier(S, f) \in SUBSET Earlier(S, e)
    BY <1>1, <1>3, BeforeIsStrict DEF Earlier
  <2>2. f \in Earlier(S, e) /\ f \notin Earlier(S, f)
    BY <1>1, <1>3, BeforeIsStrict DEF Earlier
  <2>3. /\ Cardinality(Earlier(S, f)) <= Cardinality(Earlier(S, e))
        /\ Cardinality(Earlier(S, f)) # Cardinality(Earlier(S, e))
    BY <1>2, <2>1, <2>2, FS_Subset
  <2> QED  BY <1>2, <2>3
<1>4. h # g => Before(h, g) \/ Before(g, h)
  BY <1>1, BeforeIsStrict DEF Sortable
<1>5. ~Before(h, h)
  BY <1>1, BeforeIsStrict
<1> QED  BY <1>2, <1>3, <1>4, <1>5

(* Sorted, a hit is where its rank says, and every hit is somewhere.       *)
LEMMA OrderFacts ==
  ASSUME NEW S, Sortable(S)
  PROVE  LET n == Cardinality(S)
             s == Order(S)
         IN  /\ n \in Nat /\ DOMAIN s = 1 .. n /\ s \in [1 .. n -> S]
             /\ s \in Seq(S) /\ Len(s) = n
             /\ \A i \in 1 .. n : Cardinality(Earlier(S, s[i])) = i - 1
             /\ \A h \in S : \E i \in 1 .. n : s[i] = h
             /\ \A i, j \in 1 .. n : Before(s[i], s[j]) <=> i < j
<1> DEFINE n == Cardinality(S)
           s == Order(S)
           rank == [h \in S |-> Cardinality(Earlier(S, h))]
<1>1. IsFiniteSet(S) /\ n \in Nat
  BY FS_CardinalityType DEF Sortable
<1>2. \A h \in S : rank[h] \in Nat /\ rank[h] < n
  BY EarlierFacts
<1> HIDE DEF n
<1>3. rank \in [S -> 0 .. (n - 1)]
  BY <1>1, <1>2
<1>4. \A h, g \in S : rank[h] = rank[g] => h = g
  BY EarlierFacts
<1>5. rank \in Injection(S, 0 .. (n - 1))
  BY <1>3, <1>4 DEF Injection, IsInjective
<1>6. IsFiniteSet(0 .. (n - 1)) /\ Cardinality(0 .. (n - 1)) = n
  BY <1>1, FS_Interval
<1>7. rank \in Surjection(S, 0 .. (n - 1))
  BY <1>1, <1>5, <1>6, FS_Injection DEF n
<1>8. \A i \in 1 .. n : \E h \in S : Cardinality(Earlier(S, h)) = i - 1
  <2>1. \A k \in 0 .. (n - 1) : \E h \in S : rank[h] = k
    BY <1>7 DEF Surjection
  <2> QED  BY <1>1, <2>1
<1>9. s = [i \in 1 .. n |->
             CHOOSE h \in S : Cardinality(Earlier(S, h)) = i - 1]
  BY Zenon DEF Order, Earlier, n
<1> HIDE DEF s, rank
<1>10. \A i \in 1 .. n : s[i] \in S /\ Cardinality(Earlier(S, s[i])) = i - 1
  BY <1>8, <1>9
<1>11. s \in [1 .. n -> S]
  BY <1>9, <1>10
<1>12. s \in Seq(S) /\ Len(s) = n
  BY <1>1, <1>11
<1>13. ASSUME NEW h \in S
       PROVE  \E i \in 1 .. n : s[i] = h
  <2> DEFINE i == Cardinality(Earlier(S, h)) + 1
  <2>1. i \in 1 .. n /\ Cardinality(Earlier(S, h)) = i - 1
    BY <1>1, <1>2 DEF rank
  <2> HIDE DEF i
  <2>2. s[i] \in S /\ Cardinality(Earlier(S, s[i])) = i - 1
    BY <1>10, <2>1
  <2>3. s[i] = h
    BY <2>1, <2>2, EarlierFacts
  <2> QED  BY <2>1, <2>3
<1>14. ASSUME NEW i \in 1 .. n, NEW j \in 1 .. n
       PROVE  Before(s[i], s[j]) <=> i < j
  <2>1. /\ Before(s[i], s[j]) <=>
             Cardinality(Earlier(S, s[i])) < Cardinality(Earlier(S, s[j]))
    BY <1>10, EarlierFacts
  <2> QED  BY <1>1, <1>10, <2>1
<1> QED  BY <1>1, <1>10, <1>11, <1>12, <1>13, <1>14 DEF s, n

-----------------------------------------------------------------------------
(***************************************************************************)
(* Sums                                                                    *)
(***************************************************************************)
(* The choice the community modules make of what to add next.              *)
Pick(s) == CHOOSE x \in s : TRUE

(* The subsets that have at most so many elements. *)
UpTo(S, n) == {s \in SUBSET S : Cardinality(s) <= n}

(* What the community modules define a sum by, over some of the subsets. *)
Adds(f, c, domain) ==
  \A s \in domain : f[s] = IF s = {} THEN 0 ELSE c[Pick(s)] + f[s \ {Pick(s)}]

(* Whatever finite set of numbers is added up, the partial sums exist, and *)
(* are numbers of the kind the terms are.                                  *)
LEMMA PartialSumsExist ==
  ASSUME NEW S, IsFiniteSet(S), NEW V, V = Int \/ V = Nat, NEW c \in [S -> V],
         NEW n \in Nat
  PROVE  \E f \in [UpTo(S, n) -> V] : Adds(f, c, UpTo(S, n))
<1> DEFINE Exist(m) == \E f \in [UpTo(S, m) -> V] : Adds(f, c, UpTo(S, m))
           Missing == {m \in Nat : ~Exist(m)}
<1>1. \A s \in SUBSET S : IsFiniteSet(s) /\ Cardinality(s) \in Nat
  BY FS_Subset, FS_CardinalityType
<1>2. \A s \in SUBSET S : s # {} =>
        /\ Pick(s) \in s /\ s \ {Pick(s)} \in SUBSET S
        /\ Cardinality(s \ {Pick(s)}) = Cardinality(s) - 1
  BY <1>1, FS_RemoveElement DEF Pick
<1>3. Exist(0)
  <2> DEFINE f == [s \in UpTo(S, 0) |-> 0]
  <2>1. \A s \in UpTo(S, 0) : s = {}
    BY <1>1, FS_EmptySet DEF UpTo
  <2>2. f \in [UpTo(S, 0) -> V] /\ Adds(f, c, UpTo(S, 0))
    BY <2>1 DEF Adds
  <2> QED  BY <2>2
<1>4. ASSUME NEW m \in Nat, Exist(m)
      PROVE  Exist(m + 1)
  <2>1. PICK f \in [UpTo(S, m) -> V] : Adds(f, c, UpTo(S, m))
    BY <1>4
  <2> DEFINE g == [s \in UpTo(S, m + 1) |->
                     IF s = {} THEN 0 ELSE c[Pick(s)] + f[s \ {Pick(s)}]]
  <2>2. ASSUME NEW s \in UpTo(S, m + 1), s # {}
        PROVE  s \ {Pick(s)} \in UpTo(S, m) /\ Pick(s) \in S
    BY <1>1, <1>2, <2>2 DEF UpTo
  <2>3. \A s \in UpTo(S, m) : s \in UpTo(S, m + 1) /\ g[s] = f[s]
    BY <1>1, <2>1 DEF UpTo, Adds
  <2>4. g \in [UpTo(S, m + 1) -> V]
    <3> SUFFICES ASSUME NEW s \in UpTo(S, m + 1), s # {}
                 PROVE  c[Pick(s)] + f[s \ {Pick(s)}] \in V
      OBVIOUS
    <3>1. c[Pick(s)] \in V /\ f[s \ {Pick(s)}] \in V
      BY <2>2
    <3> QED  BY <3>1
  <2>5. \A s \in UpTo(S, m + 1) :
          s # {} => g[s \ {Pick(s)}] = f[s \ {Pick(s)}]
    BY <2>2, <2>3
  <2>6. Adds(g, c, UpTo(S, m + 1))
    BY <2>5 DEF Adds
  <2> QED  BY <2>4, <2>6
<1> HIDE DEF Exist
<1>5. Missing = {}
  <2> SUFFICES ASSUME Missing # {} PROVE FALSE
    OBVIOUS
  <2>1. PICK m \in Missing : \A k \in Missing : m <= k
    BY LeastExists
  <2>2. m # 0 /\ m - 1 \in Nat
    BY <1>3, <2>1
  <2>3. Exist(m - 1)
    BY <2>1, <2>2
  <2>4. Exist((m - 1) + 1)
    BY <1>4, <2>2, <2>3
  <2> QED  BY <2>1, <2>4
<1> QED  BY <1>5 DEF Exist

(* A sum of integers is one, and of naturals. *)
LEMMA SumType ==
  ASSUME NEW S, IsFiniteSet(S), NEW V, V = Int \/ V = Nat, NEW c \in [S -> V]
  PROVE  SumFunction(c) \in V
<1> DEFINE n == Cardinality(S)
           Equation(f) == f = [s \in SUBSET S |->
                                 IF s = {} THEN 0
                                 ELSE c[Pick(s)] + f[s \ {Pick(s)}]]
           sums == CHOOSE f : Equation(f)
<1>1. n \in Nat
  BY FS_CardinalityType
<1>2. UpTo(S, n) = SUBSET S
  BY <1>1, FS_Subset DEF UpTo
<1>3. PICK f \in [SUBSET S -> V] : Adds(f, c, SUBSET S)
  <2> HIDE DEF n
  <2>1. \E f \in [UpTo(S, n) -> V] : Adds(f, c, UpTo(S, n))
    BY <1>1, PartialSumsExist
  <2> QED  BY <1>2, <2>1
<1>4. Equation(f)
  BY <1>3 DEF Adds
<1>5. Equation(sums)
  BY <1>4
<1>6. SumFunction(c) = sums[S]
  <2>1. DOMAIN c = S
    OBVIOUS
  <2> QED
    BY <2>1 DEF SumFunction, SumFunctionOnSet, FoldFunctionOnSet,
                MapThenFoldSet, Pick
<1> HIDE DEF sums
<1>7. \A s \in SUBSET S : sums[s] \in V
  <2> DEFINE Bad == {s \in SUBSET S : sums[s] \notin V}
             Sizes == {Cardinality(s) : s \in Bad}
  <2>1. \A s \in SUBSET S : IsFiniteSet(s) /\ Cardinality(s) \in Nat
    BY FS_Subset, FS_CardinalityType
  <2>2. Sizes \subseteq Nat
    BY <2>1
  <2>3. ASSUME Bad # {}
        PROVE  FALSE
    <3>1. Sizes # {}
      BY <2>3
    <3>2. PICK s \in Bad : \A t \in Bad : Cardinality(s) <= Cardinality(t)
      <4> HIDE DEF Bad
      <4>1. PICK m \in Sizes : \A k \in Sizes : m <= k
        BY <2>2, <3>1, LeastExists
      <4> QED  BY <4>1
    <3>3. CASE s = {}
      BY <1>5, <3>2, <3>3
    <3>4. CASE s # {}
      <4>1. /\ Pick(s) \in s /\ Pick(s) \in S /\ s \ {Pick(s)} \in SUBSET S
            /\ Cardinality(s \ {Pick(s)}) = Cardinality(s) - 1
        BY <2>1, <3>4, FS_RemoveElement DEF Pick
      <4>2. sums[s \ {Pick(s)}] \in V
        BY <2>1, <3>2, <4>1
      <4>3. sums[s] = c[Pick(s)] + sums[s \ {Pick(s)}]
        BY <1>5, <3>4
      <4>4. c[Pick(s)] \in V
        BY <4>1
      <4> QED  BY <3>2, <4>2, <4>3, <4>4
    <3> QED  BY <3>3, <3>4
  <2> QED  BY <2>3
<1>8. sums[S] \in V
  BY <1>7
<1> QED  BY <1>6, <1>8, Zenon

-----------------------------------------------------------------------------
(***************************************************************************)
(* Geometry                                                                *)
(***************************************************************************)
(* The smaller and the larger of two. *)
LEMMA MinMaxOfTwo ==
  ASSUME NEW a \in Int, NEW b \in Int
  PROVE  Min({a, b}) = Low(a, b) /\ Max({a, b}) = High(a, b)
<1>1. CASE a <= b
  <2>1. a \in {a, b} /\ \A y \in {a, b} : a <= y
    BY <1>1
  <2>2. b \in {a, b} /\ \A y \in {a, b} : b >= y
    BY <1>1
  <2>3. Min({a, b}) = a
    BY <2>1 DEF Min
  <2>4. Max({a, b}) = b
    BY <2>2 DEF Max
  <2> QED  BY <1>1, <2>3, <2>4 DEF Low, High
<1>2. CASE ~(a <= b)
  <2>1. b \in {a, b} /\ \A y \in {a, b} : b <= y
    BY <1>2
  <2>2. a \in {a, b} /\ \A y \in {a, b} : a >= y
    BY <1>2
  <2>3. Min({a, b}) = b
    BY <2>1 DEF Min
  <2>4. Max({a, b}) = a
    BY <2>2 DEF Max
  <2> QED  BY <1>2, <2>3, <2>4 DEF Low, High
<1> QED  BY <1>1, <1>2

(* Clamping gives the closest value of an interval. *)
LEMMA ClampFacts ==
  ASSUME NEW v \in Int, NEW a \in Int, NEW b \in Int
  PROVE  /\ Clamp(v, a, b) \in Low(a, b) .. High(a, b)
         /\ \A x \in Low(a, b) .. High(a, b) :
              Magnitude(v - Clamp(v, a, b)) <= Magnitude(v - x)
<1>1. Low(a, b) \in Int /\ High(a, b) \in Int /\ Low(a, b) <= High(a, b)
  BY DEF Low, High
<1>2. High(Low(a, b), v) \in Int
  BY <1>1 DEF High
<1>3. Clamp(v, a, b) = Low(High(a, b), High(Low(a, b), v))
  BY <1>1, <1>2, MinMaxOfTwo DEF Clamp
<1> DEFINE l == Low(a, b)
           h == High(a, b)
<1> HIDE DEF l, h
<1>4. /\ Low(h, High(l, v)) \in l .. h
      /\ \A x \in l .. h :
           Magnitude(v - Low(h, High(l, v))) <= Magnitude(v - x)
  <2>1. l \in Int /\ h \in Int /\ l <= h
    BY <1>1 DEF l, h
  <2> QED  BY <2>1 DEF Low, High, Magnitude
<1> QED  BY <1>3, <1>4 DEF l, h

(* Squares grow with magnitudes. *)
LEMMA SquareFacts ==
  ASSUME NEW a \in Int, NEW b \in Int
  PROVE  /\ Square(a) \in Nat
         /\ Magnitude(a) <= Magnitude(b) => Square(a) <= Square(b)
<1>1. \A i, j \in Nat : i <= j => i * i <= j * j
  <2> SUFFICES ASSUME NEW i \in Nat, NEW j \in Nat, i <= j
               PROVE  i * i <= j * j
    OBVIOUS
  <2>1. i * i <= i * j
    BY Z3
  <2>2. i * j <= j * j
    BY Z3
  <2> QED  BY <2>1, <2>2, Z3
<1>2. \A i \in Int : /\ Magnitude(i) \in Nat
                      /\ Square(i) = Magnitude(i) * Magnitude(i)
  <2>1. \A i \in Int : (-i) * (-i) = i * i
    BY Z3
  <2> QED  BY <2>1 DEF Magnitude, Square
<1>3. \A i \in Nat : i * i \in Nat
  BY Z3
<1> DEFINE m == Magnitude(a)
           n == Magnitude(b)
<1>4. m \in Nat /\ n \in Nat /\ Square(a) = m * m /\ Square(b) = n * n
  BY <1>2
<1> HIDE DEF m, n
<1>5. m * m \in Nat
  BY <1>3, <1>4
<1>6. m <= n => m * m <= n * n
  BY <1>1, <1>4
<1> QED  BY <1>4, <1>5, <1>6 DEF m, n

(* Where a place is on the ground. *)
OnGround(p) == p.x \in Int /\ p.y \in Int

(* Its coordinates are numbers. *)
LEMMA PlaceFacts ==
  ASSUME NEW p \in Place
  PROVE  OnGround(p) /\ p.x \in Int /\ p.y \in Int
BY DEF Place, OnGround

(* A magnitude is no less than nothing. *)
LEMMA MagnitudeType ==
  ASSUME NEW n \in Int
  PROVE  Magnitude(n) \in Nat
BY DEF Magnitude

(* Closer east and north is closer. *)
LEMMA DistanceFacts ==
  ASSUME NEW o, NEW p, NEW q, OnGround(o), OnGround(p), OnGround(q)
  PROVE  /\ Distance2(o, p) \in Nat
         /\ /\ Magnitude(o.x - p.x) <= Magnitude(o.x - q.x)
            /\ Magnitude(o.y - p.y) <= Magnitude(o.y - q.y)
            => Distance2(o, p) <= Distance2(o, q)
<1>1. /\ o.x - p.x \in Int /\ o.y - p.y \in Int
      /\ o.x - q.x \in Int /\ o.y - q.y \in Int
  BY DEF OnGround
<1> DEFINE a == Square(o.x - p.x)
           b == Square(o.y - p.y)
           c == Square(o.x - q.x)
           d == Square(o.y - q.y)
<1>2. a \in Nat /\ b \in Nat /\ c \in Nat /\ d \in Nat
  BY <1>1, SquareFacts
<1>3. Magnitude(o.x - p.x) <= Magnitude(o.x - q.x) => a <= c
  BY <1>1, SquareFacts
<1>4. Magnitude(o.y - p.y) <= Magnitude(o.y - q.y) => b <= d
  BY <1>1, SquareFacts
<1>5. Distance2(o, p) = a + b /\ Distance2(o, q) = c + d
  BY DEF Distance2
<1> HIDE DEF a, b, c, d
<1> QED  BY <1>2, <1>3, <1>4, <1>5

(* No place of a leg is nearer than the closest one. *)
LEMMA ClosestFacts ==
  ASSUME NEW path \in Seq(Place), NEW i \in Legs(path), NEW o, OnGround(o)
  PROVE  /\ OnGround(Closest(path, i, o))
         /\ Closest(path, i, o).x \in Low(path[i].x, path[i + 1].x)
                                       .. High(path[i].x, path[i + 1].x)
         /\ Closest(path, i, o).y \in Low(path[i].y, path[i + 1].y)
                                       .. High(path[i].y, path[i + 1].y)
         /\ Closest(path, i, o).z = NoAltitude
         /\ Distance2(o, Closest(path, i, o)) \in Nat
         /\ \A x \in Low(path[i].x, path[i + 1].x)
                       .. High(path[i].x, path[i + 1].x),
               y \in Low(path[i].y, path[i + 1].y)
                       .. High(path[i].y, path[i + 1].y) :
              Distance2(o, Closest(path, i, o))
                <= Distance2(o, [x |-> x, y |-> y, z |-> NoAltitude])
<1> DEFINE c == Closest(path, i, o)
           X == Low(path[i].x, path[i + 1].x)
                  .. High(path[i].x, path[i + 1].x)
           Y == Low(path[i].y, path[i + 1].y)
                  .. High(path[i].y, path[i + 1].y)
<1>1. /\ path[i] \in Place /\ path[i + 1] \in Place
  BY DEF Legs
<1>2. /\ path[i].x \in Int /\ path[i + 1].x \in Int
      /\ path[i].y \in Int /\ path[i + 1].y \in Int
      /\ o.x \in Int /\ o.y \in Int
  BY <1>1 DEF Place, OnGround
<1>3. /\ c.x = Clamp(o.x, path[i].x, path[i + 1].x)
      /\ c.y = Clamp(o.y, path[i].y, path[i + 1].y)
      /\ c.z = NoAltitude
  BY DEF Closest
<1>4. /\ c.x \in X /\ \A x \in X : Magnitude(o.x - c.x) <= Magnitude(o.x - x)
      /\ c.y \in Y /\ \A y \in Y : Magnitude(o.y - c.y) <= Magnitude(o.y - y)
  BY <1>2, <1>3, ClampFacts
<1>5. X \subseteq Int /\ Y \subseteq Int
  BY <1>2 DEF Low, High
<1> HIDE DEF X, Y, c
<1>6. OnGround(c)
  BY <1>4, <1>5 DEF OnGround
<1>7. Distance2(o, c) \in Nat
  BY <1>6, DistanceFacts
<1>8. ASSUME NEW x \in X, NEW y \in Y
      PROVE  Distance2(o, c)
               <= Distance2(o, [x |-> x, y |-> y, z |-> NoAltitude])
  <2> DEFINE q == [x |-> x, y |-> y, z |-> NoAltitude]
  <2>1. OnGround(q) /\ q.x = x /\ q.y = y
    BY <1>5 DEF OnGround
  <2> HIDE DEF q
  <2>2. /\ Magnitude(o.x - c.x) <= Magnitude(o.x - q.x)
        /\ Magnitude(o.y - c.y) <= Magnitude(o.y - q.y)
    BY <1>4, <2>1
  <2>3. Distance2(o, c) <= Distance2(o, q)
    BY <1>6, <2>1, <2>2, DistanceFacts
  <2> QED  BY <2>3 DEF q
<1> QED  BY <1>3, <1>4, <1>6, <1>7, <1>8 DEF X, Y, c

(* The origin of a shape is a place on the ground. *)
LEMMA OriginType ==
  ASSUME NEW s \in Shape
  PROVE  OnGround(Origin(s))
<1>1. ASSUME NEW ring \in Ring
      PROVE  /\ Mean(ring).x \in Int /\ Mean(ring).y \in Int
             /\ Mean(ring) = [x |-> Mean(ring).x, y |-> Mean(ring).y,
                              z |-> Mean(ring).z]
  <2>1. ring \in Seq(Place) /\ Len(ring) \in Nat /\ Len(ring) > 0
    BY DEF Ring
  <2>2. /\ IsFiniteSet(DOMAIN ring)
        /\ [i \in DOMAIN ring |-> ring[i].x] \in [DOMAIN ring -> Int]
        /\ [i \in DOMAIN ring |-> ring[i].y] \in [DOMAIN ring -> Int]
    <3>1. DOMAIN ring = 1 .. Len(ring)
      BY <2>1
    <3>2. \A i \in DOMAIN ring : ring[i].x \in Int /\ ring[i].y \in Int
      <4>1. \A i \in DOMAIN ring : ring[i] \in Place
        BY <2>1
      <4> QED  BY <4>1, PlaceFacts
    <3> QED  BY <2>1, <3>1, <3>2, FS_Interval
  <2>3. /\ SumFunction([i \in DOMAIN ring |-> ring[i].x]) \in Int
        /\ SumFunction([i \in DOMAIN ring |-> ring[i].y]) \in Int
    BY <2>2, SumType
  <2> DEFINE a == SumFunction([i \in DOMAIN ring |-> ring[i].x])
             b == SumFunction([i \in DOMAIN ring |-> ring[i].y])
  <2>4. Mean(ring) = [x |-> a \div Len(ring), y |-> b \div Len(ring),
                      z |-> ring[1].z]
    BY DEF Mean
  <2> HIDE DEF a, b
  <2>5. a \div Len(ring) \in Int /\ b \div Len(ring) \in Int
    BY <2>1, <2>3 DEF a, b
  <2> QED  BY <2>4, <2>5
<1>2. ASSUME s \in ArcBands
      PROVE  Reach(s) \in Int
  <2> DEFINE a == s.outer
             b == s.inner
             cubes == a * a * a - b * b * b
             squares == Square(a) - Square(b)
  <2>1. a \in Nat /\ b \in Nat
    BY <1>2 DEF ArcBands
  <2>2. a * a * a \in Int /\ b * b * b \in Int
    BY <2>1, Z3
  <2>3. CASE a > b
    <3>1. a * a > b * b /\ a * a \in Nat /\ b * b \in Nat
      BY <2>1, <2>3, Z3
    <3>2. squares \in Nat /\ squares > 0
      BY <3>1 DEF Square
    <3>3. cubes \in Int
      BY <2>2
    <3> HIDE DEF cubes, squares
    <3>4. 28 * cubes \in Int /\ 66 * squares \in Int /\ 66 * squares > 0
      BY <3>2, <3>3
    <3>5. (28 * cubes) \div (66 * squares) \in Int
      BY <3>4
    <3> QED  BY <2>1, <3>5 DEF Reach, cubes, squares
  <2> QED  BY <2>1, <2>3 DEF Reach
<1>3. CASE s.kind = "ArcBand"
  <2>1. s \in ArcBands
    BY <1>3 DEF Shape, Points, Circles, Spheres, Ellipses, Ellipsoids,
                Polygons, Prisms
  <2>2. s.at \in Place
    BY <2>1 DEF ArcBands
  <2> QED  BY <1>2, <1>3, <2>1, <2>2 DEF Origin, OnGround, Place
<1>4. CASE s.kind = "Polygon"
  <2>1. s.ring \in Ring
    BY <1>4 DEF Shape, Points, Circles, Spheres, Ellipses, Ellipsoids,
                ArcBands, Polygons, Prisms
  <2> QED  BY <1>1, <1>4, <2>1 DEF Origin, OnGround
<1>5. CASE s.kind = "Prism"
  <2>1. s.ring \in Ring
    BY <1>5 DEF Shape, Points, Circles, Spheres, Ellipses, Ellipsoids,
                ArcBands, Polygons, Prisms
  <2> QED  BY <1>1, <1>5, <2>1 DEF Origin, OnGround
<1>6. CASE s.kind \notin {"ArcBand", "Polygon", "Prism"}
  <2>1. s.at \in Place
    BY <1>6 DEF Shape, Points, Circles, Spheres, Ellipses, Ellipsoids,
                ArcBands, Polygons, Prisms
  <2> QED  BY <1>6, <2>1 DEF Origin, OnGround, Place
<1> QED  BY <1>3, <1>4, <1>5, <1>6

-----------------------------------------------------------------------------
(***************************************************************************)
(* Paths                                                                   *)
(***************************************************************************)
(* A path is nowhere shorter than nothing. *)
LEMMA WalkedType ==
  ASSUME NEW path \in Seq(Place), NEW i \in 1 .. Len(path)
  PROVE  Walked(path, i) \in Nat
<1>1. \A j \in 1 .. (i - 1) : LegLength(path, j) \in Nat
  <2> SUFFICES ASSUME NEW j \in 1 .. (i - 1)
               PROVE  LegLength(path, j) \in Nat
    OBVIOUS
  <2>1. path[j] \in Place /\ path[j + 1] \in Place
    OBVIOUS
  <2>2. /\ path[j + 1].x - path[j].x \in Int
        /\ path[j + 1].y - path[j].y \in Int
    BY <2>1, PlaceFacts
  <2>3. /\ Magnitude(path[j + 1].x - path[j].x) \in Nat
        /\ Magnitude(path[j + 1].y - path[j].y) \in Nat
    BY <2>2, MagnitudeType
  <2> QED  BY <2>3 DEF LegLength
<1>2. /\ IsFiniteSet(1 .. (i - 1))
      /\ [j \in 1 .. (i - 1) |-> LegLength(path, j)]
           \in [1 .. (i - 1) -> Nat]
  <2>1. i - 1 \in Int
    OBVIOUS
  <2>2. IsFiniteSet(1 .. (i - 1))
    BY <2>1, FS_Interval
  <2> QED  BY <1>1, <2>2
<1> QED  BY <1>2, SumType DEF Walked

(* The origin is projected to the closest place of the closest leg. *)
LEMMA ProjectionFacts ==
  ASSUME NEW path \in Seq(Place), Len(path) >= 2, NEW o, OnGround(o)
  PROVE  LET p == Projection(path, o)
         IN  \E leg \in Legs(path) :
               /\ p.at = Closest(path, leg, o)
               /\ p.offset2 = Distance2(o, p.at)
               /\ \A i \in Legs(path) :
                    p.offset2 <= Distance2(o, Closest(path, i, o))
               /\ p.along \in Nat
               /\ p.side \in {"L", "R"}
<1> DEFINE off(i) == Distance2(o, Closest(path, i, o))
           First(i) == \A j \in Legs(path) :
                         off(i) < off(j) \/ (off(i) = off(j) /\ i <= j)
           leg == CHOOSE i \in Legs(path) : First(i)
           Offs == {off(i) : i \in Legs(path)}
<1>1. \A i \in Legs(path) : off(i) \in Nat
  BY ClosestFacts
<1>2. Legs(path) # {} /\ Legs(path) \subseteq Nat
  <2>1. 1 \in 1 .. (Len(path) - 1) /\ 1 .. (Len(path) - 1) \subseteq Nat
    OBVIOUS
  <2> QED  BY <2>1, Zenon DEF Legs
<1>3. \E i \in Legs(path) : First(i)
  <2>1. PICK d \in Offs : \A e \in Offs : d <= e
    <3>1. Offs \subseteq Nat /\ Offs # {}
      BY <1>1, <1>2
    <3> HIDE DEF Offs
    <3> QED  BY <3>1, LeastExists
  <2> DEFINE Least == {i \in Legs(path) : off(i) = d}
  <2>2. Least # {} /\ Least \subseteq Nat
    BY <1>2, <2>1
  <2>3. PICK i \in Least : \A j \in Least : i <= j
    <3> HIDE DEF Least
    <3> QED  BY <2>2, LeastExists
  <2>4. \A j \in Legs(path) : off(i) <= off(j) /\ (off(i) = off(j) => i <= j)
    BY <2>1, <2>3
  <2>5. \A j \in Legs(path) : off(j) \in Nat /\ off(i) \in Nat
    BY <1>1, <2>3
  <2> HIDE DEF off
  <2>6. First(i)
    BY <2>4, <2>5
  <2> QED  BY <2>3, <2>6
<1>4. leg \in Legs(path) /\ First(leg)
  <2> HIDE DEF First
  <2> QED  BY <1>3
<1>5. \A i \in Legs(path) : off(leg) <= off(i)
  <2> HIDE DEF off, leg
  <2> QED  BY <1>1, <1>4
<1> HIDE DEF leg
<1> DEFINE near == Closest(path, leg, o)
           along == Magnitude(near.x - path[leg].x)
                      + Magnitude(near.y - path[leg].y)
           cross == (path[leg + 1].x - path[leg].x) * (o.y - path[leg].y)
                      - (path[leg + 1].y - path[leg].y) * (o.x - path[leg].x)
           p == [at |-> near, along |-> Walked(path, leg) + along,
                 offset2 |-> off(leg), side |-> IF cross > 0 THEN "L" ELSE "R"]
<1>6. Projection(path, o) = p
  BY Zenon DEF Projection, leg
<1>7. Walked(path, leg) \in Nat
  BY <1>4, WalkedType DEF Legs
<1>8. along \in Nat
  <2>1. path[leg] \in Place
    BY <1>4 DEF Legs
  <2>2. OnGround(near)
    BY <1>4, ClosestFacts
  <2> HIDE DEF near
  <2>3. near.x - path[leg].x \in Int /\ near.y - path[leg].y \in Int
    BY <2>1, <2>2, PlaceFacts DEF OnGround
  <2>4. /\ Magnitude(near.x - path[leg].x) \in Nat
        /\ Magnitude(near.y - path[leg].y) \in Nat
    BY <2>3, MagnitudeType
  <2> QED  BY <2>4
<1> HIDE DEF along, cross
<1>9. /\ p.at = near /\ p.offset2 = off(leg) /\ p.along \in Nat
      /\ p.side \in {"L", "R"}
  BY <1>7, <1>8
<1> HIDE DEF p
<1>10. /\ p.at = near /\ p.offset2 = Distance2(o, p.at)
       /\ \A i \in Legs(path) : p.offset2 <= off(i)
  BY <1>5, <1>9
<1> QED  BY <1>4, <1>6, <1>9, <1>10

-----------------------------------------------------------------------------
(***************************************************************************)
(* Hits                                                                    *)
(***************************************************************************)
(* The values a function takes on a finite set are finitely many. *)
LEMMA FiniteRange ==
  ASSUME NEW D, IsFiniteSet(D), NEW f, DOMAIN f = D, f = [x \in D |-> f[x]]
  PROVE  IsFiniteSet({f[x] : x \in D})
<1> DEFINE T == {f[x] : x \in D}
<1>1. f \in Surjection(D, T)
  BY DEF Surjection
<1> HIDE DEF T
<1> QED  BY <1>1, FS_Surjection DEF T

(* The sixth part of a key tells the layers apart. *)
LEMMA SameLayer ==
  ASSUME NEW a, NEW b,
         (IF a = "ssap" THEN 0 ELSE 1) = (IF b = "ssap" THEN 0 ELSE 1)
  PROVE  a = "ssap" <=> b = "ssap"
OBVIOUS

(* Every hit of the two layers on a shape. *)
Found(s, points, roads) == SsapHits(s, points) \union RclHits(s, roads)

(* A hit on an address point that has a place. *)
LEMMA SsapHitFacts ==
  ASSUME NEW s \in Shape, NEW points \in Seq(AddressPoint),
         NEW i \in DOMAIN points, points[i].places # {},
         NEW hit, hit = SsapHit(s, points, i)
  PROVE  /\ IsHit(hit) /\ hit.distance2 \in Nat
         /\ hit.layer = "ssap" /\ hit.nth = i /\ hit.nguid = points[i].nguid
         /\ hit.tier = "ADDRESS_POINT" /\ hit.at \in points[i].places
         /\ hit.distance2 = Distance2(Origin(s), hit.at)
         /\ hit.contained <=> Covers(s, hit.at)
         /\ hit.banded <=> Bands(Origin(s), hit.at)
         /\ \A p \in points[i].places : p = hit.at
<1> DEFINE at == CHOOSE p \in points[i].places : TRUE
           d == Distance2(Origin(s), at)
           c == Covers(s, at)
           b == Bands(Origin(s), at)
           h == [layer |-> "ssap", nth |-> i, nguid |-> points[i].nguid,
                 tier |-> "ADDRESS_POINT", at |-> at, distance2 |-> d,
                 contained |-> c, banded |-> b, along |-> 0, side |-> "none"]
<1>1. hit = h
  BY Zenon DEF SsapHit
<1>2. /\ i \in Nat /\ points[i] \in AddressPoint
  BY LenProperties
<1>3. points[i].nguid \in Nat /\ points[i].places \in Places
  BY <1>2 DEF AddressPoint
<1>4. at \in points[i].places /\ at \in Place
  BY <1>3 DEF Places
<1>5. \A p \in points[i].places : p = at
  <2> HIDE DEF at
  <2> QED  BY <1>3, <1>4 DEF Places
<1>6. d \in Nat
  BY <1>4, OriginType, PlaceFacts, DistanceFacts
<1>7. c \in BOOLEAN /\ b \in BOOLEAN
  BY Zenon DEF Covers, Bands
<1> HIDE DEF c, b, at
<1>8. /\ h.layer = "ssap" /\ h.nth = i /\ h.nguid = points[i].nguid
      /\ h.tier = "ADDRESS_POINT" /\ h.at = at
      /\ h.distance2 = Distance2(Origin(s), h.at)
      /\ h.contained = c /\ h.banded = b
  OBVIOUS
<1>9. IsHit(h) /\ h.distance2 \in Nat
  BY <1>2, <1>3, <1>6, <1>7 DEF IsHit
<1> HIDE DEF h
<1>10. (h.contained <=> Covers(s, at)) /\ (h.banded <=> Bands(Origin(s), at))
  BY <1>8, Zenon DEF c, b
<1> QED  BY <1>1, <1>4, <1>5, <1>8, <1>9, <1>10, Zenon

(* A hit on a centerline of one part. *)
LEMMA RclHitFacts ==
  ASSUME NEW s \in Shape, NEW roads \in Seq(Centerline),
         NEW i \in DOMAIN roads, OnePart(roads[i]),
         NEW hit, hit = RclHit(s, roads, i)
  PROVE  /\ IsHit(hit) /\ hit.distance2 \in Nat
         /\ hit.layer = "rcl" /\ hit.nth = i /\ hit.nguid = roads[i].nguid
         /\ hit.tier = "INTERPOLATED_POINT" /\ ~hit.banded
         /\ hit.contained <=> Covers(s, hit.at)
         /\ hit.along \in Nat /\ hit.side \in SideOf
         /\ \E leg \in Legs(roads[i].path) :
              hit.at = Closest(roads[i].path, leg, Origin(s))
         /\ hit.distance2 = Distance2(Origin(s), hit.at)
         /\ \A leg \in Legs(roads[i].path) :
              hit.distance2 <= Distance2(Origin(s),
                                 Closest(roads[i].path, leg, Origin(s)))
<1> DEFINE path == roads[i].path
           o == Origin(s)
           p == Projection(path, o)
           c == Covers(s, p.at)
           h == [layer |-> "rcl", nth |-> i, nguid |-> roads[i].nguid,
                 tier |-> "INTERPOLATED_POINT", at |-> p.at,
                 distance2 |-> p.offset2, contained |-> c, banded |-> FALSE,
                 along |-> p.along, side |-> p.side]
<1>1. hit = h
  BY Zenon DEF RclHit
<1>2. /\ i \in Nat /\ roads[i] \in Centerline
  BY LenProperties
<1>3. roads[i].nguid \in Nat /\ path \in Seq(Place) /\ Len(path) >= 2
  BY <1>2 DEF Centerline, OnePart
<1>4. OnGround(o)
  BY OriginType
<1> HIDE DEF path, o
<1>5. PICK leg \in Legs(path) :
        /\ p.at = Closest(path, leg, o)
        /\ p.offset2 = Distance2(o, p.at)
        /\ \A j \in Legs(path) :
             p.offset2 <= Distance2(o, Closest(path, j, o))
        /\ p.along \in Nat
        /\ p.side \in {"L", "R"}
  <2> HIDE DEF p
  <2> QED  BY <1>3, <1>4, ProjectionFacts DEF p
<1>6. p.offset2 \in Nat
  <2>1. Distance2(o, Closest(path, leg, o)) \in Nat
    BY <1>3, <1>4, ClosestFacts
  <2> QED  BY <1>5, <2>1
<1>7. c \in BOOLEAN
  BY Zenon DEF Covers
<1> HIDE DEF c, p
<1>8. /\ h.layer = "rcl" /\ h.nth = i /\ h.nguid = roads[i].nguid
      /\ h.tier = "INTERPOLATED_POINT" /\ h.at = p.at
      /\ h.distance2 = p.offset2 /\ h.contained = c /\ h.banded = FALSE
      /\ h.along = p.along /\ h.side = p.side
  OBVIOUS
<1>9. IsHit(h) /\ h.distance2 \in Nat
  BY <1>2, <1>3, <1>6, <1>7 DEF IsHit
<1> HIDE DEF h
<1>10. h.contained <=> Covers(s, p.at)
  BY <1>8, Zenon DEF c
<1>11. h.side \in SideOf
  BY <1>5, <1>8 DEF SideOf
<1> QED
  BY <1>1, <1>5, <1>8, <1>9, <1>10, <1>11, Zenon DEF path, o

(* What is found can be sorted, and each hit is the one its record gives. *)
LEMMA FoundFacts ==
  ASSUME NEW s \in Shape, NEW points \in Seq(AddressPoint),
         NEW roads \in Seq(Centerline)
  PROVE  LET found == Found(s, points, roads)
         IN  /\ Sortable(found)
             /\ \A h \in found :
                  /\ IsHit(h) /\ h.distance2 \in Nat /\ Near(h.distance2)
                  /\ \/ /\ h.layer = "ssap" /\ h.nth \in DOMAIN points
                        /\ points[h.nth].places # {}
                        /\ h = SsapHit(s, points, h.nth)
                     \/ /\ h.layer = "rcl" /\ h.nth \in DOMAIN roads
                        /\ OnePart(roads[h.nth])
                        /\ h = RclHit(s, roads, h.nth)
<1> DEFINE found == Found(s, points, roads)
           P == {i \in DOMAIN points : points[i].places # {}}
           R == {i \in DOMAIN roads : OnePart(roads[i])}
           f == [i \in P |-> SsapHit(s, points, i)]
           g == [i \in R |-> RclHit(s, roads, i)]
<1>1. IsFiniteSet(P) /\ IsFiniteSet(R)
  <2>1. /\ DOMAIN points = 1 .. Len(points) /\ Len(points) \in Nat
        /\ DOMAIN roads = 1 .. Len(roads) /\ Len(roads) \in Nat
    BY LenProperties
  <2>2. IsFiniteSet(DOMAIN points) /\ IsFiniteSet(DOMAIN roads)
    BY <2>1, FS_Interval
  <2>3. P \in SUBSET DOMAIN points /\ R \in SUBSET DOMAIN roads
    OBVIOUS
  <2> HIDE DEF P, R
  <2> QED  BY <2>2, <2>3, FS_Subset, Zenon
<1>2. IsFiniteSet({f[i] : i \in P}) /\ IsFiniteSet({g[i] : i \in R})
  <2>1. DOMAIN f = P /\ f = [i \in P |-> f[i]]
    OBVIOUS
  <2>2. DOMAIN g = R /\ g = [i \in R |-> g[i]]
    OBVIOUS
  <2> HIDE DEF P, R, f, g
  <2>3. IsFiniteSet({f[i] : i \in P})
    BY <1>1, <2>1, FiniteRange
  <2>4. IsFiniteSet({g[i] : i \in R})
    BY <1>1, <2>2, FiniteRange
  <2> QED  BY <2>3, <2>4
<1>3. SsapHits(s, points) \subseteq {f[i] : i \in P}
  BY DEF SsapHits
<1>4. RclHits(s, roads) \subseteq {g[i] : i \in R}
  BY DEF RclHits
<1>5. IsFiniteSet(found)
  <2>1. IsFiniteSet(SsapHits(s, points)) /\ IsFiniteSet(RclHits(s, roads))
    BY <1>2, <1>3, <1>4, FS_Subset
  <2> QED  BY <2>1, FS_Union DEF Found
<1>6. ASSUME NEW h \in SsapHits(s, points)
      PROVE  /\ IsHit(h) /\ h.distance2 \in Nat /\ Near(h.distance2)
             /\ h.layer = "ssap" /\ h.nth \in DOMAIN points
             /\ points[h.nth].places # {} /\ h = SsapHit(s, points, h.nth)
  <2>1. PICK i \in P : h = SsapHit(s, points, i)
    BY DEF SsapHits
  <2>2. Near(h.distance2)
    BY DEF SsapHits
  <2>3. IsHit(h) /\ h.distance2 \in Nat /\ h.layer = "ssap" /\ h.nth = i
    BY <2>1, SsapHitFacts
  <2> QED  BY <2>1, <2>2, <2>3
<1>7. ASSUME NEW h \in RclHits(s, roads)
      PROVE  /\ IsHit(h) /\ h.distance2 \in Nat /\ Near(h.distance2)
             /\ h.layer = "rcl" /\ h.nth \in DOMAIN roads
             /\ OnePart(roads[h.nth]) /\ h = RclHit(s, roads, h.nth)
  <2>1. PICK i \in R : h = RclHit(s, roads, i)
    BY DEF RclHits
  <2>2. Near(h.distance2)
    BY DEF RclHits
  <2>3. IsHit(h) /\ h.distance2 \in Nat /\ h.layer = "rcl" /\ h.nth = i
    <3>1. i \in DOMAIN roads /\ OnePart(roads[i])
      OBVIOUS
    <3> HIDE DEF found, P, R, f, g
    <3>2. h = RclHit(s, roads, i)
      BY <2>1
    <3> QED  BY <3>1, <3>2, RclHitFacts
  <2> QED  BY <2>1, <2>2, <2>3
<1>8. \A h \in found :
        /\ IsHit(h) /\ h.distance2 \in Nat /\ Near(h.distance2)
        /\ \/ /\ h.layer = "ssap" /\ h.nth \in DOMAIN points
              /\ points[h.nth].places # {}
              /\ h = SsapHit(s, points, h.nth)
           \/ /\ h.layer = "rcl" /\ h.nth \in DOMAIN roads
              /\ OnePart(roads[h.nth])
              /\ h = RclHit(s, roads, h.nth)
  BY <1>6, <1>7 DEF Found
<1> HIDE DEF found
<1>9. ASSUME NEW h \in found, NEW e \in found, Key(h) = Key(e)
      PROVE  h = e
  <2> HIDE DEF P, R, f, g
  <2>1. Key(h)[6] = Key(e)[6] /\ Key(h)[7] = Key(e)[7]
    BY <1>9
  <2>2. IsHit(h) /\ IsHit(e)
    BY <1>8
  <2>3. h.nth = e.nth
    <3>1. Key(h)[7] = h.nth /\ Key(e)[7] = e.nth
      BY <2>2, KeyFacts
    <3> QED  BY <2>1, <3>1
  <2>4. (h.layer = "ssap") <=> (e.layer = "ssap")
    <3>1. /\ Key(h)[6] = (IF h.layer = "ssap" THEN 0 ELSE 1)
          /\ Key(e)[6] = (IF e.layer = "ssap" THEN 0 ELSE 1)
      BY <2>2, KeyFacts
    <3>2. (IF h.layer = "ssap" THEN 0 ELSE 1)
            = (IF e.layer = "ssap" THEN 0 ELSE 1)
      BY <2>1, <3>1, Zenon
    <3> QED  BY <3>2, SameLayer, Zenon
  <2>5. CASE h.layer = "ssap"
    <3>1. h = SsapHit(s, points, h.nth)
      BY <1>8, <2>5
    <3>2. e = SsapHit(s, points, e.nth)
      BY <1>8, <2>4, <2>5
    <3> QED  BY <2>3, <3>1, <3>2
  <2>6. CASE h.layer # "ssap"
    <3>1. h = RclHit(s, roads, h.nth)
      BY <1>8, <2>6
    <3>2. e = RclHit(s, roads, e.nth)
      BY <1>8, <2>4, <2>6
    <3> QED  BY <2>3, <3>1, <3>2
  <2> QED  BY <2>5, <2>6
<1>10. Sortable(found)
  BY <1>5, <1>8, <1>9 DEF Sortable
<1> QED  BY <1>8, <1>10, Zenon DEF found

-----------------------------------------------------------------------------
(***************************************************************************)
(* The answer to a request                                                 *)
(***************************************************************************)
(* The inductive invariant: what is remembered of a request is the search  *)
(* of its shape in the two layers and the answers that makes.              *)
SearchInv ==
  /\ ssap \in Seq(AddressPoint) /\ rcl \in Seq(Centerline)
  /\ \/ shape = Unasked /\ ordered = <<>> /\ listed = <<>>
     \/ /\ shape \in Shape
        /\ ordered = Search(shape, ssap, rcl)
        /\ listed = Answers(shape, ordered, ssap, rcl)

(* A request is answered from the layers it was asked of. *)
LEMMA SearchesAreConsistent == Spec => []SearchInv
<1>1. Init => SearchInv
  <2> SUFFICES ASSUME Init PROVE SearchInv
    OBVIOUS
  <2>1. PICK l \in Layers : ssap = l.ssap /\ rcl = l.rcl
    BY DEF Init
  <2>2. ssap \in Seq(AddressPoint) /\ rcl \in Seq(Centerline)
    BY <2>1, ReverseAssumption
  <2> QED  BY <2>2, Zenon DEF Init, SearchInv
<1>2. SearchInv /\ [Next]_vars => SearchInv'
  <2> SUFFICES ASSUME SearchInv, [Next]_vars PROVE SearchInv'
    OBVIOUS
  <2>1. ASSUME NEW s \in Inputs, ReverseGeocode(s)
        PROVE  SearchInv'
    <3>1. s \in Shape
      BY ReverseAssumption
    <3>2. ssap' = ssap /\ rcl' = rcl /\ shape' = s
      BY <2>1 DEF ReverseGeocode
    <3>3. ordered' = Search(shape', ssap', rcl')
      BY <2>1, <3>2, Zenon DEF ReverseGeocode
    <3>4. listed' = Answers(shape', ordered', ssap', rcl')
      BY <2>1, <3>2, Zenon DEF ReverseGeocode
    <3>5. ssap' \in Seq(AddressPoint) /\ rcl' \in Seq(Centerline)
      BY <3>2 DEF SearchInv
    <3>6. shape' \in Shape
      BY <3>1, <3>2
    <3> QED  BY <3>3, <3>4, <3>5, <3>6, Zenon DEF SearchInv
  <2>2. CASE UNCHANGED vars
    <3>1. /\ ssap' = ssap /\ rcl' = rcl /\ shape' = shape
          /\ ordered' = ordered /\ listed' = listed
      BY <2>2 DEF vars
    <3> QED  BY <3>1, Zenon DEF SearchInv
  <2> QED  BY <2>1, <2>2, Zenon DEF Next
<1> QED  BY <1>1, <1>2, PTL DEF Spec

(* The first key two hits differ in decides. *)
LEMMA KeysDecide ==
  ASSUME NEW h, NEW g, IsHit(h), IsHit(g), NEW i \in 1 .. 7,
         \A j \in 1 .. (i - 1) : Key(h)[j] = Key(g)[j]
  PROVE  /\ Key(h)[i] < Key(g)[i] => Before(h, g)
         /\ Before(h, g) => Key(h)[i] <= Key(g)[i]
<1> DEFINE a == Key(h)
           b == Key(g)
<1>1. a \in [1 .. 7 -> Int] /\ b \in [1 .. 7 -> Int]
  BY KeyFacts
<1>2. Before(h, g) <=>
        \E k \in 1 .. 7 : a[k] < b[k] /\ \A j \in 1 .. (k - 1) : a[j] = b[j]
  BY BeforeByKey
<1>3. \A j \in 1 .. (i - 1) : a[j] = b[j]
  OBVIOUS
<1> HIDE DEF a, b
<1>4. a[i] < b[i] => Before(h, g)
  BY <1>2, <1>3
<1>5. ASSUME Before(h, g)
      PROVE  a[i] <= b[i]
  <2>1. PICK k \in 1 .. 7 :
          a[k] < b[k] /\ \A j \in 1 .. (k - 1) : a[j] = b[j]
    BY <1>2, <1>5
  <2>2. ~(k < i)
    BY <1>1, <1>3, <2>1
  <2>3. CASE k = i
    BY <1>1, <2>1, <2>3
  <2>4. CASE i < k
    BY <1>1, <2>1, <2>4
  <2> QED  BY <2>2, <2>3, <2>4
<1> QED  BY <1>4, <1>5 DEF a, b

(* Numbers that hold with each all the smaller ones are the first ones. *)
LEMMA FirstOnes ==
  ASSUME NEW n \in Nat, NEW S \in SUBSET (1 .. n),
         \A i \in S : \A j \in 1 .. n : j < i => j \in S
  PROVE  S = 1 .. Cardinality(S) /\ Cardinality(S) \in Nat
<1> DEFINE T == (1 .. (n + 1)) \ S
<1>1. T # {} /\ T \subseteq Nat
  OBVIOUS
<1>2. PICK m \in T : \A k \in T : m <= k
  <2> HIDE DEF T
  <2> QED  BY <1>1, LeastExists
<1>3. S = 1 .. (m - 1)
  <2>1. ASSUME NEW i \in 1 .. (m - 1)
        PROVE  i \in S
    BY <1>2
  <2>2. ASSUME NEW i \in S
        PROVE  i \in 1 .. (m - 1)
    BY <1>2
  <2> QED  BY <2>1, <2>2
<1>4. Cardinality(1 .. (m - 1)) = m - 1 /\ m - 1 \in Nat
  BY <1>2, FS_Interval
<1> QED  BY <1>3, <1>4

(* So many first ones are that many. *)
LEMMA FirstAreMany ==
  ASSUME NEW n \in Nat
  PROVE  Cardinality(1 .. n) = n
BY FS_Interval

(* Where the first ones of a list are contained, narrowing keeps these. *)
LEMMA NarrowedFacts ==
  ASSUME NEW s, NEW V, NEW hits \in Seq(V), NEW n \in Nat,
         {i \in DOMAIN hits : hits[i].contained} = 1 .. n
  PROVE  LET kept == IF HasExtent(s) /\ n > 0 THEN n ELSE Len(hits)
         IN  /\ Narrowed(s, hits) = SubSeq(hits, 1, kept)
             /\ kept \in Nat /\ kept <= Len(hits)
<1> DEFINE held == {i \in DOMAIN hits : hits[i].contained}
           nth(k) == CHOOSE i \in held :
                       Cardinality({j \in held : j < i}) = k - 1
           few == [k \in 1 .. Cardinality(held) |-> hits[nth(k)]]
<1>1. /\ Len(hits) \in Nat /\ DOMAIN hits = 1 .. Len(hits)
  BY LenProperties
<1>2. held = 1 .. n
  OBVIOUS
<1>3. n <= Len(hits)
  <2>1. \A i \in 1 .. n : i \in 1 .. Len(hits)
    BY <1>1, <1>2
  <2> QED  BY <1>1, <2>1
<1>4. Cardinality(held) = n
  <2> HIDE DEF held
  <2> QED  BY <1>2, FirstAreMany
<1>5. ASSUME NEW k \in 1 .. n
      PROVE  nth(k) = k
  <2>1. ASSUME NEW i \in 1 .. n
        PROVE  Cardinality({j \in held : j < i}) = i - 1
    <3>1. {j \in held : j < i} = 1 .. (i - 1)
      BY <1>2
    <3>2. i - 1 \in Nat
      OBVIOUS
    <3> HIDE DEF held
    <3> QED  BY <3>1, <3>2, FirstAreMany
  <2> HIDE DEF held
  <2>2. /\ k \in held /\ Cardinality({j \in held : j < k}) = k - 1
    BY <1>2, <2>1
  <2>3. /\ nth(k) \in held
        /\ Cardinality({j \in held : j < nth(k)}) = k - 1
    BY <2>2
  <2> HIDE DEF nth
  <2>4. nth(k) \in 1 .. n /\ nth(k) - 1 = k - 1
    BY <1>2, <2>1, <2>3
  <2> QED  BY <2>4
<1>6. few = [k \in 1 .. n |-> hits[k]]
  <2> HIDE DEF held, nth
  <2> QED  BY <1>4, <1>5
<1>7. Narrowed(s, hits) = IF HasExtent(s) /\ held # {} THEN few ELSE hits
  BY Zenon DEF Narrowed
<1>8. held # {} <=> n > 0
  BY <1>2
<1> HIDE DEF held, few
<1>9. SubSeq(hits, 1, n) = [k \in 1 .. n |-> hits[k]]
  BY <1>1, <1>3
<1>10. SubSeq(hits, 1, Len(hits)) = hits
  BY <1>1
<1> QED  BY <1>1, <1>3, <1>6, <1>7, <1>8, <1>9, <1>10

(* A request that was answered has its hits in order. *)
LEMMA AskedFacts ==
  ASSUME SearchInv, Asked
  PROVE  /\ shape \in Shape /\ ssap \in Seq(AddressPoint)
         /\ rcl \in Seq(Centerline)
         /\ Sortable(Found(shape, ssap, rcl))
         /\ ordered = Order(Found(shape, ssap, rcl))
         /\ listed = Answers(shape, ordered, ssap, rcl)
<1>1. /\ shape \in Shape /\ ssap \in Seq(AddressPoint)
      /\ rcl \in Seq(Centerline)
      /\ ordered = Search(shape, ssap, rcl)
      /\ listed = Answers(shape, ordered, ssap, rcl)
  BY Zenon DEF SearchInv, Asked
<1>2. Sortable(Found(shape, ssap, rcl))
  BY <1>1, FoundFacts
<1> QED  BY <1>1, <1>2, Zenon DEF Search, Found

(* What is listed are the hits that were kept, in their order. *)
LEMMA ListedHits ==
  ASSUME listed = Answers(shape, ordered, ssap, rcl),
         NEW V, Narrowed(shape, ordered) \in Seq(V)
  PROVE  Hits = Narrowed(shape, ordered)
<1> DEFINE kept == Narrowed(shape, ordered)
<1>1. listed = [i \in DOMAIN kept |-> Answer(kept[i], ssap, rcl)]
  BY Zenon DEF Answers
<1>2. kept \in Seq(V)
  OBVIOUS
<1> HIDE DEF kept
<1>3. \A i \in DOMAIN kept : listed[i].hit = kept[i]
  BY <1>1 DEF Answer
<1>4. Hits = [i \in DOMAIN kept |-> kept[i]]
  BY <1>1, <1>3 DEF Hits
<1>5. kept = [i \in DOMAIN kept |-> kept[i]]
  BY <1>2
<1> QED  BY <1>4, <1>5 DEF kept

(* What a shape contains comes first, and narrowing keeps a prefix.        *)
LEMMA ContainedIsPrefix ==
  ASSUME SearchInv, Asked
  PROVE  LET S    == Found(shape, ssap, rcl)
             held == {i \in DOMAIN ordered : ordered[i].contained}
             n    == Cardinality(held)
             last == IF HasExtent(shape) /\ n > 0 THEN n ELSE Len(ordered)
         IN  /\ held = 1 .. n /\ n \in Nat
             /\ Narrowed(shape, ordered) = SubSeq(ordered, 1, last)
             /\ Narrowed(shape, ordered) \in Seq(S)
             /\ Hits = Narrowed(shape, ordered)
<1> DEFINE S    == Found(shape, ssap, rcl)
           size == Cardinality(S)
           held == {i \in DOMAIN ordered : ordered[i].contained}
           n    == Cardinality(held)
           last == IF HasExtent(shape) /\ n > 0 THEN n ELSE Len(ordered)
<1>1. /\ Sortable(S) /\ ordered = Order(S)
      /\ listed = Answers(shape, ordered, ssap, rcl)
  BY AskedFacts, Zenon
<1> HIDE DEF S
<1>2. /\ size \in Nat /\ DOMAIN ordered = 1 .. size
      /\ ordered \in Seq(S) /\ Len(ordered) = size
      /\ \A i, j \in 1 .. size : Before(ordered[i], ordered[j]) <=> i < j
  BY <1>1, OrderFacts, Zenon
<1>3. \A i \in 1 .. size : IsHit(ordered[i])
  BY <1>1, <1>2 DEF Sortable
<1> HIDE DEF size
<1>4. \A i \in held : \A j \in 1 .. size : j < i => j \in held
  <2> SUFFICES ASSUME NEW i \in held, NEW j \in 1 .. size, j < i
               PROVE  j \in held
    OBVIOUS
  <2> DEFINE h == ordered[j]
             g == ordered[i]
  <2>1. IsHit(h) /\ IsHit(g) /\ Before(h, g) /\ g.contained
    BY <1>2, <1>3
  <2> HIDE DEF h, g
  <2>2. Key(h)[1] <= Key(g)[1]
    <3>1. 1 \in 1 .. 7 /\ 1 .. (1 - 1) = {}
      OBVIOUS
    <3>2. \A k \in 1 .. (1 - 1) : Key(h)[k] = Key(g)[k]
      BY <3>1
    <3> QED  BY <2>1, <3>1, <3>2, KeysDecide, Zenon
  <2>3. h.contained
    <3>1. /\ Key(h)[1] = (IF h.contained THEN 0 ELSE 1)
          /\ Key(g)[1] = (IF g.contained THEN 0 ELSE 1)
      BY <2>1, KeyFacts
    <3> QED  BY <2>1, <2>2, <3>1
  <2> QED  BY <1>2, <2>3 DEF h
<1>5. held = 1 .. n /\ n \in Nat
  <2>1. held \in SUBSET (1 .. size)
    BY <1>2
  <2> HIDE DEF held
  <2> QED  BY <1>2, <1>4, <2>1, FirstOnes
<1>6. /\ Narrowed(shape, ordered) = SubSeq(ordered, 1, last)
      /\ last \in Nat /\ last <= Len(ordered)
  <2>1. held = 1 .. n /\ n \in Nat
    BY <1>5
  <2>2. {i \in DOMAIN ordered : ordered[i].contained} = 1 .. n
    BY <2>1
  <2> HIDE DEF n, held
  <2> QED  BY <1>2, <2>1, <2>2, NarrowedFacts, Zenon
<1>7. Narrowed(shape, ordered) \in Seq(S)
  <2> HIDE DEF last
  <2> QED  BY <1>2, <1>6, SubSeqProperties
<1>8. Hits = Narrowed(shape, ordered)
  BY <1>1, <1>7, ListedHits
<1> HIDE DEF held
<1> QED  BY <1>5, <1>6, <1>7, <1>8, Zenon DEF held, S

(***************************************************************************)
(* What a shape contains comes first, precision decides its order within a *)
(* band, and narrowing keeps a prefix of the list.                         *)
(***************************************************************************)
THEOREM TheContainedComeFirst == Spec => []ContainedComeFirst
<1>1. SearchInv => ContainedComeFirst
  <2> SUFFICES ASSUME SearchInv PROVE ContainedComeFirst
    OBVIOUS
  <2> DEFINE held == {i \in DOMAIN ordered : ordered[i].contained}
             n == Cardinality(held)
             last == IF Asked /\ HasExtent(shape) /\ n > 0
                     THEN n ELSE Len(ordered)
  <2>1. CASE ~Asked
    <3>1. ordered = <<>> /\ listed = <<>>
      BY <2>1 DEF SearchInv, Asked, Shape, Unasked, Points, Circles, Spheres,
                  Ellipses, Ellipsoids, ArcBands, Polygons, Prisms
    <3>2. held = {} /\ n = 0
      BY <3>1, FS_EmptySet
    <3>3. last = 0
      BY <2>1, <3>1
    <3> HIDE DEF held, n, last
    <3>4. Hits = <<>>
      BY <3>1 DEF Hits
    <3>5. SubSeq(ordered, 1, last) = <<>>
      BY <3>3, SubSeqEmpty
    <3>6. \A i \in DOMAIN ordered : ordered[i].contained <=> i <= n
      BY <3>1
    <3>7. \A i, j \in 1 .. n : i < j
      BY <3>2
    <3> QED
      BY <3>4, <3>5, <3>6, <3>7, Zenon DEF ContainedComeFirst, held, n, last
  <2>2. CASE Asked
    <3> DEFINE S == Found(shape, ssap, rcl)
               size == Cardinality(S)
    <3>1. /\ shape \in Shape /\ ssap \in Seq(AddressPoint)
          /\ rcl \in Seq(Centerline)
          /\ Sortable(S) /\ ordered = Order(S)
          /\ listed = Answers(shape, ordered, ssap, rcl)
      BY <2>2, AskedFacts, Zenon
    <3> HIDE DEF S
    <3>2. /\ size \in Nat /\ DOMAIN ordered = 1 .. size
          /\ ordered \in Seq(S) /\ Len(ordered) = size
          /\ \A i, j \in 1 .. size : Before(ordered[i], ordered[j]) <=> i < j
      BY <3>1, OrderFacts, Zenon
    <3>3. \A i \in 1 .. size : IsHit(ordered[i])
      BY <3>1, <3>2 DEF Sortable
    <3> HIDE DEF size
    <3>4. held = 1 .. n /\ n \in Nat
      BY <2>2, ContainedIsPrefix, Zenon
    <3>5. \A i \in DOMAIN ordered : ordered[i].contained <=> i <= n
      <4>1. \A i \in DOMAIN ordered : ordered[i].contained <=> i \in held
        OBVIOUS
      <4> HIDE DEF held, n
      <4> QED  BY <3>2, <3>4, <4>1
    <3>7. Hits = SubSeq(ordered, 1, last)
      <4> DEFINE kept == IF HasExtent(shape) /\ n > 0
                         THEN n ELSE Len(ordered)
      <4>1. Hits = SubSeq(ordered, 1, kept)
        BY <2>2, ContainedIsPrefix, Zenon
      <4>2. kept = last
        BY <2>2
      <4> QED  BY <4>1, <4>2, Zenon
    <3>8. ASSUME NEW i \in 1 .. n, NEW j \in 1 .. n,
                 ordered[i].banded = ordered[j].banded,
                 Precision(ordered[i].tier) > Precision(ordered[j].tier)
          PROVE  i < j
      <4> DEFINE h == ordered[i]
                 g == ordered[j]
      <4>1. i \in held /\ j \in held
        <5> HIDE DEF held, n
        <5> QED  BY <3>4
      <4>2. /\ i \in 1 .. size /\ j \in 1 .. size
            /\ h.contained /\ g.contained
        <5> HIDE DEF n
        <5>1. /\ i \in DOMAIN ordered /\ j \in DOMAIN ordered
              /\ h.contained /\ g.contained
          BY <4>1
        <5> QED  BY <3>2, <5>1
      <4>3. IsHit(h) /\ IsHit(g)
        BY <3>3, <4>2
      <4>4. h.banded = g.banded /\ Precision(h.tier) > Precision(g.tier)
        BY <3>8
      <4> HIDE DEF h, g, held, n
      <4>5. Key(h)[1] = Key(g)[1]
        BY <4>2, <4>3, KeyFacts
      <4>6. Key(h)[2] = Key(g)[2]
        BY <4>3, <4>4, KeyFacts
      <4>7. Key(h)[3] < Key(g)[3]
        BY <4>2, <4>3, <4>4, KeyFacts DEF Precision
      <4>8. \A k \in 1 .. (3 - 1) : Key(h)[k] = Key(g)[k]
        <5>1. \A k \in 1 .. (3 - 1) : k = 1 \/ k = 2
          OBVIOUS
        <5> QED  BY <4>5, <4>6, <5>1
      <4>9. Before(h, g)
        <5>1. 3 \in 1 .. 7
          OBVIOUS
        <5> QED  BY <4>3, <4>7, <4>8, <5>1, KeysDecide
      <4> QED  BY <3>2, <4>2, <4>9 DEF h, g
    <3> HIDE DEF held, n, last
    <3>9. \A i, j \in 1 .. n :
             /\ ordered[i].banded = ordered[j].banded
             /\ Precision(ordered[i].tier) > Precision(ordered[j].tier)
             => i < j
      BY <3>8
    <3> QED
      BY <3>5, <3>7, <3>9, Zenon DEF ContainedComeFirst, held, n, last
  <2> QED  BY <2>1, <2>2
<1> QED  BY <1>1, SearchesAreConsistent, PTL

-----------------------------------------------------------------------------
(***************************************************************************)
(* A Point orders by proximity                                             *)
(***************************************************************************)
(* A Point has no extent and contains nothing. *)
LEMMA PointFacts ==
  ASSUME NEW s, s.kind = "Point"
  PROVE  ~HasExtent(s) /\ \A p : ~Covers(s, p)
BY DEF HasExtent, Extent2, Covers

(* The places of a path are those of its legs. *)
LEMMA UnionOfPlaces ==
  ASSUME NEW path, NEW p
  PROVE  p \in PlacesOf(path) <=>
           \E i \in Legs(path) : p \in OnLeg(path[i], path[i + 1])
BY DEF PlacesOf

(* A place is provisioned by an address point or by a centerline. *)
LEMMA WhatIsProvisioned ==
  ASSUME NEW p
  PROVE  p \in Provisioned <=>
           \/ \E i \in DOMAIN ssap : p \in ssap[i].places
           \/ \E i \in {j \in DOMAIN rcl : OnePart(rcl[j])} :
                p \in PlacesOf(rcl[i].path)
BY DEF Provisioned

(* A hit is on a place of its layer, at its distance. *)
LEMMA HitsAreProvisioned ==
  ASSUME SearchInv, Asked, NEW h \in Found(shape, ssap, rcl)
  PROVE  /\ h.at \in Provisioned
         /\ h.distance2 = Distance2(Origin(shape), h.at)
         /\ h.contained => Covers(shape, h.at)
<1>1. /\ shape \in Shape /\ ssap \in Seq(AddressPoint)
      /\ rcl \in Seq(Centerline)
  BY AskedFacts
<1>2. \/ /\ h.nth \in DOMAIN ssap /\ ssap[h.nth].places # {}
         /\ h = SsapHit(shape, ssap, h.nth)
      \/ /\ h.nth \in DOMAIN rcl /\ OnePart(rcl[h.nth])
         /\ h = RclHit(shape, rcl, h.nth)
  BY <1>1, FoundFacts
<1> DEFINE i == h.nth
<1> HIDE DEF i
<1>3. ASSUME i \in DOMAIN ssap, ssap[i].places # {},
             h = SsapHit(shape, ssap, i)
      PROVE  /\ h.at \in Provisioned
             /\ h.distance2 = Distance2(Origin(shape), h.at)
             /\ h.contained => Covers(shape, h.at)
  <2>1. /\ h.at \in ssap[i].places
        /\ h.distance2 = Distance2(Origin(shape), h.at)
        /\ h.contained <=> Covers(shape, h.at)
    BY <1>1, <1>3, SsapHitFacts
  <2>2. h.at \in Provisioned
    BY <1>3, <2>1, WhatIsProvisioned
  <2> QED  BY <2>1, <2>2
<1>4. ASSUME i \in DOMAIN rcl, OnePart(rcl[i]), h = RclHit(shape, rcl, i)
      PROVE  /\ h.at \in Provisioned
             /\ h.distance2 = Distance2(Origin(shape), h.at)
             /\ h.contained => Covers(shape, h.at)
  <2> DEFINE path == rcl[i].path
             o == Origin(shape)
  <2>1. /\ h.contained <=> Covers(shape, h.at)
        /\ h.distance2 = Distance2(o, h.at)
        /\ \E leg \in Legs(path) : h.at = Closest(path, leg, o)
    BY <1>1, <1>4, RclHitFacts
  <2>2. PICK leg \in Legs(path) : h.at = Closest(path, leg, o)
    BY <2>1
  <2>3. path \in Seq(Place) /\ OnGround(o)
    <3>1. rcl[i] \in Centerline
      BY <1>1, <1>4
    <3> QED  BY <1>1, <3>1, OriginType DEF Centerline
  <2> HIDE DEF path, o
  <2>4. /\ Closest(path, leg, o).x \in Low(path[leg].x, path[leg + 1].x)
                                         .. High(path[leg].x, path[leg + 1].x)
        /\ Closest(path, leg, o).y \in Low(path[leg].y, path[leg + 1].y)
                                         .. High(path[leg].y, path[leg + 1].y)
    BY <2>3, ClosestFacts
  <2>5. Closest(path, leg, o) = [x |-> Closest(path, leg, o).x,
                                 y |-> Closest(path, leg, o).y,
                                 z |-> NoAltitude]
    BY DEF Closest
  <2> DEFINE c == Closest(path, leg, o)
  <2>6. c \in OnLeg(path[leg], path[leg + 1])
    <3> HIDE DEF c
    <3> QED  BY <2>4, <2>5 DEF OnLeg, c
  <2>7. c \in PlacesOf(path)
    <3> HIDE DEF c
    <3> QED  BY <2>6, UnionOfPlaces
  <2>9. h.at \in Provisioned
    <3>1. i \in {j \in DOMAIN rcl : OnePart(rcl[j])}
      BY <1>4
    <3>2. h.at \in PlacesOf(rcl[i].path)
      BY <2>2, <2>7 DEF path, c
    <3> QED  BY <3>1, <3>2, WhatIsProvisioned
  <2> QED  BY <2>1, <2>9, Zenon DEF o
<1> QED  BY <1>2, <1>3, <1>4, Zenon DEF i

(* Each place of the layers has a record whose hit is no farther away.     *)
LEMMA NothingIsNearer ==
  ASSUME SearchInv, Asked, NEW p \in Provisioned
  PROVE  /\ Distance2(Origin(shape), p) \in Nat
         /\ \E h : /\ h.distance2 \in Nat
                   /\ h.distance2 <= Distance2(Origin(shape), p)
                   /\ Near(h.distance2) => h \in Found(shape, ssap, rcl)
<1> DEFINE o == Origin(shape)
           away == Distance2(o, p)
<1>1. /\ shape \in Shape /\ ssap \in Seq(AddressPoint)
      /\ rcl \in Seq(Centerline) /\ OnGround(o)
  BY AskedFacts, OriginType
<1>2. ASSUME NEW i \in DOMAIN ssap, p \in ssap[i].places
      PROVE  /\ away \in Nat
             /\ \E h : /\ h.distance2 \in Nat /\ h.distance2 <= away
                       /\ Near(h.distance2) => h \in Found(shape, ssap, rcl)
  <2> DEFINE h == SsapHit(shape, ssap, i)
  <2>1. ssap[i].places # {}
    BY <1>2
  <2>2. h = SsapHit(shape, ssap, i)
    OBVIOUS
  <2> HIDE DEF h
  <2>3. /\ h.distance2 \in Nat /\ h.distance2 = Distance2(Origin(shape), h.at)
        /\ \A q \in ssap[i].places : q = h.at
    BY <1>1, <2>1, <2>2, SsapHitFacts
  <2>4. h.distance2 = away
    BY <1>2, <2>3
  <2>5. Near(h.distance2) => h \in Found(shape, ssap, rcl)
    <3>1. i \in {j \in DOMAIN ssap : ssap[j].places # {}}
      BY <2>1
    <3> QED  BY <2>2, <3>1 DEF Found, SsapHits
  <2> HIDE DEF away
  <2>6. h.distance2 <= away /\ away \in Nat
    BY <2>3, <2>4
  <2> QED  BY <2>3, <2>5, <2>6, Zenon
<1>3. ASSUME NEW i \in DOMAIN rcl, OnePart(rcl[i]), p \in PlacesOf(rcl[i].path)
      PROVE  /\ away \in Nat
             /\ \E h : /\ h.distance2 \in Nat /\ h.distance2 <= away
                       /\ Near(h.distance2) => h \in Found(shape, ssap, rcl)
  <2> DEFINE h == RclHit(shape, rcl, i)
             path == rcl[i].path
  <2>1. h = RclHit(shape, rcl, i)
    OBVIOUS
  <2>2. path \in Seq(Place)
    <3>1. rcl[i] \in Centerline
      BY <1>1
    <3> QED  BY <3>1 DEF Centerline
  <2>3. PICK leg \in Legs(path) : p \in OnLeg(path[leg], path[leg + 1])
    BY <1>3, UnionOfPlaces
  <2> HIDE DEF h
  <2>4. /\ h.distance2 \in Nat
        /\ h.distance2 <= Distance2(Origin(shape),
                                    Closest(path, leg, Origin(shape)))
    BY <1>1, <1>3, <2>1, RclHitFacts
  <2> HIDE DEF path, o
  <2> DEFINE X == Low(path[leg].x, path[leg + 1].x)
                    .. High(path[leg].x, path[leg + 1].x)
             Y == Low(path[leg].y, path[leg + 1].y)
                    .. High(path[leg].y, path[leg + 1].y)
             d == Distance2(o, Closest(path, leg, o))
  <2>5. d \in Nat /\ \A x \in X, y \in Y :
          d <= Distance2(o, [x |-> x, y |-> y, z |-> NoAltitude])
    BY <1>1, <2>2, ClosestFacts
  <2>6. X \subseteq Int /\ Y \subseteq Int
    <3>1. path[leg] \in Place /\ path[leg + 1] \in Place
      BY <2>2 DEF Legs
    <3>2. /\ path[leg].x \in Int /\ path[leg + 1].x \in Int
          /\ path[leg].y \in Int /\ path[leg + 1].y \in Int
      BY <3>1, PlaceFacts
    <3> QED  BY <3>2 DEF Low, High
  <2>7. /\ p.x \in X /\ p.y \in Y
        /\ p = [x |-> p.x, y |-> p.y, z |-> NoAltitude]
    BY <2>3 DEF OnLeg
  <2> HIDE DEF X, Y
  <2>8. OnGround(p)
    BY <2>6, <2>7 DEF OnGround
  <2>9. away \in Nat
    BY <1>1, <2>8, DistanceFacts
  <2>10. d <= away
    BY <2>5, <2>7
  <2>11. h.distance2 <= d
    BY <2>4 DEF o
  <2>12. Near(h.distance2) => h \in Found(shape, ssap, rcl)
    <3>1. i \in {j \in DOMAIN rcl : OnePart(rcl[j])}
      BY <1>3
    <3> QED  BY <2>1, <3>1 DEF Found, RclHits
  <2> HIDE DEF away, d
  <2>13. h.distance2 <= away
    BY <2>4, <2>5, <2>9, <2>10, <2>11
  <2> QED  BY <2>4, <2>9, <2>12, <2>13, Zenon
<1>4. \/ \E i \in DOMAIN ssap : p \in ssap[i].places
      \/ \E i \in DOMAIN rcl : OnePart(rcl[i]) /\ p \in PlacesOf(rcl[i].path)
  BY WhatIsProvisioned
<1> HIDE DEF away
<1>5. /\ away \in Nat
      /\ \E h : /\ h.distance2 \in Nat /\ h.distance2 <= away
                /\ Near(h.distance2) => h \in Found(shape, ssap, rcl)
  BY <1>2, <1>3, <1>4, Zenon
<1> QED  BY <1>5, Zenon DEF away, o

(***************************************************************************)
(* For a Point nothing of either layer is nearer than rank 1, unless that  *)
(* one is at the Point's own altitude, and no answer means nothing near.   *)
(***************************************************************************)
THEOREM APointOrdersByProximity == Spec => []NearestForAPoint
<1>1. SearchInv => NearestForAPoint
  <2> SUFFICES ASSUME SearchInv, Asked, shape.kind = "Point"
               PROVE  NearestForAPoint
    BY Zenon DEF NearestForAPoint
  <2> DEFINE S == Found(shape, ssap, rcl)
             size == Cardinality(S)
             o == Origin(shape)
  <2>1. /\ Sortable(S) /\ ordered = Order(S)
        /\ listed = Answers(shape, ordered, ssap, rcl)
    BY AskedFacts, Zenon
  <2>2. \A h \in S : /\ IsHit(h) /\ h.distance2 \in Nat /\ Near(h.distance2)
                     /\ ~h.contained
                     /\ h.at \in Provisioned
                     /\ h.distance2 = Distance2(o, h.at)
    <3> SUFFICES ASSUME NEW h \in S
                 PROVE  /\ IsHit(h) /\ h.distance2 \in Nat
                        /\ Near(h.distance2) /\ ~h.contained
                        /\ h.at \in Provisioned
                        /\ h.distance2 = Distance2(o, h.at)
      OBVIOUS
    <3>1. IsHit(h) /\ h.distance2 \in Nat /\ Near(h.distance2)
      BY AskedFacts, FoundFacts
    <3>2. ~h.contained
      BY HitsAreProvisioned, PointFacts
    <3> QED  BY <3>1, <3>2, HitsAreProvisioned
  <2>3. \A p \in Provisioned :
          /\ Distance2(o, p) \in Nat
          /\ \E h : /\ h.distance2 \in Nat /\ h.distance2 <= Distance2(o, p)
                    /\ Near(h.distance2) => h \in S
    BY NothingIsNearer, Zenon
  <2> HIDE DEF S
  <2>4. /\ size \in Nat /\ DOMAIN ordered = 1 .. size
        /\ ordered \in [1 .. size -> S]
        /\ \A h \in S : \E i \in 1 .. size : ordered[i] = h
        /\ \A i, j \in 1 .. size : Before(ordered[i], ordered[j]) <=> i < j
    BY <2>1, OrderFacts, Zenon
  <2> HIDE DEF size, o
  <2>5. listed = [i \in 1 .. size |-> Answer(ordered[i], ssap, rcl)]
    <3>1. Narrowed(shape, ordered) = ordered
      BY PointFacts, Zenon DEF Narrowed
    <3> QED  BY <2>1, <2>4, <3>1, Zenon DEF Answers
  <2>6. listed = <<>> <=> S = {}
    <3>1. listed = <<>> <=> size = 0
      BY <2>4, <2>5
    <3>2. S = {} <=> size = 0
      <4>1. size = 0 => S = {}
        BY <2>4
      <4>2. S = {} => size = 0
        BY <2>4
      <4> QED  BY <4>1, <4>2
    <3> QED  BY <3>1, <3>2
  <2>7. Square(Radius) \in Int
    BY ReverseAssumption, SquareFacts
  <2>8. listed = <<>> <=> \A p \in Provisioned : ~Near(Distance2(o, p))
    <3>1. ASSUME S = {}, NEW p \in Provisioned
          PROVE  ~Near(Distance2(o, p))
      <4>1. PICK h : /\ h.distance2 \in Nat /\ h.distance2 <= Distance2(o, p)
                     /\ Near(h.distance2) => h \in S
        BY <2>3
      <4>2. ~Near(h.distance2)
        BY <3>1, <4>1
      <4> QED  BY <2>3, <2>7, <4>1, <4>2 DEF Near
    <3>2. ASSUME NEW h \in S
          PROVE  \E p \in Provisioned : Near(Distance2(o, p))
      <4>1. h.at \in Provisioned /\ Near(Distance2(o, h.at))
        BY <2>2
      <4> QED  BY <4>1
    <3> QED  BY <2>6, <3>1, <3>2
  <2>9. ASSUME NEW p \in Provisioned, listed # <<>>
        PROVE  \/ listed[1].hit.distance2 <= Distance2(o, p)
               \/ listed[1].hit.banded
    <3> DEFINE f == ordered[1]
    <3>1. 1 \in 1 .. size
      <4>1. size # 0
        BY <2>4, <2>5, <2>9
      <4> QED  BY <2>4, <4>1
    <3>2. f \in S /\ listed[1].hit = f
      BY <2>4, <2>5, <3>1 DEF Answer
    <3> HIDE DEF f
    <3>3. Distance2(o, p) \in Nat
      BY <2>3
    <3>4. PICK h : /\ h.distance2 \in Nat /\ h.distance2 <= Distance2(o, p)
                   /\ Near(h.distance2) => h \in S
      BY <2>3
    <3>5. /\ IsHit(f) /\ f.distance2 \in Nat /\ Near(f.distance2)
          /\ ~f.contained
      BY <2>2, <3>2
    <3>6. CASE ~Near(h.distance2)
      <4>1. f.distance2 <= h.distance2
        BY <2>7, <3>4, <3>5, <3>6 DEF Near
      <4> QED  BY <3>2, <3>3, <3>4, <3>5, <4>1
    <3>7. CASE h \in S /\ ~f.banded
      <4>1. IsHit(h) /\ ~h.contained
        BY <2>2, <3>7
      <4>2. h = f \/ Before(f, h)
        <5>1. PICK i \in 1 .. size : ordered[i] = h
          BY <2>4, <3>7
        <5>2. i = 1 \/ 1 < i
          OBVIOUS
        <5>3. 1 < i => Before(ordered[1], ordered[i])
          BY <2>4, <3>1
        <5> QED  BY <5>1, <5>2, <5>3 DEF f
      <4>3. ASSUME Before(f, h)
            PROVE  f.distance2 <= h.distance2
        <5>1. Key(f)[1] = 1 /\ Key(h)[1] = 1 /\ Key(f)[2] = 1
              /\ Key(f)[3] = 0 /\ Key(h)[3] = 0
          BY <3>5, <3>7, <4>1, KeyFacts
        <5>2. Key(h)[2] = (IF h.banded THEN 0 ELSE 1)
          BY <4>1, KeyFacts
        <5>3. Key(f)[4] = f.distance2 /\ Key(h)[4] = h.distance2
          BY <3>5, <4>1, KeyFacts
        <5>4. Key(f)[2] <= Key(h)[2]
          <6>1. \A k \in 1 .. (2 - 1) : Key(f)[k] = Key(h)[k]
            <7>1. \A k \in 1 .. (2 - 1) : k = 1
              OBVIOUS
            <7> QED  BY <5>1, <7>1
          <6>2. 2 \in 1 .. 7
            OBVIOUS
          <6> QED  BY <3>5, <4>1, <4>3, <6>1, <6>2, KeysDecide, Zenon
        <5>5. Key(h)[2] = Key(f)[2]
          BY <5>1, <5>2, <5>4
        <5>6. Key(f)[4] <= Key(h)[4]
          <6>1. \A k \in 1 .. (4 - 1) : Key(f)[k] = Key(h)[k]
            <7>1. \A k \in 1 .. (4 - 1) : k = 1 \/ k = 2 \/ k = 3
              OBVIOUS
            <7> QED  BY <5>1, <5>5, <7>1
          <6>2. 4 \in 1 .. 7
            OBVIOUS
          <6> QED  BY <3>5, <4>1, <4>3, <6>1, <6>2, KeysDecide, Zenon
        <5> QED  BY <5>3, <5>6
      <4>4. f.distance2 <= h.distance2
        BY <3>5, <4>2, <4>3
      <4> QED  BY <3>2, <3>3, <3>4, <3>5, <4>4
    <3>8. CASE f.banded
      BY <3>2, <3>8
    <3> QED  BY <3>4, <3>6, <3>7, <3>8
  <2> QED  BY <2>8, <2>9, Zenon DEF NearestForAPoint, o
<1> QED  BY <1>1, SearchesAreConsistent, PTL

-----------------------------------------------------------------------------
(***************************************************************************)
(* The order in which records are read                                     *)
(***************************************************************************)
(* Sets whose hits are before each other alike are ordered alike. *)
LEMMA TwinOrders ==
  ASSUME NEW A, NEW B, Sortable(A), Sortable(B), NEW f \in Bijection(A, B),
         \A h, g \in A : Before(h, g) <=> Before(f[h], f[g])
  PROVE  /\ Cardinality(A) = Cardinality(B)
         /\ \A i \in 1 .. Cardinality(A) : Order(B)[i] = f[Order(A)[i]]
<1> DEFINE n == Cardinality(A)
           s == Order(A)
           t == Order(B)
<1>1. IsFiniteSet(A) /\ IsFiniteSet(B)
  BY DEF Sortable
<1>2. n = Cardinality(B)
  BY <1>1, FS_Bijection, Zenon DEF ExistsBijection
<1>3. /\ f \in [A -> B]
      /\ \A h, g \in A : f[h] = f[g] => h = g
      /\ \A x \in B : \E h \in A : f[h] = x
  BY DEF Bijection, Injection, Surjection, IsInjective
<1>4. ASSUME NEW h \in A
      PROVE  Cardinality(Earlier(A, h)) = Cardinality(Earlier(B, f[h]))
  <2> DEFINE a == Earlier(A, h)
             b == Earlier(B, f[h])
             r == [g \in a |-> f[g]]
  <2>1. a \subseteq A /\ \A g \in a : f[g] \in b
    BY <1>3 DEF Earlier
  <2>2. \A x \in b : \E g \in a : f[g] = x
    BY <1>3 DEF Earlier
  <2>3. IsFiniteSet(a)
    BY EarlierFacts
  <2> HIDE DEF a, b
  <2>4. r \in [a -> b]
    BY <2>1
  <2>5. \A g, e \in a : r[g] = r[e] => g = e
    BY <1>3, <2>1
  <2>6. \A x \in b : \E g \in a : r[g] = x
    BY <2>2
  <2>7. r \in Bijection(a, b)
    <3> HIDE DEF r
    <3> QED
      BY <2>4, <2>5, <2>6 DEF Bijection, Injection, Surjection, IsInjective
  <2>8. Cardinality(a) = Cardinality(b)
    <3> HIDE DEF r
    <3> QED  BY <2>3, <2>7, FS_Bijection, Zenon DEF ExistsBijection
  <2> QED  BY <2>8 DEF a, b
<1>5. /\ n \in Nat /\ s \in [1 .. n -> A]
      /\ \A i \in 1 .. n : Cardinality(Earlier(A, s[i])) = i - 1
  BY OrderFacts, Zenon
<1>6. /\ t \in [1 .. n -> B]
      /\ \A i \in 1 .. n : Cardinality(Earlier(B, t[i])) = i - 1
  <2> DEFINE m == Cardinality(B)
  <2>1. /\ t \in [1 .. m -> B]
        /\ \A i \in 1 .. m : Cardinality(Earlier(B, t[i])) = i - 1
    BY OrderFacts, Zenon
  <2> QED  BY <1>2, <2>1
<1> HIDE DEF n, s, t
<1>7. ASSUME NEW i \in 1 .. n
      PROVE  t[i] = f[s[i]]
  <2>1. s[i] \in A /\ t[i] \in B /\ f[s[i]] \in B
    BY <1>3, <1>5, <1>6
  <2>2. Cardinality(Earlier(B, f[s[i]])) = Cardinality(Earlier(B, t[i]))
    BY <1>4, <1>5, <1>6, <2>1
  <2> QED  BY <2>1, <2>2, EarlierFacts
<1> QED  BY <1>2, <1>7 DEF n, s, t

(* The first six numbers of the keys decide where they differ. *)
LEMMA SixDecide ==
  ASSUME NEW h, NEW g, NEW hh, NEW gg,
         IsHit(h), IsHit(g), IsHit(hh), IsHit(gg),
         \A k \in 1 .. 6 : Key(h)[k] = Key(hh)[k] /\ Key(g)[k] = Key(gg)[k],
         NEW m \in 1 .. 6, Key(h)[m] # Key(g)[m],
         Before(h, g)
  PROVE  Before(hh, gg)
<1> DEFINE a == Key(h)
           b == Key(g)
           c == Key(hh)
           d == Key(gg)
<1>1. PICK i \in 1 .. 7 : a[i] < b[i] /\ \A j \in 1 .. (i - 1) : a[j] = b[j]
  BY BeforeByKey
<1>2. a[m] # b[m] /\ \A k \in 1 .. 6 : a[k] = c[k] /\ b[k] = d[k]
  OBVIOUS
<1> HIDE DEF a, b, c, d
<1>3. i \in 1 .. 6
  BY <1>1, <1>2
<1>4. c[i] < d[i] /\ \A j \in 1 .. (i - 1) : c[j] = d[j]
  BY <1>1, <1>2, <1>3
<1> QED  BY <1>1, <1>4, BeforeByKey DEF c, d

(* Hits that differ at most in where their records are read. *)
Same(h, g) == /\ h.layer = g.layer /\ h.nguid = g.nguid /\ h.tier = g.tier
              /\ h.contained = g.contained /\ h.banded = g.banded
              /\ h.distance2 = g.distance2

(* The six numbers are then the same. *)
LEMMA SameKeys ==
  ASSUME NEW h, NEW g, IsHit(h), IsHit(g), Same(h, g)
  PROVE  \A k \in 1 .. 6 : Key(h)[k] = Key(g)[k]
<1>1. Key(h)[1] = Key(g)[1] /\ Key(h)[2] = Key(g)[2]
  BY KeyFacts DEF Same
<1>2. Key(h)[3] = Key(g)[3]
  BY KeyFacts DEF Same
<1>3. Key(h)[4] = Key(g)[4] /\ Key(h)[5] = Key(g)[5] /\ Key(h)[6] = Key(g)[6]
  BY KeyFacts DEF Same
<1>4. \A k \in 1 .. 6 : k = 1 \/ k = 2 \/ k = 3 \/ k = 4 \/ k = 5 \/ k = 6
  OBVIOUS
<1> QED  BY <1>1, <1>2, <1>3, <1>4

(* Every record of one layer is one of the other. *)
Within(layer, other) ==
  \A i \in DOMAIN layer : \E j \in DOMAIN other : other[j] = layer[i]

(* The same records make the same hits. *)
LEMMA FoundTwins ==
  ASSUME NEW s, NEW points, NEW roads, NEW others, NEW streets,
         Within(points, others), Within(roads, streets),
         NEW h \in Found(s, points, roads)
  PROVE  \E g \in Found(s, others, streets) : Same(h, g)
<1>1. ASSUME h \in SsapHits(s, points)
      PROVE  \E g \in Found(s, others, streets) : Same(h, g)
  <2>1. PICK i \in DOMAIN points : /\ points[i].places # {}
                                   /\ h = SsapHit(s, points, i)
                                   /\ Near(h.distance2)
    BY <1>1 DEF SsapHits
  <2>2. PICK j \in DOMAIN others : others[j] = points[i]
    BY DEF Within
  <2> DEFINE g == SsapHit(s, others, j)
             at == CHOOSE p \in points[i].places : TRUE
             d == Distance2(Origin(s), at)
             c == Covers(s, at)
             b == Bands(Origin(s), at)
  <2>3. h = [layer |-> "ssap", nth |-> i, nguid |-> points[i].nguid,
             tier |-> "ADDRESS_POINT", at |-> at, distance2 |-> d,
             contained |-> c, banded |-> b, along |-> 0, side |-> "none"]
    BY <2>1, Zenon DEF SsapHit
  <2>4. g = [layer |-> "ssap", nth |-> j, nguid |-> points[i].nguid,
             tier |-> "ADDRESS_POINT", at |-> at, distance2 |-> d,
             contained |-> c, banded |-> b, along |-> 0, side |-> "none"]
    BY <2>2, Zenon DEF SsapHit
  <2> HIDE DEF at, d, c, b
  <2>5. Same(h, g) /\ g.distance2 = h.distance2
    <3> HIDE DEF g
    <3> QED  BY <2>3, <2>4 DEF Same
  <2>6. g \in SsapHits(s, others)
    <3>1. j \in {k \in DOMAIN others : others[k].places # {}}
      BY <2>1, <2>2
    <3>2. Near(g.distance2)
      BY <2>1, <2>5
    <3> QED  BY <3>1, <3>2, Zenon DEF SsapHits
  <2> HIDE DEF g
  <2> QED  BY <2>5, <2>6 DEF Found
<1>2. ASSUME h \in RclHits(s, roads)
      PROVE  \E g \in Found(s, others, streets) : Same(h, g)
  <2>1. PICK i \in DOMAIN roads : /\ OnePart(roads[i])
                                  /\ h = RclHit(s, roads, i)
                                  /\ Near(h.distance2)
    BY <1>2 DEF RclHits
  <2>2. PICK j \in DOMAIN streets : streets[j] = roads[i]
    BY DEF Within
  <2> DEFINE g == RclHit(s, streets, j)
             p == Projection(roads[i].path, Origin(s))
             c == Covers(s, p.at)
  <2>3. h = [layer |-> "rcl", nth |-> i, nguid |-> roads[i].nguid,
             tier |-> "INTERPOLATED_POINT", at |-> p.at,
             distance2 |-> p.offset2, contained |-> c, banded |-> FALSE,
             along |-> p.along, side |-> p.side]
    BY <2>1, Zenon DEF RclHit
  <2>4. g = [layer |-> "rcl", nth |-> j, nguid |-> roads[i].nguid,
             tier |-> "INTERPOLATED_POINT", at |-> p.at,
             distance2 |-> p.offset2, contained |-> c, banded |-> FALSE,
             along |-> p.along, side |-> p.side]
    BY <2>2, Zenon DEF RclHit
  <2> HIDE DEF p, c
  <2>5. Same(h, g) /\ g.distance2 = h.distance2
    <3> HIDE DEF g
    <3> QED  BY <2>3, <2>4 DEF Same
  <2>6. g \in RclHits(s, streets)
    <3>1. j \in {k \in DOMAIN streets : OnePart(streets[k])}
      BY <2>1, <2>2
    <3>2. Near(g.distance2)
      BY <2>1, <2>5
    <3> QED  BY <3>1, <3>2, Zenon DEF RclHits
  <2> HIDE DEF g
  <2> QED  BY <2>5, <2>6 DEF Found
<1> QED  BY <1>1, <1>2 DEF Found

(* With NGUIDs of their own, records tell their hits apart. *)
LEMMA NguidsTellApart ==
  ASSUME NEW s \in Shape, NEW points \in Seq(AddressPoint),
         NEW roads \in Seq(Centerline), Identified(points), Identified(roads),
         NEW h \in Found(s, points, roads), NEW g \in Found(s, points, roads),
         h.layer = g.layer, h.nguid = g.nguid
  PROVE  h = g
<1>1. /\ \/ /\ h.layer = "ssap" /\ h.nth \in DOMAIN points
            /\ points[h.nth].places # {} /\ h = SsapHit(s, points, h.nth)
         \/ /\ h.layer = "rcl" /\ h.nth \in DOMAIN roads
            /\ OnePart(roads[h.nth]) /\ h = RclHit(s, roads, h.nth)
      /\ \/ /\ g.layer = "ssap" /\ g.nth \in DOMAIN points
            /\ points[g.nth].places # {} /\ g = SsapHit(s, points, g.nth)
         \/ /\ g.layer = "rcl" /\ g.nth \in DOMAIN roads
            /\ OnePart(roads[g.nth]) /\ g = RclHit(s, roads, g.nth)
  BY FoundFacts
<1> DEFINE i == h.nth
           j == g.nth
<1> HIDE DEF i, j
<1>2. CASE h.layer = "ssap"
  <2>1. /\ i \in DOMAIN points /\ points[i].places # {}
        /\ h = SsapHit(s, points, i)
        /\ j \in DOMAIN points /\ points[j].places # {}
        /\ g = SsapHit(s, points, j)
    BY <1>1, <1>2 DEF i, j
  <2>2. h.nguid = points[i].nguid /\ g.nguid = points[j].nguid
    BY <2>1, SsapHitFacts
  <2>3. i = j
    BY <2>1, <2>2 DEF Identified
  <2> QED  BY <2>1, <2>3, Zenon
<1>3. CASE h.layer = "rcl"
  <2>1. /\ i \in DOMAIN roads /\ OnePart(roads[i])
        /\ h = RclHit(s, roads, i)
        /\ j \in DOMAIN roads /\ OnePart(roads[j])
        /\ g = RclHit(s, roads, j)
    BY <1>1, <1>3 DEF i, j
  <2>2. h.nguid = roads[i].nguid /\ g.nguid = roads[j].nguid
    BY <2>1, RclHitFacts
  <2>3. i = j
    BY <2>1, <2>2 DEF Identified
  <2> QED  BY <2>1, <2>3, Zenon
<1> QED  BY <1>1, <1>2, <1>3

(* Hits of the same records are before each other alike. *)
LEMMA TwinsAgree ==
  ASSUME NEW s \in Shape, NEW points \in Seq(AddressPoint),
         NEW roads \in Seq(Centerline), Identified(points), Identified(roads),
         NEW h \in Found(s, points, roads), NEW g \in Found(s, points, roads),
         NEW hh, NEW gg, IsHit(hh), IsHit(gg), Same(h, hh), Same(g, gg),
         Before(h, g)
  PROVE  Before(hh, gg)
<1>1. IsHit(h) /\ IsHit(g)
  BY FoundFacts
<1>2. \A k \in 1 .. 6 : Key(h)[k] = Key(hh)[k] /\ Key(g)[k] = Key(gg)[k]
  BY <1>1, SameKeys
<1>3. h # g
  BY <1>1, BeforeIsStrict
<1>4. /\ h.layer = "ssap" \/ h.layer = "rcl"
      /\ g.layer = "ssap" \/ g.layer = "rcl"
  BY FoundFacts
<1>5. h.layer # g.layer \/ h.nguid # g.nguid
  BY <1>3, NguidsTellApart
<1>6. /\ Key(h)[5] = h.nguid /\ Key(g)[5] = g.nguid
      /\ Key(h)[6] = (IF h.layer = "ssap" THEN 0 ELSE 1)
      /\ Key(g)[6] = (IF g.layer = "ssap" THEN 0 ELSE 1)
  BY <1>1, KeyFacts
<1>7. Key(h)[5] # Key(g)[5] \/ Key(h)[6] # Key(g)[6]
  BY <1>4, <1>5, <1>6
<1>8. PICK m \in 1 .. 6 : Key(h)[m] # Key(g)[m]
  BY <1>7
<1> QED  BY <1>1, <1>2, <1>8, SixDecide, Zenon

(* A layer read backwards has the same records, and as many NGUIDs.        *)
LEMMA BackwardsFacts ==
  ASSUME NEW V, NEW layer \in Seq(V)
  PROVE  /\ Backwards(layer) \in Seq(V)
         /\ Within(layer, Backwards(layer))
         /\ Within(Backwards(layer), layer)
         /\ Identified(layer) => Identified(Backwards(layer))
<1> DEFINE n == Len(layer)
           b == Backwards(layer)
<1>1. n \in Nat /\ DOMAIN layer = 1 .. n /\ \A i \in 1 .. n : layer[i] \in V
  BY LenProperties, ElementOfSeq
<1>2. b = [i \in 1 .. n |-> layer[n + 1 - i]]
  BY <1>1 DEF Backwards
<1> HIDE DEF n, b
<1>3. \A i \in 1 .. n : n + 1 - i \in 1 .. n /\ n + 1 - (n + 1 - i) = i
  BY <1>1
<1>4. /\ DOMAIN b = 1 .. n /\ \A i \in 1 .. n : b[i] = layer[n + 1 - i]
  BY <1>2
<1>5. b \in Seq(V)
  <2>1. b \in [1 .. n -> V]
    BY <1>1, <1>2, <1>3
  <2> QED  BY <1>1, <2>1
<1>6. Within(layer, b)
  BY <1>1, <1>3, <1>4 DEF Within
<1>7. Within(b, layer)
  BY <1>1, <1>3, <1>4 DEF Within
<1>8. ASSUME Identified(layer)
      PROVE  Identified(b)
  <2> SUFFICES ASSUME NEW i \in 1 .. n, NEW j \in 1 .. n, i # j
               PROVE  b[i].nguid # b[j].nguid
    BY <1>4 DEF Identified
  <2>1. /\ n + 1 - i \in 1 .. n /\ n + 1 - j \in 1 .. n
        /\ n + 1 - i # n + 1 - j
    BY <1>1
  <2>2. layer[n + 1 - i].nguid # layer[n + 1 - j].nguid
    BY <1>1, <1>8, <2>1 DEF Identified
  <2> QED  BY <1>4, <2>2
<1> QED  BY <1>5, <1>6, <1>7, <1>8 DEF b

(***************************************************************************)
(* Records with NGUIDs of their own may be read in any order.              *)
(***************************************************************************)
THEOREM TheReadingOrderIsIrrelevant == Spec => []OrderIrrelevant
<1>1. SearchInv => OrderIrrelevant
  <2> SUFFICES ASSUME SearchInv, Asked, Identified(ssap), Identified(rcl)
               PROVE  NguidsOf(Search(shape, Backwards(ssap), Backwards(rcl)))
                        = NguidsOf(ordered)
    BY Zenon DEF OrderIrrelevant
  <2> DEFINE points == Backwards(ssap)
             roads == Backwards(rcl)
             A == Found(shape, ssap, rcl)
             B == Found(shape, points, roads)
             f == [h \in A |-> CHOOSE g \in B : Same(h, g)]
  <2>1. /\ shape \in Shape /\ ssap \in Seq(AddressPoint)
        /\ rcl \in Seq(Centerline) /\ Sortable(A) /\ ordered = Order(A)
    BY AskedFacts, Zenon
  <2>2. /\ points \in Seq(AddressPoint) /\ roads \in Seq(Centerline)
        /\ Identified(points) /\ Identified(roads)
        /\ Within(ssap, points) /\ Within(points, ssap)
        /\ Within(rcl, roads) /\ Within(roads, rcl)
    BY <2>1, BackwardsFacts, Zenon
  <2> HIDE DEF points, roads
  <2>3. Sortable(B)
    BY <2>1, <2>2, FoundFacts, Zenon
  <2>4. Search(shape, points, roads) = Order(B)
    BY Zenon DEF Search, Found
  <2>5. \A h \in A : \E g \in B : Same(h, g)
    BY <2>2, FoundTwins, Zenon
  <2>6. \A g \in B : \E h \in A : Same(g, h)
    BY <2>2, FoundTwins, Zenon
  <2>7. \A h, g \in A : h.layer = g.layer /\ h.nguid = g.nguid => h = g
    BY <2>1, NguidsTellApart
  <2>8. \A h, g \in B : h.layer = g.layer /\ h.nguid = g.nguid => h = g
    BY <2>1, <2>2, NguidsTellApart
  <2>9. (\A h \in A : IsHit(h)) /\ (\A h \in B : IsHit(h))
    BY <2>1, <2>3 DEF Sortable
  <2>10. ASSUME NEW h \in A, NEW g \in A, NEW hh \in B, NEW gg \in B,
                Same(h, hh), Same(g, gg)
         PROVE  Before(h, g) <=> Before(hh, gg)
    <3>1. Before(h, g) => Before(hh, gg)
      BY <2>1, <2>9, <2>10, TwinsAgree, Zenon
    <3>2. Same(hh, h) /\ Same(gg, g)
      BY <2>10 DEF Same
    <3>3. Before(hh, gg) => Before(h, g)
      BY <2>1, <2>2, <2>9, <3>2, TwinsAgree, Zenon
    <3> QED  BY <3>1, <3>3
  <2> HIDE DEF A, B
  <2>11. f \in [A -> B] /\ \A h \in A : Same(h, f[h])
    BY <2>5
  <2> HIDE DEF f
  <2>12. f \in Bijection(A, B)
    <3>1. \A h, g \in A : f[h] = f[g] => h = g
      BY <2>7, <2>11 DEF Same
    <3>2. ASSUME NEW x \in B
          PROVE  \E h \in A : f[h] = x
      <4>1. PICK h \in A : Same(x, h)
        BY <2>6
      <4>2. f[h] = x
        BY <2>8, <2>11, <4>1 DEF Same
      <4> QED  BY <4>2
    <3> QED
      BY <2>11, <3>1, <3>2 DEF Bijection, Injection, Surjection, IsInjective
  <2>13. \A h, g \in A : Before(h, g) <=> Before(f[h], f[g])
    BY <2>10, <2>11
  <2> DEFINE n == Cardinality(A)
             s == Order(A)
             t == Order(B)
  <2>14. /\ n = Cardinality(B) /\ \A i \in 1 .. n : t[i] = f[s[i]]
    <3>1. /\ Cardinality(A) = Cardinality(B)
          /\ \A i \in 1 .. Cardinality(A) : Order(B)[i] = f[Order(A)[i]]
      <4> HIDE DEF n, s, t
      <4>1. Sortable(A) /\ Sortable(B)
        BY <2>1, <2>3
      <4> QED  BY <2>12, <2>13, <4>1, TwinOrders
    <3> QED  BY <3>1
  <2>15. DOMAIN s = 1 .. n /\ \A i \in 1 .. n : s[i] \in A
    <3>1. DOMAIN s = 1 .. n /\ s \in [1 .. n -> A]
      BY <2>1, OrderFacts, Zenon
    <3> HIDE DEF n, s
    <3> QED  BY <3>1
  <2>16. DOMAIN t = 1 .. n
    <3>1. DOMAIN t = 1 .. Cardinality(B)
      BY <2>3, OrderFacts, Zenon
    <3> QED  BY <2>14, <3>1, Zenon
  <2> HIDE DEF n, s, t
  <2>17. \A i \in 1 .. n : t[i].layer = s[i].layer /\ t[i].nguid = s[i].nguid
    BY <2>11, <2>14, <2>15 DEF Same
  <2>18. NguidsOf(t) = NguidsOf(s)
    BY <2>15, <2>16, <2>17 DEF NguidsOf
  <2> QED  BY <2>1, <2>4, <2>18, Zenon DEF s, t, points, roads
<1> QED  BY <1>1, SearchesAreConsistent, PTL

-----------------------------------------------------------------------------
(***************************************************************************)
(* Numbers                                                                 *)
(***************************************************************************)
(* A range is that of its side, and its ends are house numbers in order.   *)
LEMMA RangeFacts ==
  ASSUME NEW seg \in Segment(Nat, Nat), NEW r \in SideRanges(seg)
  PROVE  /\ r = SideRange(seg, "L") \/ r = SideRange(seg, "R")
         /\ r.side = "L" <=> r = SideRange(seg, "L")
         /\ r.low \in Nat /\ r.high \in Nat /\ r.low <= r.high
         /\ r # NoRange
<1>1. PICK s \in SideOf : Asserts(seg.sides[s]) /\ r = SideRange(seg, s)
  BY DEF SideRanges
<1>2. seg.sides[s] \in SideAttributes(Nat)
  BY DEF Segment
<1>3. seg.sides[s].from \in Nat /\ seg.sides[s].to \in Nat
  BY <1>1, <1>2 DEF SideAttributes, Asserts
<1>4. r.side = s /\ SideRange(seg, "L").side = "L"
  BY <1>1 DEF SideRange
<1>5. r.low \in Nat /\ r.high \in Nat /\ r.low <= r.high
  BY <1>1, <1>3 DEF SideRange, Low, High
<1>6. r # NoRange
  BY <1>4 DEF SideOf, NoRange
<1> QED  BY <1>1, <1>4, <1>5, <1>6 DEF SideOf

(* A number some side claims is given to one that does. *)
LEMMA SelectedSideClaims ==
  ASSUME NEW seg \in Segment(Nat, Nat), NEW n,
         NEW own \in SideRanges(seg), Contains(own, n)
  PROVE  /\ SelectSide(seg, n) \in SideRanges(seg)
         /\ Contains(SelectSide(seg, n), n)
<1> DEFINE claims == {r \in SideRanges(seg) : Contains(r, n)}
           fits   == {r \in claims : ParityAdmits(r, n)}
           best   == IF Cardinality(fits) = 1 THEN fits ELSE claims
<1>1. best # {} /\ best \subseteq claims
  BY FS_EmptySet
<1>2. \E r \in best : r.side = "L" \/ best = {r}
  <2>1. CASE \E r \in best : r.side = "L"
    BY <2>1
  <2>2. CASE \A r \in best : r.side # "L"
    <3>1. \A r \in best : r = SideRange(seg, "R")
      BY <1>1, <2>2, RangeFacts
    <3> QED  BY <1>1, <3>1
  <2> QED  BY <2>1, <2>2
<1>3. SelectSide(seg, n) = CHOOSE r \in best : r.side = "L" \/ best = {r}
  BY DEF SelectSide
<1> HIDE DEF best
<1> QED  BY <1>1, <1>2, <1>3

(* What is rounded to a parity is less than two numbers off, and what lies *)
(* between the ends of a range no more than one, before the range clamps   *)
(* it and after.                                                           *)
LEMMA RoundedIsNear ==
  ASSUME NEW r, r.low \in Nat, r.high \in Nat, r.low <= r.high,
         NEW x \in Int, NEW y \in Nat \ {0}
  PROVE  LET n == RoundToParity(x, y, r)
         IN  /\ n \in Nat /\ Contains(r, n)
             /\ r.low * y <= x /\ x <= r.high * y => Distance(n * y, x) <= y
<1> DEFINE f == x \div y
           q == f * y
           k == Round(x, y)
           g == IF ParityAdmits(r, k) THEN k
                ELSE IF Distance(x, (k - 1) * y) <= Distance(x, (k + 1) * y)
                THEN k - 1 ELSE k + 1
           n == RoundToParity(x, y, r)
<1>1. f \in Int /\ q \in Int /\ q <= x /\ x < q + y
  BY Z3
<1>2. /\ f * y = q /\ (f - 1) * y = q - y /\ (f + 1) * y = q + y
      /\ (f + 1 - 1) * y = q /\ (f + 1 + 1) * y = q + 2 * y
  BY <1>1, Z3
<1>3. k = (IF 2 * (x - q) < y \/ (2 * (x - q) = y /\ f % 2 = 0)
           THEN f ELSE f + 1)
  BY DEF Round
<1>4. n = Low(r.high, High(r.low, g))
  BY Zenon DEF RoundToParity
<1> HIDE DEF f, k, n
<1>5. /\ g \in Int
      /\ (g * y = q - y /\ q = x) \/ g * y = q \/ g * y = q + y
  <2>1. CASE k = f /\ 2 * (x - q) <= y
    <3>1. ParityAdmits(r, k) => g = f
      BY <2>1
    <3>2. ASSUME ~ParityAdmits(r, k)
          PROVE  g = (IF Distance(x, q - y) <= Distance(x, q + y)
                      THEN f - 1 ELSE f + 1)
      BY <1>2, <2>1, <3>2
    <3> HIDE DEF g, q
    <3>3. Distance(x, q - y) <= Distance(x, q + y) => q = x
      BY <1>1, <2>1 DEF Distance
    <3>4. g = f \/ g = f + 1 \/ (g = f - 1 /\ q = x)
      BY <3>1, <3>2, <3>3
    <3>5. g = f - 1 => g * y = q - y
      BY <1>2
    <3>6. g = f + 1 => g * y = q + y
      BY <1>2
    <3>7. g = f => g * y = q
      BY <1>2
    <3> QED  BY <1>1, <3>4, <3>5, <3>6, <3>7
  <2>2. CASE k = f + 1 /\ 2 * (x - q) >= y
    <3>1. ParityAdmits(r, k) => g = f + 1
      BY <2>2
    <3>2. ASSUME ~ParityAdmits(r, k)
          PROVE  g = (IF Distance(x, q) <= Distance(x, q + 2 * y)
                      THEN f ELSE f + 2)
      BY <1>1, <1>2, <2>2, <3>2
    <3> HIDE DEF g, q
    <3>3. Distance(x, q) <= Distance(x, q + 2 * y)
      BY <1>1, <2>2 DEF Distance
    <3>4. g = f \/ g = f + 1
      BY <3>1, <3>2, <3>3
    <3> QED  BY <1>1, <1>2, <3>4 DEF q
  <2> HIDE DEF q, g
  <2> QED  BY <1>1, <1>3, <2>1, <2>2
<1> DEFINE z == g * y
<1>6. z \in Int /\ Distance(z, x) <= y
  <2> HIDE DEF q, g
  <2>1. z \in Int
    BY <1>1, <1>5
  <2> HIDE DEF z
  <2> QED  BY <1>1, <1>5, <2>1 DEF Distance, z
<1> DEFINE l == r.low
           h == r.high
           a == l * y
           b == h * y
<1>7. l \in Nat /\ h \in Nat /\ l <= h
  OBVIOUS
<1> HIDE DEF g, q, l, h
<1>8. a \in Int /\ b \in Int /\ (g <= l => z <= a) /\ (h <= g => b <= z)
  <2>1. \A i, j \in Int : i <= j => i * y <= j * y
    BY Z3
  <2> QED  BY <1>5, <1>7, <2>1
<1>9. n = (IF g < l THEN l ELSE IF h < g THEN h ELSE g)
  BY <1>4, <1>5, <1>7 DEF Low, High, l, h
<1>10. n \in Nat /\ l <= n /\ n <= h
  BY <1>5, <1>7, <1>9
<1>11. ASSUME a <= x, x <= b
       PROVE  Distance(n * y, x) <= y
  <2>1. n * y = (IF g < l THEN a ELSE IF h < g THEN b ELSE z)
    BY <1>9
  <2> HIDE DEF a, b, z
  <2>2. g < l => Distance(a, x) <= y
    BY <1>5, <1>6, <1>7, <1>8, <1>11 DEF Distance
  <2>3. h < g => Distance(b, x) <= y
    BY <1>5, <1>6, <1>7, <1>8, <1>11 DEF Distance
  <2> QED  BY <1>6, <2>1, <2>2, <2>3
<1> QED  BY <1>10, <1>11 DEF n, l, h, Contains

(* A number answered for a place is in the range of its side, and where    *)
(* the range is laid out no more than one number off.                      *)
LEMMA AnsweredIsNear ==
  ASSUME NEW seg \in Segment(Nat, Nat), NEW own \in SideRanges(seg),
         NEW d \in Nat, NEW n, n = NumberAt(seg, own, [num |-> d, den |-> 1])
  PROVE  /\ n \in Nat /\ Contains(own, n)
         /\ MarginApplied(seg, own) =>
              Distance(Margin * (own.high - own.low)
                         + (n - own.low) * Usable(seg),
                       Low(seg.length - Margin, High(Margin, d))
                         * (own.high - own.low)) <= Usable(seg)
<1> DEFINE at == [num |-> d, den |-> 1]
           l == own.low
           h == own.high
           w == h - l
           u == Usable(seg)
           fell == Low(seg.length - Margin, High(Margin, d))
<1>1. l \in Nat /\ h \in Nat /\ l <= h
  BY RangeFacts
<1>2. seg.length \in Nat /\ Margin \in Nat /\ u = seg.length - 2 * Margin
  BY MarginAssumption DEF Segment, Usable
<1>3. CASE ~MarginApplied(seg, own)
  <2>1. n = RoundToParity(l, 1, own)
    BY <1>3 DEF NumberAt
  <2>2. n \in Nat /\ Contains(own, n)
    BY <1>1, <2>1, RoundedIsNear
  <2> QED  BY <1>3, <2>2
<1>4. CASE MarginApplied(seg, own)
  <2> DEFINE within == Low(u * at.den, High(0, at.num - Margin * at.den))
             x == l * u * at.den + w * within
  <2>1. n = RoundToParity(x, u * at.den, own)
    BY <1>4, Zenon DEF NumberAt
  <2>2. at.num = d /\ at.den = 1
    OBVIOUS
  <2>3. u \in Nat \ {0}
    BY <1>2, <1>4 DEF MarginApplied
  <2>4. u * at.den = u /\ Margin * at.den = Margin
    BY <1>2, <2>2, <2>3
  <2> DEFINE e == Low(u, High(0, d - Margin))
  <2>5. within = e
    BY <2>2, <2>4, Zenon
  <2>6. e \in 0 .. u /\ fell = Margin + e
    <3> HIDE DEF u
    <3> QED  BY <1>2, <2>3 DEF Low, High
  <2>7. w \in Nat /\ h = l + w
    BY <1>1
  <2> HIDE DEF u, e, w, l, h, within, fell, at
  <2>8. l * u \in Int /\ w * e \in Int /\ w * u \in Int /\ w * e <= w * u
    <3>1. \A i, j \in Nat : i * j \in Nat
      BY Z3
    <3>2. \A i, j, m \in Nat : i <= j => m * i <= m * j
      BY Z3
    <3> QED  BY <1>1, <2>3, <2>6, <2>7, <3>1, <3>2
  <2>9. x = l * u + w * e
    <3>1. l * u * at.den = l * u
      BY <2>2, <2>8
    <3> QED  BY <2>5, <3>1
  <2>10. h * u = l * u + w * u
    BY <1>1, <2>3, <2>7, Z3
  <2>11. n = RoundToParity(x, u, own)
    BY <2>1, <2>4, Zenon
  <2> HIDE DEF x
  <2>12. x \in Int /\ l * u <= x /\ x <= h * u
    <3>1. 0 <= w * e
      <4>1. \A i, j \in Nat : i * j \in Nat
        BY Z3
      <4> QED  BY <2>6, <2>7, <4>1
    <3> QED  BY <2>8, <2>9, <2>10, <3>1
  <2>13. n \in Nat /\ Contains(own, n) /\ Distance(n * u, x) <= u
    BY <1>1, <2>3, <2>11, <2>12, RoundedIsNear DEF l, h
  <2>14. Margin * w + (n - l) * u = (Margin * w - l * u) + n * u
    BY <1>1, <1>2, <2>3, <2>7, <2>13, Z3
  <2>15. fell * w = (Margin * w - l * u) + x
    <3>1. (Margin + e) * w = Margin * w + w * e
      BY <1>2, <2>6, <2>7, Z3
    <3>2. Margin * w \in Int
      BY <1>2, <2>7, Z3
    <3> QED  BY <2>6, <2>8, <2>9, <3>1, <3>2
  <2>16. n * u \in Int /\ Margin * w - l * u \in Int
    <3>1. \A i, j \in Nat : i * j \in Nat
      BY Z3
    <3> QED  BY <1>1, <1>2, <2>3, <2>7, <2>13, <3>1
  <2>17. Distance(Margin * w + (n - l) * u, fell * w) <= u
    <3> DEFINE c == Margin * w - l * u
               a == n * u
    <3>1. Distance(c + a, c + x) = Distance(a, x)
      <4>1. c \in Int /\ a \in Int /\ x \in Int
        BY <2>12, <2>16
      <4> HIDE DEF c, a
      <4> QED  BY <4>1 DEF Distance
    <3> HIDE DEF c, a
    <3>2. Margin * w + (n - l) * u = c + a /\ fell * w = c + x
      BY <2>14, <2>15 DEF c, a
    <3>3. Distance(a, x) <= u
      BY <2>13 DEF a
    <3> QED  BY <3>1, <3>2, <3>3, Zenon
  <2> QED  BY <2>13, <2>17, Zenon DEF fell, w, l, h, u
<1> QED  BY <1>3, <1>4

(* A centerline of one part that is provisioned has a segment. *)
LEMMA SegmentType ==
  ASSUME NEW r \in Centerline, OnePart(r)
  PROVE  SegmentOf(r) \in Segment(Nat, Nat)
<1>1. /\ r.sides \in [SideOf -> SideAttributes(Nat)]
      /\ r.multipart \in BOOLEAN /\ r.path \in Seq(Place)
      /\ Len(r.path) >= 2
  BY DEF Centerline, OnePart
<1>2. PathLength(r.path) \in Nat
  <2>1. Len(r.path) \in 1 .. Len(r.path)
    BY <1>1
  <2> QED  BY <1>1, <2>1, WalkedType DEF PathLength
<1> QED  BY <1>1, <1>2 DEF SegmentOf, Segment

(***************************************************************************)
(* A house number answered for a side of a centerline geocodes back to     *)
(* that side, unless the other one claims it too, and to within one number *)
(* of where the input fell.                                                *)
(***************************************************************************)
THEOREM AnswersGeocodeBack == Spec => []AnswerGeocodesBack
<1>1. SearchInv => AnswerGeocodesBack
  <2> SUFFICES ASSUME SearchInv, NEW i \in DOMAIN listed,
                      listed[i].civic.tier = "INTERPOLATED_POINT"
               PROVE  LET h    == listed[i].hit
                          seg  == SegmentOf(rcl[h.nth])
                          own  == SideRange(seg, h.side)
                          back == Interpolate(seg, listed[i].civic.number)
                          fell == Low(seg.length - Margin,
                                      High(Margin, h.along))
                      IN  /\ back # NoPlace
                          /\ \/ back.range = own
                             \/ /\ Contains(back.range,
                                            listed[i].civic.number)
                                /\ Contains(own, listed[i].civic.number)
                          /\ back.range = own /\ MarginApplied(seg, own) =>
                               Distance(back.at.num, fell * back.at.den)
                                 <= Usable(seg)
    BY Zenon DEF AnswerGeocodesBack
  <2> DEFINE h    == listed[i].hit
             seg  == SegmentOf(rcl[h.nth])
             own  == SideRange(seg, h.side)
             n    == listed[i].civic.number
             back == Interpolate(seg, n)
             at   == [num |-> h.along, den |-> 1]
  <2>1. Asked
    <3>1. listed # <<>>
      OBVIOUS
    <3> QED
      BY <3>1 DEF SearchInv, Asked, Shape, Unasked, Points, Circles, Spheres,
                  Ellipses, Ellipsoids, ArcBands, Polygons, Prisms
  <2> DEFINE S == Found(shape, ssap, rcl)
             kept == Narrowed(shape, ordered)
  <2>2. /\ shape \in Shape /\ ssap \in Seq(AddressPoint)
        /\ rcl \in Seq(Centerline)
        /\ listed = Answers(shape, ordered, ssap, rcl)
    BY <2>1, AskedFacts
  <2>3. kept \in Seq(S)
    BY <2>1, ContainedIsPrefix, Zenon
  <2>4. listed = [k \in DOMAIN kept |-> Answer(kept[k], ssap, rcl)]
    BY <2>2, Zenon DEF Answers
  <2>5. /\ h \in S /\ listed[i].civic = Derive(h, ssap, rcl)
    <3> HIDE DEF S, kept
    <3>1. i \in DOMAIN kept /\ kept[i] \in S
      BY <2>3, <2>4
    <3>2. listed[i] = [hit |-> kept[i], civic |-> Derive(kept[i], ssap, rcl)]
      BY <2>4, <3>1 DEF Answer
    <3> QED  BY <3>1, <3>2
  <2> HIDE DEF h
  <2>6. h.layer = "rcl" /\ h.nth \in DOMAIN rcl /\ OnePart(rcl[h.nth])
        /\ h = RclHit(shape, rcl, h.nth)
    <3>1. h.layer # "ssap"
      BY <2>5 DEF Derive
    <3> QED  BY <2>2, <2>5, <3>1, FoundFacts
  <2>7. h.along \in Nat /\ h.side \in SideOf
    <3> DEFINE j == h.nth
    <3>1. j \in DOMAIN rcl /\ OnePart(rcl[j]) /\ h = RclHit(shape, rcl, j)
      BY <2>6
    <3> HIDE DEF j
    <3> QED  BY <2>2, <3>1, RclHitFacts
  <2>8. seg \in Segment(Nat, Nat)
    <3>1. rcl[h.nth] \in Centerline
      BY <2>2, <2>6
    <3> QED  BY <2>6, <3>1, SegmentType
  <2>9. listed[i].civic = FromRcl(seg, h.side, at)
    BY <2>5, <2>6 DEF Derive
  <2> HIDE DEF seg, n, at
  <2>10. Asserts(seg.sides[h.side]) /\ Walkable(seg)
         /\ n = NumberAt(seg, own, at)
    BY <2>9 DEF FromRcl, StreetLevel, n
  <2>11. own \in SideRanges(seg)
    BY <2>7, <2>10 DEF SideRanges
  <2> HIDE DEF own
  <2> DEFINE w == own.high - own.low
             fell == Low(seg.length - Margin, High(Margin, h.along))
  <2>12. /\ n \in Nat /\ Contains(own, n)
         /\ MarginApplied(seg, own) =>
              Distance(Margin * w + (n - own.low) * Usable(seg), fell * w)
                <= Usable(seg)
    BY <2>7, <2>8, <2>10, <2>11, AnsweredIsNear DEF at
  <2> DEFINE r == SelectSide(seg, n)
  <2>13. r \in SideRanges(seg) /\ Contains(r, n)
    BY <2>8, <2>11, <2>12, SelectedSideClaims
  <2>14. r # NoRange
    BY <2>8, <2>13, RangeFacts
  <2> DEFINE spot == IF MarginApplied(seg, r)
                     THEN [num |-> Margin * (r.high - r.low)
                                     + (n - r.low) * Usable(seg),
                           den |-> r.high - r.low]
                     ELSE [num |-> seg.length, den |-> 2]
  <2>15. back = [range |-> r, at |-> spot]
    BY <2>10, <2>14, Zenon DEF Interpolate
  <2> HIDE DEF r, back, fell
  <2>16. back.range = r /\ back.at = spot
    <3> HIDE DEF spot
    <3> QED  BY <2>15
  <2>17. back # NoPlace
    BY <2>14, <2>16 DEF NoPlace
  <2>18. ASSUME back.range = own, MarginApplied(seg, own)
         PROVE  Distance(back.at.num, fell * back.at.den) <= Usable(seg)
    <3>1. r = own
      BY <2>16, <2>18
    <3>2. /\ back.at.num = Margin * w + (n - own.low) * Usable(seg)
          /\ back.at.den = w
      BY <2>16, <2>18, <3>1
    <3> HIDE DEF w
    <3> QED  BY <2>12, <2>18, <3>2
  <2>19. Contains(back.range, n) /\ Contains(own, n)
    BY <2>12, <2>13, <2>16
  <2> QED
    BY <2>17, <2>18, <2>19, Zenon DEF back, own, n, fell, seg, h
<1> QED  BY <1>1, SearchesAreConsistent, PTL
=============================================================================
