---------------------------- MODULE ScoringProofs ----------------------------
(***************************************************************************)
(* What holds of every score: for all words, similarities and layers, and  *)
(* whatever the layers say about their own fields. Only the last part, on  *)
(* gates and likenesses, takes MeasuredAssumption: it is about the words   *)
(* that are really compared, and how.                                      *)
(***************************************************************************)
EXTENDS WordScoring, FiniteSetTheorems, SequenceTheorems,
        WellFoundedInduction, TLAPS

USE DEF Null

-----------------------------------------------------------------------------
(***************************************************************************)
(* Arithmetic                                                              *)
(***************************************************************************)
(* A share of a weight is at most the whole of it, and is that only where  *)
(* the share is whole or the weight is nothing.                            *)
LEMMA ShareOfWeight ==
  ASSUME NEW w \in Nat, NEW s \in 0 .. Whole
  PROVE  /\ s * w \in Nat /\ Whole * w \in Nat /\ s * w <= Whole * w
         /\ s * w = Whole * w => s = Whole \/ w = 0
<1>1. Whole \in Nat
  BY ScoringAssumption
<1> DEFINE d == Whole - s
<1>2. d \in Nat /\ Whole = s + d
  BY <1>1
<1>3. Whole * w = s * w + d * w
  BY <1>1, <1>2, Z3
<1>4. s * w \in Nat /\ d * w \in Nat
  BY <1>2, Z3
<1>5. d * w = 0 => d = 0 \/ w = 0
  BY <1>2, Z3
<1> HIDE DEF d
<1> QED  BY <1>2, <1>3, <1>4, <1>5

(* Seven numbers, each at most its bound, add up to at most the bounds, and*)
(* to as much only if each is as much.                                     *)
LEMMA TotalIsMonotone ==
  ASSUME NEW f \in [Concept -> Nat], NEW g \in [Concept -> Nat],
         \A c \in Concept : f[c] <= g[c]
  PROVE  /\ Total(f) \in Nat /\ Total(g) \in Nat /\ Total(f) <= Total(g)
         /\ Total(f) = Total(g) => \A c \in Concept : f[c] = g[c]
<1>1. /\ f["St_Name"] \in Nat /\ f["St_Type"] \in Nat /\ f["St_Dir"] \in Nat
      /\ f["Community"] \in Nat /\ f["A2"] \in Nat /\ f["A1"] \in Nat
      /\ f["Country"] \in Nat
  BY DEF Concept
<1>2. /\ g["St_Name"] \in Nat /\ g["St_Type"] \in Nat /\ g["St_Dir"] \in Nat
      /\ g["Community"] \in Nat /\ g["A2"] \in Nat /\ g["A1"] \in Nat
      /\ g["Country"] \in Nat
  BY DEF Concept
<1>3. /\ f["St_Name"] <= g["St_Name"] /\ f["St_Type"] <= g["St_Type"]
      /\ f["St_Dir"] <= g["St_Dir"] /\ f["Community"] <= g["Community"]
      /\ f["A2"] <= g["A2"] /\ f["A1"] <= g["A1"]
      /\ f["Country"] <= g["Country"]
  BY DEF Concept
<1>4. /\ Total(f) \in Nat /\ Total(g) \in Nat /\ Total(f) <= Total(g)
      /\ Total(f) = Total(g) =>
           /\ f["St_Name"] = g["St_Name"] /\ f["St_Type"] = g["St_Type"]
           /\ f["St_Dir"] = g["St_Dir"] /\ f["Community"] = g["Community"]
           /\ f["A2"] = g["A2"] /\ f["A1"] = g["A1"]
           /\ f["Country"] = g["Country"]
  BY <1>1, <1>2, <1>3 DEF Total
<1> QED  BY <1>4 DEF Concept

-----------------------------------------------------------------------------
(***************************************************************************)
(* Terms                                                                   *)
(***************************************************************************)
Likenesses == 0 .. Whole \union {Null}

IsTerm(t) == t.similarity \in Likenesses /\ t.field \in Field
AreTerms(ts) == \A c \in Concept : IsTerm(ts[c])

(* What a query says, and what a record does. *)
IsQuery(q) == q \in [number : Nat \union {Null}, says : [Field -> Word]]
IsRecord(r) == \E l \in LayerOf : r \in Attributes(SidesOf(l))

(* Any two words are comparable in every concept. *)
LEMMA Comparable ==
  ASSUME NEW c \in Concept, NEW v \in Word, NEW w \in Word
  PROVE  /\ Similarity[c, v, w] \in Likenesses
         /\ Similarity[c, v, w] \in Int /\ Similarity[c, v, w] <= Whole
<1>1. Similarity[c, v, w] \in Likenesses
  BY WordAssumption DEF Likenesses
<1>2. Whole \in Nat
  BY ScoringAssumption
<1>3. \A n \in Likenesses : n \in Int /\ n <= Whole
  BY <1>2 DEF Likenesses
<1> QED  BY <1>1, <1>3

(* The sides of a record are its own, or the two of a centerline. *)
LEMMA SidesOfRecord ==
  ASSUME NEW r, IsRecord(r)
  PROVE  /\ DOMAIN r.area = {"own"} \/ DOMAIN r.area = SideOf
         /\ r.street \in [StreetField -> Word]
         /\ \A s \in DOMAIN r.area : r.area[s] \in [AreaField -> Word]
         /\ r.segment \in Segment(Nat, Nat)
<1>1. PICK l \in LayerOf : r \in Attributes(SidesOf(l))
  BY DEF IsRecord
<1>2. /\ r.street \in [StreetField -> Word]
      /\ r.area \in [SidesOf(l) -> [AreaField -> Word]]
      /\ r.segment \in Segment(Nat, Nat)
  BY <1>1 DEF Attributes
<1>3. SidesOf(l) = {"own"} \/ SidesOf(l) = SideOf
  BY DEF SidesOf
<1> QED  BY <1>2, <1>3

(* One side is compared, or both sides of a centerline. *)
LEMMA ComparedSides ==
  ASSUME NEW q, IsQuery(q), NEW r, IsRecord(r)
  PROVE  /\ SidesCompared(q, r) \subseteq DOMAIN r.area
         /\ \/ \E s \in DOMAIN r.area : SidesCompared(q, r) = {s}
            \/ SidesCompared(q, r) = SideOf
<1> DEFINE parity   == IF q.number % 2 = 0 THEN "E" ELSE "O"
           matching == {s \in SideOf : r.segment.sides[s].parity = parity}
<1>1. CASE DOMAIN r.area = {"own"}
  <2>1. SideHint(q, r) = "own"
    BY <1>1 DEF SideHint
  <2> QED  BY <1>1, <2>1 DEF SidesCompared, NoSide
<1>2. CASE DOMAIN r.area = SideOf
  <2>1. "own" \notin DOMAIN r.area
    BY <1>2 DEF SideOf
  <2>2. SideHint(q, r) = NoSide \/ (Cardinality(matching) = 1
          /\ SideHint(q, r) = CHOOSE s \in matching : TRUE)
    BY <2>1 DEF SideHint
  <2>3. Cardinality(matching) = 1 => matching # {}
    BY FS_EmptySet
  <2>4. SideHint(q, r) # NoSide => SideHint(q, r) \in SideOf
    BY <2>2, <2>3
  <2> QED  BY <1>2, <2>4 DEF SidesCompared
<1> QED  BY <1>1, <1>2, SidesOfRecord

(* The better of two slots is one of them. *)
LEMMA SlotIsTerm ==
  ASSUME NEW c \in Concept, NEW asked \in Word, NEW r, IsRecord(r),
         NEW counts \in [Field -> Nat],
         NEW f \in StreetField, NEW g \in StreetField, f # g
  PROVE  IsTerm(BestSlot(c, asked, r, counts, f, g))
<1> DEFINE offer(h) == [field      |-> h,
                        similarity |-> Similarity[c, asked, r.street[h]]]
           offers == {offer(h) : h \in {f, g}}
           beats(one, two) ==
             \/ one.similarity > two.similarity
             \/ /\ one.similarity = two.similarity
                /\ \/ counts[one.field] > counts[two.field]
                   \/ counts[one.field] = counts[two.field] /\ one.field = f
<1>1. \A h \in {f, g} : /\ IsTerm(offer(h))
                        /\ offer(h).similarity \in Int
                        /\ counts[offer(h).field] \in Int
  <2> SUFFICES ASSUME NEW h \in {f, g}
               PROVE  /\ IsTerm(offer(h)) /\ offer(h).similarity \in Int
                      /\ counts[offer(h).field] \in Int
    OBVIOUS
  <2>1. r.street[h] \in Word
    BY SidesOfRecord
  <2>2. h \in Field
    BY DEF Field
  <2>3. /\ Similarity[c, asked, r.street[h]] \in Likenesses
        /\ Similarity[c, asked, r.street[h]] \in Int
    BY <2>1, Comparable
  <2>4. offer(h).similarity = Similarity[c, asked, r.street[h]]
    BY Zenon
  <2>5. offer(h).field = h
    BY Zenon
  <2> HIDE DEF offer
  <2>6. offer(h).similarity \in Likenesses /\ offer(h).similarity \in Int
    BY <2>3, <2>4, Zenon
  <2> QED  BY <2>2, <2>5, <2>6 DEF IsTerm
<1>2. offers = {offer(f), offer(g)} /\ offer(f).field = f /\ offer(g).field = g
  OBVIOUS
<1>3. beats(offer(f), offer(g)) \/ beats(offer(g), offer(f))
  <2>1. /\ offer(f).similarity \in Int /\ offer(g).similarity \in Int
        /\ counts[offer(f).field] \in Int /\ counts[offer(g).field] \in Int
    BY <1>1
  <2> HIDE DEF offer
  <2> QED  BY <2>1, <1>2
<1>4. \E one \in offers : \A two \in offers \ {one} : beats(one, two)
  <2> HIDE DEF offer, beats
  <2> QED  BY <1>2, <1>3
<1>5. BestSlot(c, asked, r, counts, f, g)
        = CHOOSE one \in offers : \A two \in offers \ {one} : beats(one, two)
  BY DEF BestSlot
<1> HIDE DEF beats
<1>6. BestSlot(c, asked, r, counts, f, g) \in offers
  BY <1>4, <1>5
<1> QED  BY <1>6, <1>1

(* The town of a side is a term, and its likeness is a number. *)
LEMMA TownIsTerm ==
  ASSUME NEW area \in [AreaField -> Word], NEW asked \in Word, NEW s
  PROVE  LET t == TownOn(s, area, TownField(area), asked)
         IN  IsTerm(t) /\ t.likeness \in Int /\ t.side = s
<1> DEFINE f == TownField(area)
           likeness == Similarity["Community", asked, area[f]]
<1>1. f \in AreaField
  BY DEF TownField, AreaField
<1>2. /\ likeness \in Likenesses /\ likeness \in Int
  BY <1>1, Comparable DEF Concept
<1>3. Low(likeness, MismatchCap) \in Likenesses
  <2>1. MismatchCap \in 0 .. Whole /\ Whole \in Nat
    BY ScoringAssumption
  <2> HIDE DEF likeness
  <2> QED  BY <1>2, <2>1 DEF Low, Likenesses
<1>4. Capped(likeness, asked, area[f]) \in Likenesses
  BY <1>2, <1>3 DEF Capped
<1>5. f \in Field
  BY <1>1 DEF Field
<1> DEFINE t == TownOn(s, area, TownField(area), asked)
           worth == Capped(likeness, asked, area[f])
<1>6. t = [side |-> s, field |-> f, likeness |-> likeness,
           similarity |-> worth]
  BY DEF TownOn
<1> HIDE DEF f, likeness, worth, t
<1>7. t.side = s /\ t.field = f /\ t.likeness = likeness
      /\ t.similarity = worth
  BY <1>6
<1>8. IsTerm(t) /\ t.likeness \in Int /\ t.side = s
  BY <1>2, <1>4, <1>5, <1>7 DEF IsTerm, worth
<1> QED  BY <1>8 DEF t

(* The words a query says in its slots. *)
LEMMA AskedIsWord ==
  ASSUME NEW q, IsQuery(q)
  PROVE  /\ \A f \in Field : q.says[f] \in Word
         /\ \A f, g \in Field : Asked(q, f, g) \in Word
         /\ TownAsked(q) \in Word
<1>1. \A f \in Field : q.says[f] \in Word
  BY DEF IsQuery
<1>2. "A3" \in Field /\ "A4" \in Field /\ "Post_Comm" \in Field
  BY DEF Field, AreaField
<1> QED  BY <1>1, <1>2 DEF Asked, TownAsked, First

(* The town that is compared is that of a side that is compared. *)
LEMMA CommunityIsOffered ==
  ASSUME NEW q, IsQuery(q), NEW r, IsRecord(r)
  PROVE  Community(q, r) \in TownOffers(q, r) /\ IsTerm(Community(q, r))
<1> DEFINE offer(s) == TownOn(s, r.area[s], TownField(r.area[s]), TownAsked(q))
           beats(one, two) ==
             \/ one.likeness > two.likeness
             \/ one.likeness = two.likeness /\ one.side = "L"
<1>1. \A s \in DOMAIN r.area :
        IsTerm(offer(s)) /\ offer(s).likeness \in Int /\ offer(s).side = s
  BY SidesOfRecord, AskedIsWord, TownIsTerm
<1> HIDE DEF offer
<1>2. TownOffers(q, r) = {offer(s) : s \in SidesCompared(q, r)}
  BY DEF TownOffers, offer
<1>3. \E one \in TownOffers(q, r) :
        \A two \in TownOffers(q, r) \ {one} : beats(one, two)
  <2>1. CASE \E s \in DOMAIN r.area : SidesCompared(q, r) = {s}
    BY <2>1, <1>2
  <2>2. CASE SidesCompared(q, r) = SideOf
    <3>1. TownOffers(q, r) = {offer("L"), offer("R")}
      BY <2>2, <1>2 DEF SideOf
    <3>2. "L" \in DOMAIN r.area /\ "R" \in DOMAIN r.area
      BY <2>2, ComparedSides DEF SideOf
    <3>3. /\ offer("L").likeness \in Int /\ offer("R").likeness \in Int
          /\ offer("L").side = "L"
      BY <3>2, <1>1
    <3>4. beats(offer("L"), offer("R")) \/ beats(offer("R"), offer("L"))
      BY <3>3
    <3> HIDE DEF beats
    <3> QED  BY <3>1, <3>4
  <2> QED  BY <2>1, <2>2, ComparedSides
<1>4. Community(q, r) = CHOOSE one \in TownOffers(q, r) :
        \A two \in TownOffers(q, r) \ {one} : beats(one, two)
  BY DEF Community
<1> HIDE DEF beats
<1>5. Community(q, r) \in TownOffers(q, r)
  BY <1>3, <1>4
<1> QED  BY <1>5, <1>1, <1>2, ComparedSides

(* The better of the sides is one of them. *)
LEMMA AreaIsAlike ==
  ASSUME NEW q, IsQuery(q), NEW r, IsRecord(r),
         NEW f \in Concept \intersect AreaField
  PROVE  AreaLikeness(q, r, f) \in Likenesses
<1> DEFINE like(s) == Similarity[f, q.says[f], r.area[s][f]]
           all == {like(s) : s \in SidesCompared(q, r)}
<1>1. \A s \in DOMAIN r.area : like(s) \in Likenesses /\ like(s) \in Int
  <2> SUFFICES ASSUME NEW s \in DOMAIN r.area
               PROVE  like(s) \in Likenesses /\ like(s) \in Int
    OBVIOUS
  <2>1. q.says[f] \in Word
    BY AskedIsWord DEF Field
  <2>2. r.area[s][f] \in Word
    BY SidesOfRecord
  <2> QED  BY <2>1, <2>2, Comparable
<1> HIDE DEF like
<1>2. \E v \in all : \A w \in all : v >= w
  <2>1. CASE \E s \in DOMAIN r.area : SidesCompared(q, r) = {s}
    BY <2>1, <1>1
  <2>2. CASE SidesCompared(q, r) = SideOf
    <3>1. all = {like("L"), like("R")}
      BY <2>2 DEF SideOf
    <3>2. "L" \in DOMAIN r.area /\ "R" \in DOMAIN r.area
      BY <2>2, ComparedSides DEF SideOf
    <3> QED  BY <3>1, <3>2, <1>1
  <2> QED  BY <2>1, <2>2, ComparedSides
<1>3. AreaLikeness(q, r, f) = CHOOSE v \in all : \A w \in all : v >= w
  BY DEF AreaLikeness, like
<1> QED  BY <1>1, <1>2, <1>3, ComparedSides

(* A record is compared with a query on terms. *)
LEMMA TermsAreTerms ==
  ASSUME NEW q, IsQuery(q), NEW r, IsRecord(r), NEW counts \in [Field -> Nat]
  PROVE  AreTerms(Terms(q, r, counts))
<1> SUFFICES ASSUME NEW c \in Concept
             PROVE  IsTerm(Compared(q, r, counts, c))
  BY DEF AreTerms, Terms
<1>1. CASE c = "St_Type"
  <2>1. /\ {"St_PosTyp", "St_PreTyp"} \subseteq StreetField
        /\ {"St_PosTyp", "St_PreTyp"} \subseteq Field
    BY DEF Field, StreetField
  <2>2. Asked(q, "St_PosTyp", "St_PreTyp") \in Word
    BY <2>1, AskedIsWord
  <2> QED  BY <1>1, <2>1, <2>2, SlotIsTerm DEF Compared
<1>2. CASE c = "St_Dir"
  <2>1. /\ {"St_PreDir", "St_PosDir"} \subseteq StreetField
        /\ {"St_PreDir", "St_PosDir"} \subseteq Field
    BY DEF Field, StreetField
  <2>2. Asked(q, "St_PreDir", "St_PosDir") \in Word
    BY <2>1, AskedIsWord
  <2> QED  BY <1>2, <2>1, <2>2, SlotIsTerm DEF Compared
<1>3. CASE c = "Community"
  BY <1>3, CommunityIsOffered DEF Compared
<1>4. CASE c = "St_Name"
  <2>1. c \in StreetField /\ c \in Field
    BY <1>4 DEF StreetField, Field
  <2>2. Similarity[c, q.says[c], r.street[c]] \in Likenesses
    BY <2>1, AskedIsWord, SidesOfRecord, Comparable
  <2> QED  BY <1>4, <2>1, <2>2 DEF Compared, IsTerm
<1>5. CASE c \in {"A2", "A1", "Country"}
  <2>1. c \in AreaField /\ c \in Field
    BY <1>5 DEF AreaField, Field
  <2> QED  BY <1>5, <2>1, AreaIsAlike DEF Compared, IsTerm
<1> QED  BY <1>1, <1>2, <1>3, <1>4, <1>5 DEF Concept
-----------------------------------------------------------------------------
(***************************************************************************)
(* The factor of a field                                                   *)
(***************************************************************************)
(* A bounded set of numbers has a largest. *)
LEMMA LargestExists ==
  ASSUME NEW n \in Nat, NEW S \in SUBSET (0 .. n), S # {}
  PROVE  \E m \in S : \A k \in S : m >= k
<1> DEFINE T == {n - k : k \in S}
<1>1. T \subseteq Nat /\ T # {}
  <2>1. \A k \in S : n - k \in Nat
    OBVIOUS
  <2> QED  BY <2>1
<1>2. PICK t \in T : \A u \in T : ~(<<u, t>> \in OpToRel(<, Nat))
  <2> HIDE DEF T
  <2> QED  BY <1>1, WFMin, NatLessThanWellFounded
<1>3. \A u \in T : ~(u < t)
  BY <1>1, <1>2 DEF OpToRel
<1>4. PICK m \in S : t = n - m
  OBVIOUS
<1>5. \A k \in S : ~(n - k < n - m)
  BY <1>3, <1>4
<1> HIDE DEF T
<1>6. m \in Nat /\ \A k \in S : k \in Nat
  OBVIOUS
<1> QED  BY <1>5, <1>6

IsLayer(rs) == \E l \in LayerOf : rs \in Seq(Attributes(SidesOf(l)))

(* What a layer holds are records. *)
LEMMA RecordsOfLayer ==
  ASSUME NEW rs, IsLayer(rs), NEW i \in DOMAIN rs
  PROVE  IsRecord(rs[i])
BY DEF IsLayer, IsRecord

(* The observations of a field are finitely many. *)
LEMMA PopulatedIsFinite ==
  ASSUME NEW rs, IsLayer(rs), NEW f
  PROVE  IsFiniteSet(Populated(rs, f)) /\ Cardinality(Populated(rs, f)) \in Nat
<1> DEFINE all == {"both", "own", "L", "R"}
<1>1. \A i \in DOMAIN rs : Sides(rs[i], f) \subseteq all
  BY RecordsOfLayer, SidesOfRecord DEF Sides, SideOf
<1>2. PICK n \in Nat : DOMAIN rs = 1 .. n
  BY DEF IsLayer
<1>3. Cells(rs, f) \subseteq (1 .. n) \X all
  BY <1>1, <1>2 DEF Cells
<1>4. Populated(rs, f) \in SUBSET ((1 .. n) \X all)
  BY <1>3 DEF Populated
<1>5. IsFiniteSet(all)
  <2>1. IsFiniteSet({"both"}) /\ IsFiniteSet({"own"})
        /\ IsFiniteSet({"L"}) /\ IsFiniteSet({"R"})
    BY FS_Singleton
  <2>2. IsFiniteSet({"both"} \union {"own"})
    BY <2>1, FS_Union
  <2>3. IsFiniteSet({"L"} \union {"R"})
    BY <2>1, FS_Union
  <2>4. IsFiniteSet(({"both"} \union {"own"}) \union ({"L"} \union {"R"}))
    BY <2>2, <2>3, FS_Union
  <2>5. all = ({"both"} \union {"own"}) \union ({"L"} \union {"R"})
    OBVIOUS
  <2> QED  BY <2>4, <2>5
<1>6. IsFiniteSet(1 .. n)
  BY FS_Interval
<1>7. IsFiniteSet((1 .. n) \X all)
  <2> HIDE DEF all
  <2> QED  BY <1>5, <1>6, FS_Product
<1>8. IsFiniteSet(Populated(rs, f))
  BY <1>4, <1>7, FS_Subset
<1> QED  BY <1>8, FS_CardinalityType

(* The most common value occurs at most as often as any value at all, and  *)
(* just as often where there is no other.                                  *)
LEMMA MostCommonIsSome ==
  ASSUME NEW rs, IsLayer(rs), NEW f, Populated(rs, f) # {}
  PROVE  /\ MostCommon(rs, f) \in 0 .. Cardinality(Populated(rs, f))
         /\ (\A c, d \in Populated(rs, f) :
               CellSays(rs, f, c) = CellSays(rs, f, d))
              => MostCommon(rs, f) = Cardinality(Populated(rs, f))
<1> DEFINE P == Populated(rs, f)
           same(c) == {d \in P : CellSays(rs, f, d) = CellSays(rs, f, c)}
           counted == {Cardinality(same(c)) : c \in P}
<1>1. IsFiniteSet(P) /\ Cardinality(P) \in Nat
  BY PopulatedIsFinite
<1>2. \A c \in P : Cardinality(same(c)) \in 0 .. Cardinality(P)
  <2> SUFFICES ASSUME NEW c \in P
               PROVE  Cardinality(same(c)) \in 0 .. Cardinality(P)
    OBVIOUS
  <2>1. same(c) \in SUBSET P
    OBVIOUS
  <2>2. IsFiniteSet(same(c)) /\ Cardinality(same(c)) <= Cardinality(P)
    <3> HIDE DEF same, P
    <3> QED  BY <1>1, <2>1, FS_Subset
  <2>3. Cardinality(same(c)) \in Nat
    BY <2>2, FS_CardinalityType
  <2> HIDE DEF same, P
  <2> QED  BY <1>1, <2>2, <2>3
<1>3. counted \in SUBSET (0 .. Cardinality(P)) /\ counted # {}
  <2> HIDE DEF same
  <2> QED  BY <1>2
<1>4. \E m \in counted : \A k \in counted : m >= k
  <2> HIDE DEF counted, P
  <2> QED  BY <1>1, <1>3, LargestExists
<1>5. MostCommon(rs, f) = CHOOSE m \in counted : \A k \in counted : m >= k
  BY DEF MostCommon, Max
<1>6. MostCommon(rs, f) \in counted
  <2> HIDE DEF counted
  <2> QED  BY <1>4, <1>5
<1>7. ASSUME \A c, d \in P : CellSays(rs, f, c) = CellSays(rs, f, d)
      PROVE  \A c \in P : same(c) = P
  BY <1>7
<1>8. MostCommon(rs, f) \in 0 .. Cardinality(P)
  BY <1>3, <1>6
<1>9. (\A c \in P : same(c) = P) => MostCommon(rs, f) = Cardinality(P)
  BY <1>6
<1> QED  BY <1>7, <1>8, <1>9

(* A share of the grain is at most the grain, and all of it for the whole. *)
LEMMA DivisionOfGrain ==
  ASSUME NEW g \in Nat, NEW n \in Nat \ {0}, NEW m \in 0 .. n
  PROVE  (g * m) \div n \in 0 .. g /\ (g * n) \div n = g
<1> DEFINE d == n - m
           p == g * m
           e == g * d
<1>1. d \in Nat /\ n = m + d
  OBVIOUS
<1>2. g * n = p + e
  BY <1>1, Z3
<1>3. p \in Nat /\ e \in Nat
  BY <1>1, Z3
<1>4. (g * n) \div n = g
  BY Z3
<1>5. p <= g * n
  <2> HIDE DEF p, e
  <2> QED  BY <1>2, <1>3
<1>6. p \div n \in Nat /\ (p \div n) * n <= p
  <2> HIDE DEF p, e
  <2> QED  BY <1>3, Z3
<1>7. p \div n <= g
  <2> DEFINE q == p \div n
  <2> HIDE DEF p, e, q
  <2>1. q \in Nat /\ q * n <= g * n
    <3>1. q \in Nat /\ q * n <= p
      BY <1>6 DEF q
    <3>2. q * n \in Int /\ g * n \in Int
      BY <3>1
    <3> QED  BY <3>1, <3>2, <1>3, <1>5
  <2>2. q <= g
    BY <2>1, Z3
  <2> QED  BY <2>2 DEF q
<1> QED  BY <1>4, <1>6, <1>7 DEF p

(* A factor is a share of the grain; a field with one value has none.      *)
LEMMA FactorIsShare ==
  ASSUME NEW rs, IsLayer(rs), NEW f
  PROVE  /\ Factor(rs, f) \in 0 .. Grain
         /\ /\ Cardinality(Populated(rs, f)) >= MinPopulation
            /\ \A c, d \in Populated(rs, f) :
                 CellSays(rs, f, c) = CellSays(rs, f, d)
            => Factor(rs, f) = 0
<1> DEFINE n == Cardinality(Populated(rs, f))
           share == (Grain * MostCommon(rs, f)) \div n
<1>1. n \in Nat /\ Grain \in Nat /\ MinPopulation \in Nat \ {0}
  BY PopulatedIsFinite, ScoringAssumption
<1>2. Factor(rs, f) = IF n < MinPopulation THEN Grain ELSE Grain - share
  BY DEF Factor
<1>3. CASE n < MinPopulation
  <2>1. ~(n >= MinPopulation) /\ Factor(rs, f) = Grain
    <3> HIDE DEF n, share
    <3> QED  BY <1>1, <1>2, <1>3
  <2> QED  BY <1>1, <2>1
<1>4. CASE ~(n < MinPopulation)
  <2>1. n # 0
    <3> HIDE DEF n
    <3> QED  BY <1>1, <1>4
  <2>2. Populated(rs, f) # {}
    BY <2>1, FS_EmptySet
  <2>3. share \in 0 .. Grain /\ (Grain * n) \div n = Grain
    <3>1. MostCommon(rs, f) \in 0 .. n
      BY <2>2, MostCommonIsSome
    <3> HIDE DEF n
    <3> QED  BY <1>1, <2>1, <3>1, DivisionOfGrain DEF share
  <2>4. (\A c, d \in Populated(rs, f) :
           CellSays(rs, f, c) = CellSays(rs, f, d)) => share = Grain
    BY <2>2, <2>3, MostCommonIsSome
  <2> HIDE DEF n, share
  <2> QED  BY <1>1, <1>2, <1>4, <2>3, <2>4
<1> QED  BY <1>3, <1>4
-----------------------------------------------------------------------------
(***************************************************************************)
(* The score                                                               *)
(***************************************************************************)
(* What is earned is a share of what is possible, and all of it only where *)
(* all that has a weight agrees.                                           *)
LEMMA ScoreIsShare ==
  ASSUME NEW ts, AreTerms(ts), NEW factors \in [Field -> 0 .. Grain]
  PROVE  /\ Possible(ts, factors) \in Nat
         /\ Earned(ts, factors) \in 0 .. Possible(ts, factors)
         /\ Earned(ts, factors) = Possible(ts, factors) =>
              \A c \in Concept : \/ ts[c].similarity \in {Null, Whole}
                                 \/ Weight(ts[c], c, factors) = 0
<1> DEFINE w(c) == Weight(ts[c], c, factors)
           e == [c \in Concept |-> IF Counts(ts[c], c, factors)
                                   THEN ts[c].similarity * w(c) ELSE 0]
           p == [c \in Concept |-> IF Counts(ts[c], c, factors)
                                   THEN Whole * w(c) ELSE 0]
<1>1. \A c \in Concept : w(c) \in Nat
  <2> SUFFICES ASSUME NEW c \in Concept
               PROVE  w(c) \in Nat
    OBVIOUS
  <2>1. BaseWeight[c] \in Nat
    BY DEF BaseWeight
  <2>2. factors[ts[c].field] \in Nat
    BY ScoringAssumption DEF AreTerms, IsTerm
  <2>3. \A a, b \in Nat : a * b \in Nat
    BY Z3
  <2> QED  BY <2>1, <2>2, <2>3 DEF Weight
<1>2. ASSUME NEW c \in Concept
      PROVE  /\ e[c] \in Nat /\ p[c] \in Nat /\ e[c] <= p[c]
             /\ e[c] = p[c] => ts[c].similarity \in {Null, Whole} \/ w(c) = 0
  <2>1. CASE ~Counts(ts[c], c, factors)
    <3>1. e[c] = 0 /\ p[c] = 0
      BY <2>1
    <3>2. ts[c].similarity = Null \/ ~(w(c) > 0)
      BY <2>1 DEF Counts
    <3> HIDE DEF e, p, w
    <3> QED  BY <3>1, <3>2, <1>1
  <2>2. CASE Counts(ts[c], c, factors)
    <3>1. ts[c].similarity \in 0 .. Whole
      BY <2>2 DEF Counts, AreTerms, IsTerm, Likenesses
    <3>2. e[c] = ts[c].similarity * w(c) /\ p[c] = Whole * w(c)
      BY <2>2
    <3> DEFINE s == ts[c].similarity
               v == w(c)
    <3>3. s \in 0 .. Whole /\ v \in Nat
      BY <3>1, <1>1
    <3>4. e[c] = s * v /\ p[c] = Whole * v
      BY <3>2
    <3> HIDE DEF e, p, w, s, v
    <3>5. /\ e[c] \in Nat /\ p[c] \in Nat /\ e[c] <= p[c]
          /\ e[c] = p[c] => s = Whole \/ v = 0
      BY <3>3, <3>4, ShareOfWeight
    <3> QED  BY <3>5 DEF s, v
  <2> QED  BY <2>1, <2>2
<1>3. e \in [Concept -> Nat] /\ p \in [Concept -> Nat]
  <2>1. \A c \in Concept : e[c] \in Nat /\ p[c] \in Nat
    BY <1>2
  <2>2. DOMAIN e = Concept /\ DOMAIN p = Concept
    OBVIOUS
  <2>3. e = [c \in Concept |-> e[c]] /\ p = [c \in Concept |-> p[c]]
    OBVIOUS
  <2> HIDE DEF e, p
  <2> QED  BY <2>1, <2>2, <2>3
<1>4. Earned(ts, factors) = Total(e) /\ Possible(ts, factors) = Total(p)
  BY DEF Earned, Possible
<1>5. \A c \in Concept : e[c] <= p[c]
  BY <1>2
<1> HIDE DEF e, p
<1>6. /\ Total(e) \in Nat /\ Total(p) \in Nat /\ Total(e) <= Total(p)
      /\ Total(e) = Total(p) => \A c \in Concept : e[c] = p[c]
  BY <1>3, <1>5, TotalIsMonotone
<1> QED  BY <1>2, <1>4, <1>6

(* A score earns what its terms do, or nothing. *)
LEMMA ScoreParts ==
  ASSUME NEW q, NEW r, NEW ts, NEW factors
  PROVE  LET s == Score(q, r, ts, factors)
         IN  /\ s.possible = Possible(ts, factors)
             /\ s.earned \in {Earned(ts, factors), 0}
<1> DEFINE s == Score(q, r, ts, factors)
           gate == NameQualifies[q.says["St_Name"], r.street["St_Name"]]
<1>1. s = [earned   |-> IF gate THEN Earned(ts, factors) ELSE 0,
           possible |-> Possible(ts, factors)]
  BY DEF Score
<1> HIDE DEF s, gate
<1>2. /\ s.possible = Possible(ts, factors)
      /\ s.earned \in {Earned(ts, factors), 0}
  BY <1>1
<1> QED  BY <1>2 DEF s

-----------------------------------------------------------------------------
(***************************************************************************)
(* The invariant: scores are what the records and their layers make them   *)
(***************************************************************************)
Scored ==
  /\ \A l \in LayerOf : layer[l] \in Seq(Attributes(SidesOf(l)))
  /\ factor = [l \in LayerOf |-> [f \in Field |-> Factor(layer[l], f)]]
  /\ count \in [LayerOf -> [Field -> Nat]]
  /\ query = NoQuery \/ query \in Queries
  /\ \A l \in LayerOf : \A i \in DOMAIN scores[l] :
       /\ i \in DOMAIN layer[l]
       /\ terms[l][i] = Terms(query, layer[l][i], count[l])
       /\ scores[l][i] = Score(query, layer[l][i], terms[l][i], factor[l])

(* A layer as loaded holds records: a cleaned cell is a word.              *)
LEMMA LoadedLayers ==
  ASSUME NEW rows \in Layers, NEW l \in LayerOf
  PROVE  [i \in DOMAIN rows[l] |-> Record(rows[l][i])]
           \in Seq(Attributes(SidesOf(l)))
<1>1. rows[l] \in Seq(Attributes(SidesOf(l)))
  BY ScoringAssumption
<1>2. ASSUME NEW r \in Attributes(SidesOf(l))
      PROVE  Record(r) \in Attributes(SidesOf(l))
  <2>1. /\ r.street \in [StreetField -> Word]
        /\ r.area \in [SidesOf(l) -> [AreaField -> Word]]
        /\ r.segment \in Segment(Nat, Nat)
    BY DEF Attributes
  <2>2. \A w \in Word : Clean[w] \in Word
    BY WordAssumption
  <2> DEFINE street == [f \in StreetField |-> Clean[r.street[f]]]
             area == [s \in DOMAIN r.area |->
                        [f \in AreaField |-> Clean[r.area[s][f]]]]
  <2>3. street \in [StreetField -> Word]
    BY <2>1, <2>2
  <2>4. area \in [SidesOf(l) -> [AreaField -> Word]]
    BY <2>1, <2>2
  <2>5. Record(r) = [street |-> street, area |-> area, segment |-> r.segment]
    BY DEF Record
  <2> HIDE DEF street, area
  <2> QED  BY <2>1, <2>3, <2>4, <2>5 DEF Attributes
<1> QED  BY <1>1, <1>2

(* Scored holds when the layers have been loaded. *)
LEMMA InitScored == Init => Scored
<1> SUFFICES ASSUME Init PROVE Scored
  OBVIOUS
<1>1. \A l \in LayerOf : layer[l] \in Seq(Attributes(SidesOf(l)))
  <2>1. PICK rows \in Layers :
          layer = [l \in LayerOf |-> [i \in DOMAIN rows[l] |->
                                        Record(rows[l][i])]]
    BY DEF Init
  <2> QED  BY <2>1, LoadedLayers
<1>2. \A l \in LayerOf, f \in Field :
        Cardinality(Populated(layer[l], f)) \in Nat
  BY <1>1, PopulatedIsFinite DEF IsLayer
<1>3. count \in [LayerOf -> [Field -> Nat]]
  BY <1>2 DEF Init
<1>4. \A l \in LayerOf : DOMAIN scores[l] = {}
  BY DEF Init
<1> QED  BY <1>1, <1>3, <1>4 DEF Init, Scored

(* Scored holds after every request. *)
LEMMA NextScored == Scored /\ [Next]_vars => Scored'
<1> SUFFICES ASSUME Scored, [Next]_vars PROVE Scored'
  OBVIOUS
<1>1. CASE UNCHANGED vars
  BY <1>1 DEF Scored, vars
<1>2. ASSUME NEW q \in Queries, Ask(q)
      PROVE  Scored'
  <2>1. layer' = layer /\ factor' = factor /\ count' = count /\ query' = q
    BY <1>2 DEF Ask
  <2>2. \A l \in LayerOf : \A i \in DOMAIN layer[l] :
          terms'[l][i] = Terms(q, layer[l][i], count[l])
    BY <1>2 DEF Ask
  <2>3. \A l \in LayerOf : DOMAIN scores'[l] = DOMAIN layer[l]
    BY <1>2 DEF Ask
  <2>4. \A l \in LayerOf : \A i \in DOMAIN layer[l] :
          scores'[l][i] = Score(q, layer[l][i], terms'[l][i], factor[l])
    BY <1>2 DEF Ask
  <2> QED  BY <2>1, <2>2, <2>3, <2>4 DEF Scored
<1> QED  BY <1>1, <1>2 DEF Next

(* Scores are always what the records and their layers make them. *)
LEMMA AlwaysScored == Spec => []Scored
<1> QED  BY InitScored, NextScored, PTL DEF Spec

(* What Scored says of the types of things. *)
LEMMA ScoredTypes ==
  ASSUME Scored
  PROVE  /\ IsQuery(query)
         /\ \A l \in LayerOf : IsLayer(layer[l])
         /\ factor \in [LayerOf -> [Field -> 0 .. Grain]]
         /\ \A l \in LayerOf : \A i \in DOMAIN scores[l] :
              IsRecord(layer[l][i]) /\ AreTerms(terms[l][i])
<1>1. IsQuery(query)
  BY ScoringAssumption DEF Scored, IsQuery, NoQuery
<1>2. \A l \in LayerOf : IsLayer(layer[l])
  BY DEF Scored, IsLayer
<1>3. \A l \in LayerOf, f \in Field : Factor(layer[l], f) \in 0 .. Grain
  BY <1>2, FactorIsShare
<1>4. factor \in [LayerOf -> [Field -> 0 .. Grain]]
  BY <1>3 DEF Scored
<1>5. ASSUME NEW l \in LayerOf, NEW i \in DOMAIN scores[l]
      PROVE  IsRecord(layer[l][i]) /\ AreTerms(terms[l][i])
  <2>1. i \in DOMAIN layer[l]
    BY DEF Scored
  <2>2. IsRecord(layer[l][i])
    BY <2>1, <1>2, RecordsOfLayer
  <2>3. count[l] \in [Field -> Nat]
    BY DEF Scored
  <2>4. AreTerms(Terms(query, layer[l][i], count[l]))
    BY <1>1, <2>2, <2>3, TermsAreTerms
  <2> QED  BY <2>2, <2>4 DEF Scored
<1> QED  BY <1>1, <1>2, <1>4, <1>5

(* No score is below 0 or above 100, so MatchQuality refuses none          *)
(* (scoring.py:1022), and every factor is a share.                         *)
THEOREM ScoresAreShares == Spec => []TypeOK
<1>1. Scored => TypeOK
  <2> SUFFICES ASSUME Scored PROVE TypeOK
    OBVIOUS
  <2>1. ASSUME NEW l \in LayerOf, NEW i \in DOMAIN scores[l]
        PROVE  /\ scores[l][i].possible \in Nat
               /\ scores[l][i].earned \in 0 .. scores[l][i].possible
    <3> DEFINE ts == terms[l][i]
    <3>1. AreTerms(ts) /\ factor[l] \in [Field -> 0 .. Grain]
      BY ScoredTypes
    <3>2. /\ Possible(ts, factor[l]) \in Nat
          /\ Earned(ts, factor[l]) \in 0 .. Possible(ts, factor[l])
      <4> HIDE DEF ts
      <4> QED  BY <3>1, ScoreIsShare
    <3>3. scores[l][i] = Score(query, layer[l][i], ts, factor[l])
      BY DEF Scored
    <3>4. /\ scores[l][i].possible = Possible(ts, factor[l])
          /\ scores[l][i].earned \in {Earned(ts, factor[l]), 0}
      <4> HIDE DEF ts
      <4> QED  BY <3>3, ScoreParts
    <3> HIDE DEF ts
    <3> QED  BY <3>2, <3>4
  <2> QED  BY <2>1, ScoredTypes DEF TypeOK, Scored
<1> QED  BY <1>1, AlwaysScored, PTL

(* A full score is a full match: everything compared that has a weight     *)
(* agrees, whatever a similarity is.                                       *)
THEOREM PerfectScoresAgree == Spec => []PerfectOnlyIfAgreed
<1>1. Scored => PerfectOnlyIfAgreed
  <2> SUFFICES ASSUME Scored,
                      NEW l \in LayerOf, NEW i \in DOMAIN scores[l],
                      Perfect(scores[l][i]), NEW c \in Concept
               PROVE  \/ terms[l][i][c].similarity \in {Null, Whole}
                      \/ Weight(terms[l][i][c], c, factor[l]) = 0
    BY DEF PerfectOnlyIfAgreed
  <2> DEFINE ts == terms[l][i]
  <2>1. AreTerms(ts) /\ factor[l] \in [Field -> 0 .. Grain]
    BY ScoredTypes
  <2>2. scores[l][i] = Score(query, layer[l][i], ts, factor[l])
    BY DEF Scored
  <2> HIDE DEF ts
  <2>3. /\ scores[l][i].possible = Possible(ts, factor[l])
        /\ scores[l][i].earned \in {Earned(ts, factor[l]), 0}
    BY <2>2, ScoreParts
  <2>4. Earned(ts, factor[l]) = Possible(ts, factor[l])
    BY <2>1, <2>3, ScoreIsShare DEF Perfect
  <2> QED  BY <2>1, <2>4, ScoreIsShare DEF ts
<1> QED  BY <1>1, AlwaysScored, PTL

(* Of two sides one is alone if it is the left one or the right one. *)
LEMMA OneOfTwo ==
  ASSUME NEW S \in SUBSET SideOf
  PROVE  Cardinality(S) = 1 <=> (S = {"L"} \/ S = {"R"})
<1>1. S = {} \/ S = {"L"} \/ S = {"R"} \/ S = {"L", "R"}
  BY DEF SideOf
<1>2. Cardinality({"L"}) = 1 /\ Cardinality({"R"}) = 1 /\ Cardinality({}) = 0
  BY FS_Singleton, FS_EmptySet
<1>3. Cardinality({"L", "R"}) = 2
  <2>1. IsFiniteSet({"L"}) /\ "R" \notin {"L"}
    BY FS_Singleton
  <2>2. Cardinality({"L"} \union {"R"}) = Cardinality({"L"}) + 1
    BY <2>1, FS_AddElement
  <2>3. {"L"} \union {"R"} = {"L", "R"}
    OBVIOUS
  <2> QED  BY <1>2, <2>2, <2>3
<1> QED  BY <1>1, <1>2, <1>3

PartOf(n) == IF n % 2 = 0 THEN "E" ELSE "O"
SidesOfParity(q, r) ==
  {s \in SideOf : r.segment.sides[s].parity = PartOf(q.number)}

(* The side a centerline is compared on is the only one of the parity.     *)
LEMMA HintOfRoad ==
  ASSUME NEW q, NEW r, DOMAIN r.area = SideOf
  PROVE  \/ SideHint(q, r) = NoSide /\
              (q.number = Null \/ \A s \in SideOf : SidesOfParity(q, r) # {s})
         \/ /\ q.number # Null
            /\ SideHint(q, r) \in SideOf
            /\ SidesOfParity(q, r) = {SideHint(q, r)}
<1> DEFINE S == SidesOfParity(q, r)
<1>1. S \in SUBSET SideOf /\ "own" \notin DOMAIN r.area
  BY DEF SidesOfParity, SideOf
<1>2. SideHint(q, r) =
        IF q.number = Null \/ Cardinality(S) # 1 THEN NoSide
        ELSE CHOOSE s \in S : TRUE
  BY <1>1 DEF SideHint, SidesOfParity, PartOf
<1> HIDE DEF S
<1>3. CASE q.number = Null \/ Cardinality(S) # 1
  BY <1>1, <1>2, <1>3, OneOfTwo DEF S, SideOf
<1>4. CASE q.number # Null /\ Cardinality(S) = 1
  BY <1>1, <1>2, <1>4, OneOfTwo DEF S, SideOf
<1> QED  BY <1>3, <1>4

(* Where parities are odd or even, a number that is asserted by parity and *)
(* range is placed on the side it is scored on.                            *)
LEMMA AssertedSide ==
  ASSUME NEW q, IsQuery(q), q.number # Null,
         NEW r \in Attributes(SideOf),
         OddOrEven(r.segment), IsAsserted(r.segment, q.number),
         SideHint(q, r) # NoSide
  PROVE  SelectSide(r.segment, q.number).side = SideHint(q, r)
<1> DEFINE seg == r.segment
           n == q.number
           h == SideHint(q, r)
           claims == {x \in SideRanges(seg) : Contains(x, n)}
           fits   == {x \in claims : ParityAdmits(x, n)}
           best   == IF Cardinality(fits) = 1 THEN fits ELSE claims
<1>1. h \in SideOf /\ SidesOfParity(q, r) = {h}
  BY HintOfRoad DEF Attributes
<1>2. n \in Nat /\ (n % 2 = 0 \/ n % 2 = 1)
  BY DEF IsQuery
<1>3. ASSUME NEW x \in fits
      PROVE  x = SideRange(seg, h)
  <2>1. PICK s \in SideOf : x = SideRange(seg, s)
    BY DEF SideRanges
  <2>2. x.parity = seg.sides[s].parity /\ x.parity \in {"E", "O"}
    BY <2>1 DEF SideRange, OddOrEven
  <2>3. x.parity = PartOf(n)
    BY <1>2, <2>2 DEF ParityAdmits, PartOf
  <2>4. s \in SidesOfParity(q, r)
    BY <2>2, <2>3 DEF SidesOfParity
  <2> QED  BY <1>1, <2>1, <2>4
<1>4. fits # {} /\ fits \subseteq claims
  BY DEF IsAsserted
<1>5. fits = {SideRange(seg, h)}
  <2> HIDE DEF fits
  <2> QED  BY <1>3, <1>4
<1>6. Cardinality(fits) = 1
  BY <1>5, FS_Singleton
<1>7. SelectSide(seg, n) =
        CHOOSE x \in {SideRange(seg, h)} :
          x.side = "L" \/ {SideRange(seg, h)} = {x}
  <2>1. SelectSide(seg, n) = IF claims = {} THEN NoRange
          ELSE CHOOSE x \in best : x.side = "L" \/ best = {x}
    BY DEF SelectSide
  <2> HIDE DEF fits, claims
  <2> QED  BY <1>4, <1>5, <1>6, <2>1
<1>8. SelectSide(seg, n) = SideRange(seg, h)
  BY <1>7
<1> QED  BY <1>8 DEF SideRange

(* A house number the data asserts is scored on the side it is placed on:  *)
(* the hint of scoring.py:930 and the selection of position.py agree on it.*)
THEOREM AssertedNumbersAgree == Spec => []AssertedScoredWherePlaced
<1>1. Scored => AssertedScoredWherePlaced
  <2> SUFFICES ASSUME Scored, query.number # Null,
                      NEW i \in DOMAIN layer["rcl"],
                      OddOrEven(layer["rcl"][i].segment),
                      IsAsserted(layer["rcl"][i].segment, query.number),
                      SideHint(query, layer["rcl"][i]) # NoSide
               PROVE  SelectSide(layer["rcl"][i].segment, query.number).side
                        = SideHint(query, layer["rcl"][i])
    BY DEF AssertedScoredWherePlaced
  <2>1. "rcl" \in LayerOf /\ SidesOf("rcl") = SideOf
    BY DEF LayerOf, SidesOf
  <2>2. layer["rcl"] \in Seq(Attributes(SideOf))
    BY <2>1 DEF Scored
  <2>3. layer["rcl"][i] \in Attributes(SideOf)
    BY <2>2
  <2> QED  BY <2>3, ScoredTypes, AssertedSide
<1> QED  BY <1>1, AlwaysScored, PTL

-----------------------------------------------------------------------------
(***************************************************************************)
(* Left and right exchanged                                                *)
(***************************************************************************)
(* The sides of a mirrored record are those of the record, exchanged.      *)
LEMMA MirrorFacts ==
  ASSUME NEW r \in Attributes(SideOf)
  PROVE  LET m == Mirrored(r)
         IN  /\ m \in Attributes(SideOf)
             /\ m.street = r.street
             /\ \A s \in SideOf :
                  /\ m.area[s] = r.area[OtherSide(s)]
                  /\ m.segment.sides[s] = r.segment.sides[OtherSide(s)]
<1> DEFINE area  == [s \in SideOf |-> r.area[OtherSide(s)]]
           sides == [s \in SideOf |-> r.segment.sides[OtherSide(s)]]
           seg   == [r.segment EXCEPT !.sides = sides]
           m     == Mirrored(r)
<1>1. /\ r = [street |-> r.street, area |-> r.area, segment |-> r.segment]
      /\ r.street \in [StreetField -> Word]
      /\ r.area \in [SideOf -> [AreaField -> Word]]
      /\ r.segment \in Segment(Nat, Nat)
  BY DEF Attributes
<1>2. \A s \in SideOf : OtherSide(s) \in SideOf
  BY DEF OtherSide, SideOf
<1>3. area \in [SideOf -> [AreaField -> Word]]
  BY <1>1, <1>2
<1>4. /\ r.segment = [sides     |-> r.segment.sides,
                      length    |-> r.segment.length,
                      multipart |-> r.segment.multipart]
      /\ r.segment.sides \in [SideOf -> SideAttributes(Nat)]
      /\ r.segment.length \in Nat /\ r.segment.multipart \in BOOLEAN
  BY <1>1 DEF Segment
<1>5. sides \in [SideOf -> SideAttributes(Nat)]
  BY <1>2, <1>4
<1>6. seg = [sides |-> sides, length |-> r.segment.length,
             multipart |-> r.segment.multipart]
  <2> HIDE DEF sides
  <2> QED  BY <1>4
<1>7. seg \in Segment(Nat, Nat) /\ seg.sides = sides
  <2> HIDE DEF sides, seg
  <2> QED  BY <1>4, <1>5, <1>6 DEF Segment
<1>8. m = [street |-> r.street, area |-> area, segment |-> seg]
  <2>1. m = [r EXCEPT !.area = area, !.segment.sides = sides]
    BY DEF Mirrored
  <2> HIDE DEF m, area, sides
  <2> QED  BY <1>1, <2>1
<1>9. m \in Attributes(SideOf) /\ m.street = r.street
      /\ m.area = area /\ m.segment.sides = sides
  <2> HIDE DEF m, area, sides, seg
  <2> QED  BY <1>1, <1>3, <1>7, <1>8 DEF Attributes
<1>10. \A s \in SideOf : /\ m.area[s] = r.area[OtherSide(s)]
                         /\ m.segment.sides[s] = r.segment.sides[OtherSide(s)]
  BY <1>9
<1> HIDE DEF m
<1> QED  BY <1>9, <1>10 DEF m

(* The sides compared are the same ones, by their other names.             *)
LEMMA MirrorSides ==
  ASSUME NEW q, NEW r \in Attributes(SideOf), NEW s \in SideOf
  PROVE  /\ s \in SidesCompared(q, Mirrored(r))
              <=> OtherSide(s) \in SidesCompared(q, r)
         /\ SidesCompared(q, r) \subseteq SideOf
         /\ SidesCompared(q, Mirrored(r)) \subseteq SideOf
<1> DEFINE m == Mirrored(r)
           H == SideHint(q, r)
           G == SideHint(q, m)
           S == SidesOfParity(q, r)
           M == SidesOfParity(q, m)
<1>1. /\ m \in Attributes(SideOf)
      /\ DOMAIN r.area = SideOf /\ DOMAIN m.area = SideOf
  BY MirrorFacts DEF Attributes
<1>2. \A t \in SideOf : t \in M <=> OtherSide(t) \in S
  <2>1. \A t \in SideOf : OtherSide(t) \in SideOf
    BY DEF OtherSide, SideOf
  <2>2. \A t \in SideOf : m.segment.sides[t] = r.segment.sides[OtherSide(t)]
    BY MirrorFacts
  <2> HIDE DEF m
  <2> QED  BY <2>1, <2>2 DEF SidesOfParity
<1>3. S \subseteq SideOf /\ M \subseteq SideOf
  BY DEF SidesOfParity
<1>4. /\ \/ H = NoSide /\ (q.number = Null \/ \A t \in SideOf : S # {t})
         \/ q.number # Null /\ H \in SideOf /\ S = {H}
      /\ \/ G = NoSide /\ (q.number = Null \/ \A t \in SideOf : M # {t})
         \/ q.number # Null /\ G \in SideOf /\ M = {G}
  <2> HIDE DEF m
  <2> QED  BY <1>1, HintOfRoad
<1>5. /\ SidesCompared(q, r) = IF H = NoSide THEN SideOf ELSE {H}
      /\ SidesCompared(q, m) = IF G = NoSide THEN SideOf ELSE {G}
  <2> HIDE DEF m
  <2> QED  BY <1>1 DEF SidesCompared
<1> HIDE DEF m, H, G, S, M
<1>6. "L" # "R" /\ NoSide # "L" /\ NoSide # "R"
  BY DEF NoSide
<1>7. OtherSide("L") = "R" /\ OtherSide("R") = "L"
  BY DEF OtherSide
<1>8. SideOf = {"L", "R"}
  BY DEF SideOf
<1>9. /\ "L" \in M <=> "R" \in S
      /\ "R" \in M <=> "L" \in S
  BY <1>2, <1>7, <1>8
<1>10. S = {} \/ S = {"L"} \/ S = {"R"} \/ S = {"L", "R"}
  BY <1>3, <1>8
<1>11. /\ S = {} => M = {}
       /\ S = {"L"} => M = {"R"}
       /\ S = {"R"} => M = {"L"}
       /\ S = {"L", "R"} => M = {"L", "R"}
  BY <1>3, <1>6, <1>8, <1>9
<1>12. \/ H = NoSide /\ G = NoSide
       \/ H = "L" /\ G = "R"
       \/ H = "R" /\ G = "L"
  <2>1. CASE q.number = Null
    BY <2>1, <1>4
  <2>2. CASE q.number # Null /\ (S = {} \/ S = {"L", "R"})
    BY <2>2, <1>4, <1>6, <1>11
  <2>3. CASE q.number # Null /\ S = {"L"}
    BY <2>3, <1>4, <1>6, <1>8, <1>11
  <2>4. CASE q.number # Null /\ S = {"R"}
    BY <2>4, <1>4, <1>6, <1>8, <1>11
  <2> QED  BY <2>1, <2>2, <2>3, <2>4, <1>10
<1>13. /\ s \in SidesCompared(q, m) <=> OtherSide(s) \in SidesCompared(q, r)
       /\ SidesCompared(q, r) \subseteq SideOf
       /\ SidesCompared(q, m) \subseteq SideOf
  BY <1>5, <1>6, <1>7, <1>8, <1>12
<1> QED  BY <1>13 DEF m

(* The town compared is at least as alike as that of any other side.       *)
LEMMA CommunityIsMostAlike ==
  ASSUME NEW q, IsQuery(q), NEW r \in Attributes(SideOf)
  PROVE  /\ Community(q, r) \in TownOffers(q, r)
         /\ \A t \in TownOffers(q, r) :
              t.likeness \in Int /\ Community(q, r).likeness >= t.likeness
<1> DEFINE offer(s) == TownOn(s, r.area[s], TownField(r.area[s]), TownAsked(q))
           beats(one, two) ==
             \/ one.likeness > two.likeness
             \/ one.likeness = two.likeness /\ one.side = "L"
           best == Community(q, r)
<1>1. IsRecord(r) /\ DOMAIN r.area = SideOf
  BY DEF IsRecord, Attributes, SidesOf, LayerOf
<1>2. \A s \in SideOf : offer(s).likeness \in Int /\ offer(s).side = s
  BY <1>1, SidesOfRecord, AskedIsWord, TownIsTerm
<1> HIDE DEF offer
<1>3. TownOffers(q, r) = {offer(s) : s \in SidesCompared(q, r)}
  BY DEF TownOffers, offer
<1>4. \A t \in TownOffers(q, r) : t.likeness \in Int
  BY <1>1, <1>2, <1>3, ComparedSides
<1>5. best \in TownOffers(q, r)
  BY <1>1, CommunityIsOffered
<1>6. \A t \in TownOffers(q, r) \ {best} : beats(best, t)
  <2>1. \E one \in TownOffers(q, r) :
          \A two \in TownOffers(q, r) \ {one} : beats(one, two)
    <3>1. CASE \E s \in SideOf : SidesCompared(q, r) = {s}
      BY <3>1, <1>3
    <3>2. CASE SidesCompared(q, r) = SideOf
      <4>1. TownOffers(q, r) = {offer("L"), offer("R")}
        BY <3>2, <1>3 DEF SideOf
      <4>2. /\ offer("L").likeness \in Int /\ offer("R").likeness \in Int
            /\ offer("L").side = "L"
        BY <1>2 DEF SideOf
      <4>3. beats(offer("L"), offer("R")) \/ beats(offer("R"), offer("L"))
        BY <4>2
      <4> HIDE DEF beats
      <4> QED  BY <4>1, <4>3
    <3> QED  BY <3>1, <3>2, <1>1, ComparedSides
  <2>2. best = CHOOSE one \in TownOffers(q, r) :
                 \A two \in TownOffers(q, r) \ {one} : beats(one, two)
    BY DEF Community
  <2> HIDE DEF beats, best
  <2> QED  BY <2>1, <2>2
<1> HIDE DEF best
<1>7. \A t \in TownOffers(q, r) :
        t.likeness \in Int /\ best.likeness >= t.likeness
  BY <1>4, <1>5, <1>6
<1> QED  BY <1>5, <1>7 DEF best

(* What a side of a mirrored record offers, the other side of the record   *)
(* does.                                                                   *)
LEMMA MirrorOffers ==
  ASSUME NEW q, NEW r \in Attributes(SideOf)
  PROVE  /\ \A t \in TownOffers(q, Mirrored(r)) : \E u \in TownOffers(q, r) :
              t.likeness = u.likeness /\ Unsided(t) = Unsided(u)
         /\ \A u \in TownOffers(q, r) : \E t \in TownOffers(q, Mirrored(r)) :
              t.likeness = u.likeness /\ Unsided(t) = Unsided(u)
<1> DEFINE m == Mirrored(r)
           town(s, area) == TownOn(s, area, TownField(area), TownAsked(q))
<1>1. \A s, t, area : /\ town(s, area).likeness = town(t, area).likeness
                      /\ Unsided(town(s, area)) = Unsided(town(t, area))
  <2> SUFFICES ASSUME NEW s, NEW t, NEW area
               PROVE  /\ town(s, area).likeness = town(t, area).likeness
                      /\ Unsided(town(s, area)) = Unsided(town(t, area))
    OBVIOUS
  <2> DEFINE f == TownField(area)
             asked == TownAsked(q)
             likeness == Similarity["Community", asked, area[f]]
             worth == Capped(likeness, asked, area[f])
  <2>1. \A x : town(x, area) = [side |-> x, field |-> f,
                                likeness |-> likeness, similarity |-> worth]
    BY DEF TownOn
  <2> HIDE DEF f, asked, likeness, worth, town
  <2> QED  BY <2>1 DEF Unsided
<1>2. /\ TownOffers(q, r) = {town(s, r.area[s]) : s \in SidesCompared(q, r)}
      /\ TownOffers(q, m) = {town(s, m.area[s]) : s \in SidesCompared(q, m)}
  BY DEF TownOffers
<1>3. \A s \in SideOf : m.area[s] = r.area[OtherSide(s)]
  BY MirrorFacts
<1>4. \A s \in SideOf : /\ s \in SidesCompared(q, m)
                             <=> OtherSide(s) \in SidesCompared(q, r)
                        /\ OtherSide(s) \in SideOf
                        /\ OtherSide(OtherSide(s)) = s
  BY MirrorSides DEF OtherSide, SideOf
<1>5. /\ SidesCompared(q, r) \subseteq SideOf
      /\ SidesCompared(q, m) \subseteq SideOf
  BY MirrorSides DEF SideOf
<1> HIDE DEF m, town
<1>6. ASSUME NEW t \in TownOffers(q, m)
      PROVE  \E u \in TownOffers(q, r) :
               t.likeness = u.likeness /\ Unsided(t) = Unsided(u)
  <2>1. PICK s \in SidesCompared(q, m) : t = town(s, m.area[s])
    BY <1>2
  <2>2. OtherSide(s) \in SidesCompared(q, r)
    BY <1>4, <1>5
  <2>3. town(OtherSide(s), r.area[OtherSide(s)]) \in TownOffers(q, r)
    BY <1>2, <2>2
  <2>4. m.area[s] = r.area[OtherSide(s)]
    BY <1>3, <1>5
  <2> QED  BY <1>1, <2>1, <2>3, <2>4
<1>7. ASSUME NEW u \in TownOffers(q, r)
      PROVE  \E t \in TownOffers(q, m) :
               t.likeness = u.likeness /\ Unsided(t) = Unsided(u)
  <2>1. PICK s \in SidesCompared(q, r) : u = town(s, r.area[s])
    BY <1>2
  <2>2. OtherSide(s) \in SidesCompared(q, m) /\ s \in SideOf
    BY <1>4, <1>5
  <2>3. town(OtherSide(s), m.area[OtherSide(s)]) \in TownOffers(q, m)
    BY <1>2, <2>2
  <2>4. m.area[OtherSide(s)] = r.area[s]
    BY <1>3, <1>4, <2>2
  <2> QED  BY <1>1, <2>1, <2>3, <2>4
<1> QED  BY <1>6, <1>7 DEF m

(* A record with left and right exchanged compares the same, but for towns *)
(* that tie.                                                               *)
LEMMA MirrorCompares ==
  ASSUME NEW q, IsQuery(q), NEW r \in Attributes(SideOf), NEW counts,
         ~TownsTie(q, r), NEW c \in Concept
  PROVE  Unsided(Compared(q, Mirrored(r), counts, c))
           = Unsided(Compared(q, r, counts, c))
<1> DEFINE m == Mirrored(r)
<1>1. m.street = r.street
  BY MirrorFacts
<1>2. CASE c = "St_Type" \/ c = "St_Dir"
  <2>1. \A asked, f, g : BestSlot(c, asked, m, counts, f, g)
                           = BestSlot(c, asked, r, counts, f, g)
    BY <1>1 DEF BestSlot
  <2> HIDE DEF m
  <2>2. Compared(q, m, counts, c) = Compared(q, r, counts, c)
    BY <1>2, <2>1 DEF Compared
  <2> QED  BY <2>2 DEF m
<1>3. CASE c = "Community"
  <2> DEFINE x == Community(q, r)
             y == Community(q, m)
  <2>0. m \in Attributes(SideOf)
    BY MirrorFacts
  <2>1. /\ x \in TownOffers(q, r)
        /\ \A t \in TownOffers(q, r) :
             t.likeness \in Int /\ x.likeness >= t.likeness
    BY CommunityIsMostAlike
  <2>2. /\ y \in TownOffers(q, m)
        /\ \A t \in TownOffers(q, m) :
             t.likeness \in Int /\ y.likeness >= t.likeness
    <3> HIDE DEF m
    <3> QED  BY <2>0, CommunityIsMostAlike
  <2>3. PICK u \in TownOffers(q, r) :
               y.likeness = u.likeness /\ Unsided(y) = Unsided(u)
    BY <2>2, MirrorOffers
  <2>4. PICK t \in TownOffers(q, m) :
               t.likeness = x.likeness /\ Unsided(t) = Unsided(x)
    BY <2>1, MirrorOffers
  <2> HIDE DEF x, y, m
  <2>5. x.likeness = u.likeness
    BY <2>1, <2>2, <2>3, <2>4
  <2>6. Unsided(x) = Unsided(u)
    BY <2>1, <2>3, <2>5 DEF TownsTie
  <2>7. Unsided(y) = Unsided(x)
    BY <2>3, <2>6
  <2> QED  BY <1>3, <2>7 DEF x, y, m, Compared
<1>4. CASE c = "St_Name"
  <2> HIDE DEF m
  <2>1. Compared(q, m, counts, c) = Compared(q, r, counts, c)
    BY <1>1, <1>4 DEF Compared
  <2> QED  BY <2>1 DEF m
<1>5. CASE c \in {"A2", "A1", "Country"}
  <2> DEFINE like(area) == Similarity[c, q.says[c], area[c]]
             mine  == {like(r.area[s]) : s \in SidesCompared(q, r)}
             other == {like(m.area[s]) : s \in SidesCompared(q, m)}
  <2>1. \A s \in SideOf : /\ m.area[s] = r.area[OtherSide(s)]
                          /\ s \in SidesCompared(q, m)
                               <=> OtherSide(s) \in SidesCompared(q, r)
                          /\ OtherSide(s) \in SideOf
                          /\ OtherSide(OtherSide(s)) = s
    BY MirrorFacts, MirrorSides DEF OtherSide, SideOf
  <2>2. /\ SidesCompared(q, r) \subseteq SideOf
        /\ SidesCompared(q, m) \subseteq SideOf
    BY MirrorSides DEF SideOf
  <2>3. mine = other
    <3> HIDE DEF like, m
    <3>1. \A s \in SidesCompared(q, m) : like(m.area[s]) \in mine
      BY <2>1, <2>2
    <3>2. \A s \in SidesCompared(q, r) : like(r.area[s]) \in other
      BY <2>1, <2>2
    <3> QED  BY <3>1, <3>2
  <2>4. /\ AreaLikeness(q, r, c) = CHOOSE v \in mine : \A w \in mine : v >= w
        /\ AreaLikeness(q, m, c) = CHOOSE v \in other : \A w \in other : v >= w
    BY DEF AreaLikeness
  <2>5. AreaLikeness(q, r, c) = AreaLikeness(q, m, c)
    <3> HIDE DEF mine, other, m
    <3> QED  BY <2>3, <2>4
  <2> HIDE DEF m
  <2>6. Compared(q, m, counts, c) = Compared(q, r, counts, c)
    BY <1>5, <2>5 DEF Compared
  <2> QED  BY <2>6 DEF m
<1> QED  BY <1>2, <1>3, <1>4, <1>5 DEF Concept

(* Which way a centerline was drawn says nothing about what it matches,    *)
(* whatever the words and however alike they are (scoring.py:1136-1263).   *)
THEOREM DrawingMakesNoDifference == Spec => []DrawingIrrelevant
<1>1. Scored => DrawingIrrelevant
  <2> SUFFICES ASSUME Scored, NEW i \in DOMAIN scores["rcl"],
                      ~TownsTie(query, layer["rcl"][i]), NEW c \in Concept
               PROVE  Unsided(Terms(query, Mirrored(layer["rcl"][i]),
                                    count["rcl"])[c])
                        = Unsided(terms["rcl"][i][c])
    BY DEF DrawingIrrelevant
  <2> DEFINE r == layer["rcl"][i]
  <2>1. "rcl" \in LayerOf /\ SidesOf("rcl") = SideOf
    BY DEF LayerOf, SidesOf
  <2>2. i \in DOMAIN layer["rcl"]
        /\ terms["rcl"][i] = Terms(query, r, count["rcl"])
    BY <2>1 DEF Scored
  <2>3. layer["rcl"] \in Seq(Attributes(SideOf))
    BY <2>1 DEF Scored
  <2>4. r \in Attributes(SideOf)
    BY <2>2, <2>3
  <2>5. Unsided(Compared(query, Mirrored(r), count["rcl"], c))
          = Unsided(Compared(query, r, count["rcl"], c))
    <3> HIDE DEF r
    <3>1. ~TownsTie(query, r)
      BY DEF r
    <3> QED  BY <2>4, <3>1, ScoredTypes, MirrorCompares
  <2> QED  BY <2>2, <2>5 DEF Terms
<1> QED  BY <1>1, AlwaysScored, PTL

-----------------------------------------------------------------------------
(***************************************************************************)
(* Fields with one value                                                   *)
(***************************************************************************)
Silenced(q, f) == [q EXCEPT !.says[f] = Absent]

(* What a query does not say of one field leaves the other concepts alone. *)
LEMMA OtherConcepts ==
  ASSUME NEW q, IsQuery(q), NEW r, NEW counts,
         NEW f \in {"A2", "A1", "Country"}, NEW c \in Concept, c # f
  PROVE  Compared(Silenced(q, f), r, counts, c) = Compared(q, r, counts, c)
<1> DEFINE p == Silenced(q, f)
<1>1. /\ p.number = q.number
      /\ \A g \in Field \ {f} : p.says[g] = q.says[g]
  BY DEF IsQuery, Silenced
<1> HIDE DEF p
<1>2. SideHint(p, r) = SideHint(q, r)
  BY <1>1 DEF SideHint
<1>3. SidesCompared(p, r) = SidesCompared(q, r)
  BY <1>2 DEF SidesCompared
<1>4. CASE c = "St_Type"
  <2>1. /\ p.says["St_PosTyp"] = q.says["St_PosTyp"]
        /\ p.says["St_PreTyp"] = q.says["St_PreTyp"]
    BY <1>1 DEF Field, StreetField
  <2>2. Asked(p, "St_PosTyp", "St_PreTyp") = Asked(q, "St_PosTyp", "St_PreTyp")
    BY <2>1 DEF Asked
  <2> QED  BY <1>4, <2>2 DEF Compared, p
<1>5. CASE c = "St_Dir"
  <2>1. /\ p.says["St_PreDir"] = q.says["St_PreDir"]
        /\ p.says["St_PosDir"] = q.says["St_PosDir"]
    BY <1>1 DEF Field, StreetField
  <2>2. Asked(p, "St_PreDir", "St_PosDir") = Asked(q, "St_PreDir", "St_PosDir")
    BY <2>1 DEF Asked
  <2> QED  BY <1>5, <2>2 DEF Compared, p
<1>6. CASE c = "Community"
  <2>1. /\ p.says["A3"] = q.says["A3"] /\ p.says["A4"] = q.says["A4"]
        /\ p.says["Post_Comm"] = q.says["Post_Comm"]
    BY <1>1 DEF Field, AreaField
  <2>2. TownAsked(p) = TownAsked(q)
    BY <2>1 DEF TownAsked
  <2>3. TownOffers(p, r) = TownOffers(q, r)
    BY <1>3, <2>2 DEF TownOffers
  <2>4. Community(p, r) = Community(q, r)
    BY <2>3 DEF Community
  <2> QED  BY <1>6, <2>4 DEF Compared, p
<1>7. CASE c = "St_Name"
  <2>1. p.says[c] = q.says[c]
    BY <1>1, <1>7 DEF Field, StreetField
  <2> QED  BY <1>7, <2>1 DEF Compared, p
<1>8. CASE c \in {"A2", "A1", "Country"}
  <2>1. p.says[c] = q.says[c]
    BY <1>1, <1>8 DEF Field, AreaField
  <2>2. AreaLikeness(p, r, c) = AreaLikeness(q, r, c)
    BY <1>3, <2>1 DEF AreaLikeness
  <2> QED  BY <1>8, <2>2 DEF Compared, p
<1> QED  BY <1>4, <1>5, <1>6, <1>7, <1>8 DEF Concept

(* A field without a factor never counts. *)
LEMMA WeightlessNeverCounts ==
  ASSUME NEW q, NEW r, NEW counts, NEW f \in {"A2", "A1", "Country"},
         NEW factors, factors[f] = 0
  PROVE  ~Counts(Compared(q, r, counts, f), f, factors)
<1>1. Compared(q, r, counts, f).field = f
  <2> DEFINE likeness == AreaLikeness(q, r, f)
  <2>1. Compared(q, r, counts, f) = [field |-> f, similarity |-> likeness]
    BY DEF Compared
  <2> HIDE DEF likeness
  <2> QED  BY <2>1
<1>2. BaseWeight[f] \in Nat
  BY DEF BaseWeight, Concept
<1>3. Weight(Compared(q, r, counts, f), f, factors) = 0
  BY <1>1, <1>2 DEF Weight
<1> QED  BY <1>3 DEF Counts

(* A field with one value everywhere contributes nothing: whether a query  *)
(* mentions it makes no difference to any record (field_stats.py:140-158). *)
THEOREM ConstantFieldsAreSilent == Spec => []ConstantFieldsSilent
<1>1. Scored => ConstantFieldsSilent
  <2> SUFFICES ASSUME Scored, NEW l \in LayerOf,
                      NEW f \in {"A2", "A1", "Country"}, Constant(l, f),
                      NEW i \in DOMAIN scores[l]
               PROVE  CountedTerms(terms[l][i], factor[l])
                        = CountedTerms(Terms([query EXCEPT !.says[f] = Absent],
                                             layer[l][i], count[l]),
                                       factor[l])
    BY DEF ConstantFieldsSilent
  <2> DEFINE r    == layer[l][i]
             mine == Terms(query, r, count[l])
             less == Terms(Silenced(query, f), r, count[l])
  <2>1. terms[l][i] = mine
    BY DEF Scored
  <2>2. factor[l][f] = 0
    <3>1. /\ Cardinality(Populated(layer[l], f)) >= MinPopulation
          /\ \A c, d \in Populated(layer[l], f) :
               CellSays(layer[l], f, c) = CellSays(layer[l], f, d)
      BY DEF Constant, Populated
    <3>2. Factor(layer[l], f) = 0
      BY <3>1, ScoredTypes, FactorIsShare
    <3> QED  BY <3>2 DEF Scored, Field, AreaField
  <2>3. ASSUME NEW c \in Concept \ {f}
        PROVE  mine[c] = less[c]
    <3>1. Compared(Silenced(query, f), r, count[l], c)
            = Compared(query, r, count[l], c)
      <4> HIDE DEF r
      <4> QED  BY ScoredTypes, OtherConcepts
    <3> QED  BY <3>1 DEF Terms
  <2>4. f \in Concept
    BY DEF Concept
  <2>5. ~Counts(mine[f], f, factor[l]) /\ ~Counts(less[f], f, factor[l])
    BY <2>2, <2>4, WeightlessNeverCounts DEF Terms
  <2> HIDE DEF mine, less
  <2>6. CountedTerms(mine, factor[l]) = CountedTerms(less, factor[l])
    <3>1. \A c \in Concept :
            /\ Counts(mine[c], c, factor[l]) <=> Counts(less[c], c, factor[l])
            /\ Counts(mine[c], c, factor[l]) => mine[c] = less[c]
      BY <2>3, <2>5
    <3> QED  BY <3>1 DEF CountedTerms
  <2> QED  BY <2>1, <2>6 DEF less, Silenced
<1> QED  BY <1>1, AlwaysScored, PTL

-----------------------------------------------------------------------------
(***************************************************************************)
(* How many edits two words are apart                                      *)
(***************************************************************************)
(* A set of numbers has a least. *)
LEMMA LeastExists ==
  ASSUME NEW S \in SUBSET Nat, S # {}
  PROVE  \E m \in S : \A k \in S : m <= k
<1>1. PICK m \in S : \A k \in S : ~(<<k, m>> \in OpToRel(<, Nat))
  BY WFMin, NatLessThanWellFounded
<1>2. \A k \in S : ~(k < m)
  BY <1>1 DEF OpToRel
<1> QED  BY <1>2

(* The squares of the table of distances.                                  *)
Squares(m, n) == (0 .. m) \X (0 .. n)

(* The distance is the last square of a table that follows the recursion.  *)
LEMMA DistanceIsChosen ==
  ASSUME NEW a, NEW b
  PROVE  Words!EditDistance(a, b) =
           (CHOOSE d : d = [p \in Squares(Len(a), Len(b)) |->
              Words!EditsBetween(a, b, d, p[1], p[2])])[<<Len(a), Len(b)>>]
BY DEF Words!EditDistance, Squares

(* The larger of two numbers. *)
LEMMA MaxOfTwo ==
  ASSUME NEW x \in Int, NEW y \in Int
  PROVE  /\ Words!Max({x, y}) \in Int
         /\ Words!Max({x, y}) = IF x >= y THEN x ELSE y
<1> DEFINE m == IF x >= y THEN x ELSE y
<1>1. m \in {x, y} /\ \A k \in {x, y} : m >= k
  OBVIOUS
<1>2. \A l \in {x, y} : (\A k \in {x, y} : l >= k) => l = m
  OBVIOUS
<1> QED BY <1>1, <1>2 DEF Words!Max

(* Three numbers, or four, have a least.                                   *)
LEMMA MinOfSome ==
  ASSUME NEW x \in Int, NEW y \in Int, NEW z \in Int, NEW S,
         S = {} \/ \E w \in Int : S = {w}
  PROVE  Words!Min({x, y, z} \union S) \in Int
<1> DEFINE T == {x, y, z} \union S
<1>1. \E m \in T : \A k \in T : m <= k
  <2>1. PICK l \in {x, y, z} : \A k \in {x, y, z} : l <= k
    <3>1. CASE x <= y /\ x <= z
      BY <3>1
    <3>2. CASE y <= x /\ y <= z
      BY <3>2
    <3>3. CASE z <= x /\ z <= y
      BY <3>3
    <3> QED  BY <3>1, <3>2, <3>3
  <2>2. CASE S = {}
    BY <2>1, <2>2
  <2>3. ASSUME NEW w \in Int, S = {w}
        PROVE  \E m \in T : \A k \in T : m <= k
    <3>1. CASE l <= w
      BY <2>1, <2>3, <3>1
    <3>2. CASE ~(l <= w)
      <4>1. \A k \in T : w <= k
        BY <2>1, <2>3, <3>2
      <4> QED  BY <2>3, <4>1
    <3> QED  BY <3>1, <3>2
  <2> QED  BY <2>2, <2>3
<1>2. T \subseteq Int
  OBVIOUS
<1> HIDE DEF T
<1>3. Words!Min(T) \in T
  BY <1>1 DEF Words!Min
<1> QED  BY <1>2, <1>3 DEF T

(* The squares from which a square of the table is computed. *)
Before(p) ==
  IF p[1] = 0 \/ p[2] = 0 THEN {}
  ELSE {<<p[1] - 1, p[2]>>, <<p[1], p[2] - 1>>, <<p[1] - 1, p[2] - 1>>}
         \union (IF p[1] > 1 /\ p[2] > 1 THEN {<<p[1] - 2, p[2] - 2>>} ELSE {})

Between(a, b, d, p) == Words!EditsBetween(a, b, d, p[1], p[2])

(* Nothing but those decides it. *)
LEMMA SameBetween ==
  ASSUME NEW a, NEW b, NEW i \in Nat, NEW j \in Nat, NEW d, NEW e,
         \A q \in Before(<<i, j>>) : d[q] = e[q]
  PROVE  Between(a, b, d, <<i, j>>) = Between(a, b, e, <<i, j>>)
<1>1. CASE i = 0 \/ j = 0
  BY <1>1 DEF Between, Words!EditsBetween
<1>2. CASE ~(i = 0 \/ j = 0)
  <2>1. /\ d[<<i - 1, j>>] = e[<<i - 1, j>>]
        /\ d[<<i, j - 1>>] = e[<<i, j - 1>>]
        /\ d[<<i - 1, j - 1>>] = e[<<i - 1, j - 1>>]
    BY <1>2 DEF Before
  <2>2. i > 1 /\ j > 1 => d[<<i - 2, j - 2>>] = e[<<i - 2, j - 2>>]
    BY <1>2 DEF Before
  <2> QED  BY <1>2, <2>1, <2>2 DEF Between, Words!EditsBetween
<1> QED  BY <1>1, <1>2

(* It is a number where they are. *)
LEMMA BetweenIsInt ==
  ASSUME NEW a, NEW b, NEW i \in Nat, NEW j \in Nat, NEW d,
         \A q \in Before(<<i, j>>) : d[q] \in Int
  PROVE  Between(a, b, d, <<i, j>>) \in Int
<1>1. CASE i = 0 \/ j = 0
  BY <1>1 DEF Between, Words!EditsBetween
<1>2. CASE ~(i = 0 \/ j = 0)
  <2> DEFINE x == d[<<i - 1, j>>] + 1
             y == d[<<i, j - 1>>] + 1
             z == d[<<i - 1, j - 1>>] + (IF a[i] = b[j] THEN 0 ELSE 1)
             swapped == i > 1 /\ j > 1 /\ a[i] = b[j - 1] /\ a[i - 1] = b[j]
             S == IF swapped THEN {d[<<i - 2, j - 2>>] + 1} ELSE {}
  <2>1. x \in Int /\ y \in Int /\ z \in Int
    BY <1>2 DEF Before
  <2>2. S = {} \/ \E w \in Int : S = {w}
    <3>1. i > 1 /\ j > 1 => d[<<i - 2, j - 2>>] \in Int
      BY <1>2 DEF Before
    <3>2. CASE swapped
      <4>1. S = {d[<<i - 2, j - 2>>] + 1}
        BY <3>2
      <4>2. d[<<i - 2, j - 2>>] + 1 \in Int
        BY <3>1, <3>2
      <4> HIDE DEF S
      <4> QED  BY <4>1, <4>2
    <3>3. CASE ~swapped
      BY <3>3
    <3> QED  BY <3>2, <3>3
  <2>3. Between(a, b, d, <<i, j>>) = Words!Min({x, y, z} \union S)
    BY <1>2 DEF Between, Words!EditsBetween
  <2> HIDE DEF x, y, z, S
  <2>4. Words!Min({x, y, z} \union S) \in Int
    BY <2>1, <2>2, MinOfSome
  <2> QED  BY <2>3, <2>4
<1> QED  BY <1>1, <1>2

Below(m, n, k) == {p \in Squares(m, n) : p[1] + p[2] <= k}

(* What a square is computed from comes before it. *)
LEMMA BeforeIsBelow ==
  ASSUME NEW m \in Nat, NEW n \in Nat, NEW i \in 0 .. m, NEW j \in 0 .. n,
         NEW q \in Before(<<i, j>>)
  PROVE  q \in Squares(m, n) /\ q[1] + q[2] < i + j
BY DEF Before, Squares

Follows(a, b, d, S) ==
  \A p \in S : d[p] = Between(a, b, d, p)

(* The table of distances can be filled in. *)
LEMMA DistancesExist ==
  ASSUME NEW a, NEW b, NEW m \in Nat, NEW n \in Nat, NEW k \in Nat
  PROVE  \E d \in [Below(m, n, k) -> Int] : Follows(a, b, d, Below(m, n, k))
<1> DEFINE Exist(l) == \E d \in [Below(m, n, l) -> Int] :
                         Follows(a, b, d, Below(m, n, l))
           Missing == {l \in Nat : ~Exist(l)}
<1>1. \A l \in Nat : \A p \in Below(m, n, l) :
        /\ p[1] \in 0 .. m /\ p[2] \in 0 .. n /\ p = <<p[1], p[2]>>
        /\ p[1] + p[2] <= l /\ p \in Squares(m, n)
  BY DEF Below, Squares
<1>2. Exist(0)
  <2> DEFINE d == [p \in Below(m, n, 0) |-> 0]
  <2>1. ASSUME NEW p \in Below(m, n, 0)
        PROVE  Between(a, b, d, p) = 0
    <3>1. p[1] = 0 /\ p[2] = 0
      BY <1>1
    <3> HIDE DEF d
    <3> QED  BY <3>1 DEF Between, Words!EditsBetween
  <2>2. d \in [Below(m, n, 0) -> Int]
    OBVIOUS
  <2>3. \A p \in Below(m, n, 0) : d[p] = 0
    OBVIOUS
  <2> HIDE DEF d
  <2>4. Follows(a, b, d, Below(m, n, 0))
    BY <2>1, <2>3 DEF Follows
  <2> QED  BY <2>2, <2>4
<1>3. ASSUME NEW l \in Nat, Exist(l)
      PROVE  Exist(l + 1)
  <2>1. PICK d \in [Below(m, n, l) -> Int] : Follows(a, b, d, Below(m, n, l))
    BY <1>3
  <2> DEFINE D == Below(m, n, l + 1)
             e == [p \in D |-> Between(a, b, d, p)]
  <2>2. ASSUME NEW p \in D, NEW q \in Before(p)
        PROVE  q \in Below(m, n, l) /\ q \in D
    <3>1. /\ p[1] \in 0 .. m /\ p[2] \in 0 .. n /\ p = <<p[1], p[2]>>
          /\ p[1] + p[2] <= l + 1
      BY <1>1
    <3>2. q \in Squares(m, n) /\ q[1] + q[2] < p[1] + p[2]
      BY <3>1, BeforeIsBelow
    <3>3. q[1] \in Nat /\ q[2] \in Nat
      BY <3>2 DEF Squares
    <3> QED  BY <3>1, <3>2, <3>3 DEF Below
  <2>3. \A p \in Below(m, n, l) : p \in D /\ e[p] = d[p]
    <3>1. \A p \in Below(m, n, l) : p \in D
      BY <1>1 DEF Below
    <3> QED  BY <2>1, <3>1 DEF Follows
  <2>4. e \in [D -> Int]
    <3> SUFFICES ASSUME NEW p \in D PROVE Between(a, b, d, p) \in Int
      OBVIOUS
    <3>1. p[1] \in Nat /\ p[2] \in Nat /\ p = <<p[1], p[2]>>
      BY <1>1
    <3>2. \A q \in Before(p) : d[q] \in Int
      BY <2>2
    <3> QED  BY <3>1, <3>2, BetweenIsInt
  <2>5. ASSUME NEW p \in D
        PROVE  e[p] = Between(a, b, e, p)
    <3>1. p[1] \in Nat /\ p[2] \in Nat /\ p = <<p[1], p[2]>>
      BY <1>1
    <3>2. e[p] = Between(a, b, d, p)
      OBVIOUS
    <3> HIDE DEF e, D
    <3>3. \A q \in Before(p) : d[q] = e[q]
      BY <2>2, <2>3
    <3> QED  BY <3>1, <3>2, <3>3, SameBetween
  <2> HIDE DEF e, D
  <2>6. Follows(a, b, e, D)
    BY <2>5 DEF Follows
  <2> QED  BY <2>4, <2>6 DEF D
<1> HIDE DEF Exist
<1>4. Missing = {}
  <2> SUFFICES ASSUME Missing # {} PROVE FALSE
    OBVIOUS
  <2>1. PICK l \in Missing : \A h \in Missing : l <= h
    BY LeastExists
  <2>2. l # 0 /\ l - 1 \in Nat
    BY <1>2, <2>1
  <2>3. Exist(l - 1)
    BY <2>1, <2>2
  <2>4. Exist((l - 1) + 1)
    BY <1>3, <2>2, <2>3
  <2> QED  BY <2>1, <2>4
<1> QED  BY <1>4 DEF Exist

(* The number of edits between two words is a number. *)
LEMMA DistanceType ==
  ASSUME NEW a, NEW b, Len(a) \in Nat, Len(b) \in Nat
  PROVE  Words!EditDistance(a, b) \in Int
<1> DEFINE m == Len(a)
           n == Len(b)
           Table(d) == d = [p \in Squares(m, n) |-> Between(a, b, d, p)]
           table == CHOOSE d : Table(d)
<1>1. Words!EditDistance(a, b) = table[<<m, n>>]
  BY DistanceIsChosen DEF Between
<1> HIDE DEF m, n
<1>2. m \in Nat /\ n \in Nat /\ <<m, n>> \in Squares(m, n)
  BY DEF Squares, m, n
<1>3. \A p \in Squares(m, n) :
        /\ p[1] \in 0 .. m /\ p[2] \in 0 .. n /\ p = <<p[1], p[2]>>
        /\ p[1] + p[2] \in Nat
  BY <1>2 DEF Squares
<1>4. Table(table)
  <2>1. Below(m, n, m + n) = Squares(m, n)
    BY <1>2, <1>3 DEF Below
  <2>2. PICK d \in [Squares(m, n) -> Int] : Follows(a, b, d, Squares(m, n))
    <3>1. m + n \in Nat
      BY <1>2
    <3>2. \E d \in [Below(m, n, m + n) -> Int] :
            Follows(a, b, d, Below(m, n, m + n))
      BY <1>2, <3>1, DistancesExist
    <3> QED  BY <2>1, <3>2
  <2>3. Table(d)
    BY <2>2 DEF Follows
  <2> QED  BY <2>3
<1> HIDE DEF table
<1>5. \A p \in Squares(m, n) : table[p] = Between(a, b, table, p)
  BY <1>4
<1>6. \A p \in Squares(m, n) : table[p] \in Int
  <2> DEFINE Bad == {p \in Squares(m, n) : table[p] \notin Int}
             Sums == {p[1] + p[2] : p \in Bad}
  <2> SUFFICES ASSUME Bad # {} PROVE FALSE
    OBVIOUS
  <2>1. Sums \in SUBSET Nat /\ Sums # {}
    BY <1>3
  <2>2. PICK s \in Sums : \A t \in Sums : s <= t
    <3> HIDE DEF Sums
    <3> QED  BY <2>1, LeastExists
  <2>3. PICK p \in Bad : s = p[1] + p[2]
    OBVIOUS
  <2>4. \A q \in Bad : s <= q[1] + q[2]
    BY <2>2
  <2>5. ASSUME NEW q \in Before(p)
        PROVE  table[q] \in Int
    <3>1. p[1] \in 0 .. m /\ p[2] \in 0 .. n /\ p = <<p[1], p[2]>>
      BY <1>3
    <3>2. q \in Squares(m, n) /\ q[1] + q[2] < p[1] + p[2]
      BY <1>2, <3>1, BeforeIsBelow
    <3>3. q \notin Bad
      <4>1. q[1] + q[2] \in Nat /\ p[1] + p[2] \in Nat
        BY <1>3, <3>2
      <4>2. ~(s <= q[1] + q[2])
        BY <2>3, <3>2, <4>1
      <4> HIDE DEF Bad
      <4> QED  BY <2>4, <4>2
    <3> QED  BY <3>2, <3>3
  <2>6. Between(a, b, table, p) \in Int
    BY <1>3, <2>5, BetweenIsInt
  <2> QED  BY <1>5, <2>6
<1> QED  BY <1>1, <1>2, <1>6

-----------------------------------------------------------------------------
(* A token is a sequence, of whatever. *)
IsToken(w) == \E S : w \in Seq(S)

(* Its length, and its characters. *)
LEMMA TokenFacts ==
  ASSUME NEW w, IsToken(w)
  PROVE  /\ Len(w) \in Nat /\ DOMAIN w = 1 .. Len(w)
         /\ w # <<>> => Len(w) > 0
<1>1. PICK S : w \in Seq(S)
  BY DEF IsToken
<1> QED  BY <1>1, LenProperties, EmptySeq

(* A part of anything is one, and so is a word with its characters changed.*)
LEMMA PartIsToken ==
  ASSUME NEW w, NEW m \in Int, NEW n \in Int
  PROVE  IsToken(SubSeq(w, m, n))
<1>1. SubSeq(w, m, n) \in Seq({w[i] : i \in m .. n})
  BY SubSeqProperties
<1> QED  BY <1>1 DEF IsToken

LEMMA CapitalsIsToken ==
  ASSUME NEW w, IsToken(w)
  PROVE  IsToken(Words!Capitals(w))
<1> DEFINE c == [i \in 1 .. Len(w) |-> Words!Upper(w[i])]
           S == {Words!Upper(w[i]) : i \in 1 .. Len(w)}
<1>1. Len(w) \in Nat /\ DOMAIN w = 1 .. Len(w)
  BY TokenFacts
<1>2. Words!Capitals(w) = c
  BY <1>1 DEF Words!Capitals
<1>3. c \in [1 .. Len(w) -> S]
  OBVIOUS
<1> HIDE DEF c, S
<1>4. c \in Seq(S)
  BY <1>1, <1>3
<1> QED  BY <1>2, <1>4 DEF IsToken

(* How much of a word is of a kind is no more than all of it. *)
LEMMA LeadingType ==
  ASSUME NEW w, IsToken(w), NEW kind
  PROVE  Words!Leading(w, kind) \in 0 .. Len(w)
<1> DEFINE S == {n \in 0 .. Len(w) : \A i \in 1 .. n : w[i] \in kind}
<1>1. Len(w) \in Nat
  BY TokenFacts
<1>2. S \in SUBSET (0 .. Len(w)) /\ S # {}
  <2>1. 0 \in S
    BY <1>1
  <2> QED  BY <2>1
<1>3. Words!Leading(w, kind) = CHOOSE m \in S : \A k \in S : m >= k
  BY DEF Words!Leading, Words!Max
<1> HIDE DEF S
<1>4. \E m \in S : \A k \in S : m >= k
  BY <1>1, <1>2, LargestExists
<1> QED  BY <1>2, <1>3, <1>4

(* What is left without the blanks around it is a token. *)
LEMMA StripIsToken ==
  ASSUME NEW w, IsToken(w)
  PROVE  IsToken(Words!Strip(w))
<1>1. Len(w) \in Nat /\ DOMAIN w = 1 .. Len(w)
  BY TokenFacts
<1>2. IsToken(Words!Reverse(w))
  <2> DEFINE S == {w[(Len(w) - i) + 1] : i \in 1 .. Len(w)}
             r == [i \in 1 .. Len(w) |-> w[(Len(w) - i) + 1]]
  <2>1. r \in [1 .. Len(w) -> S]
    OBVIOUS
  <2> HIDE DEF S, r
  <2>2. r \in Seq(S)
    BY <1>1, <2>1
  <2>3. r = Words!Reverse(w)
    BY DEF Words!Reverse, r
  <2> QED  BY <2>2, <2>3 DEF IsToken
<1>3. /\ Words!Leading(w, Words!Blank) \in Int
      /\ Words!Leading(Words!Reverse(w), Words!Blank) \in Int
  <2>1. Len(Words!Reverse(w)) \in Nat
    BY <1>2, TokenFacts
  <2> QED  BY <1>1, <1>2, <2>1, LeadingType
<1> QED  BY <1>1, <1>3, PartIsToken DEF Words!Strip

(* A name of a word is a token. *)
LEMMA NameIsToken ==
  ASSUME NEW w \in Word
  PROVE  IsToken(Name(w))
<1>1. w \in Seq(STRING) /\ "" \notin DOMAIN Expansions
  <2>1. w \in Seq(STRING) /\ DOMAIN Expansions = {"type", "direction"}
    BY MeasuredAssumption, Zenon
  <2> QED  BY <2>1
<1>2. IsToken(w)
  BY <1>1 DEF IsToken
<1>3. Name(w) = Words!Capitals(Words!Strip(w))
  BY <1>1 DEF Name, Words!Normalize
<1> QED  BY <1>2, <1>3, StripIsToken, CapitalsIsToken

(* So is what follows the digits of a name. *)
LEMMA SuffixIsToken ==
  ASSUME NEW a, IsToken(a)
  PROVE  IsToken(Words!SuffixOf(a))
<1>1. Words!Leading(a, Words!Digits) \in Int /\ Len(a) \in Int
  BY LeadingType, TokenFacts
<1>2. IsToken(Words!From(a, Words!Leading(a, Words!Digits)))
  BY <1>1, PartIsToken DEF Words!From
<1> QED  BY <1>2, StripIsToken DEF Words!SuffixOf

(* How alike two words are by their edits is a share. *)
LEMMA EditSimilarityType ==
  ASSUME NEW a, NEW b, IsToken(a), IsToken(b), a # <<>>
  PROVE  Words!EditSimilarity(a, b) \in Nat
<1> DEFINE longest == Words!Max({Len(a), Len(b)})
           edits == Words!EditDistance(a, b)
           share == (120 * (longest - edits)) \div longest
<1>1. Len(a) \in Nat /\ Len(b) \in Nat /\ Len(a) > 0
  BY TokenFacts
<1>2. longest \in Nat /\ longest > 0
  BY <1>1, MaxOfTwo
<1>3. edits \in Int
  BY <1>1, DistanceType
<1> HIDE DEF longest, edits
<1>4. share \in Int
  BY <1>2, <1>3
<1> HIDE DEF share
<1>5. Words!Max({0, share}) \in Int /\ Words!Max({0, share}) >= 0
  BY <1>4, MaxOfTwo
<1>6. Words!EditSimilarity(a, b) = Words!Max({0, share})
  BY DEF Words!EditSimilarity, Words!Same, share, longest, edits
<1> QED  BY <1>5, <1>6

-----------------------------------------------------------------------------
Letters(a) == Words!Soundex(a) # <<>>

(* A word that qualifies is a quarter alike. *)
LEMMA QualifiedIsAlike ==
  ASSUME NEW a, NEW c, IsToken(a), IsToken(c), a # <<>>, c # <<>>,
         Words!Qualifies(a, c)
  PROVE  /\ Words!BlendSimilarity(a, c) \in Int
         /\ Words!BlendSimilarity(a, c) >= 30
         /\ ~Letters(a) => Words!BlendSimilarity(a, c) >= 60
<1> DEFINE y == Words!EditSimilarity(a, c)
           kept == Words!BlendSimilarity(a, c)
<1>1. y \in Nat
  BY EditSimilarityType
<1>2. CASE a = c
  BY <1>2 DEF Words!BlendSimilarity, Words!Same
<1>3. CASE a # c
  <2>1. Words!SoundAlike(a, c) \/ y >= 60
    BY <1>3 DEF Words!Qualifies, Words!QualifyFloor
  <2>2. Words!SoundAlike(a, c) => Letters(a) /\ Letters(c)
    BY DEF Words!SoundAlike, Letters
  <2>3. kept = IF Letters(a) /\ Letters(c)
               THEN (y + (IF Words!SoundAlike(a, c) THEN 120 ELSE 0)) \div 2
               ELSE y
    BY <1>3 DEF Words!BlendSimilarity, Words!Blend, Letters, Words!Same
  <2> HIDE DEF y, kept
  <2>4. kept \in Int /\ kept >= 30 /\ (~Letters(a) => kept >= 60)
    BY <1>1, <2>1, <2>2, <2>3
  <2> QED  BY <2>4 DEF kept
<1> QED  BY <1>2, <1>3

(* Of two words compared with one, on one scale, the one that qualifies is *)
(* the more alike.                                                         *)
LEMMA BlendSplits ==
  ASSUME NEW a, NEW b, NEW c, IsToken(a), IsToken(b), IsToken(c),
         a # <<>>, b # <<>>, c # <<>>, Letters(a) => Letters(b),
         ~Words!Qualifies(a, b), Words!Qualifies(a, c)
  PROVE  Words!BlendSimilarity(a, b) < Words!BlendSimilarity(a, c)
<1> DEFINE x == Words!EditSimilarity(a, b)
           out  == Words!BlendSimilarity(a, b)
           kept == Words!BlendSimilarity(a, c)
<1>1. x \in Nat
  BY EditSimilarityType
<1>2. a # b /\ ~Words!SoundAlike(a, b) /\ x < 60
  BY <1>1 DEF Words!Qualifies, Words!QualifyFloor
<1>3. out = IF Letters(a) THEN (x + 0) \div 2 ELSE x
  BY <1>2 DEF Words!BlendSimilarity, Words!Blend, Letters
<1>4. kept \in Int /\ kept >= 30 /\ (~Letters(a) => kept >= 60)
  BY QualifiedIsAlike
<1> HIDE DEF x, out, kept
<1>5. out < kept
  BY <1>1, <1>2, <1>3, <1>4
<1> QED  BY <1>5 DEF out, kept

(* Of two street names compared with one, the one the gate keeps.          *)
LEMMA NamesSplit ==
  ASSUME NEW a, NEW b, NEW c, IsToken(a), IsToken(b), IsToken(c),
         Words!NameSimilarity(a, b) # -1, Words!NameSimilarity(a, c) # -1,
         \/ Letters(a) => Letters(b)
         \/ Words!DigitLeading(a) \/ Words!DigitLeading(b),
         ~Words!StreetQualifies(a, b), Words!StreetQualifies(a, c)
  PROVE  Words!NameSimilarity(a, b) < Words!NameSimilarity(a, c)
<1> DEFINE out  == Words!NameSimilarity(a, b)
           kept == Words!NameSimilarity(a, c)
           digits(w) == Words!DigitLeading(w)
           edits == Words!EditsSimilarity(Words!SuffixOf(a), Words!SuffixOf(c))
<1>1. a # <<>> /\ b # <<>> /\ c # <<>>
  BY DEF Words!NameSimilarity, Words!BlendSimilarity, Words!Nothing
<1>2. digits(a) \/ digits(b) => out \in 0 .. 59
  BY <1>1 DEF Words!StreetQualifies, Words!QualifyFloor
<1>3. digits(a) \/ digits(c) => kept \notin 0 .. 59
  BY <1>1 DEF Words!StreetQualifies, Words!QualifyFloor
<1>4. a # c /\ (digits(a) \/ digits(c)) =>
        digits(a) /\ digits(c) /\ kept = edits
  BY <1>1, <1>3 DEF Words!NameSimilarity
<1>5. CASE digits(a)
  <2>1. kept \in Nat
    <3>1. CASE a = c
      BY <1>1, <3>1
         DEF Words!NameSimilarity, Words!BlendSimilarity, Words!Same
    <3>2. CASE a # c
      <4>1. /\ Words!SuffixOf(a) # <<>>
            /\ edits = Words!EditSimilarity(Words!SuffixOf(a),
                                            Words!SuffixOf(c))
        BY <1>4, <1>5, <3>2 DEF Words!EditsSimilarity, Words!Nothing
      <4>2. edits \in Nat
        BY <4>1, SuffixIsToken, EditSimilarityType
      <4> QED  BY <1>4, <1>5, <3>2, <4>2
    <3> QED  BY <3>1, <3>2
  <2> HIDE DEF out, kept
  <2>2. out < kept
    BY <1>2, <1>3, <1>5, <2>1
  <2> QED  BY <2>2 DEF out, kept
<1>6. CASE ~digits(a)
  <2>1. ~digits(c)
    BY <1>4, <1>6
  <2>2. Words!Qualifies(a, c) /\ kept = Words!BlendSimilarity(a, c)
    BY <1>6, <2>1 DEF Words!StreetQualifies, Words!NameSimilarity
  <2>3. CASE digits(b)
    <3>1. kept \in Int /\ kept >= 30
      BY <1>1, <2>2, QualifiedIsAlike
    <3>2. out = 0
      BY <1>1, <1>6, <2>3 DEF Words!NameSimilarity
    <3> HIDE DEF out, kept
    <3>3. out < kept
      BY <3>1, <3>2
    <3> QED  BY <3>3 DEF out, kept
  <2>4. CASE ~digits(b)
    <3>1. ~Words!Qualifies(a, b) /\ out = Words!BlendSimilarity(a, b)
      BY <1>6, <2>4 DEF Words!StreetQualifies, Words!NameSimilarity
    <3>2. Letters(a) => Letters(b)
      BY <1>6, <2>4
    <3>3. Words!BlendSimilarity(a, b) < Words!BlendSimilarity(a, c)
      BY <1>1, <2>2, <3>1, <3>2, BlendSplits
    <3> QED  BY <2>2, <3>1, <3>3
  <2> QED  BY <2>3, <2>4
<1> QED  BY <1>5, <1>6

-----------------------------------------------------------------------------
(***************************************************************************)
(* Gates and likenesses                                                    *)
(***************************************************************************)
(* What the words of a concept are compared by. *)
LEMMA Measured ==
  ASSUME NEW v \in Word, NEW w \in Word
  PROVE  /\ Similarity["St_Name", v, w]
              = Words!NameSimilarity(Name(v), Name(w))
         /\ Similarity["Community", v, w]
              = Words!BlendSimilarity(Name(v), Name(w))
         /\ NameQualifies[v, w] <=> Words!StreetQualifies(Name(v), Name(w))
         /\ TownQualifies[v, w] <=> Words!Qualifies(Name(v), Name(w))
<1>1. "St_Name" \in Concept /\ "Community" \in Concept
  BY DEF Concept
<1>2. /\ Similarity["St_Name", v, w]
           = Alike("St_Name", Words!Normalize(v, TableOf("St_Name")),
                              Words!Normalize(w, TableOf("St_Name")))
      /\ Similarity["Community", v, w]
           = Alike("Community", Words!Normalize(v, TableOf("Community")),
                                Words!Normalize(w, TableOf("Community")))
      /\ NameQualifies[v, w] = Words!StreetQualifies(Name(v), Name(w))
      /\ TownQualifies[v, w] = Words!Qualifies(Name(v), Name(w))
  BY <1>1, MeasuredAssumption, Zenon
<1>3. TableOf("St_Name") = "" /\ TableOf("Community") = ""
  BY DEF TableOf
<1>4. \A a, b : /\ Alike("St_Name", a, b) = Words!NameSimilarity(a, b)
                /\ Alike("Community", a, b) = Words!BlendSimilarity(a, b)
  BY DEF Alike
<1> QED  BY <1>2, <1>3, <1>4, Zenon DEF Name

(* The gate and the report of a street name agree: of two records on the   *)
(* same query, the one the gate throws out is the one less alike, whatever *)
(* the names (scoring.py:751).                                             *)
THEOREM GatesFollowReports == Spec => []GateFollowsReport
<1>1. ASSUME Scored PROVE GateFollowsReport
  <2> DEFINE asked == query.says["St_Name"]
             name(l, k) == layer[l][k].street["St_Name"]
             like(l, k) == terms[l][k]["St_Name"].similarity
             sims(l, k) == Similarity["St_Name", asked, name(l, k)]
  <2>1. ASSUME NEW l \in LayerOf, NEW k \in DOMAIN scores[l]
        PROVE  /\ asked \in Word /\ name(l, k) \in Word
               /\ like(l, k) = sims(l, k)
    <3>1. IsQuery(query) /\ IsRecord(layer[l][k])
      BY <1>1, ScoredTypes
    <3>2. "St_Name" \in StreetField /\ "St_Name" \in Field
          /\ "St_Name" \in Concept
      BY DEF StreetField, Field, Concept
    <3>3. asked \in Word /\ name(l, k) \in Word
      BY <3>1, <3>2, AskedIsWord, SidesOfRecord
    <3>4. terms[l][k] = Terms(query, layer[l][k], count[l])
      BY <1>1 DEF Scored
    <3>5. like(l, k)
            = Compared(query, layer[l][k], count[l], "St_Name").similarity
      BY <3>2, <3>4 DEF Terms
    <3> DEFINE s == sims(l, k)
    <3>6. Compared(query, layer[l][k], count[l], "St_Name")
            = [field |-> "St_Name", similarity |-> s]
      BY DEF Compared
    <3> HIDE DEF s
    <3>7. like(l, k) = s
      BY <3>5, <3>6
    <3> QED  BY <3>3, <3>7 DEF s
  <2> SUFFICES ASSUME NEW l \in LayerOf,
                      NEW i \in DOMAIN scores[l], NEW j \in DOMAIN scores[l],
                      like(l, i) # Null, like(l, j) # Null,
                      \/ OneScale(asked, {name(l, i)})
                      \/ \E w \in {asked, name(l, i)} :
                           Words!DigitLeading(Name(w)),
                      ~NameQualifies[asked, name(l, i)],
                      NameQualifies[asked, name(l, j)]
               PROVE  like(l, i) < like(l, j)
    BY Zenon DEF GateFollowsReport
  <2> DEFINE a == Name(asked)
             b == Name(name(l, i))
             c == Name(name(l, j))
  <2>2. /\ asked \in Word /\ name(l, i) \in Word /\ name(l, j) \in Word
        /\ like(l, i) = sims(l, i) /\ like(l, j) = sims(l, j)
    BY <2>1
  <2>3. \/ Letters(a) => Letters(b)
        \/ Words!DigitLeading(a) \/ Words!DigitLeading(b)
    BY DEF OneScale, Sounds, Letters
  <2> HIDE DEF asked, name, like
  <2>4. /\ sims(l, i) = Words!NameSimilarity(a, b)
        /\ sims(l, j) = Words!NameSimilarity(a, c)
        /\ ~Words!StreetQualifies(a, b) /\ Words!StreetQualifies(a, c)
    BY <2>2, Measured, Zenon
  <2>5. IsToken(a) /\ IsToken(b) /\ IsToken(c)
    BY <2>2, NameIsToken
  <2> HIDE DEF a, b, c, sims
  <2>6. /\ Words!NameSimilarity(a, b) # -1
        /\ Words!NameSimilarity(a, c) # -1
    BY <2>2, <2>4
  <2>7. Words!NameSimilarity(a, b) < Words!NameSimilarity(a, c)
    BY <2>3, <2>4, <2>5, <2>6, NamesSplit
  <2> QED  BY <2>2, <2>4, <2>7
<1> QED  BY <1>1, AlwaysScored, PTL

(* The cap never falls on the wrong side of the road, whatever the towns:  *)
(* the likeness that chooses the side knows nothing of qualifying          *)
(* (scoring.py:1224), and yet never prefers a town that does not.          *)
THEOREM TheCapFallsRight == Spec => []QualifyingSideWins
<1>1. ASSUME Scored PROVE QualifyingSideWins
  <2> DEFINE asked == TownAsked(query)
             town(i, t) == layer["rcl"][i].area[t.side][t.field]
             offers(i) == {t \in TownOffers(query, layer["rcl"][i]) :
                             t.likeness # Null}
             alike(i) == {t \in offers(i) : TownQualifies[asked, town(i, t)]}
  <2> SUFFICES ASSUME NEW i \in DOMAIN scores["rcl"],
                      OneScale(asked, {town(i, t) : t \in offers(i)}),
                      alike(i) # {}
               PROVE  terms["rcl"][i]["Community"] \in alike(i)
    BY Zenon DEF QualifyingSideWins
  <2> DEFINE r == layer["rcl"][i]
             best == Community(query, r)
             like(t) == Similarity["Community", asked, town(i, t)]
  <2>1. IsQuery(query) /\ r \in Attributes(SideOf)
    <3>1. /\ "rcl" \in LayerOf /\ SidesOf("rcl") = SideOf
          /\ layer["rcl"] \in Seq(Attributes(SidesOf("rcl")))
          /\ i \in DOMAIN layer["rcl"]
      BY <1>1 DEF Scored, LayerOf, SidesOf
    <3>2. r \in Attributes(SideOf)
      <4> DEFINE rs == layer["rcl"]
                 S == Attributes(SideOf)
      <4>1. rs \in Seq(S) /\ i \in DOMAIN rs
        BY <3>1
      <4> HIDE DEF rs, S
      <4>2. rs[i] \in S
        BY <4>1, LenProperties
      <4> QED  BY <4>2 DEF rs, S
    <3> QED  BY <1>1, <3>2, ScoredTypes
  <2>2. terms["rcl"][i]["Community"] = best
    <3>1. terms["rcl"][i] = Terms(query, r, count["rcl"])
      BY <1>1 DEF Scored, LayerOf
    <3>2. Compared(query, r, count["rcl"], "Community") = best
      BY DEF Compared
    <3>3. "Community" \in Concept
      BY DEF Concept
    <3> HIDE DEF r, best
    <3> QED  BY <3>1, <3>2, <3>3 DEF Terms
  <2>3. ASSUME NEW t \in TownOffers(query, r)
        PROVE  /\ town(i, t) \in Word /\ t.likeness = like(t)
               /\ t.likeness \in Likenesses
    <3>1. PICK s \in SidesCompared(query, r) :
            t = TownOn(s, r.area[s], TownField(r.area[s]), asked)
      BY DEF TownOffers
    <3> DEFINE f == TownField(r.area[s])
               same == Similarity["Community", asked, r.area[s][f]]
               worth == Capped(same, asked, r.area[s][f])
    <3>2. t = [side |-> s, field |-> f, likeness |-> same,
               similarity |-> worth]
      BY <3>1 DEF TownOn
    <3>3. f \in AreaField
      BY DEF TownField, AreaField
    <3>4. IsRecord(r) /\ s \in DOMAIN r.area
      <4>1. IsRecord(r)
        BY <2>1 DEF IsRecord, SidesOf, LayerOf
      <4> HIDE DEF r
      <4> QED  BY <2>1, <4>1, ComparedSides
    <3>5. r.area[s][f] \in Word /\ asked \in Word
      <4> HIDE DEF r, f, asked
      <4>1. r.area[s] \in [AreaField -> Word]
        BY <3>4, SidesOfRecord
      <4> QED  BY <2>1, <3>3, <4>1, AskedIsWord DEF asked
    <3>6. same \in Likenesses
      BY <3>5, Comparable DEF Concept
    <3> HIDE DEF f, same, worth
    <3>7. t.side = s /\ t.field = f /\ t.likeness = same
      BY <3>2
    <3>8. town(i, t) = r.area[s][f]
      BY <3>7
    <3> QED  BY <3>5, <3>6, <3>7, <3>8 DEF same
  <2>4. /\ best \in TownOffers(query, r)
        /\ \A t \in TownOffers(query, r) :
             t.likeness \in Int /\ best.likeness >= t.likeness
    <3> HIDE DEF r
    <3> QED  BY <2>1, CommunityIsMostAlike
  <2>5. PICK t \in alike(i) : TRUE
    OBVIOUS
  <2>6. /\ t \in TownOffers(query, r) /\ t.likeness # Null
        /\ TownQualifies[asked, town(i, t)]
    OBVIOUS
  <2>7. best.likeness # Null
    <3> DEFINE x == t.likeness
               y == best.likeness
    <3>1. x \in Likenesses /\ y >= x /\ x # Null
      BY <2>3, <2>4, <2>6
    <3> HIDE DEF x, y, alike
    <3>2. y # Null
      BY <3>1, ScoringAssumption DEF Likenesses
    <3> QED  BY <3>2 DEF y
  <2>8. best \in offers(i)
    BY <2>4, <2>7
  <2>9. CASE ~TownQualifies[asked, town(i, best)]
    <3> DEFINE a == Name(asked)
               b == Name(town(i, best))
               c == Name(town(i, t))
    <3>1. asked \in Word /\ town(i, best) \in Word /\ town(i, t) \in Word
      BY <2>1, <2>3, <2>4, <2>6, AskedIsWord
    <3>2. Letters(a) => Letters(b)
      BY <2>8 DEF OneScale, Sounds, Letters
    <3>3. /\ best.likeness = like(best) /\ t.likeness = like(t)
      BY <2>3, <2>4, <2>6
    <3> HIDE DEF asked, town, best
    <3>4. /\ best.likeness = Words!BlendSimilarity(a, b)
          /\ t.likeness = Words!BlendSimilarity(a, c)
          /\ ~Words!Qualifies(a, b) /\ Words!Qualifies(a, c)
      BY <2>6, <2>9, <3>1, <3>3, Measured, Zenon
    <3>5. IsToken(a) /\ IsToken(b) /\ IsToken(c)
      BY <3>1, NameIsToken
    <3> HIDE DEF a, b, c, r
    <3>6. a # <<>> /\ b # <<>> /\ c # <<>>
      BY <2>6, <2>7, <3>4 DEF Words!BlendSimilarity, Words!Nothing
    <3>7. best.likeness < t.likeness
      BY <3>2, <3>4, <3>5, <3>6, BlendSplits
    <3> DEFINE x == t.likeness
               y == best.likeness
    <3>8. x \in Int /\ y \in Int /\ y >= x /\ y < x
      BY <2>4, <2>6, <3>7
    <3> HIDE DEF x, y, alike
    <3> QED  BY <3>8
  <2>10. CASE TownQualifies[asked, town(i, best)]
    <3>1. best \in alike(i)
      BY <2>8, <2>10
    <3> QED  BY <2>2, <3>1
  <2> QED  BY <2>9, <2>10
<1> QED  BY <1>1, AlwaysScored, PTL
=============================================================================
