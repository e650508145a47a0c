------------------------- MODULE ForwardLadderProofs -------------------------
(***************************************************************************)
(* What holds of the forward conversion for every pair of layers, every    *)
(* query and every setting.                                                *)
(***************************************************************************)
EXTENDS ForwardLadder, FiniteSetTheorems, WellFoundedInduction, TLAPS

USE DEF Null, Nowhere

-----------------------------------------------------------------------------
(***************************************************************************)
(* Rank 1                                                                  *)
(***************************************************************************)
(* What the candidates of one rung have in common: each is typed, is       *)
(* located and admissible, and no two come from the same place of a layer. *)
Rung(cs) ==
  /\ IsFiniteSet(cs)
  /\ \A c \in cs :
       /\ c.tier \in Tiers
       /\ c.record.score \in Nat
       /\ c.record.score >= MinMatchScore /\ c.record.score <= Perfect
       /\ c.record.place \in Int /\ c.record.place # Nowhere
       /\ c.record.nguid \in Nat
       /\ c.record.effective \in Int /\ c.record.expire \in Int
       /\ c.gap \in Nat \union {Null}
       /\ c.nth \in Nat
  /\ \A c, d \in cs : c.tier = d.tier
  /\ \A c, d \in cs : c.nth = d.nth => c = d

(* A set of natural numbers has a least one. *)
LEMMA LeastExists ==
  ASSUME NEW S, S \subseteq Nat, S # {}
  PROVE  \E m \in S : \A n \in S : m <= n
<1>1. PICK m \in S : \A n \in S : ~(<<n, m>> \in OpToRel(<, Nat))
  BY WFMin, NatLessThanWellFounded
<1>2. \A n \in S : ~(n < m)
  BY <1>1 DEF OpToRel
<1> QED  BY <1>2

(* A confidence is a number between 0 and that of a perfect address point. *)
LEMMA ConfidenceType ==
  ASSUME NEW cs, Rung(cs), NEW c \in cs
  PROVE  Confidence(c) \in Nat /\ Confidence(c) <= 80 * Perfect
<1>1. c.record.score \in Nat /\ c.record.score <= Perfect /\ Perfect \in Nat
  BY LadderAssumption DEF Rung
<1> QED  BY <1>1 DEF Confidence, Ceiling

(* The rank of a rung has a first: whoever sorts it finds one. *)
LEMMA RankOneExists ==
  ASSUME NEW cs, Rung(cs), cs # {}
  PROVE  \E c \in cs : \A d \in cs \ {c} : Before(c, d)
<1> DEFINE Rest(c) == 80 * Perfect - Confidence(c)
<1>0. \A c \in cs : Confidence(c) \in Int /\ Rest(c) \in Nat
  BY ConfidenceType, LadderAssumption
<1>1. PICK a \in cs : \A d \in cs : Rest(a) <= Rest(d)
  <2> DEFINE S == {Rest(d) : d \in cs}
  <2>1. \E m \in S : \A n \in S : m <= n
    <3>1. S \subseteq Nat /\ S # {}
      BY <1>0
    <3> HIDE DEF S
    <3> QED  BY <3>1, LeastExists
  <2> QED  BY <2>1
<1> DEFINE top == {d \in cs : Confidence(d) = Confidence(a)}
<1>2. a \in top /\ \A d \in cs \ top : Confidence(d) < Confidence(a)
  BY <1>0, <1>1, LadderAssumption
<1>3. PICK b \in top : \A d \in top : ~GapLess(d.gap, b.gap)
  <2>0. \A d \in top : d.gap \in Nat \/ d.gap = Null
    BY DEF Rung
  <2>1. CASE \A d \in top : d.gap = Null
    BY <2>1, <1>2 DEF GapLess
  <2>2. CASE \E d \in top : d.gap # Null
    <3> DEFINE S == {d.gap : d \in {e \in top : e.gap # Null}}
    <3>1. S \subseteq Nat /\ S # {}
      BY <2>0, <2>2
    <3>2. \E m \in S : \A n \in S : m <= n
      <4> HIDE DEF S
      <4> QED  BY <3>1, LeastExists
    <3>3. PICK b \in top : b.gap # Null
                           /\ \A d \in top : d.gap # Null => b.gap <= d.gap
      BY <3>2
    <3> QED  BY <3>3, <2>0 DEF GapLess
  <2> QED  BY <2>1, <2>2
<1> DEFINE close == {d \in top : d.gap = b.gap}
<1>4. PICK e \in close : \A d \in close : e.record.nguid <= d.record.nguid
  <2> DEFINE S == {d.record.nguid : d \in close}
  <2>1. \E m \in S : \A n \in S : m <= n
    <3>1. S \subseteq Nat /\ S # {}
      BY DEF Rung
    <3> HIDE DEF S
    <3> QED  BY <3>1, LeastExists
  <2> QED  BY <2>1
<1> DEFINE named == {d \in close : d.record.nguid = e.record.nguid}
<1>5. PICK c \in named : \A d \in named : c.nth <= d.nth
  <2> DEFINE S == {d.nth : d \in named}
  <2>1. \E m \in S : \A n \in S : m <= n
    <3>1. S \subseteq Nat /\ S # {}
      BY DEF Rung
    <3> HIDE DEF S
    <3> QED  BY <3>1, LeastExists
  <2> QED  BY <2>1
<1>6. ASSUME NEW d \in cs, d # c
      PROVE  Before(c, d)
  <2>0. /\ Confidence(c) = Confidence(a) /\ c.gap = b.gap
        /\ c.record.nguid = e.record.nguid /\ c \in cs
    BY <1>5
  <2>1. CASE d \notin top
    BY <2>1, <2>0, <1>2, <1>6 DEF Before
  <2>2. CASE d \in top /\ d \notin close
    <3>1. Confidence(d) = Confidence(c) /\ d.gap # c.gap
      BY <2>2, <2>0
    <3>2. GapLess(c.gap, d.gap)
      <4>1. d.gap \in Nat \union {Null} /\ c.gap \in Nat \union {Null}
        BY <1>6, <2>0 DEF Rung
      <4>2. ~GapLess(d.gap, c.gap)
        BY <2>2, <2>0, <1>3
      <4> QED  BY <4>1, <4>2, <3>1 DEF GapLess
    <3> QED  BY <3>1, <3>2 DEF Before
  <2>3. CASE d \in close /\ d \notin named
    <3>1. d.record.nguid # c.record.nguid /\ c.record.nguid <= d.record.nguid
      BY <2>3, <2>0, <1>4
    <3>2. d.record.nguid \in Nat /\ c.record.nguid \in Nat
      BY <1>6, <2>0 DEF Rung
    <3> QED  BY <2>3, <2>0, <3>1, <3>2 DEF Before
  <2>4. CASE d \in named
    <3>1. c.nth <= d.nth /\ c.nth # d.nth
      BY <2>4, <1>5, <1>6, <2>0 DEF Rung
    <3>2. d.nth \in Nat /\ c.nth \in Nat
      BY <1>6, <2>0 DEF Rung
    <3> QED  BY <2>4, <2>0, <3>1, <3>2 DEF Before
  <2> QED  BY <2>1, <2>2, <2>3, <2>4
<1> QED  BY <1>5, <1>6

(* Rank 1 is one of the candidates, and none has a higher confidence. *)
LEMMA RankOneIsBest ==
  ASSUME NEW cs, Rung(cs), cs # {}
  PROVE  /\ RankOne(cs) \in cs
         /\ \A d \in cs : Confidence(d) <= Confidence(RankOne(cs))
<1>1. /\ RankOne(cs) \in cs
      /\ \A d \in cs \ {RankOne(cs)} : Before(RankOne(cs), d)
  BY RankOneExists DEF RankOne
<1>2. \A d \in cs : Confidence(d) \in Int
  BY ConfidenceType
<1> QED  BY <1>1, <1>2 DEF Before

-----------------------------------------------------------------------------
(***************************************************************************)
(* Candidates                                                              *)
(***************************************************************************)
(* A layer has finitely many candidates. *)
LEMMA CandidatesAreFinite ==
  ASSUME NEW R, NEW layer \in Seq(R), NEW cs,
         \A c \in cs : c.nth \in DOMAIN layer,
         \A c, d \in cs : c.nth = d.nth => c = d
  PROVE  IsFiniteSet(cs)
<1> DEFINE f == [c \in cs |-> c.nth]
<1>1. f \in Injection(cs, 1 .. Len(layer))
  BY DEF Injection, IsInjective
<1>2. IsFiniteSet(1 .. Len(layer))
  <2>1. 1 \in Int /\ Len(layer) \in Int
    OBVIOUS
  <2> QED  BY <2>1, FS_Interval
<1> HIDE DEF f
<1> QED  BY <1>1, <1>2, FS_Injection

(* The address points that answer make a rung, and only with a number.     *)
LEMMA PointsMakeARung ==
  ASSUME NEW q, NEW layer \in Seq(AddressPoint)
  PROVE  /\ Rung(SsapCandidates(q, layer))
         /\ \A c \in SsapCandidates(q, layer) :
              /\ c.tier = "ADDRESS_POINT"
              /\ IsActive(c.record, q.at)
              /\ q.number # Null
<1> DEFINE cs == SsapCandidates(q, layer)
<1>1. \A i \in DOMAIN layer : layer[i] \in AddressPoint /\ i \in Nat
  OBVIOUS
<1>2. ASSUME NEW c \in cs
      PROVE  /\ c.nth \in DOMAIN layer /\ c.record = layer[c.nth]
             /\ c.tier = "ADDRESS_POINT" /\ c.gap = 0
             /\ c = [tier |-> "ADDRESS_POINT", record |-> layer[c.nth],
                     nth |-> c.nth, gap |-> 0]
             /\ IsActive(c.record, q.at) /\ Located(c.record)
             /\ q.number # Null /\ c.record.score >= MinMatchScore
  BY DEF SsapCandidates
<1>3. ASSUME NEW c \in cs
      PROVE  /\ c.tier \in Tiers
             /\ c.record.score \in Nat
             /\ c.record.score >= MinMatchScore /\ c.record.score <= Perfect
             /\ c.record.place \in Int /\ c.record.place # Nowhere
             /\ c.record.nguid \in Nat
             /\ c.record.effective \in Int /\ c.record.expire \in Int
             /\ c.gap \in Nat \union {Null}
             /\ c.nth \in Nat
  <2>1. c.record \in AddressPoint /\ c.nth \in Nat
    BY <1>1, <1>2
  <2>2. /\ c.record.score \in 0 .. Perfect /\ c.record.nguid \in Nat
        /\ c.record.effective \in Int /\ c.record.expire \in Int
        /\ c.record.place \in Int
    BY <2>1 DEF AddressPoint
  <2>3. /\ c.tier = "ADDRESS_POINT" /\ c.gap = 0 /\ Located(c.record)
        /\ c.record.score >= MinMatchScore
    BY <1>2
  <2> HIDE DEF cs
  <2> QED  BY <2>1, <2>2, <2>3, LadderAssumption DEF Tiers, Located
<1>4. \A c, d \in cs : c.nth = d.nth => c = d
  BY <1>2
<1>5. \A c, d \in cs : c.tier = d.tier
  BY <1>2
<1>6. IsFiniteSet(cs)
  <2> HIDE DEF cs
  <2> QED  BY <1>2, <1>4, CandidatesAreFinite
<1> QED  BY <1>2, <1>3, <1>4, <1>5, <1>6 DEF Rung

(* The gap between a number and a segment is a number, or Null where the   *)
(* segment asserts nothing.                                                *)
LEMMA RangeGapType ==
  ASSUME NEW seg \in Segment(Nat, Nat), NEW n \in Nat
  PROVE  RangeGap(seg, n) \in Nat \union {Null}
<1> DEFINE gap(r) == IF n < r.low THEN r.low - n
                     ELSE IF n > r.high THEN n - r.high ELSE 0
           gaps   == {gap(r) : r \in SideRanges(seg)}
<1>1. ASSUME NEW r \in SideRanges(seg)
      PROVE  r.low \in Nat /\ r.high \in Nat
  <2>1. PICK s \in SideOf : Asserts(seg.sides[s]) /\ r = SideRange(seg, s)
    BY DEF SideRanges
  <2>2. seg.sides[s].from \in Nat /\ seg.sides[s].to \in Nat
    BY <2>1 DEF Segment, SideAttributes, Asserts
  <2> QED  BY <2>1, <2>2 DEF SideRange, Low, High
<1>2. gaps \subseteq Nat
  BY <1>1
<1>3. CASE gaps = {}
  BY <1>3 DEF RangeGap
<1>4. CASE gaps # {}
  <2>1. PICK g \in gaps : \A h \in gaps : g <= h
    <3> HIDE DEF gaps
    <3> QED  BY <1>2, <1>4, LeastExists
  <2>2. RangeGap(seg, n) = CHOOSE k \in gaps : \A h \in gaps : k <= h
    BY <1>4 DEF RangeGap
  <2> HIDE DEF gaps
  <2> QED  BY <1>2, <2>1, <2>2
<1> QED  BY <1>3, <1>4

(* The centerlines of each of the two rungs make a rung.                   *)
LEMMA RoadsMakeARung ==
  ASSUME NEW q \in Queries, NEW layer \in Seq(Centerline), NEW tier
  PROVE  /\ Rung(OfTier(RclCandidates(q, layer), tier))
         /\ \A c \in RclCandidates(q, layer) :
              /\ c.tier \in {"INTERPOLATED_POINT", "STREET_SEGMENT"}
              /\ IsActive(c.record, q.at)
              /\ c.tier = "INTERPOLATED_POINT" => q.number # Null
<1> DEFINE cs == RclCandidates(q, layer)
<1>1. \A i \in DOMAIN layer : layer[i] \in Centerline /\ i \in Nat
  OBVIOUS
<1>2. ASSUME NEW c \in cs
      PROVE  /\ c.nth \in DOMAIN layer /\ c.record = layer[c.nth]
             /\ c.tier = IF Placed(q, layer[c.nth])
                         THEN "INTERPOLATED_POINT" ELSE "STREET_SEGMENT"
             /\ c.gap = Gap(q, layer[c.nth])
             /\ c = [tier   |-> IF Placed(q, layer[c.nth])
                               THEN "INTERPOLATED_POINT"
                               ELSE "STREET_SEGMENT",
                     record |-> layer[c.nth], nth |-> c.nth,
                     gap    |-> Gap(q, layer[c.nth])]
             /\ IsActive(c.record, q.at) /\ Located(c.record)
             /\ c.record.score >= MinMatchScore
  BY DEF RclCandidates
<1>3. ASSUME NEW c \in cs
      PROVE  /\ c.tier \in Tiers
             /\ c.record.score \in Nat
             /\ c.record.score >= MinMatchScore /\ c.record.score <= Perfect
             /\ c.record.place \in Int /\ c.record.place # Nowhere
             /\ c.record.nguid \in Nat
             /\ c.record.effective \in Int /\ c.record.expire \in Int
             /\ c.gap \in Nat \union {Null}
             /\ c.nth \in Nat
  <2>1. c.record \in Centerline /\ c.nth \in Nat
    BY <1>1, <1>2
  <2>2. c.gap \in Nat \union {Null}
    <3>1. q.number \in Nat \union {Null}
      BY LadderAssumption
    <3>2. c.record.segment \in Segment(Nat, Nat)
      BY <2>1 DEF Centerline
    <3>3. c.gap = Gap(q, c.record)
      BY <1>2
    <3>4. CASE q.number = Null \/ Placed(q, c.record)
      BY <3>3, <3>4 DEF Gap
    <3>5. CASE ~(q.number = Null \/ Placed(q, c.record))
      BY <3>1, <3>2, <3>3, <3>5, RangeGapType DEF Gap
    <3> QED  BY <3>4, <3>5
  <2>3. /\ c.record.score \in 0 .. Perfect /\ c.record.nguid \in Nat
        /\ c.record.effective \in Int /\ c.record.expire \in Int
        /\ c.record.place \in Int
    BY <2>1 DEF Centerline
  <2>4. /\ c.tier \in {"INTERPOLATED_POINT", "STREET_SEGMENT"}
        /\ Located(c.record) /\ c.record.score >= MinMatchScore
    BY <1>2
  <2> HIDE DEF cs
  <2> QED  BY <2>1, <2>2, <2>3, <2>4, LadderAssumption DEF Tiers, Located
<1>4. \A c, d \in cs : c.nth = d.nth => c = d
  BY <1>2
<1>5. OfTier(cs, tier) \subseteq cs
      /\ \A c, d \in OfTier(cs, tier) : c.tier = d.tier
  BY DEF OfTier
<1>6. \A c \in cs : c.tier = "INTERPOLATED_POINT" => q.number # Null
  BY <1>2 DEF Placed
<1>7. IsFiniteSet(OfTier(cs, tier))
  <2> HIDE DEF cs
  <2>1. IsFiniteSet(cs)
    BY <1>2, <1>4, CandidatesAreFinite
  <2> QED  BY <2>1, <1>5, FS_Subset
<1> QED  BY <1>2, <1>3, <1>4, <1>5, <1>6, <1>7 DEF Rung

-----------------------------------------------------------------------------
(***************************************************************************)
(* The winning rung                                                        *)
(***************************************************************************)
(* Of the rungs that are not empty, one wins. *)
LEMMA WinnerExists ==
  ASSUME NEW full, \A i \in full : i \in {1, 2, 3}, full # {},
         NEW best, \A i \in full : best[i] \in Int
  PROVE  \E i \in full : \A j \in full : \/ best[i] > best[j]
                                        \/ (best[i] = best[j] /\ i <= j)
<1> DEFINE wins(i) == \A j \in full : \/ best[i] > best[j]
                                     \/ (best[i] = best[j] /\ i <= j)
<1>1. CASE /\ 1 \in full
           /\ 2 \in full => best[1] >= best[2]
           /\ 3 \in full => best[1] >= best[3]
  <2>1. wins(1)
    BY <1>1
  <2> QED  BY <1>1, <2>1
<1>2. CASE /\ 2 \in full
           /\ 1 \in full => best[2] > best[1]
           /\ 3 \in full => best[2] >= best[3]
  <2>1. wins(2)
    BY <1>2
  <2> QED  BY <1>2, <2>1
<1>3. CASE /\ 3 \in full
           /\ 1 \in full => best[3] > best[1]
           /\ 2 \in full => best[3] > best[2]
  <2>1. wins(3)
    BY <1>3
  <2> QED  BY <1>3, <2>1
<1>4. 1 \in full \/ 2 \in full \/ 3 \in full
  OBVIOUS
<1>5. /\ 1 \in full => best[1] \in Int
      /\ 2 \in full => best[2] \in Int
      /\ 3 \in full => best[3] \in Int
  OBVIOUS
<1> HIDE DEF wins
<1> QED  BY <1>1, <1>2, <1>3, <1>4, <1>5 DEF wins

(* What identify returns is one of the three rungs; it is empty only if    *)
(* all are, and no candidate of any rung beats its rank 1.                 *)
LEMMA IdentifyPicksARung ==
  ASSUME NEW q \in Queries, NEW points \in Seq(AddressPoint),
         NEW roads \in Seq(Centerline),
         NEW rung1, rung1 = SsapCandidates(q, points),
         NEW rung2, rung2 = OfTier(RclCandidates(q, roads),
                                   "INTERPOLATED_POINT"),
         NEW rung3, rung3 = OfTier(RclCandidates(q, roads), "STREET_SEGMENT"),
         NEW cs, cs = Identify(q, points, roads)
  PROVE  /\ cs \in {rung1, rung2, rung3}
         /\ cs = {} => rung1 = {} /\ rung2 = {} /\ rung3 = {}
         /\ cs # {} => \A d \in rung1 \union rung2 \union rung3 :
                        \/ Confidence(d) < Confidence(RankOne(cs))
                        \/ /\ Confidence(d) = Confidence(RankOne(cs))
                           /\ Ceiling(d.tier) <= Ceiling(RankOne(cs).tier)
<1> DEFINE rungs == <<rung1, rung2, rung3>>
           full  == {i \in 1 .. 3 : rungs[i] # {}}
           best  == [i \in full |-> Confidence(RankOne(rungs[i]))]
           wins(i) == \A j \in full : best[i] > best[j]
                                       \/ (best[i] = best[j] /\ i <= j)
           winner == CHOOSE i \in full : wins(i)
<1>0. /\ rungs[1] = rung1 /\ rungs[2] = rung2 /\ rungs[3] = rung3
      /\ full \subseteq {1, 2, 3}
      /\ 1 \in full <=> rung1 # {}
      /\ 2 \in full <=> rung2 # {}
      /\ 3 \in full <=> rung3 # {}
  OBVIOUS
<1>1. cs = IF SettlesLadder(rung1) THEN rung1
           ELSE IF full = {} THEN {} ELSE rungs[winner]
  BY DEF Identify
<1>2. Rung(rung1) /\ Rung(rung2) /\ Rung(rung3)
  BY PointsMakeARung, RoadsMakeARung
<1>3. /\ \A c \in rung1 : c.tier = "ADDRESS_POINT"
      /\ \A c \in rung2 : c.tier = "INTERPOLATED_POINT"
      /\ \A c \in rung3 : c.tier = "STREET_SEGMENT"
  BY PointsMakeARung DEF OfTier
<1> DEFINE Beaten(d, e) == \/ Confidence(d) < Confidence(e)
                           \/ /\ Confidence(d) = Confidence(e)
                              /\ Ceiling(d.tier) <= Ceiling(e.tier)
<1>4. \A i \in full : /\ RankOne(rungs[i]) \in rungs[i]
                      /\ Confidence(RankOne(rungs[i])) \in Nat
                      /\ \A d \in rungs[i] :
                           /\ Confidence(d) \in Nat
                           /\ Confidence(d) <= Confidence(RankOne(rungs[i]))
  <2>1. ASSUME NEW i \in full  PROVE Rung(rungs[i]) /\ rungs[i] # {}
    BY <1>2
  <2> HIDE DEF rungs
  <2> QED  BY <2>1, RankOneIsBest, ConfidenceType
<1>5. CASE SettlesLadder(rung1)
  <2>1. cs = rung1 /\ rung1 # {}
    BY <1>1, <1>5 DEF SettlesLadder
  <2>2. RankOne(rung1) \in rung1 /\ Confidence(RankOne(rung1)) \in Nat
        /\ Confidence(RankOne(rung1)) >= 75 * Perfect
    BY <2>1, <1>2, <1>5, RankOneIsBest, ConfidenceType, LadderAssumption
    DEF SettlesLadder, Ceiling
  <2>3. ASSUME NEW d \in rung1  PROVE Beaten(d, RankOne(rung1))
    <3>1. Confidence(d) \in Nat /\ Confidence(d) <= Confidence(RankOne(rung1))
      BY <2>1, <1>2, RankOneIsBest, ConfidenceType
    <3>2. Ceiling(d.tier) = 80 /\ Ceiling(RankOne(rung1).tier) = 80
      BY <2>2, <1>3 DEF Ceiling
    <3> QED  BY <3>1, <3>2, <2>2
  <2>4. ASSUME NEW d \in rung2 \union rung3
        PROVE  Beaten(d, RankOne(rung1))
    <3>1. d.record.score \in Nat /\ d.record.score <= Perfect
      BY <1>2 DEF Rung
    <3>2. Confidence(d) \in Nat /\ Confidence(d) <= 75 * Perfect
          /\ Ceiling(d.tier) <= 75
      <4>1. Ceiling(d.tier) \in {50, 75}
        BY <1>3 DEF Ceiling
      <4>2. Confidence(d) = d.record.score * Ceiling(d.tier)
        BY DEF Confidence
      <4> QED  BY <3>1, <4>1, <4>2, LadderAssumption
    <3>3. Ceiling(RankOne(rung1).tier) = 80
      BY <2>2, <1>3 DEF Ceiling
    <3>4. Ceiling(d.tier) <= Ceiling(RankOne(rung1).tier)
      BY <3>2, <3>3, <1>3, <1>2 DEF Ceiling
    <3> QED  BY <2>2, <3>2, <3>4, LadderAssumption
  <2> QED  BY <2>1, <2>3, <2>4
<1>6. CASE ~SettlesLadder(rung1) /\ full = {}
  <2>1. rung1 = {} /\ rung2 = {} /\ rung3 = {}
    BY <1>0, <1>6
  <2> QED  BY <2>1, <1>1, <1>6
<1>7. CASE ~SettlesLadder(rung1) /\ full # {}
  <2>1. \A i \in full : best[i] \in Nat /\ i \in {1, 2, 3}
    BY <1>4
  <2>2. \E i \in full : wins(i)
    <3> HIDE DEF best, full
    <3>0. \A j \in full : j \in {1, 2, 3} /\ best[j] \in Int
      BY <2>1
    <3> QED  BY <3>0, <1>7, WinnerExists
  <2>3. winner \in full /\ wins(winner)
    <3> HIDE DEF wins, full
    <3> QED  BY <2>2
  <2>4. cs = rungs[winner]
    BY <1>1, <1>7
  <2>5. ASSUME NEW i \in full, NEW d \in rungs[i]
        PROVE  Beaten(d, RankOne(cs))
    <3>1. best[winner] > best[i] \/ (best[winner] = best[i] /\ winner <= i)
      BY <2>3
    <3>2. /\ Confidence(d) \in Nat /\ Confidence(d) <= best[i]
          /\ best[winner] = Confidence(RankOne(cs)) /\ best[winner] \in Nat
          /\ best[i] \in Nat /\ RankOne(cs) \in rungs[winner]
      BY <1>4, <2>3, <2>4
    <3>3. winner <= i => Ceiling(d.tier) <= Ceiling(RankOne(cs).tier)
      <4> HIDE DEF winner, full, best, rungs
      <4>1. ASSUME NEW j \in {1, 2, 3}, NEW c \in rungs[j]
            PROVE  Ceiling(c.tier) = IF j = 1 THEN 80
                                     ELSE IF j = 2 THEN 75 ELSE 50
        BY <1>0, <1>3 DEF Ceiling
      <4>2. i \in {1, 2, 3} /\ winner \in {1, 2, 3}
        BY <2>1, <2>3
      <4>3. RankOne(cs) \in rungs[winner] /\ d \in rungs[i]
        BY <3>2
      <4> QED  BY <4>1, <4>2, <4>3
    <3> HIDE DEF winner, full, best, rungs
    <3> QED  BY <3>1, <3>2, <3>3
  <2>6. cs \in {rung1, rung2, rung3} /\ cs # {}
    <3> HIDE DEF winner, full, rungs, wins
    <3>1. winner \in {1, 2, 3}
      BY <2>3, <1>0
    <3>2. rungs[winner] # {}
      BY <2>3, <1>4
    <3> QED  BY <3>1, <3>2, <2>4, <1>0
  <2>7. \A d \in rung1 \union rung2 \union rung3 :
          \E i \in full : d \in rungs[i]
    <3>1. ASSUME NEW d \in rung1  PROVE 1 \in full /\ d \in rungs[1]
      OBVIOUS
    <3>2. ASSUME NEW d \in rung2  PROVE 2 \in full /\ d \in rungs[2]
      OBVIOUS
    <3>3. ASSUME NEW d \in rung3  PROVE 3 \in full /\ d \in rungs[3]
      OBVIOUS
    <3> HIDE DEF rungs, full
    <3> QED  BY <3>1, <3>2, <3>3
  <2> HIDE DEF rungs, full
  <2> QED  BY <2>5, <2>6, <2>7
<1> QED  BY <1>5, <1>6, <1>7

-----------------------------------------------------------------------------
(***************************************************************************)
(* Sums                                                                    *)
(***************************************************************************)
(* A set of finite sets, of which no member is empty and each is one larger*)
(* than some other, has no member.                                         *)
LEMMA NoneIsLeast ==
  ASSUME NEW S, IsFiniteSet(S), NEW Bad, Bad \subseteq SUBSET S,
         {} \notin Bad,
         \A s \in Bad : \E x \in s : s \ {x} \in Bad
  PROVE  Bad = {}
<1> DEFINE Sizes == {Cardinality(s) : s \in Bad}
<1>1. \A s \in Bad : IsFiniteSet(s) /\ Cardinality(s) \in Nat
  BY FS_Subset, FS_CardinalityType
<1>2. ASSUME Bad # {}
      PROVE  FALSE
  <2>1. Sizes \subseteq Nat /\ Sizes # {}
    BY <1>1, <1>2
  <2>2. PICK s \in Bad : \A t \in Bad : Cardinality(s) <= Cardinality(t)
    <3>1. PICK m \in Sizes : \A k \in Sizes : m <= k
      <4> HIDE DEF Sizes
      <4> QED  BY <2>1, LeastExists
    <3> QED  BY <3>1
  <2>3. PICK x \in s : s \ {x} \in Bad
    BY <2>2
  <2>4. Cardinality(s \ {x}) = Cardinality(s) - 1
    BY <1>1, FS_RemoveElement
  <2> QED  BY <1>1, <2>2, <2>3, <2>4
<1> QED  BY <1>2

(* The choice the community modules make of what to add next.              *)
Pick(s) == CHOOSE x \in s : TRUE

(* The subsets that have at most so many elements. *)
UpTo(S, n) == {s \in SUBSET S : Cardinality(s) <= n}

PlaceOf(c) == c.record.place

(* What the community modules define a sum by, over some of the subsets. *)
Adds(f, domain) ==
  \A s \in domain :
    f[s] = IF s = {} THEN 0 ELSE PlaceOf(Pick(s)) + f[s \ {Pick(s)}]

(* Candidates that can be added up. *)
Addable(S) == IsFiniteSet(S) /\ \A c \in S : PlaceOf(c) \in Int

(* Whatever candidates are added up, the partial sums exist. *)
LEMMA PartialSumsExist ==
  ASSUME NEW S, Addable(S), NEW n \in Nat
  PROVE  \E f \in [UpTo(S, n) -> Int] : Adds(f, UpTo(S, n))
<1> DEFINE Exist(m) == \E f \in [UpTo(S, m) -> Int] : Adds(f, UpTo(S, m))
           Missing == {m \in Nat : ~Exist(m)}
<1>1. \A s \in SUBSET S : IsFiniteSet(s) /\ Cardinality(s) \in Nat
  BY FS_Subset, FS_CardinalityType DEF Addable
<1>2. \A s \in SUBSET S : s # {} =>
        /\ Pick(s) \in s /\ s \ {Pick(s)} \in SUBSET S
        /\ Cardinality(s \ {Pick(s)}) = Cardinality(s) - 1
  BY <1>1, FS_RemoveElement DEF Pick
<1>3. Exist(0)
  <2> DEFINE f == [s \in UpTo(S, 0) |-> 0]
  <2>1. \A s \in UpTo(S, 0) : s = {}
    BY <1>1, FS_EmptySet DEF UpTo
  <2>2. f \in [UpTo(S, 0) -> Int] /\ Adds(f, UpTo(S, 0))
    BY <2>1 DEF Adds
  <2> QED  BY <2>2
<1>4. ASSUME NEW m \in Nat, Exist(m)
      PROVE  Exist(m + 1)
  <2>1. PICK f \in [UpTo(S, m) -> Int] : Adds(f, UpTo(S, m))
    BY <1>4
  <2> DEFINE g == [s \in UpTo(S, m + 1) |->
                     IF s = {} THEN 0
                     ELSE PlaceOf(Pick(s)) + f[s \ {Pick(s)}]]
  <2>2. ASSUME NEW s \in UpTo(S, m + 1), s # {}
        PROVE  s \ {Pick(s)} \in UpTo(S, m) /\ Pick(s) \in S
    BY <1>1, <1>2, <2>2 DEF UpTo
  <2>3. \A s \in UpTo(S, m) : s \in UpTo(S, m + 1) /\ g[s] = f[s]
    BY <1>1, <2>1 DEF UpTo, Adds
  <2>4. g \in [UpTo(S, m + 1) -> Int]
    <3> SUFFICES ASSUME NEW s \in UpTo(S, m + 1), s # {}
                 PROVE  PlaceOf(Pick(s)) + f[s \ {Pick(s)}] \in Int
      OBVIOUS
    <3>1. PlaceOf(Pick(s)) \in Int /\ f[s \ {Pick(s)}] \in Int
      BY <2>2 DEF Addable
    <3> QED  BY <3>1
  <2>5. \A s \in UpTo(S, m + 1) :
          s # {} => g[s \ {Pick(s)}] = f[s \ {Pick(s)}]
    BY <2>2, <2>3
  <2>6. Adds(g, UpTo(S, m + 1))
    BY <2>5 DEF Adds
  <2> QED  BY <2>4, <2>6
<1> HIDE DEF Exist
<1>5. Missing = {}
  <2> SUFFICES ASSUME Missing # {} PROVE FALSE
    OBVIOUS
  <2>1. PICK m \in Missing : \A k \in Missing : m <= k
    BY LeastExists
  <2>2. m # 0 /\ m - 1 \in Nat
    BY <1>3, <2>1
  <2>3. Exist(m - 1)
    BY <2>1, <2>2
  <2>4. Exist((m - 1) + 1)
    BY <1>4, <2>2, <2>3
  <2> QED  BY <2>1, <2>4
<1> QED  BY <1>5 DEF Exist

(* The sum of the places of candidates. *)
Total(cs) == MapThenSumSet(LAMBDA c : c.record.place, cs)

(* Partial sums are numbers, and it does not matter what is added last.    *)
Sums(f, S) ==
  /\ f[{}] = 0
  /\ \A s \in SUBSET S : /\ f[s] \in Int
                         /\ \A x \in s : f[s] = PlaceOf(x) + f[s \ {x}]

(* The total is the last of such partial sums. *)
LEMMA TotalIsASum ==
  ASSUME NEW S, Addable(S)
  PROVE  \E f : Sums(f, S) /\ Total(S) = f[S]
<1> DEFINE n == Cardinality(S)
           Equation(f) == f = [s \in SUBSET S |->
                                 IF s = {} THEN 0
                                 ELSE PlaceOf(Pick(s)) + f[s \ {Pick(s)}]]
           sums == CHOOSE f : Equation(f)
<1>1. n \in Nat
  BY FS_CardinalityType DEF Addable
<1>2. UpTo(S, n) = SUBSET S
  BY <1>1, FS_Subset DEF UpTo, Addable
<1>3. PICK f \in [SUBSET S -> Int] : Adds(f, SUBSET S)
  <2> HIDE DEF n
  <2>1. \E f \in [UpTo(S, n) -> Int] : Adds(f, UpTo(S, n))
    BY <1>1, PartialSumsExist
  <2> QED  BY <1>2, <2>1
<1>4. Equation(f)
  BY <1>3 DEF Adds
<1>5. Equation(sums)
  BY <1>4
<1>6. Total(S) = sums[S]
  BY DEF Total, MapThenSumSet, MapThenFoldSet, Pick, PlaceOf
<1> HIDE DEF sums
<1>7. /\ sums[{}] = 0
      /\ \A s \in SUBSET S : s # {} =>
           /\ Pick(s) \in s /\ s \ {Pick(s)} \in SUBSET S
           /\ sums[s] = PlaceOf(Pick(s)) + sums[s \ {Pick(s)}]
  <2>1. \A s \in SUBSET S :
          sums[s] = IF s = {} THEN 0
                    ELSE PlaceOf(Pick(s)) + sums[s \ {Pick(s)}]
    BY <1>5
  <2>2. \A s \in SUBSET S : s # {} => Pick(s) \in s
    BY DEF Pick
  <2> QED  BY <2>1, <2>2
<1>8. \A s \in SUBSET S : sums[s] \in Int
  <2> DEFINE Bad == {s \in SUBSET S : sums[s] \notin Int}
  <2>1. {} \notin Bad
    BY <1>7
  <2>2. ASSUME NEW s \in Bad
        PROVE  \E x \in s : s \ {x} \in Bad
    <3>1. s # {} /\ Pick(s) \in s /\ PlaceOf(Pick(s)) \in Int
      BY <1>7, <2>1 DEF Addable
    <3> QED  BY <1>7, <3>1
  <2>3. Bad = {}
    <3>1. Bad \subseteq SUBSET S /\ IsFiniteSet(S)
      BY DEF Addable
    <3> HIDE DEF Bad
    <3> QED  BY <2>1, <2>2, <3>1, NoneIsLeast
  <2> QED  BY <2>3
<1>9. \A s \in SUBSET S : \A x \in s :
        sums[s] = PlaceOf(x) + sums[s \ {x}]
  <2> DEFINE Bad == {s \in SUBSET S : \E x \in s :
                       sums[s] # PlaceOf(x) + sums[s \ {x}]}
  <2>2. ASSUME NEW s \in Bad
        PROVE  \E x \in s : s \ {x} \in Bad
    <3>1. PICK x \in s : sums[s] # PlaceOf(x) + sums[s \ {x}]
      OBVIOUS
    <3> DEFINE p == Pick(s)
               rest == (s \ {x}) \ {p}
    <3>2. /\ p \in s /\ p # x /\ sums[s] = PlaceOf(p) + sums[s \ {p}]
          /\ p \in s \ {x} /\ x \in s \ {p} /\ rest = (s \ {p}) \ {x}
          /\ s \ {x} \in SUBSET S /\ s \ {p} \in SUBSET S
          /\ rest \in SUBSET S
      BY <1>7, <3>1
    <3>3. /\ PlaceOf(p) \in Int /\ PlaceOf(x) \in Int
          /\ sums[rest] \in Int /\ sums[s \ {x}] \in Int
          /\ sums[s \ {p}] \in Int
      BY <1>8, <3>2 DEF Addable
    <3> HIDE DEF p, rest
    <3>4. CASE /\ sums[s \ {p}] = PlaceOf(x) + sums[rest]
               /\ sums[s \ {x}] = PlaceOf(p) + sums[rest]
      BY <3>1, <3>2, <3>3, <3>4
    <3>5. CASE sums[s \ {p}] # PlaceOf(x) + sums[rest]
      BY <3>2, <3>5
    <3>6. CASE sums[s \ {x}] # PlaceOf(p) + sums[rest]
      BY <3>2, <3>6 DEF rest
    <3> QED  BY <3>4, <3>5, <3>6
  <2>3. Bad = {}
    <3>1. Bad \subseteq SUBSET S /\ IsFiniteSet(S) /\ {} \notin Bad
      BY DEF Addable
    <3> HIDE DEF Bad
    <3> QED  BY <2>2, <3>1, NoneIsLeast
  <2> QED  BY <2>3
<1> QED  BY <1>6, <1>7, <1>8, <1>9 DEF Sums

(* A total lies between as many times the least place and the greatest.    *)
LEMMA TotalIsBetween ==
  ASSUME NEW S, Addable(S), NEW low \in Int, NEW high \in Int,
         \A c \in S : low <= PlaceOf(c) /\ PlaceOf(c) <= high
  PROVE  /\ Total(S) \in Int
         /\ low * Cardinality(S) <= Total(S)
         /\ Total(S) <= high * Cardinality(S)
<1>1. PICK f : Sums(f, S) /\ Total(S) = f[S]
  BY TotalIsASum
<1>2. \A s \in SUBSET S : IsFiniteSet(s) /\ Cardinality(s) \in Nat
  BY FS_Subset, FS_CardinalityType DEF Addable
<1> DEFINE Within(s) == /\ low * Cardinality(s) <= f[s]
                        /\ f[s] <= high * Cardinality(s)
           Bad == {s \in SUBSET S : ~Within(s)}
<1>3. Within({})
  <2>1. Cardinality({}) = 0 /\ f[{}] = 0
    BY <1>1, FS_EmptySet DEF Sums
  <2> QED  BY <2>1
<1>4. ASSUME NEW s \in SUBSET S, NEW x \in s, Within(s \ {x})
      PROVE  Within(s)
  <2> DEFINE n == Cardinality(s \ {x})
             t == f[s \ {x}]
             p == PlaceOf(x)
  <2>1. /\ n \in Nat /\ Cardinality(s) = n + 1
        /\ f[s] = p + t /\ t \in Int /\ p \in Int /\ low <= p /\ p <= high
    <3>1. n = Cardinality(s) - 1 /\ n \in Nat /\ Cardinality(s) \in Nat
      BY <1>2, FS_RemoveElement
    <3>2. f[s] = p + t /\ t \in Int
      BY <1>1 DEF Sums
    <3>3. p \in Int /\ low <= p /\ p <= high
      BY DEF Addable
    <3> HIDE DEF n
    <3> QED  BY <3>1, <3>2, <3>3
  <2>2. low * n <= t /\ t <= high * n
    BY <1>4
  <2> HIDE DEF n, t, p
  <2>3. low * (n + 1) = low * n + low /\ high * (n + 1) = high * n + high
    BY <2>1
  <2>4. low * n \in Int /\ high * n \in Int
    BY <2>1
  <2>5. low * n + low <= p + t /\ p + t <= high * n + high
    BY <2>1, <2>2, <2>4
  <2> QED  BY <2>1, <2>3, <2>5
<1>5. Bad = {}
  <2>1. \A s \in Bad : \E x \in s : s \ {x} \in Bad
    <3> SUFFICES ASSUME NEW s \in Bad PROVE \E x \in s : s \ {x} \in Bad
      OBVIOUS
    <3>1. s # {} /\ s \in SUBSET S /\ ~Within(s)
      BY <1>3
    <3> HIDE DEF Within
    <3> QED  BY <1>4, <3>1
  <2>2. Bad \subseteq SUBSET S /\ {} \notin Bad /\ IsFiniteSet(S)
    BY <1>3 DEF Addable
  <2> HIDE DEF Bad
  <2> QED  BY <2>1, <2>2, NoneIsLeast
<1> QED  BY <1>1, <1>5 DEF Sums

-----------------------------------------------------------------------------
(***************************************************************************)
(* The strict answer                                                       *)
(***************************************************************************)
(* Some of a rung is ranked as the rung is. *)
LEMMA PartOfARung ==
  ASSUME NEW cs, Rung(cs), NEW part \in SUBSET cs
  PROVE  Rung(part)
<1>1. IsFiniteSet(part)
  BY FS_Subset DEF Rung
<1> QED  BY <1>1 DEF Rung

(* A strict answer comes of candidates, and of no others. *)
LEMMA StrictComesOfFound ==
  ASSUME NEW cs, Rung(cs)
  PROVE  StrictAnswer(cs).from \subseteq cs
<1>1. TopTier(cs) \subseteq cs /\ NearestTier(TopTier(cs)) \subseteq cs
  BY DEF TopTier, NearestTier
<1>2. StrictPoint(TopTier(cs)).from \subseteq cs
  BY <1>1 DEF StrictPoint, Answer, Ambiguous
<1>3. StrictSegment(NearestTier(TopTier(cs))).from \subseteq cs
  <2> DEFINE tier == NearestTier(TopTier(cs))
  <2>1. tier # {} => RankOne(tier) \in tier
    BY <1>1, PartOfARung, RankOneIsBest
  <2> HIDE DEF tier
  <2>2. tier \subseteq cs
    BY <1>1 DEF tier
  <2>3. StrictSegment(tier).from \subseteq cs
    BY <2>1, <2>2 DEF StrictSegment, Answer, Ambiguous, Raised
  <2> QED  BY <2>3 DEF tier
<1> QED  BY <1>2, <1>3 DEF StrictAnswer, None

(* Only the candidates with the best scores compete.                       *)
LEMMA TopTierIsLeaders ==
  ASSUME NEW cs, Rung(cs), cs # {}
  PROVE  TopTier(cs) = {c \in cs : \A d \in cs :
                          d.record.score - c.record.score <= Epsilon}
<1>1. RankOne(cs) \in cs
      /\ \A d \in cs : Confidence(d) <= Confidence(RankOne(cs))
  BY RankOneIsBest
<1>2. \A d \in cs : d.record.score \in Int /\ d.tier = RankOne(cs).tier
  BY <1>1 DEF Rung
<1>3. PICK k \in {50, 75, 80} :
        \A d \in cs : Confidence(d) = d.record.score * k
  <2> DEFINE k == Ceiling(RankOne(cs).tier)
  <2>1. \A d \in cs : Confidence(d) = d.record.score * k
    BY <1>2 DEF Confidence
  <2>2. k \in {50, 75, 80}
    BY DEF Ceiling
  <2> HIDE DEF k
  <2> QED  BY <2>1, <2>2
<1>4. \A d \in cs : d.record.score <= RankOne(cs).record.score
  BY <1>1, <1>2, <1>3
<1>5. \A e \in cs :
        RankOne(cs).record.score - e.record.score <= Epsilon
          <=> \A d \in cs : d.record.score - e.record.score <= Epsilon
  BY <1>1, <1>2, <1>4, LadderAssumption
<1> QED  BY <1>5 DEF TopTier

(* Candidates can be added up. *)
LEMMA RungAddable ==
  ASSUME NEW cs, Rung(cs)
  PROVE  /\ Addable(cs) /\ Cardinality(cs) \in Nat
         /\ Scattered(cs) <=>
              /\ Cardinality(cs) > 1
              /\ \E c \in cs : Distance(Cardinality(cs) * PlaceOf(c),
                                        Total(cs))
                                 > Cardinality(cs) * Tolerance
<1>1. Addable(cs) /\ Cardinality(cs) \in Nat
  BY FS_CardinalityType DEF Rung, Addable, PlaceOf
<1> QED  BY <1>1 DEF Scattered, Total, PlaceOf

(* Where all places are within the tolerance of each other, none is beyond *)
(* it from their mean.                                                     *)
LEMMA CloseNeverScatter ==
  ASSUME NEW cs, Rung(cs),
         \A p, o \in Places(cs) : Distance(p, o) <= Tolerance
  PROVE  ~Scattered(cs)
<1> DEFINE n == Cardinality(cs)
<1>1. SUFFICES ASSUME NEW c \in cs
               PROVE  ~(Distance(n * PlaceOf(c), Total(cs)) > n * Tolerance)
  BY RungAddable
<1> DEFINE p == PlaceOf(c)
           t == Total(cs)
<1>2. n \in Nat /\ p \in Int /\ Tolerance \in Nat
  BY RungAddable, LadderAssumption DEF Addable
<1>3. \A d \in cs : p - Tolerance <= PlaceOf(d) /\ PlaceOf(d) <= p + Tolerance
  <2> SUFFICES ASSUME NEW d \in cs
               PROVE  p - Tolerance <= PlaceOf(d)
                      /\ PlaceOf(d) <= p + Tolerance
    OBVIOUS
  <2>1. Distance(p, PlaceOf(d)) <= Tolerance /\ PlaceOf(d) \in Int
    BY RungAddable DEF Places, PlaceOf, Addable
  <2> HIDE DEF p
  <2> QED  BY <1>2, <2>1 DEF Distance
<1>4. /\ t \in Int
      /\ (p - Tolerance) * n <= t /\ t <= (p + Tolerance) * n
  <2> HIDE DEF p
  <2>1. p - Tolerance \in Int /\ p + Tolerance \in Int
    BY <1>2
  <2> QED  BY <1>3, <2>1, RungAddable, TotalIsBetween DEF n, t
<1> HIDE DEF n, p, t
<1>5. /\ (p - Tolerance) * n = n * p - n * Tolerance
      /\ (p + Tolerance) * n = n * p + n * Tolerance
      /\ n * p \in Int /\ n * Tolerance \in Int
  BY <1>2
<1>6. ~(Distance(n * p, t) > n * Tolerance)
  BY <1>4, <1>5 DEF Distance
<1> QED  BY <1>6 DEF p, t

(* Places of which none is beyond the tolerance from the mean are within   *)
(* two tolerances of each other.                                           *)
LEMMA MergedAreClose ==
  ASSUME NEW cs, Rung(cs), ~Scattered(cs), NEW c \in cs, NEW d \in cs
  PROVE  Distance(PlaceOf(c), PlaceOf(d)) <= 2 * Tolerance
<1> DEFINE n == Cardinality(cs)
           t == Total(cs)
           p == PlaceOf(c)
           o == PlaceOf(d)
<1>1. /\ n \in Nat /\ p \in Int /\ o \in Int /\ Tolerance \in Nat
      /\ t \in Int
  <2>1. t \in Int
    <3>1. PICK f : Sums(f, cs) /\ Total(cs) = f[cs]
      BY RungAddable, TotalIsASum
    <3> QED  BY <3>1 DEF Sums
  <2> QED  BY <2>1, RungAddable, LadderAssumption DEF Addable
<1>2. CASE n <= 1
  <2>1. n # 0
    BY RungAddable, FS_EmptySet DEF Addable
  <2>2. n = 1
    <3> HIDE DEF n
    <3> QED  BY <1>1, <1>2, <2>1
  <2>3. c = d
    BY <2>2, RungAddable, FS_Singleton DEF Addable
  <2> QED  BY <1>1, <2>3 DEF Distance
<1>3. CASE n > 1
  <2>1. /\ ~(Distance(n * p, t) > n * Tolerance)
        /\ ~(Distance(n * o, t) > n * Tolerance)
    BY <1>3, RungAddable
  <2> HIDE DEF n, t, p, o
  <2> DEFINE np == n * p
             no == n * o
             nt == n * Tolerance
  <2>2. np \in Int /\ no \in Int /\ nt \in Int
    BY <1>1
  <2>3. np - no <= nt + nt /\ no - np <= nt + nt
    <3> HIDE DEF np, no, nt
    <3>1. ~(Distance(np, t) > nt) /\ ~(Distance(no, t) > nt)
      BY <2>1 DEF np, no, nt
    <3> QED  BY <1>1, <2>2, <3>1 DEF Distance
  <2>4. /\ np - no = n * (p - o) /\ no - np = n * (o - p)
        /\ nt + nt = n * (2 * Tolerance)
    BY <1>1
  <2>5. ASSUME NEW x \in Int, NEW y \in Int, n * x <= n * y
        PROVE  x <= y
    <3>1. CASE x > y
      <4>1. x - y >= 1 /\ x - y \in Nat
        BY <3>1
      <4>2. n * (x - y) >= x - y
        BY <1>1, <1>3, <4>1, Z3
      <4>3. n * (x - y) = n * x - n * y /\ n * x \in Int /\ n * y \in Int
        BY <1>1
      <4> QED  BY <2>5, <4>1, <4>2, <4>3
    <3> QED  BY <3>1
  <2>6. p - o <= 2 * Tolerance /\ o - p <= 2 * Tolerance
    <3>1. p - o \in Int /\ o - p \in Int /\ 2 * Tolerance \in Int
      BY <1>1
    <3> QED  BY <2>3, <2>4, <2>5, <3>1
  <2>7. Distance(p, o) <= 2 * Tolerance
    BY <1>1, <2>6 DEF Distance
  <2> QED  BY <2>7 DEF p, o
<1> QED  BY <1>1, <1>2, <1>3

(* Of whole segments with a leader nearer to the number than all the       *)
(* others, that one is the answer.                                         *)
LEMMA NearestLeaderAnswers ==
  ASSUME NEW cs, Rung(cs),
         NEW leaders, leaders = {c \in cs : \A d \in cs :
                                   d.record.score - c.record.score <= Epsilon},
         NEW c \in leaders, c.tier = "STREET_SEGMENT",
         \A d \in leaders \ {c} : GapLess(c.gap, d.gap)
  PROVE  StrictAnswer(cs) = Answer("line", {c})
<1>1. TopTier(cs) = leaders
  BY TopTierIsLeaders
<1>2. IsFiniteSet(leaders)
  BY FS_Subset DEF Rung
<1>3. NearestTier(leaders) = {c}
  <2> DEFINE n      == Cardinality(leaders)
             others == Cardinality(leaders \ {c})
  <2>1. n \in Nat /\ others = n - 1 /\ (leaders = {c} => n = 1)
    BY <1>2, FS_CardinalityType, FS_RemoveElement, FS_Singleton
  <2>2. CASE n < 2
    <3>1. n # 0
      BY <1>2, FS_EmptySet
    <3>2. IsFiniteSet(leaders \ {c})
      BY <1>2, FS_RemoveElement
    <3>3. others = 0
      <4> HIDE DEF n, others
      <4> QED  BY <2>1, <2>2, <3>1
    <3>4. leaders \ {c} = {}
      BY <3>2, <3>3, FS_EmptySet
    <3> QED  BY <3>4, <2>2 DEF NearestTier
  <2>3. CASE ~(n < 2)
    <3>1. \E d \in leaders : d # c
      BY <2>1, <2>3
    <3>2. c.gap # Null
      BY <3>1 DEF GapLess
    <3>3. \A d \in leaders : d.gap \in Nat \union {Null}
      BY DEF Rung
    <3>4. \A d \in leaders : ~GapLess(d.gap, c.gap)
      BY <3>3 DEF GapLess
    <3> QED  BY <3>2, <3>4, <2>3 DEF NearestTier
  <2> QED  BY <2>2, <2>3
<1>4. RankOne({c}) = c
  BY DEF RankOne
<1>5. ~SegmentsScattered({c})
  <2> SUFFICES ASSUME NEW p \in Places({c}), NEW o \in Places({c})
               PROVE  ~(Distance(p, o) > Tolerance)
    BY DEF SegmentsScattered
  <2>1. p = c.record.place /\ o = c.record.place /\ c.record.place \in Int
    BY DEF Places, Rung
  <2> QED  BY <2>1, LadderAssumption DEF Distance
<1> QED  BY <1>1, <1>3, <1>4, <1>5 DEF StrictAnswer, StrictSegment

-----------------------------------------------------------------------------
(***************************************************************************)
(* The order of the layers                                                 *)
(***************************************************************************)
(* Two rungs with the same records, each with an NGUID of its own: h tells *)
(* which candidate of one is which of the other.                           *)
Matches(cs, ds, h) ==
  /\ Rung(cs) /\ Rung(ds)
  /\ ds = {h[c] : c \in cs}
  /\ \A c, d \in cs : c.record.nguid = d.record.nguid => c = d
  /\ \A c \in cs : /\ h[c].tier = c.tier /\ h[c].record = c.record
                   /\ h[c].gap = c.gap

(* Nobody matches nobody. *)
LEMMA NoneMatchNone ==
  ASSUME NEW cs, NEW ds, NEW h, Matches(cs, ds, h)
  PROVE  cs = {} <=> ds = {}
BY DEF Matches

(* So are those of each that pass the same test. *)
LEMMA PartsMatch ==
  ASSUME NEW cs, NEW ds, NEW h, Matches(cs, ds, h),
         NEW part \in SUBSET cs, NEW other \in SUBSET ds,
         \A c \in cs : c \in part <=> h[c] \in other
  PROVE  Matches(part, other, h)
<1>1. Rung(part) /\ Rung(other)
  BY PartOfARung DEF Matches
<1>2. other = {h[c] : c \in part}
  BY DEF Matches
<1> QED  BY <1>1, <1>2 DEF Matches

(* The same candidate is rank 1. *)
LEMMA RankOnesMatch ==
  ASSUME NEW cs, NEW ds, NEW h, Matches(cs, ds, h), cs # {}
  PROVE  /\ ds # {} /\ RankOne(cs) \in cs /\ RankOne(ds) = h[RankOne(cs)]
         /\ RankOne(ds).record = RankOne(cs).record
         /\ Confidence(RankOne(ds)) = Confidence(RankOne(cs))
<1> DEFINE c == RankOne(cs)
           d == RankOne(ds)
<1>1. Rung(cs) /\ Rung(ds) /\ ds # {}
  BY DEF Matches
<1>2. c \in cs /\ \A e \in cs \ {c} : Before(c, e)
  BY <1>1, RankOneExists DEF RankOne
<1>3. d \in ds /\ \A e \in ds \ {d} : Before(d, e)
  BY <1>1, RankOneExists DEF RankOne
<1> HIDE DEF c, d
<1>4. PICK e \in cs : d = h[e]
  BY <1>3 DEF Matches
<1>5. h[c] \in ds
  BY <1>2 DEF Matches
<1>6. /\ h[c].tier = c.tier /\ h[c].record = c.record /\ h[c].gap = c.gap
      /\ d.tier = e.tier /\ d.record = e.record /\ d.gap = e.gap
  BY <1>2, <1>4 DEF Matches
<1>7. e = c
  <2> SUFFICES ASSUME e # c
               PROVE  FALSE
    OBVIOUS
  <2>1. c.record.nguid # e.record.nguid
    BY <1>2, <1>4 DEF Matches
  <2>2. h[c] # d
    BY <1>6, <2>1
  <2>3. Before(c, e) /\ Before(d, h[c])
    BY <1>2, <1>3, <1>4, <1>5, <2>2
  <2>4. /\ Confidence(d) = Confidence(e) /\ Confidence(h[c]) = Confidence(c)
        /\ Confidence(c) \in Int /\ Confidence(e) \in Int
    <3>1. Confidence(c) \in Nat /\ Confidence(e) \in Nat
      BY <1>1, <1>2, <1>4, ConfidenceType
    <3> QED  BY <1>6, <3>1 DEF Confidence
  <2>5. /\ c.record.nguid \in Nat /\ e.record.nguid \in Nat
        /\ c.gap \in Nat \union {Null} /\ e.gap \in Nat \union {Null}
    BY <1>1, <1>2, <1>4 DEF Rung
  <2> DEFINE before(a, b) ==
               \/ Confidence(a) > Confidence(b)
               \/ /\ Confidence(a) = Confidence(b)
                  /\ IF a.gap # b.gap THEN GapLess(a.gap, b.gap)
                     ELSE a.record.nguid < b.record.nguid
  <2>6. before(c, e)
    BY <2>1, <2>3 DEF Before
  <2>7. before(e, c)
    BY <1>6, <2>1, <2>3, <2>4 DEF Before
  <2> QED  BY <2>4, <2>5, <2>6, <2>7 DEF GapLess
<1> QED  BY <1>1, <1>2, <1>4, <1>6, <1>7 DEF Confidence, c, d

(* There are as many of them, and their places add up to the same.         *)
LEMMA TotalsMatch ==
  ASSUME NEW cs, NEW ds, NEW h, Matches(cs, ds, h)
  PROVE  Cardinality(ds) = Cardinality(cs) /\ Total(ds) = Total(cs)
<1>0. Addable(cs) /\ Addable(ds)
  BY RungAddable DEF Matches
<1>1. \A c, d \in cs : h[c] = h[d] => c = d
  BY DEF Matches
<1>2. Cardinality(ds) = Cardinality(cs)
  <2> DEFINE g == [c \in cs |-> h[c]]
  <2>1. g \in Bijection(cs, ds)
    <3>1. g \in [cs -> ds] /\ \A d \in ds : \E c \in cs : g[c] = d
      BY DEF Matches
    <3> QED  BY <1>1, <3>1
             DEF Bijection, Injection, Surjection, IsInjective
  <2> HIDE DEF g
  <2> QED  BY <1>0, <2>1, FS_Bijection DEF Addable, ExistsBijection
<1>3. PICK f : Sums(f, cs) /\ Total(cs) = f[cs]
  BY <1>0, TotalIsASum
<1>4. PICK g : Sums(g, ds) /\ Total(ds) = g[ds]
  BY <1>0, TotalIsASum
<1> DEFINE image(s) == {h[c] : c \in s}
           Bad == {s \in SUBSET cs : f[s] # g[image(s)]}
<1>5. {} \notin Bad
  BY <1>3, <1>4 DEF Sums
<1>6. ASSUME NEW s \in Bad
      PROVE  \E x \in s : s \ {x} \in Bad
  <2>1. PICK x \in s : TRUE
    BY <1>5
  <2>2. image(s) \in SUBSET ds /\ h[x] \in image(s)
    BY DEF Matches
  <2>3. image(s \ {x}) = image(s) \ {h[x]}
    BY <1>1
  <2>4. f[s] = PlaceOf(x) + f[s \ {x}]
    BY <1>3 DEF Sums
  <2>5. g[image(s)] = PlaceOf(h[x]) + g[image(s) \ {h[x]}]
    BY <1>4, <2>2 DEF Sums
  <2>6. PlaceOf(h[x]) = PlaceOf(x)
    BY DEF Matches, PlaceOf
  <2>7. f[s \ {x}] # g[image(s \ {x})]
    <3>1. f[s] # g[image(s)]
      OBVIOUS
    <3> HIDE DEF image, Bad
    <3> QED  BY <2>3, <2>4, <2>5, <2>6, <3>1
  <2> QED  BY <2>7
<1>7. Bad = {}
  <2>1. Bad \subseteq SUBSET cs /\ IsFiniteSet(cs)
    BY <1>0 DEF Addable
  <2> HIDE DEF Bad
  <2> QED  BY <1>5, <1>6, <2>1, NoneIsLeast
<1>8. f[cs] = g[image(cs)] /\ image(cs) = ds
  BY <1>7 DEF Matches
<1> QED  BY <1>2, <1>3, <1>4, <1>8

(* They are scattered alike, and the same places are. *)
LEMMA SpreadsMatch ==
  ASSUME NEW cs, NEW ds, NEW h, Matches(cs, ds, h)
  PROVE  /\ Scattered(ds) <=> Scattered(cs)
         /\ SegmentsScattered(ds) <=> SegmentsScattered(cs)
         /\ RecordsOf(ds) = RecordsOf(cs)
<1>1. RecordsOf(ds) = RecordsOf(cs) /\ Places(ds) = Places(cs)
  BY DEF Matches, RecordsOf, Places
<1>2. Scattered(ds) <=> Scattered(cs)
  <2> DEFINE n == Cardinality(cs)
             t == Total(cs)
             far(c) == Distance(n * PlaceOf(c), t) > n * Tolerance
  <2>1. n = Cardinality(ds) /\ t = Total(ds)
    BY TotalsMatch
  <2>2. Scattered(cs) <=> n > 1 /\ \E c \in cs : far(c)
    BY RungAddable DEF Matches
  <2>3. Scattered(ds) <=> n > 1 /\ \E c \in ds : far(c)
    <3> HIDE DEF n, t
    <3> QED  BY <2>1, RungAddable DEF Matches
  <2>4. (\E c \in cs : far(c)) <=> \E c \in ds : far(c)
    <3>1. \A c \in cs : PlaceOf(h[c]) = PlaceOf(c)
      BY DEF Matches, PlaceOf
    <3> HIDE DEF n, t
    <3> QED  BY <3>1 DEF Matches
  <2> HIDE DEF n, far
  <2> QED  BY <2>2, <2>3, <2>4
<1> QED  BY <1>1, <1>2 DEF SegmentsScattered

(* So are those that compete. *)
LEMMA TopTiersMatch ==
  ASSUME NEW cs, NEW ds, NEW h, Matches(cs, ds, h), cs # {}
  PROVE  Matches(TopTier(cs), TopTier(ds), h)
<1>1. /\ TopTier(cs) \in SUBSET cs /\ TopTier(ds) \in SUBSET ds
  BY DEF TopTier
<1>2. \A c \in cs : c \in TopTier(cs) <=> h[c] \in TopTier(ds)
  <2>1. RankOne(ds).record = RankOne(cs).record
    BY RankOnesMatch
  <2>2. \A c \in cs : h[c] \in ds /\ h[c].record = c.record
    BY DEF Matches
  <2> QED  BY <2>1, <2>2 DEF TopTier
<1> QED  BY <1>1, <1>2, PartsMatch

(* And those of them nearest to the house number. *)
LEMMA NearestTiersMatch ==
  ASSUME NEW cs, NEW ds, NEW h, Matches(cs, ds, h)
  PROVE  Matches(NearestTier(cs), NearestTier(ds), h)
<1>1. Cardinality(ds) = Cardinality(cs)
  BY TotalsMatch
<1>2. CASE Cardinality(cs) < 2
  BY <1>1, <1>2 DEF NearestTier
<1>3. CASE ~(Cardinality(cs) < 2)
  <2> DEFINE near(rest) == {c \in rest : c.gap # Null /\ \A d \in rest :
                              ~GapLess(d.gap, c.gap)}
  <2>1. near(cs) \in SUBSET cs /\ near(ds) \in SUBSET ds
    OBVIOUS
  <2>2. \A c \in cs : c \in near(cs) <=> h[c] \in near(ds)
    BY DEF Matches
  <2>3. NearestTier(cs) = near(cs) /\ NearestTier(ds) = near(ds)
    BY <1>1, <1>3 DEF NearestTier
  <2> HIDE DEF near
  <2> QED  BY <2>1, <2>2, <2>3, PartsMatch
<1> QED  BY <1>2, <1>3

(* So they get the same strict answer. *)
LEMMA StrictAnswersMatch ==
  ASSUME NEW cs, NEW ds, NEW h, Matches(cs, ds, h)
  PROVE  /\ StrictAnswer(ds).kind = StrictAnswer(cs).kind
         /\ RecordsOf(StrictAnswer(ds).from) = RecordsOf(StrictAnswer(cs).from)
<1>1. CASE cs = {}
  <2>1. ds = {}
    BY <1>1 DEF Matches
  <2> QED  BY <1>1, <2>1
<1>2. CASE cs # {}
  <2> DEFINE tc == TopTier(cs)
             td == TopTier(ds)
             nc == NearestTier(tc)
             nd == NearestTier(td)
             whole(rest) == \E c \in rest : c.tier = "STREET_SEGMENT"
  <2>1. Matches(tc, td, h) /\ Matches(nc, nd, h)
    BY <1>2, TopTiersMatch, NearestTiersMatch
  <2>2. ds # {} /\ (whole(cs) <=> whole(ds))
    BY <1>2 DEF Matches
  <2>3. /\ StrictAnswer(cs) = IF whole(cs) THEN StrictSegment(nc)
                              ELSE StrictPoint(tc)
        /\ StrictAnswer(ds) = IF whole(ds) THEN StrictSegment(nd)
                              ELSE StrictPoint(td)
    BY <1>2, <2>2 DEF StrictAnswer
  <2> HIDE DEF tc, td, nc, nd, whole
  <2>4. /\ StrictPoint(td).kind = StrictPoint(tc).kind
        /\ RecordsOf(StrictPoint(td).from) = RecordsOf(StrictPoint(tc).from)
    BY <2>1, SpreadsMatch DEF StrictPoint, Answer, Ambiguous
  <2>5. /\ StrictSegment(nd).kind = StrictSegment(nc).kind
        /\ RecordsOf(StrictSegment(nd).from)
             = RecordsOf(StrictSegment(nc).from)
    <3>1. CASE nc = {}
      <4>1. nd = {}
        BY <2>1, <3>1 DEF Matches
      <4> QED  BY <3>1, <4>1 DEF StrictSegment
    <3>2. CASE nc # {}
      <4>1. nd # {} /\ RankOne(nd).record = RankOne(nc).record
        BY <2>1, <3>2, RankOnesMatch
      <4>2. SegmentsScattered(nd) <=> SegmentsScattered(nc)
        BY <2>1, SpreadsMatch
      <4> QED  BY <3>2, <4>1, <4>2
               DEF StrictSegment, Answer, Ambiguous, RecordsOf
    <3> QED  BY <3>1, <3>2
  <2> QED  BY <2>2, <2>3, <2>4, <2>5
<1> QED  BY <1>1, <1>2

(* A layer read backwards is one. *)
LEMMA BackwardsIsALayer ==
  ASSUME NEW R, NEW layer \in Seq(R)
  PROVE  /\ Backwards(layer) \in Seq(R)
         /\ DOMAIN Backwards(layer) = DOMAIN layer
         /\ \A i \in DOMAIN layer :
              /\ Len(layer) + 1 - i \in DOMAIN layer
              /\ Len(layer) + 1 - (Len(layer) + 1 - i) = i
              /\ Backwards(layer)[i] = layer[Len(layer) + 1 - i]
<1>1. DOMAIN layer = 1 .. Len(layer) /\ Len(layer) \in Nat
  OBVIOUS
<1>2. \A i \in DOMAIN layer : /\ Len(layer) + 1 - i \in DOMAIN layer
                              /\ Len(layer) + 1 - (Len(layer) + 1 - i) = i
  BY <1>1
<1>3. /\ DOMAIN Backwards(layer) = DOMAIN layer
      /\ \A i \in DOMAIN layer :
           Backwards(layer)[i] = layer[Len(layer) + 1 - i]
  BY DEF Backwards
<1>4. Backwards(layer) = [i \in 1 .. Len(layer) |->
                            layer[Len(layer) + 1 - i]]
  BY <1>1 DEF Backwards
<1>5. \A i \in 1 .. Len(layer) : layer[Len(layer) + 1 - i] \in R
  BY <1>1, <1>2
<1>6. Backwards(layer) \in Seq(R)
  BY <1>1, <1>4, <1>5
<1> QED  BY <1>2, <1>3, <1>6

(* Which candidate of a layer read backwards is which. *)
Mirror(cs, layer) ==
  [c \in cs |-> [tier |-> c.tier, record |-> c.record,
                 nth |-> Len(layer) + 1 - c.nth, gap |-> c.gap]]

(* The address points are the same either way. *)
LEMMA PointsMatch ==
  ASSUME NEW q, NEW layer \in Seq(AddressPoint), Identified(layer)
  PROVE  \E h : Matches(SsapCandidates(q, layer),
                        SsapCandidates(q, Backwards(layer)), h)
<1> DEFINE cs == SsapCandidates(q, layer)
           ds == SsapCandidates(q, Backwards(layer))
           h  == Mirror(cs, layer)
           at(i) == Len(layer) + 1 - i
           fits(r) == /\ IsActive(r, q.at) /\ Located(r)
                      /\ q.number # Null /\ r.number = q.number
                      /\ q.unit # Null /\ r.unit # Null => r.unit = q.unit
                      /\ r.score >= MinMatchScore
           point(i, r) == [tier |-> "ADDRESS_POINT", record |-> r,
                           nth |-> i, gap |-> 0]
<1>1. /\ Backwards(layer) \in Seq(AddressPoint)
      /\ DOMAIN Backwards(layer) = DOMAIN layer
      /\ \A i \in DOMAIN layer : /\ at(i) \in DOMAIN layer /\ at(at(i)) = i
                                 /\ Backwards(layer)[i] = layer[at(i)]
  BY BackwardsIsALayer
<1>2. Rung(cs) /\ Rung(ds)
  BY <1>1, PointsMakeARung
<1>3. /\ cs = {point(i, layer[i]) : i \in {j \in DOMAIN layer :
                                             fits(layer[j])}}
      /\ ds = {point(i, layer[at(i)]) : i \in {j \in DOMAIN layer :
                                                 fits(layer[at(j)])}}
  <2>1. cs = {point(i, layer[i]) : i \in {j \in DOMAIN layer :
                                            fits(layer[j])}}
    BY DEF SsapCandidates
  <2>2. ds = {point(i, Backwards(layer)[i]) :
                i \in {j \in DOMAIN Backwards(layer) :
                         fits(Backwards(layer)[j])}}
    BY DEF SsapCandidates
  <2> HIDE DEF cs, ds, fits, point, at
  <2> QED  BY <1>1, <2>1, <2>2
<1> HIDE DEF fits, at, cs, ds
<1>4. ASSUME NEW c \in cs
      PROVE  /\ c.nth \in DOMAIN layer /\ c = point(c.nth, layer[c.nth])
             /\ c.record = layer[c.nth] /\ fits(layer[c.nth])
             /\ h[c] = point(at(c.nth), layer[c.nth])
  <2>1. /\ c.nth \in DOMAIN layer /\ c = point(c.nth, layer[c.nth])
        /\ c.record = layer[c.nth] /\ fits(layer[c.nth])
        /\ c.tier = "ADDRESS_POINT" /\ c.gap = 0
    BY <1>3
  <2> QED  BY <2>1 DEF Mirror, at
<1>5. ds = {h[c] : c \in cs}
  <2>1. ASSUME NEW c \in cs  PROVE h[c] \in ds
    <3>1. at(c.nth) \in DOMAIN layer /\ at(at(c.nth)) = c.nth
      BY <1>1, <1>4
    <3> HIDE DEF h
    <3> QED  BY <1>3, <1>4, <3>1
  <2>2. ASSUME NEW d \in ds  PROVE \E c \in cs : h[c] = d
    <3>1. PICK i \in DOMAIN layer : /\ fits(layer[at(i)])
                                    /\ d = point(i, layer[at(i)])
      BY <1>3
    <3> DEFINE c == point(at(i), layer[at(i)])
    <3>2. c \in cs
      BY <1>1, <1>3, <3>1
    <3>3. c.nth = at(i) /\ at(at(i)) = i
      BY <1>1
    <3> HIDE DEF h, c, point
    <3>4. h[c] = d
      BY <1>4, <3>1, <3>2, <3>3
    <3> QED  BY <3>2, <3>4
  <2> HIDE DEF h
  <2> QED  BY <2>1, <2>2
<1>6. \A c, d \in cs : c.record.nguid = d.record.nguid => c = d
  <2> SUFFICES ASSUME NEW c \in cs, NEW d \in cs,
                      c.record.nguid = d.record.nguid
               PROVE  c = d
    OBVIOUS
  <2> HIDE DEF h, point
  <2>1. c.nth = d.nth
    BY <1>4 DEF Identified
  <2> QED  BY <1>4, <2>1
<1>7. \A c \in cs : /\ h[c].tier = c.tier /\ h[c].record = c.record
                    /\ h[c].gap = c.gap
  BY DEF Mirror
<1> HIDE DEF h
<1>8. Matches(cs, ds, h)
  BY <1>2, <1>5, <1>6, <1>7 DEF Matches
<1> QED  BY <1>8 DEF cs, ds

(* And so are the centerlines of each of the two rungs. *)
LEMMA RoadsMatch ==
  ASSUME NEW q \in Queries, NEW layer \in Seq(Centerline), Identified(layer),
         NEW tier
  PROVE  \E h : Matches(OfTier(RclCandidates(q, layer), tier),
                        OfTier(RclCandidates(q, Backwards(layer)), tier), h)
<1> DEFINE all == RclCandidates(q, layer)
           back == RclCandidates(q, Backwards(layer))
           cs == OfTier(all, tier)
           ds == OfTier(back, tier)
           h  == Mirror(all, layer)
           at(i) == Len(layer) + 1 - i
           fits(r) == /\ IsActive(r, q.at) /\ Located(r)
                      /\ r.score >= MinMatchScore
                      /\ Placed(q, r) \/ ~r.segment.multipart
           kind(r) == IF Placed(q, r) THEN "INTERPOLATED_POINT"
                      ELSE "STREET_SEGMENT"
           road(i, r) == [tier |-> kind(r), record |-> r, nth |-> i,
                          gap |-> Gap(q, r)]
<1>1. /\ Backwards(layer) \in Seq(Centerline)
      /\ DOMAIN Backwards(layer) = DOMAIN layer
      /\ \A i \in DOMAIN layer : /\ at(i) \in DOMAIN layer /\ at(at(i)) = i
                                 /\ Backwards(layer)[i] = layer[at(i)]
  BY BackwardsIsALayer
<1>2. Rung(cs) /\ Rung(ds)
  BY <1>1, RoadsMakeARung
<1>3. /\ all = {road(i, layer[i]) : i \in {j \in DOMAIN layer :
                                             fits(layer[j])}}
      /\ back = {road(i, layer[at(i)]) : i \in {j \in DOMAIN layer :
                                                  fits(layer[at(j)])}}
  <2>1. all = {road(i, layer[i]) : i \in {j \in DOMAIN layer :
                                            fits(layer[j])}}
    BY DEF RclCandidates
  <2>2. back = {road(i, Backwards(layer)[i]) :
                  i \in {j \in DOMAIN Backwards(layer) :
                           fits(Backwards(layer)[j])}}
    BY DEF RclCandidates
  <2> HIDE DEF all, back, fits, road, at
  <2> QED  BY <1>1, <2>1, <2>2
<1> HIDE DEF fits, at, all, back, kind
<1>4. ASSUME NEW c \in all
      PROVE  /\ c.nth \in DOMAIN layer /\ c = road(c.nth, layer[c.nth])
             /\ c.record = layer[c.nth] /\ fits(layer[c.nth])
             /\ h[c] = road(at(c.nth), layer[c.nth])
  <2>1. /\ c.nth \in DOMAIN layer /\ c = road(c.nth, layer[c.nth])
        /\ c.record = layer[c.nth] /\ fits(layer[c.nth])
        /\ c.tier = kind(layer[c.nth]) /\ c.gap = Gap(q, layer[c.nth])
    BY <1>3
  <2> QED  BY <2>1 DEF Mirror, at
<1>5. /\ \A c \in all : h[c] \in back
      /\ \A d \in back : \E c \in all : h[c] = d
  <2>1. ASSUME NEW c \in all  PROVE h[c] \in back
    <3>1. at(c.nth) \in DOMAIN layer /\ at(at(c.nth)) = c.nth
      BY <1>1, <1>4
    <3> HIDE DEF h
    <3> QED  BY <1>3, <1>4, <3>1
  <2>2. ASSUME NEW d \in back  PROVE \E c \in all : h[c] = d
    <3>1. PICK i \in DOMAIN layer : /\ fits(layer[at(i)])
                                    /\ d = road(i, layer[at(i)])
      BY <1>3
    <3> DEFINE c == road(at(i), layer[at(i)])
    <3>2. c \in all
      BY <1>1, <1>3, <3>1
    <3>3. c.nth = at(i) /\ at(at(i)) = i
      BY <1>1
    <3> HIDE DEF h, c, road
    <3>4. h[c] = d
      BY <1>4, <3>1, <3>2, <3>3
    <3> QED  BY <3>2, <3>4
  <2> HIDE DEF h
  <2> QED  BY <2>1, <2>2
<1>6. \A c, d \in all : c.record.nguid = d.record.nguid => c = d
  <2> SUFFICES ASSUME NEW c \in all, NEW d \in all,
                      c.record.nguid = d.record.nguid
               PROVE  c = d
    OBVIOUS
  <2> HIDE DEF h, road
  <2>1. c.nth = d.nth
    BY <1>4 DEF Identified
  <2> QED  BY <1>4, <2>1
<1>7. \A c \in all : /\ h[c].tier = c.tier /\ h[c].record = c.record
                     /\ h[c].gap = c.gap
  BY DEF Mirror
<1> HIDE DEF h
<1>8. ds = {h[c] : c \in cs}
  BY <1>5, <1>7 DEF OfTier
<1>9. Matches(cs, ds, h)
  BY <1>2, <1>6, <1>7, <1>8 DEF Matches, OfTier
<1> QED  BY <1>9 DEF cs, ds, all, back

(* What is found is the same either way. *)
LEMMA FoundMatches ==
  ASSUME NEW q \in Queries, NEW points \in Seq(AddressPoint),
         NEW roads \in Seq(Centerline),
         Identified(points), Identified(roads)
  PROVE  \E h : Matches(Identify(q, points, roads),
                        Identify(q, Backwards(points), Backwards(roads)), h)
<1> DEFINE Placing == "INTERPOLATED_POINT"
           Whole   == "STREET_SEGMENT"
           a1 == SsapCandidates(q, points)
           a2 == OfTier(RclCandidates(q, roads), Placing)
           a3 == OfTier(RclCandidates(q, roads), Whole)
           b1 == SsapCandidates(q, Backwards(points))
           b2 == OfTier(RclCandidates(q, Backwards(roads)), Placing)
           b3 == OfTier(RclCandidates(q, Backwards(roads)), Whole)
           as == <<a1, a2, a3>>
           bs == <<b1, b2, b3>>
           fullA == {i \in 1 .. 3 : as[i] # {}}
           fullB == {i \in 1 .. 3 : bs[i] # {}}
           bestA == [i \in fullA |-> Confidence(RankOne(as[i]))]
           bestB == [i \in fullB |-> Confidence(RankOne(bs[i]))]
           winner(f, b) == CHOOSE i \in f :
                             \A j \in f : b[i] > b[j]
                                           \/ (b[i] = b[j] /\ i <= j)
<1>1. /\ \E h : Matches(a1, b1, h)
      /\ \E h : Matches(a2, b2, h)
      /\ \E h : Matches(a3, b3, h)
  BY PointsMatch, RoadsMatch
<1>2. /\ Identify(q, points, roads)
           = IF SettlesLadder(a1) THEN a1
             ELSE IF fullA = {} THEN {} ELSE as[winner(fullA, bestA)]
      /\ Identify(q, Backwards(points), Backwards(roads))
           = IF SettlesLadder(b1) THEN b1
             ELSE IF fullB = {} THEN {} ELSE bs[winner(fullB, bestB)]
  BY DEF Identify
<1> HIDE DEF a1, a2, a3, b1, b2, b3
<1>3. SettlesLadder(a1) <=> SettlesLadder(b1)
  <2>1. a1 = {} <=> b1 = {}
    <3>1. PICK h : Matches(a1, b1, h)
      BY <1>1
    <3> QED  BY <3>1, NoneMatchNone
  <2>2. a1 # {} => Confidence(RankOne(b1)) = Confidence(RankOne(a1))
    BY <1>1, RankOnesMatch
  <2> QED  BY <2>1, <2>2 DEF SettlesLadder
<1>4. \A i \in 1 .. 3 : \E h : Matches(as[i], bs[i], h)
  <2>1. /\ as[1] = a1 /\ as[2] = a2 /\ as[3] = a3
        /\ bs[1] = b1 /\ bs[2] = b2 /\ bs[3] = b3
    OBVIOUS
  <2>2. \A i \in 1 .. 3 : i \in {1, 2, 3}
    OBVIOUS
  <2> HIDE DEF as, bs
  <2> QED  BY <1>1, <2>1, <2>2
<1> HIDE DEF as, bs
<1>5. fullA = fullB
  <2>1. ASSUME NEW i \in 1 .. 3
        PROVE  as[i] = {} <=> bs[i] = {}
    <3>1. PICK h : Matches(as[i], bs[i], h)
      BY <1>4
    <3> QED  BY <3>1, NoneMatchNone
  <2> QED  BY <2>1
<1>6. bestA = bestB
  <2>1. \A i \in fullA :
          Confidence(RankOne(bs[i])) = Confidence(RankOne(as[i]))
    BY <1>4, RankOnesMatch
  <2> HIDE DEF fullA
  <2> QED  BY <1>5, <2>1
<1>7. fullA # {} => winner(fullA, bestA) \in 1 .. 3
  <2>1. \A i \in fullA : i \in {1, 2, 3}
    OBVIOUS
  <2>2. ASSUME NEW i \in fullA
        PROVE  bestA[i] \in Int
    <3>1. PICK h : Matches(as[i], bs[i], h)
      BY <1>4
    <3>2. Rung(as[i]) /\ as[i] # {}
      BY <3>1 DEF Matches
    <3>3. Confidence(RankOne(as[i])) \in Int
      <4>1. Confidence(RankOne(as[i])) \in Nat
        BY <3>2, RankOneIsBest, ConfidenceType
      <4>2. \A n \in Nat : n \in Int
        OBVIOUS
      <4> QED  BY <4>1, <4>2, Zenon
    <3> HIDE DEF fullA
    <3>4. bestA[i] = Confidence(RankOne(as[i]))
      BY Zenon
    <3> HIDE DEF bestA
    <3> QED  BY <3>3, <3>4, Zenon
  <2> HIDE DEF fullA, bestA
  <2>3. fullA # {} => \E i \in fullA : \A j \in fullA :
          \/ bestA[i] > bestA[j]
          \/ (bestA[i] = bestA[j] /\ i <= j)
    BY <2>1, <2>2, WinnerExists, Zenon
  <2> QED  BY <2>1, <2>3
<1> HIDE DEF fullA, fullB, bestA, bestB, winner
<1>8. CASE SettlesLadder(a1)
  BY <1>1, <1>2, <1>3, <1>8
<1>9. CASE ~SettlesLadder(a1) /\ fullA # {}
  BY <1>2, <1>3, <1>4, <1>5, <1>6, <1>7, <1>9
<1>10. CASE ~SettlesLadder(a1) /\ fullA = {}
  <2>1. /\ Identify(q, points, roads) = {}
        /\ Identify(q, Backwards(points), Backwards(roads)) = {}
    BY <1>2, <1>3, <1>5, <1>10
  <2>2. Matches({}, {}, <<>>)
    BY FS_EmptySet DEF Matches, Rung
  <2> QED  BY <2>1, <2>2
<1> QED  BY <1>8, <1>9, <1>10

-----------------------------------------------------------------------------
(***************************************************************************)
(* The invariant                                                           *)
(***************************************************************************)
(* The layers are typed, and an answer is the one they give. *)
Answered ==
  /\ ssap \in Seq(AddressPoint) /\ rcl \in Seq(Centerline)
  /\ \/ query = NoQuery /\ found = {} /\ strict = Unasked
     \/ /\ query \in Queries
        /\ found = Identify(query, ssap, rcl)
        /\ strict = StrictAnswer(found)

(* Every step keeps the invariant. *)
LEMMA AnsweredInvariant == Spec => []Answered
<1>1. Init => Answered
  BY LadderAssumption DEF Init, Answered
<1>2. Answered /\ [Next]_vars => Answered'
  <2> SUFFICES ASSUME Answered, [Next]_vars  PROVE Answered'
    OBVIOUS
  <2>1. ASSUME NEW q \in Queries, Geocode(q)  PROVE Answered'
    BY <2>1 DEF Geocode, Answered
  <2>2. CASE UNCHANGED vars
    BY <2>2 DEF vars, Answered
  <2> QED  BY <2>1, <2>2 DEF Next
<1> QED  BY <1>1, <1>2, PTL DEF Spec

(* What was found is one of the three rungs. *)
LEMMA FoundIsARung ==
  ASSUME Answered
  PROVE  /\ Rung(found)
         /\ Asked =>
              \/ found = SsapCandidates(query, ssap)
              \/ \E tier \in Tiers :
                   found = OfTier(RclCandidates(query, rcl), tier)
<1>1. CASE query = NoQuery /\ found = {}
  BY <1>1, FS_EmptySet DEF Rung, Asked
<1>2. CASE query \in Queries /\ found = Identify(query, ssap, rcl)
  <2>1. \/ found = SsapCandidates(query, ssap)
        \/ found = OfTier(RclCandidates(query, rcl), "INTERPOLATED_POINT")
        \/ found = OfTier(RclCandidates(query, rcl), "STREET_SEGMENT")
    BY <1>2, IdentifyPicksARung DEF Answered
  <2>2. /\ Rung(SsapCandidates(query, ssap))
        /\ \A tier : Rung(OfTier(RclCandidates(query, rcl), tier))
    BY <1>2, PointsMakeARung, RoadsMakeARung DEF Answered
  <2> QED  BY <2>1, <2>2 DEF Tiers
<1> QED  BY <1>1, <1>2 DEF Answered

-----------------------------------------------------------------------------
(***************************************************************************)
(* Theorems                                                                *)
(***************************************************************************)
(* Every variable has its type, and a strict answer comes of what was      *)
(* found.                                                                  *)
THEOREM TypeCorrect == Spec => []TypeOK
<1>1. Answered => TypeOK
  <2> SUFFICES ASSUME Answered  PROVE TypeOK
    OBVIOUS
  <2>1. Rung(found)
    BY FoundIsARung
  <2>2. strict.from \subseteq found
    BY <2>1, StrictComesOfFound DEF Answered, Unasked
  <2>3. ASSUME NEW c \in found
        PROVE  /\ c.tier \in Tiers /\ c.record.place # Nowhere
               /\ c.record.score \in MinMatchScore .. Perfect
    BY <2>1, LadderAssumption DEF Rung
  <2> QED  BY <2>2, <2>3 DEF Answered, TypeOK
<1> QED  BY <1>1, AnsweredInvariant, PTL

(* The short circuit never costs an answer: no candidate of any rung beats *)
(* the best one found.                                                     *)
THEOREM TheBestRungWins == Spec => []BestRungWins
<1>1. Answered => BestRungWins
  <2> SUFFICES ASSUME Answered, Asked  PROVE BestRungWins
    BY DEF BestRungWins
  <2> DEFINE rung1 == SsapCandidates(query, ssap)
             rung2 == OfTier(RclCandidates(query, rcl), "INTERPOLATED_POINT")
             rung3 == OfTier(RclCandidates(query, rcl), "STREET_SEGMENT")
  <2>1. query \in Queries /\ found = Identify(query, ssap, rcl)
    BY DEF Answered, Asked
  <2>2. AllCandidates(query) = rung1 \union rung2 \union rung3
    BY <2>1, RoadsMakeARung DEF AllCandidates, OfTier, Answered
  <2> HIDE DEF rung1, rung2, rung3
  <2>3. /\ found = {} => rung1 = {} /\ rung2 = {} /\ rung3 = {}
        /\ found # {} =>
             \A d \in rung1 \union rung2 \union rung3 :
               \/ Confidence(d) < Confidence(RankOne(found))
               \/ /\ Confidence(d) = Confidence(RankOne(found))
                  /\ Ceiling(d.tier) <= Ceiling(RankOne(found).tier)
    BY <2>1, IdentifyPicksARung DEF rung1, rung2, rung3, Answered
  <2> QED  BY <2>2, <2>3 DEF BestRungWins
<1> QED  BY <1>1, AnsweredInvariant, PTL

(* A request without house number is never answered with a point. *)
THEOREM NumbersAreNotInvented == Spec => []NumberNeverInvented
<1>1. Answered => NumberNeverInvented
  <2> SUFFICES ASSUME Answered, Asked, query.number = Null, NEW c \in found
               PROVE  c.tier = "STREET_SEGMENT"
    BY DEF NumberNeverInvented
  <2>1. query \in Queries
    BY DEF Answered, Asked
  <2>2. c \in RclCandidates(query, rcl)
    BY <2>1, FoundIsARung, PointsMakeARung DEF Answered, OfTier
  <2> QED  BY <2>1, <2>2, RoadsMakeARung DEF Answered
<1> QED  BY <1>1, AnsweredInvariant, PTL

(* A leading segment nearest to the number is the strict answer. *)
THEOREM TheNearestSegmentAnswers == Spec => []GapSettles
<1>1. Answered => GapSettles
  <2> SUFFICES ASSUME Answered, Asked, NEW c \in Leaders,
                      c.tier = "STREET_SEGMENT",
                      \A d \in Leaders \ {c} : GapLess(c.gap, d.gap)
               PROVE  strict = Answer("line", {c})
    BY DEF GapSettles
  <2>1. Rung(found) /\ strict = StrictAnswer(found)
    BY FoundIsARung DEF Answered, Asked
  <2> QED  BY <2>1, NearestLeaderAnswers DEF Leaders
<1> QED  BY <1>1, AnsweredInvariant, PTL

(* 468 for ambiguity means that two of the leaders really lie apart, and   *)
(* what is merged never spans more than two tolerances.                    *)
THEOREM AmbiguitiesAreReal == Spec => []AmbiguityIsReal
<1>1. Answered => AmbiguityIsReal
  <2> SUFFICES ASSUME Answered
               PROVE  AmbiguityIsReal
    OBVIOUS
  <2>1. CASE strict = Unasked \/ strict = None
    BY <2>1 DEF AmbiguityIsReal, Unasked, None, Ambiguous, Places
  <2>2. CASE strict = StrictAnswer(found) /\ found # {}
    <3> DEFINE tier == TopTier(found)
               nearest == NearestTier(tier)
    <3>1. Rung(found)
      BY FoundIsARung
    <3>2. tier = Leaders
      BY <2>2, <3>1, TopTierIsLeaders DEF Leaders
    <3>3. tier \in SUBSET found /\ nearest \in SUBSET tier
      BY DEF TopTier, NearestTier
    <3>4. Rung(tier) /\ Rung(nearest)
      BY <3>1, <3>3, PartOfARung
    <3> HIDE DEF tier, nearest
    <3>5. \A c \in tier : c.record.place \in Int
      BY <3>4 DEF Rung
    <3>6. CASE strict = StrictPoint(tier)
      <4>1. CASE Scattered(tier)
        <5>1. strict.from = {}
          BY <3>6, <4>1 DEF StrictPoint, Ambiguous
        <5>2. \E p, o \in Places(tier) : ~(Distance(p, o) <= Tolerance)
          BY <3>4, <4>1, CloseNeverScatter
        <5>3. \E p, o \in Places(tier) : Distance(p, o) > Tolerance
          BY <3>5, <5>2, LadderAssumption DEF Places, Distance
        <5> QED  BY <3>2, <5>1, <5>3 DEF AmbiguityIsReal, Places
      <4>2. CASE ~Scattered(tier)
        <5>1. strict.from = tier /\ strict # Ambiguous
          BY <3>6, <4>2 DEF StrictPoint, Answer, Ambiguous
        <5>2. \A c, d \in tier :
                Distance(c.record.place, d.record.place) <= 2 * Tolerance
          BY <3>4, <4>2, MergedAreClose DEF PlaceOf
        <5> QED  BY <5>1, <5>2 DEF AmbiguityIsReal, Places
      <4> QED  BY <4>1, <4>2
    <3>7. CASE strict = StrictSegment(nearest)
      <4>1. CASE SegmentsScattered(nearest) /\ nearest # {}
        <5>1. strict.from = {}
          BY <3>7, <4>1 DEF StrictSegment, Ambiguous
        <5>2. \E p, o \in Places(Leaders) : Distance(p, o) > Tolerance
          BY <3>2, <3>3, <4>1 DEF SegmentsScattered, Places
        <5> QED  BY <5>1, <5>2 DEF AmbiguityIsReal, Places
      <4>2. CASE ~(SegmentsScattered(nearest) /\ nearest # {})
        <5>1. strict # Ambiguous
          BY <3>7, <4>2 DEF StrictSegment, Answer, Ambiguous, Raised
        <5>2. strict.from = {} \/ (strict.from = {RankOne(nearest)}
                                   /\ RankOne(nearest) \in nearest)
          BY <3>4, <3>7, <4>2, RankOneIsBest
          DEF StrictSegment, Answer, Raised
        <5>3. \A p, o \in Places(strict.from) :
                /\ p = RankOne(nearest).record.place /\ o = p
                /\ p \in Int
          BY <3>3, <3>5, <5>2 DEF Places
        <5>4. \A p, o \in Places(strict.from) : Distance(p, o) <= 2 * Tolerance
          BY <5>3, LadderAssumption DEF Distance
        <5> QED  BY <5>1, <5>4 DEF AmbiguityIsReal
      <4> QED  BY <4>1, <4>2
    <3> QED  BY <2>2, <3>6, <3>7 DEF StrictAnswer, tier, nearest
  <2> QED  BY <2>1, <2>2 DEF Answered, StrictAnswer
<1> QED  BY <1>1, AnsweredInvariant, PTL

(* Records with NGUIDs of their own may be read in any order: the same     *)
(* candidates, the same rank 1 and the same strict answer come of it.      *)
THEOREM TheReadingOrderIsIrrelevant == Spec => []OrderIrrelevant
<1>1. Answered => OrderIrrelevant
  <2> DEFINE again == Identify(query, Backwards(ssap), Backwards(rcl))
  <2> SUFFICES ASSUME Answered, Asked, Identified(ssap), Identified(rcl)
               PROVE  /\ RecordsOf(again) = RecordsOf(found)
                      /\ found # {} => RankOne(again).record
                                         = RankOne(found).record
                      /\ StrictAnswer(again).kind = strict.kind
                      /\ RecordsOf(StrictAnswer(again).from)
                           = RecordsOf(strict.from)
    BY DEF OrderIrrelevant
  <2>1. /\ query \in Queries /\ found = Identify(query, ssap, rcl)
        /\ strict = StrictAnswer(found)
        /\ ssap \in Seq(AddressPoint) /\ rcl \in Seq(Centerline)
    BY DEF Answered, Asked
  <2>2. PICK h : Matches(found, again, h)
    BY <2>1, FoundMatches
  <2> HIDE DEF again
  <2> QED  BY <2>1, <2>2, SpreadsMatch, RankOnesMatch, StrictAnswersMatch
<1> QED  BY <1>1, AnsweredInvariant, PTL

Succeeds(new, old) == old.expire # Null /\ new.effective = old.expire

(* A record that takes over from another at an instant is never found with *)
(* it, whatever the instant asked about.                                   *)
OneInForce ==
  Asked /\ query.at # Null =>
    \A c, d \in found : ~Succeeds(c.record, d.record)

(* A record and its successor are never found together. *)
THEOREM SuccessorsNeverMeet == Spec => []OneInForce
<1>1. Answered => OneInForce
  <2> SUFFICES ASSUME Answered, Asked, query.at # Null,
                      NEW c \in found, NEW d \in found
               PROVE  ~Succeeds(c.record, d.record)
    BY DEF OneInForce
  <2>1. query \in Queries /\ query.at \in Int
    BY LadderAssumption DEF Answered, Asked
  <2>2. IsActive(c.record, query.at) /\ IsActive(d.record, query.at)
    BY <2>1, FoundIsARung, PointsMakeARung, RoadsMakeARung
    DEF Answered, OfTier
  <2>3. c.record.effective \in Int /\ d.record.expire \in Int
    BY FoundIsARung DEF Rung
  <2> QED  BY <2>1, <2>2, <2>3 DEF Succeeds, IsActive
<1> QED  BY <1>1, AnsweredInvariant, PTL
=============================================================================
