---------------------------- MODULE ForwardLadder ---------------------------
(***************************************************************************)
(* The forward conversion: which records of the two layers answer a civic  *)
(* address (src/geocode/candidates.py) and which single answer the strict  *)
(* interface gives (src/geocode/response_assembly.py).                     *)
(*                                                                         *)
(* The injected scorer is a field of each record: the score it gets for    *)
(* the query at hand. A place is a whole number of metres on one line; it  *)
(* is where a record's point, or the point interpolated on it, or its      *)
(* midpoint is, of which one request uses one.                             *)
(***************************************************************************)
EXTENDS AddressRange, FiniteSetsExt, Sequences

CONSTANTS
  Perfect,       \* matchScore 100
  MinMatchScore, \* GCS_MIN_MATCH_SCORE
  Epsilon,       \* _TOP_SCORE_TIE_EPSILON
  Tolerance,     \* GCS_AMBIGUITY_TOLERANCE_M
  Layers,        \* pairs of layers, as provisioned
  Queries        \* the civic addresses asked for, and when

VARIABLES
  ssap, rcl,   \* the two layers
  query,       \* the request answered last
  found,       \* its candidates: the enhanced answer
  strict       \* its strict answer

vars == <<ssap, rcl, query, found, strict>>

Nowhere == -1  \* the place of a record without usable geometry

(* A record without NGUID has 0; absent numbers, units and dates are Null. *)
AddressPoint ==
  [nguid : Nat, effective : Int, expire : Int, score : 0 .. Perfect,
   place : Int, number : Int, unit : Int]

Centerline ==
  [nguid : Nat, effective : Int, expire : Int, score : 0 .. Perfect,
   place : Int, segment : Segment(Nat, Nat)]

ASSUME LadderAssumption ==
  /\ Perfect \in Nat /\ MinMatchScore \in Nat /\ Epsilon \in Nat
  /\ Tolerance \in Nat
  /\ Layers \subseteq [ssap : Seq(AddressPoint), rcl : Seq(Centerline)]
  /\ Queries \subseteq [number : Nat \union {Null}, unit : Int, at : Int]

-----------------------------------------------------------------------------
(***************************************************************************)
(* Candidates                                                              *)
(***************************************************************************)
Tiers == {"ADDRESS_POINT", "INTERPOLATED_POINT", "STREET_SEGMENT"}

Ceiling(tier) == IF tier = "ADDRESS_POINT" THEN 80
                 ELSE IF tier = "INTERPOLATED_POINT" THEN 75 ELSE 50

(* A hundredth of the confidence, times Perfect. *)
Confidence(c) == c.record.score * Ceiling(c.tier)

(* is_active: from the effective date on, until before the expiry. *)
IsActive(r, at) ==
  at # Null => /\ r.effective # Null => r.effective <= at
               /\ r.expire # Null => at < r.expire

Located(r) == r.place # Nowhere

(* ssap_candidates, rung 1: only with a house number, which must be the    *)
(* record's; a unit only excludes a record that has another one.           *)
SsapCandidates(q, layer) ==
  {[tier |-> "ADDRESS_POINT", record |-> layer[i], nth |-> i, gap |-> 0] :
     i \in {j \in DOMAIN layer :
              /\ IsActive(layer[j], q.at) /\ Located(layer[j])
              /\ q.number # Null /\ layer[j].number = q.number
              /\ q.unit # Null /\ layer[j].unit # Null =>
                   layer[j].unit = q.unit
              /\ layer[j].score >= MinMatchScore}}

Placed(q, r) ==
  /\ q.number # Null
  /\ SelectSide(r.segment, q.number) # NoRange /\ Walkable(r.segment)

(* What a whole segment is ranked by: how far the house number is from its *)
(* ranges. Null, of a segment that asserts none, is farther than every gap.*)
Gap(q, r) ==
  IF q.number = Null \/ Placed(q, r) THEN 0 ELSE RangeGap(r.segment, q.number)
GapLess(g, h) == g # Null /\ (h = Null \/ g < h)

(* rcl_candidates, rungs 2 and 3: a segment that cannot place the number   *)
(* answers as a whole, unless it has several parts.                        *)
RclCandidates(q, layer) ==
  {[tier   |-> IF Placed(q, layer[i]) THEN "INTERPOLATED_POINT"
               ELSE "STREET_SEGMENT",
    record |-> layer[i], nth |-> i, gap |-> Gap(q, layer[i])] :
     i \in {j \in DOMAIN layer :
              /\ IsActive(layer[j], q.at) /\ Located(layer[j])
              /\ layer[j].score >= MinMatchScore
              /\ Placed(q, layer[j]) \/ ~layer[j].segment.multipart}}

OfTier(cs, tier) == {c \in cs : c.tier = tier}

-----------------------------------------------------------------------------
(***************************************************************************)
(* Ranking                                                                 *)
(***************************************************************************)
(* Mutant: what is left undecided is left to the order of the layer. *)
BeforeByPosition(c, d) ==
  \/ Confidence(c) > Confidence(d)
  \/ /\ Confidence(c) = Confidence(d)
     /\ IF c.gap # d.gap THEN GapLess(c.gap, d.gap) ELSE c.nth < d.nth

(* _rank and _rank_segments, a stable sort within one rung. *)
Before(c, d) ==
  \/ Confidence(c) > Confidence(d)
  \/ /\ Confidence(c) = Confidence(d)
     /\ IF c.gap # d.gap THEN GapLess(c.gap, d.gap)
        ELSE \/ c.record.nguid < d.record.nguid
             \/ c.record.nguid = d.record.nguid /\ c.nth < d.nth

RankOne(cs) == CHOOSE c \in cs : \A d \in cs \ {c} : Before(c, d)

(* Mutant: the short circuit compares with the ceiling of rung 3. *)
SettlesLadderEarly(rung1) ==
  rung1 # {} /\ Confidence(RankOne(rung1))
                  >= Perfect * Ceiling("STREET_SEGMENT")

(* No road can beat it: the centerlines are not scored. *)
SettlesLadder(rung1) ==
  rung1 # {} /\ Confidence(RankOne(rung1))
                  >= Perfect * Ceiling("INTERPOLATED_POINT")

(* identify: the rung whose best candidate has the highest confidence, the *)
(* first of them where several have.                                       *)
Identify(q, points, roads) ==
  LET rung1  == SsapCandidates(q, points)
      all    == RclCandidates(q, roads)
      rungs  == <<rung1, OfTier(all, "INTERPOLATED_POINT"),
                  OfTier(all, "STREET_SEGMENT")>>
      full   == {i \in 1 .. 3 : rungs[i] # {}}
      best   == [i \in full |-> Confidence(RankOne(rungs[i]))]
      winner == CHOOSE i \in full :
                  \A j \in full : best[i] > best[j]
                                    \/ (best[i] = best[j] /\ i <= j)
  IN  IF SettlesLadder(rung1) THEN rung1
      ELSE IF full = {} THEN {} ELSE rungs[winner]

-----------------------------------------------------------------------------
(***************************************************************************)
(* The strict answer                                                       *)
(***************************************************************************)
(* Mutant: every candidate competes. *)
TopTierAll(cs) == cs

(* Candidates within Epsilon of the best score. *)
TopTier(cs) ==
  {c \in cs : RankOne(cs).record.score - c.record.score <= Epsilon}

(* Mutant: the segments' own ranges do not count. *)
NearestTierOfScore(tier) == tier

(* Those nearest to the house number. A difference of two infinite gaps is *)
(* not a number and never within Epsilon.                                  *)
NearestTier(tier) ==
  IF Cardinality(tier) < 2 THEN tier
  ELSE {c \in tier : c.gap # Null /\ \A d \in tier : ~GapLess(d.gap, c.gap)}

Places(cs) == {c.record.place : c \in cs}

(* resolve_ambiguity: beyond Tolerance of the candidates' mean position.   *)
(* Both sides are multiplied by their number.                              *)
Scattered(cs) ==
  LET n   == Cardinality(cs)
      sum == MapThenSumSet(LAMBDA c : c.record.place, cs)
  IN  n > 1 /\ \E c \in cs : Distance(n * c.record.place, sum) > n * Tolerance

(* resolve_segment_ambiguity: two midpoints farther apart than Tolerance. *)
SegmentsScattered(cs) ==
  \E p, o \in Places(cs) : Distance(p, o) > Tolerance

None      == [kind |-> "None", from |-> {}]  \* 468, as is the next
Ambiguous == [kind |-> "AmbiguousResult", from |-> {}]
Raised    == [kind |-> "IndexError", from |-> {}]
Answer(kind, cs) == [kind |-> kind, from |-> cs]

(* The answer of rung 3, which is never merged. *)
StrictSegment(tier) ==
  IF tier = {} THEN Raised
  ELSE IF SegmentsScattered(tier) THEN Ambiguous
  ELSE Answer("line", {RankOne(tier)})

(* The answer of rungs 1 and 2. *)
StrictPoint(tier) ==
  IF Scattered(tier) THEN Ambiguous ELSE Answer("point", tier)

(* strict_answer *)
StrictAnswer(cs) ==
  IF cs = {} THEN None
  ELSE LET tier == TopTier(cs)
       IN  IF \E c \in cs : c.tier = "STREET_SEGMENT"
           THEN StrictSegment(NearestTier(tier))
           ELSE StrictPoint(tier)

-----------------------------------------------------------------------------
Unasked == [kind |-> "Unasked", from |-> {}]
NoQuery == [at |-> Null]

Init ==
  /\ \E l \in Layers : ssap = l.ssap /\ rcl = l.rcl
  /\ query = NoQuery
  /\ found = {} /\ strict = Unasked

(* POST /Geocode, and POST /GeocodeEnhanced, which returns found. Nothing  *)
(* is kept from one request to the next, so a behavior has one.            *)
Geocode(q) ==
  /\ query = NoQuery
  /\ query' = q
  /\ found' = Identify(q, ssap, rcl)
  /\ strict' = StrictAnswer(found')
  /\ UNCHANGED <<ssap, rcl>>

Next == \E q \in Queries : Geocode(q)

Spec == Init /\ [][Next]_vars

-----------------------------------------------------------------------------
Asked == query # NoQuery

(* Every variable has its type. *)
TypeOK ==
  /\ ssap \in Seq(AddressPoint) /\ rcl \in Seq(Centerline)
  /\ query \in Queries \union {NoQuery}
  /\ \A c \in found : /\ c.tier \in Tiers /\ c.record.place # Nowhere
                       /\ c.record.score \in MinMatchScore .. Perfect
  /\ strict.from \subseteq found

AllCandidates(q) == SsapCandidates(q, ssap) \union RclCandidates(q, rcl)

(* No candidate of any rung, scored or not, beats the best one found: the  *)
(* short circuit never costs an answer, and a tie goes to the more precise *)
(* rung (identify).                                                        *)
BestRungWins ==
  Asked =>
    /\ found = {} => AllCandidates(query) = {}
    /\ found # {} =>
         LET best == RankOne(found)
         IN  \A c \in AllCandidates(query) :
               \/ Confidence(c) < Confidence(best)
               \/ /\ Confidence(c) = Confidence(best)
                  /\ Ceiling(c.tier) <= Ceiling(best.tier)

(* Without a house number no point is answered, by any rung on any data.   *)
NumberNeverInvented ==
  Asked /\ query.number = Null =>
    \A c \in found : c.tier = "STREET_SEGMENT"

Backwards(layer) == [i \in DOMAIN layer |-> layer[Len(layer) + 1 - i]]
RecordsOf(cs)    == {c.record : c \in cs}

Identified(layer) ==
  \A i, j \in DOMAIN layer : i # j => layer[i].nguid # layer[j].nguid

(* Records with NGUIDs of their own may be read in any order: the same     *)
(* candidates, the same rank 1 and the same strict answer come of it.      *)
OrderIrrelevant ==
  Asked /\ Identified(ssap) /\ Identified(rcl) =>
    LET again  == Identify(query, Backwards(ssap), Backwards(rcl))
        answer == StrictAnswer(again)
    IN  /\ RecordsOf(again) = RecordsOf(found)
        /\ found # {} => RankOne(again).record
                           = RankOne(found).record
        /\ answer.kind = strict.kind
        /\ RecordsOf(answer.from) = RecordsOf(strict.from)

Leaders == {c \in found : \A d \in found : d.record.score - c.record.score
                                             <= Epsilon}

(* 468 for ambiguity means that two of the leaders really lie apart: who   *)
(* is merely admissible cannot veto (decision 118). And what is merged     *)
(* never spans more than two tolerances.                                   *)
AmbiguityIsReal ==
  /\ strict = Ambiguous =>
       \E p, o \in Places(Leaders) : Distance(p, o) > Tolerance
  /\ \A p, o \in Places(strict.from) : Distance(p, o) <= 2 * Tolerance

(* Where one leading segment is nearer to the number than the others, it   *)
(* is answered, however far apart they are (decisions 120 and 121).        *)
GapSettles ==
  Asked /\ query.number # Null =>
    \A c \in Leaders :
      /\ c.tier = "STREET_SEGMENT"
      /\ \A d \in Leaders \ {c} : GapLess(c.gap, d.gap)
      => strict = Answer("line", {c})

-----------------------------------------------------------------------------
(***************************************************************************)
(* What the documentation says, and the code does not keep.                *)
(***************************************************************************)
(* Where the gaps do not distinguish a leader, "the wider tier survives to *)
(* the spread test, exactly as intended": the test always has segments.    *)
WiderTierSurvives == strict # Raised
=============================================================================
