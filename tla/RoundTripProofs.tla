-------------------------- MODULE RoundTripProofs ---------------------------
(***************************************************************************)
(* Proofs about RoundTrip, for all house numbers, lengths, margins and     *)
(* sides. A position remembers which number it was computed from and an    *)
(* answer which origin (Remembers); with that, what comes back is a matter *)
(* of the arithmetic of AddressRange.                                      *)
(***************************************************************************)
EXTENDS RoundTrip, FiniteSetTheorems, TLAPS

-----------------------------------------------------------------------------
(* The ranges of a segment *)

(* A range is that of its side, and its ends are house numbers in order.   *)
LEMMA RangeFacts ==
  ASSUME NEW seg \in Segment(Numbers, Lengths), NEW r \in SideRanges(seg)
  PROVE  /\ r.side \in SideOf /\ Asserts(seg.sides[r.side])
         /\ r = SideRange(seg, r.side)
         /\ r.low \in Nat /\ r.high \in Nat /\ r.low <= r.high
         /\ r # NoRange
  <1>1. PICK s \in SideOf : Asserts(seg.sides[s]) /\ r = SideRange(seg, s)
    BY DEF SideRanges
  <1>2. seg.sides[s] \in SideAttributes(Numbers)
    BY DEF Segment
  <1>3. seg.sides[s].from \in Nat /\ seg.sides[s].to \in Nat
    BY <1>1, <1>2, NumbersAssumption DEF SideAttributes, Asserts
  <1>4. r.side = s
    BY <1>1 DEF SideRange
  <1>5. r.low \in Nat /\ r.high \in Nat /\ r.low <= r.high
    BY <1>1, <1>3 DEF SideRange, Low, High
  <1>6. r.side # "none"
    BY <1>4 DEF SideOf
  <1>7. r # NoRange
    BY <1>6 DEF NoRange
  <1> QED
    BY <1>1, <1>4, <1>5, <1>7

(* A set of ranges of one segment has a range select_side can settle on:   *)
(* the left one, or the only one.                                          *)
LEMMA OneIsChosen ==
  ASSUME NEW seg \in Segment(Numbers, Lengths),
         NEW best \in SUBSET SideRanges(seg), best # {}
  PROVE  \E r \in best : r.side = "L" \/ best = {r}
  <1>1. CASE \E r \in best : r.side = "L"
    BY <1>1
  <1>2. CASE \A r \in best : r.side # "L"
    <2>1. \A r \in best : r = SideRange(seg, "R")
      BY <1>2, RangeFacts DEF SideOf
    <2> QED
      BY <2>1
  <1> QED
    BY <1>1, <1>2

(* select_side answers with a side that claims the number, and with one    *)
(* whose parity fits if there is one.                                      *)
LEMMA SelectedSideClaims ==
  ASSUME NEW seg \in Segment(Numbers, Lengths), NEW n \in Nat
  PROVE  LET claims == {r \in SideRanges(seg) : Contains(r, n)}
             fits   == {r \in claims : ParityAdmits(r, n)}
         IN  /\ claims = {} => SelectSide(seg, n) = NoRange
             /\ claims # {} => SelectSide(seg, n) \in claims
             /\ fits # {} => SelectSide(seg, n) \in fits
  <1> DEFINE claims == {r \in SideRanges(seg) : Contains(r, n)}
             fits   == {r \in claims : ParityAdmits(r, n)}
             best   == IF Cardinality(fits) = 1 THEN fits ELSE claims
  <1>1. claims = {} => SelectSide(seg, n) = NoRange
    BY DEF SelectSide
  <1>2. ASSUME claims # {}
        PROVE  SelectSide(seg, n) \in best
    <2>1. Cardinality(fits) = 1 => fits # {}
      BY FS_EmptySet
    <2>2. best # {}
      BY <1>2, <2>1
    <2>3. best \in SUBSET SideRanges(seg)
      OBVIOUS
    <2>4. \E r \in best : r.side = "L" \/ best = {r}
      BY <2>2, <2>3, OneIsChosen
    <2>5. SelectSide(seg, n) = CHOOSE r \in best : r.side = "L" \/ best = {r}
      BY <1>2 DEF SelectSide
    <2> QED
      BY <2>4, <2>5
  <1>3. ASSUME fits # {}
        PROVE  best = fits
    <2>1. PICK r : r \in fits
      BY <1>3
    <2>2. CASE fits = {r}
      BY <2>2, FS_Singleton
    <2>3. CASE \E q \in fits : q # r
      <3>1. PICK q \in fits : q # r
        BY <2>3
      <3>2. r.side # q.side
        BY <2>1, <3>1, RangeFacts
      <3>3. \A c \in claims : c.side = r.side \/ c.side = q.side
        BY <2>1, <3>1, <3>2, RangeFacts DEF SideOf
      <3>4. \A c \in claims : c = r \/ c = q
        BY <2>1, <3>1, <3>3, RangeFacts
      <3> QED
        BY <2>1, <3>1, <3>4
    <2> QED
      BY <2>1, <2>2, <2>3
  <1>4. fits \subseteq claims
    OBVIOUS
  <1>5. fits # {} => SelectSide(seg, n) \in fits
    BY <1>2, <1>3, <1>4
  <1>6. claims # {} => SelectSide(seg, n) \in claims
    BY <1>2, <1>4
  <1> HIDE DEF claims, fits
  <1> QED
    BY <1>1, <1>5, <1>6 DEF claims, fits

-----------------------------------------------------------------------------
(* Rounding *)

(* A whole number of dens rounds to that number. *)
LEMMA RoundExact ==
  ASSUME NEW k \in Nat, NEW q \in Nat \ {0}
  PROVE  Round(k * q, q) = k
  <1>1. (k * q) \div q = k
    BY Z3
  <1>2. 2 * (k * q - k * q) = 0
    OBVIOUS
  <1> QED
    BY <1>1, <1>2 DEF Round

(* A number of the range with its parity is rounded to itself. *)
LEMMA RoundToParityExact ==
  ASSUME NEW seg \in Segment(Numbers, Lengths), NEW r \in SideRanges(seg),
         NEW n \in Nat, NEW q \in Nat \ {0},
         Contains(r, n), ParityAdmits(r, n)
  PROVE  RoundToParity(n * q, q, r) = n
  <1>1. Round(n * q, q) = n
    BY RoundExact
  <1>2. RoundToParity(n * q, q, r) = Low(r.high, High(r.low, n))
    BY <1>1 DEF RoundToParity
  <1> QED
    BY <1>2, RangeFacts DEF Contains, Low, High

(* A range of one number gives that number, whatever its parity field is.  *)
LEMMA RoundToSingle ==
  ASSUME NEW seg \in Segment(Numbers, Lengths), NEW r \in SideRanges(seg),
         r.low = r.high
  PROVE  RoundToParity(r.low, 1, r) = r.low
  <1>1. Round(r.low * 1, 1) = r.low /\ r.low * 1 = r.low
    BY RoundExact, RangeFacts
  <1>2. PICK k \in Int :
          RoundToParity(r.low, 1, r) = Low(r.high, High(r.low, k))
    BY <1>1, RangeFacts DEF RoundToParity
  <1> QED
    BY <1>2, RangeFacts DEF Low, High

-----------------------------------------------------------------------------
(* Places and the numbers at them *)

IsAt(at) == at.num \in Int /\ at.den \in Nat \ {0}

(* What rounding gives is a whole number within the range. *)
LEMMA RoundToParityType ==
  ASSUME NEW seg \in Segment(Numbers, Lengths), NEW r \in SideRanges(seg),
         NEW num \in Int, NEW den \in Nat \ {0}
  PROVE  /\ RoundToParity(num, den, r) \in Nat
         /\ Contains(r, RoundToParity(num, den, r))
  <1>1. Round(num, den) \in Int
    BY DEF Round
  <1>2. PICK k \in Int :
          RoundToParity(num, den, r) = Low(r.high, High(r.low, k))
    BY <1>1 DEF RoundToParity
  <1> QED
    BY <1>2, RangeFacts DEF Low, High, Contains

(* The distances of a segment are numbers. *)
LEMMA SegmentLengths ==
  ASSUME NEW seg \in Segment(Numbers, Lengths)
  PROVE  /\ seg.length \in Nat /\ Usable(seg) \in Int
         /\ \A r : MarginApplied(seg, r) => Usable(seg) \in Nat \ {0}
  BY NumbersAssumption, MarginAssumption
  DEF Segment, Usable, MarginApplied

(* interpolate places a number on a side that claims it, at a distance.    *)
LEMMA InterpolateFacts ==
  ASSUME NEW seg \in Segment(Numbers, Lengths), NEW n \in Nat,
         Interpolate(seg, n) # NoPlace
  PROVE  LET p == Interpolate(seg, n)
         IN  /\ p.range \in SideRanges(seg) /\ Contains(p.range, n)
             /\ p.range = SelectSide(seg, n) /\ Walkable(seg)
             /\ IsAt(p.at)
             /\ MarginApplied(seg, p.range) =>
                  p.at = [num |-> Margin * (p.range.high - p.range.low)
                                    + (n - p.range.low) * Usable(seg),
                          den |-> p.range.high - p.range.low]
  <1> DEFINE r == SelectSide(seg, n)
  <1>1. r # NoRange /\ Walkable(seg)
    BY DEF Interpolate
  <1>2. r \in SideRanges(seg) /\ Contains(r, n)
    BY <1>1, SelectedSideClaims
  <1>3. r.low \in Nat /\ r.high \in Nat /\ r.low <= r.high
    BY <1>2, RangeFacts
  <1>4. Usable(seg) \in Int /\ seg.length \in Int /\ Margin \in Int
    BY SegmentLengths, MarginAssumption
  <1>5. Interpolate(seg, n).range = r
    BY <1>1 DEF Interpolate
  <1>6. CASE MarginApplied(seg, r)
    <2> DEFINE at == [num |-> Margin * (r.high - r.low)
                                + (n - r.low) * Usable(seg),
                      den |-> r.high - r.low]
    <2>1. Interpolate(seg, n).at = at
      BY <1>1, <1>6 DEF Interpolate
    <2>2. r.high - r.low \in Nat \ {0}
      BY <1>3, <1>6 DEF MarginApplied
    <2>3. at.num \in Int
      BY <1>3, <1>4
    <2>4. IsAt(at)
      BY <2>2, <2>3 DEF IsAt
    <2> HIDE DEF at, r
    <2>5. IsAt(Interpolate(seg, n).at)
      BY <2>1, <2>4
    <2> QED
      BY <1>1, <1>2, <1>5, <2>1, <2>5 DEF at, r
  <1>7. CASE ~MarginApplied(seg, r)
    <2>1. Interpolate(seg, n).at = [num |-> seg.length, den |-> 2]
      BY <1>1, <1>7 DEF Interpolate
    <2>2. IsAt(Interpolate(seg, n).at)
      BY <2>1, <1>4 DEF IsAt
    <2> QED
      BY <1>1, <1>2, <1>5, <1>7, <2>2
  <1> QED
    BY <1>6, <1>7

(* from_rcl answers a number within the range of the side, or none.        *)
LEMMA FromRclFacts ==
  ASSUME NEW seg \in Segment(Numbers, Lengths), NEW s \in SideOf,
         NEW at, IsAt(at)
  PROVE  FromRcl(seg, s, at) # StreetLevel =>
           /\ Walkable(seg) /\ SideRange(seg, s) \in SideRanges(seg)
           /\ FromRcl(seg, s, at).number = NumberAt(seg, SideRange(seg, s), at)
           /\ FromRcl(seg, s, at).number \in Nat
  <1> SUFFICES ASSUME FromRcl(seg, s, at) # StreetLevel
               PROVE  /\ Walkable(seg) /\ SideRange(seg, s) \in SideRanges(seg)
                      /\ FromRcl(seg, s, at).number
                           = NumberAt(seg, SideRange(seg, s), at)
                      /\ FromRcl(seg, s, at).number \in Nat
    OBVIOUS
  <1> DEFINE r == SideRange(seg, s)
             u == Usable(seg)
             within == Low(u * at.den, High(0, at.num - Margin * at.den))
             num == r.low * u * at.den + (r.high - r.low) * within
  <1>1. Asserts(seg.sides[s]) /\ Walkable(seg)
    BY DEF FromRcl
  <1>2. r \in SideRanges(seg)
    BY <1>1 DEF SideRanges
  <1>3. FromRcl(seg, s, at).number = NumberAt(seg, r, at)
    BY <1>1 DEF FromRcl
  <1>4. NumberAt(seg, r, at) \in Nat
    <2>1. CASE MarginApplied(seg, r)
      <3>1. u \in Nat \ {0}
        BY <2>1, SegmentLengths
      <3>2. r.low \in Nat /\ r.high \in Nat
        BY <1>2, RangeFacts
      <3>3. at.num \in Int /\ at.den \in Nat \ {0}
        BY DEF IsAt
      <3> HIDE DEF u, r
      <3>4. u * at.den \in Nat \ {0}
        BY <3>1, <3>3
      <3>5. at.num - Margin * at.den \in Int
        BY <3>3, MarginAssumption
      <3>6. within \in Int
        BY <3>4, <3>5 DEF Low, High
      <3> HIDE DEF within
      <3>7. num \in Int
        BY <3>1, <3>2, <3>3, <3>6
      <3> HIDE DEF num
      <3>8. NumberAt(seg, r, at) = RoundToParity(num, u * at.den, r)
        BY <2>1 DEF NumberAt, num, within, u
      <3> QED
        BY <1>2, <3>4, <3>7, <3>8, RoundToParityType
    <2>2. CASE ~MarginApplied(seg, r)
      <3>1. NumberAt(seg, r, at) = RoundToParity(r.low, 1, r)
        BY <2>2 DEF NumberAt
      <3>2. r.low \in Int
        BY <1>2, RangeFacts
      <3> QED
        BY <1>2, <3>1, <3>2, RoundToParityType
    <2> QED
      BY <2>1, <2>2
  <1> QED
    BY <1>1, <1>2, <1>3, <1>4

(* Where the margin takes part, the number at the place of a number is     *)
(* that number: the metres and the numbers cancel out.                     *)
LEMMA ThereAndBack ==
  ASSUME NEW seg \in Segment(Numbers, Lengths), NEW r \in SideRanges(seg),
         NEW n \in Nat, Contains(r, n), ParityAdmits(r, n),
         MarginApplied(seg, r),
         NEW at,
         at = [num |-> Margin * (r.high - r.low) + (n - r.low) * Usable(seg),
               den |-> r.high - r.low]
  PROVE  NumberAt(seg, r, at) = n
  <1> DEFINE w == r.high - r.low
             u == Usable(seg)
             k == n - r.low
             within == Low(u * at.den, High(0, at.num - Margin * at.den))
  <1>1. r.low \in Nat /\ r.high \in Nat
    BY RangeFacts
  <1>2. w \in Nat \ {0} /\ k \in Nat /\ k <= w
    BY <1>1, RangeFacts DEF Contains, MarginApplied
  <1>3. u \in Nat \ {0}
    BY SegmentLengths
  <1>4. at.den = w /\ at.num = Margin * w + k * u
    OBVIOUS
  <1> HIDE DEF u, w, k
  <1>5. Margin * w \in Nat /\ k * u \in Nat /\ u * w \in Nat \ {0}
    BY <1>2, <1>3, MarginAssumption
  <1>6. at.num - Margin * at.den = k * u
    BY <1>4, <1>5
  <1>7. k * u <= u * w
    BY <1>2, <1>3
  <1>8. within = k * u
    BY <1>4, <1>5, <1>6, <1>7 DEF Low, High
  <1>9. r.low * u * at.den + w * within = n * (u * w)
    <2>1. n = r.low + k
      BY <1>1 DEF k
    <2>2. r.low * u * w + w * (k * u) = (r.low + k) * (u * w)
      BY <1>1, <1>2, <1>3
    <2> QED
      BY <1>4, <1>8, <2>1, <2>2
  <1>10. NumberAt(seg, r, at)
           = RoundToParity(r.low * u * at.den + w * within, u * at.den, r)
    BY DEF NumberAt, within, w, u
  <1>11. NumberAt(seg, r, at) = RoundToParity(n * (u * w), u * w, r)
    BY <1>4, <1>9, <1>10
  <1> QED
    BY <1>5, <1>11, RoundToParityExact

-----------------------------------------------------------------------------
(* Rounding is monotonic *)

(* What Python's round gives: a nearest whole number, at a tie the even    *)
(* one.                                                                    *)
LEMMA RoundFacts ==
  ASSUME NEW num \in Int, NEW den \in Nat \ {0}
  PROVE  LET k == Round(num, den)
         IN  /\ k \in Int
             /\ 2 * (k * den) - den <= 2 * num
             /\ 2 * num <= 2 * (k * den) + den
             /\ 2 * num = 2 * (k * den) - den => k % 2 = 0
             /\ 2 * num = 2 * (k * den) + den => k % 2 = 0
  <1> DEFINE f == num \div den
             rest == 2 * (num - f * den)
  <1>1. f \in Int /\ f * den <= num /\ num < f * den + den
    BY Z3
  <1>2. f * den \in Int /\ (f + 1) * den = f * den + den
    BY <1>1
  <1>3. CASE rest < den \/ (rest = den /\ f % 2 = 0)
    <2>1. Round(num, den) = f
      BY <1>3 DEF Round
    <2> HIDE DEF f
    <2> QED
      BY <1>1, <1>2, <1>3, <2>1
  <1>4. CASE ~(rest < den \/ (rest = den /\ f % 2 = 0))
    <2>1. Round(num, den) = f + 1
      BY <1>4 DEF Round
    <2> HIDE DEF f
    <2>2. rest = den => (f + 1) % 2 = 0
      BY <1>1, <1>4
    <2> QED
      BY <1>1, <1>2, <1>4, <2>1, <2>2
  <1> QED
    BY <1>3, <1>4

(* A smaller fraction is rounded to no larger a number. *)
LEMMA RoundMonotonic ==
  ASSUME NEW a \in Int, NEW b \in Nat \ {0},
         NEW c \in Int, NEW d \in Nat \ {0}, a * d <= c * b
  PROVE  Round(a, b) <= Round(c, d)
  <1> DEFINE j == Round(a, b)
             k == Round(c, d)
  <1>1. j \in Int /\ k \in Int
    BY RoundFacts
  <1>2. 2 * (j * b) - b <= 2 * a /\ (2 * a = 2 * (j * b) - b => j % 2 = 0)
    BY RoundFacts
  <1>3. 2 * c <= 2 * (k * d) + d /\ (2 * c = 2 * (k * d) + d => k % 2 = 0)
    BY RoundFacts
  <1> HIDE DEF j, k
  <1>4. SUFFICES ASSUME j >= k + 1 PROVE FALSE
    BY <1>1 DEF j, k
  <1> DEFINE p == b * d
  <1>5. p \in Nat \ {0}
    BY SMT
  <1>6. (2 * (j * b) - b) * d <= (2 * a) * d
    BY <1>1, <1>2
  <1>7. (2 * c) * b <= (2 * (k * d) + d) * b
    BY <1>1, <1>3
  <1>8. (2 * (j * b) - b) * d = (2 * j - 1) * p
    BY <1>1
  <1>9. (2 * (k * d) + d) * b = (2 * k + 1) * p
    BY <1>1
  <1>10. (2 * a) * d = 2 * (a * d) /\ (2 * c) * b = 2 * (c * b)
         /\ a * d \in Int /\ c * b \in Int
    OBVIOUS
  <1>11. (2 * j - 1) * p <= 2 * (a * d) /\ 2 * (c * b) <= (2 * k + 1) * p
    BY <1>6, <1>7, <1>8, <1>9, <1>10
  <1> HIDE DEF p
  <1>12. (2 * k + 1) * p <= (2 * j - 1) * p
    BY <1>1, <1>4, <1>5
  <1>13. (2 * j - 1) * p = 2 * (a * d) /\ 2 * (c * b) = (2 * k + 1) * p
         /\ (2 * j - 1) * p = (2 * k + 1) * p
    BY <1>1, <1>5, <1>10, <1>11, <1>12
  <1>14. j = k + 1
    BY <1>1, <1>4, <1>5, <1>13
  <1>15. (2 * (j * b) - b) * d = (2 * a) * d
         /\ (2 * c) * b = (2 * (k * d) + d) * b
    BY <1>8, <1>9, <1>10, <1>13
  <1>16. 2 * (j * b) - b = 2 * a
    BY <1>1, <1>15
  <1>17. 2 * c = 2 * (k * d) + d
    BY <1>1, <1>15
  <1>18. j % 2 = 0 /\ k % 2 = 0
    BY <1>2, <1>3, <1>16, <1>17
  <1> QED
    BY <1>1, <1>14, <1>18

(* So is the number its parity is forced to. *)
LEMMA RoundToParityMonotonic ==
  ASSUME NEW seg \in Segment(Numbers, Lengths), NEW r \in SideRanges(seg),
         NEW a \in Int, NEW b \in Nat \ {0},
         NEW c \in Int, NEW d \in Nat \ {0}, a * d <= c * b
  PROVE  RoundToParity(a, b, r) <= RoundToParity(c, d, r)
  <1> DEFINE j == Round(a, b)
             k == Round(c, d)
             below(x, y, n) == Distance(x, (n - 1) * y)
                                 <= Distance(x, (n + 1) * y)
             forced(x, y, n) == IF ParityAdmits(r, n) THEN n
                                ELSE IF below(x, y, n) THEN n - 1 ELSE n + 1
  <1>1. j \in Int /\ k \in Int /\ j <= k
    BY RoundFacts, RoundMonotonic
  <1>2. RoundToParity(a, b, r) = Low(r.high, High(r.low, forced(a, b, j)))
    BY DEF RoundToParity
  <1>3. RoundToParity(c, d, r) = Low(r.high, High(r.low, forced(c, d, k)))
    BY DEF RoundToParity
  <1>4. \A x \in Int, y \in Nat \ {0}, n \in Int :
          below(x, y, n) <=> x <= n * y
    <2> TAKE x \in Int, y \in Nat \ {0}, n \in Int
    <2>1. (n - 1) * y = n * y - y /\ (n + 1) * y = n * y + y /\ n * y \in Int
      OBVIOUS
    <2> QED
      BY <2>1 DEF Distance
  <1>5. forced(a, b, j) \in Int /\ forced(c, d, k) \in Int
    BY <1>1
  <1>6. forced(a, b, j) <= forced(c, d, k)
    <2>1. CASE j = k
      <3>1. c <= k * d => a <= j * b
        <4> SUFFICES ASSUME c <= k * d PROVE a <= j * b
          OBVIOUS
        <4> HIDE DEF j, k
        <4>1. c * b <= (k * d) * b
          BY <1>1
        <4>2. a * d <= (k * b) * d
          BY <1>1, <4>1
        <4> QED
          BY <1>1, <2>1, <4>2
      <3> HIDE DEF j, k, below
      <3>2. below(c, d, k) => below(a, b, j)
        BY <1>1, <1>4, <3>1
      <3> QED
        BY <1>1, <2>1, <3>2
    <2>2. CASE j < k
      <3>1. k = j + 1 => ParityAdmits(r, j) \/ ParityAdmits(r, k)
        BY <1>1 DEF ParityAdmits
      <3> HIDE DEF j, k, below
      <3> QED
        BY <1>1, <2>2, <3>1
    <2> QED
      BY <1>1, <2>1, <2>2
  <1> HIDE DEF forced
  <1> QED
    BY <1>2, <1>3, <1>5, <1>6, RangeFacts DEF Low, High

(* Farther along, the number is no smaller. *)
LEMMA NumberAtMonotonic ==
  ASSUME NEW seg \in Segment(Numbers, Lengths), NEW r \in SideRanges(seg),
         NEW p, IsAt(p), NEW q, IsAt(q), p.num * q.den <= q.num * p.den
  PROVE  NumberAt(seg, r, p) <= NumberAt(seg, r, q)
  <1> DEFINE w == r.high - r.low
             u == Usable(seg)
             beyond(at) == at.num - Margin * at.den
             within(at) == Low(u * at.den, High(0, beyond(at)))
             num(at) == r.low * u * at.den + w * within(at)
  <1>1. CASE ~MarginApplied(seg, r)
    <2>1. NumberAt(seg, r, p) = NumberAt(seg, r, q)
      BY <1>1 DEF NumberAt
    <2>2. NumberAt(seg, r, p) = RoundToParity(r.low, 1, r) /\ r.low \in Int
      BY <1>1, RangeFacts DEF NumberAt
    <2>3. NumberAt(seg, r, p) \in Nat
      BY <2>2, RoundToParityType
    <2> QED
      BY <2>1, <2>3
  <1>2. CASE MarginApplied(seg, r)
    <2>1. u \in Nat \ {0} /\ w \in Nat /\ r.low \in Nat
      BY <1>2, SegmentLengths, RangeFacts
    <2>2. /\ p.num \in Int /\ p.den \in Nat \ {0}
          /\ q.num \in Int /\ q.den \in Nat \ {0}
      BY DEF IsAt
    <2>3. /\ NumberAt(seg, r, p) = RoundToParity(num(p), u * p.den, r)
          /\ NumberAt(seg, r, q) = RoundToParity(num(q), u * q.den, r)
      BY <1>2 DEF NumberAt
    <2> HIDE DEF w, u
    <2>4. beyond(p) \in Int /\ beyond(q) \in Int
      BY <2>2, MarginAssumption
    <2>5. beyond(p) * q.den <= beyond(q) * p.den
      <3>1. /\ beyond(p) * q.den = p.num * q.den - Margin * (p.den * q.den)
            /\ beyond(q) * p.den = q.num * p.den - Margin * (p.den * q.den)
        BY <2>2, MarginAssumption
      <3>2. p.num * q.den \in Int /\ q.num * p.den \in Int
            /\ Margin * (p.den * q.den) \in Int
        BY <2>2, MarginAssumption
      <3> QED
        BY <3>1, <3>2
    <2> HIDE DEF beyond
    <2>6. /\ u * p.den \in Nat \ {0} /\ u * q.den \in Nat \ {0}
          /\ within(p) \in Int /\ within(q) \in Int
      BY <2>1, <2>2, <2>4 DEF Low, High
    <2>7. within(p) * q.den <= within(q) * p.den
      <3>1. /\ (u * p.den) * q.den = (u * q.den) * p.den
            /\ (u * q.den) * p.den \in Nat
        BY <2>1, <2>2
      <3>2. CASE beyond(q) >= u * q.den
        <4>1. within(q) = u * q.den
          BY <2>1, <2>4, <2>6, <3>2 DEF Low, High
        <4>2. within(p) <= u * p.den
          BY <2>4, <2>6 DEF Low, High
        <4>3. within(p) * q.den <= (u * p.den) * q.den
          BY <2>2, <2>6, <4>2
        <4> QED
          BY <3>1, <4>1, <4>3
      <3>3. CASE beyond(p) <= 0
        <4>1. within(p) = 0 /\ within(q) >= 0
          BY <2>4, <2>6, <3>3 DEF Low, High
        <4> QED
          BY <2>2, <2>6, <4>1
      <3>4. CASE beyond(p) > 0 /\ beyond(q) < u * q.den
        <4>1. beyond(p) * q.den > 0
          BY <2>2, <2>4, <3>4
        <4>2. beyond(q) > 0
          BY <2>2, <2>4, <2>5, <4>1
        <4>3. within(q) = beyond(q)
          BY <2>4, <2>6, <3>4, <4>2 DEF Low, High
        <4>4. within(p) <= beyond(p)
          BY <2>4, <2>6, <3>4 DEF Low, High
        <4>5. within(p) * q.den <= beyond(p) * q.den
          BY <2>2, <2>4, <2>6, <4>4
        <4> QED
          BY <2>2, <2>4, <2>5, <2>6, <4>3, <4>5
      <3> QED
        BY <2>4, <2>6, <3>2, <3>3, <3>4
    <2> HIDE DEF within
    <2>8. num(p) \in Int /\ num(q) \in Int
      BY <2>1, <2>2, <2>6
    <2>9. num(p) * (u * q.den) <= num(q) * (u * p.den)
      <3> DEFINE base == r.low * u * u * p.den * q.den
      <3>1. /\ num(p) * (u * q.den) = base + (w * u) * (within(p) * q.den)
            /\ num(q) * (u * p.den) = base + (w * u) * (within(q) * p.den)
        BY <2>1, <2>2, <2>6
      <3>2. base \in Int
        BY <2>1, <2>2
      <3> HIDE DEF base
      <3>3. w * u \in Nat /\ within(p) * q.den \in Int
            /\ within(q) * p.den \in Int
        BY <2>1, <2>2, <2>6
      <3>4. (w * u) * (within(p) * q.den) <= (w * u) * (within(q) * p.den)
        BY <2>7, <3>3
      <3> QED
        BY <3>1, <3>2, <3>3, <3>4
    <2> HIDE DEF num
    <2> QED
      BY <2>3, <2>6, <2>8, <2>9, RoundToParityMonotonic
  <1> QED
    BY <1>1, <1>2

-----------------------------------------------------------------------------
(* Rounding is to a nearest admitted number *)

(* Before it is clamped, the rounded number is a nearest one of its parity.*)
LEMMA ForcedIsNearest ==
  ASSUME NEW seg \in Segment(Numbers, Lengths), NEW r \in SideRanges(seg),
         NEW x \in Int, NEW y \in Nat \ {0}
  PROVE  \E n \in Int :
           /\ RoundToParity(x, y, r) = Low(r.high, High(r.low, n))
           /\ ParityAdmits(r, n)
           /\ \A k \in Int : ParityAdmits(r, k) =>
                Distance(x, n * y) <= Distance(x, k * y)
  <1> DEFINE j == Round(x, y)
             n == IF ParityAdmits(r, j) THEN j
                  ELSE IF Distance(x, (j - 1) * y) <= Distance(x, (j + 1) * y)
                  THEN j - 1 ELSE j + 1
  <1>1. /\ j \in Int
        /\ 2 * (j * y) - y <= 2 * x /\ 2 * x <= 2 * (j * y) + y
    BY RoundFacts
  <1>2. RoundToParity(x, y, r) = Low(r.high, High(r.low, n))
    BY DEF RoundToParity
  <1> HIDE DEF j
  <1>3. n \in Int
    BY <1>1
  <1>4. ParityAdmits(r, n)
    BY <1>1 DEF ParityAdmits
  <1>5. ASSUME NEW k \in Int, ParityAdmits(r, k)
        PROVE  Distance(x, n * y) <= Distance(x, k * y)
    <2>1. /\ (j - 1) * y = j * y - y /\ (j + 1) * y = j * y + y
          /\ j * y \in Int /\ k * y \in Int
      BY <1>1
    <2>2. k >= j + 1 => k * y >= j * y + y
      BY <1>1, <2>1
    <2>3. k <= j - 1 => k * y <= j * y - y
      BY <1>1, <2>1
    <2>4. k = j \/ k >= j + 1 \/ k <= j - 1
      BY <1>1
    <2>5. CASE ParityAdmits(r, j)
      BY <1>1, <2>1, <2>2, <2>3, <2>4, <2>5 DEF Distance
    <2>6. CASE ~ParityAdmits(r, j)
      <3>1. k # j
        BY <1>5, <2>6
      <3>2. k * y >= j * y + y \/ k * y <= j * y - y
        BY <2>2, <2>3, <2>4, <3>1
      <3>3. n * y = IF Distance(x, j * y - y) <= Distance(x, j * y + y)
                    THEN j * y - y ELSE j * y + y
        BY <2>1, <2>6
      <3> HIDE DEF n
      <3> QED
        BY <1>1, <2>1, <3>2, <3>3 DEF Distance
    <2> QED
      BY <2>5, <2>6
  <1> QED
    BY <1>2, <1>3, <1>4, <1>5

(* On a range whose ends have its parity the clamp changes nothing, for a  *)
(* value within the range.                                                 *)
LEMMA RoundToParityNearest ==
  ASSUME NEW seg \in Segment(Numbers, Lengths), NEW r \in SideRanges(seg),
         WellFormed(r), NEW x \in Int, NEW y \in Nat \ {0},
         r.low * y <= x, x <= r.high * y
  PROVE  LET n == RoundToParity(x, y, r)
         IN  /\ n \in Nat /\ Contains(r, n) /\ ParityAdmits(r, n)
             /\ \A k \in Int : ParityAdmits(r, k) =>
                  Distance(x, n * y) <= Distance(x, k * y)
  <1>1. PICK n \in Int :
          /\ RoundToParity(x, y, r) = Low(r.high, High(r.low, n))
          /\ ParityAdmits(r, n)
          /\ \A k \in Int : ParityAdmits(r, k) =>
               Distance(x, n * y) <= Distance(x, k * y)
    BY ForcedIsNearest
  <1>2. r.low \in Nat /\ r.high \in Nat /\ r.low <= r.high
    BY RangeFacts
  <1>3. /\ Distance(x, n * y) <= Distance(x, r.low * y)
        /\ Distance(x, n * y) <= Distance(x, r.high * y)
    BY <1>1, <1>2 DEF WellFormed
  <1>4. n * y \in Int /\ r.low * y \in Int /\ r.high * y \in Int
    BY <1>2
  <1>5. r.low <= n
    <2> SUFFICES ASSUME n <= r.low - 1 PROVE FALSE
      BY <1>2
    <2>1. n * y <= r.low * y - y
      BY <1>2
    <2> QED
      BY <1>3, <1>4, <2>1 DEF Distance
  <1>6. n <= r.high
    <2> SUFFICES ASSUME n >= r.high + 1 PROVE FALSE
      BY <1>2
    <2>1. n * y >= r.high * y + y
      BY <1>2
    <2> QED
      BY <1>3, <1>4, <2>1 DEF Distance
  <1>7. RoundToParity(x, y, r) = n
    BY <1>1, <1>2, <1>5, <1>6 DEF Low, High
  <1> QED
    BY <1>1, <1>2, <1>5, <1>6, <1>7 DEF Contains

-----------------------------------------------------------------------------
(* The inductive invariant *)

(* What is placed was computed from the number asked, what is told from    *)
(* the origin.                                                             *)
Remembers ==
  /\ segment \in Segment(Numbers, Lengths)
  /\ asked \in Numbers \union {Null}
  /\ placed = IF asked = Null THEN NoPlace ELSE Interpolate(segment, asked)
  /\ told # Unanswered => /\ origin.side \in SideOf /\ IsAt(origin.at)
                          /\ told = FromRcl(segment, origin.side, origin.at)

(* No house number is Null. *)
LEMMA NumbersAreNat == Numbers \subseteq Nat /\ Null \notin Numbers
  BY NumbersAssumption DEF Null

(* Every initial segment has the sides the constants name.                 *)
LEMMA InitRemembers == Init => Remembers
  <1> SUFFICES ASSUME Init PROVE Remembers
    OBVIOUS
  <1>1. PICK l \in LeftSides, r \in RightSides, length \in Lengths,
             m \in BOOLEAN :
          segment = [sides |-> [s \in SideOf |-> IF s = "L" THEN l ELSE r],
                     length |-> length, multipart |-> m]
    BY DEF Init
  <1>2. l \in SideAttributes(Numbers) /\ r \in SideAttributes(Numbers)
    BY SidesAssumption
  <1>3. segment \in Segment(Numbers, Lengths)
    BY <1>1, <1>2 DEF Segment
  <1> QED
    BY <1>3 DEF Init, Remembers

(* A reverse conversion answers for the origin it is given.                *)
LEMMA ReverseRemembers ==
  ASSUME Remembers, NEW o, o.side \in SideOf, IsAt(o.at), Reverse(o)
  PROVE  Remembers'
  <1>1. told' = FromRcl(segment, o.side, o.at) /\ origin' = o
        /\ segment' = segment /\ asked' = asked /\ placed' = placed
    BY DEF Reverse
  <1>2. origin'.side \in SideOf /\ IsAt(origin.at)'
    BY <1>1 DEF IsAt
  <1> QED
    BY <1>1, <1>2 DEF Remembers

(* Every step remembers. *)
LEMMA NextRemembers == Remembers /\ [Next]_vars => Remembers'
  <1> SUFFICES ASSUME Remembers, [Next]_vars PROVE Remembers'
    OBVIOUS
  <1>1. ASSUME NEW n \in Numbers, Geocode(n)
        PROVE  Remembers'
    <2>1. n # Null
      BY NumbersAreNat
    <2> QED
      BY <1>1, <2>1 DEF Geocode, Remembers
  <1>2. CASE ReverseBack
    <2> DEFINE o == [side |-> placed.range.side, at |-> placed.at]
    <2>1. placed # NoPlace /\ Reverse(o)
      BY <1>2 DEF ReverseBack
    <2>2. asked \in Nat /\ placed = Interpolate(segment, asked)
      BY <2>1, NumbersAreNat DEF Remembers
    <2>3. segment \in Segment(Numbers, Lengths)
      BY DEF Remembers
    <2>4. placed.range \in SideRanges(segment) /\ IsAt(placed.at)
      BY <2>1, <2>2, <2>3, InterpolateFacts
    <2>5. o.side \in SideOf /\ o.at = placed.at
      BY <2>3, <2>4, RangeFacts
    <2>6. IsAt(o.at)
      BY <2>4, <2>5
    <2> HIDE DEF o
    <2> QED
      BY <2>1, <2>5, <2>6, ReverseRemembers
  <1>3. CASE ReverseAnywhere
    <2>1. PICK s \in SideOf, d \in 0 .. segment.length :
            Reverse([side |-> s, at |-> [num |-> d, den |-> 1]])
      BY <1>3 DEF ReverseAnywhere
    <2> DEFINE o == [side |-> s, at |-> [num |-> d, den |-> 1]]
    <2>2. o.side \in SideOf /\ IsAt(o.at)
      BY DEF IsAt
    <2>3. Reverse(o)
      BY <2>1
    <2> HIDE DEF o
    <2> QED
      BY <2>2, <2>3, ReverseRemembers
  <1>4. CASE UNCHANGED vars
    BY <1>4 DEF vars, Remembers, IsAt
  <1> QED
    BY <1>1, <1>2, <1>3, <1>4 DEF Next

(* Remembers holds of every behaviour. *)
LEMMA AlwaysRemembers == Spec => []Remembers
  BY InitRemembers, NextRemembers, PTL DEF Spec

-----------------------------------------------------------------------------
(* The theorems *)

(* What is placed, in terms of the number asked. *)
LEMMA PlacedFacts ==
  ASSUME Remembers, placed # NoPlace
  PROVE  /\ asked \in Nat /\ placed = Interpolate(segment, asked)
         /\ placed.range \in SideRanges(segment)
         /\ Contains(placed.range, asked) /\ IsAt(placed.at)
         /\ Walkable(segment)
  <1>1. asked \in Nat /\ placed = Interpolate(segment, asked)
    BY NumbersAreNat DEF Remembers
  <1>2. segment \in Segment(Numbers, Lengths)
    BY DEF Remembers
  <1> QED
    BY <1>1, <1>2, InterpolateFacts

(* Every variable has its type. *)
THEOREM RoundTripTypeCorrect == Spec => []TypeOK
  <1>1. ASSUME Remembers PROVE TypeOK
    <2>1. /\ segment \in Segment(Numbers, Lengths)
          /\ asked \in Numbers \union {Null}
      BY <1>1 DEF Remembers
    <2>2. placed # NoPlace => /\ placed.range \in SideRanges(segment)
                              /\ placed.at.den \in Nat \ {0}
      BY <1>1, PlacedFacts DEF IsAt
    <2>3. told # Unanswered => /\ origin.side \in SideOf
                               /\ told # StreetLevel => told.number \in Nat
      BY <1>1, <2>1, FromRclFacts DEF Remembers
    <2> QED
      BY <2>1, <2>2, <2>3 DEF TypeOK
  <1> QED
    BY <1>1, AlwaysRemembers, PTL

(* A number comes back from its own position (interpolate and from_rcl are *)
(* inverse), for every margin, length and pair of sides.                   *)
THEOREM NumbersComeBack == Spec => []NumberComesBack
  <1>1. ASSUME Remembers PROVE NumberComesBack
    <2> SUFFICES ASSUME CameBack,
                        \/ /\ MarginApplied(segment, placed.range)
                           /\ ParityAdmits(placed.range, asked)
                        \/ placed.range.low = placed.range.high
                 PROVE  told.number = asked
      BY DEF NumberComesBack
    <2> DEFINE r == placed.range
    <2>1. told # Unanswered /\ placed # NoPlace
          /\ origin.side = r.side /\ origin.at = placed.at
      BY DEF CameBack
    <2>2. segment \in Segment(Numbers, Lengths)
      BY <1>1 DEF Remembers
    <2>3. /\ asked \in Nat /\ placed = Interpolate(segment, asked)
          /\ r \in SideRanges(segment) /\ Contains(r, asked)
          /\ Walkable(segment) /\ IsAt(placed.at)
      BY <1>1, <2>1, PlacedFacts
    <2>4. r.side \in SideOf /\ r = SideRange(segment, r.side)
          /\ Asserts(segment.sides[r.side]) /\ r.low \in Nat /\ r.high \in Nat
      BY <2>2, <2>3, RangeFacts
    <2>5. told = FromRcl(segment, r.side, placed.at)
      BY <1>1, <2>1 DEF Remembers
    <2>6. told.number = NumberAt(segment, r, placed.at)
      BY <2>3, <2>4, <2>5 DEF FromRcl
    <2>7. CASE MarginApplied(segment, r) /\ ParityAdmits(r, asked)
      <3>1. placed.at = [num |-> Margin * (r.high - r.low)
                                   + (asked - r.low) * Usable(segment),
                         den |-> r.high - r.low]
        BY <2>1, <2>2, <2>3, <2>7, InterpolateFacts
      <3> QED
        BY <2>2, <2>3, <2>6, <2>7, <3>1, ThereAndBack
    <2>8. CASE r.low = r.high
      <3>1. ~MarginApplied(segment, r)
        BY <2>8 DEF MarginApplied
      <3>2. NumberAt(segment, r, placed.at) = RoundToParity(r.low, 1, r)
        BY <3>1 DEF NumberAt
      <3>3. asked = r.low
        BY <2>3, <2>4, <2>8 DEF Contains
      <3> QED
        BY <2>2, <2>3, <2>6, <2>8, <3>2, <3>3, RoundToSingle
    <2> QED
      BY <2>7, <2>8
  <1> QED
    BY <1>1, AlwaysRemembers, PTL

(* A number some side asserts is placed, on a side whose parity fits if    *)
(* one does (select_side).                                                 *)
THEOREM AssertedNumbersArePlaced == Spec => []AssertedIsPlaced
  <1>1. ASSUME Remembers PROVE AssertedIsPlaced
    <2> DEFINE claims == {r \in SideRanges(segment) : Contains(r, asked)}
               fits   == {r \in claims : ParityAdmits(r, asked)}
    <2> SUFFICES ASSUME asked # Null, Walkable(segment), claims # {}
                 PROVE  /\ placed.range \in claims
                        /\ fits # {} => placed.range \in fits
      BY DEF AssertedIsPlaced
    <2>1. asked \in Nat /\ placed = Interpolate(segment, asked)
          /\ segment \in Segment(Numbers, Lengths)
      BY <1>1, NumbersAreNat DEF Remembers
    <2>2. /\ SelectSide(segment, asked) \in claims
          /\ fits # {} => SelectSide(segment, asked) \in fits
      BY <2>1, SelectedSideClaims
    <2>3. SelectSide(segment, asked) # NoRange
      BY <2>1, <2>2, RangeFacts
    <2>4. placed.range = SelectSide(segment, asked)
      BY <2>1, <2>3 DEF Interpolate
    <2> QED
      BY <2>2, <2>4
  <1> QED
    BY <1>1, AlwaysRemembers, PTL

(* On a side that ascends the numbers grow along it (from_rcl), whatever   *)
(* rounding and parity do to each of them.                                 *)
THEOREM NumbersGrow == Spec => NumbersGrowAlong
  <1> DEFINE Grow == /\ told # Unanswered /\ told' # Unanswered
                     /\ origin.side = origin'.side /\ told # StreetLevel
                     /\ Ascends(segment, origin.side)
                     /\ origin.at.num * origin'.at.den
                          <= origin'.at.num * origin.at.den
                     => told.number <= told'.number
  <1>1. ASSUME Remembers, Remembers', [Next]_vars PROVE [Grow]_vars
    <2>1. segment' = segment
      BY <1>1 DEF Next, Geocode, ReverseBack, ReverseAnywhere, Reverse, vars
    <2> SUFFICES ASSUME told # Unanswered, told' # Unanswered,
                        origin.side = origin'.side, told # StreetLevel,
                        origin.at.num * origin'.at.den
                          <= origin'.at.num * origin.at.den
                 PROVE  told.number <= told'.number
      OBVIOUS
    <2> DEFINE r == SideRange(segment, origin.side)
    <2>2. /\ segment \in Segment(Numbers, Lengths)
          /\ origin.side \in SideOf /\ IsAt(origin.at)
          /\ told = FromRcl(segment, origin.side, origin.at)
      BY <1>1 DEF Remembers
    <2>3. /\ IsAt(origin'.at)
          /\ told' = FromRcl(segment, origin.side, origin'.at)
      BY <1>1, <2>1 DEF Remembers, IsAt
    <2>4. Asserts(segment.sides[origin.side]) /\ Walkable(segment)
      BY <2>2 DEF FromRcl
    <2>5. r \in SideRanges(segment)
      BY <2>2, <2>4 DEF SideRanges
    <2>6. told.number = NumberAt(segment, r, origin.at)
          /\ told'.number = NumberAt(segment, r, origin'.at)
      BY <2>2, <2>3, <2>4 DEF FromRcl
    <2> HIDE DEF r
    <2>7. NumberAt(segment, r, origin.at) <= NumberAt(segment, r, origin'.at)
      BY <2>2, <2>3, <2>5, NumberAtMonotonic
    <2> QED
      BY <2>6, <2>7
  <1> QED
    BY <1>1, AlwaysRemembers, PTL DEF Spec, NumbersGrowAlong

(* The synthesised number is one its side admits, on a side that ascends a *)
(* nearest one (from_rcl, _round_to_parity), also beyond the margins.      *)
THEOREM NumbersAreNearest == Spec => []NearestNumber
  <1>1. ASSUME Remembers PROVE NearestNumber
    <2> DEFINE r == SideRange(segment, origin.side)
               u == Usable(segment)
               d == origin.at.num
               w == r.high - r.low
               off(k) == Distance(Scaled(r, d), k * u)
    <2> SUFFICES ASSUME told # Unanswered, told # StreetLevel,
                        origin.at.den = 1, MarginApplied(segment, r),
                        WellFormed(r)
                 PROVE  /\ Contains(r, told.number)
                        /\ ParityAdmits(r, told.number)
                        /\ \A k \in r.low .. r.high :
                             ParityAdmits(r, k) => off(told.number) <= off(k)
      BY DEF NearestNumber
    <2>1. /\ segment \in Segment(Numbers, Lengths)
          /\ origin.side \in SideOf /\ IsAt(origin.at)
          /\ told = FromRcl(segment, origin.side, origin.at)
      BY <1>1 DEF Remembers
    <2>2. r \in SideRanges(segment)
          /\ told.number = NumberAt(segment, r, origin.at)
      BY <2>1, FromRclFacts
    <2>3. /\ r.low \in Nat /\ r.high \in Nat /\ r.low <= r.high
          /\ d \in Int /\ u \in Nat \ {0}
      BY <2>1, <2>2, RangeFacts, SegmentLengths DEF IsAt
    <2> DEFINE b == d - Margin
               within == Low(u, High(0, b))
               x == r.low * u + w * within
    <2>4. NumberAt(segment, r, origin.at) = RoundToParity(x, u, r)
      <3>1. d - Margin * 1 = b /\ u * 1 = u /\ r.low * u * 1 = r.low * u
        BY <2>3, MarginAssumption
      <3> QED
        BY <3>1 DEF NumberAt
    <2>5. Scaled(r, d) = r.low * u + w * b
      BY DEF Scaled
    <2>6. b \in Int /\ w \in Nat /\ r.high = r.low + w
      BY <2>3, MarginAssumption
    <2> HIDE DEF b, u, d
    <2>7. within \in Nat /\ within <= u
      BY <2>3, <2>6 DEF Low, High
    <2>8. /\ w * within \in Nat /\ w * within <= w * u
          /\ r.high * u = r.low * u + w * u
          /\ r.low * u \in Nat /\ w * u \in Nat /\ w * b \in Int
      BY <2>3, <2>6, <2>7
    <2> DEFINE n == RoundToParity(x, u, r)
    <2>9. x \in Int /\ r.low * u <= x /\ x <= r.high * u
      BY <2>8
    <2>10. /\ n \in Nat /\ Contains(r, n) /\ ParityAdmits(r, n)
           /\ \A k \in Int : ParityAdmits(r, k) =>
                Distance(x, n * u) <= Distance(x, k * u)
      BY <2>1, <2>2, <2>3, <2>9, RoundToParityNearest
    <2> HIDE DEF n
    <2> HIDE DEF within, x
    <2>11. ASSUME NEW k \in r.low .. r.high, ParityAdmits(r, k)
           PROVE  off(n) <= off(k)
      <3>1. /\ k \in Int /\ k * u \in Int /\ n * u \in Int
            /\ r.low * u <= k * u /\ k * u <= r.high * u
        BY <2>3, <2>10
      <3>2. CASE 0 <= b /\ b <= u
        <4>1. within = b
          <5>1. High(0, b) = b
            BY <2>6, <3>2 DEF High
          <5>2. Low(u, b) = b
            BY <2>3, <2>6, <3>2 DEF Low
          <5> QED
            BY <5>1, <5>2 DEF within
        <4> QED
          BY <2>5, <2>10, <2>11, <3>1, <4>1 DEF x
      <3>3. CASE b < 0
        <4>1. within = 0
          BY <2>3, <2>6, <3>3 DEF Low, High, within
        <4>2. x = r.low * u
          BY <2>6, <2>8, <4>1 DEF x
        <4>3. Distance(x, n * u) <= Distance(x, r.low * u)
          BY <2>3, <2>10 DEF WellFormed
        <4>4. n * u = r.low * u
          BY <2>8, <2>9, <3>1, <4>2, <4>3 DEF Distance
        <4>5. w * b <= 0
          BY <2>6, <3>3
        <4>6. Scaled(r, d) <= r.low * u /\ Scaled(r, d) \in Int
          BY <2>5, <2>8, <4>5
        <4> QED
          BY <2>8, <3>1, <4>4, <4>6 DEF Distance
      <3>4. CASE b > u
        <4>1. within = u
          BY <2>3, <2>6, <3>4 DEF Low, High, within
        <4>2. x = r.high * u
          BY <2>8, <4>1 DEF x
        <4>3. Distance(x, n * u) <= Distance(x, r.high * u)
          BY <2>3, <2>10 DEF WellFormed
        <4>4. n * u = r.high * u
          BY <2>9, <3>1, <4>2, <4>3 DEF Distance
        <4>5. w * u <= w * b
          BY <2>3, <2>6, <3>4
        <4>6. Scaled(r, d) >= r.high * u /\ Scaled(r, d) \in Int
              /\ r.high * u \in Int
          BY <2>5, <2>8, <4>5
        <4> QED
          BY <3>1, <4>4, <4>6 DEF Distance
      <3> QED
        BY <2>3, <2>6, <3>2, <3>3, <3>4
    <2> QED
      BY <2>2, <2>4, <2>10, <2>11 DEF n, x
  <1> QED
    BY <1>1, AlwaysRemembers, PTL
=============================================================================
