----------------------------- MODULE AddressRange ----------------------------
(***************************************************************************)
(* The arithmetic both directions share on a road segment: which side      *)
(* asserts a house number, where along the segment a number lies           *)
(* (src/geocode/position.py), and which number lies at a point of it       *)
(* (src/reverse/civic_derivation.py).                                      *)
(*                                                                         *)
(* A segment is its length in metres and its two sides; a distance along   *)
(* it is an exact fraction [num, den], where the code has a float. The     *)
(* perpendicular setback, and with it the earth, is left out: a position   *)
(* is a side and a distance along.                                         *)
(***************************************************************************)
EXTENDS Integers, FiniteSets

CONSTANT Margin  \* GCS_RCL_ENDPOINT_MARGIN_M

ASSUME MarginAssumption == Margin \in Nat

Null    == -1
Parity  == {"E", "O", "B", "Z"}  \* an absent parity is read as "B" is
SideOf  == {"L", "R"}

SideAttributes(Numbers) ==
  [from : Numbers \union {Null}, to : Numbers \union {Null}, parity : Parity]

(* An RclGisRecord, as far as house numbers go: length 0 stands for every  *)
(* geometry no path can be measured on.                                    *)
Segment(Numbers, Lengths) ==
  [sides : [SideOf -> SideAttributes(Numbers)], length : Lengths,
   multipart : BOOLEAN]

Low(a, b)  == IF a <= b THEN a ELSE b
High(a, b) == IF a <= b THEN b ELSE a
Distance(a, b) == IF a <= b THEN b - a ELSE a - b

-----------------------------------------------------------------------------
Asserts(a) == a.from # Null /\ a.to # Null /\ a.parity # "Z"

SideRange(seg, s) ==
  LET a == seg.sides[s]
  IN  [side |-> s, low |-> Low(a.from, a.to), high |-> High(a.from, a.to),
       parity |-> a.parity]

(* side_ranges: a side that asserts nothing has none. *)
SideRanges(seg) ==
  {SideRange(seg, s) : s \in {t \in SideOf : Asserts(seg.sides[t])}}

Contains(r, n) == r.low <= n /\ n <= r.high

ParityAdmits(r, n) ==
  /\ r.parity = "E" => n % 2 = 0
  /\ r.parity = "O" => n % 2 = 1

NoRange == [side |-> "none"]

(* select_side: the range decides, parity only between two sides that both *)
(* claim the number, and then the left one.                                *)
SelectSide(seg, n) ==
  LET claiming == {r \in SideRanges(seg) : Contains(r, n)}
      admitted == {r \in claiming : ParityAdmits(r, n)}
      best     == IF Cardinality(admitted) = 1 THEN admitted ELSE claiming
  IN  IF claiming = {} THEN NoRange
      ELSE CHOOSE r \in best : r.side = "L" \/ best = {r}

(* range_gap: how far a number is from what the segment asserts; a segment *)
(* that asserts nothing is farther than every other, which Null stands for.*)
RangeGap(seg, n) ==
  LET gap(r) == IF n < r.low THEN r.low - n
                ELSE IF n > r.high THEN n - r.high ELSE 0
      gaps   == {gap(r) : r \in SideRanges(seg)}
  IN  IF gaps = {} THEN Null ELSE CHOOSE g \in gaps : \A h \in gaps : g <= h

-----------------------------------------------------------------------------
(* path_frame can be built on the segment. *)
Walkable(seg) == ~seg.multipart /\ seg.length > 0

Usable(seg) == seg.length - 2 * Margin

(* The range is laid out between the two margins; otherwise every number   *)
(* of it is at the middle of the segment.                                  *)
MarginApplied(seg, r) == r.low # r.high /\ Usable(seg) > 0

NoPlace == [range |-> NoRange]

(* Mutant: the range is laid out over the whole segment. *)
InterpolateUntrimmed(seg, n) ==
  LET r == SelectSide(seg, n)
  IN  IF r = NoRange \/ ~Walkable(seg) THEN NoPlace
      ELSE [range |-> r,
            at |-> IF MarginApplied(seg, r)
                   THEN [num |-> (n - r.low) * seg.length,
                         den |-> r.high - r.low]
                   ELSE [num |-> seg.length, den |-> 2]]

(* interpolate: proportional to the number, from the margin on. *)
Interpolate(seg, n) ==
  LET r == SelectSide(seg, n)
  IN  IF r = NoRange \/ ~Walkable(seg) THEN NoPlace
      ELSE [range |-> r,
            at |-> IF MarginApplied(seg, r)
                   THEN [num |-> Margin * (r.high - r.low)
                                   + (n - r.low) * Usable(seg),
                         den |-> r.high - r.low]
                   ELSE [num |-> seg.length, den |-> 2]]

-----------------------------------------------------------------------------
(* Python's round(num / den): a half goes to the even neighbour. *)
Round(num, den) ==
  LET f    == num \div den
      rest == 2 * (num - f * den)
  IN  IF rest < den \/ (rest = den /\ f % 2 = 0) THEN f ELSE f + 1

(* Mutant: the wrong parity is always corrected upwards. *)
RoundToParityUp(num, den, r) ==
  LET nearest == Round(num, den)
      forced  == IF ParityAdmits(r, nearest) THEN nearest ELSE nearest + 1
  IN  Low(r.high, High(r.low, forced))

(* Mutant: the wrong parity is corrected to the farther neighbour. *)
RoundToParityFar(num, den, r) ==
  LET nearest == Round(num, den)
      down    == nearest - 1
      up      == nearest + 1
      forced  == IF ParityAdmits(r, nearest) THEN nearest
                 ELSE IF Distance(num, down * den) <= Distance(num, up * den)
                 THEN up ELSE down
  IN  Low(r.high, High(r.low, forced))

(* _round_to_parity: the parity first, the asserted range last. *)
RoundToParity(num, den, r) ==
  LET nearest == Round(num, den)
      down    == nearest - 1
      up      == nearest + 1
      forced  == IF ParityAdmits(r, nearest) THEN nearest
                 ELSE IF Distance(num, down * den) <= Distance(num, up * den)
                 THEN down ELSE up
  IN  Low(r.high, High(r.low, forced))

StreetLevel == [tier |-> "STREET_SEGMENT"]

(* The number at a distance along the segment: the inverse of Interpolate. *)
(* Where the margin does not take part it is the low end, for any place.   *)
NumberAt(seg, r, at) ==
  LET w      == r.high - r.low
      u      == Usable(seg)
      beyond == at.num - Margin * at.den
      within == Low(u * at.den, High(0, beyond))
  IN  IF MarginApplied(seg, r)
      THEN RoundToParity(r.low * u * at.den + w * within, u * at.den, r)
      ELSE RoundToParity(r.low, 1, r)

(* Mutant: the left side is asked whatever side the origin projects on. *)
FromRclLeft(seg, s, at) ==
  IF Asserts(seg.sides["L"]) /\ Walkable(seg)
  THEN [tier   |-> "INTERPOLATED_POINT",
        number |-> NumberAt(seg, SideRange(seg, "L"), at)]
  ELSE StreetLevel

(* from_rcl: the side the origin projects on selects the range. *)
FromRcl(seg, s, at) ==
  IF Asserts(seg.sides[s]) /\ Walkable(seg)
  THEN [tier   |-> "INTERPOLATED_POINT",
        number |-> NumberAt(seg, SideRange(seg, s), at)]
  ELSE StreetLevel
=============================================================================
