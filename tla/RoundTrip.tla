------------------------------- MODULE RoundTrip ------------------------------
(***************************************************************************)
(* A client geocodes a house number that a road segment answers, and       *)
(* reverse geocodes the position it was given, or any other one beside the *)
(* same segment.                                                           *)
(***************************************************************************)
EXTENDS AddressRange

CONSTANTS
  Numbers,     \* house numbers
  Lengths,     \* lengths of segments, in metres
  LeftSides,   \* what the left sides assert
  RightSides   \* what the right sides assert

ASSUME NumbersAssumption == Numbers \subseteq Nat /\ Lengths \subseteq Nat
ASSUME SidesAssumption == LeftSides \union RightSides \subseteq
                            SideAttributes(Numbers)

VARIABLES
  segment,  \* the centerline record
  asked,    \* the house number geocoded last
  placed,   \* the position it was given
  origin,   \* the position reverse geocoded last
  told      \* the answer to that

vars == <<segment, asked, placed, origin, told>>

Unanswered == [tier |-> "none"]
Nowhere    == [side |-> "none"]

Init ==
  /\ \E l \in LeftSides, r \in RightSides, length \in Lengths, m \in BOOLEAN :
       segment = [sides |-> [s \in SideOf |-> IF s = "L" THEN l ELSE r],
                  length |-> length, multipart |-> m]
  /\ asked = Null /\ placed = NoPlace
  /\ origin = Nowhere /\ told = Unanswered

(* Geocode: rung 2 answers with a position, or leaves it to rung 3. *)
Geocode(n) ==
  /\ asked' = n
  /\ placed' = Interpolate(segment, n)
  /\ origin' = Nowhere /\ told' = Unanswered
  /\ UNCHANGED segment

(* ReverseGeocode, where the search finds this segment. *)
Reverse(o) ==
  /\ ~segment.multipart
  /\ origin' = o
  /\ told' = FromRcl(segment, o.side, o.at)
  /\ UNCHANGED <<segment, asked, placed>>

(* The origin is the position the geocoder has given. *)
ReverseBack ==
  /\ placed # NoPlace
  /\ Reverse([side |-> placed.range.side, at |-> placed.at])

(* The origin is at any whole metre of the segment. *)
ReverseAnywhere ==
  \E s \in SideOf, d \in 0 .. segment.length :
    Reverse([side |-> s, at |-> [num |-> d, den |-> 1]])

Next == (\E n \in Numbers : Geocode(n)) \/ ReverseBack \/ ReverseAnywhere

Spec == Init /\ [][Next]_vars

-----------------------------------------------------------------------------
(* Every variable has its type. *)
TypeOK ==
  /\ segment \in Segment(Numbers, Lengths)
  /\ asked \in Numbers \union {Null}
  /\ placed # NoPlace =>
       placed.range \in SideRanges(segment) /\ placed.at.den \in Nat \ {0}
  /\ told # Unanswered =>
       /\ origin.side \in SideOf
       /\ told # StreetLevel => told.number \in Nat

CameBack ==
  /\ told # Unanswered /\ placed # NoPlace
  /\ origin = [side |-> placed.range.side, at |-> placed.at]

(* A number the segment is long enough to lay out, and whose parity is     *)
(* that of its side, comes back from its own position; so does the only    *)
(* number of a side that asserts one. Geocoding and reversing are inverse  *)
(* although each rounds, clamps and chooses its side by rules of its own.  *)
NumberComesBack ==
  CameBack /\ (\/ /\ MarginApplied(segment, placed.range)
                  /\ ParityAdmits(placed.range, asked)
               \/ placed.range.low = placed.range.high)
    => told.number = asked

(* The exact number at a distance d along, times the metres laid out.      *)
Scaled(r, d) == r.low * Usable(segment) + (r.high - r.low) * (d - Margin)

WellFormed(r) == ParityAdmits(r, r.low) /\ ParityAdmits(r, r.high)

(* A side's From is not above its To. Where it is, the code lays the range *)
(* out from its low end all the same, and its algorithm specification from *)
(* From: what such a side should answer where is not for a property to say.*)
Ascends(seg, s) == seg.sides[s].from <= seg.sides[s].to

(* The synthesised number is one the range and the parity of that side     *)
(* admit, wherever the origin is, and on a side that ascends a nearest one *)
(* of these.                                                               *)
NearestNumber ==
  told # Unanswered /\ told # StreetLevel /\ origin.at.den = 1 =>
    LET r == SideRange(segment, origin.side)
        off(k) == Distance(Scaled(r, origin.at.num), k * Usable(segment))
    IN  MarginApplied(segment, r) /\ WellFormed(r) =>
          /\ Contains(r, told.number) /\ ParityAdmits(r, told.number)
          /\ Ascends(segment, origin.side) =>
               \A k \in r.low .. r.high :
                 ParityAdmits(r, k) => off(told.number) <= off(k)

(* Farther along a side that ascends the numbers never get smaller.        *)
NumbersGrowAlong ==
  [][/\ told # Unanswered /\ told' # Unanswered
     /\ origin.side = origin'.side /\ told # StreetLevel
     /\ Ascends(segment, origin.side)
     /\ origin.at.num * origin'.at.den <= origin'.at.num * origin.at.den
     => told.number <= told'.number]_vars

(* A number some side asserts is placed, whatever the parity fields say,   *)
(* and on a side whose parity fits it if one of those that claim it does.  *)
AssertedIsPlaced ==
  asked # Null /\ Walkable(segment) =>
    LET claims == {r \in SideRanges(segment) : Contains(r, asked)}
        fits   == {r \in claims : ParityAdmits(r, asked)}
    IN  claims # {} => /\ placed.range \in claims
                       /\ fits # {} => placed.range \in fits
=============================================================================
