---------------------------- MODULE ReverseSearch ----------------------------
(***************************************************************************)
(* The reverse conversion: which records of the two layers lie within the  *)
(* search radius of a shape's origin, in which order they answer           *)
(* (src/reverse/search.py), which of them the enhanced interface lists and *)
(* which civic address each of them yields (src/reverse/                   *)
(* response_assembly.py, civic_derivation.py). The strict interface gives  *)
(* the first of them.                                                      *)
(*                                                                         *)
(* The injected scorer is left out: it decorates answers and orders none.  *)
(***************************************************************************)
EXTENDS AddressRange, GeoShapes

CONSTANTS
  Radius,  \* GCS_REVERSE_SEARCH_RADIUS_M
  Layers,  \* pairs of layers, as provisioned
  Inputs   \* the shapes asked about

VARIABLES
  ssap, rcl,  \* the two layers
  shape,      \* the shape asked about last
  ordered,    \* the hits within the radius, in their order
  listed      \* the answers, in theirs

vars == <<ssap, rcl, shape, ordered, listed>>

(* A record without NGUID has 0. An address point has one place, or none   *)
(* where it has no usable geometry; so it is with a centerline's path.     *)
Places       == {places \in SUBSET Place : \A p, q \in places : p = q}
AddressPoint == [nguid : Nat, places : Places, number : Nat \union {Null}]
Centerline   == [nguid : Nat, path : Seq(Place), multipart : BOOLEAN,
                 sides : [SideOf -> SideAttributes(Nat)]]

ASSUME ReverseAssumption ==
  /\ Radius \in Nat /\ Inputs \subseteq Shape
  /\ Layers \subseteq [ssap : Seq(AddressPoint), rcl : Seq(Centerline)]

-----------------------------------------------------------------------------
(***************************************************************************)
(* Hits                                                                    *)
(***************************************************************************)
Near(d2) == d2 <= Square(Radius)

(* _vertically_bands: both altitudes are known and the same. *)
Bands(o, p) == o.z # NoAltitude /\ p.z = o.z

(* What ssap_hits makes of a record that has a place. *)
SsapHit(s, layer, i) ==
  LET o  == Origin(s)
      at == CHOOSE p \in layer[i].places : TRUE
  IN  [layer |-> "ssap", nth |-> i, nguid |-> layer[i].nguid,
       tier |-> "ADDRESS_POINT", at |-> at, distance2 |-> Distance2(o, at),
       contained |-> Covers(s, at), banded |-> Bands(o, at),
       along |-> 0, side |-> "none"]

(* ssap_hits *)
SsapHits(s, layer) ==
  {h \in {SsapHit(s, layer, i) :
            i \in {j \in DOMAIN layer : layer[j].places # {}}} :
     Near(h.distance2)}

OnePart(r) == Len(r.path) >= 2 /\ ~r.multipart

(* What rcl_hits makes of a centerline: every one counts as interpolable;  *)
(* what is contained is the place the origin projects to.                  *)
RclHit(s, layer, i) ==
  LET p == Projection(layer[i].path, Origin(s))
  IN  [layer |-> "rcl", nth |-> i, nguid |-> layer[i].nguid,
       tier |-> "INTERPOLATED_POINT", at |-> p.at, distance2 |-> p.offset2,
       contained |-> Covers(s, p.at), banded |-> FALSE,
       along |-> p.along, side |-> p.side]

(* rcl_hits *)
RclHits(s, layer) ==
  {h \in {RclHit(s, layer, i) :
            i \in {j \in DOMAIN layer : OnePart(layer[j])}} :
     Near(h.distance2)}

-----------------------------------------------------------------------------
(***************************************************************************)
(* Their order                                                             *)
(***************************************************************************)
Precision(tier) == IF tier = "ADDRESS_POINT" THEN 2 ELSE 1

\* Mutant: the tier counts for every hit.
OrderingKeyOfTier(h) ==
  <<IF h.contained THEN 0 ELSE 1, IF h.banded THEN 0 ELSE 1,
    -Precision(h.tier), h.distance2, h.nguid>>

\* Mutant: the altitude counts before containment.
OrderingKeyBandFirst(h) ==
  <<IF h.banded THEN 0 ELSE 1, IF h.contained THEN 0 ELSE 1,
    IF h.contained THEN -Precision(h.tier) ELSE 0, h.distance2, h.nguid>>

\* Mutant: the NGUID is not part of the key.
OrderingKeyUntied(h) ==
  <<IF h.contained THEN 0 ELSE 1, IF h.banded THEN 0 ELSE 1,
    IF h.contained THEN -Precision(h.tier) ELSE 0, h.distance2, 0>>

(* ordering_key, as a sequence of numbers of which the smaller comes first.*)
OrderingKey(h) ==
  <<IF h.contained THEN 0 ELSE 1, IF h.banded THEN 0 ELSE 1,
    IF h.contained THEN -Precision(h.tier) ELSE 0, h.distance2, h.nguid>>

(* Where a hit is before the sort, which is stable: address points first. *)
Position(h) == <<IF h.layer = "ssap" THEN 0 ELSE 1, h.nth>>

Before(h, g) ==
  LET a == OrderingKey(h) \o Position(h)
      b == OrderingKey(g) \o Position(g)
  IN  \E i \in DOMAIN a : a[i] < b[i] /\ \A j \in 1 .. (i - 1) : a[j] = b[j]

(* order *)
Order(hits) ==
  [i \in 1 .. Cardinality(hits) |->
     CHOOSE h \in hits : Cardinality({g \in hits : Before(g, h)}) = i - 1]

(* search: one pass over both layers. *)
Search(s, points, roads) == Order(SsapHits(s, points) \union RclHits(s, roads))

-----------------------------------------------------------------------------
(***************************************************************************)
(* The answers                                                             *)
(***************************************************************************)
SegmentOf(r) ==
  [sides |-> r.sides, length |-> PathLength(r.path),
   multipart |-> r.multipart]

(* civic_derivation.derive: read off the address point, computed on the    *)
(* centerline, whose tier drops to the street where no range is asserted.  *)
Derive(h, points, roads) ==
  IF h.layer = "ssap"
  THEN [tier |-> "ADDRESS_POINT", number |-> points[h.nth].number]
  ELSE FromRcl(SegmentOf(roads[h.nth]), h.side, [num |-> h.along, den |-> 1])

Answer(h, points, roads) == [hit |-> h, civic |-> Derive(h, points, roads)]

(* The list narrows to what a shape with extent contains, if anything. *)
Narrowed(s, hits) ==
  LET held      == {i \in DOMAIN hits : hits[i].contained}
      nth(k)    == CHOOSE i \in held :
                     Cardinality({j \in held : j < i}) = k - 1
      contained == [k \in 1 .. Cardinality(held) |-> hits[nth(k)]]
  IN  IF HasExtent(s) /\ held # {} THEN contained ELSE hits

(* answers: in the order of the hits; none ever lacks a civic address. *)
Answers(s, hits, points, roads) ==
  LET kept == Narrowed(s, hits)
  IN  [i \in DOMAIN kept |-> Answer(kept[i], points, roads)]

-----------------------------------------------------------------------------
Unasked == [kind |-> "none"]

Init ==
  /\ \E l \in Layers : ssap = l.ssap /\ rcl = l.rcl
  /\ shape = Unasked /\ ordered = <<>> /\ listed = <<>>

(* POST /ReverseGeocodeEnhanced, and POST /ReverseGeocode, which returns   *)
(* the first answer, or 468 where there is none. Nothing is kept from one  *)
(* request to the next, so a behavior has one.                             *)
ReverseGeocode(s) ==
  /\ shape = Unasked
  /\ shape' = s
  /\ ordered' = Search(s, ssap, rcl)
  /\ listed' = Answers(s, ordered', ssap, rcl)
  /\ UNCHANGED <<ssap, rcl>>

Next == \E s \in Inputs : ReverseGeocode(s)

Spec == Init /\ [][Next]_vars

-----------------------------------------------------------------------------
Asked == shape # Unasked

OnLeg(p, q) == [x : Low(p.x, q.x) .. High(p.x, q.x),
                y : Low(p.y, q.y) .. High(p.y, q.y), z : {NoAltitude}]

(* Every place a record that can answer occupies, leg by leg. *)
PlacesOf(path) == UNION {OnLeg(path[i], path[i + 1]) : i \in Legs(path)}

Provisioned ==
  (UNION {ssap[i].places : i \in DOMAIN ssap})
    \union (UNION {PlacesOf(rcl[i].path) :
                     i \in {j \in DOMAIN rcl : OnePart(rcl[j])}})

(* A Point orders by pure proximity: nothing of either layer is nearer     *)
(* than rank 1, unless that one is at the Point's own altitude, and 468 is *)
(* left to what lies beyond the radius.                                    *)
NearestForAPoint ==
  Asked /\ shape.kind = "Point" =>
    LET away(p) == Distance2(Origin(shape), p)
    IN  /\ listed = <<>> <=> \A p \in Provisioned : ~Near(away(p))
        /\ \A p \in Provisioned :
             listed # <<>> => \/ listed[1].hit.distance2 <= away(p)
                              \/ listed[1].hit.banded

Hits == [i \in DOMAIN listed |-> listed[i].hit]

(* What a shape contains comes first, so that narrowing keeps a prefix of  *)
(* the list and rank 1 does not move; and precision, not distance, orders  *)
(* what is contained (decisions 41 and 122).                               *)
ContainedComeFirst ==
  LET n == Cardinality({i \in DOMAIN ordered : ordered[i].contained})
  IN  /\ \A i \in DOMAIN ordered : ordered[i].contained <=> i <= n
      /\ Hits = SubSeq(ordered, 1, IF Asked /\ HasExtent(shape) /\ n > 0
                                   THEN n ELSE Len(ordered))
      /\ \A i, j \in 1 .. n :
           /\ ordered[i].banded = ordered[j].banded
           /\ Precision(ordered[i].tier) > Precision(ordered[j].tier)
           => i < j

Backwards(layer) == [i \in DOMAIN layer |-> layer[Len(layer) + 1 - i]]

Identified(layer) ==
  \A i, j \in DOMAIN layer : i # j => layer[i].nguid # layer[j].nguid

NguidsOf(hits) == [i \in DOMAIN hits |-> <<hits[i].layer, hits[i].nguid>>]

(* Records with NGUIDs of their own may be read in any order. *)
OrderIrrelevant ==
  Asked /\ Identified(ssap) /\ Identified(rcl) =>
    NguidsOf(Search(shape, Backwards(ssap), Backwards(rcl)))
      = NguidsOf(ordered)

(* A house number answered for a side of a centerline is one that geocodes *)
(* back to that side, unless the other side claims it too, and to within   *)
(* one number of where the input fell.                                     *)
AnswerGeocodesBack ==
  \A i \in DOMAIN listed : listed[i].civic.tier = "INTERPOLATED_POINT" =>
    LET h    == listed[i].hit
        seg  == SegmentOf(rcl[h.nth])
        own  == SideRange(seg, h.side)
        back == Interpolate(seg, listed[i].civic.number)
        fell == Low(seg.length - Margin, High(Margin, h.along))
    IN  /\ back # NoPlace
        /\ \/ back.range = own
           \/ Contains(back.range, listed[i].civic.number)
              /\ Contains(own, listed[i].civic.number)
        /\ back.range = own /\ MarginApplied(seg, own) =>
             Distance(back.at.num, fell * back.at.den) <= Usable(seg)
=============================================================================
