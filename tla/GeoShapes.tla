------------------------------ MODULE GeoShapes ------------------------------
(***************************************************************************)
(* The geometry a reverse conversion rests on: the input shapes of         *)
(* src/reverse/origin.py, each with its origin, its extent and what it     *)
(* contains, and the projection onto a path of src/engine/geometry.py.     *)
(*                                                                         *)
(* A place is a point of a grid, east, north and up in metres, where the   *)
(* code has geodesics; distances are compared by their squares, so no      *)
(* root is ever taken. Footprints and paths have legs along the axes,      *)
(* ellipses an orientation of 0 or 90 degrees, arc bands start north and   *)
(* open by 180 or 360 degrees.                                             *)
(***************************************************************************)
EXTENDS Integers, FiniteSetsExt, Functions, Sequences

NoAltitude == -1

Place == [x : Int, y : Int, z : Nat \union {NoAltitude}]

Square(n)    == n * n
Magnitude(n) == IF n < 0 THEN -n ELSE n

(* The square of the horizontal distance. *)
Distance2(p, q) == Square(p.x - q.x) + Square(p.y - q.y)

-----------------------------------------------------------------------------
(***************************************************************************)
(* Shapes                                                                  *)
(***************************************************************************)
(* gml_xml._ring_vertices lets no smaller ring through. *)
Ring       == {ring \in Seq(Place) : Len(ring) >= 3}

Points     == [kind : {"Point"}, at : Place]
Circles    == [kind : {"Circle"}, at : Place, radius : Nat]
Spheres    == [kind : {"Sphere"}, at : Place, radius : Nat]
Ellipses   == [kind : {"Ellipse"}, at : Place, major : Nat, minor : Nat,
               orientation : {0, 90}]
Ellipsoids == [kind : {"Ellipsoid"}, at : Place, major : Nat, minor : Nat,
               orientation : {0, 90}, vertical : Nat]
ArcBands   == [kind : {"ArcBand"}, at : Place, inner : Nat,
               outer : Nat, opening : {180, 360}]
Polygons   == [kind : {"Polygon"}, ring : Ring]
Prisms     == [kind : {"Prism"}, ring : Ring, height : Nat]

Shape == Points \union Circles \union Spheres \union Ellipses
           \union Ellipsoids \union ArcBands \union Polygons \union Prisms

(* geometry.mean_position of a ring, to the metre. *)
Mean(ring) ==
  [x |-> SumFunction([i \in DOMAIN ring |-> ring[i].x]) \div Len(ring),
   y |-> SumFunction([i \in DOMAIN ring |-> ring[i].y]) \div Len(ring),
   z |-> ring[1].z]

(* How far from its apex an arc band has its centroid, to the metre and    *)
(* with 22/7 for pi; the sine vanishes where the band is a full ring.      *)
Reach(band) ==
  IF band.outer <= band.inner THEN band.outer
  ELSE IF band.opening = 360 THEN 0
  ELSE LET cubes   == band.outer * band.outer * band.outer
                        - band.inner * band.inner * band.inner
           squares == Square(band.outer) - Square(band.inner)
       IN  (28 * cubes) \div (66 * squares)

(* GeoShape.origin: the one place a shape is searched from. *)
Origin(s) ==
  IF s.kind = "ArcBand"
  THEN [x |-> s.at.x + Reach(s), y |-> s.at.y, z |-> NoAltitude]
  ELSE IF s.kind = "Polygon" THEN Mean(s.ring)
  ELSE IF s.kind = "Prism" THEN [Mean(s.ring) EXCEPT !.z = @ + s.height \div 2]
  ELSE s.at

(* SearchOrigin.extent_m, squared. *)
Extent2(s) ==
  IF s.kind = "Point" THEN 0
  ELSE IF s.kind \in {"Circle", "Sphere"} THEN Square(s.radius)
  ELSE IF s.kind \in {"Ellipse", "Ellipsoid"} THEN Square(s.major)
  ELSE IF s.kind = "ArcBand"
       THEN Max({Square(s.outer - Reach(s)), Square(Reach(s) - s.inner)})
  ELSE Max({Distance2(s.ring[i], Mean(s.ring)) : i \in DOMAIN s.ring})

HasExtent(s) == Extent2(s) > 0

(* _within_ring, even-odd: the legs a ray to the east crosses. *)
WithinRing(ring, p) ==
  LET next(i)  == ring[IF i = Len(ring) THEN 1 ELSE i + 1]
      crossed  == {i \in DOMAIN ring : /\ (ring[i].y > p.y) # (next(i).y > p.y)
                                       /\ p.x < ring[i].x}
  IN  Len(ring) >= 3 /\ Cardinality(crossed) % 2 = 1

(* _within_ellipse, multiplied by the squares of both axes. *)
WithinEllipse(s, p) ==
  LET east  == Square(p.x - s.at.x)
      north == Square(p.y - s.at.y)
      along == IF s.orientation = 0 THEN north ELSE east
      aside == IF s.orientation = 0 THEN east ELSE north
  IN  /\ s.major > 0 /\ s.minor > 0
      /\ along * Square(s.minor) + aside * Square(s.major)
           <= Square(s.major) * Square(s.minor)

WithinBand(s, p) ==
  /\ Square(s.inner) <= Distance2(p, s.at)
  /\ Distance2(p, s.at) <= Square(s.outer)
  /\ s.opening = 180 => p.x >= s.at.x

(* GeoShape.contains: a place without altitude is judged by its footprint  *)
(* alone, and a Point contains nothing.                                    *)
Covers(s, p) ==
  LET rise == p.z - s.at.z
  IN  \/ /\ s.kind = "Circle"
         /\ Distance2(p, s.at) <= Square(s.radius)
      \/ /\ s.kind = "Sphere"
         /\ Distance2(p, s.at) <= Square(s.radius)
         /\ p.z # NoAltitude =>
              Distance2(p, s.at) + Square(rise) <= Square(s.radius)
      \/ /\ s.kind = "Ellipse"
         /\ WithinEllipse(s, p)
      \/ /\ s.kind = "Ellipsoid"
         /\ WithinEllipse(s, p)
         /\ p.z # NoAltitude /\ s.vertical > 0 =>
              Magnitude(rise) <= s.vertical
      \/ /\ s.kind = "ArcBand"
         /\ WithinBand(s, p)
      \/ /\ s.kind = "Polygon"
         /\ WithinRing(s.ring, p)
      \/ /\ s.kind = "Prism"
         /\ WithinRing(s.ring, p)
         /\ p.z # NoAltitude =>
              p.z \in s.ring[1].z .. (s.ring[1].z + s.height)

-----------------------------------------------------------------------------
(***************************************************************************)
(* Paths                                                                   *)
(***************************************************************************)
Legs(path) == 1 .. (Len(path) - 1)

LegLength(path, i) == Magnitude(path[i + 1].x - path[i].x)
                        + Magnitude(path[i + 1].y - path[i].y)

Walked(path, i) == SumFunction([j \in 1 .. (i - 1) |-> LegLength(path, j)])

PathLength(path) == Walked(path, Len(path))

Clamp(v, a, b) == Min({Max({a, b}), Max({Min({a, b}), v})})

(* The place of a leg closest to another; a projection has no altitude. *)
Closest(path, i, o) ==
  [x |-> Clamp(o.x, path[i].x, path[i + 1].x),
   y |-> Clamp(o.y, path[i].y, path[i + 1].y), z |-> NoAltitude]

(* project_onto_path: the first of the closest legs decides the place, how *)
(* far along it is, and on which side of that leg the origin lies.         *)
Projection(path, o) ==
  LET off(i)  == Distance2(o, Closest(path, i, o))
      leg     == CHOOSE i \in Legs(path) :
                   \A j \in Legs(path) :
                     off(i) < off(j) \/ (off(i) = off(j) /\ i <= j)
      near    == Closest(path, leg, o)
      along   == Magnitude(near.x - path[leg].x)
                   + Magnitude(near.y - path[leg].y)
      cross   == (path[leg + 1].x - path[leg].x) * (o.y - path[leg].y)
                   - (path[leg + 1].y - path[leg].y) * (o.x - path[leg].x)
  IN  [at |-> near, along |-> Walked(path, leg) + along,
       offset2 |-> off(leg), side |-> IF cross > 0 THEN "L" ELSE "R"]
=============================================================================
