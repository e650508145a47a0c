--------------------------- MODULE MCReverseSearch ---------------------------
(* Instances of ReverseSearch: a square of 11 metres around the origin,     *)
(* with records at the boundaries of the radius and of each shape.          *)
EXTENDS ReverseSearch

At(x, y)       == [x |-> x, y |-> y, z |-> NoAltitude]
Above(x, y, z) == [x |-> x, y |-> y, z |-> z]

MCInputs ==
  {[kind |-> "Point", at |-> At(0, 0)], [kind |-> "Point", at |-> At(2, -1)],
   [kind |-> "Point", at |-> Above(0, 0, 3)],
   [kind |-> "Sphere", at |-> Above(0, 0, 3), radius |-> 2],
   [kind |-> "Ellipsoid", at |-> Above(0, 0, 1), major |-> 3, minor |-> 2,
    orientation |-> 90, vertical |-> 1],
   [kind |-> "Polygon",
    ring |-> <<At(-2, -2), At(2, -2), At(2, 2), At(-2, 2)>>],
   [kind |-> "Polygon",  \* open to the east, its origin outside
    ring |-> <<At(-3, -4), At(3, -4), At(3, -2), At(-1, -2),
               At(-1, 2), At(3, 2), At(3, 4), At(-3, 4)>>],
   [kind |-> "Prism", height |-> 2,
    ring |-> <<Above(-3, -3, 2), Above(3, -3, 2), Above(3, 3, 2),
               Above(-3, 3, 2)>>]}
  \union {[kind |-> "Circle", at |-> At(0, 0), radius |-> r] : r \in {0, 2, 4}}
  \union {[kind |-> "Ellipse", at |-> At(0, 0), major |-> 3, minor |-> m,
           orientation |-> o] : m \in {0, 1}, o \in {0, 90}}
  \union {[kind |-> "ArcBand", at |-> At(0, 0), inner |-> i, outer |-> 4,
           opening |-> o] : i \in {0, 2, 4}, o \in {180, 360}}

Building(places, number) ==
  [nguid |-> 0, places |-> places, number |-> number]

MCPoints ==
  {Building({p}, 7) : p \in {At(1, 0), At(2, 0), Above(2, 0, 3),
                             Above(0, 3, 3), At(0, -3), At(5, 0), At(4, 4)}}
  \union {Building({}, 7), Building({At(1, 0)}, Null)}

Side(from, to, parity) == [from |-> from, to |-> to, parity |-> parity]
NoSide == Side(Null, Null, "B")

Road(path, left, right) ==
  [nguid |-> 0, path |-> path, multipart |-> FALSE,
   sides |-> [s \in SideOf |-> IF s = "L" THEN left ELSE right]]

East   == <<At(-4, 1), At(4, 1)>>
West   == <<At(4, -1), At(-4, -1)>>
Bend   == <<At(2, -3), At(2, 2), At(6, 2)>>
Beyond == <<At(-4, 6), At(4, 6)>>
Spot   == <<At(1, 1), At(1, 1)>>

MCRoads ==
  {Road(path, Side(1, 9, "O"), Side(2, 10, "E")) : path \in {East, West, Bend}}
  \union {Road(path, NoSide, Side(10, 14, "B")) : path \in {East, West, Bend}}
  \union {Road(West, Side(5, 5, "B"), Side(4, 7, "E")),
          Road(East, Side(1, 9, "Z"), Side(1, 4, "E")),
          Road(Beyond, Side(1, 9, "O"), NoSide),
          Road(Spot, Side(1, 9, "B"), Side(1, 9, "B")),
          Road(<<>>, NoSide, NoSide)}
  \union {[Road(East, Side(1, 9, "O"), NoSide) EXCEPT !.multipart = TRUE]}

Pairs(set) ==
  {<<[r EXCEPT !.nguid = id],
     [s EXCEPT !.nguid = IF id = 0 THEN 0 ELSE 3 - id]>> :
     r \in set, s \in set, id \in 0 .. 2}

FewRoads ==
  {<<>>}
  \union {<<Road(path, Side(1, 9, "O"), NoSide)>> : path \in {East, Bend}}

FewPoints == {<<>>} \union {<<Building({p}, 7)>> : p \in {At(1, 0), At(3, 0)}}

MCLayers ==
  {[ssap |-> points, rcl |-> roads] :
     points \in Pairs(MCPoints), roads \in FewRoads}
  \union {[ssap |-> points, rcl |-> roads] :
            points \in FewPoints, roads \in Pairs(MCRoads)}
=============================================================================
