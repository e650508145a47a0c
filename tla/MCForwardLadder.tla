--------------------------- MODULE MCForwardLadder ---------------------------
(* Instances of ForwardLadder: a score of 150 on an address point is worth  *)
(* as much as 160 on an interpolated one; 159 and 160 are within Epsilon.   *)
EXTENDS ForwardLadder

Side(from, to) == [from |-> from, to |-> to, parity |-> "B"]
NoSide == Side(Null, Null)

Street(left, length, multipart) ==
  [sides |-> [s \in SideOf |-> IF s = "L" THEN left ELSE NoSide],
   length |-> length, multipart |-> multipart]

MCSegments ==
  {Street(Side(1, 2), 8, FALSE), Street(Side(1, 2), 8, TRUE),
   Street(Side(4, 5), 8, FALSE), Street(Side(7, 8), 8, FALSE),
   Street(NoSide, 8, FALSE), Street(Side(1, 2), 0, FALSE)}

Windows == {<<Null, Null>>, <<Null, 2>>, <<2, 3>>}

Point(w, score, place, number, unit) ==
  [nguid |-> 0, effective |-> w[1], expire |-> w[2], score |-> score,
   place |-> place, number |-> number, unit |-> unit]

Road(w, score, place, segment) ==
  [nguid |-> 0, effective |-> w[1], expire |-> w[2], score |-> score,
   place |-> place, segment |-> segment]

Named(r, id) == [r EXCEPT !.nguid = id]

Pairs(set) ==
  {<<Named(r, id), Named(s, IF id = 0 THEN 0 ELSE 3 - id)>> :
     r \in set, s \in set, id \in 0 .. 2}

MCPoints ==
  {Point(<<Null, Null>>, score, place, 1, Null) :
     score \in {149, 150, 160}, place \in {0, 3, 5}}
  \union {Point(w, 160, 0, 1, Null) : w \in Windows}
  \union {Point(<<Null, Null>>, 159, 3, 1, unit) : unit \in {1, 2}}
  \union {Point(<<Null, Null>>, 50, 0, 1, Null),
          Point(<<Null, Null>>, 160, 0, 2, Null),
          Point(<<Null, Null>>, 160, Nowhere, 1, Null)}

MCRoads ==
  {Road(<<Null, Null>>, score, place, segment) :
     score \in {150, 159, 160}, place \in {0, 3}, segment \in MCSegments}
  \union {Road(w, 160, place, Street(NoSide, 8, FALSE)) :
            w \in Windows, place \in {0, Nowhere}}
  \union {Road(<<Null, Null>>, 50, 0, Street(NoSide, 8, FALSE))}

FewPoints ==
  {<<>>} \union {<<Point(<<Null, Null>>, score, 0, 1, Null)>> :
                   score \in {100, 150}}

FewRoads ==
  {<<>>, <<Road(<<Null, Null>>, 160, 0, Street(Side(1, 2), 8, FALSE))>>,
   <<Road(<<Null, Null>>, 160, 0, Street(NoSide, 8, FALSE))>>}

MCLayers ==
  {[ssap |-> points, rcl |-> roads] :
     points \in Pairs(MCPoints), roads \in FewRoads}
  \union {[ssap |-> points, rcl |-> roads] :
            points \in FewPoints, roads \in Pairs(MCRoads)}

Query(number, unit, at) == [number |-> number, unit |-> unit, at |-> at]

MCQueries ==
  {Query(Null, Null, Null), Query(1, Null, Null), Query(6, Null, Null),
   Query(1, 1, 1), Query(1, Null, 2), Query(Null, Null, 2)}
=============================================================================
