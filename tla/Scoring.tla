------------------------------- MODULE Scoring -------------------------------
(***************************************************************************)
(* The forward scorer: how well a record of either layer matches a civic   *)
(* address (src/engine/scoring.py), weighted by what the loaded layer says *)
(* about its own fields (src/gis/field_stats.py).                          *)
(*                                                                         *)
(* A record is the street it lies on and the attribution of its sides: an  *)
(* address point has one, its own, a centerline a left and a right one. A  *)
(* score is an exact fraction, what was earned out of what could have been.*)
(* Words and their similarity are parameters, see Similarity.              *)
(***************************************************************************)
EXTENDS AddressRange, FiniteSetsExt, Sequences

CONSTANTS
  Word,          \* what an element may say
  Absent,        \* what an element says that is not supplied
  Clean,         \* a cell as its record holds it: records._plain
  Whole,         \* similarity 1.0
  MismatchCap,   \* _COMMUNITY_MISMATCH_SIMILARITY_CAP
  Similarity,    \* of two words: _normalized_similarity, for each concept
  NameQualifies, \* _street_name_qualifies
  TownQualifies, \* _community_qualifies
  Grain,         \* discriminative factor 1.0
  MinPopulation, \* _MIN_POPULATION
  Layers,        \* what the two layers may hold, as cells
  Queries        \* the civic addresses asked for

VARIABLES
  layer,    \* the records of the two layers, as loaded
  factor,   \* field_stats: the factor of every field of the two layers
  count,    \* field_stats: how many records say something in it
  query,    \* the civic address scored last
  terms,    \* what every record of the two layers was compared on
  scores    \* and the score it has got

vars == <<layer, factor, count, query, terms, scores>>

StreetField == {"St_Name", "St_PreTyp", "St_PosTyp", "St_PreDir", "St_PosDir"}
AreaField   == {"A3", "A4", "Post_Comm", "A2", "A1", "Country"}
Field       == StreetField \union AreaField
Concept     == {"St_Name", "St_Type", "St_Dir", "Community", "A2", "A1",
                "Country"}
LayerOf     == {"ssap", "rcl"}

Attributes(sides) ==
  [street : [StreetField -> Word], area : [sides -> [AreaField -> Word]],
   segment : Segment(Nat, Nat)]
SidesOf(l) == IF l = "ssap" THEN {"own"} ELSE SideOf

ASSUME ScoringAssumption ==
  /\ Whole \in Nat \ {0} /\ Grain \in Nat \ {0}
  /\ MismatchCap \in 0 .. Whole
  /\ MinPopulation \in Nat \ {0}
  /\ Absent \in Word
  /\ \A rows \in Layers :
       /\ DOMAIN rows = LayerOf
       /\ \A l \in LayerOf : rows[l] \in Seq(Attributes(SidesOf(l)))
  /\ Queries \subseteq [number : Nat \union {Null}, says : [Field -> Word]]

(* A similarity is a share of the whole, or there is nothing to compare.   *)
ASSUME WordAssumption ==
  /\ Clean \in [Word -> Word]
  /\ Similarity \in [Concept \X Word \X Word -> 0 .. Whole \union {Null}]
  /\ NameQualifies \in [Word \X Word -> BOOLEAN]
  /\ TownQualifies \in [Word \X Word -> BOOLEAN]

-----------------------------------------------------------------------------
(***************************************************************************)
(* Records, and the statistics of a layer                                  *)
(***************************************************************************)
(* row_to_ssap, row_to_rcl: every cell passes _plain. *)
Record(row) ==
  [street  |-> [f \in StreetField |-> Clean[row.street[f]]],
   area    |-> [s \in DOMAIN row.area |->
                  [f \in AreaField |-> Clean[row.area[s][f]]]],
   segment |-> row.segment]

Says(r, f, s) == IF f \in StreetField THEN r.street[f] ELSE r.area[s][f]

(* The sides of a record that hold a field: a street field is held once,   *)
(* the left and right of an area field are pooled (_RCL_SIDED_PAIRS).      *)
Sides(r, f) == IF f \in StreetField THEN {"both"} ELSE DOMAIN r.area

Cells(rs, f) == UNION {{<<i, s>> : s \in Sides(rs[i], f)} : i \in DOMAIN rs}
CellSays(rs, f, c) == Says(rs[c[1]], f, c[2])

(* Mutant: an element not supplied is a value like any other. *)
PopulatedAll(rs, f) == Cells(rs, f)

(* What _max_frequency counts: the observations that say something. *)
Populated(rs, f) == {c \in Cells(rs, f) : CellSays(rs, f, c) # Absent}

(* How often the most common value of a field occurs. *)
MostCommon(rs, f) ==
  Max({Cardinality({d \in Populated(rs, f) :
                      CellSays(rs, f, d) = CellSays(rs, f, c)}) :
         c \in Populated(rs, f)})

(* _factor: one minus the share of the most common value, once the sample  *)
(* is large enough to mean anything.                                       *)
Factor(rs, f) ==
  LET n == Cardinality(Populated(rs, f))
  IN  IF n < MinPopulation THEN Grain
      ELSE Grain - (Grain * MostCommon(rs, f)) \div n

-----------------------------------------------------------------------------
(***************************************************************************)
(* What is compared with what                                              *)
(***************************************************************************)
First(v, w) == IF v # Absent THEN v ELSE w

NoSide == "none"

(* Mutant: a left side of the number's parity is the side, whatever the    *)
(* right one is.                                                           *)
SideHintLeft(q, r) ==
  LET parity   == IF q.number % 2 = 0 THEN "E" ELSE "O"
      matching == {s \in SideOf : r.segment.sides[s].parity = parity}
  IN  IF "own" \in DOMAIN r.area THEN "own"
      ELSE IF q.number = Null \/ matching = {} THEN NoSide
      ELSE IF "L" \in matching THEN "L" ELSE "R"

(* _rcl_side_hint: the one side that has the parity of the house number.   *)
(* An address point has no sides to choose from.                           *)
SideHint(q, r) ==
  LET parity   == IF q.number % 2 = 0 THEN "E" ELSE "O"
      matching == {s \in SideOf : r.segment.sides[s].parity = parity}
  IN  IF "own" \in DOMAIN r.area THEN "own"
      ELSE IF q.number = Null \/ Cardinality(matching) # 1 THEN NoSide
      ELSE CHOOSE s \in matching : TRUE

SidesCompared(q, r) ==
  IF SideHint(q, r) = NoSide THEN DOMAIN r.area ELSE {SideHint(q, r)}

(* What the query says in one of two slots. *)
Asked(q, post, pre) == First(q.says[post], q.says[pre])

(* _best_of_sides over the two slots of the street type or direction: the  *)
(* more similar one, then the one measured on more records, then the first.*)
BestSlot(c, asked, r, counts, f, g) ==
  LET offers ==
        {[field |-> h, similarity |-> Similarity[c, asked, r.street[h]]] :
           h \in {f, g}}
  IN  CHOOSE one \in offers : \A two \in offers \ {one} :
        \/ one.similarity > two.similarity
        \/ /\ one.similarity = two.similarity
           /\ \/ counts[one.field] > counts[two.field]
              \/ counts[one.field] = counts[two.field] /\ one.field = f

(* _community_query; _community_ssap and _community_rcl_side.              *)
TownAsked(q) == First(q.says["A3"], First(q.says["A4"], q.says["Post_Comm"]))
TownField(area) ==
  IF area["A3"] # Absent THEN "A3"
  ELSE IF area["A4"] # Absent THEN "A4" ELSE "Post_Comm"

(* _capped_community_similarity: another town earns no more than the cap.  *)
Capped(likeness, asked, town) ==
  IF TownQualifies[asked, town] THEN likeness ELSE Low(likeness, MismatchCap)

(* The town of a side, how alike it is, and what that is worth.            *)
TownOn(s, area, field, asked) ==
  LET likeness == Similarity["Community", asked, area[field]]
  IN  [side |-> s, field |-> field, likeness |-> likeness,
       similarity |-> Capped(likeness, asked, area[field])]

TownOffers(q, r) ==
  {TownOn(s, r.area[s], TownField(r.area[s]), TownAsked(q)) :
     s \in SidesCompared(q, r)}

(* Mutant: the left side wins wherever it says something. *)
CommunityLeft(q, r) ==
  CHOOSE one \in TownOffers(q, r) : \A two \in TownOffers(q, r) \ {one} :
    IF one.side = "L" THEN one.likeness # Null ELSE two.likeness = Null

(* The side that wins is settled before the cap: the more similar town, the*)
(* left one of two.                                                        *)
Community(q, r) ==
  CHOOSE one \in TownOffers(q, r) : \A two \in TownOffers(q, r) \ {one} :
    \/ one.likeness > two.likeness
    \/ one.likeness = two.likeness /\ one.side = "L"

(* sided_similarity: the better of the sides that are compared. *)
AreaLikeness(q, r, f) ==
  LET all == {Similarity[f, q.says[f], r.area[s][f]] :
                s \in SidesCompared(q, r)}
  IN  CHOOSE v \in all : \A w \in all : v >= w

-----------------------------------------------------------------------------
(***************************************************************************)
(* The score                                                               *)
(***************************************************************************)
BaseWeight ==
  [c \in Concept |-> IF c = "St_Name" THEN 30 ELSE IF c = "St_Type" THEN 12
                     ELSE IF c = "St_Dir" THEN 8
                     ELSE IF c = "Community" THEN 15
                     ELSE IF c = "A2" THEN 10 ELSE IF c = "A1" THEN 5 ELSE 2]

(* The similarity of a concept, and the field that it was found in.        *)
Compared(q, r, counts, c) ==
  IF c = "St_Type"
  THEN BestSlot(c, Asked(q, "St_PosTyp", "St_PreTyp"), r, counts,
                "St_PosTyp", "St_PreTyp")
  ELSE IF c = "St_Dir"
  THEN BestSlot(c, Asked(q, "St_PreDir", "St_PosDir"), r, counts,
                "St_PreDir", "St_PosDir")
  ELSE IF c = "Community" THEN Community(q, r)
  ELSE [field |-> c,
        similarity |-> IF c = "St_Name"
                       THEN Similarity[c, q.says[c], r.street[c]]
                       ELSE AreaLikeness(q, r, c)]

Terms(q, r, counts) == [c \in Concept |-> Compared(q, r, counts, c)]

(* A term weighs what its concept does, by the factor of the very field the*)
(* value was found in.                                                     *)
Weight(t, c, factors) == BaseWeight[c] * factors[t.field]

(* Mutant: a similarity of zero is taken for none. *)
CountsIfAlike(t, c, factors) == t.similarity > 0 /\ Weight(t, c, factors) > 0

(* Mutant: what cannot be compared counts like anything else. *)
CountsAlways(t, c, factors) == Weight(t, c, factors) > 0

(* What cannot be compared leaves the average, and so does a weightless    *)
(* field.                                                                  *)
Counts(t, c, factors) == t.similarity # Null /\ Weight(t, c, factors) > 0

Total(part) ==
  part["St_Name"] + part["St_Type"] + part["St_Dir"] + part["Community"]
    + part["A2"] + part["A1"] + part["Country"]

Possible(ts, factors) ==
  Total([c \in Concept |-> IF Counts(ts[c], c, factors)
                           THEN Whole * Weight(ts[c], c, factors) ELSE 0])

Earned(ts, factors) ==
  Total([c \in Concept |->
           IF Counts(ts[c], c, factors)
           THEN ts[c].similarity * Weight(ts[c], c, factors) ELSE 0])

(* _weighted_average, and the gate after it: another street scores nothing,*)
(* whatever else agrees.                                                   *)
Score(q, r, ts, factors) ==
  [earned   |-> IF NameQualifies[q.says["St_Name"], r.street["St_Name"]]
                THEN Earned(ts, factors) ELSE 0,
   possible |-> Possible(ts, factors)]

(* Where nothing counted the score is 0, and not 100.                      *)
Perfect(s) == s.possible > 0 /\ s.earned = s.possible

-----------------------------------------------------------------------------
NoQuery == [number |-> Null, says |-> [f \in Field |-> Absent]]

(* populate_from_source and field_stats.recompute, for both layers.        *)
Init ==
  /\ layer \in {[l \in LayerOf |-> [i \in DOMAIN rows[l] |->
                                      Record(rows[l][i])]] : rows \in Layers}
  /\ factor = [l \in LayerOf |-> [f \in Field |-> Factor(layer[l], f)]]
  /\ count = [l \in LayerOf |->
                [f \in Field |-> Cardinality(Populated(layer[l], f))]]
  /\ query = NoQuery
  /\ terms = [l \in LayerOf |-> <<>>]
  /\ scores = [l \in LayerOf |-> <<>>]

(* A request: score() of every record, by the tables of its layer.         *)
Ask(q) ==
  /\ query = NoQuery
  /\ query' = q
  /\ terms' = [l \in LayerOf |-> [i \in DOMAIN layer[l] |->
                  Terms(q, layer[l][i], count[l])]]
  /\ scores' = [l \in LayerOf |-> [i \in DOMAIN layer[l] |->
                  Score(q, layer[l][i], terms'[l][i], factor[l])]]
  /\ UNCHANGED <<layer, factor, count>>

Next == \E q \in Queries : Ask(q)

Spec == Init /\ [][Next]_vars

-----------------------------------------------------------------------------
(***************************************************************************)
(* Properties                                                              *)
(***************************************************************************)
(* No score is below 0 or above 100: MatchQuality refuses both with a      *)
(* ValueError no handler expects (scoring.py:1022). Factors are shares.    *)
TypeOK ==
  /\ \A l \in LayerOf : layer[l] \in Seq(Attributes(SidesOf(l)))
  /\ factor \in [LayerOf -> [Field -> 0 .. Grain]]
  /\ count \in [LayerOf -> [Field -> Nat]]
  /\ query = NoQuery \/ query \in Queries
  /\ \A l \in LayerOf : \A i \in DOMAIN scores[l] :
       /\ scores[l][i].possible \in Nat
       /\ scores[l][i].earned \in 0 .. scores[l][i].possible

(* A full score is a full match: what was compared agrees, and what does   *)
(* not agree is weightless. What cannot be compared leaves the average,    *)
(* and a similarity of zero must not leave it with that.                   *)
PerfectOnlyIfAgreed ==
  \A l \in LayerOf : \A i \in DOMAIN scores[l] :
    Perfect(scores[l][i]) =>
      \A c \in Concept : \/ terms[l][i][c].similarity \in {Null, Whole}
                         \/ Weight(terms[l][i][c], c, factor[l]) = 0

(* A field with one value everywhere contributes nothing (field_stats.py): *)
(* whether the query mentions it makes no difference to any record, however*)
(* many of them leave the field out.                                       *)
Constant(l, f) ==
  LET said == {c \in Cells(layer[l], f) : CellSays(layer[l], f, c) # Absent}
  IN  /\ Cardinality(said) >= MinPopulation
      /\ \A c, d \in said : CellSays(layer[l], f, c) = CellSays(layer[l], f, d)

CountedTerms(ts, factors) ==
  {<<c, ts[c]>> : c \in {d \in Concept : Counts(ts[d], d, factors)}}

ConstantFieldsSilent ==
  \A l \in LayerOf, f \in {"A2", "A1", "Country"} : Constant(l, f) =>
    \A i \in DOMAIN scores[l] :
      LET silent == [query EXCEPT !.says[f] = Absent]
      IN  \A ts \in {Terms(silent, layer[l][i], count[l])} :
            CountedTerms(terms[l][i], factor[l]) = CountedTerms(ts, factor[l])

(* Which way a centerline was drawn says nothing about what it matches: a  *)
(* record with left and right exchanged compares the same. Only two towns  *)
(* that are equally alike, but in different fields or worth different      *)
(* things, are decided by the drawing (max() keeps the left one,           *)
(* scoring.py:1172).                                                       *)
OtherSide(s) == IF s = "L" THEN "R" ELSE "L"

Mirrored(r) ==
  [r EXCEPT !.area = [s \in SideOf |-> r.area[OtherSide(s)]],
            !.segment.sides =
              [s \in SideOf |-> r.segment.sides[OtherSide(s)]]]

Unsided(t) == [field |-> t.field, similarity |-> t.similarity]

TownsTie(q, r) ==
  \E one, two \in TownOffers(q, r) :
    one.likeness = two.likeness /\ Unsided(one) # Unsided(two)

DrawingIrrelevant ==
  \A i \in DOMAIN scores["rcl"] :
    LET r == layer["rcl"][i]
    IN  \/ TownsTie(query, r)
        \/ \A ts \in {Terms(query, Mirrored(r), count["rcl"])} :
             \A c \in Concept : Unsided(ts[c]) = Unsided(terms["rcl"][i][c])

(* A house number the data asserts is scored on the side it is placed on:  *)
(* the parity alone, which scoring looks at, and the range with the parity *)
(* after it, by which position.py selects, agree on such a number.         *)
IsAsserted(seg, n) ==
  \E r \in SideRanges(seg) : Contains(r, n) /\ ParityAdmits(r, n)

OddOrEven(seg) == \A s \in SideOf : seg.sides[s].parity \in {"E", "O"}

AssertedScoredWherePlaced ==
  query.number # Null =>
    \A i \in DOMAIN layer["rcl"] :
      LET r == layer["rcl"][i]
      IN  /\ OddOrEven(r.segment) /\ IsAsserted(r.segment, query.number)
          /\ SideHint(query, r) # NoSide
          => SelectSide(r.segment, query.number).side = SideHint(query, r)

-----------------------------------------------------------------------------
(***************************************************************************)
(* What the documentation says, and the code does not keep                 *)
(***************************************************************************)
(* "Two applications of one rule to one set of inputs cannot disagree",    *)
(* and "where the provisioned data is well-formed the two ends agree by    *)
(* construction" (decision 87, scoring.py:905-928): scoring and placing    *)
(* take the same side of a record whose parities agree with its ranges.    *)
WellFormed(seg) ==
  /\ OddOrEven(seg) /\ \A s \in SideOf : Asserts(seg.sides[s])
  /\ \A r \in SideRanges(seg) :
       ParityAdmits(r, r.low) /\ ParityAdmits(r, r.high)

SidesAgree ==
  query.number # Null =>
    \A i \in DOMAIN layer["rcl"] :
      LET r == layer["rcl"][i]
      IN  /\ WellFormed(r.segment)
          /\ SideHint(query, r) # NoSide
          /\ SelectSide(r.segment, query.number) # NoRange
          => SelectSide(r.segment, query.number).side = SideHint(query, r)
=============================================================================
