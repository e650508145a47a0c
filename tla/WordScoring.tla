----------------------------- MODULE WordScoring -----------------------------
(***************************************************************************)
(* The forward scorer with the words it really compares: Scoring, where a  *)
(* word is the sequence of its characters, and where similarities and      *)
(* gates are what Similarity measures on their tokens.                     *)
(***************************************************************************)
EXTENDS Scoring

CONSTANT Expansions  \* _TYPE_EXPANSIONS and _DIRECTIONAL_EXPANSIONS

Words == INSTANCE Similarity

TableOf(c) == IF c = "St_Type" THEN "type"
              ELSE IF c = "St_Dir" THEN "direction" ELSE ""

(* The three classes of comparison (scoring.py:37), and street names.      *)
Alike(c, a, b) ==
  IF c = "St_Name" THEN Words!NameSimilarity(a, b)
  ELSE IF c \in {"St_Dir", "A1", "Country"} THEN Words!BinarySimilarity(a, b)
  ELSE Words!BlendSimilarity(a, b)

(* A name of a street or a town has no abbreviations.                      *)
Name(w) == Words!Normalize(w, "")

ASSUME MeasuredAssumption ==
  /\ Whole = Words!Same
  /\ DOMAIN Expansions = {"type", "direction"}
  /\ \A w \in Word : w \in Seq(STRING)
  /\ \A v, w \in Word :
       /\ \A c \in Concept :
            Similarity[c, v, w] = Alike(c, Words!Normalize(v, TableOf(c)),
                                           Words!Normalize(w, TableOf(c)))
       /\ NameQualifies[v, w] = Words!StreetQualifies(Name(v), Name(w))
       /\ TownQualifies[v, w] = Words!Qualifies(Name(v), Name(w))

-----------------------------------------------------------------------------
(***************************************************************************)
(* Properties                                                              *)
(***************************************************************************)
(* Half of the likeness of two words is by sound, where both have a letter *)
(* to sound, and none of it where either has not (scoring.py:676): the two *)
(* scales are not comparable, and the code promises nothing across them.   *)
Sounds(w) == Words!Soundex(Name(w)) # <<>>
OneScale(asked, words) == Sounds(asked) => \A w \in words : Sounds(w)

(* The cap never falls on the wrong side of the road: where either side    *)
(* is in a town that qualifies, the side that is compared is. The side is  *)
(* chosen by the uncapped likeness (scoring.py:1224), which knows nothing  *)
(* of qualifying.                                                          *)
QualifyingSideWins ==
  \A i \in DOMAIN scores["rcl"] :
    LET r       == layer["rcl"][i]
        offers  == {t \in TownOffers(query, r) : t.likeness # Null}
        town(t) == r.area[t.side][t.field]
        alike   == {t \in offers : TownQualifies[TownAsked(query), town(t)]}
    IN  /\ OneScale(TownAsked(query), {town(t) : t \in offers})
        /\ alike # {}
        => terms["rcl"][i]["Community"] \in alike

(* A record the gate throws out never reports a street name more alike than*)
(* one the gate keeps: gate and report are two computations of the same    *)
(* comparison, which used to disagree on names that begin with digits      *)
(* (decision 73, scoring.py:702). Where a name begins with digits, sound   *)
(* has no part in it.                                                      *)
GateFollowsReport ==
  \A l \in LayerOf : \A i, j \in DOMAIN scores[l] :
    LET asked   == query.says["St_Name"]
        name(k) == layer[l][k].street["St_Name"]
        like(k) == terms[l][k]["St_Name"].similarity
        gate(k) == NameQualifies[asked, name(k)]
        scale   == \/ OneScale(asked, {name(i)})
                   \/ \E w \in {asked, name(i)} : Words!DigitLeading(Name(w))
    IN  /\ like(i) # Null /\ like(j) # Null /\ scale
        /\ ~gate(i) /\ gate(j)
        => like(i) < like(j)
=============================================================================
