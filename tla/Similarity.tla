------------------------------ MODULE Similarity -----------------------------
(***************************************************************************)
(* The similarity primitive of src/engine/scoring.py: how alike a word of  *)
(* the query and a word of a record are. A word is the sequence of its     *)
(* characters, and the empty one stands for an element nobody supplied.    *)
(*                                                                         *)
(* A similarity is a whole number from 0 to Same where the code has a      *)
(* float from 0.0 to 1.0; for words of up to six characters none of the    *)
(* quotients below leaves a remainder. Null is "nothing to compare".       *)
(***************************************************************************)
EXTENDS Integers, FiniteSetsExt, SequencesExt

CONSTANT Expansions  \* _TYPE_EXPANSIONS, _DIRECTIONAL_EXPANSIONS: two tables

Same         == 120
QualifyFloor == 60    \* _STREET_ and _COMMUNITY_QUALIFY_MIN_EDIT_SIM
Nothing      == -1    \* None

Blank  == {" "}
Digits == {"0", "1", "2", "3", "4", "5", "6", "7", "8", "9"}

CapitalOf ==
  [a |-> "A", b |-> "B", c |-> "C", d |-> "D", e |-> "E", f |-> "F",
   g |-> "G", h |-> "H", i |-> "I", j |-> "J", k |-> "K", l |-> "L",
   m |-> "M", n |-> "N", o |-> "O", p |-> "P", q |-> "Q", r |-> "R",
   s |-> "S", t |-> "T", u |-> "U", v |-> "V", w |-> "W", x |-> "X",
   y |-> "Y", z |-> "Z"]
Letters == {CapitalOf[c] : c \in DOMAIN CapitalOf}

Upper(c) == IF c \in DOMAIN CapitalOf THEN CapitalOf[c] ELSE c

(* How many characters at the front of a word are of a kind. *)
Leading(w, kind) ==
  Max({n \in 0 .. Len(w) : \A i \in 1 .. n : w[i] \in kind})

From(w, n) == SubSeq(w, n + 1, Len(w))

(* str.strip *)
Strip(w) ==
  SubSeq(w, Leading(w, Blank) + 1, Len(w) - Leading(Reverse(w), Blank))

Capitals(w) == [i \in DOMAIN w |-> Upper(w[i])]

(* _normalize_token: an abbreviation is expanded where it is all there is. *)
Normalize(w, table) ==
  LET token == Capitals(Strip(w))
  IN  IF table \in DOMAIN Expansions /\ token \in DOMAIN Expansions[table]
      THEN Expansions[table][token] ELSE token

-----------------------------------------------------------------------------
(* From here on words are tokens: what Normalize has left of them. *)

(* _edit_distance: how many edits turn the first i characters of one word  *)
(* into the first j of another, from the d of shorter ones. Exchanging two *)
(* adjacent characters is one edit.                                        *)
EditsBetween(a, b, d, i, j) ==
  LET swapped == i > 1 /\ j > 1 /\ a[i] = b[j - 1] /\ a[i - 1] = b[j]
  IN  IF i = 0 \/ j = 0 THEN i + j
      ELSE Min({d[<<i - 1, j>>] + 1, d[<<i, j - 1>>] + 1,
                d[<<i - 1, j - 1>>] + (IF a[i] = b[j] THEN 0 ELSE 1)}
               \union (IF swapped THEN {d[<<i - 2, j - 2>>] + 1} ELSE {}))

EditDistance(a, b) ==
  LET d[p \in (0 .. Len(a)) \X (0 .. Len(b))] ==
        EditsBetween(a, b, d, p[1], p[2])
  IN  d[<<Len(a), Len(b)>>]

EditSimilarity(a, b) ==
  LET longest == Max({Len(a), Len(b)})
  IN  Max({0, (Same * (longest - EditDistance(a, b))) \div longest})

(* _SOUNDEX_CODES; a vowel has none, and neither have Y, H and W. *)
SoundOf(c) ==
  IF c \in {"B", "F", "P", "V"} THEN "1"
  ELSE IF c \in {"C", "G", "J", "K", "Q", "S", "X", "Z"} THEN "2"
  ELSE IF c \in {"D", "T"} THEN "3"
  ELSE IF c = "L" THEN "4"
  ELSE IF c \in {"M", "N"} THEN "5"
  ELSE IF c = "R" THEN "6" ELSE ""

(* _soundex: the first letter and up to three sounds, none of which repeats*)
(* the one before it; H and W do not separate, a vowel does. Without a     *)
(* letter there is no code, and no phonetic opinion.                       *)
Soundex(w) ==
  LET letters == SelectSeq(w, LAMBDA c : c \in Letters)
      heard(acc, c) ==
        IF c \in {"H", "W"} THEN acc
        ELSE [code  |-> IF SoundOf(c) \in {"", acc.sound} THEN acc.code
                        ELSE Append(acc.code, SoundOf(c)),
              sound |-> SoundOf(c)]
      all == FoldLeft(heard, [code  |-> <<Head(letters)>>,
                              sound |-> SoundOf(Head(letters))],
                      Tail(letters))
  IN  IF letters = <<>> THEN <<>>
      ELSE SubSeq(all.code \o <<"0", "0", "0">>, 1, 4)

SoundAlike(a, b) == Soundex(a) # <<>> /\ Soundex(a) = Soundex(b)

(* The blend of two different words: half by edits, half by sound, unless  *)
(* one of them has no letters.                                             *)
Blend(a, b) ==
  IF Soundex(a) = <<>> \/ Soundex(b) = <<>> THEN EditSimilarity(a, b)
  ELSE (EditSimilarity(a, b) + (IF SoundAlike(a, b) THEN Same ELSE 0)) \div 2

(* _normalized_similarity, of two tokens: by the blend, by edits alone, or *)
(* by the binary test of a closed vocabulary.                              *)
BlendSimilarity(a, b) ==
  IF a = <<>> \/ b = <<>> THEN Nothing
  ELSE IF a = b THEN Same ELSE Blend(a, b)

EditsSimilarity(a, b) ==
  IF a = <<>> \/ b = <<>> THEN Nothing ELSE EditSimilarity(a, b)

BinarySimilarity(a, b) ==
  IF a = <<>> \/ b = <<>> THEN Nothing ELSE IF a = b THEN Same ELSE 0

-----------------------------------------------------------------------------
(***************************************************************************)
(* Street and community names, as tokens                                   *)
(***************************************************************************)
DigitLeading(a) == Leading(a, Digits) > 0

(* _digit_leading_split, and int() of the digits: leading zeros drop out.  *)
(* The suffix is a word of its own, so the blanks around it go.            *)
DigitRun(a) == SubSeq(a, 1, Leading(a, Digits))
RunOf(a)    == From(DigitRun(a), Leading(DigitRun(a), {"0"}))
SuffixOf(a) == Strip(From(a, Leading(a, Digits)))

(* _street_name_similarity: where a name begins with digits, those are its *)
(* identity, and only what follows them is compared, by edits alone.       *)
NameSimilarity(a, b) ==
  IF a = <<>> \/ b = <<>> \/ a = b \/ ~(DigitLeading(a) \/ DigitLeading(b))
  THEN BlendSimilarity(a, b)
  ELSE IF ~DigitLeading(a) \/ ~DigitLeading(b) \/ RunOf(a) # RunOf(b) THEN 0
  ELSE EditsSimilarity(SuffixOf(a), SuffixOf(b))

(* _community_qualifies: alike by sound or by edits, or nobody says.       *)
Qualifies(a, b) ==
  \/ a = <<>> \/ b = <<>> \/ a = b
  \/ SoundAlike(a, b)
  \/ EditSimilarity(a, b) >= QualifyFloor

(* Mutant: a name that begins with digits is any other name to the gate.   *)
StreetQualifiesByBlend(a, b) == Qualifies(a, b)

(* _street_name_qualifies: the same test, but a name that begins with      *)
(* digits qualifies by the similarity that is reported.                    *)
StreetQualifies(a, b) ==
  IF a # <<>> /\ b # <<>> /\ (DigitLeading(a) \/ DigitLeading(b))
  THEN NameSimilarity(a, b) \notin 0 .. QualifyFloor - 1
  ELSE Qualifies(a, b)
=============================================================================
