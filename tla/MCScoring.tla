------------------------------- MODULE MCScoring ------------------------------
(* Instances of WordScoring, over words of a few characters. Grain is       *)
(* divisible by every number of observations that occurs, so that factors   *)
(* are exact.                                                               *)
EXTENDS WordScoring, TLC

MCExpansions ==
  [type |-> (<<"C", "T">> :> <<"C", "O", "U", "R", "T">>
             @@ <<"P", "T">> :> <<"P", "O", "I", "N", "T">>),
   direction |-> (<<"N">> :> <<"N", "O", "R", "T", "H">>
                  @@ <<"S">> :> <<"S", "O", "U", "T", "H">>)]

None == <<>>

Elm  == <<"E", "L", "M">>
Padded == <<" ", "e", "l", "m", " ">>
Names == {Elm, <<"E", "M", "L">>, <<"H", "E", "L", "M">>, <<"A", "L", "M">>,
          <<"A", "S", "H">>, <<"1", "S", "T">>, <<"0", "1", "T", "S">>,
          <<"1", "1", "S", "T">>, <<"1">>}

Fargo  == <<"F", "A", "R", "G", "O">>
Ferga  == <<"F", "I", "R", "G", "U">>
Margo  == <<"M", "A", "R", "G", "O">>
Minot  == <<"M", "I", "N", "O", "T">>
Towns  == {Fargo, Ferga, Margo, Minot}

Cass == <<"C", "A", "S", "S">>
Ward == <<"W", "A", "R", "D">>
Ct   == <<"c", "t">>
Pt   == <<"P", "T">>
Court == MCExpansions.type[<<"C", "T">>]
North == <<"N">>
South == <<"S", "O", "U", "T", "H">>
Codes == {<<"N", "D">>, <<"S", "D">>, <<"N", "D", " ">>, <<" ">>}

MCWord == {None, Padded, <<"e", "l", "m">>, Ct, Pt, Court, North, South,
           Cass, Ward}
            \union Names \union Towns \union Codes

TheOne(set) == CHOOSE x \in set : TRUE

(* TLC keeps the value of these, but not of what replaces a constant. *)
Tabulated(f) == f @@ <<>>

Similarities == Tabulated(
  [c \in Concept, v \in MCWord, w \in MCWord |->
     TheOne({Alike(c, a, b) : a \in {Words!Normalize(v, TableOf(c))},
                              b \in {Words!Normalize(w, TableOf(c))}})])

StreetGate == Tabulated(
  [v \in MCWord, w \in MCWord |->
     TheOne({Words!StreetQualifies(a, b) : a \in {Words!Normalize(v, "")},
                                         b \in {Words!Normalize(w, "")}})])

TownGate == Tabulated(
  [v \in MCWord, w \in MCWord |->
     TheOne({Words!Qualifies(a, b) : a \in {Words!Normalize(v, "")},
                                     b \in {Words!Normalize(w, "")}})])

MCSimilarity    == Similarities
MCNameQualifies == StreetGate
MCTownQualifies == TownGate
MCClean == [w \in MCWord |-> Words!Strip(w)]

-----------------------------------------------------------------------------
Silent(fields) == [f \in fields |-> None]
Side(from, to, parity) == [from |-> from, to |-> to, parity |-> parity]

Street(left, right) ==
  [sides |-> [s \in SideOf |-> IF s = "L" THEN left ELSE right],
   length |-> 8, multipart |-> FALSE]
NoRanges == Street(Side(Null, Null, "B"), Side(Null, Null, "B"))

Point(street, area) ==
  [street |-> street @@ Silent(StreetField),
   area |-> "own" :> (area @@ Silent(AreaField)), segment |-> NoRanges]

Road(street, left, right, segment) ==
  [street |-> street @@ Silent(StreetField),
   area |-> "L" :> (left @@ Silent(AreaField))
            @@ "R" :> (right @@ Silent(AreaField)),
   segment |-> segment]

On(name) == "St_Name" :> name

(* Two names on one layer. *)
NameLayers ==
  {[ssap |-> <<Point(On(v), Silent({})), Point(On(w), Silent({})),
               Point(On(Elm), Silent({}))>>, rcl |-> <<>>] :
     v \in Names \union {Padded}, w \in Names}

(* The two sides of a road in towns of their own, or in a field of theirs. *)
TownOf == {f :> t : f \in {"A3", "Post_Comm"}, t \in Towns}
            \union {("A4" :> Fargo) @@ ("Post_Comm" :> Minot), Silent({})}

Parities == {NoRanges, Street(Side(1, 5, "O"), Side(2, 6, "E")),
             Street(Side(Null, Null, "E"), Side(2, 6, "E"))}

TownLayers ==
  {[ssap |-> <<>>, rcl |-> <<Road(On(Elm), a, b, p),
                             Road(On(Elm), "A3" :> Fargo, a, NoRanges)>>] :
     a \in TownOf, b \in TownOf, p \in Parities}

(* Type and direction before the name or after it, on more or on fewer     *)
(* records than the other place.                                           *)
Slots == {f :> w : f \in {"St_PreTyp", "St_PosTyp"}, w \in {Ct, Court, Pt}}
           \union {f :> w : f \in {"St_PreDir", "St_PosDir"},
                            w \in {North, South}}

SlotLayers ==
  {[ssap |-> <<Point(a @@ b @@ On(Elm), Silent({})),
               Point(a @@ On(Elm), Silent({})),
               Point("St_PreTyp" :> Pt, Silent({}))>>, rcl |-> <<>>] :
     a \in Slots, b \in Slots}

(* States and counties that say much, little, or nothing new. *)
CodeLayers ==
  {[ssap |-> <<Point(On(Elm), "A1" :> a), Point(On(Elm), "A1" :> b),
               Point(On(Elm), Silent({}))>>,
    rcl  |-> <<Road(On(Elm), "A1" :> a, "A1" :> b, NoRanges),
               Road(On(Elm), "A1" :> a, ("A2" :> Cass), NoRanges)>>] :
     a \in Codes, b \in Codes}

(* The sides of a road in different counties, told apart by the number. *)
Ranges == {Side(1, 5, "O"), Side(2, 6, "E"), Side(9, 11, "O"),
           Side(8, 12, "E"), Side(5, 1, "E"), Side(Null, Null, "O"),
           Side(1, 6, "B"), Side(2, 6, "Z")}

RangeLayers ==
  {[ssap |-> <<>>, rcl |-> <<Road(On(Elm), "A2" :> Cass, "A2" :> Ward,
                                  Street(a, b))>>] :
     a \in Ranges, b \in Ranges}

MCLayers ==
  NameLayers \union TownLayers \union SlotLayers \union CodeLayers
    \union RangeLayers

Query(number, says) == [number |-> number, says |-> says @@ Silent(Field)]

MCQueries ==
  {Query(1, On(v)) : v \in Names \union {None}}
  \union {Query(n, ("A3" :> t) @@ On(Elm)) : n \in {Null, 2}, t \in Towns}
  \union {Query(3, ("Post_Comm" :> Fargo) @@ ("A4" :> Minot))}
  \union {Query(n, a @@ ("A1" :> <<"N", "D">>) @@ On(Elm)) :
            n \in {Null}, a \in Slots}
  \union {Query(n, ("A2" :> Cass) @@ ("A1" :> <<"S", "D">>)) :
            n \in {Null, 3, 4, 9}}
=============================================================================
