------------------------------ MODULE Admission ------------------------------
(***************************************************************************)
(* What a request document says, and whether it is admitted: the body, the *)
(* election of one location by RFC 5491 Rule #8 and the chunk within it    *)
(* (src/api/admission.py), the civic address with its number taken apart   *)
(* (src/api/wire/civic_xml.py), and whether a geodetic shape can be read   *)
(* (src/api/wire/gml_xml.py).                                              *)
(*                                                                         *)
(* A document is the sequence of its <location-info> elements in document  *)
(* order, each with how many containers of each kind enclose it. A text is *)
(* a sequence of characters: 0 to 9, any other letter or numeral, or a     *)
(* separator.                                                              *)
(***************************************************************************)
EXTENDS Integers, FiniteSetsExt, SequencesExt

Null      == -1
Letter    == 10
Separator == -1

Character == Separator .. Letter
Text      == Seq(Character)
NoText    == <<>>

IsDigit(c) == c \in 0 .. 9

-----------------------------------------------------------------------------
(***************************************************************************)
(* Address numbers                                                         *)
(***************************************************************************)
(* _strip_separators; nothing left is an absent element. *)
StripSeparators(text) ==
  FoldLeft(LAMBDA kept, c : IF c = Separator THEN kept ELSE Append(kept, c),
           NoText, text)

Digits(text) == {i \in DOMAIN text : IsDigit(text[i])}

Value(digits) == FoldLeft(LAMBDA n, d : 10 * n + d, 0, digits)

(* What str(number) gives: digits, and no leading zeros. *)
IsPlain(text) == /\ Digits(text) = DOMAIN text
                 /\ Len(text) = 1 \/ text[1] # 0

NoNumber == [number |-> Null]

(* Mutant: the first run of digits is the number. *)
DecomposeFirst(text) ==
  LET first == Min(Digits(text))
      last  == Max({i \in first .. Len(text) :
                      \A j \in first .. i : IsDigit(text[j])})
  IN  IF Digits(text) = {} THEN NoNumber
      ELSE [number   |-> Value(SubSeq(text, first, last)),
            prefix   |-> StripSeparators(SubSeq(text, 1, first - 1)),
            suffix   |-> StripSeparators(SubSeq(text, last + 1, Len(text))),
            complete |-> IF IsPlain(text) THEN NoText ELSE text]

(* decompose: the last run of digits is the number, what is before it the  *)
(* prefix and what is after it the suffix.                                 *)
Decompose(text) ==
  LET last  == Max(Digits(text))
      first == Min({i \in 1 .. last : \A j \in i .. last : IsDigit(text[j])})
  IN  IF Digits(text) = {} THEN NoNumber
      ELSE [number   |-> Value(SubSeq(text, first, last)),
            prefix   |-> StripSeparators(SubSeq(text, 1, first - 1)),
            suffix   |-> StripSeparators(SubSeq(text, last + 1, Len(text))),
            complete |-> IF IsPlain(text) THEN NoText ELSE text]

-----------------------------------------------------------------------------
(***************************************************************************)
(* Civic addresses                                                         *)
(***************************************************************************)
(* St_Name stands for every column that is read as it is, "unknown" for    *)
(* the elements that have no column.                                       *)
Column  == {"Add_Number", "AddNum_Pre", "AddNum_Suf", "AddNum_Cmp", "St_Name",
            "unknown"}
Element == [column : Column, text : Text]

(* The text of a column: the last of its elements that is not empty. *)
Given(elements, column) ==
  LET of == {i \in DOMAIN elements : /\ elements[i].column = column
                                     /\ elements[i].text # NoText}
  IN  IF of = {} THEN NoText ELSE elements[Max(of)].text

Or(text, default) == IF text # NoText THEN text ELSE default

CivicOf(elements, parts) ==
  [Add_Number |-> parts.number,
   AddNum_Pre |-> Or(Given(elements, "AddNum_Pre"), parts.prefix),
   AddNum_Suf |-> Or(Given(elements, "AddNum_Suf"), parts.suffix),
   AddNum_Cmp |-> Or(Given(elements, "AddNum_Cmp"), parts.complete),
   St_Name    |-> Given(elements, "St_Name")]

WithoutNumber ==
  [number |-> Null, prefix |-> NoText, suffix |-> NoText, complete |-> NoText]

(* Mutant: the number is taken apart where it stands, and what was inferred *)
(* from it replaces what came before.                                       *)
ParseInPlace(elements) ==
  LET text  == Given(elements, "Add_Number")
      parts == Decompose(text)
      at    == Max({0} \union {i \in DOMAIN elements :
                                 elements[i].column = "Add_Number"})
      later == SubSeq(elements, at + 1, Len(elements))
      civic == CivicOf(elements, IF parts = NoNumber THEN WithoutNumber
                                 ELSE parts)
  IN  [civic   |-> IF parts = NoNumber \/ parts.prefix = NoText THEN civic
                   ELSE [civic EXCEPT !.AddNum_Pre =
                           Or(Given(later, "AddNum_Pre"), parts.prefix)],
       dropped |-> text # NoText /\ parts = NoNumber]

(* parse: the number is taken apart once every element was read, and what  *)
(* the caller sent wins over what is inferred. A number without any digit  *)
(* is dropped.                                                             *)
ParseCivic(elements) ==
  LET text  == Given(elements, "Add_Number")
      parts == Decompose(text)
  IN  [civic   |-> CivicOf(elements, IF parts = NoNumber THEN WithoutNumber
                                     ELSE parts),
       dropped |-> text # NoText /\ parts = NoNumber]

-----------------------------------------------------------------------------
(***************************************************************************)
(* Geodetic shapes                                                         *)
(***************************************************************************)
(* centre is what the position, or the ring, is like: how many ordinates   *)
(* it has, or that it is absent or not numeric. measures is whether every  *)
(* length and angle of the shape is a number.                              *)
ShapeTag == {"Point", "Polygon", "Circle", "Ellipse", "ArcBand", "Sphere",
             "Ellipsoid", "Prism", "LineString"}
ShapeXml == [tag : ShapeTag, measures : BOOLEAN, ring : Seq(Nat),
             centre : {"absent", "garbled", "short", "flat", "tall"}]

(* _ring_vertices: a vertex that closes the ring is dropped, of the rest   *)
(* there are three.                                                        *)
RingReadable(ring) ==
  LET closed == Len(ring) > 1 /\ ring[1] = ring[Len(ring)]
  IN  Len(ring) - (IF closed THEN 1 ELSE 0) >= 3

(* parse_shape succeeds: a solid needs a height. *)
Readable(s) ==
  /\ s.tag # "LineString"
  /\ s.centre \in IF s.tag \in {"Sphere", "Ellipsoid", "Prism"} THEN {"tall"}
                  ELSE {"flat", "tall"}
  /\ s.tag \notin {"Point", "Polygon"} => s.measures
  /\ s.tag \in {"Polygon", "Prism"} => RingReadable(s.ring)

-----------------------------------------------------------------------------
(***************************************************************************)
(* Documents                                                               *)
(***************************************************************************)
Profile   == {"civic", "geodetic"}
Container == {"device", "tuple", "person"}

Child == [kind : {"civic"}, elements : Seq(Element)]
           \union [kind : {"geodetic"}, shape : ShapeXml]
           \union [kind : {"other"}]

Location == [within : [Container -> Nat], children : Seq(Child)]

(* document is absent, as an empty sequence is, of what is no PIDF-LO. In  *)
(* "surrogate", a JSON string escapes half a character: it decodes to a    *)
(* text that cannot be encoded for the parser, which nothing catches.      *)
Body == [form : {"empty", "not UTF-8", "JSON string", "not a string", "XML",
                 "neither", "surrogate"},
         xml  : {"malformed", "foreign root", "invalid", "valid"},
         document : Seq(Location)]

(* _locations_in: an empty <location-info> carries no location. *)
Carrying(doc) == {i \in DOMAIN doc : doc[i].children # <<>>}

LocationsIn(doc, container) ==
  {i \in Carrying(doc) : doc[i].within[container] > 0}

Loose(doc) == {i \in Carrying(doc) : \A k \in Container : doc[i].within[k] = 0}

(* Mutant: the locations of the elected kind of container are counted. *)
LocationCountOfKind(doc) ==
  IF LocationsIn(doc, "device") # {}
  THEN Cardinality(LocationsIn(doc, "device"))
  ELSE Cardinality(Carrying(doc))

(* A location is counted once for every container around it. *)
LocationCount(doc) ==
  LET around == UNION {{<<i, k>>} \X (1 .. doc[i].within[k]) :
                         i \in Carrying(doc), k \in Container}
  IN  Cardinality(Loose(doc)) + Cardinality(around)

NoLocation == 0

(* Mutant: the first location of the document, whatever it is in. *)
ElectFirst(doc) ==
  IF Carrying(doc) = {} THEN NoLocation ELSE Min(Carrying(doc))

(* elect_location *)
ElectLocation(doc) ==
  IF LocationsIn(doc, "device") # {} THEN Min(LocationsIn(doc, "device"))
  ELSE IF LocationsIn(doc, "tuple") # {} THEN Min(LocationsIn(doc, "tuple"))
  ELSE IF LocationsIn(doc, "person") # {} THEN Min(LocationsIn(doc, "person"))
  ELSE IF Loose(doc) # {} THEN Min(Loose(doc))
  ELSE NoLocation

(* _find_chunk: the first child of the profile, or Null. *)
FindChunk(location, profile) ==
  LET of == {i \in DOMAIN location.children :
               location.children[i].kind = profile}
  IN  IF of = {} THEN Null ELSE Min(of)

(* decode_body, and then parse_and_validate; without a compiled schema the *)
(* document is taken as it is.                                             *)
WellFormed(body, schema) ==
  /\ body.form \in {"JSON string", "XML"}
  /\ body.xml = "valid" \/ (body.xml = "invalid" /\ ~schema)

Rejected(status) == [status |-> status]

(* admit *)
Admit(body, profile, schema) ==
  LET elected == ElectLocation(body.document)
      chunk   == FindChunk(body.document[elected], profile)
  IN  IF body.form = "surrogate" THEN Rejected(500)
      ELSE IF ~WellFormed(body, schema) THEN Rejected(454)
      ELSE IF elected = NoLocation THEN Rejected(468)
      ELSE IF chunk = Null THEN Rejected(468)
      ELSE [status |-> 200, elected |-> elected,
            chunk  |-> body.document[elected].children[chunk],
            count  |-> LocationCount(body.document)]
=============================================================================
