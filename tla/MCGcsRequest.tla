----------------------------- MODULE MCGcsRequest ----------------------------
(* Instances of GcsRequest: one request of every kind, and a second one    *)
(* that it may meet.                                                       *)
EXTENDS GcsRequest

Call1(operation, body) == [operation |-> operation, body |-> body]
Pidf(doc) == [form |-> "XML", xml |-> "valid", document |-> doc]

In(container, children) ==
  [within |-> [k \in Container |-> IF k = container THEN 1 ELSE 0],
   children |-> children]

InBoth(children) ==
  [within |-> [k \in Container |-> IF k = "person" THEN 0 ELSE 1],
   children |-> children]

Civic(elements) == [kind |-> "civic", elements |-> elements]
El(column, text) == [column |-> column, text |-> text]
Main == Civic(<<El("St_Name", <<Letter>>), El("Add_Number", <<1>>)>>)
Shaped(tag, centre, ring) ==
  [kind |-> "geodetic",
   shape |-> [tag |-> tag, centre |-> centre, ring |-> ring,
              measures |-> TRUE]]
Here  == Shaped("Point", "flat", <<>>)
Other == [kind |-> "other"]

Texts == UNION {[1 .. n -> {0, 1, Letter, Separator}] : n \in 1 .. 2}
           \union {<<1, Separator, 0, 1>>, <<Letter, 1, Letter, 1, 0>>,
                   <<0, 1, Letter>>, <<Letter, Separator, 1>>, <<0, 0, 1>>}

Addresses ==
  {<<El("Add_Number", text)>> : text \in Texts}
  \union {<<El(column, <<Letter>>), El("Add_Number", text)>> :
            column \in {"AddNum_Pre", "AddNum_Suf", "AddNum_Cmp"},
            text \in {<<1>>, <<0, 1>>, <<0, Separator, 1>>,
                      <<Letter, 1, Letter>>}}
  \union {<<El("Add_Number", <<1>>), El("Add_Number", <<0>>)>>,
          <<El("Add_Number", <<>>), El("unknown", <<1>>)>>, <<>>}

Children == {<<>>, <<Main>>, <<Here>>, <<Other>>, <<Here, Main>>}

Documents ==
  {<<>>}
  \union {<<In(k, c)>> : k \in Container \union {"none"}, c \in Children}
  \union {<<In(j, <<Main>>), In(k, c)>> :
            j, k \in Container \union {"none"}, c \in {<<Main>>, <<Here>>}}
  \union {<<InBoth(<<Main>>)>>}

Shapes ==
  {Shaped(tag, centre, <<1, 2, 3, 1>>) : tag \in ShapeTag,
                                         centre \in {"flat", "tall"}}
  \union {Shaped("Polygon", "flat", <<1, 2, 1>>),
          Shaped("Point", "short", <<>>)}

Bodies ==
  {Pidf(doc) : doc \in Documents}
  \union {[form |-> form, xml |-> "valid", document |-> <<>>] :
            form \in {"empty", "not UTF-8", "not a string", "neither",
                      "surrogate"}}
  \union {[form |-> "JSON string", xml |-> xml, document |-> doc] :
            xml \in {"malformed", "foreign root"}, doc \in {<<>>}}
  \union {[form |-> "JSON string", xml |-> xml,
           document |-> <<In("tuple", <<Main, Here>>)>>] :
            xml \in {"invalid", "valid"}}

FirstCalls ==
  {Call1(operation, body) : operation \in Strict \union Enhanced,
                            body \in Bodies}
  \union {Call1("GeocodeEnhanced", Pidf(<<In("tuple", <<Civic(e)>>)>>)) :
            e \in Addresses}
  \union {Call1("ReverseGeocode", Pidf(<<In("tuple", <<s>>)>>)) : s \in Shapes}

SecondCalls ==
  {Call1("Geocode", Pidf(<<In("tuple", <<Main>>)>>))}

MCIds   == {1, 2}
MCCalls == [r \in MCIds |-> IF r = 1 THEN FirstCalls ELSE SecondCalls]

MCSettings ==
  {[referral |-> referral, schema |-> schema, enhanced |-> TRUE] :
     referral, schema \in BOOLEAN}
  \union {[referral |-> TRUE, schema |-> TRUE, enhanced |-> FALSE]}

MCEngines ==
  {[forward |-> "nothing", reverse |-> "answer"],
   [forward |-> "answer", reverse |-> "nothing"],
   [forward |-> "spread", reverse |-> "answer"],
   [forward |-> "gapless", reverse |-> "nothing"]}
=============================================================================
