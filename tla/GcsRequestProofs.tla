-------------------------- MODULE GcsRequestProofs --------------------------
(***************************************************************************)
(* Proofs about GcsRequest, for every document, schema, setting and state  *)
(* of the data: what was answered is what Respond says of the request and  *)
(* of the data it met, and the log holds what Log says of it.              *)
(***************************************************************************)
EXTENDS GcsRequest, FiniteSetTheorems, FunctionTheorems, SequenceTheorems,
        WellFoundedInduction, TLAPS

-----------------------------------------------------------------------------
(***************************************************************************)
(* First elements                                                          *)
(***************************************************************************)
(* A set of positions that is not empty has a first one. *)
LEMMA MinIsFirst ==
  ASSUME NEW S \in SUBSET Nat, S # {}
  PROVE  Min(S) \in S /\ \A i \in S : Min(S) <= i
<1>1. PICK x \in S : \A y \in S : ~(<<y, x>> \in OpToRel(<, Nat))
  BY NatLessThanWellFounded, WFMin
<1>2. \A y \in S : ~(y < x)
  BY <1>1 DEF OpToRel
<1>3. \A y \in S : x <= y
  BY <1>2
<1> QED  BY <1>1, <1>3 DEF Min

(* The last position of one is that one. *)
LEMMA MaxOfOne ==
  ASSUME NEW i \in Int
  PROVE  Max({i}) = i
BY DEF Max

-----------------------------------------------------------------------------
(***************************************************************************)
(* Election                                                                *)
(***************************************************************************)
(* The locations of a document, and what encloses them. *)
LEMMA LocationFacts ==
  ASSUME NEW doc \in Seq(Location)
  PROVE  /\ Carrying(doc) \subseteq 1 .. Len(doc)
         /\ Carrying(doc) \subseteq Nat \ {0}
         /\ \A k \in Container : LocationsIn(doc, k) \subseteq Carrying(doc)
         /\ Loose(doc) \subseteq Carrying(doc)
         /\ \A i \in Carrying(doc) : /\ doc[i] \in Location
                                     /\ \A k \in Container :
                                          doc[i].within[k] \in Nat
<1>1. DOMAIN doc = 1 .. Len(doc)
  OBVIOUS
<1>2. Carrying(doc) \subseteq 1 .. Len(doc)
  BY <1>1 DEF Carrying
<1>3. \A i \in Carrying(doc) : doc[i] \in Location
  BY <1>2
<1>4. \A i \in Carrying(doc) : \A k \in Container : doc[i].within[k] \in Nat
  BY <1>3 DEF Location
<1> QED  BY <1>2, <1>3, <1>4 DEF LocationsIn, Loose

(* The location elected is the first of the best rank, and there is one if *)
(* the document has any.                                                   *)
LEMMA ElectedIsFirst ==
  ASSUME NEW doc \in Seq(Location), ElectLocation(doc) # NoLocation
  PROVE  /\ ElectLocation(doc) \in Carrying(doc)
         /\ \A i \in Carrying(doc) \ {ElectLocation(doc)} :
              \/ Rank(doc[ElectLocation(doc)]) < Rank(doc[i])
              \/ /\ Rank(doc[ElectLocation(doc)]) = Rank(doc[i])
                 /\ ElectLocation(doc) < i
<1> DEFINE from == ElectLocation(doc)
           Of(n) == {i \in Carrying(doc) : Rank(doc[i]) = n}
<1>1. \A i \in Carrying(doc) :
        /\ i \in Nat
        /\ doc[i].within["device"] \in Nat /\ doc[i].within["tuple"] \in Nat
        /\ doc[i].within["person"] \in Nat
  BY LocationFacts DEF Container
<1>2. /\ LocationsIn(doc, "device") = Of(1)
      /\ Of(1) = {} => LocationsIn(doc, "tuple") = Of(2)
      /\ Of(1) = {} /\ Of(2) = {} => LocationsIn(doc, "person") = Of(3)
  BY <1>1 DEF LocationsIn, Rank
<1>3. Loose(doc) = Of(4)
  BY <1>1 DEF Loose, Rank, Container
<1>4. \A i \in Carrying(doc) : Rank(doc[i]) \in 1 .. 4
  BY DEF Rank
<1>5. /\ Of(1) # {} => from = Min(Of(1))
      /\ Of(1) = {} /\ Of(2) # {} => from = Min(Of(2))
      /\ Of(1) = {} /\ Of(2) = {} /\ Of(3) # {} => from = Min(Of(3))
      /\ Of(1) = {} /\ Of(2) = {} /\ Of(3) = {} =>
           Of(4) # {} /\ from = Min(Of(4))
  <2> HIDE DEF Of
  <2> QED  BY <1>2, <1>3 DEF ElectLocation
<1>6. \E n \in 1 .. 4 : /\ Of(n) # {} /\ from = Min(Of(n))
                       /\ \A m \in 1 .. 4 : m < n => Of(m) = {}
  <2> HIDE DEF Of, from
  <2>1. CASE Of(1) # {}
    BY <1>5, <2>1
  <2>2. CASE Of(1) = {} /\ Of(2) # {}
    <3>1. \A m \in 1 .. 4 : m < 2 => Of(m) = {}
      BY <2>2
    <3> QED  BY <1>5, <2>2, <3>1
  <2>3. CASE Of(1) = {} /\ Of(2) = {} /\ Of(3) # {}
    <3>1. \A m \in 1 .. 4 : m < 3 => m = 1 \/ m = 2
      OBVIOUS
    <3> QED  BY <1>5, <2>3, <3>1
  <2>4. CASE Of(1) = {} /\ Of(2) = {} /\ Of(3) = {}
    <3>1. \A m \in 1 .. 4 : m < 4 => m = 1 \/ m = 2 \/ m = 3
      OBVIOUS
    <3> QED  BY <1>5, <2>4, <3>1
  <2> QED  BY <2>1, <2>2, <2>3, <2>4
<1>7. PICK n \in 1 .. 4 : /\ Of(n) # {} /\ from = Min(Of(n))
                         /\ \A m \in 1 .. 4 : m < n => Of(m) = {}
  BY <1>6
<1>8. Of(n) \subseteq Nat
  BY <1>1
<1>9. from \in Of(n) /\ \A i \in Of(n) : from <= i
  BY <1>7, <1>8, MinIsFirst
<1>10. ASSUME NEW i \in Carrying(doc) \ {from}
      PROVE  \/ Rank(doc[from]) < Rank(doc[i])
             \/ Rank(doc[from]) = Rank(doc[i]) /\ from < i
  <2>1. Rank(doc[from]) = n /\ from \in Nat /\ i \in Nat
    BY <1>1, <1>9
  <2>2. CASE Rank(doc[i]) = n
    BY <1>9, <2>1, <2>2
  <2>3. CASE Rank(doc[i]) # n
    <3>1. ~(Rank(doc[i]) < n)
      BY <1>4, <1>7
    <3> QED  BY <1>4, <2>1, <2>3, <3>1
  <2> QED  BY <2>2, <2>3
<1> QED  BY <1>9, <1>10

(* A chunk that was found is one of the profile. *)
LEMMA ChunkIsOfProfile ==
  ASSUME NEW location \in Location, NEW profile,
         FindChunk(location, profile) # Null
  PROVE  /\ FindChunk(location, profile) \in DOMAIN location.children
         /\ location.children[FindChunk(location, profile)].kind = profile
<1> DEFINE of == {i \in DOMAIN location.children :
                    location.children[i].kind = profile}
<1>1. location.children \in Seq(Child)
  BY DEF Location
<1>2. of \subseteq Nat
  BY <1>1
<1>3. of # {} /\ FindChunk(location, profile) = Min(of)
  BY DEF FindChunk
<1>4. Min(of) \in of
  BY <1>2, <1>3, MinIsFirst
<1> QED  BY <1>3, <1>4

(* What admission lets through. *)
LEMMA AdmittedFacts ==
  ASSUME NEW body \in Body, NEW profile, NEW schema \in BOOLEAN
  PROVE  LET admitted == Admit(body, profile, schema)
             doc      == body.document
             from     == ElectLocation(doc)
         IN  /\ admitted.status \in {200, 454, 468, 500}
             /\ admitted.status = 200 =>
                  /\ admitted.elected = from /\ from # NoLocation
                  /\ from \in Carrying(doc) /\ doc[from] \in Location
                  /\ FindChunk(doc[from], profile) # Null
                  /\ admitted.chunk =
                       doc[from].children[FindChunk(doc[from], profile)]
                  /\ admitted.count = LocationCount(doc)
<1> DEFINE doc == body.document
           from == ElectLocation(doc)
<1>1. doc \in Seq(Location)
  BY DEF Body
<1>2. from # NoLocation => from \in Carrying(doc) /\ doc[from] \in Location
  BY <1>1, ElectedIsFirst, LocationFacts
<1> HIDE DEF from
<1> QED  BY <1>2 DEF Admit, Rejected, from

-----------------------------------------------------------------------------
(***************************************************************************)
(* Replies                                                                 *)
(***************************************************************************)
Statuses == {200, 307, 454, 468, 500}

(* A reply without an answer. *)
LEMMA RefusalFacts ==
  ASSUME NEW set
  PROVE  /\ NoResult(set).status \in {307, 468}
         /\ Raised.status = 500 /\ Without(454).status = 454
         /\ \A status : Failure(status, set).status \in {307, 454, 468}
BY DEF NoResult, Raised, Without, Failure

(* The reply is one of five, and a conversion answered with 200 is one of  *)
(* the location elected, in full.                                          *)
LEMMA RespondFacts ==
  ASSUME NEW operation \in Strict \union Enhanced, NEW body \in Body,
         NEW eng \in Engine, NEW set \in Setting
  PROVE  LET reply    == Respond(operation, body, eng, set)
             admitted == Admit(body, Profiled(operation), set.schema)
         IN  /\ reply.status \in Statuses
             /\ reply.status = 500 => reply = Raised
             /\ reply.status = 200 =>
                  /\ admitted.status = 200
                  /\ reply =
                       Success(operation, admitted,
                         operation \in Forward
                           /\ ParseCivic(admitted.chunk.elements).dropped)
<1> DEFINE admitted == Admit(body, Profiled(operation), set.schema)
           reply == Respond(operation, body, eng, set)
           dropped == ParseCivic(admitted.chunk.elements).dropped
<1>1. set.schema \in BOOLEAN
  BY DEF Setting
<1>2. admitted.status \in {200, 454, 468, 500}
  BY <1>1, AdmittedFacts
<1>3. \A f : Success(operation, admitted, f).status = 200
  BY DEF Success
<1> HIDE DEF admitted, dropped
<1>4. CASE admitted.status # 200
  <2>1. reply \in {Raised, Failure(admitted.status, set)}
    BY <1>2, <1>4 DEF Respond, admitted
  <2> QED  BY <1>4, <2>1, RefusalFacts DEF Statuses
<1>5. CASE admitted.status = 200 /\ operation \in Forward
  <2>1. reply = ConvertForward(operation, admitted, eng.forward, set)
    BY <1>5 DEF Respond, admitted
  <2>2. reply \in {NoResult(set), Raised,
                   Success(operation, admitted, dropped)}
    BY <2>1 DEF ConvertForward, dropped
  <2>3. dropped \in BOOLEAN
    BY DEF dropped, ParseCivic
  <2>4. (operation \in Forward /\ dropped) = dropped
    BY <1>5, <2>3
  <2> QED  BY <1>3, <1>5, <2>2, <2>4, RefusalFacts
             DEF Statuses, admitted, dropped
<1>6. CASE admitted.status = 200 /\ operation \notin Forward
  <2>1. reply = ConvertReverse(operation, admitted, eng.reverse, set)
    BY <1>6 DEF Respond, admitted
  <2>2. reply \in {Without(454), NoResult(set),
                   Success(operation, admitted, FALSE)}
    BY <2>1 DEF ConvertReverse
  <2>3. (operation \in Forward /\ dropped) = FALSE
    BY <1>6
  <2>4. reply \in {Without(454), NoResult(set),
                   Success(operation, admitted,
                           operation \in Forward /\ dropped)}
    BY <2>2, <2>3, Zenon
  <2> HIDE DEF reply
  <2>5. /\ reply.status \in Statuses /\ reply.status # 500
        /\ reply.status = 200 =>
             reply = Success(operation, admitted,
                             operation \in Forward /\ dropped)
    BY <1>3, <2>4, RefusalFacts DEF Statuses
  <2> QED  BY <1>6, <2>5, Zenon DEF reply, admitted, dropped
<1> QED  BY <1>4, <1>5, <1>6

-----------------------------------------------------------------------------
(***************************************************************************)
(* The two interfaces                                                      *)
(***************************************************************************)
(* Every resource has one sibling: the other interface, the same way.      *)
LEMMA SiblingFacts ==
  ASSUME NEW operation \in Strict \union Enhanced
  PROVE  /\ Sibling(operation) \in Strict \union Enhanced
         /\ Profiled(Sibling(operation)) = Profiled(operation)
         /\ Sibling(operation) \in Forward <=> operation \in Forward
         /\ Sibling(operation) \in Strict <=> operation \notin Strict
<1>1. \E other \in Strict \union Enhanced :
        Profiled(other) = Profiled(operation) /\ other # operation
  <2>1. CASE operation = "Geocode"
    BY <2>1 DEF Profiled, Forward, Strict, Enhanced
  <2>2. CASE operation = "GeocodeEnhanced"
    BY <2>2 DEF Profiled, Forward, Strict, Enhanced
  <2>3. CASE operation = "ReverseGeocode"
    BY <2>3 DEF Profiled, Forward, Strict, Enhanced
  <2>4. CASE operation = "ReverseGeocodeEnhanced"
    BY <2>4 DEF Profiled, Forward, Strict, Enhanced
  <2> QED  BY <2>1, <2>2, <2>3, <2>4 DEF Strict, Enhanced
<1> DEFINE other == Sibling(operation)
<1>2. /\ other \in Strict \union Enhanced
      /\ Profiled(other) = Profiled(operation) /\ other # operation
  BY <1>1 DEF Sibling
<1> HIDE DEF other
<1>3. other \in Forward <=> operation \in Forward
  BY <1>2 DEF Profiled
<1>4. other \in Strict <=> operation \notin Strict
  BY <1>2, <1>3 DEF Forward, Strict, Enhanced
<1> QED  BY <1>2, <1>3, <1>4 DEF other

(* Two resources that convert the same way differ in their status only if  *)
(* one of them is strict and the forward answers do not settle on one.     *)
LEMMA SameWaySameStatus ==
  ASSUME NEW one \in Strict, NEW two \in Enhanced,
         Profiled(one) = Profiled(two),
         NEW body \in Body, NEW eng \in Engine, NEW set \in Setting
  PROVE  LET strict == Respond(one, body, eng, set).status
             rich   == Respond(two, body, eng, set).status
         IN  strict # rich => /\ one \in Forward
                              /\ eng.forward \in {"spread", "gapless"}
                              /\ rich = 200 /\ strict \in {307, 468, 500}
<1> DEFINE admitted == Admit(body, Profiled(one), set.schema)
           strict == Respond(one, body, eng, set)
           rich   == Respond(two, body, eng, set)
<1>1. one \in Forward <=> two \in Forward
  BY DEF Profiled
<1>2. two \notin Strict
  BY DEF Strict, Enhanced
<1>3. \A o, f : Success(o, admitted, f).status = 200
  BY DEF Success
<1> HIDE DEF admitted
<1>4. CASE admitted.status # 200
  BY <1>4 DEF Respond, admitted
<1>5. CASE admitted.status = 200 /\ one \notin Forward
  <2>1. /\ strict = ConvertReverse(one, admitted, eng.reverse, set)
        /\ rich = ConvertReverse(two, admitted, eng.reverse, set)
    BY <1>1, <1>5 DEF Respond, admitted
  <2> HIDE DEF strict, rich
  <2>2. strict.status = rich.status
    <3>1. CASE ~Readable(admitted.chunk.shape) \/ eng.reverse = "nothing"
      BY <2>1, <3>1 DEF ConvertReverse
    <3>2. CASE Readable(admitted.chunk.shape) /\ eng.reverse # "nothing"
      <4>1. /\ strict = Success(one, admitted, FALSE)
            /\ rich = Success(two, admitted, FALSE)
        BY <2>1, <3>2 DEF ConvertReverse
      <4> QED  BY <4>1 DEF Success
    <3> QED  BY <3>1, <3>2
  <2> QED  BY <2>2 DEF strict, rich
<1>6. CASE admitted.status = 200 /\ one \in Forward
  <2>1. /\ strict = ConvertForward(one, admitted, eng.forward, set)
        /\ rich = ConvertForward(two, admitted, eng.forward, set)
    BY <1>1, <1>6 DEF Respond, admitted
  <2> HIDE DEF strict, rich
  <2>2. CASE eng.forward = "nothing"
    <3>1. strict = rich
      BY <2>1, <2>2 DEF ConvertForward
    <3> QED  BY <3>1 DEF strict, rich
  <2>3. CASE eng.forward = "answer"
    <3>1. strict.status = 200 /\ rich.status = 200
      BY <1>3, <2>1, <2>3 DEF ConvertForward
    <3> QED  BY <3>1 DEF strict, rich
  <2>4. CASE eng.forward \in {"spread", "gapless"}
    <3>1. rich.status = 200
      BY <1>2, <1>3, <2>1, <2>4 DEF ConvertForward
    <3>2. strict.status \in {200, 307, 468, 500}
      BY <1>3, <2>1, <2>4, RefusalFacts DEF ConvertForward
    <3> QED  BY <1>6, <2>4, <3>1, <3>2 DEF strict, rich
  <2>5. eng.forward \in {"nothing", "answer", "spread", "gapless"}
    BY DEF Engine
  <2> QED  BY <2>2, <2>3, <2>4, <2>5
<1> QED  BY <1>4, <1>5, <1>6

-----------------------------------------------------------------------------
(***************************************************************************)
(* What was discarded                                                      *)
(***************************************************************************)
(* Sets in one-to-one correspondence are of one size. *)
LEMMA SameSize ==
  ASSUME NEW S, NEW T, IsFiniteSet(S), NEW f \in [S -> T],
         \A a, b \in S : f[a] = f[b] => a = b,
         \A t \in T : \E a \in S : f[a] = t
  PROVE  Cardinality(T) = Cardinality(S)
<1>1. f \in Bijection(S, T)
  BY Fun_IsBij
<1>2. ExistsBijection(S, T)
  BY <1>1 DEF ExistsBijection
<1> QED  BY <1>2, FS_Bijection

(* A set has as many elements as a part of it and the rest together. *)
LEMMA SplitSize ==
  ASSUME NEW S, IsFiniteSet(S), NEW T \in SUBSET S
  PROVE  /\ IsFiniteSet(T) /\ IsFiniteSet(S \ T)
         /\ Cardinality(S) = Cardinality(T) + Cardinality(S \ T)
<1>1. /\ IsFiniteSet(T) /\ IsFiniteSet(S \ T)
      /\ Cardinality(S \ T) = Cardinality(S) - Cardinality(S \cap T)
  BY FS_Subset, FS_Difference
<1>2. S \cap T = T
  OBVIOUS
<1>3. Cardinality(S) \in Nat /\ Cardinality(T) \in Nat
  BY <1>1, FS_CardinalityType
<1> QED  BY <1>1, <1>2, <1>3

(* Every location is counted, in whatever containers it is.                *)
LEMMA NoneUncounted ==
  ASSUME NEW doc \in Seq(Location)
  PROVE  Cardinality(Carrying(doc)) <= LocationCount(doc)
<1> DEFINE Pairs(i, k) == {<<i, k>>} \X (1 .. doc[i].within[k])
           family == {Pairs(i, k) : i \in Carrying(doc), k \in Container}
           around == UNION family
           held == Carrying(doc) \ Loose(doc)
           Of(i) == CHOOSE k \in Container : doc[i].within[k] > 0
           f == [i \in held |-> <<<<i, Of(i)>>, 1>>]
<1>1. \A i \in Carrying(doc), k \in Container : doc[i].within[k] \in Nat
  BY LocationFacts
<1>2. \A i \in held : Of(i) \in Container /\ doc[i].within[Of(i)] > 0
  <2> SUFFICES ASSUME NEW i \in held
               PROVE  Of(i) \in Container /\ doc[i].within[Of(i)] > 0
    OBVIOUS
  <2>1. \E k \in Container : doc[i].within[k] > 0
    BY <1>1 DEF Loose
  <2> QED  BY <2>1
<1> HIDE DEF Of
<1>3. f \in [held -> around]
  <2>1. ASSUME NEW i \in held
        PROVE  <<<<i, Of(i)>>, 1>> \in around
    <3>1. <<<<i, Of(i)>>, 1>> \in Pairs(i, Of(i))
      BY <1>1, <1>2
    <3> HIDE DEF Pairs
    <3>2. i \in Carrying(doc) /\ Of(i) \in Container
      BY <1>2
    <3> QED  BY <3>1, <3>2
  <2> QED  BY <2>1
<1>4. f \in Injection(held, around)
  <2>1. \A a, b \in held : f[a] = f[b] => a = b
    OBVIOUS
  <2> HIDE DEF f, held, around
  <2> QED  BY <1>3, <2>1, Fun_IsInj
<1>5. IsFiniteSet(Carrying(doc)) /\ Loose(doc) \in SUBSET Carrying(doc)
  BY LocationFacts, FS_Interval, FS_Subset
<1>6. IsFiniteSet(around)
  <2>1. IsFiniteSet(Carrying(doc) \X Container)
    <3>1. IsFiniteSet(Container)
      <4>1. Container = (({} \union {"device"}) \union {"tuple"})
                          \union {"person"}
        BY DEF Container
      <4>2. IsFiniteSet({} \union {"device"})
        BY FS_EmptySet, FS_AddElement
      <4>3. IsFiniteSet(({} \union {"device"}) \union {"tuple"})
        BY <4>2, FS_AddElement
      <4> QED  BY <4>1, <4>3, FS_AddElement
    <3> QED  BY <1>5, <3>1, FS_Product
  <2>2. IsFiniteSet(family)
    <3> DEFINE g == [p \in Carrying(doc) \X Container |-> Pairs(p[1], p[2])]
    <3>1. g \in Surjection(Carrying(doc) \X Container, family)
      <4>1. g \in [Carrying(doc) \X Container -> family]
        OBVIOUS
      <4>2. ASSUME NEW t \in family
            PROVE  \E p \in Carrying(doc) \X Container : g[p] = t
        <5>1. PICK i \in Carrying(doc), k \in Container : t = Pairs(i, k)
          OBVIOUS
        <5>2. <<i, k>> \in Carrying(doc) \X Container
          OBVIOUS
        <5>3. g[<<i, k>>] = Pairs(i, k)
          BY <5>2
        <5> DEFINE both == Carrying(doc) \X Container
                   p    == <<i, k>>
        <5> HIDE DEF g, Pairs
        <5>4. p \in both /\ g[p] = t
          BY <5>1, <5>2, <5>3
        <5> HIDE DEF both, p
        <5>5. \E q \in both : g[q] = t
          BY <5>4
        <5> QED  BY <5>5 DEF both
      <4> HIDE DEF g, family
      <4> QED  BY <4>1, <4>2, Fun_IsSurj
    <3> HIDE DEF g, family
    <3> QED  BY <2>1, <3>1, FS_Surjection
  <2>3. \A t \in family : IsFiniteSet(t)
    <3> SUFFICES ASSUME NEW i \in Carrying(doc), NEW k \in Container
                 PROVE  IsFiniteSet(Pairs(i, k))
      OBVIOUS
    <3>1. IsFiniteSet({<<i, k>>})
      BY FS_Singleton
    <3>2. IsFiniteSet(1 .. doc[i].within[k])
      BY <1>1, FS_Interval
    <3> QED  BY <3>1, <3>2, FS_Product
  <2> HIDE DEF family
  <2> QED  BY <2>2, <2>3, FS_UNION
<1>7. Cardinality(held) <= Cardinality(around)
  <2> HIDE DEF f, around, held
  <2> QED  BY <1>4, <1>6, FS_Injection
<1>8. Cardinality(Carrying(doc)) = Cardinality(Loose(doc)) + Cardinality(held)
  BY <1>5, SplitSize
<1>9. /\ Cardinality(Loose(doc)) \in Nat /\ Cardinality(held) \in Nat
      /\ Cardinality(around) \in Nat
  <2> HIDE DEF around
  <2> QED  BY <1>5, <1>6, SplitSize, FS_CardinalityType
<1>10. LocationCount(doc) = Cardinality(Loose(doc)) + Cardinality(around)
  BY DEF LocationCount
<1> HIDE DEF around, held
<1> QED  BY <1>7, <1>8, <1>9, <1>10

(* Where no container is within another, a location has at most one around *)
(* it, and counting containers counts locations.                           *)
LEMMA CountedOnce ==
  ASSUME NEW doc \in Seq(Location), ~Nested(doc)
  PROVE  LocationCount(doc) = Cardinality(Carrying(doc))
<1> DEFINE Pairs(i, k) == {<<i, k>>} \X (1 .. doc[i].within[k])
           around == UNION {Pairs(i, k) : i \in Carrying(doc), k \in Container}
           held == Carrying(doc) \ Loose(doc)
           Of(i) == CHOOSE k \in Container : doc[i].within[k] > 0
           f == [i \in held |-> <<<<i, Of(i)>>, 1>>]
<1>1. \A i \in Carrying(doc), k \in Container : doc[i].within[k] \in Nat
  BY LocationFacts
<1>2. \A i \in held : /\ Of(i) \in Container /\ doc[i].within[Of(i)] = 1
                      /\ \A k \in Container :
                           doc[i].within[k] > 0 => k = Of(i)
  <2> SUFFICES ASSUME NEW i \in held
               PROVE  /\ Of(i) \in Container /\ doc[i].within[Of(i)] = 1
                      /\ \A k \in Container :
                           doc[i].within[k] > 0 => k = Of(i)
    OBVIOUS
  <2>1. \E k \in Container : doc[i].within[k] > 0
    BY <1>1 DEF Loose
  <2>2. Of(i) \in Container /\ doc[i].within[Of(i)] > 0
    BY <2>1
  <2> HIDE DEF Of
  <2>3. \A k \in Container : doc[i].within[k] > 0 => k = Of(i)
    BY <2>2 DEF Nested
  <2>4. ~(doc[i].within[Of(i)] > 1)
    BY <2>2 DEF Nested
  <2> QED  BY <1>1, <2>2, <2>3, <2>4
<1> HIDE DEF Of
<1>3. f \in [held -> around]
  <2>1. ASSUME NEW i \in held
        PROVE  <<<<i, Of(i)>>, 1>> \in around
    <3>1. <<<<i, Of(i)>>, 1>> \in Pairs(i, Of(i))
      BY <1>2
    <3> HIDE DEF Pairs
    <3>2. i \in Carrying(doc) /\ Of(i) \in Container
      BY <1>2
    <3> QED  BY <3>1, <3>2
  <2> QED  BY <2>1
<1>4. \A a, b \in held : f[a] = f[b] => a = b
  OBVIOUS
<1>5. ASSUME NEW t \in around
      PROVE  \E i \in held : f[i] = t
  <2>1. PICK i \in Carrying(doc), k \in Container :
          t \in {<<i, k>>} \X (1 .. doc[i].within[k])
    OBVIOUS
  <2>2. PICK n \in 1 .. doc[i].within[k] : t = <<<<i, k>>, n>>
    BY <2>1
  <2>3. doc[i].within[k] > 0
    BY <1>1, <2>2
  <2>4. i \in held
    BY <1>1, <2>3 DEF Loose
  <2>5. k = Of(i) /\ n = 1
    BY <1>2, <2>2, <2>3, <2>4
  <2> QED  BY <2>2, <2>4, <2>5
<1>6. /\ IsFiniteSet(held)
      /\ Cardinality(Carrying(doc))
           = Cardinality(Loose(doc)) + Cardinality(held)
  <2>1. IsFiniteSet(Carrying(doc))
    BY LocationFacts, FS_Interval, FS_Subset
  <2>2. Loose(doc) \in SUBSET Carrying(doc)
    BY LocationFacts
  <2> QED  BY <2>1, <2>2, SplitSize
<1>7. Cardinality(around) = Cardinality(held)
  <2> HIDE DEF f, around, held
  <2> QED  BY <1>3, <1>4, <1>5, <1>6, SameSize
<1>8. LocationCount(doc) = Cardinality(Loose(doc)) + Cardinality(around)
  BY DEF LocationCount
<1> HIDE DEF around, held
<1> QED  BY <1>6, <1>7, <1>8

(* Only a number without digits is one that none can be made of. *)
LEMMA DroppedFacts ==
  ASSUME NEW elements
  PROVE  ParseCivic(elements).dropped <=>
           LET number == Given(elements, "Add_Number")
           IN  number # NoText /\ Digits(number) = {}
<1> DEFINE number == Given(elements, "Add_Number")
<1>1. Decompose(number) = NoNumber <=> Digits(number) = {}
  <2>1. Digits(number) = {} => Decompose(number) = NoNumber
    BY DEF Decompose
  <2>2. Digits(number) # {} =>
          "prefix" \in DOMAIN Decompose(number)
    BY DEF Decompose
  <2>3. "prefix" \notin DOMAIN NoNumber
    BY DEF NoNumber
  <2> QED  BY <2>1, <2>2, <2>3
<1> HIDE DEF number
<1> QED  BY <1>1 DEF ParseCivic, number

-----------------------------------------------------------------------------
(***************************************************************************)
(* The order on the wire                                                   *)
(***************************************************************************)
(* Where every column is given once, its text is that of its one element.  *)
LEMMA GivenOnce ==
  ASSUME NEW elements \in Seq(Element), Distinct(elements),
         NEW i \in DOMAIN elements, elements[i].text # NoText
  PROVE  Given(elements, elements[i].column) = elements[i].text
<1> DEFINE of == {j \in DOMAIN elements :
                    /\ elements[j].column = elements[i].column
                    /\ elements[j].text # NoText}
<1>1. of = {i}
  BY DEF Distinct
<1>2. Max(of) = i
  BY <1>1, MaxOfOne
<1>3. of # {}
  BY <1>1
<1> HIDE DEF of
<1> QED  BY <1>2, <1>3 DEF Given, of

(* Two sequences with the same elements, each column once, say the same.   *)
LEMMA SameElementsSameAddress ==
  ASSUME NEW one \in Seq(Element), NEW two \in Seq(Element),
         Distinct(one), Distinct(two),
         \A i \in DOMAIN one : \E j \in DOMAIN two : two[j] = one[i],
         \A j \in DOMAIN two : \E i \in DOMAIN one : one[i] = two[j]
  PROVE  ParseCivic(one) = ParseCivic(two)
<1> DEFINE Says(elements, column) ==
             {i \in DOMAIN elements : /\ elements[i].column = column
                                      /\ elements[i].text # NoText}
<1>1. ASSUME NEW column
      PROVE  Given(one, column) = Given(two, column)
  <2>1. CASE Says(one, column) = {}
    <3>1. Says(two, column) = {}
      BY <2>1
    <3> QED  BY <2>1, <3>1 DEF Given
  <2>2. CASE Says(one, column) # {}
    <3>1. PICK i \in DOMAIN one : /\ one[i].column = column
                                  /\ one[i].text # NoText
      BY <2>2
    <3>2. PICK j \in DOMAIN two : two[j] = one[i]
      OBVIOUS
    <3>3. Given(one, column) = one[i].text
      BY <3>1, GivenOnce
    <3>4. two[j].column = column /\ two[j].text # NoText
      BY <3>1, <3>2
    <3>5. Given(two, column) = two[j].text
      BY <3>4, GivenOnce
    <3> QED  BY <3>2, <3>3, <3>5
  <2> QED  BY <2>1, <2>2
<1> QED  BY <1>1 DEF ParseCivic, CivicOf

(* Read backwards, a document gives the same address.                      *)
LEMMA ReadBackwards ==
  ASSUME NEW elements \in Seq(Element), Distinct(elements)
  PROVE  ParseCivic(Reverse(elements)) = ParseCivic(elements)
<1> DEFINE n == Len(elements)
           back == Reverse(elements)
<1>1. n \in Nat /\ DOMAIN elements = 1 .. n
  OBVIOUS
<1>2. \A i \in 1 .. n : (n - i) + 1 \in 1 .. n /\ (n - ((n - i) + 1)) + 1 = i
  BY <1>1
<1>3. back = [i \in 1 .. n |-> elements[(n - i) + 1]]
  BY DEF Reverse
<1> HIDE DEF back
<1>4. back \in Seq(Element) /\ DOMAIN back = 1 .. n
  BY <1>1, <1>2, <1>3
<1>5. \A i \in 1 .. n : back[i] = elements[(n - i) + 1]
  BY <1>3
<1> HIDE DEF n
<1>6. Distinct(back)
  <2> SUFFICES ASSUME NEW i \in 1 .. n, NEW j \in 1 .. n, i # j
               PROVE  back[i].column # back[j].column
    BY <1>4 DEF Distinct
  <2>1. (n - i) + 1 # (n - j) + 1
    BY <1>1
  <2> QED  BY <1>1, <1>2, <1>5, <2>1 DEF Distinct
<1>7. \A i \in DOMAIN back : \E j \in DOMAIN elements : elements[j] = back[i]
  BY <1>1, <1>2, <1>4, <1>5
<1>8. \A j \in DOMAIN elements : \E i \in DOMAIN back : back[i] = elements[j]
  <2> SUFFICES ASSUME NEW j \in 1 .. n
               PROVE  back[(n - j) + 1] = elements[j]
    BY <1>1, <1>2, <1>4
  <2> QED  BY <1>2, <1>5
<1>9. ParseCivic(back) = ParseCivic(elements)
  BY <1>4, <1>6, <1>7, <1>8, SameElementsSameAddress
<1> QED  BY <1>9 DEF back

-----------------------------------------------------------------------------
(***************************************************************************)
(* Address numbers                                                         *)
(***************************************************************************)
(* Numbers that start at 0 and go on while they are below n reach it.      *)
LEMMA Upwards ==
  ASSUME NEW n \in Nat, NEW S, 0 \in S,
         \A k \in 0 .. n : k # n /\ k \in S => k + 1 \in S
  PROVE  \A k \in 0 .. n : k \in S
<1> DEFINE Missing == {k \in 0 .. n : k \notin S}
<1>1. ASSUME Missing # {}
      PROVE  FALSE
  <2>1. Missing \in SUBSET Nat
    OBVIOUS
  <2>2. Min(Missing) \in Missing /\ \A k \in Missing : Min(Missing) <= k
    BY <1>1, <2>1, MinIsFirst
  <2> DEFINE m == Min(Missing)
  <2>3. m \in 0 .. n /\ m \notin S /\ m # 0
    BY <2>2
  <2>4. m - 1 \in 0 .. n /\ m - 1 # n /\ (m - 1) + 1 = m
    BY <2>3
  <2>5. m - 1 \in S
    <3> HIDE DEF m
    <3> QED  BY <2>2, <2>3, <2>4 DEF m
  <2> HIDE DEF m
  <2> QED  BY <2>3, <2>4, <2>5
<1> QED  BY <1>1

(* What one more character makes of what was kept so far. *)
Keep(kept, c) == IF c = Separator THEN kept ELSE Append(kept, c)

(* What the community modules define the fold by. *)
Keeps(f, text, domain) ==
  \A S \in domain :
    f[S] = IF S = {} THEN NoText ELSE Keep(f[S \ {Max(S)}], text[Max(S)])

(* The largest of some numbers. *)
LEMMA MaxIsLargest ==
  ASSUME NEW S \in SUBSET Int, NEW m \in S, \A i \in S : i <= m
  PROVE  Max(S) = m
<1>1. m \in S /\ \A i \in S : m >= i
  OBVIOUS
<1>2. \A x \in S : (\A i \in S : x >= i) => x = m
  OBVIOUS
<1> QED  BY <1>1, <1>2 DEF Max

(* The positions up to n have a largest. *)
LEMMA MaxExists ==
  ASSUME NEW n \in Nat, NEW S \in SUBSET (1 .. n), S # {}
  PROVE  Max(S) \in S /\ \A i \in S : i <= Max(S)
<1> DEFINE T == {n - i : i \in S}
<1>1. T \in SUBSET Nat /\ T # {}
  OBVIOUS
<1>2. Min(T) \in T /\ \A t \in T : Min(T) <= t
  <2> HIDE DEF T
  <2> QED  BY <1>1, MinIsFirst
<1>3. PICK m \in S : Min(T) = n - m
  BY <1>2
<1>4. \A i \in S : i <= m
  <2> SUFFICES ASSUME NEW i \in S PROVE i <= m
    OBVIOUS
  <2>1. n - m <= n - i
    BY <1>2, <1>3
  <2> QED  BY <2>1
<1>5. Max(S) = m
  BY <1>4, MaxIsLargest
<1> QED  BY <1>4, <1>5

(* Whatever the text, the fold exists. *)
LEMMA FoldExists ==
  ASSUME NEW text, NEW n \in Nat
  PROVE  \E f : /\ f = [S \in SUBSET (1 .. n) |-> f[S]]
                /\ Keeps(f, text, SUBSET (1 .. n))
<1> DEFINE Exist(k) == \E f : /\ f = [S \in SUBSET (1 .. k) |-> f[S]]
                              /\ Keeps(f, text, SUBSET (1 .. k))
<1>1. Exist(0)
  <2> DEFINE f == [S \in SUBSET (1 .. 0) |-> NoText]
  <2>1. \A S \in SUBSET (1 .. 0) : S = {} /\ f[S] = NoText
    OBVIOUS
  <2>2. f = [S \in SUBSET (1 .. 0) |-> f[S]]
    OBVIOUS
  <2> HIDE DEF f
  <2>3. Keeps(f, text, SUBSET (1 .. 0))
    BY <2>1 DEF Keeps
  <2> QED  BY <2>2, <2>3
<1>2. ASSUME NEW k \in Nat, Exist(k)
      PROVE  Exist(k + 1)
  <2>1. PICK f : Keeps(f, text, SUBSET (1 .. k))
    BY <1>2
  <2> DEFINE D == SUBSET (1 .. (k + 1))
             g == [S \in D |-> IF k + 1 \in S
                               THEN Keep(f[S \ {k + 1}], text[k + 1])
                               ELSE f[S]]
  <2>2. \A S \in D : g[S] = IF k + 1 \in S
                            THEN Keep(f[S \ {k + 1}], text[k + 1])
                            ELSE f[S]
    OBVIOUS
  <2>3. g = [S \in D |-> g[S]]
    OBVIOUS
  <2> HIDE DEF g
  <2>4. ASSUME NEW S \in D
        PROVE  g[S] = IF S = {} THEN NoText
                      ELSE Keep(g[S \ {Max(S)}], text[Max(S)])
    <3>1. CASE k + 1 \in S
      <4>1. Max(S) = k + 1
        <5>1. S \in SUBSET Int /\ \A i \in S : i <= k + 1
          OBVIOUS
        <5> QED  BY <3>1, <5>1, MaxIsLargest
      <4>2. S \ {k + 1} \in D /\ g[S \ {k + 1}] = f[S \ {k + 1}]
        <5>1. S \ {k + 1} \in D /\ k + 1 \notin S \ {k + 1}
          OBVIOUS
        <5> HIDE DEF D
        <5> QED  BY <2>2, <5>1
      <4>3. S # {} /\ g[S] = Keep(f[S \ {k + 1}], text[k + 1])
        BY <2>2, <3>1
      <4> QED  BY <4>1, <4>2, <4>3
    <3>2. CASE k + 1 \notin S
      <4>1. S \in SUBSET (1 .. k)
        BY <3>2
      <4>2. f[S] = IF S = {} THEN NoText
                   ELSE Keep(f[S \ {Max(S)}], text[Max(S)])
        BY <2>1, <4>1 DEF Keeps
      <4>3. S \ {Max(S)} \in D /\ k + 1 \notin S \ {Max(S)}
        BY <3>2
      <4>4. g[S] = f[S] /\ g[S \ {Max(S)}] = f[S \ {Max(S)}]
        <5> HIDE DEF D
        <5> QED  BY <2>2, <3>2, <4>3
      <4> QED  BY <4>2, <4>4
    <3> QED  BY <3>1, <3>2
  <2>5. Keeps(g, text, D)
    BY <2>4 DEF Keeps
  <2> QED  BY <2>3, <2>5
<1> DEFINE Found == {k \in Nat : Exist(k)}
<1> HIDE DEF Exist
<1>3. \A k \in 0 .. n : k \in Found
  <2>1. 0 \in Found
    BY <1>1
  <2>2. \A k \in 0 .. n : k # n /\ k \in Found => k + 1 \in Found
    BY <1>2
  <2> HIDE DEF Found
  <2> QED  BY <2>1, <2>2, Upwards
<1>4. Exist(n)
  BY <1>3
<1> QED  BY <1>4 DEF Exist

(* What is kept of a text: g[i] of the first i characters. *)
Kept(g, text) ==
  /\ g[0] = NoText
  /\ \A i \in 1 .. Len(text) : g[i] = Keep(g[i - 1], text[i])

(* Separators are stripped one character after the other. *)
LEMMA StripIsKept ==
  ASSUME NEW text \in Text
  PROVE  \E g : Kept(g, text) /\ StripSeparators(text) = g[Len(text)]
<1> DEFINE n == Len(text)
           Equation(f) == f = [S \in SUBSET (1 .. n) |->
                                 IF S = {} THEN NoText
                                 ELSE Keep(f[S \ {Max(S)}], text[Max(S)])]
           fold == CHOOSE f : Equation(f)
<1>1. n \in Nat /\ DOMAIN text = 1 .. n
  BY DEF Text
<1>2. StripSeparators(text) = fold[1 .. n]
  BY <1>1 DEF StripSeparators, FoldLeft, MapThenFoldSet, Keep
<1> HIDE DEF n
<1>3. Equation(fold)
  <2>1. PICK f : /\ f = [S \in SUBSET (1 .. n) |-> f[S]]
                 /\ Keeps(f, text, SUBSET (1 .. n))
    BY <1>1, FoldExists
  <2>2. [S \in SUBSET (1 .. n) |-> f[S]]
          = [S \in SUBSET (1 .. n) |->
               IF S = {} THEN NoText
               ELSE Keep(f[S \ {Max(S)}], text[Max(S)])]
    BY <2>1 DEF Keeps
  <2>3. Equation(f)
    BY <2>1, <2>2
  <2> QED  BY <2>3
<1> HIDE DEF fold
<1> DEFINE g == [i \in 0 .. n |-> fold[1 .. i]]
<1>4. \A S \in SUBSET (1 .. n) :
        fold[S] = IF S = {} THEN NoText
                  ELSE Keep(fold[S \ {Max(S)}], text[Max(S)])
  BY <1>3
<1>5. g[0] = NoText
  <2>1. 1 .. 0 = {} /\ 0 \in 0 .. n /\ 1 .. 0 \in SUBSET (1 .. n)
    BY <1>1
  <2>2. g[0] = fold[1 .. 0]
    BY <2>1
  <2> QED  BY <1>4, <2>1, <2>2
<1>6. ASSUME NEW i \in 1 .. n
      PROVE  g[i] = Keep(g[i - 1], text[i])
  <2>1. /\ 1 .. i \in SUBSET (1 .. n) /\ 1 .. i # {}
        /\ i \in 1 .. i /\ 1 .. i \in SUBSET Int
        /\ \A j \in 1 .. i : j <= i
        /\ (1 .. i) \ {i} = 1 .. (i - 1)
        /\ i \in 0 .. n /\ i - 1 \in 0 .. n
    <3>1. /\ i \in 1 .. i /\ 1 .. i \in SUBSET Int
          /\ 1 .. i \in SUBSET (1 .. n)
          /\ \A j \in 1 .. i : j <= i
      BY <1>1
    <3>2. (1 .. i) \ {i} = 1 .. (i - 1)
      BY <1>1
    <3>3. i \in 0 .. n /\ i - 1 \in 0 .. n
      BY <1>1
    <3>4. 1 .. i # {}
      BY <3>1, Zenon
    <3> QED  BY <3>1, <3>2, <3>3, <3>4
  <2>2. Max(1 .. i) = i
    BY <2>1, MaxIsLargest
  <2>3. fold[1 .. i] = Keep(fold[1 .. (i - 1)], text[i])
    BY <1>4, <2>1, <2>2
  <2> QED  BY <2>1, <2>3
<1>7. g[n] = fold[1 .. n]
  BY <1>1
<1> HIDE DEF g
<1>8. Kept(g, text)
  BY <1>5, <1>6 DEF Kept, n
<1> QED  BY <1>2, <1>7, <1>8 DEF n

(* What is kept are characters of the text. *)
LEMMA KeptType ==
  ASSUME NEW text \in Text, NEW g, Kept(g, text), NEW k \in 0 .. Len(text)
  PROVE  /\ g[k] \in Text
         /\ \A i \in DOMAIN g[k] : \E j \in DOMAIN text : g[k][i] = text[j]
<1> DEFINE n == Len(text)
           From(kept) == \A i \in DOMAIN kept :
                           \E j \in DOMAIN text : kept[i] = text[j]
           S == {m \in 0 .. n : g[m] \in Text /\ From(g[m])}
<1>1. n \in Nat /\ DOMAIN text = 1 .. n
  BY DEF Text
<1>2. 0 \in S
  <2>1. g[0] = <<>>
    BY DEF Kept, NoText
  <2>2. <<>> \in Text /\ From(<<>>)
    BY DEF Text
  <2> HIDE DEF From
  <2> QED  BY <1>1, <2>1, <2>2
<1>3. ASSUME NEW m \in 0 .. n, m # n, m \in S
      PROVE  m + 1 \in S
  <2> DEFINE kept == g[m]
             c    == text[m + 1]
  <2>1. m + 1 \in 1 .. n /\ m + 1 \in 0 .. n /\ (m + 1) - 1 = m
    <3>1. m \in 0 .. n /\ m # n
      BY <1>3
    <3> HIDE DEF n
    <3> QED  BY <1>1, <3>1
  <2>2. g[m + 1] = Keep(g[m], text[m + 1])
    BY <2>1 DEF Kept
  <2>3. kept \in Seq(Character) /\ From(kept) /\ c \in Character
    <3>1. g[m] \in Text /\ From(g[m])
      <4> HIDE DEF From
      <4> QED  BY <1>3
    <3>2. text \in Seq(Character)
      BY DEF Text
    <3>3. c \in Character
      BY <2>1, <3>2
    <3> HIDE DEF From, c
    <3> QED  BY <3>1, <3>3 DEF Text
  <2> HIDE DEF kept
  <2>4. CASE c = Separator
    BY <1>3, <2>1, <2>2, <2>4 DEF Keep, kept
  <2>5. CASE c # Separator
    <3>1. g[m + 1] = Append(kept, c)
      BY <2>2, <2>5 DEF Keep, kept
    <3>2. Append(kept, c) \in Seq(Character)
      BY <2>3
    <3>3. From(Append(kept, c))
      <4> SUFFICES ASSUME NEW i \in DOMAIN Append(kept, c)
                   PROVE  \E j \in DOMAIN text :
                            Append(kept, c)[i] = text[j]
        OBVIOUS
      <4>1. CASE i \in DOMAIN kept
        BY <2>3, <4>1
      <4>2. CASE i \notin DOMAIN kept
        <5>1. Append(kept, c)[i] = c
          BY <2>3, <4>2
        <5> QED  BY <1>1, <2>1, <5>1
      <4> QED  BY <4>1, <4>2
    <3> HIDE DEF From, c
    <3> QED  BY <2>1, <3>1, <3>2, <3>3 DEF Text
  <2> QED  BY <2>4, <2>5
<1>4. k \in S
  <2> HIDE DEF S
  <2> QED  BY <1>1, <1>2, <1>3, Upwards
<1> QED  BY <1>4

(* So it is of what stripping leaves. *)
LEMMA StripType ==
  ASSUME NEW text \in Text
  PROVE  /\ StripSeparators(text) \in Text
         /\ \A i \in DOMAIN StripSeparators(text) :
              \E j \in DOMAIN text : StripSeparators(text)[i] = text[j]
<1>1. PICK g : Kept(g, text) /\ StripSeparators(text) = g[Len(text)]
  BY StripIsKept
<1>2. Len(text) \in 0 .. Len(text)
  BY DEF Text
<1> QED  BY <1>1, <1>2, KeptType

(* One more character is kept at the end. *)
LEMMA KeepAtEnd ==
  ASSUME NEW x \in Text, NEW y \in Text, NEW c \in Character
  PROVE  Keep(x \o y, c) = x \o Keep(y, c)
<1>1. CASE c = Separator
  BY <1>1 DEF Keep
<1>2. CASE c # Separator
  <2>1. x \in Seq(Character) /\ y \in Seq(Character)
    BY DEF Text
  <2>2. x \o y \in Seq(Character) /\ <<c>> \in Seq(Character)
    BY <2>1
  <2>3. Append(x \o y, c) = (x \o y) \o <<c>> /\ Append(y, c) = y \o <<c>>
    BY <2>1, <2>2, AppendIsConcat
  <2>4. (x \o y) \o <<c>> = x \o (y \o <<c>>)
    BY <2>1, <2>2, ConcatAssociative
  <2> QED  BY <1>2, <2>3, <2>4 DEF Keep
<1> QED  BY <1>1, <1>2

(* Two texts after each other are stripped each for itself. *)
LEMMA StripOfJoin ==
  ASSUME NEW a \in Text, NEW b \in Text
  PROVE  StripSeparators(a \o b) = StripSeparators(a) \o StripSeparators(b)
<1> DEFINE m == Len(a)
           n == Len(b)
           both == a \o b
<1>1. /\ m \in Nat /\ n \in Nat /\ both \in Text /\ Len(both) = m + n
      /\ \A i \in 1 .. m : both[i] = a[i]
      /\ \A i \in 1 .. n : both[m + i] = b[i] /\ b[i] \in Character
  BY DEF Text
<1>2. PICK f : Kept(f, a) /\ StripSeparators(a) = f[m]
  BY StripIsKept
<1>3. PICK g : Kept(g, b) /\ StripSeparators(b) = g[n]
  BY StripIsKept
<1>4. PICK h : Kept(h, both) /\ StripSeparators(both) = h[m + n]
  BY <1>1, StripIsKept
<1>5. \A k \in 0 .. n : g[k] \in Text
  BY <1>3, KeptType
<1>6. f[m] \in Text
  BY <1>2, StripType
<1> DEFINE S == {k \in 0 .. m : h[k] = f[k]}
           T == {k \in 0 .. n : h[m + k] = f[m] \o g[k]}
<1>7. /\ f[0] = NoText /\ h[0] = NoText /\ g[0] = NoText
      /\ \A i \in 1 .. m : f[i] = Keep(f[i - 1], a[i])
      /\ \A i \in 1 .. n : g[i] = Keep(g[i - 1], b[i])
      /\ \A i \in 1 .. (m + n) : h[i] = Keep(h[i - 1], both[i])
  BY <1>1, <1>2, <1>3, <1>4 DEF Kept
<1> HIDE DEF m, n, both
<1>8. m \in S
  <2>1. 0 \in S
    BY <1>1, <1>7
  <2>2. ASSUME NEW k \in 0 .. m, k # m, k \in S
        PROVE  k + 1 \in S
    <3>1. /\ k + 1 \in 1 .. m /\ k + 1 \in 1 .. (m + n) /\ (k + 1) - 1 = k
          /\ k + 1 \in 0 .. m
      BY <1>1, <2>2
    <3>2. f[k + 1] = Keep(f[k], a[k + 1]) /\ h[k + 1] = Keep(h[k], a[k + 1])
      BY <1>1, <1>7, <3>1
    <3>3. h[k] = f[k]
      BY <2>2
    <3>4. h[k + 1] = f[k + 1]
      BY <3>2, <3>3
    <3> QED  BY <3>1, <3>4, Zenon
  <2>3. m \in Nat
    BY <1>1
  <2> HIDE DEF S
  <2>4. \A k \in 0 .. m : k # m /\ k \in S => k + 1 \in S
    BY <2>2
  <2>5. \A k \in 0 .. m : k \in S
    BY <2>1, <2>3, <2>4, Upwards
  <2> QED  BY <2>3, <2>5
<1>9. n \in T
  <2>1. 0 \in T
    <3>1. f[m] \o <<>> = f[m]
      BY <1>6, ConcatEmptySeq DEF Text
    <3>2. h[m + 0] = f[m]
      BY <1>1, <1>8
    <3>3. h[m + 0] = f[m] \o g[0]
      BY <1>7, <3>1, <3>2 DEF NoText
    <3>4. 0 \in 0 .. n
      BY <1>1
    <3> QED  BY <3>3, <3>4, Zenon
  <2>2. ASSUME NEW k \in 0 .. n, k # n, k \in T
        PROVE  k + 1 \in T
    <3>1. /\ k + 1 \in 1 .. n /\ (k + 1) - 1 = k /\ k + 1 \in 0 .. n
          /\ m + (k + 1) \in 1 .. (m + n) /\ (m + (k + 1)) - 1 = m + k
      BY <1>1, <2>2
    <3>2. /\ g[k + 1] = Keep(g[k], b[k + 1])
          /\ h[m + (k + 1)] = Keep(h[m + k], b[k + 1])
          /\ b[k + 1] \in Character
      BY <1>1, <1>7, <3>1
    <3>3. h[m + k] = f[m] \o g[k]
      BY <2>2
    <3>4. Keep(f[m] \o g[k], b[k + 1]) = f[m] \o Keep(g[k], b[k + 1])
      BY <1>5, <1>6, <3>2, KeepAtEnd
    <3>5. h[m + (k + 1)] = f[m] \o g[k + 1]
      BY <3>2, <3>3, <3>4
    <3> QED  BY <3>1, <3>5, Zenon
  <2>3. n \in Nat
    BY <1>1
  <2> HIDE DEF S, T
  <2>4. \A k \in 0 .. n : k # n /\ k \in T => k + 1 \in T
    BY <2>2
  <2>5. \A k \in 0 .. n : k \in T
    BY <2>1, <2>3, <2>4, Upwards
  <2> QED  BY <2>3, <2>5
<1> QED  BY <1>2, <1>3, <1>4, <1>9 DEF both

(* Where there is no separator, nothing is stripped. *)
LEMMA StripOfPlain ==
  ASSUME NEW text \in Text, \A i \in DOMAIN text : text[i] # Separator
  PROVE  StripSeparators(text) = text
<1>1. PICK g : Kept(g, text) /\ StripSeparators(text) = g[Len(text)]
  BY StripIsKept
<1> DEFINE n == Len(text)
           S == {k \in 0 .. n : g[k] = SubSeq(text, 1, k)}
<1>2. /\ n \in Nat /\ DOMAIN text = 1 .. n /\ text \in Seq(Character)
      /\ SubSeq(text, 1, n) = text
  BY SubSeqFull DEF Text
<1>3. 0 \in S
  <2>1. SubSeq(text, 1, 0) = <<>>
    BY SubSeqEmpty
  <2>2. g[0] = SubSeq(text, 1, 0)
    BY <1>1, <2>1 DEF Kept, NoText
  <2>3. 0 \in 0 .. n
    BY <1>2
  <2> QED  BY <2>2, <2>3, Zenon
<1>4. ASSUME NEW k \in 0 .. n, k # n, k \in S
      PROVE  k + 1 \in S
  <2>1. k + 1 \in 1 .. n /\ (k + 1) - 1 = k /\ k + 1 \in 0 .. n
    <3>1. k \in 0 .. n /\ k # n
      BY <1>4
    <3> HIDE DEF n
    <3> QED  BY <1>2, <3>1
  <2>2. text[k + 1] # Separator /\ text[k + 1] \in Character
    BY <1>2, <2>1
  <2>3. g[k + 1] = Append(SubSeq(text, 1, k), text[k + 1])
    <3>1. g[k] = SubSeq(text, 1, k)
      BY <1>4
    <3>2. g[k + 1] = Keep(g[k], text[k + 1])
      BY <1>1, <2>1 DEF Kept
    <3> QED  BY <2>2, <3>1, <3>2 DEF Keep
  <2>4. SubSeq(text, 1, k) \in Seq(Character)
    <3>1. \A i \in 1 .. k : text[i] \in Character
      BY <1>2, <2>1
    <3>2. 1 \in Int /\ k \in Int
      BY <2>1
    <3> QED  BY <3>1, <3>2, SubSeqProperties
  <2>5. SubSeq(text, 1, k + 1) = SubSeq(text, 1, k) \o <<text[k + 1]>>
    <3>1. 1 \in 1 .. n /\ k + 1 \in 1 .. n
      BY <1>2, <2>1
    <3> QED  BY <1>2, <2>1, <3>1, SubSeqRecursiveSecond
  <2>6. Append(SubSeq(text, 1, k), text[k + 1])
          = SubSeq(text, 1, k) \o <<text[k + 1]>>
    BY <2>2, <2>4, AppendIsConcat
  <2>7. g[k + 1] = SubSeq(text, 1, k + 1)
    BY <2>3, <2>5, <2>6
  <2> QED  BY <2>1, <2>7, Zenon
<1>5. n \in S
  <2>1. n \in Nat
    BY <1>2
  <2> HIDE DEF S, n
  <2>2. \A k \in 0 .. n : k # n /\ k \in S => k + 1 \in S
    BY <1>4
  <2>3. \A k \in 0 .. n : k \in S
    BY <1>3, <2>1, <2>2, Upwards
  <2> QED  BY <2>1, <2>3
<1> QED  BY <1>1, <1>2, <1>5

(* A piece of a text is a text, of the characters that stand there. *)
LEMMA Piece ==
  ASSUME NEW text \in Text, NEW i \in Int, NEW j \in Int,
         1 <= i, i <= j + 1, j <= Len(text)
  PROVE  /\ SubSeq(text, i, j) \in Text
         /\ Len(SubSeq(text, i, j)) = (j - i) + 1
         /\ \A k \in 1 .. Len(SubSeq(text, i, j)) :
              SubSeq(text, i, j)[k] = text[(i + k) - 1]
<1> DEFINE n == Len(text)
           piece == SubSeq(text, i, j)
<1>1. n \in Nat /\ \A k \in 1 .. n : text[k] \in Character
  BY DEF Text
<1>2. \A k \in i .. j : text[k] \in Character
  <2>1. \A k \in i .. j : k \in 1 .. n
    <3>1. j <= n
      OBVIOUS
    <3> HIDE DEF n
    <3> QED  BY <1>1, <3>1
  <2> QED  BY <1>1, <2>1
<1>3. /\ piece \in Seq(Character)
      /\ Len(piece) = IF i <= j THEN j - i + 1 ELSE 0
      /\ \A k \in 1 .. (j - i + 1) : piece[k] = text[i + k - 1]
  BY <1>2, SubSeqProperties
<1> HIDE DEF piece
<1>4. Len(piece) = (j - i) + 1
  BY <1>3
<1>5. \A k \in 1 .. Len(piece) : piece[k] = text[(i + k) - 1]
  BY <1>3, <1>4
<1>6. piece \in Text
  BY <1>3 DEF Text
<1> QED  BY <1>4, <1>5, <1>6 DEF piece

(* All that a text says but its separators and zeros is in the parts. *)
Complete(text, parts) ==
  /\ Digits(parts.suffix) = {}
  /\ \E i, j \in DOMAIN text :
       LET digits == SubSeq(text, i, j)
       IN  /\ parts.prefix \o digits \o parts.suffix = StripSeparators(text)
           /\ digits # <<>> /\ Value(digits) = parts.number
  /\ parts.complete \in {NoText, text}
  /\ parts.complete = NoText => parts.prefix = NoText /\ parts.suffix = NoText

(* A number taken apart, and put together again. *)
LEMMA PartsOfNumber ==
  ASSUME NEW text \in Text, Digits(text) # {},
         NEW parts, parts = Decompose(text)
  PROVE  Complete(text, parts)
<1> DEFINE n == Len(text)
           last == Max(Digits(text))
           run == {i \in 1 .. last : \A j \in i .. last : IsDigit(text[j])}
           first == Min(run)
           before == SubSeq(text, 1, first - 1)
           digits == SubSeq(text, first, last)
           after == SubSeq(text, last + 1, n)
<1>1. /\ parts.number = Value(digits)
      /\ parts.prefix = StripSeparators(before)
      /\ parts.suffix = StripSeparators(after)
      /\ parts.complete = IF IsPlain(text) THEN NoText ELSE text
  BY DEF Decompose
<1>2. /\ n \in Nat /\ DOMAIN text = 1 .. n /\ text \in Seq(Character)
  BY DEF Text
<1>3. /\ last \in 1 .. n /\ IsDigit(text[last])
      /\ \A i \in (last + 1) .. n : ~IsDigit(text[i])
  <2>1. Digits(text) \in SUBSET (1 .. n)
    BY <1>2 DEF Digits
  <2>2. last \in Digits(text) /\ \A i \in Digits(text) : i <= last
    BY <1>2, <2>1, MaxExists
  <2> HIDE DEF last
  <2> QED  BY <1>2, <2>1, <2>2 DEF Digits
<1> HIDE DEF last
<1>4. /\ first \in 1 .. last
      /\ \A j \in first .. last : IsDigit(text[j])
      /\ (\A j \in 1 .. last : IsDigit(text[j])) => first = 1
  <2>1. run \in SUBSET Nat /\ last \in run
    BY <1>3
  <2>2. first \in run /\ \A i \in run : first <= i
    <3> HIDE DEF run
    <3> QED  BY <2>1, MinIsFirst
  <2>3. (\A j \in 1 .. last : IsDigit(text[j])) => 1 \in run
    BY <1>3
  <2> HIDE DEF first
  <2> QED  BY <1>3, <2>2, <2>3
<1> HIDE DEF first, n
<1>5. /\ before \in Text /\ digits \in Text /\ after \in Text
      /\ before \o digits \in Text
      /\ Len(digits) = (last - first) + 1
      /\ \A i \in 1 .. Len(digits) : digits[i] = text[(first + i) - 1]
      /\ Len(after) = n - last
      /\ \A i \in 1 .. Len(after) : after[i] = text[last + i]
  <2>1. first \in Int /\ first - 1 \in Int /\ last \in Int /\ n \in Int
    BY <1>2, <1>3, <1>4
  <2>2. /\ 1 <= (first - 1) + 1 /\ first - 1 <= n
        /\ 1 <= first /\ first <= last + 1 /\ last <= n
        /\ 1 <= last + 1 /\ last + 1 <= n + 1
    BY <1>2, <1>3, <1>4
  <2>3. before \in Text
    <3>1. first - 1 <= Len(text)
      BY <2>2 DEF n
    <3> QED  BY <2>1, <2>2, <3>1, Piece
  <2>4. /\ digits \in Text /\ Len(digits) = (last - first) + 1
        /\ \A i \in 1 .. Len(digits) : digits[i] = text[(first + i) - 1]
    <3>1. last <= Len(text)
      BY <2>2 DEF n
    <3> QED  BY <2>1, <2>2, <3>1, Piece
  <2>5. /\ after \in Text /\ Len(after) = (n - (last + 1)) + 1
        /\ \A i \in 1 .. Len(after) :
             after[i] = text[((last + 1) + i) - 1]
    <3>1. n <= Len(text) /\ last + 1 \in Int
      BY <2>1 DEF n
    <3> QED  BY <2>1, <2>2, <3>1, Piece
  <2> HIDE DEF before, digits, after
  <2>6. Len(after) = n - last /\ Len(after) \in Nat
    BY <2>1, <2>5 DEF Text
  <2>7. \A i \in 1 .. Len(after) : after[i] = text[last + i]
    <3> SUFFICES ASSUME NEW i \in 1 .. Len(after)
                 PROVE  after[i] = text[last + i]
      OBVIOUS
    <3>1. ((last + 1) + i) - 1 = last + i
      BY <2>1
    <3> QED  BY <2>5, <3>1
  <2>8. before \o digits \in Text
    BY <2>3, <2>4 DEF Text
  <2> QED  BY <2>3, <2>4, <2>5, <2>6, <2>7, <2>8
<1>6. (before \o digits) \o after = text
  <2>1. before \o digits = SubSeq(text, 1, last)
    <3>1. /\ 1 \in 1 .. (n + 1) /\ first - 1 \in 0 .. n
          /\ last \in (first - 1) .. n
      BY <1>2, <1>3, <1>4
    <3>2. (first - 1) + 1 = first /\ 1 - 1 = 0
      BY <1>3, <1>4
    <3> QED  BY <1>2, <3>1, <3>2, ConcatAdjacentSubSeq DEF n
  <2>2. SubSeq(text, 1, last) \o after = SubSeq(text, 1, n)
    <3>1. 1 \in 1 .. (n + 1) /\ last \in 0 .. n /\ n \in last .. n /\ 1 - 1 = 0
      BY <1>2, <1>3
    <3> QED  BY <1>2, <3>1, ConcatAdjacentSubSeq DEF n
  <2>3. SubSeq(text, 1, n) = text
    BY <1>2, SubSeqFull DEF n
  <2> QED  BY <2>1, <2>2, <2>3
<1>7. StripSeparators(digits) = digits /\ digits # <<>>
  <2> HIDE DEF digits
  <2>1. ASSUME NEW i \in DOMAIN digits
        PROVE  digits[i] # Separator
    <3>1. i \in 1 .. Len(digits) /\ digits[i] = text[(first + i) - 1]
      BY <1>5 DEF Text
    <3>2. (first + i) - 1 \in first .. last
      BY <1>3, <1>4, <1>5, <3>1
    <3>3. IsDigit(digits[i])
      BY <1>4, <3>1, <3>2
    <3> QED  BY <3>3 DEF IsDigit, Separator
  <2>2. digits # <<>>
    <3>1. Len(digits) # 0
      BY <1>3, <1>4, <1>5
    <3> QED  BY <3>1
  <2> QED  BY <1>5, <2>1, <2>2, StripOfPlain
<1>8. first \in DOMAIN text /\ last \in DOMAIN text
  BY <1>2, <1>3, <1>4
<1>9. /\ IsPlain(text) => first = 1 /\ last = n
      /\ IsPlain(text) => before = NoText /\ after = NoText
  <2> SUFFICES ASSUME IsPlain(text)
               PROVE  /\ first = 1 /\ last = n
                      /\ before = NoText /\ after = NoText
    OBVIOUS
  <2>1. \A i \in 1 .. n : IsDigit(text[i])
    BY <1>2 DEF IsPlain, Digits
  <2>2. last = n
    <3>1. n \in 1 .. n
      BY <1>2, <1>3
    <3>2. ~(n \in (last + 1) .. n)
      BY <1>3, <2>1, <3>1
    <3> QED  BY <1>2, <1>3, <3>2
  <2>3. first = 1
    BY <1>4, <2>1, <2>2
  <2>4. before = NoText /\ after = NoText
    BY <1>2, <2>2, <2>3, SubSeqEmpty DEF NoText
  <2> QED  BY <2>2, <2>3, <2>4
<1>10. Digits(parts.suffix) = {}
  <2>1. ASSUME NEW i \in DOMAIN parts.suffix
        PROVE  ~IsDigit(parts.suffix[i])
    <3> HIDE DEF after
    <3>1. PICK j \in DOMAIN after : parts.suffix[i] = after[j]
      <4>1. i \in DOMAIN StripSeparators(after)
        BY <1>1, <2>1
      <4>2. \E j \in DOMAIN after : StripSeparators(after)[i] = after[j]
        BY <1>5, <4>1, StripType, Zenon
      <4> QED  BY <1>1, <4>2
    <3>2. j \in 1 .. Len(after)
      BY <1>5 DEF Text
    <3>3. after[j] = text[last + j] /\ last + j \in (last + 1) .. n
      BY <1>2, <1>3, <1>5, <3>2
    <3> QED  BY <1>3, <3>1, <3>3
  <2> QED  BY <2>1 DEF Digits
<1> HIDE DEF before, digits, after
<1>11. StripSeparators(text)
         = (StripSeparators(before) \o digits) \o StripSeparators(after)
  <2>0. /\ before \in Text /\ digits \in Text /\ after \in Text
        /\ before \o digits \in Text
    BY <1>5
  <2>1. StripSeparators(text)
          = StripSeparators(before \o digits) \o StripSeparators(after)
    BY <1>6, <2>0, StripOfJoin
  <2>2. StripSeparators(before \o digits)
          = StripSeparators(before) \o StripSeparators(digits)
    BY <2>0, StripOfJoin
  <2> QED  BY <1>7, <2>1, <2>2
<1>12. StripSeparators(NoText) = NoText
  <2>1. NoText \in Text /\ DOMAIN NoText = {}
    BY DEF Text, NoText
  <2> QED  BY <2>1, StripOfPlain
<1>13. parts.complete = NoText =>
         parts.prefix = NoText /\ parts.suffix = NoText
  <2>1. text # NoText
    BY <1>2, <1>3 DEF NoText, n
  <2> QED  BY <1>1, <1>9, <1>12, <2>1
<1>14. /\ parts.prefix \o digits \o parts.suffix = StripSeparators(text)
       /\ digits # <<>> /\ Value(digits) = parts.number
  BY <1>1, <1>7, <1>11
<1>15. parts.complete \in {NoText, text}
  BY <1>1
<1> QED  BY <1>8, <1>10, <1>13, <1>14, <1>15, Zenon
        DEF digits, Complete

-----------------------------------------------------------------------------
(***************************************************************************)
(* The inductive invariant                                                 *)
(***************************************************************************)
(* What a request can have come to: where it was answered, the answer is   *)
(* the one Respond gives on the data it met.                               *)
Possible(r) ==
  {Idle, Gone}
    \union {[phase |-> "reading", call |-> call] : call \in Calls[r]}
    \union {[phase |-> "answered", call |-> call,
             reply |-> Respond(call.operation, call.body, on, settings),
             on |-> on] : call \in Calls[r], on \in Engines}

Event == [type : {"GcsQueryLogEvent"}, id : Ids, operation : Strict]
           \union [type : {"GcsResponseLogEvent"}, id : Ids, status : Statuses]

RequestInv ==
  /\ settings \in Settings /\ engine \in Engines
  /\ requests \in [Ids -> UNION {Possible(r) : r \in Ids}]
  /\ \A r \in Ids : requests[r] \in Possible(r)
  /\ events \in Seq(Event)
  /\ EveryInputLogged

(* The calls are calls. *)
LEMMA CallFacts ==
  ASSUME NEW r \in Ids, NEW call \in Calls[r]
  PROVE  /\ call.operation \in Strict \union Enhanced /\ call.body \in Body
         /\ call.body.document \in Seq(Location)
<1>1. call \in Call
  BY RequestAssumption
<1> QED  BY <1>1 DEF Call, Body

(* A request that is being read, or was answered. *)
LEMMA PhaseFacts ==
  ASSUME RequestInv, NEW r \in Ids
  PROVE  /\ requests[r].phase = "reading" =>
              /\ requests[r].call \in Calls[r]
              /\ requests[r] = [phase |-> "reading", call |-> requests[r].call]
         /\ requests[r].phase = "answered" =>
              /\ requests[r].call \in Calls[r] /\ requests[r].on \in Engines
              /\ requests[r].reply =
                   Respond(requests[r].call.operation, requests[r].call.body,
                           requests[r].on, settings)
<1>1. requests[r] \in Possible(r)
  BY DEF RequestInv
<1>2. CASE requests[r] \in {Idle, Gone}
  BY <1>2 DEF Idle, Gone
<1>3. CASE \E call \in Calls[r] :
             requests[r] = [phase |-> "reading", call |-> call]
  BY <1>3
<1>4. CASE \E call \in Calls[r], on \in Engines :
             requests[r] =
               [phase |-> "answered", call |-> call,
                reply |-> Respond(call.operation, call.body, on, settings),
                on |-> on]
  BY <1>4
<1> QED  BY <1>1, <1>2, <1>3, <1>4 DEF Possible

(* Nothing has been logged of anybody at first. *)
LEMMA RequestInit ==
  Init => RequestInv
<1> SUFFICES ASSUME Init PROVE RequestInv
  OBVIOUS
<1>1. \A r \in Ids : requests[r] = Idle /\ Idle \in Possible(r)
  BY DEF Init, Possible
<1>2. requests \in [Ids -> UNION {Possible(r) : r \in Ids}]
  BY <1>1 DEF Init
<1>3. events \in Seq(Event) /\ DOMAIN events = {}
  BY DEF Init
<1>4. Answered = {}
  BY <1>1 DEF Answered, Idle
<1>5. EveryInputLogged
  BY <1>3, <1>4 DEF EveryInputLogged, EventsOf
<1> QED  BY <1>1, <1>2, <1>3, <1>5 DEF RequestInv, Init

(* A step that answers nobody leaves the log as it should be. *)
LEMMA QuietSteps ==
  ASSUME RequestInv, events' = events, settings' = settings,
         Answered' = Answered,
         \A r \in Answered : requests'[r] = requests[r]
  PROVE  EveryInputLogged'
<1>1. \A r \in Ids : EventsOf(r)' = EventsOf(r)
  BY DEF EventsOf
<1>2. EveryInputLogged
  BY DEF RequestInv
<1> SUFFICES
      ASSUME NEW r \in Ids
      PROVE  LET call  == requests'[r].call
                 reply == requests'[r].reply
             IN  IF r \in Answered /\ call.operation \in Strict
                 THEN \E i \in DOMAIN events :
                        /\ events[i] = QueryEvent(r, call)
                        /\ IF reply.status = 500 THEN EventsOf(r) = {i}
                           ELSE /\ EventsOf(r) = {i, i + 1}
                                /\ events[i + 1] = ResponseEvent(r, reply)
                 ELSE EventsOf(r) = {}
  BY <1>1 DEF EveryInputLogged, QueryEvent, ResponseEvent
<1>3. CASE r \in Answered
  BY <1>2, <1>3 DEF EveryInputLogged
<1>4. CASE r \notin Answered
  BY <1>2, <1>4 DEF EveryInputLogged
<1> QED  BY <1>3, <1>4

(* What one request comes to does not concern the others. *)
LEMMA OneMoves ==
  ASSUME RequestInv, settings' = settings,
         NEW r \in Ids, NEW what \in Possible(r),
         requests' = [requests EXCEPT ![r] = what]
  PROVE  /\ requests' \in [Ids -> UNION {Possible(q)' : q \in Ids}]
         /\ \A q \in Ids : requests'[q] \in Possible(q)'
         /\ requests'[r] = what
         /\ \A q \in Ids \ {r} : requests'[q] = requests[q]
<1>1. \A q \in Ids : Possible(q)' = Possible(q)
  BY DEF Possible, Idle, Gone
<1>2. requests \in [Ids -> UNION {Possible(q) : q \in Ids}]
  BY DEF RequestInv
<1>3. \A q \in Ids : requests[q] \in Possible(q)
  BY DEF RequestInv
<1>4. requests'[r] = what /\ \A q \in Ids \ {r} : requests'[q] = requests[q]
  BY <1>2
<1>5. \A q \in Ids : requests'[q] \in Possible(q)
  BY <1>3, <1>4
<1>6. requests' \in [Ids -> UNION {Possible(q) : q \in Ids}]
  BY <1>2, <1>5
<1> QED  BY <1>1, <1>4, <1>5, <1>6

(* A request arrives. *)
LEMMA ArriveKeeps ==
  ASSUME RequestInv, NEW r \in Ids, NEW call \in Calls[r], Arrive(r, call)
  PROVE  RequestInv'
<1> DEFINE what == [phase |-> "reading", call |-> call]
<1>1. what \in Possible(r)
  BY DEF Possible
<1>2. requests' = [requests EXCEPT ![r] = what] /\ settings' = settings
  BY DEF Arrive
<1> HIDE DEF what
<1>3. /\ requests' \in [Ids -> UNION {Possible(q)' : q \in Ids}]
      /\ \A q \in Ids : requests'[q] \in Possible(q)'
      /\ requests'[r] = what
      /\ \A q \in Ids \ {r} : requests'[q] = requests[q]
  BY <1>1, <1>2, OneMoves
<1>4. Answered' = Answered /\ r \notin Answered
  BY <1>3 DEF Arrive, Answered, Idle, what
<1>5. \A q \in Answered : requests'[q] = requests[q]
  BY <1>3, <1>4 DEF Answered
<1>6. EveryInputLogged'
  BY <1>4, <1>5, QuietSteps DEF Arrive
<1> QED  BY <1>3, <1>6 DEF Arrive, RequestInv, Event

(* A client goes. *)
LEMMA DisconnectKeeps ==
  ASSUME RequestInv, NEW r \in Ids, Disconnect(r)
  PROVE  RequestInv'
<1>1. Gone \in Possible(r)
  BY DEF Possible
<1>2. requests' = [requests EXCEPT ![r] = Gone] /\ settings' = settings
  BY DEF Disconnect
<1>3. /\ requests' \in [Ids -> UNION {Possible(q)' : q \in Ids}]
      /\ \A q \in Ids : requests'[q] \in Possible(q)'
      /\ requests'[r] = Gone
      /\ \A q \in Ids \ {r} : requests'[q] = requests[q]
  BY <1>1, <1>2, OneMoves
<1>4. Answered' = Answered /\ r \notin Answered
  BY <1>3 DEF Disconnect, Answered, Gone
<1>5. \A q \in Answered : requests'[q] = requests[q]
  BY <1>3, <1>4 DEF Answered
<1>6. EveryInputLogged'
  BY <1>4, <1>5, QuietSteps DEF Disconnect
<1> QED  BY <1>3, <1>6 DEF Disconnect, RequestInv, Event

(* The data changes. *)
LEMMA ReloadKeeps ==
  ASSUME RequestInv, NEW e \in Engines, Reload(e)
  PROVE  RequestInv'
<1>1. /\ settings' = settings /\ requests' = requests /\ events' = events
      /\ engine' \in Engines
  BY DEF Reload
<1>2. \A r \in Ids : Possible(r)' = Possible(r)
  BY <1>1 DEF Possible, Idle, Gone
<1>3. Answered' = Answered
  BY <1>1 DEF Answered
<1>4. EveryInputLogged'
  BY <1>1, <1>3, QuietSteps
<1> QED  BY <1>1, <1>2, <1>4 DEF RequestInv, Event

(* What Log adds: nothing of an enhanced request, and of a strict one the  *)
(* query and, unless the handler raised, the response.                     *)
LEMMA LogFacts ==
  ASSUME NEW r \in Ids, NEW call, NEW reply, reply.status \in Statuses,
         reply.status = 500 <=> reply = Raised
  PROVE  /\ Log(r, call, reply) \in Seq(Event)
         /\ \A i \in DOMAIN Log(r, call, reply) : Log(r, call, reply)[i].id = r
         /\ call.operation \notin Strict => Log(r, call, reply) = <<>>
         /\ call.operation \in Strict /\ reply.status = 500 =>
              /\ Len(Log(r, call, reply)) = 1
              /\ Log(r, call, reply)[1] = QueryEvent(r, call)
         /\ call.operation \in Strict /\ reply.status # 500 =>
              /\ Len(Log(r, call, reply)) = 2
              /\ Log(r, call, reply)[1] = QueryEvent(r, call)
              /\ Log(r, call, reply)[2] = ResponseEvent(r, reply)
<1> DEFINE log == Log(r, call, reply)
<1>1. ResponseEvent(r, reply) \in Event /\ ResponseEvent(r, reply).id = r
  BY DEF ResponseEvent, Event
<1>2. call.operation \in Strict =>
        QueryEvent(r, call) \in Event /\ QueryEvent(r, call).id = r
  BY DEF QueryEvent, Event
<1>3. CASE call.operation \notin Strict
  <2>1. log = <<>>
    BY <1>3 DEF Log
  <2> QED  BY <1>3, <2>1
<1>4. CASE call.operation \in Strict /\ reply = Raised
  <2>1. log = <<QueryEvent(r, call)>>
    BY <1>4 DEF Log
  <2> HIDE DEF log
  <2>2. log \in Seq(Event) /\ Len(log) = 1 /\ log[1] = QueryEvent(r, call)
        /\ DOMAIN log = {1}
    BY <1>2, <1>4, <2>1
  <2> QED  BY <1>2, <1>4, <2>2 DEF log
<1>5. CASE call.operation \in Strict /\ reply # Raised
  <2>1. log = <<QueryEvent(r, call), ResponseEvent(r, reply)>>
    BY <1>5 DEF Log
  <2> HIDE DEF log
  <2>2. /\ log \in Seq(Event) /\ Len(log) = 2 /\ log[1] = QueryEvent(r, call)
        /\ log[2] = ResponseEvent(r, reply) /\ DOMAIN log = {1, 2}
    BY <1>1, <1>2, <1>5, <2>1
  <2> QED  BY <1>1, <1>2, <1>5, <2>2 DEF log
<1> QED  BY <1>3, <1>4, <1>5

(* A handler answers. *)
LEMMA HandleKeeps ==
  ASSUME RequestInv, NEW r \in Ids, Handle(r)
  PROVE  RequestInv'
<1> DEFINE call  == requests[r].call
           reply == Respond(call.operation, call.body, engine, settings)
           log   == Log(r, call, reply)
           what  == [phase |-> "answered", call |-> call, reply |-> reply,
                     on |-> engine]
           n == Len(events)
<1>1. /\ requests[r].phase = "reading" /\ call \in Calls[r]
      /\ requests' = [requests EXCEPT ![r] = what]
      /\ events' = events \o log
      /\ settings' = settings /\ engine' = engine
  BY PhaseFacts DEF Handle
<1>2. engine \in Engines /\ settings \in Settings /\ events \in Seq(Event)
  BY DEF RequestInv
<1>3. what \in Possible(r)
  BY <1>1, <1>2 DEF Possible
<1>4. /\ log \in Seq(Event)
      /\ \A i \in DOMAIN log : log[i].id = r
      /\ call.operation \notin Strict => log = <<>>
      /\ call.operation \in Strict /\ reply.status = 500 =>
           Len(log) = 1 /\ log[1] = QueryEvent(r, call)
      /\ call.operation \in Strict /\ reply.status # 500 =>
           /\ Len(log) = 2 /\ log[1] = QueryEvent(r, call)
           /\ log[2] = ResponseEvent(r, reply)
  <2>1. reply.status \in Statuses /\ (reply.status = 500 <=> reply = Raised)
    <3>1. engine \in Engine /\ settings \in Setting
      BY <1>2, RequestAssumption
    <3>2. call.operation \in Strict \union Enhanced /\ call.body \in Body
      BY <1>1, CallFacts
    <3> HIDE DEF call
    <3>3. reply.status \in Statuses /\ (reply.status = 500 => reply = Raised)
      BY <3>1, <3>2, RespondFacts
    <3> HIDE DEF reply
    <3> QED  BY <3>3, RefusalFacts
  <2> HIDE DEF call, reply
  <2> QED  BY <2>1, LogFacts
<1>5. what.phase = "answered" /\ what.call = call /\ what.reply = reply
  OBVIOUS
<1> HIDE DEF log, reply, what, call
<1>6. /\ requests' \in [Ids -> UNION {Possible(q)' : q \in Ids}]
      /\ \A q \in Ids : requests'[q] \in Possible(q)'
      /\ requests'[r] = what
      /\ \A q \in Ids \ {r} : requests'[q] = requests[q]
  BY <1>1, <1>3, OneMoves
<1>7. /\ events' \in Seq(Event) /\ n \in Nat
      /\ DOMAIN events = 1 .. n /\ DOMAIN log = 1 .. Len(log)
      /\ DOMAIN events' = 1 .. (n + Len(log))
      /\ \A i \in 1 .. n : events'[i] = events[i]
      /\ \A i \in 1 .. Len(log) : events'[n + i] = log[i]
  BY <1>1, <1>2, <1>4
<1>8. /\ Answered' = Answered \union {r} /\ r \notin Answered
      /\ \A q \in Answered : q # r /\ requests'[q] = requests[q]
  BY <1>1, <1>5, <1>6 DEF Answered
<1>9. EveryInputLogged
  BY DEF RequestInv
<1>10. \A i \in DOMAIN events' :
         i \in DOMAIN events \/ \E j \in 1 .. Len(log) : i = n + j
  <2>1. Len(log) \in Nat
    BY <1>4
  <2>2. \A i \in 1 .. (n + Len(log)) :
          i \in 1 .. n \/ (i - n \in 1 .. Len(log) /\ i = n + (i - n))
    BY <1>7, <2>1
  <2> QED  BY <1>7, <2>2
<1>11. ASSUME NEW q \in Ids, q # r
       PROVE  EventsOf(q)' = EventsOf(q)
  <2>1. \A j \in 1 .. Len(log) : events'[n + j].id = r
    BY <1>4, <1>7
  <2>2. DOMAIN events \subseteq DOMAIN events'
    BY <1>4, <1>7
  <2> QED  BY <1>7, <1>10, <1>11, <2>1, <2>2 DEF EventsOf
<1>12. EventsOf(r)' = {n + j : j \in 1 .. Len(log)}
  <2>1. EventsOf(r) = {}
    BY <1>8, <1>9 DEF EveryInputLogged
  <2>2. \A i \in 1 .. n : events'[i].id # r
    BY <1>7, <2>1 DEF EventsOf
  <2>3. \A j \in 1 .. Len(log) :
          n + j \in DOMAIN events' /\ events'[n + j].id = r
    BY <1>4, <1>7
  <2> QED  BY <1>7, <1>10, <2>2, <2>3 DEF EventsOf
<1> DEFINE Logged(q, c, p) ==
             IF q \in Answered' /\ c.operation \in Strict
             THEN \E i \in DOMAIN events' :
                    /\ events'[i] = QueryEvent(q, c)
                    /\ IF p.status = 500 THEN EventsOf(q)' = {i}
                       ELSE /\ EventsOf(q)' = {i, i + 1}
                            /\ events'[i + 1] = ResponseEvent(q, p)
             ELSE EventsOf(q)' = {}
<1>13. ASSUME NEW q \in Ids
       PROVE  Logged(q, requests'[q].call, requests'[q].reply)
  <2>1. CASE q # r /\ q \in Answered
    <3>1. /\ requests'[q] = requests[q] /\ EventsOf(q)' = EventsOf(q)
          /\ q \in Answered'
      BY <1>8, <1>11, <2>1
    <3>2. CASE requests[q].call.operation \notin Strict
      BY <1>9, <3>1, <3>2 DEF EveryInputLogged
    <3>3. CASE requests[q].call.operation \in Strict
      <4>1. PICK i \in DOMAIN events :
              /\ events[i] = QueryEvent(q, requests[q].call)
              /\ IF requests[q].reply.status = 500 THEN EventsOf(q) = {i}
                 ELSE /\ EventsOf(q) = {i, i + 1}
                      /\ events[i + 1] = ResponseEvent(q, requests[q].reply)
        BY <1>9, <2>1, <3>3 DEF EveryInputLogged
      <4>2. i \in DOMAIN events' /\ events'[i] = events[i]
        BY <1>4, <1>7
      <4>3. requests[q].reply.status # 500 => i + 1 \in DOMAIN events
        BY <4>1 DEF EventsOf
      <4>4. requests[q].reply.status # 500 => events'[i + 1] = events[i + 1]
        BY <1>7, <4>3
      <4> QED  BY <3>1, <3>3, <4>1, <4>2, <4>4
    <3> QED  BY <3>2, <3>3
  <2>2. CASE q # r /\ q \notin Answered
    BY <1>8, <1>9, <1>11, <2>2 DEF EveryInputLogged
  <2>3. CASE q = r /\ call.operation \notin Strict
    <3>1. EventsOf(r)' = {}
      BY <1>4, <1>12, <2>3
    <3>2. Logged(r, call, reply)
      BY <2>3, <3>1
    <3> HIDE DEF Logged
    <3> QED  BY <1>5, <1>6, <2>3, <3>2
  <2>4. CASE q = r /\ call.operation \in Strict /\ reply.status = 500
    <3>1. EventsOf(r)' = {n + 1}
      <4>1. Len(log) = 1 /\ n \in Nat
        BY <1>4, <1>7, <2>4
      <4> QED  BY <1>12, <4>1
    <3>2. n + 1 \in DOMAIN events' /\ events'[n + 1] = QueryEvent(r, call)
      BY <1>4, <1>7, <2>4
    <3>3. r \in Answered'
      BY <1>8
    <3>4. Logged(r, call, reply)
      BY <2>4, <3>1, <3>2, <3>3
    <3> HIDE DEF Logged
    <3> QED  BY <1>5, <1>6, <2>4, <3>4
  <2>5. CASE q = r /\ call.operation \in Strict /\ reply.status # 500
    <3>1. EventsOf(r)' = {n + 1, n + 1 + 1}
      <4>1. Len(log) = 2 /\ n \in Nat
        BY <1>4, <1>7, <2>5
      <4> QED  BY <1>12, <4>1
    <3>2. /\ n + 1 \in DOMAIN events' /\ events'[n + 1] = QueryEvent(r, call)
          /\ events'[n + 1 + 1] = ResponseEvent(r, reply)
      BY <1>4, <1>7, <2>5
    <3>3. r \in Answered'
      BY <1>8
    <3>4. Logged(r, call, reply)
      BY <2>5, <3>1, <3>2, <3>3, Zenon
    <3> HIDE DEF Logged
    <3> QED  BY <1>5, <1>6, <2>5, <3>4
  <2> HIDE DEF Logged
  <2> QED  BY <2>1, <2>2, <2>3, <2>4, <2>5
<1>14. EveryInputLogged'
  BY <1>13 DEF EveryInputLogged, QueryEvent, ResponseEvent
<1> QED  BY <1>1, <1>2, <1>6, <1>7, <1>14 DEF RequestInv, Event

(* The invariant of the requests and of their log. *)
LEMMA RequestsAreConsistent ==
  Spec => []RequestInv
<1>1. ASSUME RequestInv, [Next]_vars
      PROVE  RequestInv'
  <2>1. CASE UNCHANGED vars
    <3>1. Answered' = Answered /\ \A r \in Ids : Possible(r)' = Possible(r)
      BY <2>1 DEF vars, Answered, Possible, Idle, Gone
    <3>2. EveryInputLogged'
      BY <1>1, <2>1, <3>1, QuietSteps DEF vars
    <3> QED  BY <1>1, <2>1, <3>1, <3>2 DEF vars, RequestInv, Event
  <2>2. CASE \E r \in Ids : \E call \in Calls[r] : Arrive(r, call)
    BY <1>1, <2>2, ArriveKeeps
  <2>3. CASE \E r \in Ids : Disconnect(r)
    BY <1>1, <2>3, DisconnectKeeps
  <2>4. CASE \E r \in Ids : Handle(r)
    BY <1>1, <2>4, HandleKeeps
  <2>5. CASE \E e \in Engines : Reload(e)
    BY <1>1, <2>5, ReloadKeeps
  <2> QED  BY <1>1, <2>1, <2>2, <2>3, <2>4, <2>5 DEF Next
<1> QED  BY <1>1, RequestInit, PTL DEF Spec

-----------------------------------------------------------------------------
(***************************************************************************)
(* The theorems                                                            *)
(***************************************************************************)
(* FirstLocationConverted, for all documents, schemas and data.            *)
THEOREM TheFirstLocationIsConverted ==
  Spec => []FirstLocationConverted
<1>1. ASSUME RequestInv
      PROVE  FirstLocationConverted
  <2> SUFFICES
        ASSUME NEW r \in Answered, requests[r].reply.status = 200
        PROVE  LET doc  == requests[r].call.body.document
                   from == requests[r].reply.from
               IN  /\ \E child \in Range(doc[from].children) :
                        child.kind = Profiled(requests[r].call.operation)
                   /\ \A i \in Carrying(doc) \ {from} :
                        \/ Rank(doc[from]) < Rank(doc[i])
                        \/ Rank(doc[from]) = Rank(doc[i]) /\ from < i
    BY Zenon DEF FirstLocationConverted
  <2> DEFINE call == requests[r].call
             profile == Profiled(call.operation)
             doc == call.body.document
             admitted == Admit(call.body, profile, settings.schema)
             from == ElectLocation(doc)
             chunk == FindChunk(doc[from], profile)
  <2>1. /\ r \in Ids /\ call \in Calls[r] /\ requests[r].on \in Engine
        /\ requests[r].reply = Respond(call.operation, call.body,
                                       requests[r].on, settings)
    BY <1>1, PhaseFacts, RequestAssumption DEF Answered
  <2>2. settings \in Setting /\ settings.schema \in BOOLEAN
    BY <1>1, RequestAssumption DEF RequestInv, Setting
  <2>3. /\ call.operation \in Strict \union Enhanced /\ call.body \in Body
        /\ doc \in Seq(Location)
    BY <2>1, CallFacts
  <2>4. /\ admitted.status = 200
        /\ \E dropped : requests[r].reply
                          = Success(call.operation, admitted, dropped)
    BY <2>1, <2>2, <2>3, RespondFacts
  <2>5. requests[r].reply.from = admitted.elected
    BY <2>4 DEF Success
  <2>6. /\ admitted.elected = from /\ from # NoLocation
        /\ doc[from] \in Location /\ chunk # Null
    BY <2>2, <2>3, <2>4, AdmittedFacts
  <2>7. /\ chunk \in DOMAIN doc[from].children
        /\ doc[from].children[chunk].kind = profile
    <3> HIDE DEF doc, from, profile
    <3> QED  BY <2>6, ChunkIsOfProfile
  <2>8. \E child \in Range(doc[from].children) : child.kind = profile
    <3> HIDE DEF doc, from, chunk, profile
    <3> QED  BY <2>7 DEF Range
  <2>9. \A i \in Carrying(doc) \ {from} :
          \/ Rank(doc[from]) < Rank(doc[i])
          \/ Rank(doc[from]) = Rank(doc[i]) /\ from < i
    BY <2>3, <2>6, ElectedIsFirst
  <2>10. requests[r].reply.from = from
    BY <2>5, <2>6
  <2> HIDE DEF from
  <2> QED  BY <2>8, <2>9, <2>10
<1> QED  BY <1>1, RequestsAreConsistent, PTL

(* SiblingsAgree, for all requests and data.                               *)
THEOREM TheSiblingsAgree ==
  Spec => []SiblingsAgree
<1>1. ASSUME RequestInv
      PROVE  SiblingsAgree
  <2> SUFFICES
        ASSUME NEW r \in Answered
        PROVE  LET call  == requests[r].call
                   mine  == requests[r].reply.status
                   other == Respond(Sibling(call.operation), call.body,
                                    requests[r].on, settings).status
               IN  mine # other =>
                     /\ call.operation \in Forward
                     /\ requests[r].on.forward \in {"spread", "gapless"}
                     /\ (IF call.operation \in Strict THEN other ELSE mine)
                          = 200
                     /\ (IF call.operation \in Strict THEN mine ELSE other)
                          \in {307, 468, 500}
    BY Zenon DEF SiblingsAgree
  <2> DEFINE call == requests[r].call
             on == requests[r].on
             mine == Respond(call.operation, call.body, on, settings).status
             other == Respond(Sibling(call.operation), call.body, on,
                              settings).status
  <2>1. /\ r \in Ids /\ call \in Calls[r] /\ on \in Engine
        /\ requests[r].reply.status = mine
    BY <1>1, PhaseFacts, RequestAssumption DEF Answered
  <2>2. settings \in Setting
    BY <1>1, RequestAssumption DEF RequestInv
  <2>3. call.operation \in Strict \union Enhanced /\ call.body \in Body
    BY <2>1, CallFacts
  <2>4. /\ Sibling(call.operation) \in Strict \union Enhanced
        /\ Profiled(Sibling(call.operation)) = Profiled(call.operation)
        /\ Sibling(call.operation) \in Forward <=> call.operation \in Forward
        /\ Sibling(call.operation) \in Strict <=> call.operation \notin Strict
    BY <2>3, SiblingFacts
  <2>5. CASE call.operation \in Strict
    <3>1. Sibling(call.operation) \in Enhanced
      BY <2>4, <2>5
    <3>2. mine # other =>
            /\ call.operation \in Forward
            /\ on.forward \in {"spread", "gapless"}
            /\ other = 200 /\ mine \in {307, 468, 500}
      BY <2>1, <2>2, <2>3, <2>4, <2>5, <3>1, SameWaySameStatus
    <3> HIDE DEF mine, other, call
    <3>3. requests[r].reply.status # other =>
            /\ call.operation \in Forward
            /\ on.forward \in {"spread", "gapless"}
            /\ (IF call.operation \in Strict THEN other ELSE mine) = 200
            /\ (IF call.operation \in Strict THEN mine ELSE other)
                 \in {307, 468, 500}
      BY <2>1, <2>5, <3>2
    <3> QED  BY <2>1, <3>3 DEF mine, other, call
  <2>6. CASE call.operation \notin Strict
    <3>1. Sibling(call.operation) \in Strict /\ call.operation \in Enhanced
      BY <2>3, <2>4, <2>6
    <3>2. mine # other =>
            /\ Sibling(call.operation) \in Forward
            /\ on.forward \in {"spread", "gapless"}
            /\ mine = 200 /\ other \in {307, 468, 500}
      BY <2>1, <2>2, <2>3, <2>4, <3>1, SameWaySameStatus
    <3> HIDE DEF mine, other, call
    <3>3. requests[r].reply.status # other =>
            /\ call.operation \in Forward
            /\ on.forward \in {"spread", "gapless"}
            /\ (IF call.operation \in Strict THEN other ELSE mine) = 200
            /\ (IF call.operation \in Strict THEN mine ELSE other)
                 \in {307, 468, 500}
      BY <2>1, <2>4, <2>6, <3>2
    <3> QED  BY <2>1, <3>3 DEF mine, other, call
  <2> QED  BY <2>5, <2>6
<1> QED  BY <1>1, RequestsAreConsistent, PTL

(* EveryInputLogged, however many requests interleave.                     *)
THEOREM EveryInputIsLogged ==
  Spec => []EveryInputLogged
<1>1. RequestInv => EveryInputLogged
  BY DEF RequestInv
<1> QED  BY <1>1, RequestsAreConsistent, PTL

(* DiscardDisclosed, for all documents.                                    *)
THEOREM DiscardsAreDisclosed ==
  Spec => []DiscardDisclosed
<1>1. ASSUME RequestInv
      PROVE  DiscardDisclosed
  <2> SUFFICES
        ASSUME NEW r \in Answered,
               requests[r].call.operation \in Enhanced,
               requests[r].reply.status = 200
        PROVE  LET call  == requests[r].call
                   doc   == call.body.document
                   reply == requests[r].reply
               IN  /\ Cardinality(Carrying(doc)) <= reply.count
                   /\ ~Nested(doc) => reply.count = Cardinality(Carrying(doc))
                   /\ reply.dropped <=>
                        /\ call.operation \in Forward
                        /\ LET location == doc[reply.from]
                               first    == FindChunk(location, "civic")
                               elements == location.children[first].elements
                               number   == Given(elements, "Add_Number")
                           IN  number # NoText /\ Digits(number) = {}
    BY Zenon DEF DiscardDisclosed
  <2> DEFINE call == requests[r].call
             profile == Profiled(call.operation)
             doc == call.body.document
             reply == requests[r].reply
             admitted == Admit(call.body, profile, settings.schema)
             elements == admitted.chunk.elements
             dropped == call.operation \in Forward
                          /\ ParseCivic(elements).dropped
             number == Given(elements, "Add_Number")
             from == ElectLocation(doc)
  <2>1. /\ r \in Ids /\ call \in Calls[r] /\ requests[r].on \in Engine
        /\ reply = Respond(call.operation, call.body, requests[r].on, settings)
    BY <1>1, PhaseFacts, RequestAssumption DEF Answered
  <2>2. settings \in Setting /\ settings.schema \in BOOLEAN
    BY <1>1, RequestAssumption DEF RequestInv, Setting
  <2>3. /\ call.operation \in Strict \union Enhanced /\ call.body \in Body
        /\ doc \in Seq(Location)
    BY <2>1, CallFacts
  <2>4. /\ admitted.status = 200
        /\ reply = Success(call.operation, admitted, dropped)
    BY <2>1, <2>2, <2>3, RespondFacts
  <2>5. /\ reply.from = admitted.elected /\ reply.count = admitted.count
        /\ reply.dropped = dropped
    <3> HIDE DEF dropped, admitted
    <3>1. dropped \in BOOLEAN
      BY DEF dropped
    <3> QED  BY <2>4, <3>1 DEF Success
  <2>6. /\ admitted.elected = from
        /\ admitted.chunk = doc[from].children[FindChunk(doc[from], profile)]
        /\ admitted.count = LocationCount(doc)
    <3>1. /\ call.body \in Body /\ settings.schema \in BOOLEAN
          /\ admitted.status = 200
      BY <2>2, <2>3, <2>4
    <3> HIDE DEF call, profile
    <3> QED  BY <3>1, AdmittedFacts
  <2>7. /\ Cardinality(Carrying(doc)) <= reply.count
        /\ ~Nested(doc) => reply.count = Cardinality(Carrying(doc))
    <3>1. reply.count = LocationCount(doc)
      BY <2>5, <2>6
    <3> HIDE DEF doc, reply
    <3> QED  BY <2>3, <3>1, CountedOnce, NoneUncounted
  <2>8. call.operation \in Forward =>
          elements = doc[reply.from].children[
                       FindChunk(doc[reply.from], "civic")].elements
    <3>1. reply.from = from
      BY <2>5, <2>6
    <3>2. call.operation \in Forward => profile = "civic"
      BY DEF Profiled
    <3> HIDE DEF from, doc, profile, admitted, reply
    <3> QED  BY <2>6, <3>1, <3>2
  <2>9. ParseCivic(elements).dropped <=> number # NoText /\ Digits(number) = {}
    BY DroppedFacts
  <2>10. reply.dropped <=> /\ call.operation \in Forward
                           /\ number # NoText /\ Digits(number) = {}
    BY <2>5, <2>9, Zenon
  <2> QED  BY <2>7, <2>8, <2>10, Zenon
<1> QED  BY <1>1, RequestsAreConsistent, PTL

(* The elements of the addresses being read are elements of documents. *)
LEMMA ElementsRead ==
  ASSUME RequestInv, NEW elements \in ElementsAsked
  PROVE  elements \in Seq(Element)
<1>1. PICK r \in Ids :
        /\ requests[r].phase = "reading"
        /\ \E location \in Range(requests[r].call.body.document) :
             \E child \in Range(location.children) :
               child.kind = "civic" /\ elements = child.elements
  BY Zenon DEF ElementsAsked
<1>2. PICK location \in Range(requests[r].call.body.document) :
        \E child \in Range(location.children) :
          child.kind = "civic" /\ elements = child.elements
  BY <1>1
<1>3. PICK child \in Range(location.children) :
        child.kind = "civic" /\ elements = child.elements
  BY <1>2
<1>4. requests[r].call.body.document \in Seq(Location)
  BY <1>1, PhaseFacts, CallFacts
<1>5. location \in Location
  BY <1>4 DEF Range
<1>6. location.children \in Seq(Child)
  BY <1>5 DEF Location
<1>7. child \in Child
  BY <1>6 DEF Range
<1> QED  BY <1>3, <1>7 DEF Child

(* WireOrderIrrelevant, for all addresses.                                 *)
THEOREM TheWireOrderIsIrrelevant ==
  Spec => []WireOrderIrrelevant
<1>1. ASSUME RequestInv
      PROVE  WireOrderIrrelevant
  <2> SUFFICES ASSUME NEW elements \in ElementsAsked, Distinct(elements)
               PROVE  ParseCivic(Reverse(elements)) = ParseCivic(elements)
    BY DEF WireOrderIrrelevant
  <2>1. elements \in Seq(Element)
    BY <1>1, ElementsRead
  <2> QED  BY <2>1, ReadBackwards
<1> QED  BY <1>1, RequestsAreConsistent, PTL

(* What a column is given is a text. *)
LEMMA GivenType ==
  ASSUME NEW elements \in Seq(Element), NEW column
  PROVE  Given(elements, column) \in Text
<1> DEFINE of == {i \in DOMAIN elements : /\ elements[i].column = column
                                          /\ elements[i].text # NoText}
<1>1. Given(elements, column)
        = IF of = {} THEN NoText ELSE elements[Max(of)].text
  BY DEF Given
<1>2. NoText \in Text
  BY DEF Text, NoText
<1>3. ASSUME of # {}
      PROVE  elements[Max(of)].text \in Text
  <2>1. of \in SUBSET (1 .. Len(elements)) /\ Len(elements) \in Nat
    OBVIOUS
  <2>2. Max(of) \in of
    <3> HIDE DEF of
    <3> QED  BY <1>3, <2>1, MaxExists
  <2>3. Max(of) \in DOMAIN elements
    BY <2>2
  <2>4. elements[Max(of)] \in Element
    <3> HIDE DEF of
    <3> QED  BY <2>3
  <2> HIDE DEF of
  <2> QED  BY <2>4 DEF Element
<1> HIDE DEF of
<1> QED  BY <1>1, <1>2, <1>3

(* NothingElseLost, for all numbers, of any length. *)
THEOREM NumbersLoseNothingElse ==
  Spec => []NothingElseLost
<1>1. ASSUME RequestInv
      PROVE  NothingElseLost
  <2>1. ASSUME NEW elements \in ElementsAsked,
               Decompose(Given(elements, "Add_Number")) # NoNumber
        PROVE  Complete(Given(elements, "Add_Number"),
                        Decompose(Given(elements, "Add_Number")))
    <3> DEFINE text == Given(elements, "Add_Number")
    <3>1. text \in Text
      BY <1>1, ElementsRead, GivenType
    <3> HIDE DEF text
    <3>2. Digits(text) # {}
      BY <2>1 DEF Decompose, text
    <3>3. Complete(text, Decompose(text))
      BY <3>1, <3>2, PartsOfNumber
    <3> QED  BY <3>3 DEF text
  <2> QED  BY <2>1 DEF NothingElseLost, Complete
<1> QED  BY <1>1, RequestsAreConsistent, PTL
=============================================================================
