------------------------------ MODULE GcsRequest -----------------------------
(***************************************************************************)
(* The four conversion resources (src/api/geocode.py, reverse_geocode.py,  *)
(* enhanced.py), the status each request is answered with                  *)
(* (src/api/status.py) and the log events of the two strict ones           *)
(* (src/logging).                                                          *)
(*                                                                         *)
(* A handler suspends in request.body() alone, so what follows it is one   *)
(* step. The engine stands for what the ladder and the search would find   *)
(* on the data in place; ForwardLadder and ReverseSearch say how.          *)
(***************************************************************************)
EXTENDS Admission

CONSTANTS
  Ids,      \* requests
  Calls,    \* for each request, what it may ask
  Settings, \* GCS_REFERRAL_URI, the compiled schema, GCS_ENABLE_ENHANCED
  Engines   \* what a conversion may find

VARIABLES
  settings, \* of this process
  engine,   \* what a conversion finds at the moment
  requests, \* each request, as far as it got
  events    \* the log events emitted

vars == <<settings, engine, requests, events>>

Strict   == {"Geocode", "ReverseGeocode"}
Enhanced == {"GeocodeEnhanced", "ReverseGeocodeEnhanced"}
Forward  == {"Geocode", "GeocodeEnhanced"}

Call == [operation : Strict \union Enhanced, body : Body]

(* "spread" is AmbiguousResult; "gapless" are leading segments that assert *)
(* no house number, on which the strict answer raises if one was asked for.*)
Engine == [forward : {"nothing", "answer", "spread", "gapless"},
           reverse : {"nothing", "answer"}]

Setting == [referral : BOOLEAN, schema : BOOLEAN, enhanced : BOOLEAN]

ASSUME RequestAssumption ==
  /\ Settings \subseteq Setting /\ Engines \subseteq Engine
  /\ \A r \in Ids : Calls[r] \subseteq Call

-----------------------------------------------------------------------------
(***************************************************************************)
(* Replies                                                                 *)
(***************************************************************************)
Profiled(operation) == IF operation \in Forward THEN "civic" ELSE "geodetic"

Without(status) ==
  [status |-> status, from |-> NoLocation, count |-> 1, dropped |-> FALSE]

(* The enhanced envelope says what the strict one has no place for. *)
Success(operation, admitted, dropped) ==
  [status  |-> 200, from |-> admitted.elected,
   count   |-> IF operation \in Enhanced THEN admitted.count ELSE 1,
   dropped |-> operation \in Enhanced /\ dropped]

(* no_result_response *)
NoResult(set) == Without(IF set.referral THEN 307 ELSE 468)

(* failure_response: a malformed request is never referred. *)
Failure(status, set) == IF status = 454 THEN Without(454) ELSE NoResult(set)

Raised == Without(500)  \* nothing catches it: the framework answers

(* Mutant: an ambiguous result is an internal error. *)
ConvertForwardStrictly(operation, admitted, found, set) ==
  LET parsed == ParseCivic(admitted.chunk.elements)
  IN  IF found = "nothing" THEN NoResult(set)
      ELSE IF found = "spread" /\ operation \in Strict THEN Without(454)
      ELSE Success(operation, admitted, parsed.dropped)

(* conversion.geocode, and strict_forward_answer on the strict interface.  *)
ConvertForward(operation, admitted, found, set) ==
  LET parsed == ParseCivic(admitted.chunk.elements)
  IN  IF found = "nothing" THEN NoResult(set)
      ELSE IF found = "spread" /\ operation \in Strict THEN NoResult(set)
      ELSE IF /\ found = "gapless" /\ operation \in Strict
              /\ parsed.civic.Add_Number # Null THEN Raised
      ELSE Success(operation, admitted, parsed.dropped)

(* conversion.reverse_geocode *)
ConvertReverse(operation, admitted, found, set) ==
  IF ~Readable(admitted.chunk.shape) THEN Without(454)
  ELSE IF found = "nothing" THEN NoResult(set)
  ELSE Success(operation, admitted, FALSE)

(* What each of the four handlers answers. *)
Respond(operation, body, eng, set) ==
  LET admitted == Admit(body, Profiled(operation), set.schema)
  IN  IF admitted.status = 500 THEN Raised
      ELSE IF admitted.status # 200 THEN Failure(admitted.status, set)
      ELSE IF operation \in Forward
           THEN ConvertForward(operation, admitted, eng.forward, set)
      ELSE ConvertReverse(operation, admitted, eng.reverse, set)

-----------------------------------------------------------------------------
(***************************************************************************)
(* Log events                                                              *)
(***************************************************************************)
QueryEvent(r, call) ==
  [type |-> "GcsQueryLogEvent", id |-> r, operation |-> call.operation]
ResponseEvent(r, reply) ==
  [type |-> "GcsResponseLogEvent", id |-> r, status |-> reply.status]

(* Mutant: the query is logged once it was admitted. *)
LogAdmitted(r, call, reply) ==
  IF call.operation \notin Strict THEN <<>>
  ELSE IF reply.status = 454 THEN <<ResponseEvent(r, reply)>>
  ELSE IF reply = Raised THEN <<QueryEvent(r, call)>>
  ELSE <<QueryEvent(r, call), ResponseEvent(r, reply)>>

(* The query event comes before anything is looked at; an exception leaves *)
(* it without a response event. The enhanced handlers log nothing.         *)
Log(r, call, reply) ==
  IF call.operation \notin Strict THEN <<>>
  ELSE IF reply = Raised THEN <<QueryEvent(r, call)>>
  ELSE <<QueryEvent(r, call), ResponseEvent(r, reply)>>

-----------------------------------------------------------------------------
Idle == [phase |-> "idle"]
Gone == [phase |-> "gone"]

Init ==
  /\ settings \in Settings /\ engine \in Engines
  /\ requests = [r \in Ids |-> Idle]
  /\ events = <<>>

(* A request for a resource that is mounted (build_router); its handler    *)
(* waits for the body.                                                     *)
Arrive(r, call) ==
  /\ requests[r] = Idle
  /\ call.operation \in Enhanced => settings.enhanced
  /\ requests' = [requests EXCEPT ![r] = [phase |-> "reading", call |-> call]]
  /\ UNCHANGED <<settings, engine, events>>

(* request.body() raises: the client is gone. *)
Disconnect(r) ==
  /\ requests[r].phase = "reading"
  /\ requests' = [requests EXCEPT ![r] = Gone]
  /\ UNCHANGED <<settings, engine, events>>

(* The body is there: the rest of the handler, up to its reply. *)
Handle(r) ==
  /\ requests[r].phase = "reading"
  /\ LET call  == requests[r].call
         reply == Respond(call.operation, call.body, engine, settings)
     IN  /\ requests' = [requests EXCEPT ![r] =
              [phase |-> "answered", call |-> call, reply |-> reply,
               on |-> engine]]
         /\ events' = events \o Log(r, call, reply)
  /\ UNCHANGED <<settings, engine>>

(* The data changes under the requests. *)
Reload(e) ==
  /\ engine # e
  /\ engine' = e
  /\ UNCHANGED <<settings, requests, events>>

Next ==
  \/ \E r \in Ids : \/ \E call \in Calls[r] : Arrive(r, call)
                    \/ Disconnect(r) \/ Handle(r)
  \/ \E e \in Engines : Reload(e)

Spec == Init /\ [][Next]_vars

-----------------------------------------------------------------------------
Answered == {r \in Ids : requests[r].phase = "answered"}

(* Rule #8, as a rank: the best container around a location. *)
Rank(location) ==
  IF location.within["device"] > 0 THEN 1
  ELSE IF location.within["tuple"] > 0 THEN 2
  ELSE IF location.within["person"] > 0 THEN 3 ELSE 4

(* A conversion is one of the first location by Rule #8, or there is none: *)
(* no document walks the service to a location that suits it better        *)
(* (decision 50).                                                          *)
FirstLocationConverted ==
  \A r \in Answered :
    LET doc  == requests[r].call.body.document
        from == requests[r].reply.from
    IN  requests[r].reply.status = 200 =>
          /\ \E child \in Range(doc[from].children) :
               child.kind = Profiled(requests[r].call.operation)
          /\ \A i \in Carrying(doc) \ {from} :
               \/ Rank(doc[from]) < Rank(doc[i])
               \/ Rank(doc[from]) = Rank(doc[i]) /\ from < i

Sibling(operation) ==
  CHOOSE other \in Strict \union Enhanced :
    Profiled(other) = Profiled(operation) /\ other # operation

(* The two interfaces are a controlled comparison: on the same data the    *)
(* same request gets the same status from both, unless the forward answers *)
(* do not settle on one, and then it is the enhanced one that answers.     *)
SiblingsAgree ==
  \A r \in Answered :
    LET call  == requests[r].call
        mine  == requests[r].reply.status
        other == Respond(Sibling(call.operation), call.body, requests[r].on,
                         settings).status
    IN  mine # other =>
          /\ call.operation \in Forward
          /\ requests[r].on.forward \in {"spread", "gapless"}
          /\ (IF call.operation \in Strict THEN other ELSE mine) = 200
          /\ (IF call.operation \in Strict THEN mine ELSE other)
               \in {307, 468, 500}

EventsOf(r) == {i \in DOMAIN events : events[i].id = r}

(* Every body a strict resource received is on record, malformed or not,   *)
(* with the status it was answered with, and the pair is never torn apart  *)
(* by another request; the exception is a handler that raised.             *)
EveryInputLogged ==
  \A r \in Ids :
    LET call  == requests[r].call
        reply == requests[r].reply
    IN  IF r \in Answered /\ call.operation \in Strict
        THEN \E i \in DOMAIN events :
               /\ events[i] = QueryEvent(r, call)
               /\ IF reply.status = 500 THEN EventsOf(r) = {i}
                  ELSE /\ EventsOf(r) = {i, i + 1}
                       /\ events[i + 1] = ResponseEvent(r, reply)
        ELSE EventsOf(r) = {}

Nested(doc) ==
  \E i \in Carrying(doc) : \E j, k \in Container :
    \/ j # k /\ doc[i].within[j] > 0 /\ doc[i].within[k] > 0
    \/ doc[i].within[j] > 1

(* What admission discarded shows on the enhanced interface: a count that  *)
(* is never below that of the locations there were, so that no count means *)
(* one location, and above it only where a container is within another;    *)
(* and a number that is none.                                              *)
DiscardDisclosed ==
  \A r \in Answered :
    LET call  == requests[r].call
        doc   == call.body.document
        reply == requests[r].reply
    IN  call.operation \in Enhanced /\ reply.status = 200 =>
          /\ Cardinality(Carrying(doc)) <= reply.count
          /\ ~Nested(doc) => reply.count = Cardinality(Carrying(doc))
          /\ reply.dropped <=>
               /\ call.operation \in Forward
               /\ LET location == doc[reply.from]
                      first    == FindChunk(location, "civic")
                      elements == location.children[first].elements
                      number   == Given(elements, "Add_Number")
                  IN  number # NoText /\ Digits(number) = {}

ElementsAsked ==
  {child.elements : child \in
     {c \in UNION {Range(l.children) : l \in
                     UNION {Range(requests[r].call.body.document) :
                              r \in {q \in Ids :
                                       requests[q].phase = "reading"}}} :
        c.kind = "civic"}}

Distinct(elements) ==
  \A i, j \in DOMAIN elements :
    i # j => elements[i].column # elements[j].column

(* The order of the elements on the wire does not change the address that  *)
(* is asked for (civic_xml.parse).                                         *)
WireOrderIrrelevant ==
  \A elements \in {e \in ElementsAsked : Distinct(e)} :
    ParseCivic(Reverse(elements)) = ParseCivic(elements)

(* Taking a number apart loses separators and leading zeros only: prefix,  *)
(* number and suffix are all there, the number is the last one, and what   *)
(* cannot be put together again is kept complete.                          *)
NothingElseLost ==
  \A elements \in ElementsAsked :
    LET text  == Given(elements, "Add_Number")
        parts == Decompose(text)
    IN  parts # NoNumber =>
          /\ Digits(parts.suffix) = {}
          /\ \E i, j \in DOMAIN text :
               LET digits == SubSeq(text, i, j)
               IN  /\ parts.prefix \o digits \o parts.suffix
                        = StripSeparators(text)
                   /\ digits # <<>> /\ Value(digits) = parts.number
          /\ parts.complete \in {NoText, text}
          /\ parts.complete = NoText =>
               parts.prefix = NoText /\ parts.suffix = NoText
=============================================================================
