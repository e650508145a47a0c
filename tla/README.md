# The Geocode Conversion Service, specified

This directory holds TLA+ specifications of the NENA i3 Geocode Conversion
Service (GCS) in `src/src/`, the TLC runs that check them on small instances,
and TLAPS proofs of what should hold for every instance. It is kept beside the
code: every definition that models code names the lines it models in
`PROJECT.json` ("map").

To check a module: `tlc -workers 2 -config GisDataset.cfg GisDataset.tla`; to
check the proofs: `tlapm GisDatasetProofs.tla`.

## The system

A GCS worker is one Python process with one asyncio event loop (FastAPI under
uvicorn or gunicorn) and, where a GeoPackage is configured, one watcher thread.
A container runs `prewarm.py` and then gunicorn with several workers, which
share the GeoPackage, its JSON cache and the SIP port, and nothing else.

| Component | State | Operations | Talks to |
|---|---|---|---|
| GIS provisioning (`gis/provisioning.py`) | `_ssap`, `_rcl`, `_cache` | load, populate from source or cache, serialize, watch | DatasetCache (i3_fe_core), field statistics; read by every request and by `/ready` |
| Field statistics (`gis/field_stats.py`) | four tables: factor and population of each layer's fields | recompute, look up | called by each load, read while scoring |
| Record conversion (`gis/records.py`) | none | rows and dicts to records | provisioning |
| Lifecycle (`app/lifecycle.py`) | `_schema`, `_worker`, `_sip_notifier` | startup, shutdown, reload callbacks, prewarm | everything below |
| Operational endpoints (`server.py`) | none | `/health`, `/ready`, states, body limit | provisioning, state store |
| SIP wire adapter (`notify/sip_notifier.py`) | `_wire` (Call-ID to WireContext), listeners | start, stop, SUBSCRIBE, NOTIFY | SipNotifier (i3_fe_core) |
| Admission (`api/admission.py`) | none | decode, validate, elect one location | wire parsers |
| Routes and status (`api/*.py`) | none | four conversions, status 200/307/454/468 | ladder, search, log events |
| Forward ladder (`geocode/`) | none | three rungs, ranking, ambiguity, merge | scoring, geometry |
| Reverse search (`reverse/`) | none | search, order, derive a civic address | scoring, geometry |
| Scoring (`engine/`) | the two registered scorers | score a query against a record | field statistics |
| Wire formats (`api/wire/`) | none | PIDF-LO, civic and GML parsing and building | admission, routes |
| Discrepancy reports (`discrepancy/`) | none | file a report from the loop or from the watcher thread | DiscrepancyReporting (i3_fe_core) |
| Logging, metrics, core wiring, workers | counters, components | emit, construct | i3_fe_core, gunicorn |

What is hard in it:

- **two threads on module globals**: a reload rebinds six globals one after
  the other, without a lock, while a request reads them one after the other;
- **failure that is not fatal**: a layer that cannot be read is skipped and the
  load goes on, and its outcome is then cached on disk under the new mtime;
- **restarts** that find a JSON cache of some earlier load;
- **one event loop, several suspended tasks** in the SIP adapter: `start()`,
  `stop()`, and every NOTIFY over TCP suspend while SUBSCRIBEs keep coming;
- **several workers on one port**: each of them tries once to bind it, twice
  (UDP, TCP), in any order with the others, and may die in between;
- **an average over what can be compared**: a disagreement, a silence and a
  weightless field are three different things in `score`, and which side of a
  road is compared depends on the number, the parity and a tie-break;
- **algorithms with many tie-breaks** (which rung wins, when candidates are
  ambiguous, how an interpolated number is rounded), where a boundary case is
  easy to get wrong and hard to hit.

`i3_fe_core` is a library outside the repository. What the specifications need
of it is modelled from how this code and its tests use it and is marked
external in the map.

## The modules

| Module | What it is |
|---|---|
| `GisDataset` | provisioning, field statistics, startup, the watcher, `/ready` and what a conversion reads |
| `DatasetStore` | what a conversion may rely on: the abstract specification `GisDataset` implements |
| `GisDatasetProofs` | the proofs about `GisDataset` |
| `SipWire` | the SIP wire adapter on its event loop, with the core's subscriptions |
| `SipWireProofs` | the proofs about `SipWire` |
| `Fleet` | a container and its workers: boots, deaths, the SIP port, discrepancy reports |
| `FleetProofs` | the proofs about `Fleet` |
| `Similarity` | how alike two words are: normalisation, edit distance, the qualification floors |
| `Scoring` | the forward scorer of both layers and the field statistics it weighs by |
| `WordScoring`, `MCScoring` | the same scorer, comparing words as `Similarity` does |
| `ScoringProofs` | the proofs about `Scoring` and `WordScoring` |
| `AddressRange` | the arithmetic on the address ranges of a road segment, shared by both directions |
| `RoundTrip`, `MCRoundTrip` | a client that geocodes a number and reverses positions on one segment |
| `RoundTripProofs` | the proofs about `RoundTrip` |
| `ForwardLadder`, `MCForwardLadder` | the forward conversion: three rungs, the winner, the strict answer |
| `ForwardLadderProofs` | the proofs about `ForwardLadder` |
| `GeoShapes` | the eight input shapes and the projection onto a path, on a grid |
| `ReverseSearch`, `MCReverseSearch` | the reverse conversion: hits, their order, the answers |
| `ReverseSearchProofs` | the proofs about `ReverseSearch` |
| `Admission` | what a request document says and whether it is admitted |
| `GcsRequest`, `MCGcsRequest` | the four resources: handlers, statuses, log events |
| `GcsRequestProofs` | the proofs about `Admission` and `GcsRequest` |

How they compose: `RoundTrip`, `ForwardLadder`, `ReverseSearch` and `Scoring`
extend `AddressRange`, `ReverseSearch` also `GeoShapes`, and `GcsRequest`
extends `Admission`. `Scoring` takes the similarity of words as a parameter,
which `WordScoring` fixes to what `Similarity` measures and `MCScoring`
tabulates; `ForwardLadder` takes scores as a parameter, as the code takes a
scorer. `GcsRequest` takes what a conversion finds from a small set
(`Engines`), because `ForwardLadder` and `ReverseSearch` say which of these
outcomes there are and `GisDataset` says when the data under a request change.
`Fleet` takes a load and an adapter's life as a few steps each; `GisDataset`
takes the load apart and `SipWire` the adapter. A module with an `MC` prefix
gives the constants their values, one without is parameterised.

### GisDataset

A GeoPackage, a list of records and a table are each represented by the
*version* of the GeoPackage they come from; 0 is the empty list. That is enough
to tell which dataset every value belongs to, which is all the properties ask.

| Variable | Code |
|---|---|
| `latest`, `present` | the GeoPackage file: its mtime, and whether it is there |
| `disk` | DatasetCache's JSON file: key (mtime), content, and (history) which layers the cached load had skipped |
| `mem`, `stats` | `_ssap`/`_rcl`; `_ssap_factors`, `_ssap_populations`, `_rcl_factors`, `_rcl_populations` |
| `phase`, `loader` | the process, and where its loading thread is (main thread at startup, then the watcher) |
| `target`, `seen`, `rows`, `reloading` | the mtime of the load in progress, that of the last complete one, the layer just read, `is_reloading` |
| `element`, `service` | the states set through the notifiers |
| `loop`, `view` | the conversion on the event loop: which list of each layer it holds, and the version of each table it last looked up |
| `lost`, `overlap`, `restarts` | history: layers whose last read failed; whether a reload ran beside this conversion; the restart bound |

`lifespan_startup` is `BootWithoutFile` or `BootWithFile` ... `StartupDone`;
`populate_from_source` is `ReadLayer`/`SkipLayer` and `BindLayer` for each
layer in the code's order; `populate_from_cache` is `BindCached`; `recompute`
is four `RebindStats`; DatasetCache's end of a load is `Save`, `SaveFails` or
`CachedLoadDone`; the watcher is `PollFindsChange`, `PollFails`; the callbacks
are `ReportElementNormal`, `ReportServiceNormal`, `ReportReloadFailure`. A
conversion is `BeginConversion`, `TakeRcl`, any number of `ScoreRecord`, maybe
`GoOnToRcl`, `EndConversion`: it never awaits, so two conversions do not
interleave, but the watcher thread may run between any two of its steps.

Assumed of DatasetCache: it takes the mtime before it reads; it polls again
after a failure. Left open, and therefore nondeterministic: whether the mtime
of a load whose result could not be saved counts as seen; whether an unusable
JSON payload leads to the GeoPackage or to an exception; whether the reloading
flag drops before or after the callback. Left out: layers with no rows (they
look like version 0), several workers sharing one JSON cache, the GeoPackage
vanishing between `os.path.exists` and the load, metrics and logging. The
discrepancy report of the failure callback is in `Fleet`, the measurement
behind `RebindStats` in `Scoring`.

### SipWire

| Variable | Code |
|---|---|
| `wire` | `SipWireAdapter._wire`: contact, transport and To-tag by Call-ID |
| `subs` | the core's live subscriptions, with the contact it accepted |
| `ready`, `connecting` | the event loop's ready queue; tasks suspended in `asyncio.open_connection` |
| `told` | the last NOTIFY sent on each Call-ID |
| `starting`, `stopping`, `udp`, `tcp`, `core` | where `start()` and `stop()` are; what is bound and running |
| `tags`, `state` | To-tags handed out; the version of the published state |
| `raced` | history: Call-IDs accepted while the end of an earlier subscription was being sent |
| `usurped` | history: Call-IDs that were refused something since they were accepted |

A task runs up to its first suspension, so the handler of a SUBSCRIBE is one
step, except that an unsubscription over TCP suspends in its terminating
NOTIFY and finishes in `FinishTcp`. Over UDP the same handler runs through.
`asyncio.ensure_future(self._transmit(...))` is a `transmit` task at the end
of the queue. One event package stands for both; requests that no listener
accepts, OPTIONS, header parsing, the minimum interval and CSeq numbers are
left out, and so is loss in the network. `set_state` is taken to reach the
core on the loop: how i3_fe_core brings it there from the watcher thread is not
visible here. Whether the core grants `Expires: 0` where it has no
subscription is the constant `GrantsFetch`. A dialog is told apart by its
To-tag: a context once stored keeps its tag, and a Call-ID without a context is
given the next one.

### Fleet

| Variable | Code |
|---|---|
| `file` | the version at `GCS_GPKG_PATH`, 0 before there is one |
| `container` | whether `prewarm.py` or gunicorn runs |
| `phase` | a worker's process: gone, booting (`lifespan_startup`), up, and the three places of `lifespan_shutdown` |
| `data`, `seen`, `watch` | the dataset a worker converts against, the version its watcher tried last, who has a watcher |
| `sip` | where `SipWireAdapter.start()` is |
| `udp`, `tcp` | whose sockets are bound to the SIP port |
| `scheduled` | `file_gis_dr` calls waiting on a worker's loop |
| `unfiled` | history: problems a worker has noticed and not filed |
| `deaths` | the bound on crashes and terminations |

`Prewarm`, `Fork`, `Boot...` and `Exit` are `gunicorn.conf.py`'s world as far
as this code depends on it: workers are replaced, and one whose startup raises
makes the arbiter halt, after which the container is started over
(`BootFails`). `BindUdp` and `BindTcp` are the two binds of `start()`, which
fail where another worker has the port; a failed TCP bind releases the UDP
socket, and nobody tries again. `Terminate`, `StopTcp`, `StopUdp`, `Exit` are
an orderly end, `Crash` any other; `stop()` does not wait for a `start()` that
is still binding. `ReloadFails` and `ConvertFlagged` are the two callers of
`discrepancy_report`, on the watcher thread and on the loop itself;
`FileReport` is `file_gis_dr` running, whatever becomes of the submission: each
report is a coroutine of its own that catches what goes wrong with it. Left
out: what the report says, reload by SIGHUP, TLS.

### Similarity, Scoring and WordScoring

A word is a sequence of characters, and a similarity a whole number out of 120
where the code has a float: for words of up to six characters no quotient
leaves a remainder. `Normalize`, `EditDistance`, `NameSimilarity`,
`BlendSimilarity`, `BinarySimilarity`, `StreetQualifies` and `Qualifies` are
the functions of that part of `scoring.py`; the expansion tables are a
parameter. `EditsBetween` is the edit distance as a recursive function of two
lengths, where the code keeps two rows of the same table. `Scoring` takes
similarities and gates as tables; `WordScoring` assumes of them
(`MeasuredAssumption`) that they hold what `Similarity` measures on the tokens
of the words. No value to compare (`None`) is -1, which is below every
similarity, so that it loses against any.

| Variable | Code |
|---|---|
| `layer` | the records of both layers, each cell passed through `records._plain` |
| `factor`, `count` | `field_stats`: the discriminative factor and the population of every field |
| `query` | the civic address scored |
| `terms` | for each record and concept, the similarity `score` uses and the field whose factor weighs it |
| `scores` | what the terms earned out of what they could have |

`Init` is a load: any admissible pair of layers with the statistics measured on
it. `Ask` is `score` of every record for one query. `Factor` is `_factor` with
its minimum sample; `BestSlot` is `_best_of_sides` over the two slots of type
and direction; `SideHint` is `_rcl_side_hint`; `Community` is the cascade with
its tie-break and `Capped` the cap on a town that does not qualify;
`Possible` and `Earned` are denominator and numerator of `_weighted_average`.
A score is kept as that fraction, so nothing is rounded. Left out: the reverse
scorer (`make_reverse_scorer` decorates answers without ordering them), the
per-field breakdown, reporting of the address number, and the registry that
holds the two scorers.

`QualifyingSideWins` and `GateFollowsReport` speak only of words on one scale
(`OneScale`). Half of the likeness of two words is by sound where both have a
letter, and none of it where either has not (`_normalized_similarity`): the two
scales are not comparable. A town "12" is 48 of 120 alike to the "ABC12" asked
and does not qualify, while "XYC12" qualifies and is 36 alike. The code
promises nothing there: `_community_qualifies` notes that no town of the
provisioned data begins with a digit.

### AddressRange and RoundTrip

A segment is a length in metres and two sides (from, to, parity); a position is
a side and an exact fraction along it, where the code has a float. `SelectSide`
and `Interpolate` are `position.select_side` and `interpolate` with the margin
of `path_frame`, `FromRcl` is `civic_derivation.from_rcl` with its rounding
half to even, its parity and its clamp. The perpendicular setback is left out:
it moves a position off the road, not along it. `RoundTrip` is a client of both
directions: `Geocode(n)`, then `ReverseBack` at the position it was given or
`ReverseAnywhere` on the segment.

### ForwardLadder

| Variable | Code |
|---|---|
| `ssap`, `rcl` | the two lists a conversion is given |
| `query`, `found` | the civic address and instant asked, and `identify`'s candidates: the enhanced answer |
| `strict` | what `strict_answer` makes of them: a point, a line, nothing, `AmbiguousResult`, or an exception |

A record carries the score it gets for the query at hand, because the scorer is
injected in the code as well; `Perfect` stands for 100, and confidences are
compared as integers. A place is a metre on one line, which is enough for
"apart by more than the tolerance" and for the mean of several candidates.
`SsapCandidates` and `RclCandidates` are the gates of rung 1 and of rungs 2 and
3, `Before` is the sort key of `_rank` and `_rank_segments`, `Identify` the
short circuit and the choice of the rung, `StrictAnswer` the tiers and the
spread tests. Requests keep nothing, so a behaviour has one. Left out: filing
discrepancies, the confidence and uncertainty fields of an answer, and the
merging of altitudes.

### GeoShapes and ReverseSearch

Places are points of a grid and distances are compared by their squares. Rings
and paths have legs along the axes, ellipses an orientation of 0 or 90 degrees,
arc bands open by 180 or 360 degrees: the formulas of `origin.py` are exact on
those. `Projection` is `project_onto_path` with its choice among equally close
legs. `SsapHits` and `RclHits` are the two halves of `search` (one hit each is
`SsapHit`, `RclHit`), `OrderingKey` the five terms of `ordering_key`, `Narrowed` decision 122, `Derive` the civic
address. The reverse scorer decorates answers without ordering them and is left
out.

### Admission and GcsRequest

A document is the sequence of its `<location-info>` elements with, for each,
how many devices, tuples and persons are around it, and what its children are.
A text is a sequence of characters: the digits, one letter, one separator.
`ElectLocation` and `FindChunk` are RFC 5491 Rule #8 and the chunk within;
`Decompose` and `ParseCivic` the address number and the civic address;
`Readable` says for which shapes `parse_shape` returns.

| Variable | Code |
|---|---|
| `settings` | `GCS_REFERRAL_URI`, the compiled `_schema`, `GCS_ENABLE_ENHANCED` |
| `engine` | what a conversion finds at the moment; `Reload` changes it |
| `requests` | each request: idle, waiting for its body, answered (with the reply and what it was computed on), gone |
| `events` | the log events emitted, in order |

`Arrive` and `Disconnect` surround the only suspension of a handler,
`await request.body()`; `Handle` is all of the rest, up to the reply. A reply
is its status, which location it converts, and what the enhanced envelope
discloses. An exception nothing catches is status 500: `strict_answer` raising
on segments without ranges, and a JSON string that escapes half a surrogate
pair, which cannot be encoded for the XML parser. Left out: the 413 of the body
limit and the 404 of a resource that is not mounted (neither reaches a
handler), `ScorerUnavailable` (both scorers are registered before the first
request), `srsDimension` attributes that are no numbers, entity and usage
rules, and rendering.

## The runs

| Run | Bounds | What it shows |
|---|---|---|
| `gis_dataset` | 2 GeoPackage versions, 1 restart, centerlines unreliable, the watcher fair | `QuietConversionCoherent`, `StaleOnlyIfSkipped`, `DownOnlyBeforeFirstLoad`; `LayersNeverRegress`; `ImplementsStore`; `ReadyReturns`, `ChangeArrives` |
| `fleet` | 2 workers, 3 versions of which the second cannot be loaded, 2 deaths, 1 waiting report per loop | `NoSplitListeners`; `ListenersComeBack`, `ProblemsAreFiled` |
| `sip_udp` | 2 dialogs over UDP | `DialogKeepsTag`, `NewsInOrder`, `NothingNewAfterEnd`; `SubscribersLearnState` |
| `sip_tcp` | 1 dialog over UDP and TCP, 2 contacts, 2 To-tags, 2 waiting tasks | `ContextLostOnlyInRace`, `NotifiedWhereAccepted`, where handlers suspend |
| `sip_race` | 1 dialog, TCP | violates `ContextForLiveSubscription` |
| `scoring` | layers of 1 to 3 records around the thresholds of names, towns, slots, codes and ranges | `TypeOK`, `PerfectOnlyIfAgreed`, `ConstantFieldsSilent`, `QualifyingSideWins`, `DrawingIrrelevant`, `AssertedScoredWherePlaced`, `GateFollowsReport` |
| `scoring_sides` | the same | violates `SidesAgree` |
| `round_trip` | 6 house numbers, every pair of sides over them, lengths 0, 4, 7, 9, margin 2 | `NumberComesBack`, `NearestNumber`; `NumbersGrowAlong` |
| `ladder` | pairs of address points beside one road, pairs of roads beside one point, 6 queries | `BestRungWins`, `OrderIrrelevant`, `AmbiguityIsReal`, `GapSettles` |
| `ladder_raised` | the same | violates `WiderTierSurvives` |
| `reverse` | pairs of points, pairs of roads, some of each; 19 shapes, radius 5 | `NearestForAPoint`, `ContainedComeFirst`, `OrderIrrelevant`, `AnswerGeocodesBack` |
| `gcs_request` | every kind of body, document, address and shape on the four resources, a second request, 5 settings, 4 engines | `FirstLocationConverted`, `SiblingsAgree`, `EveryInputLogged`, `DiscardDisclosed`, `WireOrderIrrelevant`, `NothingElseLost` |

Why the bounds are enough. Two versions are what it takes to have an old and a
new dataset, an overwritten file during a load, and a cache that is out of
date; one restart is what it takes to meet one's own cache. One layer that may
be unreadable is what it takes to have a load that replaces half of the data,
and leaves another one whose changes must arrive; the proofs cover every other
set. Two dialogs show that Call-IDs do not disturb each other; two waiting
tasks are the end of a subscription and its successor, and the longer chains
are left to the proofs of `SipWireProofs`. In `fleet`, two workers contend for
the port and two deaths take away its holder and the one that comes next; three
versions are a good one, a bad one and its repair.

The conversions compare candidates two at a time, so pairs of records show
every tie and every tie-break. The records of the MC modules lie on both sides
of every threshold: scores at the short circuit, just below it and below the
floor, two within the epsilon; places within, at and beyond the tolerance; hits
at the radius and beyond; ranges the number is in, below and above. Means of
three and more places are not covered. The lengths of `round_trip` are a
degenerate segment, one of exactly two margins, and two that are longer; six
numbers give ranges of one, two and more numbers, both parities and both
directions. In `gcs_request` two locations show every precedence; the second
request is there to come between the two events of the first. In
`scoring` the words lie on both sides of the qualification floor (an adjacent
transposition, one edit, two, another word) and some begin with digits; a
population of two is enough to have a factor (the code asks for 30, and its
value changes nothing but the number of records needed to get there); ranges
are ascending, descending, absent, unbounded in parity and with a parity the
code does not know.

Deadlock is checked in `round_trip` and `gcs_request` only: elsewhere the
provisioner may stop writing, a process that is down need not be restarted, a
fleet may be at rest, a stopped adapter has nothing to do, and a behaviour of
the scorer and of the two conversions ends with its one request.

### What does not hold

- **Wire contexts are not per subscription.** One may be missing where a
  subscription was accepted while the end of its predecessor was being sent
  over TCP (`sip_race`): its NOTIFYs are then dropped.
- **The strict interface raises on segments without ranges.** A query with a
  house number whose leading candidates are several segments that assert no
  range leaves an empty tier, and `strict_answer` indexes it (`ladder_raised`).
- **Scoring and placing may take different sides of a road.** `_rcl_side_hint`
  goes by the parity alone, `select_side` by the range that contains the number
  first. On a segment with 8-12 even on the left and 1-5 odd on the right the
  number 2 is scored on the left and placed on the right (`scoring_sides`),
  although both parities agree with their ranges, which is the case
  `scoring.py` 903-904 and 922-926 calls impossible. It takes a number that no
  range contains: `AssertedScoredWherePlaced` says that they agree on the
  others.

Other facts the models show, which no run is spent on:

- `ssap_records` promises a request "a consistent snapshot instead of seeing a
  half-swapped dataset". Each list is a snapshot, the pair is not: a conversion
  that begins between the two rebindings holds new address points and old
  centerlines. `QuietConversionCoherent` says what does hold: without a reload
  beside it, a conversion is coherent, tables included.
- The extent of an arc band is measured along its bisector, where the ends of a
  wide band are farther away.
- A layer that cannot be read is skipped, the load counts as a success, and
  both states become NORMAL while the old layer stays in use;
  `StaleOnlyIfSkipped` says what does hold, across the JSON cache as well.
- A wire context is left over by every refused, fetched or expired
  subscription, and a refused SUBSCRIBE replaces the contact of a live one:
  `NotifiedWhereAccepted` exempts those that were refused something since.
- The terminating NOTIFY always carries CSeq 1, and overtakes active NOTIFYs
  still queued; `NothingNewAfterEnd` says that what follows is nothing new.
- `stop()` does not wait for or cancel a `start()` that is suspended in a bind;
  `NoSplitListeners` exempts a worker on its way out.
- `is_leader()` is true in every worker, where `lifecycle.py` 122-132 and
  `.env.example` 228-233 speak of a leader that starts SIP alone. The port
  decides who serves; that worker publishes its own element and service state,
  whatever the others are in.
- A worker that lost the port never tries again. The listeners come back with
  the replacement of the one that had it, which cannot boot while the
  GeoPackage cannot be loaded; gunicorn then halts the workers that still
  convert with good data (`ListenersComeBack` exempts that time).
- A failure of the load at startup files no discrepancy report, one of a reload
  does.
- Which of two equally similar towns of a road is scored depends on the way the
  road was drawn, where they are found in different fields or weigh
  differently: `DrawingIrrelevant` exempts such ties.
- A worker started before its GeoPackage exists never watches for it
  (`BootWithoutFile` ends in "stopped"), and a first load that could read
  neither layer ends in service NORMAL.
- A segment shorter than two margins places every number at its middle and
  answers its low end everywhere (`position.py` 154-157 says that both
  directions agree by construction): `NumberComesBack` and `MarginApplied` say
  where they agree.
- A range whose From is above its To is laid out from its low end
  (`position.py` 123 takes the smaller of the two), where
  `GCS_Algorithm_Specification.md` 592 and 594 lay it out from From: by
  "From + fraction × (To − From)" the start of a side 5-1 has number 5, in the
  code it has 1, and numbers grow where they should fall. `NearestNumber` and
  `NumbersGrowAlong` therefore say how numbers lie along a side only where it
  ascends; on one that descends `NearestNumber` says that the number is
  admitted. `NumberComesBack` holds under either layout and covers both.
- Rank 1 may differ between the two interfaces for segments whose scores are
  within the epsilon (`response_assembly.py` 32 says it is the same), and
  merged points may be up to two tolerances apart (`candidates.py` 709-711
  compares with one), which `AmbiguityIsReal` bounds.
- A location inside a device inside a tuple counts twice in `locationCount`
  (`admission.py` 246-259), which then appears although the request carried one
  location (`response_json.py` 149-150 says that it does not).
  `DiscardDisclosed` says that the count is too high only where containers are
  nested, and never too low: no `locationCount` means one location
  (`GCS_Algorithm_Specification.md` 1892).
- A polygon needs three vertices, not "three distinct vertices"
  (`gml_xml.py` 197-198).
- A handler that raises leaves a query event without response event and a
  status outside the closed set; `EveryInputLogged` states it as the exception
  it is. The comment at `log_events.py` 100-102 still says that 468 has no
  body.

## Fairness

`LiveSpec` of `GisDataset` is `Spec /\ WF_vars(Loader)`: the loading thread is
an ordinary thread whose blocking calls return, so it keeps taking steps.
Nothing is assumed of the provisioner, of crashes and restarts, or of requests.
`ReadyReturns` and `ChangeArrives` therefore exempt a process that dies, and
the latter a file that is removed or overwritten. `LiveSpec` of `SipWire` is
`Spec /\ WF_vars(EventLoop)`: asyncio runs what is ready. Arrivals, state
changes, expiry, start and stop owe nothing.

`LiveSpec` of `Fleet` is weakly fair to `Fork` (gunicorn replaces workers), to
`Boot` and `Shutdown` (both come to an end; gunicorn kills a worker that does
not stop), and to what each loop has ready: the binds of `start()` and the
filing of reports. Each is fair for each worker alone, as the processes are
scheduled independently. Nothing is assumed of the GeoPackage, of prewarm, of
reloads, conversions, crashes and terminations.

## Proofs

`GisDatasetProofs` proves, for every number of versions and restarts and every
set of unreliable layers, with or without a watcher:

| Theorem | States |
|---|---|
| `TypeCorrect` | `Spec => []TypeOK` |
| `QuietConversionsAreCoherent` | `Spec => []QuietConversionCoherent` |
| `OnlySkippedLayersAreStale` | `Spec => []StaleOnlyIfSkipped` |
| `DownIsForEmptyProcesses` | `Spec => []DownOnlyBeforeFirstLoad` |
| `DataNeverRegresses` | `Spec => LayersNeverRegress` |
| `DatasetImplementsStore` | `Spec => ImplementsStore` |

All rest on `BoundsAssumption` and `LayersAssumption` alone and on one
inductive invariant `IInv`. None of the properties is inductive: each speaks
of the moments between loads, and an arbitrary state in the middle of a load
says nothing of what will be there at its end. `IInv` adds what holds at each
place of the loader: `Threads` (whose turn it is; a load beside the event loop
has raised the flag and is recorded in `overlap`), `Ages` (no version is newer
than the file, and what is about to be bound is no older than what it
replaces), `TablesMeasured` (the tables behind the loader are measured on the
lists in place), `LayersFresh` (the layers behind the loader are as new as the
load's target or recorded lost, in memory as in the JSON cache), `QuietView`
and `DownMeansEmpty`. Each part has a lemma with one step per action; the
refinement (`StoreStep`) maps every action to a step of `DatasetStore` or to a
stutter under `IInv`.

`RoundTripProofs` proves, for every margin and all sets of numbers, lengths and
sides (`MarginAssumption`, `NumbersAssumption`, `SidesAssumption`):

| Theorem | States |
|---|---|
| `RoundTripTypeCorrect` | `Spec => []TypeOK` |
| `NumbersComeBack` | `Spec => []NumberComesBack` |
| `AssertedNumbersArePlaced` | `Spec => []AssertedIsPlaced` |
| `NumbersGrow` | `Spec => NumbersGrowAlong` |
| `NumbersAreNearest` | `Spec => []NearestNumber` |

The inductive invariant `Remembers` says that `placed` is the interpolation of
`asked` and `told` the derivation at `origin`, on a well-typed segment; what
remains is arithmetic: division and rounding half to even, the parity step and
the clamp, each a lemma of its own. The last two theorems speak of sides that
ascend, as their properties do.

`ForwardLadderProofs` proves, for all layers and queries and every setting of
the thresholds (`LadderAssumption`):

| Theorem | States |
|---|---|
| `TypeCorrect` | `Spec => []TypeOK` |
| `TheBestRungWins` | `Spec => []BestRungWins` |
| `NumbersAreNotInvented` | `Spec => []NumberNeverInvented` |
| `TheNearestSegmentAnswers` | `Spec => []GapSettles` |
| `AmbiguitiesAreReal` | `Spec => []AmbiguityIsReal` |
| `TheReadingOrderIsIrrelevant` | `Spec => []OrderIrrelevant` |
| `SuccessorsNeverMeet` | `Spec => []OneInForce` |

The invariant `Answered` says that `found` and `strict` are what `Identify` and
`StrictAnswer` give for the query. The proofs rest on the notion of a `Rung`, a
finite set of typed candidates told apart by their place in the layer, on which
`RankOne` exists and has the highest confidence (`RankOneExists`,
`RankOneIsBest`); `IdentifyPicksARung` is the case distinction over the short
circuit and the three rungs. That rank 1 exists at all needs the order to be
well-founded: a candidate with the least confidence deficit, then the least
gap, then the least NGUID, then the first place in the layer.

The spread test compares with a mean. `TotalIsASum` characterises the sum of
places the community modules define by choosing one candidate after another: it
exists, is an integer, and it does not matter which is added last (each by a
least set for which it would fail, `NoneIsLeast`). So a sum lies between as
many times the least term and the greatest, and candidates within a tolerance
of each other are within it of their mean (`CloseNeverScatter`); those within
it of their mean are within two of each other (`MergedAreClose`). Read
backwards, two layers give rungs that correspond (`Matches`: the same records,
NGUIDs of their own, only the places in the layer differ), and rank 1, sums,
spread, the competing tier, the nearest tier and the strict answer of
corresponding rungs are the same.

`OneInForce` is stated beside its proof and checked by no run: it holds of every
layer and instant by `SuccessorsNeverMeet`.

`SipWireProofs` proves, for any Call-IDs, contacts and transports and any number
of To-tags and waiting tasks:

| Theorem | States |
|---|---|
| `SipTypes` | `Spec => []TypeOK` |
| `ContextsLostOnlyInRaces` | `Spec => []ContextLostOnlyInRace` |
| `SubscribersStayWhereAccepted` | `Spec => []NotifiedWhereAccepted` |
| `DialogsKeepTags` | `Spec => DialogKeepsTag` |
| `NewsLeavesInOrder` | `Spec => NewsInOrder` |
| `EndsAreLastNews` | `Spec => NothingNewAfterEnd` |

The inductive invariant `Wired` adds to the types and the two invariants
`EndsAreRaced`: a subscription that lives while an end is being sent on its
Call-ID is one of those accepted in between. Without it nothing tells whose
context `FinishTcp` deletes. It needs in turn that no task of its own sends an
end, which is why `TypeOK` says that what waits in the queue is active. The
sequence lemmas (`LeftOver`, `Listed`, `OneMore`) say what is left when a
connection is done and that a finite set has a sequence of its elements.

The order of NOTIFYs needs two invariants more. `InOrder`: the states in the
queue never decrease, and none is older than what was sent on UDP. `Ended`: a
To-tag whose end went out over UDP is in no context any more, and whatever is
still to come with it, in the queue or connecting, is no newer than the end.
Both follow from one description of every step (`Delivers`): which tasks leave
the queue, in front; that the NOTIFYs it adds behind have the context and the
state of the moment; that To-tags are kept or new; and what may be sent.
`EveryStepDelivers` shows it of each action. Neither theorem supposes that
there is no TCP; NOTIFYs that connect overtake each other, which is why
`NewsInOrder` speaks of those over UDP.

`FleetProofs` proves, for any number of workers, versions and deaths and every
set of versions that cannot be loaded:

| Theorem | States |
|---|---|
| `FleetTypes` | `Spec => []TypeOK` |
| `OneWorkerListens` | `Spec => []NoSplitListeners` |

The invariant `Orderly` adds `Adapters`, which says whose sockets are bound by
where `start()` is: a worker about to bind TCP holds UDP unless it is on its
way out, one that holds TCP is through. `NoSplitListeners` alone does not say
whose UDP socket the worker has that binds TCP.

`ScoringProofs` proves, for all layers, queries, words, similarities and
qualification gates (`ScoringAssumption`, `WordAssumption`):

| Theorem | States |
|---|---|
| `ScoresAreShares` | `Spec => []TypeOK`: no score is below 0 or above 100 |
| `PerfectScoresAgree` | `Spec => []PerfectOnlyIfAgreed` |
| `AssertedNumbersAgree` | `Spec => []AssertedScoredWherePlaced` |
| `DrawingMakesNoDifference` | `Spec => []DrawingIrrelevant` |
| `ConstantFieldsAreSilent` | `Spec => []ConstantFieldsSilent` |
| `TheCapFallsRight` | `Spec => []QualifyingSideWins` |
| `GatesFollowReports` | `Spec => []GateFollowsReport` |

The invariant `Scored` says that the tables are those of the layers and that
terms and scores are what `Terms` and `Score` give for the query. The rest is
that the best of the offers exists (`BestSlot`, `Community` and `AreaLikeness`
choose one), that each term earns no more than it could, and that a layer with
one value in a field gives that field the factor 0.

Only the last two need `MeasuredAssumption`; of arbitrary tables they are
false. They rest on what `Similarity` computes. That the edit distance is an
integer, for words of any length, is an argument by a least counterexample
(`DistancesExist`, `DistanceType`), since induction over data is out of reach.
A word that qualifies is at least 30 of 120 alike (60 where there is no letter
to sound), one that does not qualify is less (`QualifiedIsAlike`,
`BlendSplits`, `NamesSplit`), and halving and dividing with a remainder keep
the strict inequality.

`ReverseSearchProofs` proves, for every pair of layers, set of shapes, radius
and margin (`ReverseAssumption`, `MarginAssumption`):

| Theorem | States |
|---|---|
| `TheContainedComeFirst` | `Spec => []ContainedComeFirst` |
| `APointOrdersByProximity` | `Spec => []NearestForAPoint` |
| `TheReadingOrderIsIrrelevant` | `Spec => []OrderIrrelevant` |
| `AnswersGeocodeBack` | `Spec => []AnswerGeocodesBack` |

The inductive invariant `SearchInv` says that `ordered` is the search of
`shape` in the layers and `listed` the answers it makes; the rest is about the
operators. The order compares seven numbers (five of `ordering_key`, layer,
place in the layer) lexicographically, so it is strict and total
(`BeforeIsStrict`), a hit has as many before it as its rank says, and the
sorted list is the only one there is (`OrderFacts`). Contained hits come first
because that is the first number; read backwards, two hits with NGUIDs of their
own still differ before the last. A Point's nearest place survives clamping,
the choice of a leg, the radius and the sort one after the other. A number
answered lies in its side's range, which leaves `select_side` no third side,
and rounding to a parity moves it by less than two. Sums over a path are those
of the community modules, which recurse over subsets: `PartialSumsExist` shows
that the sum of any finite set of integers exists, by a least number of terms
for which it would not.

`GcsRequestProofs` proves, for every set of requests, documents, settings and
engines (`RequestAssumption`):

| Theorem | States |
|---|---|
| `TheFirstLocationIsConverted` | `Spec => []FirstLocationConverted` |
| `TheSiblingsAgree` | `Spec => []SiblingsAgree` |
| `EveryInputIsLogged` | `Spec => []EveryInputLogged` |
| `DiscardsAreDisclosed` | `Spec => []DiscardDisclosed` |
| `TheWireOrderIsIrrelevant` | `Spec => []WireOrderIrrelevant` |
| `NumbersLoseNothingElse` | `Spec => []NothingElseLost` |

The inductive invariant `RequestInv` is `EveryInputLogged` with what a request
can be: idle, gone, reading one of its calls, or answered with what `Respond`
gives for that call on some engine. `EveryInputLogged` says of each request
where its events are, so a step that appends two has to show that all earlier
ones stay where they were (`Handle` is one step: no event of another request
gets between). `ElectedIsFirst` is Rule #8: the election scans four ranks, and
the first of the best one exists because positions are well-founded. That a
count is never too low is an injection of the locations into what is counted
(`NoneUncounted`), a bijection where nothing is nested (`CountedOnce`).
`NumbersLoseNothingElse` is about texts of any length: `FoldExists` shows that
the fold which strips separators exists (the community modules define it over
the subsets of the positions), `StripIsKept` that it keeps one character after
the other, and `StripOfJoin` that texts joined are stripped each for itself. So
the three pieces into which `Decompose` cuts a number give it back.

`RoundTrip.AssertedIsPlaced`, `ForwardLadder.NumberNeverInvented` and the type
invariants of `GisDataset`, `RoundTrip`, `ForwardLadder`, `SipWire` and `Fleet`
are proved and therefore left out of the runs.

Model-checked only: the liveness properties (fairness and ENABLED are out of
the prover's reach).

## Plan

1. `GisDataset`, `DatasetStore` and their proofs: done.
2. `AddressRange`, `RoundTrip` and their proofs; `ForwardLadder` and its
   proofs: done.
3. `Similarity`, `Scoring`, `WordScoring` and their proofs, `Fleet` and its
   proofs, `SipWire` and its proofs: done.
4. `GeoShapes`, `ReverseSearch` and their proofs; `Admission`, `GcsRequest` and
   their proofs: done.
5. An abstract specification of the event loop's subscriptions (what a
   subscriber may rely on) for `SipWire` to implement outside of the race.
6. The JSON cache shared by several workers (`GisDataset` with more than one
   loader), and the rest of record conversion: dates, and the form in which
   `serialize` writes a record and `dict_to_ssap` and `dict_to_rcl` read it.

## Not modelled

Geodesic geometry (places on a line or a grid stand for it) and floating-point
rounding: TLC has integers. The reverse scorer, the breakdown of a score and
the Pydantic models: they decorate answers and decide nothing. The full tables
of abbreviations: data. XML parsing and the rendering of PIDF-LO and JSON,
vertical positions, the perpendicular setback: transformations of one value at
a time, which unit tests reach. Dates and numpy scalars on their way into a
record. Configuration validation, `/health`, the state endpoints and the body
limit: no state. What a discrepancy report says, and its submission: the
library's. SIP parsing, OPTIONS, the minimum interval of subscriptions and CSeq
numbers. Reload by SIGHUP, TLS, metrics and the wording of log events.
