----------------------------- MODULE GisDataset -----------------------------
(***************************************************************************)
(* The GIS data of one GCS worker process: the two layers held by          *)
(* src/gis/provisioning.py, the field statistics measured from them by     *)
(* src/gis/field_stats.py, the loader that fills both (lifespan_startup in *)
(* the main thread, then the watcher thread), the JSON cache on disk, and  *)
(* the event loop that reads all of it while it converts or answers        *)
(* /ready.                                                                 *)
(*                                                                         *)
(* A list of records, a factor table and a GeoPackage are each represented *)
(* by the version of the GeoPackage they come from; version 0 is the empty *)
(* list (or table) the process starts with.                                *)
(***************************************************************************)
EXTENDS Integers, FiniteSets

CONSTANTS
  MaxVersion,   \* bound: how many times the GeoPackage is (re)written
  MaxRestarts,  \* bound: how many times the process is started again
  Unreliable,   \* the layers whose read may raise though the file is there
  Watches       \* GCS_GPKG_POLL_INTERVAL_SECONDS > 0

Layer   == {"ssap", "rcl"}
Table   == {"factors", "populations"}
Version == 0 .. MaxVersion

ASSUME BoundsAssumption == MaxVersion \in Nat \ {0} /\ MaxRestarts \in Nat
ASSUME LayersAssumption == Unreliable \subseteq Layer /\ Watches \in BOOLEAN

VARIABLES
  latest,     \* the newest GeoPackage version written
  present,    \* the GeoPackage is on disk
  disk,       \* the JSON cache: key (mtime it was built from) and content
  phase,      \* the process: "down", "starting", "serving"
  loader,     \* where the loading thread is
  target,     \* the mtime the load in progress is for
  seen,       \* the mtime of the last load DatasetCache completed
  rows,       \* the layer just read, not yet bound to its global
  mem,        \* provisioning._ssap and _rcl
  stats,      \* field_stats: the factor and population table of each layer
  reloading,  \* DatasetCache.is_reloading
  element,    \* element state
  service,    \* service state
  loop,       \* what the event loop is executing
  view,       \* what the conversion in progress has read
  restarts,
  lost,       \* history: layers whose last read raised and was skipped
  overlap     \* history: a reload ran during the conversion in progress

fileVars    == <<latest, present>>
memVars     == <<mem, stats, lost>>
cacheVars   == <<disk, target, seen, rows>>
stateVars   == <<element, service>>
requestVars == <<loop, view, overlap>>
processVars == <<phase, restarts>>
vars == <<fileVars, memVars, cacheVars, stateVars, requestVars, processVars,
          loader, reloading>>

NoLists == [l \in Layer |-> 0]
NoStats == [l \in Layer |-> [t \in Table |-> 0]]
Unread  == -1
NoView  == [lists |-> NoLists,
            used  |-> [l \in Layer |-> [t \in Table |-> Unread]]]

Init ==
  /\ present \in BOOLEAN
  /\ latest = IF present THEN 1 ELSE 0
  /\ disk = [key |-> 0, lists |-> NoLists, lost |-> {}]
  /\ phase = "starting" /\ loader = "boot" /\ restarts = 0
  /\ mem = NoLists /\ stats = NoStats /\ lost = {}
  /\ target = 0 /\ seen = 0 /\ rows = 0 /\ reloading = FALSE
  /\ element = "UNSET" /\ service = "UNSET"
  /\ loop = "idle" /\ view = NoView /\ overlap = FALSE

-----------------------------------------------------------------------------
(***************************************************************************)
(* The provisioning process that owns the GeoPackage, outside the service. *)
(***************************************************************************)
ReplaceFile ==
  /\ latest < MaxVersion
  /\ latest'  = latest + 1
  /\ present' = TRUE
  /\ UNCHANGED <<memVars, cacheVars, stateVars, requestVars, processVars,
                 loader, reloading>>

RemoveFile ==
  /\ present
  /\ present' = FALSE
  /\ UNCHANGED <<latest, memVars, cacheVars, stateVars, requestVars,
                 processVars, loader, reloading>>

-----------------------------------------------------------------------------
(***************************************************************************)
(* Process life: a crash (or an aborted startup) loses every global and    *)
(* keeps the file and the JSON cache.                                      *)
(***************************************************************************)
Die ==
  /\ phase' = "down"
  /\ loader' = "down"
  /\ mem' = NoLists /\ stats' = NoStats /\ lost' = {}
  /\ target' = 0 /\ seen' = 0 /\ rows' = 0 /\ reloading' = FALSE
  /\ element' = "UNSET" /\ service' = "UNSET"
  /\ loop' = "idle" /\ view' = NoView /\ overlap' = FALSE
  /\ UNCHANGED <<fileVars, disk, restarts>>

Crash == phase = "serving" /\ Die

Restart ==
  /\ phase = "down"
  /\ restarts < MaxRestarts
  /\ restarts' = restarts + 1
  /\ phase' = "starting"
  /\ loader' = "boot"
  /\ UNCHANGED <<fileVars, memVars, cacheVars, stateVars, requestVars,
                 reloading>>

(* lifespan_startup without a GeoPackage: the service comes up DOWN and no *)
(* watcher thread is started.                                              *)
BootWithoutFile ==
  /\ loader = "boot"
  /\ ~present
  /\ element' = "SERVICE_DISRUPTION"
  /\ service' = "DOWN"
  /\ phase'   = "serving"
  /\ loader'  = "stopped"
  /\ UNCHANGED <<fileVars, memVars, cacheVars, requestVars, restarts,
                 reloading>>

(* Mutant: any JSON cache is used, whatever mtime it was built from. *)
BootWithAnyCache ==
  /\ loader = "boot"
  /\ present
  /\ target' = latest
  /\ IF disk.key # 0
     THEN loader' = "cacheSsap" /\ seen' = latest
     ELSE loader' = "readSsap" /\ UNCHANGED seen
  /\ UNCHANGED <<fileVars, memVars, disk, rows, stateVars, requestVars,
                 processVars, reloading>>

(* DatasetCache.load: the JSON cache when its key is the file's mtime,     *)
(* otherwise the GeoPackage.                                               *)
BootWithFile ==
  /\ loader = "boot"
  /\ present
  /\ target' = latest
  /\ IF disk.key = latest
     THEN loader' = "cacheSsap" /\ seen' = latest
     ELSE loader' = "readSsap" /\ UNCHANGED seen
  /\ UNCHANGED <<fileVars, memVars, disk, rows, stateVars, requestVars,
                 processVars, reloading>>

-----------------------------------------------------------------------------
(***************************************************************************)
(* populate_from_source: each layer is read, then bound; a layer that      *)
(* cannot be read keeps the list it had.                                   *)
(***************************************************************************)
ReadStep(l)    == IF l = "ssap" THEN "readSsap" ELSE "readRcl"
BindStep(l)    == IF l = "ssap" THEN "bindSsap" ELSE "bindRcl"
\* Mutant: populate_from_source ends without recompute.
AfterLayerUnmeasured(l) == IF l = "ssap" THEN "readRcl" ELSE "save"

AfterLayer(l)  == IF l = "ssap" THEN "readRcl"  ELSE "ssapFactors"

ReadLayer(l) ==
  /\ loader = ReadStep(l)
  /\ present
  /\ rows' = latest
  /\ loader' = BindStep(l)
  /\ UNCHANGED <<fileVars, memVars, disk, target, seen, stateVars,
                 requestVars, processVars, reloading>>

(* Mutant: a layer that cannot be read is bound to the empty list. *)
EmptyLayer(l) ==
  /\ loader = ReadStep(l)
  /\ ~present \/ l \in Unreliable
  /\ mem' = [mem EXCEPT ![l] = 0]
  /\ lost' = lost \union {l}
  /\ loader' = AfterLayer(l)
  /\ UNCHANGED <<fileVars, stats, cacheVars, stateVars, requestVars,
                 processVars, reloading>>

SkipLayer(l) ==
  /\ loader = ReadStep(l)
  /\ ~present \/ l \in Unreliable
  /\ lost' = lost \union {l}
  /\ loader' = AfterLayer(l)
  /\ UNCHANGED <<fileVars, mem, stats, cacheVars, stateVars, requestVars,
                 processVars, reloading>>

BindLayer(l) ==
  /\ loader = BindStep(l)
  /\ mem' = [mem EXCEPT ![l] = rows]
  /\ rows' = 0
  /\ lost' = lost \ {l}
  /\ loader' = AfterLayer(l)
  /\ UNCHANGED <<fileVars, stats, disk, target, seen, stateVars, requestVars,
                 processVars, reloading>>

(***************************************************************************)
(* populate_from_cache: the two lists are bound from the payload.          *)
(***************************************************************************)
BindCached(l) ==
  /\ loader = IF l = "ssap" THEN "cacheSsap" ELSE "cacheRcl"
  /\ mem' = [mem EXCEPT ![l] = disk.lists[l]]
  /\ lost' = IF l \in disk.lost THEN lost \union {l} ELSE lost \ {l}
  /\ loader' = IF l = "ssap" THEN "cacheRcl" ELSE "ssapFactors"
  /\ UNCHANGED <<fileVars, stats, cacheVars, stateVars, requestVars,
                 processVars, reloading>>

(* A payload dict_to_ssap or dict_to_rcl cannot convert raises; whether    *)
(* DatasetCache then reads the source or lets the exception out is not     *)
(* visible from this repository, so both are allowed.                      *)
CachedPayloadUnusable ==
  /\ loader \in {"cacheSsap", "cacheRcl"}
  /\ \/ /\ loader' = "readSsap"
        /\ seen' = 0
        /\ UNCHANGED <<fileVars, memVars, disk, target, rows, stateVars,
                       requestVars, processVars, reloading>>
     \/ Die

(***************************************************************************)
(* field_stats.recompute: four tables measured on the bound lists, then    *)
(* rebound one after the other.                                            *)
(***************************************************************************)
\* Mutant: recompute forgets to rebind _rcl_populations.
StatsStepShort ==
  [ssapFactors     |-> [layer |-> "ssap", table |-> "factors",
                        next |-> "ssapPopulations"],
   ssapPopulations |-> [layer |-> "ssap", table |-> "populations",
                        next |-> "rclFactors"],
   rclFactors      |-> [layer |-> "rcl", table |-> "factors",
                        next |-> "save"]]

StatsStep ==
  [ssapFactors     |-> [layer |-> "ssap", table |-> "factors",
                        next |-> "ssapPopulations"],
   ssapPopulations |-> [layer |-> "ssap", table |-> "populations",
                        next |-> "rclFactors"],
   rclFactors      |-> [layer |-> "rcl", table |-> "factors",
                        next |-> "rclPopulations"],
   rclPopulations  |-> [layer |-> "rcl", table |-> "populations",
                        next |-> "save"]]

RebindStats ==
  /\ loader \in DOMAIN StatsStep
  /\ LET s == StatsStep[loader]
     IN  /\ stats' = [stats EXCEPT ![s.layer][s.table] = mem[s.layer]]
         /\ loader' = s.next
  /\ UNCHANGED <<fileVars, mem, lost, cacheVars, stateVars, requestVars,
                 processVars, reloading>>

(***************************************************************************)
(* DatasetCache after populate: serialize() is written under the mtime the *)
(* load was for, and the mtime counts as seen.                             *)
(***************************************************************************)
\* Mutant: the mtime that counts as seen is read after the load.
SaveStatsLate ==
  /\ loader = "save"
  /\ seen # target
  /\ disk' = [key |-> target, lists |-> mem, lost |-> lost]
  /\ seen' = latest
  /\ target' = 0
  /\ loader' = IF phase = "starting" THEN "up" ELSE "okElement"
  /\ UNCHANGED <<fileVars, memVars, rows, stateVars, requestVars,
                 processVars, reloading>>

Save ==
  /\ loader = "save"
  /\ seen # target
  /\ disk' = [key |-> target, lists |-> mem, lost |-> lost]
  /\ seen' = target
  /\ target' = 0
  /\ loader' = IF phase = "starting" THEN "up" ELSE "okElement"
  /\ UNCHANGED <<fileVars, memVars, rows, stateVars, requestVars,
                 processVars, reloading>>

(* The cache file cannot be written. At startup the exception leaves       *)
(* load(); in the watcher it reaches on_failure, and whether the mtime     *)
(* then counts as seen is DatasetCache's affair.                           *)
SaveFails ==
  /\ loader = "save"
  /\ seen # target
  /\ \/ phase = "starting" /\ Die
     \/ /\ phase = "serving"
        /\ loader' = "failElement"
        /\ seen' \in {seen, target}
        /\ target' = 0
        /\ UNCHANGED <<fileVars, memVars, disk, rows, stateVars,
                       requestVars, processVars, reloading>>

(* A load that came from the JSON cache has nothing to save. *)
CachedLoadDone ==
  /\ loader = "save"
  /\ seen = target
  /\ target' = 0
  /\ loader' = "up"
  /\ UNCHANGED <<fileVars, memVars, disk, seen, rows, stateVars, requestVars,
                 processVars, reloading>>

-----------------------------------------------------------------------------
(***************************************************************************)
(* The end of lifespan_startup: both states NORMAL, the watcher started.   *)
(***************************************************************************)
StartupDone ==
  /\ loader = "up"
  /\ element' = "NORMAL"
  /\ service' = "NORMAL"
  /\ phase'   = "serving"
  /\ loader'  = IF Watches THEN "watch" ELSE "stopped"
  /\ UNCHANGED <<fileVars, memVars, cacheVars, requestVars, restarts,
                 reloading>>

(* DatasetCache.watch finds another mtime and starts a reload. *)
PollFindsChange ==
  /\ loader = "watch"
  /\ ~reloading
  /\ present
  /\ latest # seen
  /\ reloading' = TRUE
  /\ overlap' = (loop # "idle")
  /\ target' = latest
  /\ loader' = "readSsap"
  /\ UNCHANGED <<fileVars, memVars, disk, seen, rows, stateVars, loop, view,
                 processVars>>

(* The file is gone when the watcher looks: its mtime cannot be read. *)
PollFails ==
  /\ loader = "watch"
  /\ ~reloading
  /\ ~present
  /\ loader' = "failElement"
  /\ UNCHANGED <<fileVars, memVars, cacheVars, stateVars, requestVars,
                 processVars, reloading>>

(* _on_gpkg_reload_success, one set_state at a time. *)
ReportElementNormal ==
  /\ loader = "okElement"
  /\ element' = "NORMAL"
  /\ loader' = "okService"
  /\ UNCHANGED <<fileVars, memVars, cacheVars, service, requestVars,
                 processVars, reloading>>

ReportServiceNormal ==
  /\ loader = "okService"
  /\ service' = "NORMAL"
  /\ loader' = "watch"
  /\ UNCHANGED <<fileVars, memVars, cacheVars, element, requestVars,
                 processVars, reloading>>

(* Mutant: a failed reload takes the service DOWN as well. *)
ReportReloadFailureDown ==
  /\ loader = "failElement"
  /\ element' = "SERVICE_DISRUPTION"
  /\ service' = "DOWN"
  /\ loader' = "watch"
  /\ UNCHANGED <<fileVars, memVars, cacheVars, requestVars, processVars,
                 reloading>>

(* Mutant: the callback raises and takes the watcher thread with it. *)
ReportReloadFailureRaises ==
  /\ loader = "failElement"
  /\ loader' = "stopped"
  /\ UNCHANGED <<fileVars, memVars, cacheVars, stateVars, requestVars,
                 processVars, reloading>>

(* _on_gpkg_reload_failure: the element state alone. *)
ReportReloadFailure ==
  /\ loader = "failElement"
  /\ element' = "SERVICE_DISRUPTION"
  /\ loader' = "watch"
  /\ UNCHANGED <<fileVars, memVars, cacheVars, service, requestVars,
                 processVars, reloading>>

(* is_reloading drops once populate is over, before or after the callback. *)
ReloadFlagDown ==
  /\ reloading
  /\ loader \in {"okElement", "okService", "failElement", "watch"}
  /\ reloading' = FALSE
  /\ UNCHANGED <<fileVars, memVars, cacheVars, stateVars, requestVars,
                 processVars, loader>>

-----------------------------------------------------------------------------
(***************************************************************************)
(* The event loop. conversion.geocode reads _ssap, then _rcl, then scores  *)
(* record after record, looking the tables up live each time; it never     *)
(* awaits, so only the watcher thread can run in between.                  *)
(***************************************************************************)
BeginConversion ==
  /\ phase = "serving"
  /\ loop = "idle"
  /\ loop' = "haveSsap"
  /\ view' = [NoView EXCEPT !.lists["ssap"] = mem["ssap"]]
  /\ overlap' = reloading
  /\ UNCHANGED <<fileVars, memVars, cacheVars, stateVars, processVars,
                 loader, reloading>>

TakeRcl ==
  /\ loop = "haveSsap"
  /\ loop' = "scoreSsap"
  /\ view' = [view EXCEPT !.lists["rcl"] = mem["rcl"]]
  /\ UNCHANGED <<fileVars, memVars, cacheVars, stateVars, processVars,
                 overlap, loader, reloading>>

(* One more record of layer l is scored; used keeps the version of table t *)
(* it was scored with.                                                     *)
ScoreRecord(l, t) ==
  /\ loop = IF l = "ssap" THEN "scoreSsap" ELSE "scoreRcl"
  /\ view.lists[l] # 0
  /\ view' = [view EXCEPT !.used[l][t] = stats[l][t]]
  /\ UNCHANGED <<fileVars, memVars, cacheVars, stateVars, processVars,
                 loop, overlap, loader, reloading>>

(* Rung 1 did not settle the answer: identify goes on to the centerlines. *)
GoOnToRcl ==
  /\ loop = "scoreSsap"
  /\ loop' = "scoreRcl"
  /\ UNCHANGED <<fileVars, memVars, cacheVars, stateVars, processVars,
                 view, overlap, loader, reloading>>

EndConversion ==
  /\ loop \in {"scoreSsap", "scoreRcl"}
  /\ loop' = "idle"
  /\ view' = NoView
  /\ overlap' = FALSE
  /\ UNCHANGED <<fileVars, memVars, cacheVars, stateVars, processVars,
                 loader, reloading>>

-----------------------------------------------------------------------------
Provisioner == ReplaceFile \/ RemoveFile

Loader ==
  \/ BootWithoutFile \/ BootWithFile
  \/ \E l \in Layer : ReadLayer(l) \/ SkipLayer(l) \/ BindLayer(l)
  \/ \E l \in Layer : BindCached(l)
  \/ CachedPayloadUnusable
  \/ RebindStats \/ Save \/ SaveFails \/ CachedLoadDone \/ StartupDone
  \/ PollFindsChange \/ PollFails
  \/ ReportElementNormal \/ ReportServiceNormal \/ ReportReloadFailure
  \/ ReloadFlagDown

EventLoop ==
  \/ BeginConversion \/ TakeRcl \/ GoOnToRcl \/ EndConversion
  \/ \E l \in Layer, t \in Table : ScoreRecord(l, t)

Next == Provisioner \/ Crash \/ Restart \/ Loader \/ EventLoop

Spec == Init /\ [][Next]_vars

(* The watcher thread keeps being scheduled, whatever the requests do; the *)
(* provisioner, a crash and a supervisor's restart owe nothing.            *)
LiveSpec == Spec /\ WF_vars(Loader)

-----------------------------------------------------------------------------
LoaderStep ==
  {"down", "boot", "readSsap", "bindSsap", "readRcl", "bindRcl", "cacheSsap",
   "cacheRcl", "ssapFactors", "ssapPopulations", "rclFactors",
   "rclPopulations", "save", "up", "okElement", "okService", "failElement",
   "watch", "stopped"}

Lists  == [Layer -> Version]
Tables == [Layer -> [Table -> Version]]
View   == [lists : Lists, used : [Layer -> [Table -> Version \union {Unread}]]]

(* Every variable has its type. *)
TypeOK ==
  /\ latest \in Version
  /\ present \in BOOLEAN
  /\ disk \in [key : Version, lists : Lists, lost : SUBSET Layer]
  /\ phase \in {"down", "starting", "serving"}
  /\ loader \in LoaderStep
  /\ {target, seen, rows} \subseteq Version
  /\ mem \in Lists
  /\ stats \in Tables
  /\ reloading \in BOOLEAN
  /\ element \in {"UNSET", "NORMAL", "SERVICE_DISRUPTION"}
  /\ service \in {"UNSET", "NORMAL", "DOWN"}
  /\ loop \in {"idle", "haveSsap", "scoreSsap", "scoreRcl"}
  /\ view \in View
  /\ restarts \in 0 .. MaxRestarts
  /\ lost \subseteq Layer
  /\ overlap \in BOOLEAN

Loading == loader \in {"boot", "readSsap", "bindSsap", "readRcl", "bindRcl",
                      "cacheSsap", "cacheRcl", "ssapFactors",
                      "ssapPopulations", "rclFactors", "rclPopulations",
                      "save", "up"}
Scoring == loop \in {"scoreSsap", "scoreRcl"}
HasData == \E l \in Layer : mem[l] # 0

(* What /ready answers 200 on. *)
Ready == phase = "serving" /\ ~reloading /\ HasData

(* A conversion no reload ran beside works on one coherent dataset: the    *)
(* two lists in place, and only factors and populations measured on those  *)
(* very lists, although the scorer looks each of them up live.             *)
QuietConversionCoherent ==
  Scoring /\ ~overlap =>
    /\ view.lists = mem
    /\ \A l \in Layer, t \in Table :
         view.used[l][t] \in {Unread, view.lists[l]}

(* Between loads a layer is older than the mtime DatasetCache believes it  *)
(* has loaded only if its own read raised and was skipped - in this load,  *)
(* or in the one whose result the JSON cache preserved across restarts.    *)
StaleOnlyIfSkipped ==
  ~Loading /\ phase = "serving" =>
    \A l \in Layer : mem[l] >= seen \/ l \in lost

(* ServiceState is DOWN only in a process that never loaded anything, and  *)
(* stays what startup made of it when reloads fail.                        *)
DownOnlyBeforeFirstLoad == service = "DOWN" => ~HasData

(* Stale data is preferred over no data: while the process lives, no layer *)
(* is replaced by an older version, the empty list included.               *)
LayersNeverRegress ==
  [][phase' # "down" => \A l \in Layer : mem'[l] >= mem[l]]_vars

(* A serving worker that holds data is ready again after every reload,     *)
(* also one that fails, unless the process dies.                           *)
ReadyReturns == (phase = "serving" /\ HasData) ~> (Ready \/ phase = "down")

(* A new GeoPackage reaches every layer of a watching worker whose reads   *)
(* do not raise, unless it is overwritten or removed first or the process  *)
(* dies.                                                                   *)
ChangeArrives ==
  \A v \in 1 .. MaxVersion :
    (phase = "serving" /\ loader # "stopped" /\ present /\ latest = v)
      ~> (\/ \A l \in Layer \ Unreliable : mem[l] >= v
          \/ ~present \/ latest > v \/ phase = "down")

-----------------------------------------------------------------------------
(* The loader implements DatasetStore: a load is in progress from the boot *)
(* or the poll that starts it until its result is reported.                *)
Store == INSTANCE DatasetStore WITH
  busy    <- Loading \/ loader = "down",
  lists   <- mem,
  tables  <- stats,
  reading <- loop # "idle",
  quiet   <- loop # "idle" /\ ~overlap,
  took    <- view.lists,
  used    <- view.used

(* Every step of the loader, of the event loop and of the process is a     *)
(* step DatasetStore allows, or changes nothing a conversion can see.      *)
ImplementsStore == Store!Spec
=============================================================================
