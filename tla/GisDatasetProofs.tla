-------------------------- MODULE GisDatasetProofs --------------------------
(***************************************************************************)
(* Proofs about GisDataset, for every number of GeoPackage versions and of *)
(* restarts, every set of unreliable layers, with or without a watcher.    *)
(***************************************************************************)
EXTENDS GisDataset, TLAPS

Reported == {"okElement", "okService", "failElement", "watch", "stopped"}
Measuring == {"ssapFactors", "ssapPopulations", "rclFactors",
              "rclPopulations"}

(* The loader's places from which the loading thread can only have come    *)
(* past the reading of layer l, or past the measuring of its table t.      *)
PastLayer(l) ==
  Measuring \union {"save"} \union
    (IF l = "ssap" THEN {"readRcl", "bindRcl", "cacheRcl"} ELSE {})

PastTable(l, t) ==
  Reported \union {"save", "up"} \union
    (IF l = "rcl"
     THEN IF t = "factors" THEN {"rclPopulations"} ELSE {}
     ELSE {"rclFactors", "rclPopulations"} \union
            IF t = "factors" THEN {"ssapPopulations"} ELSE {})

(* Which thread runs what: the loader starts the process and only then     *)
(* hands over to the event loop, and every later load raises the flag.     *)
Threads ==
  /\ phase = "down" <=> loader = "down"
  /\ phase = "starting" => Loading
  /\ loader \in {"boot", "cacheSsap", "cacheRcl", "up"} => phase = "starting"
  /\ phase = "serving" /\ Loading => reloading /\ seen # target
  /\ phase # "serving" => loop = "idle" /\ ~reloading
  /\ loop = "idle" => view = NoView /\ ~overlap
  /\ Loading /\ loop # "idle" => overlap

(* No list is newer than the GeoPackage, and what is about to be bound is  *)
(* no older than what it replaces.                                         *)
Ages ==
  /\ target <= latest /\ seen <= latest /\ rows <= latest
  /\ disk.key <= latest
  /\ \A l \in Layer :
       /\ mem[l] <= latest
       /\ disk.lists[l] <= latest
       /\ loader = BindStep(l) => rows >= mem[l] /\ rows >= target
       /\ loader \in {"cacheSsap", "boot", "down"} => mem[l] = 0
  /\ loader = "cacheRcl" => mem["rcl"] = 0
  /\ loader \in {"boot", "down"} => stats = NoStats /\ seen = 0

(* Each table is measured on the list in place once the loader is past it. *)
TablesMeasured ==
  \A l \in Layer, t \in Table :
    loader \in PastTable(l, t) => stats[l][t] = mem[l]

(* A layer is as new as the mtime its load is for, or its read raised.     *)
LayersFresh ==
  /\ \A l \in Layer :
       /\ disk.lists[l] >= disk.key \/ l \in disk.lost
       /\ phase = "serving" \/ loader = "up" => mem[l] >= seen \/ l \in lost
       /\ loader \in PastLayer(l) => mem[l] >= target \/ l \in lost
  /\ loader \in {"cacheSsap", "cacheRcl"} => disk.key = target
  /\ Loading /\ loader \notin {"boot", "up"} => seen <= target

(* What a conversion without a reload beside it has taken is still there.  *)
QuietView ==
  loop # "idle" /\ ~overlap =>
    /\ view.lists["ssap"] = mem["ssap"]
    /\ Scoring => view.lists = mem
    /\ loop = "haveSsap" => view.used = NoView.used
    /\ \A l \in Layer, t \in Table :
         view.used[l][t] \in {Unread, view.lists[l]}

DownMeansEmpty == service = "DOWN" => loader = "stopped" /\ ~HasData

IInv ==
  /\ TypeOK /\ Threads /\ Ages /\ TablesMeasured /\ LayersFresh
  /\ QuietView /\ DownMeansEmpty

-----------------------------------------------------------------------------
(* The loader's four steps through the tables.                             *)
LEMMA StatsStepFields ==
  ASSUME NEW p \in DOMAIN StatsStep
  PROVE  /\ p \in Measuring
         /\ StatsStep[p].layer = IF p \in {"ssapFactors", "ssapPopulations"}
                                 THEN "ssap" ELSE "rcl"
         /\ StatsStep[p].table = IF p \in {"ssapFactors", "rclFactors"}
                                 THEN "factors" ELSE "populations"
         /\ StatsStep[p].next = CASE p = "ssapFactors" -> "ssapPopulations"
                                  [] p = "ssapPopulations" -> "rclFactors"
                                  [] p = "rclFactors" -> "rclPopulations"
                                  [] p = "rclPopulations" -> "save"
<1>1. p \in Measuring
  BY DEF StatsStep, Measuring
<1>2. CASE p = "ssapFactors"
  BY <1>1, <1>2 DEF StatsStep
<1>3. CASE p = "ssapPopulations"
  BY <1>1, <1>3 DEF StatsStep
<1>4. CASE p = "rclFactors"
  BY <1>1, <1>4 DEF StatsStep
<1>5. CASE p = "rclPopulations"
  BY <1>1, <1>5 DEF StatsStep
<1>6. QED
  BY <1>1, <1>2, <1>3, <1>4, <1>5 DEF Measuring

(* What a process starts with has the types of what it holds later.        *)
LEMMA NoneTyped ==
  /\ 0 \in Version /\ NoLists \in Lists /\ NoStats \in Tables
  /\ NoView \in View
<1>1. 0 \in Version
  BY BoundsAssumption DEF Version
<1>2. NoLists \in Lists
  BY <1>1 DEF NoLists, Lists
<1>3. NoStats \in Tables
  BY <1>1 DEF NoStats, Tables
<1>4. NoView \in View
  BY <1>2 DEF NoView, View, Unread
<1>5. QED
  BY <1>1, <1>2, <1>3, <1>4

(* A list function changed at one layer is still one.                     *)
LEMMA ListTyped ==
  ASSUME NEW f \in Lists, NEW l \in Layer, NEW v \in Version
  PROVE  [f EXCEPT ![l] = v] \in Lists /\ f[l] \in Version
BY DEF Lists

(* A table function changed at one table is still one.                    *)
LEMMA TableTyped ==
  ASSUME NEW f \in Tables, NEW l \in Layer, NEW t \in Table, NEW v \in Version
  PROVE  [f EXCEPT ![l][t] = v] \in Tables /\ f[l][t] \in Version
BY DEF Tables

(* A conversion's view changed at one point is still one.                 *)
LEMMA ViewTyped ==
  ASSUME NEW w \in View, NEW l \in Layer, NEW t \in Table, NEW v \in Version
  PROVE  /\ [w EXCEPT !.lists[l] = v] \in View
         /\ [w EXCEPT !.used[l][t] = v] \in View
BY DEF View, Lists

(* Every step keeps the types.                                           *)
LEMMA TypeOKStep == TypeOK /\ [Next]_vars => TypeOK'
<1> SUFFICES ASSUME TypeOK, [Next]_vars PROVE TypeOK'
  OBVIOUS
<1> USE NoneTyped DEF TypeOK, fileVars, memVars, cacheVars, stateVars,
  requestVars, processVars
<1>1. CASE ReplaceFile
  BY <1>1, BoundsAssumption DEF ReplaceFile, Version
<1>2. CASE RemoveFile
  <2>1. present' \in BOOLEAN
    BY <1>2 DEF RemoveFile
  <2>2. QED
    BY <1>2, <2>1 DEF RemoveFile
<1>3. CASE Crash
  BY <1>3 DEF Crash, LoaderStep, Die
<1>4. CASE Restart
  BY <1>4, BoundsAssumption DEF Restart, LoaderStep
<1>5. CASE BootWithoutFile
  BY <1>5 DEF BootWithoutFile, LoaderStep
<1>6. CASE BootWithFile
  BY <1>6 DEF BootWithFile, LoaderStep
<1>7. ASSUME NEW l \in Layer, ReadLayer(l) PROVE TypeOK'
  BY <1>7 DEF ReadLayer, LoaderStep, BindStep, ReadStep
<1>8. ASSUME NEW l \in Layer, SkipLayer(l) PROVE TypeOK'
  BY <1>8 DEF SkipLayer, LoaderStep, AfterLayer, ReadStep
<1>9. ASSUME NEW l \in Layer, BindLayer(l) PROVE TypeOK'
  BY <1>9, ListTyped DEF BindLayer, LoaderStep, AfterLayer, BindStep
<1>10. ASSUME NEW l \in Layer, BindCached(l) PROVE TypeOK'
  <2>1. disk.lists \in Lists /\ disk.lists[l] \in Version
    BY ListTyped
  <2>2. mem' \in Lists
    BY <1>10, <2>1, ListTyped DEF BindCached
  <2>3. lost' \subseteq Layer
    BY <1>10 DEF BindCached
  <2>4. loader' \in LoaderStep
    BY <1>10 DEF BindCached, LoaderStep
  <2>5. QED
    BY <1>10, <2>2, <2>3, <2>4 DEF BindCached
<1>11. CASE CachedPayloadUnusable
  BY <1>11 DEF CachedPayloadUnusable, LoaderStep, Die
<1>12. CASE RebindStats
  <2> DEFINE s == StatsStep[loader]
  <2>1. s.layer \in Layer /\ s.table \in Table /\ s.next \in LoaderStep
    BY <1>12, StatsStepFields
        DEF RebindStats, Measuring, Layer, Table, LoaderStep
  <2>2. stats' = [stats EXCEPT ![s.layer][s.table] = mem[s.layer]]
        /\ loader' = s.next
    BY <1>12 DEF RebindStats
  <2>3. mem[s.layer] \in Version
    BY <2>1, ListTyped
  <2>4. stats' \in Tables
    BY <2>1, <2>2, <2>3, TableTyped
  <2>5. QED
    BY <1>12, <2>1, <2>2, <2>4 DEF RebindStats
<1>13. CASE Save
  BY <1>13 DEF Save, LoaderStep
<1>14. CASE SaveFails
  BY <1>14 DEF SaveFails, LoaderStep, Die
<1>15. CASE CachedLoadDone
  BY <1>15 DEF CachedLoadDone, LoaderStep
<1>16. CASE StartupDone
  BY <1>16 DEF StartupDone, LoaderStep
<1>17. CASE PollFindsChange
  BY <1>17 DEF PollFindsChange, LoaderStep
<1>18. CASE PollFails
  BY <1>18 DEF PollFails, LoaderStep
<1>19. CASE ReportElementNormal
  BY <1>19 DEF ReportElementNormal, LoaderStep
<1>20. CASE ReportServiceNormal
  BY <1>20 DEF ReportServiceNormal, LoaderStep
<1>21. CASE ReportReloadFailure
  BY <1>21 DEF ReportReloadFailure, LoaderStep
<1>22. CASE ReloadFlagDown
  BY <1>22 DEF ReloadFlagDown, LoaderStep
<1>23. CASE BeginConversion
  <2>1. view' \in View
    <3>1. "ssap" \in Layer /\ mem["ssap"] \in Version
      BY ListTyped DEF Layer
    <3>2. QED
      BY <1>23, <3>1, ViewTyped, NoneTyped DEF BeginConversion, Table
  <2>2. QED
    BY <1>23, <2>1 DEF BeginConversion
<1>24. CASE TakeRcl
  <2>1. view' \in View
    <3>1. "rcl" \in Layer /\ mem["rcl"] \in Version
      BY ListTyped DEF Layer
    <3>2. QED
      BY <1>24, <3>1, ViewTyped DEF TakeRcl, Table
  <2>2. QED
    BY <1>24, <2>1 DEF TakeRcl
<1>25. ASSUME NEW l \in Layer, NEW t \in Table, ScoreRecord(l, t)
      PROVE TypeOK'
  <2>1. view' \in View
    BY <1>25, ViewTyped, TableTyped DEF ScoreRecord
  <2>2. QED
    BY <1>25, <2>1 DEF ScoreRecord
<1>26. CASE GoOnToRcl
  BY <1>26 DEF GoOnToRcl, LoaderStep
<1>27. CASE EndConversion
  BY <1>27 DEF EndConversion
<1>28. CASE UNCHANGED vars
  BY <1>28 DEF vars
<1>29. QED
  BY <1>1, <1>2, <1>3, <1>4, <1>5, <1>6, <1>7, <1>8, <1>9, <1>10, <1>11,
    <1>12, <1>13, <1>14, <1>15, <1>16, <1>17, <1>18, <1>19, <1>20, <1>21,
    <1>22, <1>23, <1>24, <1>25, <1>26, <1>27, <1>28 DEF Next, Provisioner,
    Loader, EventLoop

(* Whose turn it is, the flag and the history of the reload that overlaps. *)
LEMMA ThreadsStep == TypeOK /\ Threads /\ [Next]_vars => Threads'
<1> SUFFICES ASSUME TypeOK /\ Threads, [Next]_vars PROVE Threads'
  OBVIOUS
<1> USE  DEF Threads, Loading, fileVars, memVars, cacheVars, stateVars,
  requestVars, processVars
<1>1. CASE ReplaceFile
  BY <1>1 DEF ReplaceFile
<1>2. CASE RemoveFile
  BY <1>2 DEF RemoveFile
<1>3. CASE Crash
  BY <1>3 DEF Crash, Die
<1>4. CASE Restart
  BY <1>4 DEF Restart
<1>5. CASE BootWithoutFile
  BY <1>5 DEF BootWithoutFile
<1>6. CASE BootWithFile
  BY <1>6 DEF BootWithFile
<1>7. ASSUME NEW l \in Layer, ReadLayer(l) PROVE Threads'
  BY <1>7 DEF ReadLayer, BindStep, ReadStep
<1>8. ASSUME NEW l \in Layer, SkipLayer(l) PROVE Threads'
  BY <1>8 DEF SkipLayer, AfterLayer, ReadStep
<1>9. ASSUME NEW l \in Layer, BindLayer(l) PROVE Threads'
  BY <1>9 DEF BindLayer, AfterLayer, BindStep
<1>10. ASSUME NEW l \in Layer, BindCached(l) PROVE Threads'
  BY <1>10 DEF BindCached
<1>11. CASE CachedPayloadUnusable
  BY <1>11 DEF CachedPayloadUnusable, Die
<1>12. CASE RebindStats
  BY <1>12, StatsStepFields DEF RebindStats, Measuring, LoaderStep, TypeOK
<1>13. CASE Save
  BY <1>13 DEF Save
<1>14. CASE SaveFails
  BY <1>14 DEF SaveFails, Die
<1>15. CASE CachedLoadDone
  BY <1>15 DEF CachedLoadDone, TypeOK
<1>16. CASE StartupDone
  <2>1. loader' \in {"watch", "stopped"} /\ phase' = "serving"
    BY <1>16 DEF StartupDone
  <2>2. loop' = "idle" /\ view' = NoView /\ ~overlap'
    BY <1>16 DEF StartupDone
  <2>3. QED
    BY <2>1, <2>2
<1>17. CASE PollFindsChange
  BY <1>17 DEF PollFindsChange, TypeOK
<1>18. CASE PollFails
  BY <1>18 DEF PollFails
<1>19. CASE ReportElementNormal
  BY <1>19 DEF ReportElementNormal
<1>20. CASE ReportServiceNormal
  BY <1>20 DEF ReportServiceNormal
<1>21. CASE ReportReloadFailure
  BY <1>21 DEF ReportReloadFailure
<1>22. CASE ReloadFlagDown
  BY <1>22 DEF ReloadFlagDown
<1>23. CASE BeginConversion
  BY <1>23 DEF BeginConversion
<1>24. CASE TakeRcl
  BY <1>24 DEF TakeRcl
<1>25. ASSUME NEW l \in Layer, NEW t \in Table, ScoreRecord(l, t)
      PROVE Threads'
  BY <1>25 DEF ScoreRecord
<1>26. CASE GoOnToRcl
  BY <1>26 DEF GoOnToRcl
<1>27. CASE EndConversion
  BY <1>27 DEF EndConversion
<1>28. CASE UNCHANGED vars
  BY <1>28 DEF vars
<1>29. QED
  BY <1>1, <1>2, <1>3, <1>4, <1>5, <1>6, <1>7, <1>8, <1>9, <1>10, <1>11,
    <1>12, <1>13, <1>14, <1>15, <1>16, <1>17, <1>18, <1>19, <1>20, <1>21,
    <1>22, <1>23, <1>24, <1>25, <1>26, <1>27, <1>28 DEF Next, Provisioner,
    Loader, EventLoop

(* Versions are numbers: what the arithmetic of the steps below needs.    *)
LEMMA Numbers ==
  ASSUME TypeOK
  PROVE  /\ {latest, target, seen, rows, disk.key} \subseteq Nat
         /\ \A l \in Layer : mem[l] \in Nat /\ disk.lists[l] \in Nat
BY BoundsAssumption DEF TypeOK, Version, Lists

(* Every step keeps the order between versions.                          *)
LEMMA AgesStep == IInv /\ [Next]_vars => Ages'
<1> SUFFICES ASSUME IInv, [Next]_vars PROVE Ages'
  OBVIOUS
<1> USE  DEF Ages, BindStep, fileVars, memVars, cacheVars, stateVars,
  requestVars, processVars
<1>a. /\ {latest, target, seen, rows, disk.key} \subseteq Nat
      /\ \A l \in Layer : mem[l] \in Nat /\ disk.lists[l] \in Nat
  BY Numbers DEF IInv
<1>b. Ages /\ Threads
  BY DEF IInv
<1>1. CASE ReplaceFile
  BY <1>1, <1>a, <1>b DEF ReplaceFile
<1>2. CASE RemoveFile
  BY <1>2, <1>a, <1>b DEF RemoveFile
<1>3. CASE Crash
  BY <1>3, <1>a, <1>b DEF Crash, Die, NoLists
<1>4. CASE Restart
  BY <1>4, <1>a, <1>b DEF Restart, Threads
<1>5. CASE BootWithoutFile
  BY <1>5, <1>a, <1>b DEF BootWithoutFile
<1>6. CASE BootWithFile
  BY <1>6, <1>a, <1>b DEF BootWithFile
<1>7. ASSUME NEW l \in Layer, ReadLayer(l) PROVE Ages'
  BY <1>7, <1>a, <1>b DEF ReadLayer, BindStep, ReadStep, Layer
<1>8. ASSUME NEW l \in Layer, SkipLayer(l) PROVE Ages'
  BY <1>8, <1>a, <1>b DEF SkipLayer, AfterLayer, ReadStep, Layer
<1>9. ASSUME NEW l \in Layer, BindLayer(l) PROVE Ages'
  <2>1. rows' = 0 /\ mem' = [mem EXCEPT ![l] = rows] /\ rows >= mem[l]
    BY <1>9, <1>a, <1>b DEF BindLayer
  <2>2. loader' \in {"readRcl", "ssapFactors"}
    BY <1>9, <1>a, <1>b DEF BindLayer, AfterLayer
  <2>3. \A k \in Layer : mem'[k] <= latest
    BY <1>9, <1>a, <1>b, <2>1 DEF TypeOK, IInv, Lists
  <2>4. QED
    BY <1>9, <1>a, <1>b, <2>1, <2>2, <2>3 DEF BindLayer
<1>10. ASSUME NEW l \in Layer, BindCached(l) PROVE Ages'
  BY <1>10, <1>a, <1>b DEF BindCached, Layer, IInv, TypeOK, Lists
<1>11. CASE CachedPayloadUnusable
  BY <1>11, <1>a, <1>b DEF CachedPayloadUnusable, Die, NoLists
<1>12. CASE RebindStats
  BY <1>12, <1>a, <1>b, StatsStepFields DEF RebindStats, Measuring
<1>13. CASE Save
  BY <1>13, <1>a, <1>b DEF Save, IInv, TypeOK
<1>14. CASE SaveFails
  BY <1>14, <1>a, <1>b DEF SaveFails, Die, NoLists
<1>15. CASE CachedLoadDone
  BY <1>15, <1>a, <1>b DEF CachedLoadDone
<1>16. CASE StartupDone
  BY <1>16, <1>a, <1>b DEF StartupDone
<1>17. CASE PollFindsChange
  BY <1>17, <1>a, <1>b DEF PollFindsChange
<1>18. CASE PollFails
  BY <1>18, <1>a, <1>b DEF PollFails
<1>19. CASE ReportElementNormal
  BY <1>19, <1>a, <1>b DEF ReportElementNormal
<1>20. CASE ReportServiceNormal
  BY <1>20, <1>a, <1>b DEF ReportServiceNormal
<1>21. CASE ReportReloadFailure
  BY <1>21, <1>a, <1>b DEF ReportReloadFailure
<1>22. CASE ReloadFlagDown
  BY <1>22, <1>a, <1>b DEF ReloadFlagDown
<1>23. CASE BeginConversion
  BY <1>23, <1>a, <1>b DEF BeginConversion
<1>24. CASE TakeRcl
  BY <1>24, <1>a, <1>b DEF TakeRcl
<1>25. ASSUME NEW l \in Layer, NEW t \in Table, ScoreRecord(l, t) PROVE Ages'
  BY <1>25, <1>a, <1>b DEF ScoreRecord
<1>26. CASE GoOnToRcl
  BY <1>26, <1>a, <1>b DEF GoOnToRcl
<1>27. CASE EndConversion
  BY <1>27, <1>a, <1>b DEF EndConversion
<1>28. CASE UNCHANGED vars
  BY <1>a, <1>b, <1>28 DEF vars
<1>29. QED
  BY <1>1, <1>2, <1>3, <1>4, <1>5, <1>6, <1>7, <1>8, <1>9, <1>10, <1>11,
    <1>12, <1>13, <1>14, <1>15, <1>16, <1>17, <1>18, <1>19, <1>20, <1>21,
    <1>22, <1>23, <1>24, <1>25, <1>26, <1>27, <1>28 DEF Next, Provisioner,
    Loader, EventLoop

(* Every step keeps the tables behind the loader measured on its lists.  *)
LEMMA TablesMeasuredStep == IInv /\ [Next]_vars => TablesMeasured'
<1> SUFFICES ASSUME IInv, [Next]_vars PROVE TablesMeasured'
  OBVIOUS
<1> USE  DEF TablesMeasured, PastTable, Reported, Measuring, Layer, Table,
  fileVars, memVars, cacheVars, stateVars, requestVars, processVars
<1>a. /\ {latest, target, seen, rows, disk.key} \subseteq Nat
      /\ \A l \in Layer : mem[l] \in Nat /\ disk.lists[l] \in Nat
  BY Numbers DEF IInv
<1>b. TablesMeasured /\ Ages
  BY DEF IInv
<1>1. CASE ReplaceFile
  BY <1>1, <1>a, <1>b DEF ReplaceFile
<1>2. CASE RemoveFile
  BY <1>2, <1>a, <1>b DEF RemoveFile
<1>3. CASE Crash
  BY <1>3, <1>a, <1>b DEF Crash, Die
<1>4. CASE Restart
  BY <1>4, <1>a, <1>b DEF Restart
<1>5. CASE BootWithoutFile
  <2>1. mem' = mem /\ stats' = NoStats
    BY <1>5, <1>b DEF BootWithoutFile, Ages
  <2>2. \A l \in Layer : mem[l] = 0
    BY <1>5, <1>b DEF BootWithoutFile, Ages
  <2>3. QED
    BY <2>1, <2>2 DEF NoStats
<1>6. CASE BootWithFile
  BY <1>6, <1>a, <1>b DEF BootWithFile
<1>7. ASSUME NEW l \in Layer, ReadLayer(l) PROVE TablesMeasured'
  BY <1>7, <1>a, <1>b DEF ReadLayer, BindStep, ReadStep, Layer
<1>8. ASSUME NEW l \in Layer, SkipLayer(l) PROVE TablesMeasured'
  BY <1>8, <1>a, <1>b DEF SkipLayer, AfterLayer, ReadStep, Layer
<1>9. ASSUME NEW l \in Layer, BindLayer(l) PROVE TablesMeasured'
  BY <1>9, <1>a, <1>b DEF BindLayer, AfterLayer, BindStep, Layer
<1>10. ASSUME NEW l \in Layer, BindCached(l) PROVE TablesMeasured'
  BY <1>10, <1>a, <1>b DEF BindCached
<1>11. CASE CachedPayloadUnusable
  BY <1>11, <1>a, <1>b DEF CachedPayloadUnusable, Die
<1>12. CASE RebindStats
  <2> DEFINE s == StatsStep[loader]
  <2>1. mem' = mem /\ loader' = s.next
    BY <1>12 DEF RebindStats
  <2>2. stats' = [stats EXCEPT ![s.layer][s.table] = mem[s.layer]]
    BY <1>12 DEF RebindStats
  <2>3. \A l \in Layer, t \in Table :
          stats'[l][t] = IF l = s.layer
              /\ t = s.table THEN mem[l] ELSE stats[l][t]
    BY <2>2 DEF IInv, TypeOK, Tables
  <2>4. QED
    BY <1>12, <1>b, <2>1, <2>3, StatsStepFields DEF RebindStats
<1>13. CASE Save
  BY <1>13, <1>a, <1>b DEF Save
<1>14. CASE SaveFails
  BY <1>14, <1>a, <1>b DEF SaveFails, Die
<1>15. CASE CachedLoadDone
  BY <1>15, <1>a, <1>b DEF CachedLoadDone
<1>16. CASE StartupDone
  BY <1>16, <1>a, <1>b DEF StartupDone
<1>17. CASE PollFindsChange
  BY <1>17, <1>a, <1>b DEF PollFindsChange
<1>18. CASE PollFails
  BY <1>18, <1>a, <1>b DEF PollFails
<1>19. CASE ReportElementNormal
  BY <1>19, <1>a, <1>b DEF ReportElementNormal
<1>20. CASE ReportServiceNormal
  BY <1>20, <1>a, <1>b DEF ReportServiceNormal
<1>21. CASE ReportReloadFailure
  BY <1>21, <1>a, <1>b DEF ReportReloadFailure
<1>22. CASE ReloadFlagDown
  BY <1>22, <1>a, <1>b DEF ReloadFlagDown
<1>23. CASE BeginConversion
  BY <1>23, <1>a, <1>b DEF BeginConversion
<1>24. CASE TakeRcl
  BY <1>24, <1>a, <1>b DEF TakeRcl
<1>25. ASSUME NEW l \in Layer, NEW t \in Table, ScoreRecord(l, t)
      PROVE TablesMeasured'
  BY <1>25, <1>a, <1>b DEF ScoreRecord
<1>26. CASE GoOnToRcl
  BY <1>26, <1>a, <1>b DEF GoOnToRcl
<1>27. CASE EndConversion
  BY <1>27, <1>a, <1>b DEF EndConversion
<1>28. CASE UNCHANGED vars
  BY <1>a, <1>b, <1>28 DEF vars
<1>29. QED
  BY <1>1, <1>2, <1>3, <1>4, <1>5, <1>6, <1>7, <1>8, <1>9, <1>10, <1>11,
    <1>12, <1>13, <1>14, <1>15, <1>16, <1>17, <1>18, <1>19, <1>20, <1>21,
    <1>22, <1>23, <1>24, <1>25, <1>26, <1>27, <1>28 DEF Next, Provisioner,
    Loader, EventLoop

(* Every step keeps the layers behind the loader fresh or recorded lost. *)
LEMMA LayersFreshStep == IInv /\ [Next]_vars => LayersFresh'
<1> SUFFICES ASSUME IInv, [Next]_vars PROVE LayersFresh'
  OBVIOUS
<1> USE  DEF LayersFresh, PastLayer, Measuring, Loading, fileVars, memVars,
  cacheVars, stateVars, requestVars, processVars
<1>a. /\ {latest, target, seen, rows, disk.key} \subseteq Nat
      /\ \A l \in Layer : mem[l] \in Nat /\ disk.lists[l] \in Nat
  BY Numbers DEF IInv
<1>b. LayersFresh /\ Ages /\ Threads
  BY DEF IInv
<1>1. CASE ReplaceFile
  BY <1>1, <1>a, <1>b DEF ReplaceFile
<1>2. CASE RemoveFile
  BY <1>2, <1>a, <1>b DEF RemoveFile
<1>3. CASE Crash
  BY <1>3, <1>a, <1>b DEF Crash, Die, Threads
<1>4. CASE Restart
  BY <1>4, <1>a, <1>b DEF Restart, Threads
<1>5. CASE BootWithoutFile
  <2>1. seen' = 0 /\ mem' = mem /\ disk' = disk /\ lost' = lost
    BY <1>5, <1>b DEF BootWithoutFile, Ages
  <2>2. loader' = "stopped"
    BY <1>5 DEF BootWithoutFile
  <2>3. QED
    BY <1>a, <1>b, <2>1, <2>2
<1>6. CASE BootWithFile
  BY <1>6, <1>a, <1>b DEF BootWithFile, Ages, Threads
<1>7. ASSUME NEW l \in Layer, ReadLayer(l) PROVE LayersFresh'
  BY <1>7, <1>a, <1>b DEF ReadLayer, BindStep, ReadStep, Layer, Ages, Threads
<1>8. ASSUME NEW l \in Layer, SkipLayer(l) PROVE LayersFresh'
  <2>1. lost' = lost \union {l}
        /\ UNCHANGED <<disk, target, seen, phase, mem>>
    BY <1>8 DEF SkipLayer
  <2>2. \/ l = "ssap" /\ loader = "readSsap" /\ loader' = "readRcl"
        \/ l = "rcl" /\ loader = "readRcl" /\ loader' = "ssapFactors"
    BY <1>8 DEF SkipLayer, ReadStep, AfterLayer, Layer
  <2>3. QED
    BY <1>a, <1>b, <2>1, <2>2 DEF Layer
<1>9. ASSUME NEW l \in Layer, BindLayer(l) PROVE LayersFresh'
  <2>1. rows >= target /\ seen <= target
    BY <1>9, <1>b DEF BindLayer, Ages, BindStep
  <2>2. mem'[l] = rows /\ \A k \in Layer \ {l} : mem'[k] = mem[k]
    BY <1>9 DEF BindLayer, IInv, TypeOK, Lists
  <2>3. lost' = lost \ {l} /\ UNCHANGED <<disk, target, seen, phase>>
    BY <1>9 DEF BindLayer
  <2>4. \/ l = "ssap" /\ loader = "bindSsap" /\ loader' = "readRcl"
        \/ l = "rcl" /\ loader = "bindRcl" /\ loader' = "ssapFactors"
    BY <1>9 DEF BindLayer, BindStep, AfterLayer, Layer
  <2>5. QED
    BY <1>a, <1>b, <2>1, <2>2, <2>3, <2>4 DEF Layer
<1>10. ASSUME NEW l \in Layer, BindCached(l) PROVE LayersFresh'
  <2>1. UNCHANGED <<disk, target, seen, phase>>
    BY <1>10 DEF BindCached
  <2>2. disk.key = target /\ phase = "starting"
    BY <1>10, <1>b DEF BindCached, Threads
  <2>3. mem'[l] = disk.lists[l] /\ \A k \in Layer \ {l} : mem'[k] = mem[k]
    BY <1>10 DEF BindCached, IInv, TypeOK, Lists
  <2>4. /\ l \in lost' <=> l \in disk.lost
        /\ \A k \in Layer \ {l} : k \in lost' <=> k \in lost
    BY <1>10 DEF BindCached
  <2>5. \/ l = "ssap" /\ loader = "cacheSsap" /\ loader' = "cacheRcl"
        \/ l = "rcl" /\ loader = "cacheRcl" /\ loader' = "ssapFactors"
    BY <1>10 DEF BindCached, Layer
  <2>6. QED
    BY <1>a, <1>b, <2>1, <2>2, <2>3, <2>4, <2>5 DEF Layer
<1>11. CASE CachedPayloadUnusable
  BY <1>11, <1>a, <1>b DEF CachedPayloadUnusable, Die, Threads
<1>12. CASE RebindStats
  <2>1. UNCHANGED <<disk, target, seen, phase, mem, lost>>
    BY <1>12 DEF RebindStats
  <2>2. loader \in Measuring /\ loader' \in Measuring \union {"save"}
    BY <1>12, StatsStepFields DEF RebindStats, Measuring
  <2>3. QED
    BY <1>a, <1>b, <2>1, <2>2
<1>13. CASE Save
  BY <1>13, <1>a, <1>b DEF Save, Threads
<1>14. CASE SaveFails
  BY <1>14, <1>a, <1>b DEF SaveFails, Die, Threads
<1>15. CASE CachedLoadDone
  BY <1>15, <1>a, <1>b DEF CachedLoadDone, Threads
<1>16. CASE StartupDone
  BY <1>16, <1>a, <1>b DEF StartupDone, Threads
<1>17. CASE PollFindsChange
  BY <1>17, <1>a, <1>b DEF PollFindsChange, Ages, Threads
<1>18. CASE PollFails
  BY <1>18, <1>a, <1>b DEF PollFails, Threads
<1>19. CASE ReportElementNormal
  BY <1>19, <1>a, <1>b DEF ReportElementNormal, Threads
<1>20. CASE ReportServiceNormal
  BY <1>20, <1>a, <1>b DEF ReportServiceNormal, Threads
<1>21. CASE ReportReloadFailure
  BY <1>21, <1>a, <1>b DEF ReportReloadFailure, Threads
<1>22. CASE ReloadFlagDown
  BY <1>22, <1>a, <1>b DEF ReloadFlagDown
<1>23. CASE BeginConversion
  BY <1>23, <1>a, <1>b DEF BeginConversion
<1>24. CASE TakeRcl
  BY <1>24, <1>a, <1>b DEF TakeRcl
<1>25. ASSUME NEW l \in Layer, NEW t \in Table, ScoreRecord(l, t)
      PROVE LayersFresh'
  BY <1>25, <1>a, <1>b DEF ScoreRecord
<1>26. CASE GoOnToRcl
  BY <1>26, <1>a, <1>b DEF GoOnToRcl
<1>27. CASE EndConversion
  BY <1>27, <1>a, <1>b DEF EndConversion
<1>28. CASE UNCHANGED vars
  BY <1>a, <1>b, <1>28 DEF vars
<1>29. QED
  BY <1>1, <1>2, <1>3, <1>4, <1>5, <1>6, <1>7, <1>8, <1>9, <1>10, <1>11,
    <1>12, <1>13, <1>14, <1>15, <1>16, <1>17, <1>18, <1>19, <1>20, <1>21,
    <1>22, <1>23, <1>24, <1>25, <1>26, <1>27, <1>28 DEF Next, Provisioner,
    Loader, EventLoop

(* Every step keeps a quiet conversion on the lists and tables in place. *)
LEMMA QuietViewStep == IInv /\ [Next]_vars => QuietView'
<1> SUFFICES ASSUME IInv, [Next]_vars PROVE QuietView'
  OBVIOUS
<1> USE  DEF QuietView, Scoring, fileVars, memVars, cacheVars, stateVars,
  requestVars, processVars
<1>a. /\ {latest, target, seen, rows, disk.key} \subseteq Nat
      /\ \A l \in Layer : mem[l] \in Nat /\ disk.lists[l] \in Nat
  BY Numbers DEF IInv
<1>b. QuietView /\ Threads /\ TablesMeasured /\ TypeOK
  BY DEF IInv
<1>1. CASE ReplaceFile
  BY <1>1, <1>a, <1>b DEF ReplaceFile
<1>2. CASE RemoveFile
  BY <1>2, <1>a, <1>b DEF RemoveFile
<1>3. CASE Crash
  BY <1>3, <1>a, <1>b DEF Crash, Die, Threads, Loading
<1>4. CASE Restart
  BY <1>4, <1>a, <1>b DEF Restart
<1>5. CASE BootWithoutFile
  BY <1>5, <1>a, <1>b DEF BootWithoutFile, Threads, Loading
<1>6. CASE BootWithFile
  BY <1>6, <1>a, <1>b DEF BootWithFile
<1>7. ASSUME NEW l \in Layer, ReadLayer(l) PROVE QuietView'
  BY <1>7, <1>a, <1>b DEF ReadLayer, BindStep, ReadStep, Layer
<1>8. ASSUME NEW l \in Layer, SkipLayer(l) PROVE QuietView'
  BY <1>8, <1>a, <1>b DEF SkipLayer, AfterLayer, ReadStep, Layer
<1>9. ASSUME NEW l \in Layer, BindLayer(l) PROVE QuietView'
  BY <1>9, <1>a, <1>b DEF BindLayer, AfterLayer, BindStep, Layer, Threads,
    Loading
<1>10. ASSUME NEW l \in Layer, BindCached(l) PROVE QuietView'
  BY <1>10, <1>a, <1>b DEF BindCached, Threads, Loading
<1>11. CASE CachedPayloadUnusable
  BY <1>11, <1>a, <1>b DEF CachedPayloadUnusable, Die
<1>12. CASE RebindStats
  BY <1>12, <1>a, <1>b DEF RebindStats
<1>13. CASE Save
  BY <1>13, <1>a, <1>b DEF Save
<1>14. CASE SaveFails
  BY <1>14, <1>a, <1>b DEF SaveFails, Die
<1>15. CASE CachedLoadDone
  BY <1>15, <1>a, <1>b DEF CachedLoadDone
<1>16. CASE StartupDone
  BY <1>16, <1>a, <1>b DEF StartupDone, Threads, Loading
<1>17. CASE PollFindsChange
  BY <1>17, <1>a, <1>b DEF PollFindsChange, Threads, Loading
<1>18. CASE PollFails
  BY <1>18, <1>a, <1>b DEF PollFails
<1>19. CASE ReportElementNormal
  BY <1>19, <1>a, <1>b DEF ReportElementNormal
<1>20. CASE ReportServiceNormal
  BY <1>20, <1>a, <1>b DEF ReportServiceNormal
<1>21. CASE ReportReloadFailure
  BY <1>21, <1>a, <1>b DEF ReportReloadFailure
<1>22. CASE ReloadFlagDown
  BY <1>22, <1>a, <1>b DEF ReloadFlagDown
<1>23. CASE BeginConversion
  <2>1. view' = [NoView EXCEPT !.lists["ssap"] = mem["ssap"]] /\ mem' = mem
    BY <1>23 DEF BeginConversion
  <2>2. view'.lists["ssap"] = mem["ssap"]
    BY <2>1 DEF NoView, NoLists, Layer
  <2>3. \A l \in Layer, t \in Table : view'.used[l][t] = Unread
    BY <2>1 DEF NoView
  <2>4. loop' = "haveSsap" /\ view'.used = NoView.used
    BY <1>23, <2>1 DEF BeginConversion, NoView
  <2>5. QED
    BY <2>1, <2>2, <2>3, <2>4
<1>24. CASE TakeRcl
  <2>1. view' = [view EXCEPT !.lists["rcl"] = mem["rcl"]] /\ mem' = mem
        /\ overlap' = overlap
    BY <1>24 DEF TakeRcl
  <2>2. SUFFICES ASSUME ~overlap PROVE QuietView'
    BY <2>1
  <2>3. view.lists \in Lists /\ mem \in Lists /\ view \in View
    BY <1>b DEF TypeOK, View
  <2>4. view'.lists = mem
    BY <1>24, <1>b, <2>1, <2>2, <2>3 DEF TakeRcl, Lists, Layer, View
  <2>5. view'.used = view.used
    BY <2>1, <2>3 DEF View
  <2>6. loop = "haveSsap"
    BY <1>24 DEF TakeRcl
  <2>7. QED
    BY <1>24, <1>b, <2>1, <2>2, <2>4, <2>5, <2>6 DEF NoView
<1>25. ASSUME NEW l \in Layer, NEW t \in Table, ScoreRecord(l, t)
      PROVE QuietView'
  <2>1. view' = [view EXCEPT !.used[l][t] = stats[l][t]]
    BY <1>25 DEF ScoreRecord
  <2>2. UNCHANGED <<mem, loop, overlap>> /\ Scoring
    BY <1>25 DEF ScoreRecord
  <2>3. SUFFICES ASSUME ~overlap PROVE QuietView'
    BY <2>2
  <2>4. loader \in Reported
    BY <1>25, <1>b, <2>2, <2>3
        DEF Threads, Loading, TypeOK, LoaderStep, Reported
  <2>5. stats[l][t] = mem[l] /\ view.lists = mem
    BY <1>25, <1>b, <2>2, <2>3, <2>4 DEF TablesMeasured, PastTable
  <2>6. view'.lists = view.lists
    BY <1>b, <2>1 DEF TypeOK, View
  <2>7. \A k \in Layer, u \in Table : view'.used[k][u] \in {view.used[k][u],
        stats[l][t]}
          /\ (k # l => view'.used[k][u] = view.used[k][u])
    BY <1>b, <2>1 DEF TypeOK, View
  <2>8. QED
    BY <1>b, <2>2, <2>3, <2>5, <2>6, <2>7
<1>26. CASE GoOnToRcl
  BY <1>26, <1>a, <1>b DEF GoOnToRcl
<1>27. CASE EndConversion
  BY <1>27, <1>a, <1>b DEF EndConversion
<1>28. CASE UNCHANGED vars
  BY <1>a, <1>b, <1>28 DEF vars
<1>29. QED
  BY <1>1, <1>2, <1>3, <1>4, <1>5, <1>6, <1>7, <1>8, <1>9, <1>10, <1>11,
    <1>12, <1>13, <1>14, <1>15, <1>16, <1>17, <1>18, <1>19, <1>20, <1>21,
    <1>22, <1>23, <1>24, <1>25, <1>26, <1>27, <1>28 DEF Next, Provisioner,
    Loader, EventLoop

(* Every step keeps service DOWN and the absence of records together.    *)
LEMMA DownMeansEmptyStep == IInv /\ [Next]_vars => DownMeansEmpty'
<1> SUFFICES ASSUME IInv, [Next]_vars PROVE DownMeansEmpty'
  OBVIOUS
<1> USE  DEF DownMeansEmpty, HasData, fileVars, memVars, cacheVars,
  stateVars, requestVars, processVars
<1>a. /\ {latest, target, seen, rows, disk.key} \subseteq Nat
      /\ \A l \in Layer : mem[l] \in Nat /\ disk.lists[l] \in Nat
  BY Numbers DEF IInv
<1>b. DownMeansEmpty /\ Threads /\ Ages
  BY DEF IInv
<1>1. CASE ReplaceFile
  BY <1>1, <1>a, <1>b DEF ReplaceFile
<1>2. CASE RemoveFile
  BY <1>2, <1>a, <1>b DEF RemoveFile
<1>3. CASE Crash
  BY <1>3, <1>a, <1>b DEF Crash, Die
<1>4. CASE Restart
  BY <1>4, <1>a, <1>b DEF Restart, Threads
<1>5. CASE BootWithoutFile
  BY <1>5, <1>a, <1>b DEF BootWithoutFile, Ages
<1>6. CASE BootWithFile
  BY <1>6, <1>a, <1>b DEF BootWithFile, Threads
<1>7. ASSUME NEW l \in Layer, ReadLayer(l) PROVE DownMeansEmpty'
  BY <1>7, <1>a, <1>b DEF ReadLayer, BindStep, ReadStep, Layer
<1>8. ASSUME NEW l \in Layer, SkipLayer(l) PROVE DownMeansEmpty'
  BY <1>8, <1>a, <1>b DEF SkipLayer, AfterLayer, ReadStep, Layer
<1>9. ASSUME NEW l \in Layer, BindLayer(l) PROVE DownMeansEmpty'
  BY <1>9, <1>a, <1>b DEF BindLayer, AfterLayer, BindStep, Layer, Threads
<1>10. ASSUME NEW l \in Layer, BindCached(l) PROVE DownMeansEmpty'
  BY <1>10, <1>a, <1>b DEF BindCached, Threads
<1>11. CASE CachedPayloadUnusable
  BY <1>11, <1>a, <1>b DEF CachedPayloadUnusable, Die
<1>12. CASE RebindStats
  <2>1. loader \in Measuring
    BY <1>12, StatsStepFields DEF RebindStats
  <2>2. QED
    BY <1>12, <1>b, <2>1 DEF RebindStats, Measuring
<1>13. CASE Save
  BY <1>13, <1>a, <1>b DEF Save
<1>14. CASE SaveFails
  BY <1>14, <1>a, <1>b DEF SaveFails, Die
<1>15. CASE CachedLoadDone
  BY <1>15, <1>a, <1>b DEF CachedLoadDone
<1>16. CASE StartupDone
  BY <1>16, <1>a, <1>b DEF StartupDone, Threads
<1>17. CASE PollFindsChange
  BY <1>17, <1>a, <1>b DEF PollFindsChange
<1>18. CASE PollFails
  BY <1>18, <1>a, <1>b DEF PollFails
<1>19. CASE ReportElementNormal
  BY <1>19, <1>a, <1>b DEF ReportElementNormal
<1>20. CASE ReportServiceNormal
  BY <1>20, <1>a, <1>b DEF ReportServiceNormal
<1>21. CASE ReportReloadFailure
  BY <1>21, <1>a, <1>b DEF ReportReloadFailure
<1>22. CASE ReloadFlagDown
  BY <1>22, <1>a, <1>b DEF ReloadFlagDown
<1>23. CASE BeginConversion
  BY <1>23, <1>a, <1>b DEF BeginConversion
<1>24. CASE TakeRcl
  BY <1>24, <1>a, <1>b DEF TakeRcl
<1>25. ASSUME NEW l \in Layer, NEW t \in Table, ScoreRecord(l, t)
      PROVE DownMeansEmpty'
  BY <1>25, <1>a, <1>b DEF ScoreRecord
<1>26. CASE GoOnToRcl
  BY <1>26, <1>a, <1>b DEF GoOnToRcl
<1>27. CASE EndConversion
  BY <1>27, <1>a, <1>b DEF EndConversion
<1>28. CASE UNCHANGED vars
  BY <1>a, <1>b, <1>28 DEF vars
<1>29. QED
  BY <1>1, <1>2, <1>3, <1>4, <1>5, <1>6, <1>7, <1>8, <1>9, <1>10, <1>11,
    <1>12, <1>13, <1>14, <1>15, <1>16, <1>17, <1>18, <1>19, <1>20, <1>21,
    <1>22, <1>23, <1>24, <1>25, <1>26, <1>27, <1>28 DEF Next, Provisioner,
    Loader, EventLoop

(* The inductive invariant holds when the first process starts.          *)
LEMMA InitIInv == Init => IInv
<1> SUFFICES ASSUME Init PROVE IInv
  OBVIOUS
<1>1. TypeOK
  <2>1. latest \in Version /\ present \in BOOLEAN
    BY BoundsAssumption DEF Init, Version
  <2>2. disk \in [key : Version, lists : Lists, lost : SUBSET Layer]
    BY NoneTyped DEF Init
  <2>3. 0 \in 0 .. MaxRestarts
    BY BoundsAssumption
  <2>4. QED
    BY <2>1, <2>2, <2>3, NoneTyped DEF Init, TypeOK, LoaderStep
<1>2. Threads /\ LayersFresh /\ DownMeansEmpty
  BY DEF Init, Threads, Loading, LayersFresh, PastLayer, Measuring,
    DownMeansEmpty, NoLists
<1>3. Ages /\ TablesMeasured /\ QuietView
  BY DEF Init, Ages, BindStep, NoLists, TablesMeasured, PastTable, Reported,
    QuietView
<1>4. QED
  BY <1>1, <1>2, <1>3 DEF IInv

(* The inductive invariant holds throughout.                             *)
LEMMA Inductive == Spec => []IInv
<1>1. IInv /\ [Next]_vars => IInv'
  <2> SUFFICES ASSUME IInv, [Next]_vars PROVE IInv'
    OBVIOUS
  <2>1. TypeOK /\ Threads
    BY DEF IInv
  <2>2. TypeOK' /\ Threads'
    BY <2>1, TypeOKStep, ThreadsStep
  <2>3. Ages' /\ TablesMeasured' /\ LayersFresh'
    BY AgesStep, TablesMeasuredStep, LayersFreshStep
  <2>4. QuietView' /\ DownMeansEmpty'
    BY QuietViewStep, DownMeansEmptyStep
  <2>5. QED
    BY <2>2, <2>3, <2>4 DEF IInv
<1>2. QED
  BY InitIInv, <1>1, PTL DEF Spec

(* Every variable of the dataset, of the loader and of the conversion in   *)
(* progress keeps its type.                                                *)
THEOREM TypeCorrect == Spec => []TypeOK
<1>1. IInv => TypeOK
  BY DEF IInv
<1>2. QED
  BY Inductive, <1>1, PTL

(* A conversion no reload ran beside works on the two lists in place and   *)
(* on tables measured on them (provisioning.ssap_records, field_stats).    *)
THEOREM QuietConversionsAreCoherent == Spec => []QuietConversionCoherent
<1>1. IInv => QuietConversionCoherent
  BY DEF IInv, QuietView, QuietConversionCoherent, Scoring
<1>2. QED
  BY Inductive, <1>1, PTL

(* Between loads a layer lags behind the mtime that counts as loaded only  *)
(* where populate_from_source skipped it (or the cached load had).         *)
THEOREM OnlySkippedLayersAreStale == Spec => []StaleOnlyIfSkipped
<1>1. IInv => StaleOnlyIfSkipped
  BY DEF IInv, LayersFresh, StaleOnlyIfSkipped
<1>2. QED
  BY Inductive, <1>1, PTL

(* ServiceState DOWN is left to processes that never loaded a record       *)
(* (lifecycle._on_gpkg_reload_failure never drives it there).              *)
THEOREM DownIsForEmptyProcesses == Spec => []DownOnlyBeforeFirstLoad
<1>1. IInv => DownOnlyBeforeFirstLoad
  BY DEF IInv, DownMeansEmpty, DownOnlyBeforeFirstLoad
<1>2. QED
  BY Inductive, <1>1, PTL

(* Every rebinding of _ssap and _rcl moves forward.                        *)
LEMMA DataMovesForward ==
  IInv /\ [Next]_vars /\ phase' # "down" =>
    \A l \in Layer : mem'[l] >= mem[l]
<1>1. ASSUME IInv, [Next]_vars, phase' # "down", NEW l \in Layer
      PROVE  mem'[l] >= mem[l]
  <2>1. mem \in Lists /\ Ages /\ mem[l] \in Nat
    BY <1>1, Numbers DEF IInv, TypeOK
  <2>2. ASSUME NEW k \in Layer, BindLayer(k)  PROVE mem'[l] >= mem[l]
    BY <2>1, <2>2 DEF BindLayer, Ages, Lists
  <2>3. ASSUME NEW k \in Layer, BindCached(k)  PROVE mem'[l] >= mem[l]
    <3>1. mem[k] = 0
      BY <2>1, <2>3 DEF BindCached, Ages, Layer
    <3>2. disk.lists[k] \in Nat
      BY <1>1, Numbers DEF IInv
    <3>3. QED
      BY <2>1, <2>3, <3>1, <3>2 DEF BindCached, Lists
  <2>4. CASE UNCHANGED mem
    BY <2>1, <2>4
  <2>5. ASSUME Die  PROVE FALSE
    BY <1>1, <2>5 DEF Die
  <2>6. QED
    BY <1>1, <2>2, <2>3, <2>4, <2>5 DEF Next, vars, Provisioner, Loader,
      EventLoop, fileVars, memVars, ReplaceFile, RemoveFile, Crash, Restart,
      BootWithoutFile, BootWithFile, ReadLayer, SkipLayer,
      CachedPayloadUnusable, RebindStats, Save, SaveFails, CachedLoadDone,
      StartupDone, PollFindsChange, PollFails, ReportElementNormal,
      ReportServiceNormal, ReportReloadFailure, ReloadFlagDown,
      BeginConversion, TakeRcl, ScoreRecord, GoOnToRcl, EndConversion
<1>2. QED
  BY <1>1

(* While the process lives, no layer goes back to an older version or to   *)
(* the empty list: every rebinding of _ssap and _rcl moves forward.        *)
THEOREM DataNeverRegresses == Spec => LayersNeverRegress
<1>1. IInv /\ [Next]_vars =>
        [phase' # "down" => \A l \in Layer : mem'[l] >= mem[l]]_vars
  BY DataMovesForward
<1>2. QED
  BY Inductive, <1>1, PTL DEF Spec, LayersNeverRegress

-----------------------------------------------------------------------------
(* Outside a load every table is measured on the list in place.            *)
LEMMA EndOfLoadCoherent ==
  ASSUME IInv, loader \in {"save", "up"} \union {"boot"}
  PROVE  Store!Coherent
<1>1. CASE loader = "boot"
  BY <1>1 DEF IInv, Ages, NoStats, Store!Coherent
<1>2. CASE loader \in {"save", "up"}
  BY <1>2 DEF IInv, TablesMeasured, PastTable, Store!Coherent
<1>3. QED
  BY <1>1, <1>2

(* The first process starts where DatasetStore starts.                   *)
LEMMA StoreInit == Init => Store!Init
BY DEF Init, Store!Init, Loading, NoLists, NoStats, NoView, Store!NoLists,
  Store!NoTables, Store!NothingUsed

(* The death of the process is the loss of the store.                    *)
LEMMA DieIsLose == Die => Store!Lose
BY DEF Die, Store!Lose, Loading, NoLists, NoStats, NoView, Store!NoLists,
  Store!NoTables, Store!NothingUsed

(* Every step maps to a step of DatasetStore or to a stutter.            *)
LEMMA StoreStep == IInv /\ [Next]_vars => [Store!Next]_(Store!vars)
<1> SUFFICES ASSUME IInv, [Next]_vars PROVE [Store!Next]_(Store!vars)
  OBVIOUS
<1> USE DEF Store!vars, Loading, fileVars, memVars, cacheVars, stateVars,
    requestVars, processVars
<1>a. TypeOK /\ Threads /\ Ages
  BY DEF IInv
<1>b. mem \in Lists /\ stats \in Tables /\ view \in View
  BY <1>a DEF TypeOK
<1>1. CASE ReplaceFile
  BY <1>1, <1>a DEF ReplaceFile
<1>2. CASE RemoveFile
  BY <1>2, <1>a DEF RemoveFile
<1>3. CASE Crash
  BY <1>3, DieIsLose DEF Crash, Store!Next
<1>4. CASE Restart
  BY <1>4, <1>a DEF Restart, Threads
<1>5. CASE BootWithoutFile
  <2>1. Store!EndLoad
    BY <1>5, EndOfLoadCoherent, <1>a
        DEF BootWithoutFile, Store!EndLoad, Threads
  <2>2. QED
    BY <2>1 DEF Store!Next
<1>6. CASE BootWithFile
  BY <1>6, <1>a DEF BootWithFile
<1>7. ASSUME NEW l \in Layer, ReadLayer(l)
      PROVE  [Store!Next]_(Store!vars)
  BY <1>7, <1>a DEF ReadLayer, BindStep, ReadStep, Layer
<1>8. ASSUME NEW l \in Layer, SkipLayer(l)
      PROVE  [Store!Next]_(Store!vars)
  BY <1>8, <1>a DEF SkipLayer, AfterLayer, ReadStep, Layer
<1>9. ASSUME NEW l \in Layer, BindLayer(l)
      PROVE  [Store!Next]_(Store!vars)
  <2>1. mem'[l] >= mem[l] /\ mem'[l] \in Version
    <3>1. phase # "down" /\ phase' = phase
      BY <1>9, <1>a DEF BindLayer, Threads, BindStep
    <3>2. mem'[l] >= mem[l]
      BY <3>1, DataMovesForward
    <3>3. mem' \in Lists
      BY <1>a, TypeOKStep DEF TypeOK
    <3>4. QED
      BY <3>2, <3>3 DEF Lists
  <2>2. mem' = [mem EXCEPT ![l] = mem'[l]]
    BY <1>9, <1>b DEF BindLayer, Lists
  <2>3. Store!PublishList(l)
    BY <1>9, <1>a, <2>1, <2>2
        DEF BindLayer, Store!PublishList, BindStep, AfterLayer
  <2>4. QED
    BY <2>3 DEF Store!Next
<1>10. ASSUME NEW l \in Layer, BindCached(l)
      PROVE  [Store!Next]_(Store!vars)
  <2>1. mem'[l] >= mem[l] /\ mem'[l] \in Version
    <3>1. phase # "down" /\ phase' = phase
      BY <1>10, <1>a DEF BindCached, Threads, BindStep
    <3>2. mem'[l] >= mem[l]
      BY <3>1, DataMovesForward
    <3>3. mem' \in Lists
      BY <1>a, TypeOKStep DEF TypeOK
    <3>4. QED
      BY <3>2, <3>3 DEF Lists
  <2>2. mem' = [mem EXCEPT ![l] = mem'[l]]
    BY <1>10, <1>b DEF BindCached, Lists
  <2>3. Store!PublishList(l)
    BY <1>10, <1>a, <2>1, <2>2
        DEF BindCached, Store!PublishList, BindStep, AfterLayer
  <2>4. QED
    BY <2>3 DEF Store!Next
<1>11. CASE CachedPayloadUnusable
  <2>1. CASE Die
    BY <2>1, DieIsLose DEF Store!Next
  <2>2. CASE ~Die
    BY <1>11, <2>2 DEF CachedPayloadUnusable
  <2>3. QED
    BY <2>1, <2>2
<1>12. CASE RebindStats
  <2> DEFINE s == StatsStep[loader]
  <2>1. s.layer \in Layer /\ s.table \in Table
    BY <1>12, StatsStepFields DEF RebindStats, Layer, Table
  <2>2. Store!PublishTable(s.layer, s.table)
    BY <1>12, StatsStepFields DEF RebindStats, Measuring, Store!PublishTable
  <2>3. QED
    BY <2>1, <2>2 DEF Store!Next
<1>13. CASE Save
  <2>1. CASE phase = "starting"
    BY <1>13, <2>1 DEF Save
  <2>2. CASE phase # "starting"
    <3>1. Store!EndLoad
      BY <1>13, <2>2, EndOfLoadCoherent DEF Save, Store!EndLoad
    <3>2. QED
      BY <3>1 DEF Store!Next
  <2>3. QED
    BY <2>1, <2>2
<1>14. CASE SaveFails
  <2>1. CASE Die
    BY <2>1, DieIsLose DEF Store!Next
  <2>2. CASE ~Die
    <3>1. Store!EndLoad
      BY <1>14, <2>2, EndOfLoadCoherent DEF SaveFails, Store!EndLoad
    <3>2. QED
      BY <3>1 DEF Store!Next
  <2>3. QED
    BY <2>1, <2>2
<1>15. CASE CachedLoadDone
  BY <1>15, <1>a DEF CachedLoadDone
<1>16. CASE StartupDone
  <2>1. Store!EndLoad
    BY <1>16, EndOfLoadCoherent, <1>a DEF StartupDone, Store!EndLoad, Threads
  <2>2. QED
    BY <2>1 DEF Store!Next
<1>17. CASE PollFindsChange
  <2>1. Store!StartLoad
    BY <1>17 DEF PollFindsChange, Store!StartLoad
  <2>2. QED
    BY <2>1 DEF Store!Next
<1>18. CASE PollFails
  BY <1>18, <1>a DEF PollFails
<1>19. CASE ReportElementNormal
  BY <1>19, <1>a DEF ReportElementNormal
<1>20. CASE ReportServiceNormal
  BY <1>20, <1>a DEF ReportServiceNormal
<1>21. CASE ReportReloadFailure
  BY <1>21, <1>a DEF ReportReloadFailure
<1>22. CASE ReloadFlagDown
  BY <1>22, <1>a DEF ReloadFlagDown
<1>23. CASE BeginConversion
  <2>1. "ssap" \in Layer /\ NoView.lists = NoLists
        /\ NoView.used = Store!NothingUsed
    BY DEF Layer, NoView, Store!NothingUsed
  <2>2. view' = [NoView EXCEPT !.lists["ssap"] = mem["ssap"]]
    BY <1>23 DEF BeginConversion
  <2>3. view = NoView /\ (phase = "serving" /\ Loading => reloading)
    BY <1>23, <1>a DEF Threads, BeginConversion
  <2>4. view'.lists = [Store!NoLists EXCEPT !["ssap"] = mem["ssap"]]
        /\ view'.used = view.used
    BY <2>2, <2>3 DEF NoView, NoLists, Store!NoLists
  <2>5. Store!BeginReading("ssap")
    <3>1. loader # "down"
      BY <1>23, <1>a DEF Threads, BeginConversion
    <3>2. loop = "idle" /\ loop' = "haveSsap" /\ overlap' = reloading
          /\ phase = "serving"
      BY <1>23 DEF BeginConversion
    <3>3. UNCHANGED <<loader, mem, stats>>
      BY <1>23 DEF BeginConversion
    <3>4. reloading \in BOOLEAN
      BY <1>a DEF TypeOK
    <3>5. (loop' # "idle"
          /\ ~overlap') \in {FALSE, ~(Loading \/ loader = "down")}
      BY <2>3, <3>1, <3>2, <3>4
    <3>6. QED
      BY <2>4, <3>2, <3>3, <3>5 DEF Store!BeginReading
  <2>6. QED
    BY <2>1, <2>5 DEF Store!Next
<1>24. CASE TakeRcl
  <2>1. view' = [view EXCEPT !.lists["rcl"] = mem["rcl"]] /\ "rcl" \in Layer
    BY <1>24 DEF TakeRcl, Layer
  <2>2. view'.lists = [view.lists EXCEPT !["rcl"] = mem["rcl"]]
        /\ view'.used = view.used
    BY <1>b, <2>1 DEF View
  <2>3. Store!Take("rcl")
    BY <1>24, <2>2 DEF TakeRcl, Store!Take
  <2>4. QED
    BY <2>1, <2>3 DEF Store!Next
<1>25. ASSUME NEW l \in Layer, NEW t \in Table, ScoreRecord(l, t)
      PROVE  [Store!Next]_(Store!vars)
  <2>1. view' = [view EXCEPT !.used[l][t] = stats[l][t]]
    BY <1>25 DEF ScoreRecord
  <2>2. view'.used = [view.used EXCEPT ![l][t] = stats[l][t]]
        /\ view'.lists = view.lists
    BY <1>b, <2>1 DEF View
  <2>3. Store!LookUp(l, t)
    BY <1>25, <2>2 DEF ScoreRecord, Store!LookUp
  <2>4. QED
    BY <2>3 DEF Store!Next
<1>26. CASE GoOnToRcl
  BY <1>26, <1>a DEF GoOnToRcl
<1>27. CASE EndConversion
  <2>1. Store!EndReading
    BY <1>27 DEF EndConversion, NoView, NoLists, Store!EndReading,
        Store!NoLists, Store!NothingUsed
  <2>2. QED
    BY <2>1 DEF Store!Next
<1>28. CASE UNCHANGED vars
  BY <1>28 DEF vars
<1>29. QED
  BY <1>1, <1>2, <1>3, <1>4, <1>5, <1>6, <1>7, <1>8, <1>9, <1>10, <1>11,
    <1>12, <1>13, <1>14, <1>15, <1>16, <1>17, <1>18, <1>19, <1>20, <1>21,
    <1>22, <1>23, <1>24, <1>25, <1>26, <1>27, <1>28 DEF Next, Provisioner,
    Loader, EventLoop

(* The loader and the event loop together implement DatasetStore.          *)
THEOREM DatasetImplementsStore == Spec => ImplementsStore
<1>1. QED
  BY StoreInit, StoreStep, Inductive, PTL
      DEF Spec, ImplementsStore, Store!Spec
=============================================================================
