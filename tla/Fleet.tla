-------------------------------- MODULE Fleet --------------------------------
(***************************************************************************)
(* One deployment of the GCS: a container in which prewarm.py and then     *)
(* gunicorn run, and the workers gunicorn forks.  Every worker runs        *)
(* src/app/lifecycle.py on its own copy of the data; what they share is    *)
(* the GeoPackage and the SIP port.  is_leader() is true in all of them,   *)
(* so that each one tries to bind the port and whoever comes second goes   *)
(* without.                                                                *)
(*                                                                         *)
(* A load is one step here, GisDataset takes it apart; SipWire takes apart *)
(* what one adapter does with its listeners.  Which versions of the        *)
(* GeoPackage make a load raise is a parameter.                            *)
(***************************************************************************)
EXTENDS Integers, SequencesExt

CONSTANTS
  Worker,      \* gunicorn's worker slots, GCS_WORKERS of them
  Nobody,
  MaxVersion,  \* bound: versions of the GeoPackage
  Bad,         \* the versions whose load raises
  MaxDeaths,   \* bound: workers that die or are told to stop
  MaxReports   \* bound: discrepancy reports waiting on one loop

ASSUME FleetAssumption ==
  /\ Nobody \notin Worker
  /\ {MaxVersion, MaxDeaths, MaxReports} \subseteq Nat
  /\ Bad \subseteq 1 .. MaxVersion

VARIABLES
  file,       \* the version at GCS_GPKG_PATH, 0: there is none
  container,  \* "prewarm" until gunicorn runs, then "up"
  deaths,     \* workers that died or were told to stop
  phase,      \* of each worker's process
  data,       \* the version each worker converts against, 0: none
  seen,       \* the version each watcher thread tried last
  watch,      \* the workers that have a watcher thread
  sip,        \* where each worker's SipWireAdapter.start() is
  udp, tcp,   \* whose sockets are bound to the SIP port
  scheduled,  \* the reports waiting on each worker's event loop
  unfiled     \* history: problems noticed by each worker and not yet filed

portVars    == <<sip, udp, tcp>>
dataVars    == <<data, seen, watch>>
reportVars  == <<scheduled, unfiled>>
processVars == <<container, deaths, phase>>
vars == <<file, processVars, dataVars, portVars, reportVars>>

\* GISProblem.GeneralProvisioning; OmittedField and BadGeometry.
Problem == {"provisioning", "record"}

\* lifespan_shutdown: stop() has to close TCP, has to close UDP, is done.
Closing == {"closing", "draining", "closed"}
Phase == {"gone", "booting", "up"} \union Closing

Init ==
  /\ file \in 0 .. (IF MaxVersion = 0 THEN 0 ELSE 1)
  /\ container = "prewarm" /\ deaths = 0
  /\ phase = [w \in Worker |-> "gone"]
  /\ data = [w \in Worker |-> 0] /\ seen = data /\ watch = {}
  /\ sip = [w \in Worker |-> "off"] /\ udp = Nobody /\ tcp = Nobody
  /\ scheduled = [w \in Worker |-> <<>>]
  /\ unfiled = [w \in Worker |-> {}]

-----------------------------------------------------------------------------
(* Whoever provides the GeoPackage, outside the service. *)
ReplaceFile ==
  /\ file < MaxVersion
  /\ file' = file + 1
  /\ UNCHANGED <<processVars, dataVars, portVars, reportVars>>

(* prewarm.py loads what is there, if anything is, and gunicorn starts; a  *)
(* load that raises ends the container, which is started over.             *)
Prewarm ==
  /\ container = "prewarm"
  /\ file \notin Bad
  /\ container' = "up"
  /\ UNCHANGED <<file, deaths, phase, dataVars, portVars, reportVars>>

(* gunicorn keeps as many workers as it was told. *)
Fork(w) ==
  /\ container = "up"
  /\ phase[w] = "gone"
  /\ phase' = [phase EXCEPT ![w] = "booting"]
  /\ UNCHANGED <<file, container, deaths, dataVars, portVars, reportVars>>

-----------------------------------------------------------------------------
(***************************************************************************)
(* _lifespan: lifespan_startup, then maybe_start_sip, which leaves start() *)
(* to the event loop.                                                      *)
(***************************************************************************)
\* Mutant: SIP is started inside the part of startup that needs data.
BootWithoutFileOrSip(w) ==
  /\ phase[w] = "booting"
  /\ file = 0
  /\ phase' = [phase EXCEPT ![w] = "up"]
  /\ UNCHANGED <<file, container, deaths, dataVars, portVars, reportVars>>

(* Without a GeoPackage the worker comes up DOWN and without a watcher. *)
BootWithoutFile(w) ==
  /\ phase[w] = "booting"
  /\ file = 0
  /\ phase' = [phase EXCEPT ![w] = "up"]
  /\ sip' = [sip EXCEPT ![w] = "udp"]
  /\ UNCHANGED <<file, container, deaths, dataVars, udp, tcp, reportVars>>

BootWithFile(w) ==
  /\ phase[w] = "booting"
  /\ file # 0 /\ file \notin Bad
  /\ phase' = [phase EXCEPT ![w] = "up"]
  /\ data' = [data EXCEPT ![w] = file]
  /\ seen' = [seen EXCEPT ![w] = file]
  /\ watch' = watch \union {w}
  /\ sip' = [sip EXCEPT ![w] = "udp"]
  /\ UNCHANGED <<file, container, deaths, udp, tcp, reportVars>>

(* A load that raises leaves lifespan_startup; gunicorn takes a worker     *)
(* that fails to boot for a reason to halt, with every other worker.       *)
BootFails(w) ==
  /\ phase[w] = "booting"
  /\ file \in Bad
  /\ container' = "prewarm"
  /\ phase' = [v \in Worker |-> "gone"]
  /\ data' = [v \in Worker |-> 0] /\ seen' = data' /\ watch' = {}
  /\ sip' = [v \in Worker |-> "off"] /\ udp' = Nobody /\ tcp' = Nobody
  /\ scheduled' = [v \in Worker |-> <<>>]
  /\ unfiled' = [v \in Worker |-> {}]
  /\ UNCHANGED <<file, deaths>>

-----------------------------------------------------------------------------
(***************************************************************************)
(* SipWireAdapter.start(): two binds, each of which another worker's       *)
(* socket makes fail.                                                      *)
(***************************************************************************)
\* Mutant: an adapter that cannot bind UDP goes on with TCP.
BindUdpOrNot(w) ==
  /\ sip[w] = "udp"
  /\ udp' = IF udp = Nobody THEN w ELSE udp
  /\ sip' = [sip EXCEPT ![w] = "tcp"]
  /\ UNCHANGED <<file, processVars, dataVars, tcp, reportVars>>

BindUdp(w) ==
  /\ sip[w] = "udp"
  /\ IF udp = Nobody
     THEN udp' = w /\ sip' = [sip EXCEPT ![w] = "tcp"]
     ELSE udp' = udp /\ sip' = [sip EXCEPT ![w] = "failed"]
  /\ UNCHANGED <<file, processVars, dataVars, tcp, reportVars>>

Release(socket, w) == IF socket = w THEN Nobody ELSE socket

BindTcp(w) ==
  /\ sip[w] = "tcp"
  /\ IF tcp = Nobody
     THEN tcp' = w /\ udp' = udp /\ sip' = [sip EXCEPT ![w] = "on"]
     ELSE /\ tcp' = tcp
          /\ udp' = Release(udp, w)
          /\ sip' = [sip EXCEPT ![w] = "failed"]
  /\ UNCHANGED <<file, processVars, dataVars, reportVars>>

-----------------------------------------------------------------------------
(***************************************************************************)
(* A worker's end: lifespan_shutdown closes TCP, waits, closes UDP - while *)
(* a start() that is not done yet goes on - and the process exits; or it   *)
(* dies on the way, and the kernel closes what it had open.                *)
(***************************************************************************)
Terminate(w) ==
  /\ phase[w] = "up"
  /\ deaths < MaxDeaths
  /\ deaths' = deaths + 1
  /\ phase' = [phase EXCEPT ![w] = "closing"]
  /\ UNCHANGED <<file, container, dataVars, portVars, reportVars>>

StopTcp(w) ==
  /\ phase[w] = "closing"
  /\ phase' = [phase EXCEPT ![w] = "draining"]
  /\ tcp' = Release(tcp, w)
  /\ UNCHANGED <<file, container, deaths, dataVars, sip, udp, reportVars>>

StopUdp(w) ==
  /\ phase[w] = "draining"
  /\ phase' = [phase EXCEPT ![w] = "closed"]
  /\ udp' = Release(udp, w)
  /\ UNCHANGED <<file, container, deaths, dataVars, sip, tcp, reportVars>>

EndOfProcess(w) ==
  /\ phase' = [phase EXCEPT ![w] = "gone"]
  /\ data' = [data EXCEPT ![w] = 0]
  /\ seen' = [seen EXCEPT ![w] = 0]
  /\ watch' = watch \ {w}
  /\ sip' = [sip EXCEPT ![w] = "off"]
  /\ udp' = Release(udp, w)
  /\ tcp' = Release(tcp, w)
  /\ scheduled' = [scheduled EXCEPT ![w] = <<>>]
  /\ unfiled' = [unfiled EXCEPT ![w] = {}]
  /\ UNCHANGED <<file, container>>

Exit(w) ==
  /\ phase[w] = "closed"
  /\ EndOfProcess(w)
  /\ UNCHANGED deaths

Crash(w) ==
  /\ phase[w] # "gone"
  /\ deaths < MaxDeaths
  /\ deaths' = deaths + 1
  /\ EndOfProcess(w)

-----------------------------------------------------------------------------
(***************************************************************************)
(* Discrepancy reports.  A problem is noticed on the watcher thread        *)
(* (_on_gpkg_reload_failure) or by a conversion on the loop itself         *)
(* (fire_gis_dr); either way file_gis_dr is handed to the loop, which runs *)
(* from lifespan_startup until the process ends.                           *)
(***************************************************************************)
Running(w) == phase[w] \in {"up"} \union Closing

Report(w, problem) ==
  /\ unfiled' = [unfiled EXCEPT ![w] = @ \union {problem}]
  /\ scheduled' = [scheduled EXCEPT ![w] =
                     IF Running(w) THEN Append(@, problem) ELSE @]

(* DatasetCache.watch reloads a version it has not seen; the callback      *)
(* reports success through the states alone.                               *)
ReloadSucceeds(w) ==
  /\ w \in watch
  /\ file # seen[w] /\ file \notin Bad
  /\ data' = [data EXCEPT ![w] = file]
  /\ seen' = [seen EXCEPT ![w] = file]
  /\ UNCHANGED <<file, processVars, watch, portVars, reportVars>>

\* Mutant: the report is created on the thread that noticed the failure,
\* which has no loop to run it.
ReloadFailsOffLoop(w) ==
  /\ w \in watch
  /\ file # seen[w] /\ file \in Bad
  /\ Len(scheduled[w]) < MaxReports
  /\ seen' \in {seen, [seen EXCEPT ![w] = file]}
  /\ unfiled' = [unfiled EXCEPT ![w] = @ \union {"provisioning"}]
  /\ UNCHANGED <<file, processVars, data, watch, portVars, scheduled>>

(* The last good dataset stays. Whether the version counts as seen, or is  *)
(* tried and reported again at the next poll, is DatasetCache's affair.    *)
ReloadFails(w) ==
  /\ w \in watch
  /\ file # seen[w] /\ file \in Bad
  /\ Len(scheduled[w]) < MaxReports
  /\ seen' \in {seen, [seen EXCEPT ![w] = file]}
  /\ Report(w, "provisioning")
  /\ UNCHANGED <<file, processVars, data, watch, portVars>>

(* A conversion meets a record without an NGUID or with a bad geometry. *)
ConvertFlagged(w) ==
  /\ phase[w] = "up" /\ data[w] # 0
  /\ Len(scheduled[w]) < MaxReports
  /\ Report(w, "record")
  /\ UNCHANGED <<file, processVars, dataVars, portVars>>

(* file_gis_dr runs: the report is built, logged and submitted, and what   *)
(* goes wrong with that is logged.                                         *)
FileReport(w) ==
  /\ scheduled[w] # <<>>
  /\ unfiled' = [unfiled EXCEPT ![w] = @ \ {Head(scheduled[w])}]
  /\ scheduled' = [scheduled EXCEPT ![w] = Tail(@)]
  /\ UNCHANGED <<file, processVars, dataVars, portVars>>

-----------------------------------------------------------------------------
Boot(w) == BootWithoutFile(w) \/ BootWithFile(w) \/ BootFails(w)

EventLoop(w) == BindUdp(w) \/ BindTcp(w) \/ FileReport(w)

Shutdown(w) == StopTcp(w) \/ StopUdp(w) \/ Exit(w)

Reload(w) == ReloadSucceeds(w) \/ ReloadFails(w)

Next ==
  \/ ReplaceFile \/ Prewarm
  \/ \E w \in Worker :
       \/ Fork(w) \/ Boot(w) \/ EventLoop(w) \/ Shutdown(w) \/ Reload(w)
       \/ ConvertFlagged(w) \/ Terminate(w) \/ Crash(w)

Spec == Init /\ [][Next]_vars

(* gunicorn replaces its workers, a boot and a shutdown come to an end,    *)
(* and each event loop runs what is ready, first come, first served.       *)
LiveSpec ==
  /\ Spec
  /\ \A w \in Worker :
       /\ WF_vars(Fork(w)) /\ WF_vars(Boot(w)) /\ WF_vars(Shutdown(w))
       /\ WF_vars(BindUdp(w) \/ BindTcp(w)) /\ WF_vars(FileReport(w))

-----------------------------------------------------------------------------
(* Every variable has its type, and nobody's sockets outlive him. *)
TypeOK ==
  /\ file \in 0 .. MaxVersion /\ container \in {"prewarm", "up"}
  /\ phase \in [Worker -> Phase]
  /\ sip \in [Worker -> {"off", "udp", "tcp", "on", "failed"}]
  /\ {udp, tcp} \subseteq {w \in Worker : Running(w)} \union {Nobody}
  /\ {data, seen} \subseteq [Worker -> 0 .. MaxVersion]
  /\ watch \subseteq Worker
  /\ scheduled \in [Worker -> Seq(Problem)]
  /\ unfiled \in [Worker -> SUBSET Problem]

(* The two sockets of the SIP port never belong to two workers, whatever   *)
(* order workers start, stop and die in, but for a worker that was told to *)
(* stop before its start() was done and binds TCP on its way out: a        *)
(* subscriber reaches the same subscriptions over either transport.        *)
NoSplitListeners ==
  tcp # Nobody => udp = tcp \/ phase[tcp] \in Closing

Listening == udp # Nobody /\ tcp = udp

(* A fleet with a worker that is up has SIP listeners sooner or later, and *)
(* has them again after the worker that held them is gone, although no     *)
(* other worker tries a second time - unless a GeoPackage that cannot be   *)
(* loaded keeps the replacement from booting.                              *)
ListenersComeBack ==
  (\E w \in Worker : phase[w] = "up") ~> (Listening \/ file \in Bad)

(* What a worker notices about its data, on whichever thread, is filed,    *)
(* unless the worker is stopped first.                                     *)
ProblemsAreFiled ==
  \A w \in Worker, p \in Problem :
    p \in unfiled[w] ~> (p \notin unfiled[w] \/ phase[w] # "up")
=============================================================================
