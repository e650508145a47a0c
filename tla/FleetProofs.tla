----------------------------- MODULE FleetProofs -----------------------------
(***************************************************************************)
(* Theorems about Fleet, for any number of workers: the types, and that    *)
(* the two sockets of the SIP port do not belong to two workers.           *)
(***************************************************************************)
EXTENDS Fleet, TLAPS

(* Where an adapter's start() is says whose sockets are bound: one that is *)
(* about to bind TCP holds UDP, the one that holds TCP is through, and one *)
(* that was told to stop may be left with either.                          *)
Adapters ==
  /\ \A w \in Worker : sip[w] = "tcp" => udp = w \/ phase[w] \in Closing
  /\ \A w \in Worker : tcp = w => sip[w] = "on"
  /\ \A w \in Worker : ~Running(w) => sip[w] = "off"

(* The inductive invariant. NoSplitListeners alone is not inductive: it    *)
(* does not say whose UDP socket a worker that binds TCP has.              *)
Orderly == TypeOK /\ Adapters /\ NoSplitListeners

-----------------------------------------------------------------------------
(* Initially no worker runs and nothing is bound. *)
LEMMA OrderlyInit == Init => Orderly
  BY FleetAssumption
     DEF Init, Orderly, TypeOK, Adapters, NoSplitListeners, Phase, Closing,
         Running

(* Steps that concern neither processes nor ports. *)
LEMMA OrderlyElsewhere ==
  ASSUME Orderly, UNCHANGED <<phase, portVars>>, TypeOK'
  PROVE  Orderly'
  BY DEF Orderly, Adapters, NoSplitListeners, Running, portVars

(* The end of one process takes what was its own, whoever else runs. *)
LEMMA OrderlyEnd ==
  ASSUME Orderly, NEW w \in Worker, EndOfProcess(w), deaths' = deaths
                  \/ deaths' = deaths + 1
  PROVE  Orderly'
<1> USE FleetAssumption DEF Orderly, EndOfProcess
<1>1. \A v \in Worker : Running(v)' <=> v # w /\ Running(v)
  BY DEF TypeOK, Running, Closing
<1>2. {udp', tcp'} \subseteq {v \in Worker : Running(v)'} \union {Nobody}
  BY <1>1 DEF TypeOK, Release
<1>3. TypeOK'
  <2>1. /\ phase' \in [Worker -> Phase]
        /\ sip' \in [Worker -> {"off", "udp", "tcp", "on", "failed"}]
    BY DEF TypeOK, Phase
  <2>2. /\ {data', seen'} \subseteq [Worker -> 0 .. MaxVersion]
        /\ file' \in 0 .. MaxVersion /\ container' \in {"prewarm", "up"}
        /\ watch' \subseteq Worker
    BY DEF TypeOK
  <2>3. /\ scheduled' \in [Worker -> Seq(Problem)]
        /\ unfiled' \in [Worker -> SUBSET Problem]
    BY DEF TypeOK
  <2> QED BY <1>2, <2>1, <2>2, <2>3 DEF TypeOK
<1>4. Adapters'
  BY <1>1 DEF Adapters, TypeOK, Running, Closing, Release
<1>5. NoSplitListeners'
  BY DEF NoSplitListeners, TypeOK, Release
<1> QED BY <1>3, <1>4, <1>5

(* Every step keeps the invariant. *)
LEMMA OrderlyStep == Orderly /\ [Next]_vars => Orderly'
<1> SUFFICES ASSUME Orderly, [Next]_vars PROVE Orderly'
  OBVIOUS
<1> USE FleetAssumption
<1>1. CASE UNCHANGED vars
  BY <1>1 DEF Orderly, TypeOK, Adapters, NoSplitListeners, Running, vars,
              processVars, dataVars, portVars, reportVars
<1>2. CASE ReplaceFile
  <2>1. TypeOK'
    BY <1>2 DEF Orderly, TypeOK, ReplaceFile, Running, processVars, dataVars,
                portVars, reportVars
  <2> QED BY <1>2, <2>1, OrderlyElsewhere DEF ReplaceFile, processVars
<1>3. CASE Prewarm
  <2>1. TypeOK'
    BY <1>3 DEF Orderly, TypeOK, Prewarm, Running, dataVars, portVars,
                reportVars
  <2> QED BY <1>3, <2>1, OrderlyElsewhere DEF Prewarm
<1>4. ASSUME NEW w \in Worker, Fork(w) PROVE Orderly'
  <2>1. \A v \in Worker : Running(v)' <=> Running(v)
    BY <1>4 DEF Orderly, TypeOK, Fork, Running, Closing
  <2>2. TypeOK'
    BY <1>4, <2>1 DEF Orderly, TypeOK, Fork, Phase, dataVars, portVars,
                      reportVars
  <2> QED BY <1>4, <2>1, <2>2
          DEF Orderly, TypeOK, Adapters, NoSplitListeners, Fork, portVars,
              Closing
<1>5. ASSUME NEW w \in Worker, BootWithoutFile(w) \/ BootWithFile(w)
      PROVE  Orderly'
  <2>1. /\ phase[w] = "booting" /\ phase' = [phase EXCEPT ![w] = "up"]
        /\ sip' = [sip EXCEPT ![w] = "udp"]
        /\ UNCHANGED <<file, container, udp, tcp, scheduled, unfiled>>
    BY <1>5 DEF BootWithoutFile, BootWithFile, reportVars
  <2>2. /\ {data', seen'} \subseteq [Worker -> 0 .. MaxVersion]
        /\ watch' \subseteq Worker
    BY <1>5 DEF Orderly, TypeOK, BootWithoutFile, BootWithFile, dataVars
  <2>3. \A v \in Worker : Running(v)' <=> v = w \/ Running(v)
    BY <2>1 DEF Orderly, TypeOK, Running
  <2>4. ~Running(w) /\ udp # w /\ tcp # w
    BY <2>1 DEF Orderly, TypeOK, Running, Closing
  <2>5. TypeOK'
    BY <2>1, <2>2, <2>3 DEF Orderly, TypeOK, Phase
  <2> QED BY <2>1, <2>3, <2>4, <2>5
          DEF Orderly, TypeOK, Adapters, NoSplitListeners, Closing
<1>6. ASSUME NEW w \in Worker, BootFails(w) PROVE Orderly'
  BY <1>6 DEF Orderly, TypeOK, Adapters, NoSplitListeners, BootFails, Phase,
              Running, Closing
<1>7. ASSUME NEW w \in Worker, BindUdp(w) PROVE Orderly'
  <2>1. Running(w) /\ \A v \in Worker : Running(v)' <=> Running(v)
    BY <1>7 DEF Orderly, Adapters, BindUdp, Running, processVars
  <2>2. TypeOK'
    BY <1>7, <2>1 DEF Orderly, TypeOK, BindUdp, processVars, dataVars,
                      reportVars
  <2>3. phase' = phase /\ tcp' = tcp
    BY <1>7 DEF BindUdp, processVars
  <2>4. CASE udp = Nobody
    <3>1. udp' = w /\ sip' = [sip EXCEPT ![w] = "tcp"]
      BY <1>7, <2>4 DEF BindUdp
    <3>2. Adapters'
      <4>1. tcp # w
        BY <1>7 DEF Orderly, Adapters, BindUdp
      <4> QED BY <2>1, <2>3, <2>4, <3>1, <4>1 DEF Orderly, TypeOK, Adapters
    <3>3. NoSplitListeners'
      BY <2>3, <2>4 DEF Orderly, TypeOK, NoSplitListeners
    <3> QED BY <2>2, <3>2, <3>3 DEF Orderly
  <2>5. CASE udp # Nobody
    <3>1. udp' = udp /\ sip' = [sip EXCEPT ![w] = "failed"]
      BY <1>7, <2>5 DEF BindUdp
    <3>2. Adapters'
      <4>1. tcp # w
        BY <1>7 DEF Orderly, Adapters, BindUdp
      <4> QED BY <2>1, <2>3, <3>1, <4>1 DEF Orderly, TypeOK, Adapters
    <3>3. NoSplitListeners'
      BY <2>3, <3>1 DEF Orderly, TypeOK, NoSplitListeners
    <3> QED BY <2>2, <3>2, <3>3 DEF Orderly
  <2> QED BY <2>4, <2>5
<1>8. ASSUME NEW w \in Worker, BindTcp(w) PROVE Orderly'
  <2>1. Running(w) /\ \A v \in Worker : Running(v)' <=> Running(v)
    BY <1>8 DEF Orderly, Adapters, BindTcp, Running, processVars
  <2>2. TypeOK'
    BY <1>8, <2>1 DEF Orderly, TypeOK, BindTcp, Release, processVars,
                      dataVars, reportVars
  <2>3. Adapters'
    BY <1>8, <2>1 DEF Orderly, TypeOK, Adapters, BindTcp, Release,
                      processVars
  <2>4. NoSplitListeners'
    BY <1>8 DEF Orderly, TypeOK, Adapters, NoSplitListeners, BindTcp,
                Release, processVars
  <2> QED BY <2>2, <2>3, <2>4 DEF Orderly
<1>9. ASSUME NEW w \in Worker, Terminate(w) \/ StopTcp(w) \/ StopUdp(w)
      PROVE  Orderly'
  <2>1. /\ Running(w) /\ Running(w)' /\ phase'[w] \in Closing
        /\ phase' \in [Worker -> Phase]
        /\ \A v \in Worker \ {w} : phase'[v] = phase[v]
        /\ UNCHANGED <<file, container, data, seen, watch, sip, scheduled,
                       unfiled>>
    BY <1>9 DEF Orderly, TypeOK, Terminate, StopTcp, StopUdp, Running,
                Closing, Phase, dataVars, portVars, reportVars
  <2>2. \A v \in Worker : Running(v)' <=> Running(v)
    BY <2>1 DEF Running
  <2>3. udp' \in {udp, Release(udp, w)} /\ tcp' \in {tcp, Release(tcp, w)}
    BY <1>9 DEF Terminate, StopTcp, StopUdp, portVars
  <2>4. TypeOK'
    BY <2>1, <2>2, <2>3 DEF Orderly, TypeOK, Release
  <2>5. \A v \in Worker \ {w} :
          (udp' = v <=> udp = v) /\ (tcp' = v <=> tcp = v)
    BY <2>3 DEF Release
  <2>6. Adapters'
    BY <2>1, <2>2, <2>3, <2>5 DEF Orderly, Adapters, Release
  <2>7. NoSplitListeners'
    BY <2>1, <2>4, <2>5 DEF Orderly, TypeOK, NoSplitListeners
  <2> QED BY <2>4, <2>6, <2>7 DEF Orderly
<1>10. ASSUME NEW w \in Worker, Exit(w) \/ Crash(w) PROVE Orderly'
  BY <1>10, OrderlyEnd DEF Exit, Crash
<1>11. ASSUME NEW w \in Worker, ReloadSucceeds(w) PROVE Orderly'
  <2>1. TypeOK'
    BY <1>11 DEF Orderly, TypeOK, ReloadSucceeds, Running, processVars,
                 portVars, reportVars
  <2> QED BY <1>11, <2>1, OrderlyElsewhere DEF ReloadSucceeds, processVars
<1>12. ASSUME NEW w \in Worker, NEW p \in Problem, Report(w, p)
       PROVE  /\ scheduled' \in [Worker -> Seq(Problem)]
              /\ unfiled' \in [Worker -> SUBSET Problem]
  BY <1>12 DEF Orderly, TypeOK, Report
<1>13. ASSUME NEW w \in Worker, ReloadFails(w) PROVE Orderly'
  <2>1. seen' \in [Worker -> 0 .. MaxVersion]
    BY <1>13 DEF Orderly, TypeOK, ReloadFails
  <2>2. TypeOK'
    BY <1>12, <1>13, <2>1 DEF Orderly, TypeOK, ReloadFails, Problem, Running,
                              processVars, portVars
  <2> QED BY <1>13, <2>2, OrderlyElsewhere DEF ReloadFails, processVars
<1>14. ASSUME NEW w \in Worker, ConvertFlagged(w) PROVE Orderly'
  <2>1. TypeOK'
    BY <1>12, <1>14 DEF Orderly, TypeOK, ConvertFlagged, Problem, Running,
                        processVars, dataVars, portVars
  <2> QED BY <1>14, <2>1, OrderlyElsewhere DEF ConvertFlagged, processVars
<1>15. ASSUME NEW w \in Worker, FileReport(w) PROVE Orderly'
  <2>1. TypeOK'
    BY <1>15 DEF Orderly, TypeOK, FileReport, Running, processVars, dataVars,
                 portVars
  <2> QED BY <1>15, <2>1, OrderlyElsewhere DEF FileReport, processVars
<1> QED
  BY <1>1, <1>2, <1>3, <1>4, <1>5, <1>6, <1>7, <1>8, <1>9, <1>10, <1>11,
     <1>13, <1>14, <1>15
     DEF Next, Boot, EventLoop, Shutdown, Reload

(* Every reachable state satisfies the invariant. *)
LEMMA AlwaysOrderly == Spec => []Orderly
  BY OrderlyInit, OrderlyStep, PTL DEF Spec

-----------------------------------------------------------------------------
(* Type correctness, and no socket outlives the process that bound it. *)
THEOREM FleetTypes == Spec => []TypeOK
  BY AlwaysOrderly, PTL DEF Orderly

(* However many workers start, stop and die in whatever order, the SIP     *)
(* port's TCP socket belongs to the worker that has the UDP socket, or to  *)
(* one on its way out.                                                     *)
THEOREM OneWorkerListens == Spec => []NoSplitListeners
  BY AlwaysOrderly, PTL DEF Orderly
=============================================================================
