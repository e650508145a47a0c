------------------------------- MODULE SipWire ------------------------------
(***************************************************************************)
(* src/notify/sip_notifier.py: the SIP wire adapter that publishes the     *)
(* element and service states of one GCS process.  It runs on the event    *)
(* loop of the leader worker, beside i3_fe_core's SipNotifier, which keeps *)
(* the subscriptions (subs) and decides on every SUBSCRIBE; the adapter    *)
(* keeps one WireContext per Call-ID (wire) and sends the NOTIFYs.         *)
(*                                                                         *)
(* Tasks wait in the loop's ready queue and run one at a time, each up to  *)
(* its first suspension.  Only two kinds of task ever suspend: start() and *)
(* stop(), and whoever transmits a NOTIFY over TCP.  One event package     *)
(* stands for both; its state is a version number.                         *)
(***************************************************************************)
EXTENDS Integers, SequencesExt

CONSTANTS
  Calls,       \* Call-IDs
  Contacts,    \* where subscribers ask their NOTIFYs to be sent
  Transports,  \* a subset of {"UDP", "TCP"}
  GrantsFetch, \* the core accepts Expires: 0 where it has no subscription
  MaxState,    \* bound: how often the published state changes
  MaxTags,     \* bound: To-tags handed out
  MaxTasks     \* bound: tasks waiting or suspended when a SUBSCRIBE arrives

ASSUME WireAssumption ==
  /\ Transports \subseteq {"UDP", "TCP"} /\ GrantsFetch \in BOOLEAN
  /\ {MaxState, MaxTags, MaxTasks} \subseteq Nat

VARIABLES
  wire,        \* SipWireAdapter._wire, a dict: Call-ID to WireContext
  subs,        \* the core's live subscriptions: Call-ID to accepted contact
  state,       \* the state the notifiers publish
  ready,       \* the event loop's ready queue
  connecting,  \* NOTIFYs suspended in asyncio.open_connection
  tags,        \* To-tags handed out
  told,        \* the last NOTIFY sent on each Call-ID
  starting,    \* where start() is
  stopping,    \* where stop() is
  udp, tcp,    \* the listeners are bound
  core,        \* the core's expiry loop runs
  raced,       \* history: Call-IDs accepted while their end was being sent
  usurped      \* history: Call-IDs refused something since they were accepted

dialogVars == <<wire, subs, tags, raced, usurped>>
queueVars  == <<ready, connecting>>
socketVars == <<udp, tcp, core>>
lifeVars   == <<starting, stopping, socketVars>>
vars == <<dialogVars, queueVars, lifeVars, state, told>>

Context == [contact : Contacts, transport : Transports, tag : Nat]
Subscribe == [call : Calls, contact : Contacts, transport : Transports,
              want : {"subscribe", "unsubscribe", "refused"}]
Notify(kinds) == [call : Calls, ctx : Context, state : Nat, kind : kinds]
Silence == [kind |-> "none"]

Without(dict, c) == [d \in DOMAIN dict \ {c} |-> dict[d]]
With(dict, c, v) == [d \in DOMAIN dict \union {c} |->
                       IF d = c THEN v ELSE dict[d]]
EmptyDict == [c \in {} |-> Silence]

Init ==
  /\ wire = EmptyDict /\ subs = EmptyDict /\ raced = {} /\ tags = 0
  /\ usurped = {}
  /\ state = 0 /\ ready = <<>> /\ connecting = <<>>
  /\ told = [c \in Calls |-> Silence]
  /\ starting = "udp" /\ stopping = "no"
  /\ udp = FALSE /\ tcp = FALSE /\ core = FALSE

-----------------------------------------------------------------------------
(***************************************************************************)
(* start(): the UDP listener, then the TCP listener, then the core.  It is *)
(* a task of its own that nobody waits for.                                *)
(***************************************************************************)
BindUdp ==
  /\ starting = "udp"
  /\ \/ udp' = TRUE /\ starting' = "tcp"
     \/ udp' = udp  /\ starting' = "done"
  /\ UNCHANGED <<dialogVars, queueVars, stopping, tcp, core, state,
                 told>>

BindTcp ==
  /\ starting = "tcp"
  /\ starting' = "done"
  /\ \/ tcp' = TRUE /\ core' = TRUE /\ udp' = udp
     \/ udp' = FALSE /\ UNCHANGED <<tcp, core>>
  /\ UNCHANGED <<dialogVars, queueVars, stopping, state, told>>

(***************************************************************************)
(* stop(), from lifespan_shutdown: the core, then the TCP server - closing *)
(* it suspends stop() - then the UDP endpoint.                             *)
(***************************************************************************)
StopCore ==
  /\ stopping = "no"
  /\ stopping' = "tcp"
  /\ core' = FALSE
  /\ UNCHANGED <<dialogVars, queueVars, starting, udp, tcp, state, told>>

CloseUdp ==
  /\ stopping' = "done"
  /\ udp' = FALSE

StopTcp ==
  /\ stopping = "tcp"
  /\ tcp' = FALSE
  /\ IF tcp THEN stopping' = "udp" /\ udp' = udp ELSE CloseUdp
  /\ UNCHANGED <<dialogVars, queueVars, starting, core, state, told>>

StopUdp ==
  /\ stopping = "udp"
  /\ CloseUdp
  /\ UNCHANGED <<dialogVars, queueVars, starting, tcp, core, state,
                 told>>

-----------------------------------------------------------------------------
(* A SUBSCRIBE has been read off a listener: its handler becomes ready.    *)
(* Whether the core will accept it is part of the message.                 *)
Arrive(m) ==
  /\ IF m.transport = "UDP" THEN udp ELSE tcp
  /\ Len(ready) + Len(connecting) < MaxTasks
  /\ tags + Len(ready) < MaxTags
  /\ ready' = Append(ready, [op |-> "handle", msg |-> m])
  /\ UNCHANGED <<dialogVars, connecting, lifeVars, state, told>>

(* Mutant: every SUBSCRIBE is given a To-tag of its own. *)
ContextRetagged(m) ==
  [contact |-> m.contact, transport |-> m.transport, tag |-> tags + 1]

(* Mutant: the whole context of a Call-ID is kept, not its To-tag alone. *)
ContextKept(m) ==
  IF m.call \in DOMAIN wire THEN wire[m.call]
  ELSE [contact |-> m.contact, transport |-> m.transport, tag |-> tags + 1]

(* The WireContext a SUBSCRIBE makes: a To-tag once assigned to the        *)
(* Call-ID is kept.                                                        *)
ContextOf(m) ==
  [contact |-> m.contact, transport |-> m.transport,
   tag |-> IF m.call \in DOMAIN wire THEN wire[m.call].tag ELSE tags + 1]

Transmit(c, ctx) ==
  [op |-> "transmit",
   note |-> [call |-> c, ctx |-> ctx, state |-> state, kind |-> "active"]]

Running(m) == ready # <<>> /\ Head(ready) = [op |-> "handle", msg |-> m]

(* The end of a subscription on c is still being sent over TCP. *)
Ending(c) == \E i \in DOMAIN connecting :
               connecting[i].call = c /\ connecting[i].kind = "terminated"

TakeTag(m) ==
  tags' = IF m.call \in DOMAIN wire THEN tags ELSE tags + 1

(* Mutant: a refused SUBSCRIBE takes the context of its Call-ID away. *)
HandleRefusedForgets(m) ==
  /\ Running(m)
  /\ \/ m.want = "refused"
     \/ m.want = "unsubscribe" /\ m.call \notin DOMAIN subs
  /\ wire' = Without(wire, m.call)
  /\ ready' = Tail(ready)
  /\ UNCHANGED <<subs, tags, raced, usurped, connecting, lifeVars, state,
                 told>>

(* The core refuses (403, 423, 489, 503): the WireContext stays as the     *)
(* refused request made it, also where a subscription is live.             *)
HandleRefused(m) ==
  /\ Running(m)
  /\ \/ m.want = "refused"
     \/ m.want = "unsubscribe" /\ m.call \notin DOMAIN subs
  /\ wire' = With(wire, m.call, ContextOf(m))
  /\ TakeTag(m)
  /\ usurped' = usurped \union ({m.call} \intersect DOMAIN subs)
  /\ ready' = Tail(ready)
  /\ UNCHANGED <<subs, raced, connecting, lifeVars, state, told>>

(* Mutant: the context is stored after the core has accepted, so that the  *)
(* first NOTIFY finds none.                                                *)
HandleSubscribeLate(m) ==
  /\ Running(m)
  /\ m.want = "subscribe"
  /\ wire' = With(wire, m.call, ContextOf(m))
  /\ TakeTag(m)
  /\ subs' = With(subs, m.call, m.contact)
  /\ ready' = Tail(ready)
  /\ raced' = IF Ending(m.call) THEN raced \union {m.call} ELSE raced
  /\ usurped' = usurped \ {m.call}
  /\ UNCHANGED <<connecting, lifeVars, state, told>>

(* The core accepts or refreshes, and has the current state notified       *)
(* before handle_subscribe returns: _send_notify finds the new context.    *)
HandleSubscribe(m) ==
  /\ Running(m)
  /\ m.want = "subscribe"
  /\ wire' = With(wire, m.call, ContextOf(m))
  /\ TakeTag(m)
  /\ subs' = With(subs, m.call, m.contact)
  /\ ready' = Append(Tail(ready), Transmit(m.call, ContextOf(m)))
  /\ raced' = IF Ending(m.call) THEN raced \union {m.call} ELSE raced
  /\ usurped' = usurped \ {m.call}
  /\ UNCHANGED <<connecting, lifeVars, state, told>>

(* Mutant: the context outlives the subscription, so that the next one on  *)
(* the Call-ID continues the dialog.                                       *)
HandleUnsubscribeKeeps(m) ==
  /\ Running(m)
  /\ m.want = "unsubscribe"
  /\ m.call \in DOMAIN subs \/ GrantsFetch
  /\ LET end == [call |-> m.call, ctx |-> ContextOf(m), state |-> state,
                 kind |-> "terminated"]
     IN  told' = IF udp THEN [told EXCEPT ![m.call] = end] ELSE told
  /\ wire' = With(wire, m.call, ContextOf(m))
  /\ TakeTag(m)
  /\ subs' = Without(subs, m.call)
  /\ raced' = raced \ {m.call}
  /\ usurped' = usurped \ {m.call}
  /\ ready' = Tail(ready)
  /\ UNCHANGED <<connecting, lifeVars, state>>

(* Expires: 0. The core drops the subscription; the terminating NOTIFY is  *)
(* sent by the handler itself, which over TCP suspends until it is out.    *)
HandleUnsubscribe(m) ==
  /\ Running(m)
  /\ m.want = "unsubscribe"
  /\ m.call \in DOMAIN subs \/ GrantsFetch
  /\ LET end == [call |-> m.call, ctx |-> ContextOf(m), state |-> state,
                 kind |-> "terminated"]
     IN  IF m.transport = "TCP"
         THEN /\ wire' = With(wire, m.call, ContextOf(m))
              /\ connecting' = Append(connecting, end)
              /\ told' = told
         ELSE /\ wire' = Without(wire, m.call)
              /\ told' = IF udp THEN [told EXCEPT ![m.call] = end] ELSE told
              /\ connecting' = connecting
  /\ TakeTag(m)
  /\ subs' = Without(subs, m.call)
  /\ raced' = raced \ {m.call}
  /\ usurped' = usurped \ {m.call}
  /\ ready' = Tail(ready)
  /\ UNCHANGED <<lifeVars, state>>

(***************************************************************************)
(* NOTIFY delivery.                                                        *)
(***************************************************************************)
(* Mutant: UDP NOTIFYs, too, leave in no order. *)
RunTransmitLater ==
  /\ ready # <<>> /\ Head(ready).op = "transmit"
  /\ connecting' = Append(connecting, Head(ready).note)
  /\ ready' = Tail(ready)
  /\ UNCHANGED <<dialogVars, lifeVars, state, told>>

(* A transmit task runs: a UDP NOTIFY is out at once (or dropped for want  *)
(* of an endpoint), a TCP one waits for its connection.                    *)
RunTransmit ==
  /\ ready # <<>> /\ Head(ready).op = "transmit"
  /\ LET n == Head(ready).note
     IN  IF n.ctx.transport = "TCP"
         THEN connecting' = Append(connecting, n) /\ told' = told
         ELSE /\ told' = IF udp THEN [told EXCEPT ![n.call] = n] ELSE told
              /\ connecting' = connecting
  /\ ready' = Tail(ready)
  /\ UNCHANGED <<dialogVars, lifeVars, state>>

(* A connection is made or fails, in any order. The handler of an          *)
(* unsubscription then deletes the context its Call-ID has by now (where   *)
(* it has none, the KeyError ends the handler).                            *)
FinishTcp(i) ==
  /\ LET n == connecting[i]
     IN  /\ told' \in {told, [told EXCEPT ![n.call] = n]}
         /\ wire' = IF n.kind = "terminated" THEN Without(wire, n.call)
                                             ELSE wire
  /\ connecting' = RemoveAt(connecting, i)
  /\ UNCHANGED <<subs, tags, raced, usurped, ready, lifeVars, state>>

(* The element or the service state changes: the core notifies every live  *)
(* subscription; one without a context is passed over with a warning.      *)
StateChange ==
  /\ state < MaxState
  /\ state' = state + 1
  /\ LET reach == DOMAIN subs \intersect DOMAIN wire
         note(c) == [op |-> "transmit",
                     note |-> [call |-> c, ctx |-> wire[c],
                               state |-> state + 1, kind |-> "active"]]
     IN  ready' = ready \o [i \in 1 .. Cardinality(reach) |->
                              note(SetToSeq(reach)[i])]
  /\ UNCHANGED <<dialogVars, connecting, lifeVars, told>>

(* The core's loop drops an expired subscription; the adapter is not told. *)
Expire(c) ==
  /\ core
  /\ c \in DOMAIN subs
  /\ subs' = Without(subs, c)
  /\ raced' = raced \ {c}
  /\ usurped' = usurped \ {c}
  /\ UNCHANGED <<wire, tags, queueVars, lifeVars, state, told>>

-----------------------------------------------------------------------------
Handle == \E m \in Subscribe :
  HandleRefused(m) \/ HandleSubscribe(m) \/ HandleUnsubscribe(m)

EventLoop == Handle \/ RunTransmit \/ \E i \in DOMAIN connecting : FinishTcp(i)

Life == BindUdp \/ BindTcp \/ StopCore \/ StopTcp \/ StopUdp

Next ==
  \/ Life \/ EventLoop \/ StateChange
  \/ \E m \in Subscribe : Arrive(m)
  \/ \E c \in Calls : Expire(c)

Spec == Init /\ [][Next]_vars

(* The event loop keeps running what is ready. *)
LiveSpec == Spec /\ WF_vars(EventLoop)

-----------------------------------------------------------------------------
Note == Notify({"active", "terminated"})
Task == [op : {"handle"}, msg : Subscribe]
          \union [op : {"transmit"}, note : Notify({"active"})]

(* Every variable has its type: the two dicts have Call-IDs for keys, and  *)
(* what is left to a task of its own is an active NOTIFY.                  *)
TypeOK ==
  /\ DOMAIN wire \subseteq Calls /\ wire \in [DOMAIN wire -> Context]
  /\ DOMAIN subs \subseteq Calls /\ subs \in [DOMAIN subs -> Contacts]
  /\ state \in Nat /\ tags \in Nat
  /\ ready \in Seq(Task) /\ connecting \in Seq(Note)
  /\ told \in [Calls -> Note \union {Silence}]
  /\ starting \in {"udp", "tcp", "done"}
  /\ stopping \in {"no", "tcp", "udp", "done"}
  /\ {udp, tcp, core} \subseteq BOOLEAN
  /\ raced \subseteq DOMAIN subs /\ usurped \subseteq DOMAIN subs

(* A subscription the core holds can be notified - its WireContext is      *)
(* there - unless it was accepted while the end of an earlier one on the   *)
(* same Call-ID was still being sent over TCP (_handle_subscribe deletes   *)
(* whatever context it finds once that is done).                           *)
ContextLostOnlyInRace ==
  \A c \in DOMAIN subs : c \in DOMAIN wire \/ c \in raced

(* The NOTIFYs of a live subscription go where the SUBSCRIBE asked that    *)
(* the core accepted last, unless another one on its Call-ID was refused   *)
(* since: _handle_subscribe stores the context before the core decides.    *)
NotifiedWhereAccepted ==
  \A c \in DOMAIN subs \intersect DOMAIN wire :
    wire[c].contact = subs[c] \/ c \in usurped

(* The To-tag of a dialog stays what its first 200 said for as long as the *)
(* core keeps the subscription.                                            *)
DialogKeepsTag ==
  [][\A c \in (DOMAIN subs \intersect DOMAIN subs') \ raced' :
       wire'[c].tag = wire[c].tag]_vars

(* Over UDP NOTIFYs leave in the order of the states they carry: whoever   *)
(* subscribed on a Call-ID is never told an older state after a newer one. *)
NewsInOrder ==
  [][\A c \in Calls :
       (/\ told[c].kind = "active" /\ told'[c].kind = "active"
        /\ told[c].ctx.transport = "UDP" /\ told'[c].ctx.transport = "UDP")
       => told'[c].state >= told[c].state]_vars

(* Over UDP nothing new is said in a dialog whose end has been sent.  The  *)
(* terminating NOTIFY overtakes the active ones still queued as tasks, so  *)
(* that one of them may leave after it; but it repeats an older state, or  *)
(* the one the end itself carried, and the next subscription on the        *)
(* Call-ID is a dialog with another To-tag.                                *)
NothingNewAfterEnd ==
  [][\A c \in Calls :
       (/\ told[c].kind = "terminated" /\ told'[c].kind = "active"
        /\ told[c].ctx.transport = "UDP"
        /\ told[c].ctx.tag = told'[c].ctx.tag)
       => told'[c].state <= told[c].state]_vars

(* Every live subscriber is told the current state in its own dialog,      *)
(* unless the state, the subscription or the UDP endpoint goes first.      *)
SubscribersLearnState ==
  \A c \in Calls, v \in 0 .. MaxState :
    (c \in DOMAIN subs /\ state = v)
      ~> (\/ /\ c \in DOMAIN wire
             /\ told[c].kind = "active" /\ told[c].state = v
             /\ told[c].ctx.tag = wire[c].tag
          \/ c \notin DOMAIN subs \/ state # v \/ ~udp)

-----------------------------------------------------------------------------
(***************************************************************************)
(* What the documentation says, and the code does not keep.                *)
(***************************************************************************)
(* WireContext is "Per-subscription wire state that core's SipSubscription *)
(* doesn't carry": every subscription has one.                             *)
ContextForLiveSubscription == DOMAIN subs \subseteq DOMAIN wire
=============================================================================
