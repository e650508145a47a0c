---------------------------- MODULE SipWireProofs ----------------------------
(***************************************************************************)
(* Theorems about SipWire, for any number of Call-IDs, contacts and tasks: *)
(* the types, where a subscription may be without its WireContext, whose   *)
(* contact the context has, that the To-tag of a dialog stays, and in      *)
(* which order NOTIFYs leave.                                              *)
(***************************************************************************)
EXTENDS SipWire, FiniteSetTheorems, SequenceTheorems, TLAPS

(* A subscription that lives while an end is being sent on its Call-ID was *)
(* accepted meanwhile. Without this nothing says that FinishTcp takes away *)
(* the contexts of recorded subscriptions only.                            *)
EndsAreRaced == \A c \in DOMAIN subs : Ending(c) => c \in raced

(* The inductive invariant. *)
Wired ==
  /\ TypeOK /\ IsFiniteSet(DOMAIN subs)
  /\ EndsAreRaced /\ ContextLostOnlyInRace /\ NotifiedWhereAccepted

-----------------------------------------------------------------------------
(* A dict with one key deleted. *)
LEMMA WithoutKey ==
  ASSUME NEW S, NEW dict, dict \in [DOMAIN dict -> S], NEW c
  PROVE  /\ Without(dict, c) \in [DOMAIN dict \ {c} -> S]
         /\ DOMAIN Without(dict, c) = DOMAIN dict \ {c}
         /\ \A d \in DOMAIN dict \ {c} : Without(dict, c)[d] = dict[d]
  BY DEF Without

(* What is left of a sequence when one element is taken out was in it. *)
LEMMA LeftOver ==
  ASSUME NEW S, NEW s \in Seq(S), NEW i \in DOMAIN s
  PROVE  /\ RemoveAt(s, i) \in Seq(S)
         /\ \A j \in DOMAIN RemoveAt(s, i) :
              \E k \in DOMAIN s : RemoveAt(s, i)[j] = s[k]
<1> DEFINE front == SubSeq(s, 1, i - 1)
           back == SubSeq(s, i + 1, Len(s))
<1>1. i \in 1 .. Len(s) /\ Len(s) \in Nat
  BY LenProperties
<1>2. /\ front \in Seq(S) /\ Len(front) = i - 1
      /\ \A j \in 1 .. i - 1 : front[j] = s[j]
  BY <1>1, SubSeqProperties
<1>3. /\ back \in Seq(S) /\ Len(back) = Len(s) - i
      /\ \A j \in 1 .. Len(s) - i : back[j] = s[i + j]
  BY <1>1, SubSeqProperties
<1> HIDE DEF front, back
<1>4. /\ front \o back \in Seq(S)
      /\ Len(front \o back) = Len(front) + Len(back)
      /\ \A j \in 1 .. Len(front) + Len(back) :
           (front \o back)[j] = IF j <= Len(front) THEN front[j]
                                ELSE back[j - Len(front)]
  <2>1. front \in Seq(S) /\ back \in Seq(S)
    BY <1>2, <1>3
  <2> QED BY ONLY <2>1, ConcatProperties
<1>5. ASSUME NEW j \in 1 .. Len(s) - 1
      PROVE  \E k \in DOMAIN s : (front \o back)[j] = s[k]
  <2>1. Len(front) + Len(back) = Len(s) - 1 /\ j \in Nat
    BY <1>1, <1>2, <1>3
  <2>2. (front \o back)[j] = IF j <= i - 1 THEN front[j]
                             ELSE back[j - (i - 1)]
    BY <1>2, <1>4, <2>1
  <2>3. CASE j <= i - 1
    BY <1>1, <1>2, <2>1, <2>2, <2>3
  <2>4. CASE ~(j <= i - 1)
    <3> DEFINE k == j - (i - 1)
    <3>1. k \in 1 .. Len(s) - i /\ i + k \in 1 .. Len(s)
      BY <1>1, <2>1, <2>4
    <3>2. (front \o back)[j] = back[k]
      BY <2>2, <2>4
    <3>3. back[k] = s[i + k]
      BY <1>3, <3>1
    <3> QED BY <1>1, <3>1, <3>2, <3>3, LenProperties
  <2> QED BY <2>3, <2>4
<1>6. DOMAIN (front \o back) = 1 .. Len(s) - 1
  <2>1. Len(front \o back) = Len(s) - 1
    BY <1>1, <1>2, <1>3, <1>4
  <2> QED BY ONLY <1>4, <2>1, LenProperties, Zenon
<1>7. RemoveAt(s, i) = front \o back
  BY DEF RemoveAt, front, back
<1> QED BY <1>4, <1>5, <1>6, <1>7

(* A finite set has a sequence of its elements. *)
LEMMA Listed ==
  ASSUME NEW S, IsFiniteSet(S)
  PROVE  SetToSeq(S) \in [1 .. Cardinality(S) -> S] /\ Cardinality(S) \in Nat
<1>1. Cardinality(S) \in Nat /\ ExistsBijection(1 .. Cardinality(S), S)
  BY FS_CardinalityType
<1>2. \E f \in [1 .. Cardinality(S) -> S] : IsInjective(f)
  BY <1>1 DEF ExistsBijection, Bijection, Injection, IsInjective
<1> QED BY <1>1, <1>2 DEF SetToSeq

-----------------------------------------------------------------------------
(***************************************************************************)
(* Types                                                                   *)
(***************************************************************************)
(* What a handler takes off the queue, and the context it makes. *)
LEMMA Taken ==
  ASSUME TypeOK, NEW m \in Subscribe
  PROVE  /\ ContextOf(m) \in Context
         /\ ContextOf(m).contact = m.contact
         /\ m.call \in DOMAIN wire => ContextOf(m).tag = wire[m.call].tag
         /\ TakeTag(m) => tags' \in Nat
         /\ m.call \in Calls /\ m.contact \in Contacts
  BY DEF TypeOK, ContextOf, Context, Subscribe, TakeTag

(* The queue keeps its type when its first task is done. *)
LEMMA Popped ==
  ASSUME TypeOK, ready # <<>>
  PROVE  Head(ready) \in Task /\ Tail(ready) \in Seq(Task)
  BY HeadTailProperties DEF TypeOK

(* The initial state has the types. *)
LEMMA TypesInit == Init => TypeOK /\ IsFiniteSet(DOMAIN subs)
<1> SUFFICES ASSUME Init PROVE TypeOK /\ IsFiniteSet(DOMAIN subs)
  OBVIOUS
<1>1. DOMAIN wire = {} /\ DOMAIN subs = {}
  BY DEF Init, EmptyDict
<1>2. /\ wire \in [DOMAIN wire -> Context]
      /\ subs \in [DOMAIN subs -> Contacts]
  BY <1>1 DEF Init, EmptyDict
<1>3. ready \in Seq(Task) /\ connecting \in Seq(Note)
  BY DEF Init
<1>4. told \in [Calls -> Note \union {Silence}]
  BY DEF Init
<1>5. IsFiniteSet(DOMAIN subs)
  BY <1>1, FS_EmptySet
<1> QED BY <1>1, <1>2, <1>3, <1>4, <1>5 DEF Init, TypeOK

(* Steps that touch neither dialogs nor queues. *)
LEMMA TypesLife == ASSUME TypeOK, Life PROVE TypeOK'
<1> USE DEF TypeOK, dialogVars, queueVars
<1>1. CASE BindUdp BY <1>1 DEF BindUdp
<1>2. CASE BindTcp BY <1>2 DEF BindTcp
<1>3. CASE StopCore BY <1>3 DEF StopCore
<1>4. CASE StopTcp BY <1>4 DEF StopTcp, CloseUdp
<1>5. CASE StopUdp BY <1>5 DEF StopUdp, CloseUdp
<1> QED BY <1>1, <1>2, <1>3, <1>4, <1>5 DEF Life

(* A SUBSCRIBE arrives. *)
LEMMA TypesArrive ==
  ASSUME TypeOK, NEW m \in Subscribe, Arrive(m)
  PROVE  TypeOK'
<1>1. [op |-> "handle", msg |-> m] \in Task
  BY DEF Task
<1>2. ready' \in Seq(Task)
  BY <1>1, AppendProperties DEF Arrive, TypeOK
<1> QED BY <1>2 DEF Arrive, TypeOK, dialogVars, lifeVars, socketVars

(* The context of a request is stored. *)
LEMMA Stored ==
  ASSUME TypeOK, NEW m \in Subscribe, wire' = With(wire, m.call, ContextOf(m))
  PROVE  /\ wire' \in [DOMAIN wire' -> Context] /\ DOMAIN wire' \subseteq Calls
         /\ DOMAIN wire' = DOMAIN wire \union {m.call}
         /\ wire'[m.call] = ContextOf(m)
         /\ \A d \in DOMAIN wire \ {m.call} : wire'[d] = wire[d]
<1>1. wire \in [DOMAIN wire -> Context] /\ DOMAIN wire \subseteq Calls
  BY DEF TypeOK
<1>2. ContextOf(m) \in Context /\ m.call \in Calls
  BY Taken
<1>3. LET new == With(wire, m.call, ContextOf(m))
      IN  /\ new \in [DOMAIN wire \union {m.call} -> Context]
          /\ DOMAIN new = DOMAIN wire \union {m.call}
          /\ new[m.call] = ContextOf(m)
          /\ \A d \in DOMAIN wire \ {m.call} : new[d] = wire[d]
  BY ONLY <1>1, <1>2 DEF With
<1> QED BY <1>1, <1>2, <1>3

(* A context is deleted. *)
LEMMA Deleted ==
  ASSUME TypeOK, NEW c, wire' = Without(wire, c)
  PROVE  /\ wire' \in [DOMAIN wire' -> Context] /\ DOMAIN wire' \subseteq Calls
         /\ DOMAIN wire' = DOMAIN wire \ {c}
         /\ \A d \in DOMAIN wire' : wire'[d] = wire[d]
<1>1. wire \in [DOMAIN wire -> Context] /\ DOMAIN wire \subseteq Calls
  BY DEF TypeOK
<1>2. /\ Without(wire, c) \in [DOMAIN wire \ {c} -> Context]
      /\ DOMAIN Without(wire, c) = DOMAIN wire \ {c}
      /\ \A d \in DOMAIN wire \ {c} : Without(wire, c)[d] = wire[d]
  BY ONLY <1>1, WithoutKey, Zenon
<1> QED BY <1>1, <1>2

(* A subscription is taken away, with what history says of it. *)
LEMMA Dropped ==
  ASSUME TypeOK, IsFiniteSet(DOMAIN subs), NEW c, subs' = Without(subs, c),
         raced' = raced \ {c}, usurped' = usurped \ {c}
  PROVE  /\ subs' \in [DOMAIN subs' -> Contacts]
         /\ DOMAIN subs' = DOMAIN subs \ {c} /\ DOMAIN subs' \subseteq Calls
         /\ \A d \in DOMAIN subs' : subs'[d] = subs[d]
         /\ raced' \subseteq DOMAIN subs' /\ usurped' \subseteq DOMAIN subs'
         /\ IsFiniteSet(DOMAIN subs')
<1>1. subs \in [DOMAIN subs -> Contacts]
  BY DEF TypeOK
<1>2. /\ subs' \in [DOMAIN subs \ {c} -> Contacts]
      /\ DOMAIN subs' = DOMAIN subs \ {c}
      /\ \A d \in DOMAIN subs \ {c} : subs'[d] = subs[d]
  BY <1>1, WithoutKey
<1>3. IsFiniteSet(DOMAIN subs')
  BY <1>2, FS_RemoveElement
<1> QED BY <1>2, <1>3 DEF TypeOK

(* A subscription is accepted or refreshed. *)
LEMMA Accepted ==
  ASSUME TypeOK, IsFiniteSet(DOMAIN subs), NEW m \in Subscribe,
         HandleSubscribe(m)
  PROVE  /\ DOMAIN subs' \subseteq Calls
         /\ subs' \in [DOMAIN subs' -> Contacts]
         /\ DOMAIN subs' = DOMAIN subs \union {m.call}
         /\ subs'[m.call] = m.contact
         /\ \A d \in DOMAIN subs \ {m.call} : subs'[d] = subs[d]
         /\ IsFiniteSet(DOMAIN subs')
<1>1. subs \in [DOMAIN subs -> Contacts] /\ DOMAIN subs \subseteq Calls
  BY DEF TypeOK
<1>2. m.call \in Calls /\ m.contact \in Contacts
  BY Taken
<1>3. subs' = With(subs, m.call, m.contact)
  BY DEF HandleSubscribe
<1>4. LET new == With(subs, m.call, m.contact)
      IN  /\ new \in [DOMAIN subs \union {m.call} -> Contacts]
          /\ DOMAIN new = DOMAIN subs \union {m.call}
          /\ new[m.call] = m.contact
          /\ \A d \in DOMAIN subs \ {m.call} : new[d] = subs[d]
  BY ONLY <1>1, <1>2 DEF With
<1>5. IsFiniteSet(DOMAIN subs')
  BY <1>3, <1>4, FS_AddElement
<1> QED BY <1>1, <1>2, <1>3, <1>4, <1>5

(* A refused request. *)
LEMMA TypesRefused ==
  ASSUME TypeOK, NEW m \in Subscribe, HandleRefused(m)
  PROVE  TypeOK'
<1>1. ready' \in Seq(Task)
  BY Popped DEF HandleRefused, Running
<1>2. tags' \in Nat
  BY Taken DEF HandleRefused
<1>3. wire' \in [DOMAIN wire' -> Context] /\ DOMAIN wire' \subseteq Calls
  BY Stored DEF HandleRefused
<1>4. raced' \subseteq DOMAIN subs' /\ usurped' \subseteq DOMAIN subs'
  BY DEF HandleRefused, TypeOK
<1> QED
  BY <1>1, <1>2, <1>3, <1>4 DEF HandleRefused, TypeOK, lifeVars, socketVars

(* An accepted one, and the NOTIFY it causes. *)
LEMMA TypesSubscribe ==
  ASSUME TypeOK, IsFiniteSet(DOMAIN subs), NEW m \in Subscribe,
         HandleSubscribe(m)
  PROVE  TypeOK'
<1>1. Transmit(m.call, ContextOf(m)) \in Task
  BY Taken DEF Transmit, Task, Notify, TypeOK
<1>2. Tail(ready) \in Seq(Task)
  BY Popped DEF HandleSubscribe, Running
<1>3. ready' \in Seq(Task)
  BY <1>1, <1>2, AppendProperties DEF HandleSubscribe
<1>4. tags' \in Nat
  BY Taken DEF HandleSubscribe
<1>5. wire' \in [DOMAIN wire' -> Context] /\ DOMAIN wire' \subseteq Calls
  BY Stored DEF HandleSubscribe
<1>6. /\ subs' \in [DOMAIN subs' -> Contacts] /\ DOMAIN subs' \subseteq Calls
      /\ DOMAIN subs' = DOMAIN subs \union {m.call}
  BY Accepted
<1>7. raced' \subseteq DOMAIN subs' /\ usurped' \subseteq DOMAIN subs'
  BY <1>6 DEF HandleSubscribe, TypeOK
<1> QED
  BY <1>3, <1>4, <1>5, <1>6, <1>7
     DEF HandleSubscribe, TypeOK, lifeVars, socketVars

(* An unsubscription, over either transport. *)
LEMMA TypesUnsubscribe ==
  ASSUME TypeOK, IsFiniteSet(DOMAIN subs), NEW m \in Subscribe,
         HandleUnsubscribe(m)
  PROVE  TypeOK'
<1> DEFINE end == [call |-> m.call, ctx |-> ContextOf(m), state |-> state,
                   kind |-> "terminated"]
<1>1. end \in Note
  BY Taken DEF Note, Notify, TypeOK
<1>2. ready' \in Seq(Task)
  BY Popped DEF HandleUnsubscribe, Running
<1>3. tags' \in Nat
  BY Taken DEF HandleUnsubscribe
<1>4. /\ subs' \in [DOMAIN subs' -> Contacts] /\ DOMAIN subs' \subseteq Calls
      /\ raced' \subseteq DOMAIN subs' /\ usurped' \subseteq DOMAIN subs'
  BY Dropped DEF HandleUnsubscribe
<1>5. /\ wire' \in [DOMAIN wire' -> Context] /\ DOMAIN wire' \subseteq Calls
      /\ connecting' \in Seq(Note)
      /\ told' \in [Calls -> Note \union {Silence}]
  <2>1. CASE m.transport = "TCP"
    <3>1. /\ wire' = With(wire, m.call, ContextOf(m))
          /\ connecting' = Append(connecting, end) /\ told' = told
      BY <2>1 DEF HandleUnsubscribe
    <3>2. connecting' \in Seq(Note)
      BY <1>1, <3>1, AppendProperties DEF TypeOK
    <3> QED BY <3>1, <3>2, Stored DEF TypeOK
  <2>2. CASE m.transport # "TCP"
    <3>1. /\ wire' = Without(wire, m.call) /\ connecting' = connecting
          /\ told' = IF udp THEN [told EXCEPT ![m.call] = end] ELSE told
      BY <2>2 DEF HandleUnsubscribe
    <3>2. wire' \in [DOMAIN wire' -> Context] /\ DOMAIN wire' \subseteq Calls
      BY <3>1, Deleted
    <3>3. told' \in [Calls -> Note \union {Silence}]
      BY <1>1, <3>1 DEF TypeOK
    <3> QED BY <3>1, <3>2, <3>3 DEF TypeOK
  <2> QED BY <2>1, <2>2
<1> QED
  BY <1>2, <1>3, <1>4, <1>5
     DEF HandleUnsubscribe, TypeOK, lifeVars, socketVars

(* A transmit task, and what it takes off the queue. *)
LEMMA TypesTransmit ==
  ASSUME TypeOK, RunTransmit
  PROVE  TypeOK' /\ Head(ready).note \in Note
         /\ Head(ready).note.kind = "active"
<1>1. Head(ready) \in Task /\ ready' \in Seq(Task)
  BY Popped DEF RunTransmit
<1>2. Head(ready).note \in Notify({"active"})
  BY <1>1 DEF RunTransmit, Task
<1>3. /\ Head(ready).note \in Note /\ Head(ready).note.kind = "active"
      /\ Head(ready).note.call \in Calls
  BY <1>2 DEF Notify, Note
<1>4. connecting' \in Seq(Note)
  <2>1. connecting \in Seq(Note)
    BY DEF TypeOK
  <2>2. Append(connecting, Head(ready).note) \in Seq(Note)
    BY ONLY <1>3, <2>1, AppendProperties, Zenon
  <2> QED BY <2>1, <2>2 DEF RunTransmit
<1>5. told' \in [Calls -> Note \union {Silence}]
  BY <1>3 DEF RunTransmit, TypeOK
<1> QED
  BY <1>1, <1>3, <1>4, <1>5
     DEF RunTransmit, TypeOK, dialogVars, lifeVars, socketVars

(* A connection is done with. *)
LEMMA TypesFinish ==
  ASSUME TypeOK, NEW i \in DOMAIN connecting, FinishTcp(i)
  PROVE  TypeOK'
<1>1. connecting[i] \in Note /\ connecting' \in Seq(Note)
  BY LeftOver, ElementOfSeq, LenProperties DEF FinishTcp, TypeOK
<1>2. connecting[i].call \in Calls
  BY <1>1 DEF Note, Notify
<1>3. told' \in [Calls -> Note \union {Silence}]
  BY <1>1, <1>2 DEF FinishTcp, TypeOK
<1>4. wire' \in [DOMAIN wire' -> Context] /\ DOMAIN wire' \subseteq Calls
  <2>1. wire' = wire \/ wire' = Without(wire, connecting[i].call)
    BY DEF FinishTcp
  <2> QED BY <2>1, Deleted DEF TypeOK
<1> QED
  BY <1>1, <1>3, <1>4 DEF FinishTcp, TypeOK, lifeVars, socketVars

(* The state changes, and every subscriber that can be reached is told. *)
LEMMA TypesState ==
  ASSUME TypeOK, IsFiniteSet(DOMAIN subs), StateChange
  PROVE  TypeOK'
<1> DEFINE reach == DOMAIN subs \intersect DOMAIN wire
           note(c) == [op |-> "transmit",
                       note |-> [call |-> c, ctx |-> wire[c],
                                 state |-> state + 1, kind |-> "active"]]
           news == [i \in 1 .. Cardinality(reach) |->
                      note(SetToSeq(reach)[i])]
<1>1. IsFiniteSet(reach)
  BY FS_Subset
<1>2. /\ SetToSeq(reach) \in [1 .. Cardinality(reach) -> reach]
      /\ Cardinality(reach) \in Nat
  BY <1>1, Listed
<1>3. \A c \in reach : note(c) \in Task
  BY DEF TypeOK, Task, Notify
<1>4. ready' = ready \o news
  BY DEF StateChange
<1> HIDE DEF reach, note
<1>5. \A i \in 1 .. Cardinality(reach) : note(SetToSeq(reach)[i]) \in Task
  BY <1>2, <1>3
<1>6. news \in [1 .. Cardinality(reach) -> Task]
  BY <1>5
<1>7. news \in Seq(Task)
  BY <1>2, <1>6, SeqDef
<1>8. ready' \in Seq(Task)
  BY <1>4, <1>7, ConcatProperties DEF TypeOK
<1> QED
  BY <1>8 DEF StateChange, TypeOK, dialogVars, lifeVars, socketVars

(* A subscription expires. *)
LEMMA TypesExpire ==
  ASSUME TypeOK, IsFiniteSet(DOMAIN subs), NEW c \in Calls, Expire(c)
  PROVE  TypeOK'
<1>1. /\ subs' \in [DOMAIN subs' -> Contacts] /\ DOMAIN subs' \subseteq Calls
      /\ raced' \subseteq DOMAIN subs' /\ usurped' \subseteq DOMAIN subs'
  BY Dropped DEF Expire
<1> QED BY <1>1 DEF Expire, TypeOK, queueVars, lifeVars, socketVars

(* Every step keeps the types. *)
LEMMA TypesNext ==
  ASSUME TypeOK, IsFiniteSet(DOMAIN subs), Next
  PROVE  TypeOK'
<1>1. CASE Life
  BY <1>1, TypesLife
<1>2. CASE Handle
  BY <1>2, TypesRefused, TypesSubscribe, TypesUnsubscribe DEF Handle
<1>3. CASE RunTransmit
  BY <1>3, TypesTransmit
<1>4. CASE \E i \in DOMAIN connecting : FinishTcp(i)
  BY <1>4, TypesFinish
<1>5. CASE StateChange
  BY <1>5, TypesState
<1>6. CASE \E m \in Subscribe : Arrive(m)
  BY <1>6, TypesArrive
<1>7. CASE \E c \in Calls : Expire(c)
  BY <1>7, TypesExpire
<1> QED BY <1>1, <1>2, <1>3, <1>4, <1>5, <1>6, <1>7 DEF Next, EventLoop

-----------------------------------------------------------------------------
(***************************************************************************)
(* The contexts of live subscriptions                                      *)
(***************************************************************************)
(* No end that is being sent after the step was not being sent before. *)
NoNewEnd ==
  \A i \in DOMAIN connecting' :
    connecting'[i].kind = "terminated"
      => \E k \in DOMAIN connecting : connecting'[i] = connecting[k]

(* Where no end is new, whatever is ending after the step was before it. *)
LEMMA EndsWereThere ==
  ASSUME NoNewEnd, NEW c, Ending(c)'
  PROVE  Ending(c)
  BY DEF NoNewEnd, Ending

(* A NOTIFY more on its way is an end only if it says so. *)
LEMMA OneMore ==
  ASSUME NEW s \in Seq(Note), NEW n \in Note
  PROVE  \A i \in DOMAIN Append(s, n) :
           \/ \E k \in DOMAIN s : Append(s, n)[i] = s[k]
           \/ Append(s, n)[i] = n
  BY AppendProperties, LenProperties

(* Steps that leave the dialogs alone and send no end. *)
LEMMA WiredStill ==
  ASSUME Wired, TypeOK', UNCHANGED dialogVars, NoNewEnd
  PROVE  Wired'
<1>1. EndsAreRaced'
  BY EndsWereThere DEF Wired, EndsAreRaced, dialogVars
<1>2. ContextLostOnlyInRace' /\ NotifiedWhereAccepted'
  BY DEF Wired, ContextLostOnlyInRace, NotifiedWhereAccepted, dialogVars
<1> QED BY <1>1, <1>2 DEF Wired, dialogVars

(* A refused request may replace the context of a live subscription; then  *)
(* the subscription is marked.                                             *)
LEMMA WiredRefused ==
  ASSUME Wired, NEW m \in Subscribe, HandleRefused(m), TypeOK'
  PROVE  Wired'
<1>1. /\ UNCHANGED <<subs, raced, connecting>>
      /\ usurped' = usurped \union ({m.call} \intersect DOMAIN subs)
  BY DEF HandleRefused
<1>2. /\ DOMAIN wire' = DOMAIN wire \union {m.call}
      /\ \A d \in DOMAIN wire \ {m.call} : wire'[d] = wire[d]
  BY Stored DEF HandleRefused, Wired
<1>3. EndsAreRaced'
  BY <1>1, EndsWereThere DEF Wired, EndsAreRaced, Ending
<1>4. ContextLostOnlyInRace' /\ NotifiedWhereAccepted'
  BY <1>1, <1>2 DEF Wired, ContextLostOnlyInRace, NotifiedWhereAccepted
<1> QED BY <1>1, <1>3, <1>4 DEF Wired

(* An accepted one stores the context it was accepted with, and is marked  *)
(* if an end is still being sent.                                          *)
LEMMA WiredSubscribe ==
  ASSUME Wired, NEW m \in Subscribe, HandleSubscribe(m), TypeOK'
  PROVE  Wired'
<1>1. /\ connecting' = connecting
      /\ raced' = IF Ending(m.call) THEN raced \union {m.call} ELSE raced
      /\ usurped' = usurped \ {m.call}
  BY DEF HandleSubscribe
<1>2. /\ DOMAIN wire' = DOMAIN wire \union {m.call}
      /\ wire'[m.call].contact = m.contact
      /\ \A d \in DOMAIN wire \ {m.call} : wire'[d] = wire[d]
  BY Stored, Taken DEF HandleSubscribe, Wired
<1>3. /\ DOMAIN subs' = DOMAIN subs \union {m.call}
      /\ subs'[m.call] = m.contact
      /\ \A d \in DOMAIN subs \ {m.call} : subs'[d] = subs[d]
      /\ IsFiniteSet(DOMAIN subs')
  BY Accepted DEF Wired
<1>4. \A c : Ending(c)' <=> Ending(c)
  BY <1>1 DEF Ending
<1>5. EndsAreRaced'
  BY <1>1, <1>3, <1>4 DEF Wired, EndsAreRaced
<1>6. ContextLostOnlyInRace'
  BY <1>1, <1>2, <1>3 DEF Wired, ContextLostOnlyInRace
<1>7. NotifiedWhereAccepted'
  BY <1>1, <1>2, <1>3 DEF Wired, NotifiedWhereAccepted
<1> QED BY <1>3, <1>5, <1>6, <1>7 DEF Wired

(* An unsubscription takes the subscription with it whose end it sends. *)
LEMMA WiredUnsubscribe ==
  ASSUME Wired, NEW m \in Subscribe, HandleUnsubscribe(m), TypeOK'
  PROVE  Wired'
<1> DEFINE end == [call |-> m.call, ctx |-> ContextOf(m), state |-> state,
                   kind |-> "terminated"]
<1>1. /\ DOMAIN subs' = DOMAIN subs \ {m.call}
      /\ \A d \in DOMAIN subs' : subs'[d] = subs[d]
      /\ IsFiniteSet(DOMAIN subs')
  BY Dropped DEF HandleUnsubscribe, Wired
<1>2. raced' = raced \ {m.call} /\ usurped' = usurped \ {m.call}
  BY DEF HandleUnsubscribe
<1>3. \A d \in DOMAIN wire \ {m.call} : d \in DOMAIN wire'
  <2>1. \/ wire' = With(wire, m.call, ContextOf(m))
        \/ wire' = Without(wire, m.call)
    BY DEF HandleUnsubscribe
  <2> QED BY <2>1, Stored, Deleted DEF Wired
<1>4. \A d \in DOMAIN wire' \ {m.call} :
        d \in DOMAIN wire /\ wire'[d] = wire[d]
  <2>1. \/ wire' = With(wire, m.call, ContextOf(m))
        \/ wire' = Without(wire, m.call)
    BY DEF HandleUnsubscribe
  <2> QED BY <2>1, Stored, Deleted DEF Wired
<1>5. ASSUME NEW c, c # m.call, Ending(c)' PROVE Ending(c)
  <2>1. connecting' = connecting \/ connecting' = Append(connecting, end)
    BY DEF HandleUnsubscribe
  <2>2. end \in Note /\ connecting \in Seq(Note)
    BY Taken DEF Wired, TypeOK, Note, Notify
  <2>3. PICK i \in DOMAIN connecting' : /\ connecting'[i].call = c
                                       /\ connecting'[i].kind = "terminated"
    BY <1>5 DEF Ending
  <2>4. CASE connecting' = connecting
    BY <2>3, <2>4 DEF Ending
  <2>5. CASE connecting' = Append(connecting, end)
    <3>1. connecting'[i] # end
      BY <1>5, <2>3
    <3>2. PICK k \in DOMAIN connecting : connecting'[i] = connecting[k]
      BY <2>2, <2>3, <2>5, <3>1, OneMore
    <3> QED BY <2>3, <3>2 DEF Ending
  <2> QED BY <2>1, <2>4, <2>5
<1>6. EndsAreRaced'
  BY <1>1, <1>2, <1>5 DEF Wired, EndsAreRaced
<1>7. ContextLostOnlyInRace'
  BY <1>1, <1>2, <1>3 DEF Wired, ContextLostOnlyInRace
<1>8. NotifiedWhereAccepted'
  BY <1>1, <1>2, <1>4 DEF Wired, NotifiedWhereAccepted
<1> QED BY <1>1, <1>6, <1>7, <1>8 DEF Wired

(* A task of its own sends no end. *)
LEMMA WiredTransmit ==
  ASSUME Wired, RunTransmit, TypeOK'
  PROVE  Wired'
<1>1. Head(ready).note \in Note /\ Head(ready).note.kind = "active"
  BY TypesTransmit DEF Wired
<1>2. \/ connecting' = Append(connecting, Head(ready).note)
      \/ connecting' = connecting
  BY DEF RunTransmit
<1>3. connecting \in Seq(Note)
  BY DEF Wired, TypeOK
<1>4. NoNewEnd
  BY <1>1, <1>2, <1>3, OneMore DEF NoNewEnd
<1> QED BY <1>4, WiredStill DEF RunTransmit

(* The end of a subscription has been sent. Whoever has subscribed on the  *)
(* Call-ID meanwhile is marked; nobody else loses a context.               *)
LEMMA WiredFinish ==
  ASSUME Wired, NEW i \in DOMAIN connecting, FinishTcp(i), TypeOK'
  PROVE  Wired'
<1>1. connecting \in Seq(Note) /\ connecting' = RemoveAt(connecting, i)
  BY DEF Wired, TypeOK, FinishTcp
<1>2. NoNewEnd
  BY <1>1, LeftOver DEF NoNewEnd
<1>3. UNCHANGED <<subs, raced, usurped>>
  BY DEF FinishTcp
<1>4. EndsAreRaced'
  BY <1>2, <1>3, EndsWereThere DEF Wired, EndsAreRaced
<1>5. /\ \A c \in DOMAIN wire : c \in DOMAIN wire' \/ Ending(c)
      /\ \A c \in DOMAIN wire' : c \in DOMAIN wire /\ wire'[c] = wire[c]
  <2>1. CASE connecting[i].kind = "terminated"
    <3>1. wire' = Without(wire, connecting[i].call)
      BY <2>1 DEF FinishTcp
    <3>2. /\ DOMAIN wire' = DOMAIN wire \ {connecting[i].call}
          /\ \A c \in DOMAIN wire' : wire'[c] = wire[c]
      BY <3>1, Deleted DEF Wired
    <3>3. Ending(connecting[i].call)
      BY <2>1 DEF Ending
    <3> QED BY <3>2, <3>3
  <2>2. CASE connecting[i].kind # "terminated"
    BY <2>2 DEF FinishTcp
  <2> QED BY <2>1, <2>2
<1>6. ContextLostOnlyInRace'
  BY <1>3, <1>5 DEF Wired, EndsAreRaced, ContextLostOnlyInRace
<1>7. NotifiedWhereAccepted'
  BY <1>3, <1>5 DEF Wired, NotifiedWhereAccepted
<1> QED BY <1>3, <1>4, <1>6, <1>7 DEF Wired

(* An expired subscription leaves its context behind. *)
LEMMA WiredExpire ==
  ASSUME Wired, NEW c \in Calls, Expire(c), TypeOK'
  PROVE  Wired'
<1>1. /\ DOMAIN subs' = DOMAIN subs \ {c}
      /\ \A d \in DOMAIN subs' : subs'[d] = subs[d]
      /\ IsFiniteSet(DOMAIN subs')
  BY Dropped DEF Expire, Wired
<1>2. /\ UNCHANGED <<wire, connecting>>
      /\ raced' = raced \ {c} /\ usurped' = usurped \ {c}
  BY DEF Expire, queueVars
<1>3. EndsAreRaced'
  BY <1>1, <1>2 DEF Wired, EndsAreRaced, Ending
<1>4. ContextLostOnlyInRace' /\ NotifiedWhereAccepted'
  BY <1>1, <1>2 DEF Wired, ContextLostOnlyInRace, NotifiedWhereAccepted
<1> QED BY <1>1, <1>3, <1>4 DEF Wired

(* It holds at first: nobody has subscribed. *)
LEMMA WiredInit == Init => Wired
<1> SUFFICES ASSUME Init PROVE Wired
  OBVIOUS
<1>1. TypeOK /\ IsFiniteSet(DOMAIN subs)
  BY TypesInit
<1>2. DOMAIN subs = {}
  BY DEF Init, EmptyDict
<1> QED
  BY <1>1, <1>2
     DEF Wired, EndsAreRaced, ContextLostOnlyInRace, NotifiedWhereAccepted

(* Every step keeps it. *)
LEMMA WiredNext == Wired /\ [Next]_vars => Wired'
<1> SUFFICES ASSUME Wired, [Next]_vars PROVE Wired'
  OBVIOUS
<1>1. TypeOK /\ IsFiniteSet(DOMAIN subs)
  BY DEF Wired
<1>2. connecting' = connecting => NoNewEnd
  BY DEF NoNewEnd
<1>3. CASE Next
  <2>1. TypeOK'
    BY <1>1, <1>3, TypesNext
  <2>2. CASE Life
    <3>1. UNCHANGED dialogVars /\ connecting' = connecting
      BY <2>2
         DEF Life, BindUdp, BindTcp, StopCore, StopTcp, StopUdp, queueVars
    <3> QED BY <1>2, <2>1, <3>1, WiredStill
  <2>3. CASE Handle
    BY <2>1, <2>3, WiredRefused, WiredSubscribe, WiredUnsubscribe DEF Handle
  <2>4. CASE RunTransmit
    BY <2>1, <2>4, WiredTransmit
  <2>5. CASE \E i \in DOMAIN connecting : FinishTcp(i)
    BY <2>1, <2>5, WiredFinish
  <2>6. CASE StateChange
    BY <1>2, <2>1, <2>6, WiredStill DEF StateChange
  <2>7. CASE \E m \in Subscribe : Arrive(m)
    BY <1>2, <2>1, <2>7, WiredStill DEF Arrive
  <2>8. CASE \E c \in Calls : Expire(c)
    BY <2>1, <2>8, WiredExpire
  <2> QED
    BY <1>3, <2>2, <2>3, <2>4, <2>5, <2>6, <2>7, <2>8 DEF Next, EventLoop
<1>4. CASE UNCHANGED vars
  <2>1. UNCHANGED <<dialogVars, connecting>>
    BY <1>4 DEF vars, queueVars
  <2>2. TypeOK'
    BY <1>1, <1>4
       DEF TypeOK, vars, dialogVars, queueVars, lifeVars, socketVars
  <2> QED BY <1>2, <2>1, <2>2, WiredStill
<1> QED BY <1>3, <1>4

-----------------------------------------------------------------------------
(* All behaviours keep the invariant the theorems below are parts of. *)
LEMMA AlwaysWired == Spec => []Wired
  BY WiredInit, WiredNext, PTL DEF Spec

(* The variables of the wire adapter keep their types. *)
THEOREM SipTypes == Spec => []TypeOK
<1>1. Wired => TypeOK
  BY DEF Wired
<1> QED BY <1>1, AlwaysWired, PTL

(* A live subscription is without its WireContext only where it was        *)
(* accepted while the end of another one on its Call-ID was being sent.    *)
THEOREM ContextsLostOnlyInRaces == Spec => []ContextLostOnlyInRace
<1>1. Wired => ContextLostOnlyInRace
  BY DEF Wired
<1> QED BY <1>1, AlwaysWired, PTL

(* NOTIFYs go to the contact the core accepted, unless a later SUBSCRIBE   *)
(* on the Call-ID was refused.                                             *)
THEOREM SubscribersStayWhereAccepted == Spec => []NotifiedWhereAccepted
<1>1. Wired => NotifiedWhereAccepted
  BY DEF Wired
<1> QED BY <1>1, AlwaysWired, PTL

(* The dialog of a subscription that lives on, unmarked, keeps the To-tag  *)
(* its 200 carried, whatever the step.                                     *)
THEOREM DialogsKeepTags == Spec => DialogKeepsTag
<1> DEFINE Kept == \A c \in (DOMAIN subs \intersect DOMAIN subs') \ raced' :
                     wire'[c].tag = wire[c].tag
<1>1. ASSUME Wired, Next PROVE Kept
  <2> SUFFICES ASSUME NEW c \in DOMAIN subs,
                      c \in DOMAIN subs', c \notin raced'
               PROVE  wire'[c].tag = wire[c].tag
    OBVIOUS
  <2>1. TypeOK /\ IsFiniteSet(DOMAIN subs)
    BY <1>1 DEF Wired
  <2>2. CASE wire' = wire
    BY <2>2
  <2>3. ASSUME NEW m \in Subscribe, HandleRefused(m) \/ HandleSubscribe(m)
        PROVE  wire'[c].tag = wire[c].tag
    <3>1. wire' = With(wire, m.call, ContextOf(m)) /\ raced \subseteq raced'
      BY <2>3 DEF HandleRefused, HandleSubscribe
    <3>2. c \in DOMAIN wire
      BY <1>1, <3>1 DEF Wired, ContextLostOnlyInRace
    <3>3. m \in Subscribe /\ wire' = With(wire, m.call, ContextOf(m))
      BY <3>1
    <3>4. CASE c = m.call
      <4>1. wire'[c] = ContextOf(m) /\ ContextOf(m).tag = wire[c].tag
        BY <2>1, <3>2, <3>3, <3>4, Stored, Taken
      <4> QED BY <4>1
    <3>5. CASE c # m.call
      <4>1. wire'[c] = wire[c]
        BY <2>1, <3>2, <3>3, <3>5, Stored
      <4> QED BY <4>1
    <3> QED BY <3>4, <3>5
  <2>4. ASSUME NEW m \in Subscribe, HandleUnsubscribe(m)
        PROVE  wire'[c].tag = wire[c].tag
    <3>1. c # m.call /\ c \notin raced
      <4>1. subs' = Without(subs, m.call) /\ raced' = raced \ {m.call}
            /\ usurped' = usurped \ {m.call}
        BY <2>4 DEF HandleUnsubscribe
      <4>2. DOMAIN subs' = DOMAIN subs \ {m.call}
        BY <2>1, <4>1, Dropped
      <4> QED BY <4>1, <4>2
    <3>2. c \in DOMAIN wire
      BY <1>1, <3>1 DEF Wired, ContextLostOnlyInRace
    <3>3. \/ wire' = With(wire, m.call, ContextOf(m))
          \/ wire' = Without(wire, m.call)
      BY <2>4 DEF HandleUnsubscribe
    <3>4. CASE wire' = With(wire, m.call, ContextOf(m))
      BY <2>1, <3>1, <3>2, <3>4, Stored
    <3>5. CASE wire' = Without(wire, m.call)
      <4>1. /\ DOMAIN wire' = DOMAIN wire \ {m.call}
            /\ \A d \in DOMAIN wire' : wire'[d] = wire[d]
        BY <2>1, <3>5, Deleted
      <4> QED BY <3>1, <3>2, <4>1
    <3> QED BY <3>3, <3>4, <3>5
  <2>5. ASSUME NEW i \in DOMAIN connecting, FinishTcp(i)
        PROVE  wire'[c].tag = wire[c].tag
    <3>1. c \in DOMAIN wire /\ ~Ending(c)
      BY <1>1, <2>5
         DEF Wired, EndsAreRaced, ContextLostOnlyInRace, FinishTcp
    <3>2. CASE connecting[i].kind = "terminated"
      <4>1. wire' = Without(wire, connecting[i].call)
        BY <2>5, <3>2 DEF FinishTcp
      <4>2. connecting[i].call # c
        BY <3>1, <3>2 DEF Ending
      <4> QED BY <2>1, <3>1, <4>1, <4>2, Deleted
    <3>3. CASE connecting[i].kind # "terminated"
      BY <2>5, <3>3 DEF FinishTcp
    <3> QED BY <3>2, <3>3
  <2>6. CASE Life \/ RunTransmit \/ StateChange
    BY <2>2, <2>6
       DEF Life, BindUdp, BindTcp, StopCore, StopTcp, StopUdp, RunTransmit,
           StateChange, dialogVars
  <2>7. CASE \/ \E m \in Subscribe : Arrive(m)
             \/ \E d \in Calls : Expire(d)
    BY <2>2, <2>7 DEF Arrive, Expire, dialogVars
  <2> QED
    BY <1>1, <2>3, <2>4, <2>5, <2>6, <2>7 DEF Next, EventLoop, Handle
<1>2. Wired /\ [Next]_vars => [Kept]_vars
  BY <1>1
<1> QED BY <1>2, AlwaysWired, PTL DEF Spec, DialogKeepsTag

-----------------------------------------------------------------------------
(***************************************************************************)
(* The order of NOTIFYs                                                    *)
(***************************************************************************)
(* The places of the queue where a NOTIFY waits, and all NOTIFYs to come.  *)
Queued == {i \in DOMAIN ready : ready[i].op = "transmit"}
Pending == {ready[i].note : i \in Queued}
             \union {connecting[i] : i \in DOMAIN connecting}

(* What waits in the queue is in the order of states, and no older than    *)
(* what was sent over UDP.                                                 *)
InOrder ==
  /\ \A i \in Queued : ready[i].note.state <= state
  /\ \A i, j \in Queued : i < j => ready[i].note.state <= ready[j].note.state
  /\ \A c \in Calls :
       (told[c].kind = "active" /\ told[c].ctx.transport = "UDP") =>
         /\ told[c].state <= state
         /\ \A i \in Queued : told[c].state <= ready[i].note.state

(* Once an end went out over UDP its To-tag is not used again, and what is *)
(* still to come with it is no newer.                                      *)
Ended ==
  /\ \A n \in Pending : n.state <= state /\ n.ctx.tag <= tags
  /\ \A c \in DOMAIN wire : wire[c].tag <= tags
  /\ \A i \in DOMAIN connecting : connecting[i].ctx.transport = "TCP"
  /\ \A c \in Calls : told[c].kind # "none" => told[c].ctx.tag <= tags
  /\ \A c \in Calls :
       (told[c].kind = "terminated" /\ told[c].ctx.transport = "UDP") =>
         /\ c \in DOMAIN wire => wire[c].tag # told[c].ctx.tag
         /\ \A n \in Pending : (n.call = c /\ n.ctx.tag = told[c].ctx.tag)
              => n.state <= told[c].state

(* A NOTIFY made by a step: it has the context and the state of now.       *)
Fresh(n) ==
  /\ n.call \in DOMAIN wire' /\ n.ctx = wire'[n.call] /\ n.state = state'

(* What a step does to the queue: d tasks leave it, in front, and of what  *)
(* is added behind the NOTIFYs are fresh.                                  *)
Behind(d) ==
  /\ d <= Len(ready) /\ Len(ready) - d <= Len(ready')
  /\ ready' \in Seq(Task)
  /\ \A i \in 1 .. Len(ready') :
       \/ i <= Len(ready) - d /\ ready'[i] = ready[i + d]
       \/ /\ i > Len(ready) - d
          /\ ready'[i].op = "transmit" => Fresh(ready'[i].note)

(* What it does to the contexts: a To-tag is kept, or new.                 *)
Tagged ==
  /\ state <= state' /\ tags <= tags'
  /\ \A c \in DOMAIN wire' :
       \/ c \in DOMAIN wire /\ wire'[c].tag = wire[c].tag
       \/ tags < tags' /\ wire'[c].tag = tags'

(* What it does to the connections: those that are new waited, or are      *)
(* fresh.                                                                  *)
Connected ==
  \A i \in DOMAIN connecting' :
    /\ connecting'[i].ctx.transport = "TCP"
    /\ connecting'[i] \in Pending \/ Fresh(connecting'[i])

(* What it sends: the head of the queue, which leaves it, what was still   *)
(* connecting, or the end of the subscription whose context it deletes.    *)
Sends(d) ==
  \A c \in Calls :
    \/ told'[c] = told[c]
    \/ /\ d = 1 /\ ready[1].op = "transmit"
       /\ told'[c] = ready[1].note /\ told'[c].call = c
    \/ \E k \in DOMAIN connecting : /\ told'[c] = connecting[k]
                                    /\ told'[c].call = c
    \/ /\ told'[c].kind = "terminated" /\ c \notin DOMAIN wire'
       /\ told'[c].state = state' /\ told'[c].ctx.tag <= tags'
       /\ connecting' = connecting

(* All a step does to the dialogs. *)
Delivers == \E d \in {0, 1} : Behind(d) /\ Tagged /\ Connected /\ Sends(d)

(* What may wait in the queue or connect. *)
LEMMA PendingTypes ==
  ASSUME TypeOK
  PROVE  /\ \A i \in Queued : /\ i \in 1 .. Len(ready)
                              /\ ready[i].note \in Notify({"active"})
         /\ \A i \in DOMAIN connecting : connecting[i] \in Note
         /\ Len(ready) \in Nat
<1>1. ready \in Seq(Task) /\ connecting \in Seq(Note)
  BY DEF TypeOK
<1>2. /\ DOMAIN ready = 1 .. Len(ready) /\ Len(ready) \in Nat
      /\ \A i \in 1 .. Len(ready) : ready[i] \in Task
  BY <1>1, LenProperties, ElementOfSeq
<1>3. \A i \in DOMAIN connecting : connecting[i] \in Note
  BY <1>1, LenProperties, ElementOfSeq
<1>4. \A i \in Queued : ready[i].note \in Notify({"active"})
  BY <1>2 DEF Queued, Task
<1> QED  BY <1>2, <1>3, <1>4 DEF Queued

(* What waits after a step waited before it, or is fresh. *)
LEMMA QueuedWere ==
  ASSUME TypeOK, NEW d \in {0, 1}, Behind(d), NEW i \in Queued'
  PROVE  /\ i \in 1 .. Len(ready')
         /\ \/ /\ i <= Len(ready) - d /\ i + d \in Queued
               /\ ready'[i] = ready[i + d]
            \/ i > Len(ready) - d /\ Fresh(ready'[i].note)
<1>1. /\ DOMAIN ready' = 1 .. Len(ready') /\ Len(ready') \in Nat
      /\ DOMAIN ready = 1 .. Len(ready) /\ Len(ready) \in Nat
  BY LenProperties DEF Behind, TypeOK
<1>2. i \in 1 .. Len(ready') /\ ready'[i].op = "transmit"
  BY <1>1 DEF Queued
<1>3. CASE i <= Len(ready) - d
  <2>1. ready'[i] = ready[i + d]
    BY <1>2, <1>3 DEF Behind
  <2>2. i + d \in DOMAIN ready
    BY <1>1, <1>2, <1>3
  <2> QED  BY <1>2, <1>3, <2>1, <2>2 DEF Queued
<1>4. CASE i > Len(ready) - d
  BY <1>1, <1>2, <1>4 DEF Behind
<1> QED  BY <1>1, <1>2, <1>3, <1>4

(* What is to come after a step was to come before it, or is fresh. *)
LEMMA PendingWere ==
  ASSUME TypeOK, NEW d \in {0, 1}, Behind(d), Connected, NEW n \in Pending'
  PROVE  n \in Pending \/ Fresh(n)
<1>1. CASE n \in {ready[i].note : i \in Queued}'
  <2>1. PICK i \in Queued' : n = ready'[i].note
    BY <1>1
  <2> QED  BY <2>1, QueuedWere DEF Pending
<1>2. CASE n \in {connecting[i] : i \in DOMAIN connecting}'
  BY <1>2 DEF Connected, Pending
<1> QED  BY <1>1, <1>2 DEF Pending

(* A step that keeps To-tags, or makes new ones, revives no dialog that    *)
(* was ended over UDP.                                                     *)
LEMMA EndedStill ==
  ASSUME TypeOK, TypeOK', Ended, Delivers
  PROVE  Ended'
<1>1. PICK d \in {0, 1} : Behind(d) /\ Tagged /\ Connected /\ Sends(d)
  BY DEF Delivers
<1>2. /\ state \in Nat /\ state' \in Nat /\ tags \in Nat /\ tags' \in Nat
      /\ state <= state' /\ tags <= tags'
  BY <1>1 DEF TypeOK, Tagged
<1>3. \A c \in DOMAIN wire : wire[c].tag \in Nat /\ wire[c].tag <= tags
  BY DEF TypeOK, Context, Ended
<1>4. \A c \in DOMAIN wire' : wire'[c].tag \in Nat /\ wire'[c].tag <= tags'
  <2> SUFFICES ASSUME NEW c \in DOMAIN wire'
               PROVE  wire'[c].tag \in Nat /\ wire'[c].tag <= tags'
    OBVIOUS
  <2>1. \/ c \in DOMAIN wire /\ wire'[c].tag = wire[c].tag
        \/ wire'[c].tag = tags'
    BY <1>1 DEF Tagged
  <2> QED  BY <1>2, <1>3, <2>1
<1>5. \A n \in Pending : /\ n.state \in Nat /\ n.ctx.tag \in Nat
                         /\ n.state <= state /\ n.ctx.tag <= tags
  <2>1. \A n \in Pending : n \in Note
    BY PendingTypes DEF Pending, Note, Notify
  <2> QED  BY <2>1 DEF Note, Notify, Context, Ended
<1>6. \A n \in Pending' : n.state <= state' /\ n.ctx.tag <= tags'
  <2> SUFFICES ASSUME NEW n \in Pending'
               PROVE  n.state <= state' /\ n.ctx.tag <= tags'
    OBVIOUS
  <2>1. CASE n \in Pending
    BY <1>2, <1>5, <2>1
  <2>2. CASE Fresh(n)
    BY <1>2, <1>4, <2>2 DEF Fresh
  <2> QED  BY <1>1, <2>1, <2>2, PendingWere
<1>7. \A i \in DOMAIN connecting' : connecting'[i].ctx.transport = "TCP"
  BY <1>1 DEF Connected
<1>8. ASSUME NEW c \in Calls
      PROVE  \/ told'[c] = told[c]
             \/ /\ told'[c] \in Pending
                /\ told'[c].kind = "active"
                   \/ told'[c].ctx.transport = "TCP"
             \/ /\ told'[c].kind = "terminated" /\ c \notin DOMAIN wire'
                /\ told'[c].state = state' /\ told'[c].ctx.tag <= tags'
                /\ connecting' = connecting
  <2>1. CASE d = 1 /\ ready[1].op = "transmit" /\ told'[c] = ready[1].note
    <3>1. 1 \in Queued
      BY <1>1, <2>1, PendingTypes, LenProperties
         DEF Behind, TypeOK, Queued
    <3>2. ready[1].note \in Pending /\ ready[1].note.kind = "active"
      BY <3>1, PendingTypes DEF Pending, Notify
    <3> QED  BY <2>1, <3>2
  <2>2. CASE \E k \in DOMAIN connecting : told'[c] = connecting[k]
    BY <2>2 DEF Pending, Ended
  <2> QED  BY <1>1, <2>1, <2>2 DEF Sends
<1>9. \A c \in Calls : told'[c].kind # "none" => told'[c].ctx.tag <= tags'
  <2> SUFFICES ASSUME NEW c \in Calls, told'[c].kind # "none"
               PROVE  told'[c].ctx.tag <= tags'
    OBVIOUS
  <2>1. CASE told'[c] = told[c]
    <3>1. told[c] \in Note /\ told[c].ctx.tag <= tags
      BY <2>1 DEF TypeOK, Silence, Ended
    <3>2. told[c].ctx.tag \in Nat
      BY <3>1 DEF Note, Notify, Context
    <3> QED  BY <1>2, <2>1, <3>1, <3>2
  <2>2. CASE told'[c] \in Pending
    BY <1>2, <1>5, <2>2
  <2> QED  BY <1>8, <2>1, <2>2
<1>10. ASSUME NEW c \in Calls, told'[c].kind = "terminated",
              told'[c].ctx.transport = "UDP"
       PROVE  /\ c \in DOMAIN wire' => wire'[c].tag # told'[c].ctx.tag
              /\ \A n \in Pending' :
                   (n.call = c /\ n.ctx.tag = told'[c].ctx.tag)
                     => n.state <= told'[c].state
  <2>1. CASE told'[c] = told[c]
    <3>1. /\ told[c] \in Note /\ told[c].ctx.tag <= tags
          /\ c \in DOMAIN wire => wire[c].tag # told[c].ctx.tag
          /\ \A n \in Pending : (n.call = c /\ n.ctx.tag = told[c].ctx.tag)
               => n.state <= told[c].state
      BY <1>10, <2>1 DEF TypeOK, Silence, Ended
    <3>2. told[c].ctx.tag \in Nat
      BY <3>1 DEF Note, Notify, Context
    <3>3. c \in DOMAIN wire' => wire'[c].tag # told[c].ctx.tag
      <4>1. c \in DOMAIN wire' =>
              \/ c \in DOMAIN wire /\ wire'[c].tag = wire[c].tag
              \/ tags < tags' /\ wire'[c].tag = tags'
        BY <1>1 DEF Tagged
      <4> QED  BY <1>2, <3>1, <3>2, <4>1
    <3>4. ASSUME NEW n \in Pending', n.call = c, n.ctx.tag = told[c].ctx.tag
          PROVE  n.state <= told[c].state
      <4>1. ~Fresh(n)
        BY <3>3, <3>4 DEF Fresh
      <4>2. n \in Pending
        BY <1>1, <4>1, PendingWere
      <4> QED  BY <3>1, <3>4, <4>2
    <3> QED  BY <2>1, <3>3, <3>4
  <2>2. CASE /\ c \notin DOMAIN wire' /\ told'[c].state = state'
    BY <1>6, <2>2
  <2> QED  BY <1>8, <1>10, <2>1, <2>2
<1> QED  BY <1>4, <1>6, <1>7, <1>9, <1>10 DEF Ended

(* Steps that add news behind what waits keep the queue in order. *)
LEMMA InOrderStill ==
  ASSUME TypeOK, TypeOK', Ended, InOrder, Delivers
  PROVE  InOrder'
<1>1. PICK d \in {0, 1} : Behind(d) /\ Tagged /\ Connected /\ Sends(d)
  BY DEF Delivers
<1>2. state \in Nat /\ state' \in Nat /\ state <= state'
  BY <1>1 DEF TypeOK, Tagged
<1>3. \A i \in Queued : /\ i \in 1 .. Len(ready)
                        /\ ready[i].note.state \in Nat
                        /\ ready[i].note.state <= state
  BY PendingTypes DEF Notify, InOrder
<1>4. \A i \in Queued' : i \in 1 .. Len(ready') /\ Len(ready') \in Nat
  BY <1>1, QueuedWere, LenProperties DEF Behind
<1>5. \A i \in Queued' : ready'[i].note.state <= state'
  <2> SUFFICES ASSUME NEW i \in Queued'
               PROVE  ready'[i].note.state <= state'
    OBVIOUS
  <2>1. CASE i + d \in Queued /\ ready'[i] = ready[i + d]
    BY <1>2, <1>3, <2>1
  <2>2. CASE Fresh(ready'[i].note)
    BY <1>2, <2>2 DEF Fresh
  <2> QED  BY <1>1, <2>1, <2>2, QueuedWere
<1>6. ASSUME NEW i \in Queued', NEW j \in Queued', i < j
      PROVE  ready'[i].note.state <= ready'[j].note.state
  <2>1. CASE Fresh(ready'[j].note)
    BY <1>5, <2>1 DEF Fresh
  <2>2. CASE ~Fresh(ready'[j].note)
    <3>1. /\ j <= Len(ready) - d /\ j + d \in Queued
          /\ ready'[j] = ready[j + d]
      BY <1>1, <2>2, QueuedWere
    <3>2. ~(i > Len(ready) - d)
      BY <1>1, <1>4, <1>6, <3>1, PendingTypes
    <3>3. i + d \in Queued /\ ready'[i] = ready[i + d]
      BY <1>1, <3>2, QueuedWere
    <3>4. i + d < j + d
      BY <1>4, <1>6
    <3> QED  BY <3>1, <3>3, <3>4 DEF InOrder
  <2> QED  BY <2>1, <2>2
<1>7. ASSUME NEW c \in Calls, told'[c].kind = "active",
             told'[c].ctx.transport = "UDP"
      PROVE  /\ told'[c].state <= state'
             /\ \A i \in Queued' : told'[c].state <= ready'[i].note.state
  <2>1. CASE told'[c] = told[c]
    <3>1. /\ told[c] \in Note /\ told[c].state <= state
          /\ \A i \in Queued : told[c].state <= ready[i].note.state
      BY <1>7, <2>1 DEF TypeOK, Silence, InOrder
    <3>2. told[c].state \in Nat
      BY <3>1 DEF Note, Notify
    <3>3. told[c].state <= state'
      BY <1>2, <3>1, <3>2
    <3>4. ASSUME NEW i \in Queued'
          PROVE  told[c].state <= ready'[i].note.state
      <4>1. CASE i + d \in Queued /\ ready'[i] = ready[i + d]
        BY <3>1, <4>1
      <4>2. CASE Fresh(ready'[i].note)
        BY <3>3, <4>2 DEF Fresh
      <4> QED  BY <1>1, <4>1, <4>2, QueuedWere
    <3> QED  BY <2>1, <3>3, <3>4
  <2>2. CASE d = 1 /\ ready[1].op = "transmit" /\ told'[c] = ready[1].note
    <3>1. 1 \in Queued
      BY <1>1, <2>2, PendingTypes, LenProperties
         DEF Behind, TypeOK, Queued
    <3>2. ready[1].note.state <= state'
      BY <1>2, <1>3, <3>1
    <3>3. ASSUME NEW i \in Queued'
          PROVE  ready[1].note.state <= ready'[i].note.state
      <4>1. CASE i + 1 \in Queued /\ ready'[i] = ready[i + 1]
        <5>1. 1 < i + 1
          BY <1>4
        <5> QED  BY <3>1, <4>1, <5>1 DEF InOrder
      <4>2. CASE Fresh(ready'[i].note)
        BY <3>2, <4>2 DEF Fresh
      <4> QED  BY <1>1, <2>2, <4>1, <4>2, QueuedWere
    <3> QED  BY <2>2, <3>2, <3>3
  <2>3. CASE \E k \in DOMAIN connecting : told'[c] = connecting[k]
    BY <1>7, <2>3 DEF Ended
  <2> QED  BY <1>1, <1>7, <2>1, <2>2, <2>3 DEF Sends
<1> QED  BY <1>5, <1>6, <1>7 DEF InOrder

(* Where the dialogs stay as they are and nothing connects. *)
LEMMA NothingMoves ==
  ASSUME TypeOK, UNCHANGED <<wire, tags, state>>
  PROVE  Tagged
  BY DEF TypeOK, Tagged

(* A request stores its context, with the To-tag of its Call-ID.           *)
LEMMA RequestTags ==
  ASSUME TypeOK, NEW m \in Subscribe, TakeTag(m), state' = state,
         \/ wire' = With(wire, m.call, ContextOf(m))
         \/ wire' = Without(wire, m.call)
  PROVE  /\ Tagged
         /\ \/ m.call \in DOMAIN wire /\ ContextOf(m).tag = wire[m.call].tag
            \/ tags < tags' /\ ContextOf(m).tag = tags'
<1>1. state \in Nat /\ tags \in Nat
  BY DEF TypeOK
<1>2. \/ /\ m.call \in DOMAIN wire /\ tags' = tags
         /\ ContextOf(m).tag = wire[m.call].tag
      \/ tags' = tags + 1 /\ ContextOf(m).tag = tags'
  BY DEF ContextOf, TakeTag
<1>3. tags <= tags'
  BY <1>1, <1>2
<1>4. CASE wire' = With(wire, m.call, ContextOf(m))
  <2>1. /\ DOMAIN wire' = DOMAIN wire \union {m.call}
        /\ wire'[m.call] = ContextOf(m)
        /\ \A c \in DOMAIN wire \ {m.call} : wire'[c] = wire[c]
    BY <1>4, Stored
  <2> QED  BY <1>1, <1>2, <1>3, <2>1 DEF Tagged
<1>5. CASE wire' = Without(wire, m.call)
  <2>1. \A c \in DOMAIN wire' : c \in DOMAIN wire /\ wire'[c] = wire[c]
    BY <1>5, Deleted
  <2> QED  BY <1>1, <1>2, <1>3, <2>1 DEF Tagged
<1> QED  BY <1>4, <1>5

(* A queue that is left alone. *)
LEMMA QueueStill ==
  ASSUME TypeOK, ready' = ready
  PROVE  Behind(0)
  BY LenProperties DEF TypeOK, Behind

(* A queue whose first task is done. *)
LEMMA QueuePopped ==
  ASSUME TypeOK, ready # <<>>, ready' = Tail(ready)
  PROVE  Behind(1) /\ Head(ready) = ready[1]
<1>1. ready \in Seq(Task)
  BY DEF TypeOK
<1>2. /\ Tail(ready) \in Seq(Task) /\ Len(ready) \in Nat /\ Len(ready) >= 1
      /\ Len(Tail(ready)) = Len(ready) - 1 /\ Head(ready) = ready[1]
      /\ \A i \in 1 .. Len(Tail(ready)) : Tail(ready)[i] = ready[i + 1]
  BY <1>1, HeadTailProperties, LenProperties, EmptySeq
<1> QED  BY <1>2 DEF Behind

(* A queue with one task more, and perhaps one less.                       *)
LEMMA QueueAdded ==
  ASSUME TypeOK, NEW d \in {0, 1}, NEW rest \in Seq(Task), NEW task \in Task,
         Len(rest) = Len(ready) - d, d <= Len(ready),
         \A i \in 1 .. Len(rest) : rest[i] = ready[i + d],
         ready' = Append(rest, task),
         task.op = "transmit" => Fresh(task.note)
  PROVE  Behind(d)
<1>1. /\ ready' \in Seq(Task) /\ Len(ready') = Len(rest) + 1
      /\ Len(rest) \in Nat /\ ready'[Len(rest) + 1] = task
      /\ \A i \in 1 .. Len(rest) : ready'[i] = rest[i]
  BY AppendProperties, LenProperties
<1>2. Len(ready) \in Nat
  BY LenProperties DEF TypeOK
<1> QED  BY <1>1, <1>2 DEF Behind

(* Connections that are left alone. *)
LEMMA ConnectedStill ==
  ASSUME Ended, connecting' = connecting
  PROVE  Connected
  BY DEF Ended, Connected, Pending

(* One connection more. *)
LEMMA ConnectedMore ==
  ASSUME TypeOK, Ended, NEW n \in Note, connecting' = Append(connecting, n),
         n.ctx.transport = "TCP", Fresh(n) \/ n \in Pending
  PROVE  Connected
<1>1. connecting \in Seq(Note)
  BY DEF TypeOK
<1>2. \A i \in DOMAIN connecting' :
        \/ \E k \in DOMAIN connecting : connecting'[i] = connecting[k]
        \/ connecting'[i] = n
  BY <1>1, OneMore
<1> QED  BY <1>2 DEF Ended, Connected, Pending

(* Starting and stopping, and a SUBSCRIBE that arrives, deliver nothing.   *)
LEMMA DeliversNothing ==
  ASSUME TypeOK, Ended, UNCHANGED <<wire, tags, state, told, connecting>>,
         Behind(0) \/ Behind(1)
  PROVE  Delivers
<1>1. Tagged /\ Connected
  BY NothingMoves, ConnectedStill
<1>2. Sends(0) /\ Sends(1)
  BY DEF Sends
<1> QED  BY <1>1, <1>2 DEF Delivers

(* A SUBSCRIBE arrives. *)
LEMMA DeliversArrive ==
  ASSUME TypeOK, Ended, NEW m \in Subscribe, Arrive(m)
  PROVE  Delivers
<1> DEFINE task == [op |-> "handle", msg |-> m]
<1>1. task \in Task /\ task.op # "transmit"
  BY DEF Task
<1>2. /\ ready \in Seq(Task) /\ Len(ready) \in Nat
      /\ ready' = Append(ready, task)
  BY LenProperties DEF TypeOK, Arrive
<1> HIDE DEF task
<1>3. \A i \in 1 .. Len(ready) : ready[i] = ready[i + 0]
  BY <1>2
<1>4. Len(ready) = Len(ready) - 0 /\ 0 <= Len(ready)
  BY <1>2
<1>5. Behind(0)
  BY <1>1, <1>2, <1>3, <1>4, QueueAdded
<1> QED  BY <1>5, DeliversNothing DEF Arrive, dialogVars

(* A refused one leaves its context, and the queue. *)
LEMMA DeliversRefused ==
  ASSUME TypeOK, Ended, NEW m \in Subscribe, HandleRefused(m)
  PROVE  Delivers
<1>1. Behind(1)
  BY QueuePopped DEF HandleRefused, Running
<1>2. Tagged
  BY RequestTags DEF HandleRefused
<1>3. Connected
  BY ConnectedStill DEF HandleRefused
<1>4. Sends(1)
  BY DEF HandleRefused, Sends
<1> QED  BY <1>1, <1>2, <1>3, <1>4 DEF Delivers

(* An accepted one has its NOTIFY put behind what waits. *)
LEMMA DeliversSubscribe ==
  ASSUME TypeOK, Ended, NEW m \in Subscribe, HandleSubscribe(m)
  PROVE  Delivers
<1> DEFINE task == Transmit(m.call, ContextOf(m))
<1>1. task \in Task
  BY Taken DEF Transmit, Task, Notify, TypeOK
<1>2. /\ m.call \in DOMAIN wire' /\ wire'[m.call] = ContextOf(m)
      /\ state' = state
  BY Stored DEF HandleSubscribe
<1>3. Fresh(task.note)
  BY <1>2 DEF Transmit, Fresh
<1>4. /\ Tail(ready) \in Seq(Task) /\ Len(Tail(ready)) = Len(ready) - 1
      /\ 1 <= Len(ready)
      /\ \A i \in 1 .. Len(Tail(ready)) : Tail(ready)[i] = ready[i + 1]
  <2>1. ready \in Seq(Task) /\ ready # <<>>
    BY DEF HandleSubscribe, Running, TypeOK
  <2> QED  BY <2>1, HeadTailProperties, LenProperties, EmptySeq
<1>5. ready' = Append(Tail(ready), task)
  BY DEF HandleSubscribe
<1> HIDE DEF task
<1>6. Behind(1)
  BY <1>1, <1>3, <1>4, <1>5, QueueAdded
<1>7. Tagged
  BY RequestTags DEF HandleSubscribe
<1>8. Connected /\ Sends(1)
  BY ConnectedStill DEF HandleSubscribe, Sends
<1> QED  BY <1>6, <1>7, <1>8 DEF Delivers

(* An unsubscription connects for its end, or sends it and deletes the     *)
(* context.                                                                *)
LEMMA DeliversUnsubscribe ==
  ASSUME TypeOK, Ended, NEW m \in Subscribe, HandleUnsubscribe(m)
  PROVE  Delivers
<1> DEFINE end == [call |-> m.call, ctx |-> ContextOf(m), state |-> state,
                   kind |-> "terminated"]
<1>1. end \in Note /\ ContextOf(m).transport = m.transport
  BY Taken DEF Note, Notify, TypeOK, ContextOf
<1>2. Behind(1)
  BY QueuePopped DEF HandleUnsubscribe, Running
<1>3. state' = state /\ TakeTag(m)
  BY DEF HandleUnsubscribe
<1>4. CASE m.transport = "TCP"
  <2>1. /\ wire' = With(wire, m.call, ContextOf(m))
        /\ connecting' = Append(connecting, end) /\ told' = told
    BY <1>4 DEF HandleUnsubscribe
  <2>2. Fresh(end)
    BY <1>3, <2>1, Stored DEF Fresh
  <2>3. Tagged
    BY <1>3, <2>1, RequestTags
  <2>4. end.ctx.transport = "TCP"
    BY <1>1, <1>4
  <2> HIDE DEF end
  <2>5. Connected
    BY <1>1, <2>1, <2>2, <2>4, ConnectedMore
  <2> QED  BY <1>2, <2>1, <2>3, <2>5 DEF Delivers, Sends
<1>5. CASE m.transport # "TCP"
  <2>1. /\ wire' = Without(wire, m.call) /\ connecting' = connecting
        /\ told' = IF udp THEN [told EXCEPT ![m.call] = end] ELSE told
    BY <1>5 DEF HandleUnsubscribe
  <2>2. /\ Tagged
        /\ \/ m.call \in DOMAIN wire /\ ContextOf(m).tag = wire[m.call].tag
           \/ tags < tags' /\ ContextOf(m).tag = tags'
    BY <1>3, <2>1, RequestTags
  <2>3. m.call \notin DOMAIN wire'
    BY <2>1, Deleted
  <2>4. end.ctx.tag <= tags'
    <3>1. \A c \in DOMAIN wire : wire[c].tag \in Nat /\ wire[c].tag <= tags
      BY DEF TypeOK, Context, Ended
    <3>2. tags \in Nat /\ tags' \in Nat /\ tags <= tags'
      BY <1>3, <2>2, Taken DEF TypeOK, Tagged
    <3> QED  BY <2>2, <3>1, <3>2
  <2>5. end.kind = "terminated" /\ end.state = state'
    BY <1>3
  <2> HIDE DEF end
  <2>6. \A c \in Calls : \/ told'[c] = told[c]
                         \/ c = m.call /\ told'[c] = end
    <3>1. DOMAIN told = Calls
      BY DEF TypeOK
    <3>2. told' = told \/ told' = [told EXCEPT ![m.call] = end]
      BY <2>1
    <3> QED  BY <3>1, <3>2
  <2>7. Sends(1)
    BY <2>1, <2>3, <2>4, <2>5, <2>6 DEF Sends
  <2> QED  BY <1>2, <2>1, <2>2, <2>7, ConnectedStill DEF Delivers
<1> QED  BY <1>4, <1>5

(* A transmit task sends the head of the queue, or connects for it. *)
LEMMA DeliversTransmit ==
  ASSUME TypeOK, Ended, RunTransmit
  PROVE  Delivers
<1> DEFINE n == Head(ready).note
<1>1. Behind(1) /\ Head(ready) = ready[1]
  BY QueuePopped DEF RunTransmit
<1>2. n \in Note /\ n = ready[1].note /\ ready[1].op = "transmit"
  BY <1>1, TypesTransmit DEF RunTransmit
<1>3. n \in Pending
  <2>1. 1 \in Queued
    BY <1>1, <1>2, LenProperties DEF Behind, TypeOK, Queued
  <2> QED  BY <1>2, <2>1 DEF Pending
<1>4. Tagged
  BY NothingMoves DEF RunTransmit, dialogVars
<1>5. /\ n.ctx.transport = "TCP" => /\ connecting' = Append(connecting, n)
                                    /\ told' = told
      /\ n.ctx.transport # "TCP" =>
           /\ connecting' = connecting
           /\ told' = IF udp THEN [told EXCEPT ![n.call] = n] ELSE told
  BY DEF RunTransmit
<1> HIDE DEF n
<1>6. CASE n.ctx.transport = "TCP"
  <2>1. Connected
    BY <1>2, <1>3, <1>5, <1>6, ConnectedMore
  <2> QED  BY <1>1, <1>4, <1>5, <1>6, <2>1 DEF Delivers, Sends
<1>7. CASE n.ctx.transport # "TCP"
  <2>1. \A c \in Calls : \/ told'[c] = told[c]
                         \/ c = n.call /\ told'[c] = n
    <3>1. DOMAIN told = Calls
      BY DEF TypeOK
    <3>2. told' = told \/ told' = [told EXCEPT ![n.call] = n]
      BY <1>5, <1>7
    <3> QED  BY <3>1, <3>2
  <2>2. Sends(1)
    BY <1>2, <2>1 DEF Sends
  <2> QED  BY <1>1, <1>4, <1>5, <1>7, <2>2, ConnectedStill DEF Delivers
<1> QED  BY <1>6, <1>7

(* A connection is made or fails. *)
LEMMA DeliversFinish ==
  ASSUME TypeOK, Ended, NEW i \in DOMAIN connecting, FinishTcp(i)
  PROVE  Delivers
<1>1. /\ connecting \in Seq(Note) /\ connecting' = RemoveAt(connecting, i)
      /\ UNCHANGED <<tags, ready, state>>
  BY DEF TypeOK, FinishTcp
<1>2. \A j \in DOMAIN connecting' :
        \E k \in DOMAIN connecting : connecting'[j] = connecting[k]
  BY <1>1, LeftOver
<1>3. Connected
  BY <1>2 DEF Ended, Connected, Pending
<1>4. Behind(0)
  BY <1>1, QueueStill
<1>5. \A c \in Calls :
        \/ told'[c] = told[c]
        \/ c = connecting[i].call /\ told'[c] = connecting[i]
  BY DEF FinishTcp, TypeOK
<1>6. Sends(0)
  BY <1>5 DEF Sends
<1>7. \A c \in DOMAIN wire' : c \in DOMAIN wire /\ wire'[c] = wire[c]
  <2>1. wire' = wire \/ wire' = Without(wire, connecting[i].call)
    BY DEF FinishTcp
  <2> QED  BY <2>1, Deleted
<1>8. Tagged
  BY <1>1, <1>7 DEF Tagged, TypeOK
<1> QED  BY <1>3, <1>4, <1>6, <1>8 DEF Delivers

(* The state changes: everyone who can be reached is sent it, last.        *)
LEMMA DeliversState ==
  ASSUME TypeOK, IsFiniteSet(DOMAIN subs), Ended, StateChange
  PROVE  Delivers
<1> DEFINE reach == DOMAIN subs \intersect DOMAIN wire
           note(c) == [op |-> "transmit",
                       note |-> [call |-> c, ctx |-> wire[c],
                                 state |-> state + 1, kind |-> "active"]]
           news == [i \in 1 .. Cardinality(reach) |->
                      note(SetToSeq(reach)[i])]
<1>1. IsFiniteSet(reach)
  BY FS_Subset
<1>2. /\ SetToSeq(reach) \in [1 .. Cardinality(reach) -> reach]
      /\ Cardinality(reach) \in Nat
  BY <1>1, Listed
<1>3. \A c \in reach : note(c) \in Task
  BY DEF TypeOK, Task, Notify
<1>4. wire' = wire /\ state' = state + 1
  BY DEF StateChange, dialogVars
<1>5. \A c \in reach : Fresh(note(c).note)
  BY <1>4 DEF Fresh
<1>6. ready' = ready \o news
  BY DEF StateChange
<1> HIDE DEF reach, note
<1>7. \A i \in 1 .. Cardinality(reach) :
        note(SetToSeq(reach)[i]) \in Task
          /\ Fresh(note(SetToSeq(reach)[i]).note)
  BY <1>2, <1>3, <1>5
<1>8. /\ news \in [1 .. Cardinality(reach) -> Task]
      /\ \A i \in 1 .. Cardinality(reach) : Fresh(news[i].note)
  BY <1>7
<1> HIDE DEF news
<1>9. news \in Seq(Task) /\ Len(news) = Cardinality(reach)
  BY <1>2, <1>8, SeqDef, LenProperties
<1>10. /\ ready' \in Seq(Task) /\ Len(ready') = Len(ready) + Len(news)
       /\ Len(ready) \in Nat
       /\ \A i \in 1 .. Len(ready) + Len(news) :
            ready'[i] = IF i <= Len(ready) THEN ready[i]
                        ELSE news[i - Len(ready)]
  BY <1>6, <1>9, ConcatProperties, LenProperties DEF TypeOK
<1>11. Behind(0)
  <2>1. ASSUME NEW i \in 1 .. Len(ready'), i > Len(ready)
        PROVE  Fresh(ready'[i].note)
    <3>1. i - Len(ready) \in 1 .. Cardinality(reach)
      BY <1>2, <1>9, <1>10, <2>1
    <3>2. ready'[i] = news[i - Len(ready)]
      BY <1>10, <2>1
    <3> QED  BY <1>8, <3>1, <3>2
  <2> QED  BY <1>2, <1>9, <1>10, <2>1 DEF Behind
<1>12. Tagged
  BY <1>4 DEF StateChange, dialogVars, TypeOK, Tagged
<1>13. Connected /\ Sends(0)
  BY ConnectedStill DEF StateChange, Sends
<1> QED  BY <1>11, <1>12, <1>13 DEF Delivers

(* Whatever happens is such a delivery. *)
LEMMA EveryStepDelivers ==
  ASSUME TypeOK, IsFiniteSet(DOMAIN subs), Ended, [Next]_vars
  PROVE  Delivers
<1>1. CASE Life
  <2>1. UNCHANGED <<wire, tags, state, told, connecting, ready>>
    BY <1>1
       DEF Life, BindUdp, BindTcp, StopCore, StopTcp, StopUdp, dialogVars,
           queueVars
  <2> QED  BY <2>1, QueueStill, DeliversNothing
<1>2. CASE Handle
  BY <1>2, DeliversRefused, DeliversSubscribe, DeliversUnsubscribe DEF Handle
<1>3. CASE RunTransmit
  BY <1>3, DeliversTransmit
<1>4. CASE \E i \in DOMAIN connecting : FinishTcp(i)
  BY <1>4, DeliversFinish
<1>5. CASE StateChange
  BY <1>5, DeliversState
<1>6. CASE \E m \in Subscribe : Arrive(m)
  BY <1>6, DeliversArrive
<1>7. CASE \E c \in Calls : Expire(c)
  <2>1. UNCHANGED <<wire, tags, state, told, connecting, ready>>
    BY <1>7 DEF Expire, queueVars
  <2> QED  BY <2>1, QueueStill, DeliversNothing
<1>8. CASE UNCHANGED vars
  <2>1. UNCHANGED <<wire, tags, state, told, connecting, ready>>
    BY <1>8 DEF vars, dialogVars, queueVars
  <2> QED  BY <2>1, QueueStill, DeliversNothing
<1> QED
  BY <1>1, <1>2, <1>3, <1>4, <1>5, <1>6, <1>7, <1>8 DEF Next, EventLoop

(* At first nothing waits and nobody was told anything. *)
LEMMA OrderedInit == Init => InOrder /\ Ended
<1> SUFFICES ASSUME Init PROVE InOrder /\ Ended
  OBVIOUS
<1>1. DOMAIN wire = {} /\ DOMAIN ready = {} /\ DOMAIN connecting = {}
  BY DEF Init, EmptyDict
<1>2. Queued = {} /\ Pending = {}
  BY <1>1 DEF Queued, Pending
<1>3. \A c \in Calls : told[c].kind = "none"
  BY DEF Init, Silence
<1> QED  BY <1>1, <1>2, <1>3 DEF InOrder, Ended

(* Both hold of every behaviour, over either transport. *)
LEMMA AlwaysOrdered == Spec => [](InOrder /\ Ended)
<1>1. Wired /\ Wired' /\ InOrder /\ Ended /\ [Next]_vars
        => (InOrder /\ Ended)'
  <2> SUFFICES ASSUME Wired, Wired', InOrder, Ended, [Next]_vars
               PROVE  InOrder' /\ Ended'
    OBVIOUS
  <2>1. TypeOK /\ TypeOK' /\ IsFiniteSet(DOMAIN subs)
    BY DEF Wired
  <2> QED  BY <2>1, EveryStepDelivers, EndedStill, InOrderStill
<1> QED  BY <1>1, OrderedInit, AlwaysWired, PTL DEF Spec

(* Over UDP NOTIFYs leave in the order of the states they carry, whatever  *)
(* else leaves over TCP.                                                   *)
THEOREM NewsLeavesInOrder == Spec => NewsInOrder
<1> DEFINE Kept ==
      \A c \in Calls :
        (/\ told[c].kind = "active" /\ told'[c].kind = "active"
         /\ told[c].ctx.transport = "UDP" /\ told'[c].ctx.transport = "UDP")
        => told'[c].state >= told[c].state
<1>1. ASSUME Wired, InOrder, Ended, Next PROVE Kept
  <2> SUFFICES ASSUME NEW c \in Calls, told[c].kind = "active",
                      told[c].ctx.transport = "UDP",
                      told'[c].ctx.transport = "UDP"
               PROVE  told'[c].state >= told[c].state
    OBVIOUS
  <2>1. TypeOK /\ IsFiniteSet(DOMAIN subs)
    BY <1>1 DEF Wired
  <2>2. PICK d \in {0, 1} : Behind(d) /\ Sends(d) /\ Tagged
    BY <1>1, <2>1, EveryStepDelivers DEF Delivers
  <2>3. /\ told[c].state \in Nat /\ told[c].state <= state
        /\ \A i \in Queued : told[c].state <= ready[i].note.state
    <3>1. told[c] \in Note
      BY <2>1 DEF TypeOK, Silence
    <3> QED  BY <1>1, <3>1 DEF InOrder, Note, Notify
  <2>4. state \in Nat /\ state' \in Nat /\ state <= state'
    BY <2>1, <2>2, <1>1, TypesNext DEF Tagged, TypeOK
  <2>5. CASE told'[c] = told[c]
    BY <2>3, <2>5
  <2>6. CASE d = 1 /\ ready[1].op = "transmit" /\ told'[c] = ready[1].note
    <3>1. 1 \in Queued
      BY <2>1, <2>2, <2>6, PendingTypes, LenProperties
         DEF Behind, TypeOK, Queued
    <3>2. ready[1].note.state \in Nat
      BY <2>1, <3>1, PendingTypes DEF Notify
    <3> QED  BY <2>3, <2>6, <3>1, <3>2
  <2>7. CASE \E k \in DOMAIN connecting : told'[c] = connecting[k]
    BY <1>1, <2>7 DEF Ended
  <2>8. CASE told'[c].state = state'
    BY <2>3, <2>4, <2>8
  <2> QED  BY <2>2, <2>5, <2>6, <2>7, <2>8 DEF Sends
<1>2. Wired /\ InOrder /\ Ended /\ [Next]_vars => [Kept]_vars
  BY <1>1
<1> QED  BY <1>2, AlwaysWired, AlwaysOrdered, PTL DEF Spec, NewsInOrder

(* Nothing new is said in a dialog whose end was sent over UDP, also not   *)
(* over TCP.                                                               *)
THEOREM EndsAreLastNews == Spec => NothingNewAfterEnd
<1> DEFINE Kept ==
      \A c \in Calls :
        (/\ told[c].kind = "terminated" /\ told'[c].kind = "active"
         /\ told[c].ctx.transport = "UDP"
         /\ told[c].ctx.tag = told'[c].ctx.tag)
        => told'[c].state <= told[c].state
<1>1. ASSUME Wired, Ended, Next PROVE Kept
  <2> SUFFICES ASSUME NEW c \in Calls, told[c].kind = "terminated",
                      told'[c].kind = "active",
                      told[c].ctx.transport = "UDP",
                      told[c].ctx.tag = told'[c].ctx.tag
               PROVE  told'[c].state <= told[c].state
    OBVIOUS
  <2>1. TypeOK /\ IsFiniteSet(DOMAIN subs)
    BY <1>1 DEF Wired
  <2>2. PICK d \in {0, 1} : Behind(d) /\ Sends(d)
    BY <1>1, <2>1, EveryStepDelivers DEF Delivers
  <2>3. \A n \in Pending : (n.call = c /\ n.ctx.tag = told[c].ctx.tag)
          => n.state <= told[c].state
    BY <1>1 DEF Ended
  <2>4. CASE d = 1 /\ ready[1].op = "transmit" /\ told'[c] = ready[1].note
    <3>1. 1 \in Queued
      BY <2>1, <2>2, <2>4, PendingTypes, LenProperties
         DEF Behind, TypeOK, Queued
    <3>2. told'[c] \in Pending
      BY <2>4, <3>1 DEF Pending
    <3>3. ready[1].note.call = c
      BY <2>2, <2>4 DEF Sends
    <3> QED  BY <2>3, <3>2, <2>4, <3>3
  <2>5. CASE \E k \in DOMAIN connecting : /\ told'[c] = connecting[k]
                                          /\ told'[c].call = c
    <3>1. told'[c] \in Pending
      BY <2>5 DEF Pending
    <3> QED  BY <2>3, <2>5, <3>1
  <2> QED  BY <2>2, <2>4, <2>5 DEF Sends
<1>2. Wired /\ Ended /\ [Next]_vars => [Kept]_vars
  BY <1>1
<1> QED
  BY <1>2, AlwaysWired, AlwaysOrdered, PTL DEF Spec, NothingNewAfterEnd
=============================================================================
