-------------------------- MODULE EventStreamProofs --------------------------
(* Proofs about EventStream, for any pages, artworks, devices and events:  *)
(* a page which the last event about something reached will show it as it  *)
(* is.                                                                     *)
EXTENDS EventStream, FiniteSetTheorems, SequenceTheorems, TLAPS

-----------------------------------------------------------------------------
(* Sequences of events                                                     *)

\* The last event about x of a sequence is that of its second part, if it has one.
LEMMA ConcatTells ==
  ASSUME NEW S, NEW s \in Seq(S), NEW t \in Seq(S), NEW x, NEW v
  PROVE  /\ Silent(s \o t, x) <=> Silent(s, x) /\ Silent(t, x)
         /\ Tells(t, x, v) /\ (Silent(t, x) => Tells(s, x, v)) => Tells(s \o t, x, v)
<1> DEFINE n == Len(s)
           u == s \o t
<1>1. /\ n \in Nat /\ DOMAIN s = 1..n /\ Len(t) \in Nat /\ DOMAIN t = 1..Len(t)
      /\ DOMAIN u = 1..(n + Len(t))
  BY ConcatProperties, LenProperties
<1>2. /\ \A i \in DOMAIN s : i \in DOMAIN u /\ u[i] = s[i]
      /\ \A i \in DOMAIN t : n + i \in DOMAIN u /\ u[n + i] = t[i]
      /\ \A i \in DOMAIN u : i \in DOMAIN s \/ (i - n \in DOMAIN t /\ i = n + (i - n))
  BY <1>1, ConcatProperties
<1> HIDE DEF u, n
<1>3. Silent(u, x) <=> Silent(s, x) /\ Silent(t, x)  BY <1>2 DEF Silent
<1>4. ASSUME Tells(t, x, v), Silent(t, x) => Tells(s, x, v) PROVE Tells(u, x, v)
  <2> SUFFICES ASSUME NEW i \in DOMAIN u, About(u[i]) = x,
                      \A k \in DOMAIN u : k > i => About(u[k]) # x
               PROVE  u[i].value = v
    BY DEF Tells
  <2>1. CASE i \in DOMAIN s
    <3>1. \A k \in DOMAIN t : n + k > i  BY <1>1, <2>1
    <3>2. Silent(t, x)  BY <1>2, <3>1 DEF Silent
    <3>3. Tells(s, x, v)  BY <1>4, <3>2
    <3>4. \A k \in DOMAIN s : k > i => About(s[k]) # x  BY <1>2
    <3> QED  BY <1>2, <2>1, <3>3, <3>4 DEF Tells
  <2>2. CASE i - n \in DOMAIN t /\ i = n + (i - n)
    <3> DEFINE j == i - n
    <3>1. \A k \in DOMAIN t : k > j => n + k > i  BY <1>1, <2>2
    <3>2. \A k \in DOMAIN t : k > j => About(t[k]) # x  BY <1>2, <3>1
    <3>3. u[i] = t[j]  BY <1>2, <2>2
    <3> QED  BY <1>4, <2>2, <3>2, <3>3 DEF Tells
  <2> QED  BY <1>2, <2>1, <2>2
<1> QED  BY <1>3, <1>4 DEF u

\* The first event is the last one about x, or the others tell as much.
LEMMA TailTells ==
  ASSUME NEW S, NEW s \in Seq(S), s # <<>>, NEW x, NEW v, Tells(s, x, v)
  PROVE  /\ Head(s) \in S /\ Tail(s) \in Seq(S)
         /\ Tells(Tail(s), x, v)
         /\ Silent(Tail(s), x) => IF About(Head(s)) = x THEN Head(s).value = v ELSE Silent(s, x)
<1> DEFINE t == Tail(s)
<1>1. /\ Head(s) \in S /\ t \in Seq(S) /\ Len(t) \in Nat /\ Head(s) = s[1]
      /\ Len(s) = Len(t) + 1 /\ DOMAIN s = 1..Len(s) /\ DOMAIN t = 1..Len(t)
  BY HeadTailProperties, LenProperties, EmptySeq
<1>2. /\ 1 \in DOMAIN s
      /\ \A i \in DOMAIN t : i + 1 \in DOMAIN s /\ t[i] = s[i + 1] /\ i + 1 > 1
      /\ \A k \in DOMAIN s : k = 1 \/ (k - 1 \in DOMAIN t /\ s[k] = t[k - 1])
      /\ \A i \in DOMAIN t, k \in DOMAIN s : k > i + 1 => k - 1 \in DOMAIN t /\ k - 1 > i
  BY <1>1, HeadTailProperties
<1> HIDE DEF t
<1>3. Tells(t, x, v)
  <2> SUFFICES ASSUME NEW i \in DOMAIN t, About(t[i]) = x,
                      \A k \in DOMAIN t : k > i => About(t[k]) # x
               PROVE  t[i].value = v
    BY DEF Tells
  <2>1. \A k \in DOMAIN s : k > i + 1 => About(s[k]) # x
    <3> SUFFICES ASSUME NEW k \in DOMAIN s, k > i + 1 PROVE About(s[k]) # x  OBVIOUS
    <3>1. k - 1 \in DOMAIN t /\ k - 1 > i /\ s[k] = t[k - 1]  BY <1>1, <1>2
    <3> QED  BY <3>1
  <2> QED  BY <1>2, <2>1 DEF Tells
<1>4. ASSUME Silent(t, x), About(Head(s)) = x PROVE Head(s).value = v
  <2>1. \A k \in DOMAIN s : k > 1 => About(s[k]) # x  BY <1>1, <1>2, <1>4 DEF Silent
  <2> QED  BY <1>1, <1>2, <1>4, <2>1 DEF Tells
<1>5. ASSUME Silent(t, x), About(Head(s)) # x PROVE Silent(s, x)
  BY <1>1, <1>2, <1>5 DEF Silent
<1> QED  BY <1>1, <1>3, <1>4, <1>5 DEF t

LEMMA OneTells ==
  ASSUME NEW S, NEW e \in S, NEW x, NEW v
  PROVE  /\ <<e>> \in Seq(S)
         /\ Silent(<<e>>, x) <=> About(e) # x
         /\ (About(e) = x => e.value = v) => Tells(<<e>>, x, v)
BY DEF Silent, Tells

\* A change of gates has an event for each of its artworks, and each tells its value.
LEMMA ChangeTells ==
  ASSUME NEW A \in SUBSET Artworks, NEW v \in BOOLEAN, NEW as, as = SetToSeq(A), NEW es,
         es = [i \in DOMAIN as |->
                 [type |-> "accepting_triggers_change", of |-> as[i], value |-> v]]
  PROVE  /\ es \in Seq(Event)
         /\ \A i \in DOMAIN es : About(es[i])[1] = "accepting_triggers_change" /\ es[i].value = v
         /\ \A a \in Artworks : Silent(es, <<"accepting_triggers_change", a>>) <=> a \notin A
<1> DEFINE n == Cardinality(A)
           told(a) == [type |-> "accepting_triggers_change", of |-> a, value |-> v]
<1>1. IsFiniteSet(A)  BY Finite, FS_Subset
<1>2. n \in Nat /\ ExistsBijection(1..n, A)  BY <1>1, FS_CardinalityType
<1>3. \E f : f \in [1..n -> A] /\ IsInjective(f)
  BY <1>2 DEF ExistsBijection, Bijection, Injection
<1>4. as \in [1..n -> A] /\ IsInjective(as)
  BY <1>3 DEF SetToSeq
<1>5. as \in Injection(1..n, A)  BY <1>4 DEF Injection
<1>6. Cardinality(1..n) = n  BY <1>2, FS_Interval
<1>7. as \in Surjection(1..n, A)  BY <1>1, <1>5, <1>6, FS_Injection
<1>8. \A a \in A : \E i \in 1..n : as[i] = a  BY <1>7 DEF Surjection
<1> HIDE DEF n
<1>9. /\ DOMAIN es = 1..n
      /\ \A i \in 1..n : es[i] = told(as[i]) /\ as[i] \in A
  BY <1>4
<1>10. \A a \in Artworks : /\ told(a) \in Event
                           /\ About(told(a)) = <<"accepting_triggers_change", a>>
                           /\ told(a).value = v
  BY DEF Event, Kinds, About
<1> HIDE DEF told
<1>11. es \in Seq(Event)  BY <1>2, <1>9, <1>10
<1>12. \A i \in DOMAIN es : /\ as[i] \in A /\ About(es[i]) = <<"accepting_triggers_change", as[i]>>
                            /\ es[i].value = v
  BY <1>9, <1>10
<1>13. \A a \in Artworks : Silent(es, <<"accepting_triggers_change", a>>) <=> a \notin A
  <2> TAKE a \in Artworks
  <2>1. CASE a \in A
    <3>1. PICK i \in 1..n : as[i] = a  BY <1>8, <2>1
    <3> QED  BY <1>9, <1>12, <2>1, <3>1 DEF Silent
  <2>2. CASE a \notin A
    <3>1. \A i \in DOMAIN es : as[i] # a  BY <1>12, <2>2
    <3>2. \A i \in DOMAIN es : About(es[i]) # <<"accepting_triggers_change", a>>
      BY <1>12, <3>1
    <3> QED  BY <2>2, <3>2 DEF Silent
  <2> QED  BY <2>1, <2>2
<1> QED  BY <1>11, <1>12, <1>13

-----------------------------------------------------------------------------
(* Types                                                                   *)

Streams == /\ queue \in [Clients -> Seq(Event)] /\ heard \in [Clients -> SUBSET Subjects]
           /\ conn \in [Clients -> {"closed", "opened", "subscribed"}]

LEMMA BroadcastTyped ==
  ASSUME Streams, NEW es \in Seq(Event), Broadcast(es) PROVE Streams'
<1>1. \A c \in Clients : queue[c] \o es \in Seq(Event)  BY ConcatProperties DEF Streams
<1>2. queue' \in [Clients -> Seq(Event)]  BY <1>1 DEF Broadcast, Streams
<1>3. heard' \in [Clients -> SUBSET Subjects]  BY DEF Broadcast, Streams
<1> QED  BY <1>2, <1>3 DEF Broadcast, Streams

\* The pages' entries of artworks and devices.
PageOf(v) == /\ v.entry \in [Artworks -> Status \cup {None}]
             /\ v.device \in [Devices -> BOOLEAN \cup {None}]

\* What the event e makes of an entry, and of isVerifying of a device.
EntryAfter(e, a, old, new) ==
  /\ About(e) = <<"protection_status", a>> => new = [running |-> e.value, gate |-> None]
  /\ About(e) = <<"accepting_triggers_change", a>> =>
       new = IF old = None THEN None ELSE [running |-> old.running, gate |-> e.value]
  /\ About(e) # <<"protection_status", a>> /\ About(e) # <<"accepting_triggers_change", a>>
       => new = old
DeviceAfter(e, d, old, new) ==
  /\ About(e) = <<"verification", d>> => new = IF e.value \/ old # None THEN e.value ELSE None
  /\ About(e) = <<"poll_complete", d>> => new = IF old = None THEN FALSE ELSE old
  /\ About(e) # <<"verification", d>> /\ About(e) # <<"poll_complete", d>> => new = old

LEMMA HandledPage ==
  ASSUME NEW v, PageOf(v), NEW e \in Event,
         v = [entry |-> v.entry, device |-> v.device]
  PROVE  /\ PageOf(Handled(v, e))
         /\ \A a \in Artworks : EntryAfter(e, a, v.entry[a], Handled(v, e).entry[a])
         /\ \A d \in Devices : DeviceAfter(e, d, v.device[d], Handled(v, e).device[d])
<1> USE DEF EntryAfter, DeviceAfter
<1> DEFINE h == Handled(v, e)
<1>1. /\ e.type \in Kinds => e.of \in Artworks
      /\ e.type \in DeviceKinds => e.of \in Devices
      /\ e.type \in Kinds \cup DeviceKinds /\ e.value \in BOOLEAN
  BY DEF Event, DeviceEvent, Kinds, DeviceKinds
<1>2. CASE e.type = "protection_status"
  <2>1. h = [v EXCEPT !.entry[e.of] = [running |-> e.value, gate |-> None]]
    BY <1>2 DEF Handled
  <2>2. /\ h.entry = [v.entry EXCEPT ![e.of] = [running |-> e.value, gate |-> None]]
        /\ h.device = v.device
    BY <2>1
  <2>3. [running |-> e.value, gate |-> None] \in Status  BY <1>1 DEF Status
  <2> QED  BY <1>1, <1>2, <2>2, <2>3 DEF PageOf, About, Kinds
<1>3. CASE e.type = "accepting_triggers_change" /\ v.entry[e.of] = None
  <2>1. h = v  BY <1>3 DEF Handled
  <2> QED  BY <1>1, <1>3, <2>1 DEF PageOf, About, Kinds
<1>4. CASE e.type = "accepting_triggers_change" /\ v.entry[e.of] # None
  <2>1. v.entry[e.of] \in Status  BY <1>1, <1>4 DEF PageOf, Kinds
  <2>2. /\ h.entry = [v.entry EXCEPT ![e.of] = [v.entry[e.of] EXCEPT !.gate = e.value]]
        /\ h.device = v.device
    BY <1>4 DEF Handled
  <2>3. /\ [v.entry[e.of] EXCEPT !.gate = e.value] = [running |-> v.entry[e.of].running, gate |-> e.value]
        /\ [running |-> v.entry[e.of].running, gate |-> e.value] \in Status
    BY <1>1, <2>1 DEF Status
  <2> QED  BY <1>1, <1>4, <2>2, <2>3 DEF PageOf, About, Kinds
<1>5. CASE e.type = "verification"
  <2>1. h = IF e.value \/ v.device[e.of] # None THEN [v EXCEPT !.device[e.of] = e.value] ELSE v
    BY <1>5 DEF Handled, DeviceHandled
  <2>2. /\ h.entry = v.entry
        /\ h.device = IF e.value \/ v.device[e.of] # None
                      THEN [v.device EXCEPT ![e.of] = e.value] ELSE v.device
    BY <2>1
  <2> QED  BY <1>1, <1>5, <2>2 DEF PageOf, About, DeviceKinds
<1>6. CASE e.type = "poll_complete"
  <2>1. h = IF v.device[e.of] = None THEN [v EXCEPT !.device[e.of] = FALSE] ELSE v
    BY <1>6 DEF Handled, DeviceHandled
  <2>2. /\ h.entry = v.entry
        /\ h.device = IF v.device[e.of] = None
                      THEN [v.device EXCEPT ![e.of] = FALSE] ELSE v.device
    BY <2>1
  <2> QED  BY <1>1, <1>6, <2>2 DEF PageOf, About, DeviceKinds
<1> QED  BY <1>1, <1>2, <1>3, <1>4, <1>5, <1>6 DEF Kinds, DeviceKinds

Stored == gate \in [Artworks -> BOOLEAN] /\ changes \subseteq Change /\ phantom \subseteq Artworks
Backend == /\ running \in [Artworks -> BOOLEAN] /\ stops \in [Artworks -> Nat]
           /\ fast \subseteq Devices /\ tasks \in Seq(DeviceEvent)
Pages == /\ entry \in [Clients -> [Artworks -> Status \cup {None}]]
         /\ device \in [Clients -> [Devices -> BOOLEAN \cup {None}]]
         /\ fetched \in [Clients -> [Artworks -> Status \cup {None}]]
         /\ listed \in [Clients -> SUBSET Devices]
Counters == events \in 0..MaxEvents /\ breaks \in 0..MaxBreaks
Parts == Stored /\ Backend /\ Streams /\ Pages

\* The events of a change are about the artworks A.
Announced(t, A) ==
  LET as == SetToSeq(A)
      es == [i \in DOMAIN as |->
               [type |-> "accepting_triggers_change", of |-> as[i], value |-> t.to]]
  IN t.of \subseteq A /\ Broadcast(es) /\ phantom' = (phantom \ t.of) \cup (A \ t.of)

LEMMA AnnounceKnown ==
  ASSUME NEW t, Announce(t) PROVE \E A \in SUBSET Artworks : Announced(t, A)
BY DEF Announce, Announced

LEMMA TypeParts == TypeOK <=> Parts /\ Counters
BY DEF TypeOK, Parts, Stored, Backend, Streams, Pages, Counters

LEMMA GateTyped ==
  ASSUME Parts
  PROVE  /\ \A A \in SUBSET Artworks, v \in BOOLEAN : UpdateGates(A, v) => Parts'
         /\ \A t \in changes : Announce(t) \/ CommitGates(t) \/ RollbackGates(t) => Parts'
<1> USE DEF Parts
<1>1. ASSUME NEW A \in SUBSET Artworks, NEW v \in BOOLEAN, UpdateGates(A, v) PROVE Parts'
  <2>1. [of |-> A, to |-> v, announced |-> FALSE] \in Change  BY DEF Change
  <2>2. Stored'  BY <1>1, <2>1 DEF UpdateGates, Stored
  <2> QED  BY <1>1, <2>2 DEF UpdateGates, Backend, Streams, Pages, backend, stream, page
<1>2. ASSUME NEW t \in changes, Announce(t) PROVE Parts'
  <2>1. t \in Change  BY DEF Stored
  <2>2. t.of \in SUBSET Artworks /\ t.to \in BOOLEAN  BY <2>1 DEF Change
  <2>3. Streams' /\ phantom' \subseteq Artworks
    <3>1. PICK A \in SUBSET Artworks : Announced(t, A)  BY <1>2, AnnounceKnown
    <3> QED  BY <2>2, <3>1, ChangeTells, BroadcastTyped DEF Announced, Stored
  <2>4. [t EXCEPT !.announced = TRUE] \in Change  BY <2>1 DEF Change
  <2> QED  BY <1>2, <2>3, <2>4 DEF Announce, Stored, Backend, Pages, backend, page
<1>3. ASSUME NEW t \in changes, CommitGates(t) PROVE Parts'
  <2>1. t.to \in BOOLEAN  BY DEF Stored, Change
  <2> QED
    BY <1>3, <2>1 DEF CommitGates, Stored, Backend, Streams, Pages, backend, stream, page
<1>4. ASSUME NEW t \in changes, RollbackGates(t) PROVE Parts'
  <2>1. t.of \subseteq Artworks  BY DEF Stored, Change
  <2> QED
    BY <1>4, <2>1 DEF RollbackGates, Stored, Backend, Streams, Pages, backend, stream, page
<1> QED  BY <1>1, <1>2, <1>3, <1>4

LEMMA StatusEvent ==
  ASSUME NEW a \in Artworks, NEW r \in BOOLEAN
  PROVE  [type |-> "protection_status", of |-> a, value |-> r] \in Event
BY DEF Event, Kinds

LEMMA RunTyped ==
  ASSUME Parts, NEW a \in Artworks,
         NotifyStarted(a) \/ NotifyStopped(a) \/ StoppedTells(a) \/ TellAgain(a)
  PROVE  Parts'
<1> USE DEF Parts
<1>1. ASSUME NEW r \in [Artworks -> BOOLEAN], TellStatus(a, r) PROVE Streams'
  <2>1. <<[type |-> "protection_status", of |-> a, value |-> r[a]]>> \in Seq(Event)
    BY StatusEvent
  <2> QED  BY <1>1, <2>1, BroadcastTyped DEF TellStatus
<1>2. CASE NotifyStarted(a)
  <2>1. running' \in [Artworks -> BOOLEAN]  BY <1>2 DEF NotifyStarted, Backend
  <2>2. Streams'  BY <1>1, <1>2, <2>1 DEF NotifyStarted
  <2> QED  BY <1>2, <2>1, <2>2 DEF NotifyStarted, Stored, Backend, Pages, db, page
<1>3. CASE NotifyStopped(a)
  <2>1. running' \in [Artworks -> BOOLEAN]  BY <1>3 DEF NotifyStopped, Backend
  <2>2. stops' \in [Artworks -> Nat]  BY <1>3 DEF NotifyStopped, Backend
  <2> QED
    BY <1>3, <2>1, <2>2 DEF NotifyStopped, Stored, Backend, Streams, Pages, db, stream, page
<1>4. CASE StoppedTells(a)
  <2>1. stops' \in [Artworks -> Nat]  BY <1>4 DEF StoppedTells, Backend
  <2>2. Streams'  BY <1>1, <1>4 DEF StoppedTells, Backend
  <2> QED  BY <1>4, <2>1, <2>2 DEF StoppedTells, Stored, Backend, Pages, db, page
<1>5. CASE TellAgain(a)
  <2>1. Streams'  BY <1>1, <1>5 DEF TellAgain, Backend
  <2> QED  BY <1>5, <2>1 DEF TellAgain, Stored, Backend, Pages, db, backend, page
<1> QED  BY <1>2, <1>3, <1>4, <1>5

LEMMA TaskTyped ==
  ASSUME Parts
  PROVE  /\ \A d \in Devices : RegisterFastPoll(d) \/ UnregisterFastPoll(d) \/ PollTells(d) => Parts'
         /\ RunTask => Parts'
<1> USE DEF Parts
<1>1. ASSUME NEW d \in Devices, NEW v \in BOOLEAN, NEW k \in DeviceKinds, LaterTell(k, d, v),
             fast' \subseteq Devices
      PROVE  Parts'
  <2>1. [type |-> k, of |-> d, value |-> v] \in DeviceEvent  BY DEF DeviceEvent
  <2>2. tasks' \in Seq(DeviceEvent)  BY <1>1, <2>1, AppendProperties DEF LaterTell, Backend
  <2> QED  BY <1>1, <2>2 DEF LaterTell, Stored, Backend, Streams, Pages, db, stream, page
<1>2. ASSUME NEW d \in Devices, RegisterFastPoll(d) PROVE Parts'
  <2>1. fast' \subseteq Devices  BY <1>2 DEF RegisterFastPoll, Backend
  <2> QED  BY <1>1, <1>2, <2>1 DEF RegisterFastPoll, DeviceKinds
<1>3. ASSUME NEW d \in Devices, UnregisterFastPoll(d) PROVE Parts'
  <2>1. fast' \subseteq Devices  BY <1>3 DEF UnregisterFastPoll, Backend
  <2> QED  BY <1>1, <1>3, <2>1 DEF UnregisterFastPoll, DeviceKinds
<1>4. ASSUME NEW d \in Devices, PollTells(d) PROVE Parts'
  <2>1. fast' \subseteq Devices  BY <1>4 DEF PollTells, Backend
  <2> QED  BY <1>1, <1>4, <2>1 DEF PollTells, DeviceKinds
<1>5. ASSUME RunTask PROVE Parts'
  <2>1. Head(tasks) \in Event /\ tasks' \in Seq(DeviceEvent)
    BY <1>5, HeadTailProperties DEF RunTask, Backend, Event
  <2>2. Streams'  BY <1>5, <2>1, OneTells, BroadcastTyped DEF RunTask
  <2> QED  BY <1>5, <2>1, <2>2 DEF RunTask, Stored, Backend, Pages, db, page
<1> QED  BY <1>2, <1>3, <1>4, <1>5

LEMMA ConnectionTyped ==
  ASSUME Parts
  PROVE  /\ Restart => Parts'
         /\ \A c \in Clients : Open(c) \/ Subscribe(c) \/ Break(c) => Parts'
<1> USE DEF Parts
<1>1. ASSUME NEW c \in Clients, Open(c) \/ Subscribe(c) PROVE Parts'
  BY <1>1 DEF Open, Subscribe, Stored, Backend, Streams, Pages, db, backend, page
<1>2. ASSUME NEW c \in Clients, Break(c) PROVE Parts'
  <2>1. <<>> \in Seq(Event)  BY EmptySeq
  <2>2. Lost(c) \subseteq Subjects  BY DEF Lost, Streams
  <2>3. Streams'  BY <1>2, <2>1, <2>2 DEF Break, Streams
  <2> QED  BY <1>2, <2>3 DEF Break, Stored, Backend, Pages, db, backend, page
<1>3. ASSUME Restart PROVE Parts'
  <2>1. <<>> \in Seq(Event)  BY EmptySeq
  <2>2. Streams'  BY <1>3, <2>1 DEF Restart, Streams
  <2>3. Backend'  BY <1>3, <2>1 DEF Restart, Backend
  <2>4. Stored'  BY <1>3 DEF Restart, Stored, Change
  <2> QED  BY <1>3, <2>2, <2>3, <2>4 DEF Restart, Pages, page
<1> QED  BY <1>1, <1>2, <1>3

LEMMA PageTyped ==
  ASSUME Parts, NEW c \in Clients,
         Deliver(c) \/ LoadList(c) \/ (\E a \in Artworks : Fetch(c, a))
  PROVE  Parts'
<1> USE DEF Parts
<1>1. CASE Deliver(c)
  <2> DEFINE v == Handled(View(c), Head(queue[c]))
  <2>1. queue[c] \in Seq(Event) /\ queue[c] # <<>>  BY <1>1 DEF Deliver, Streams
  <2>2. Head(queue[c]) \in Event /\ Tail(queue[c]) \in Seq(Event)  BY <2>1, HeadTailProperties
  <2>3. PageOf(View(c)) /\ View(c) = [entry |-> View(c).entry, device |-> View(c).device]
    BY DEF PageOf, View, Pages
  <2>4. PageOf(v)  BY <2>2, <2>3, HandledPage
  <2>5. /\ entry' = [entry EXCEPT ![c] = v.entry] /\ device' = [device EXCEPT ![c] = v.device]
        /\ queue' = [queue EXCEPT ![c] = Tail(queue[c])]
    BY <1>1 DEF Deliver, Streams
  <2> HIDE DEF v
  <2>6. Pages'  BY <1>1, <2>4, <2>5 DEF Deliver, Pages, PageOf
  <2>7. Streams'  BY <1>1, <2>2, <2>5 DEF Deliver, Streams
  <2> QED  BY <1>1, <2>6, <2>7 DEF Deliver, Stored, Backend, db, backend
<1>2. CASE LoadList(c)
  BY <1>2 DEF LoadList, Stored, Backend, Streams, Pages, db, backend, stream
<1>3. ASSUME NEW a \in Artworks, Fetch(c, a) PROVE Parts'
  <2>1. [running |-> running[a], gate |-> gate[a]] \in Status  BY DEF Status, Stored, Backend
  <2> QED  BY <1>3, <2>1 DEF Fetch, Stored, Backend, Streams, Pages, db, backend, stream
<1> QED  BY <1>1, <1>2, <1>3

LEMMA Counted == ASSUME Counters, [Next]_vars PROVE Counters'
<1>1. CASE Changes
  <2>1. breaks' = breaks
    BY <1>1, Zenon DEF Changes, UpdateGates, NotifyStarted, NotifyStopped, TellAgain,
       RegisterFastPoll, UnregisterFastPoll, PollTells, LaterTell
  <2>2. events < MaxEvents /\ events' = events + 1  BY <1>1 DEF Changes, Quiet
  <2> QED  BY <2>1, <2>2, Finite DEF Counters
<1>2. ASSUME NEW t \in changes, Announce(t) \/ CommitGates(t) \/ RollbackGates(t) PROVE Counters'
  BY <1>2, Finite DEF Announce, CommitGates, RollbackGates, Counters
<1>3. ASSUME NEW a \in Artworks, StoppedTells(a) PROVE Counters'
  BY <1>3 DEF StoppedTells, Counters
<1>4. CASE RunTask \/ Restart  BY <1>4, Finite DEF RunTask, Restart, Counters
<1>5. ASSUME NEW c \in Clients, Client(c) \/ Break(c) PROVE Counters'
  BY <1>5, Finite DEF Client, Open, Subscribe, Deliver, LoadList, Fetch, Break, Counters
<1>6. CASE UNCHANGED vars  BY <1>6 DEF vars, Counters
<1> QED  BY <1>1, <1>2, <1>3, <1>4, <1>5, <1>6 DEF Next

LEMMA PartsStep == ASSUME Parts, [Next]_vars PROVE Parts'
<1>1. CASE Changes
  <2>1. ASSUME NEW A \in (SUBSET Artworks) \ {{}}, NEW v \in BOOLEAN, UpdateGates(A, v)
        PROVE  Parts'
    BY <2>1, GateTyped
  <2> QED  BY <1>1, <2>1, RunTyped, TaskTyped DEF Changes
<1>2. CASE \E t \in changes : Announce(t) \/ CommitGates(t) \/ RollbackGates(t)
  BY <1>2, GateTyped
<1>3. CASE \E a \in Artworks : StoppedTells(a)  BY <1>3, RunTyped
<1>4. CASE RunTask \/ Restart  BY <1>4, TaskTyped, ConnectionTyped
<1>5. CASE \E c \in Clients : Client(c) \/ Break(c)
  BY <1>5, ConnectionTyped, PageTyped DEF Client
<1>6. CASE UNCHANGED vars
  BY <1>6 DEF vars, Parts, Stored, Backend, Streams, Pages, db, backend, stream, page
<1> QED  BY <1>1, <1>2, <1>3, <1>4, <1>5, <1>6 DEF Next

\* Every variable keeps its type, through any break of a connection and any restart
\* (services/sse_broadcaster.py, state_monitor.py, the page's event stream store).
THEOREM TypeCorrect == Spec => []TypeOK
<1>1. Init => TypeOK
  <2> SUFFICES ASSUME Init PROVE Parts /\ Counters  BY TypeParts
  <2>1. Counters  BY Finite DEF Init, Counters
  <2>2. Stored /\ Pages  BY DEF Init, Stored, Pages
  <2>3. Backend /\ Streams  BY EmptySeq DEF Init, Backend, Streams
  <2> QED  BY <2>1, <2>2, <2>3 DEF Parts
<1>2. TypeOK /\ [Next]_vars => TypeOK'
  <2> SUFFICES ASSUME TypeOK, [Next]_vars PROVE TypeOK'  OBVIOUS
  <2>1. Parts' /\ Counters'  BY TypeParts, PartsStep, Counted
  <2> QED  BY <2>1 DEF TypeOK, Parts, Stored, Backend, Streams, Pages, Counters
<1> QED  BY <1>1, <1>2, PTL DEF Spec

-----------------------------------------------------------------------------
(* What reaches a page                                                     *)

\* An event in c's queue tells v of x, and is the last about it.
Told(c, x, v) == Tells(queue'[c], x, v) /\ ~Silent(queue'[c], x)

\* Of what the queue tells of x, nothing has changed.
Kept(c, x, v) == /\ x \in heard[c]
                 /\ Tells(queue[c], x, v) => Tells(queue'[c], x, v)
                 /\ Silent(queue'[c], x) => Silent(queue[c], x)

\* A page that counts as reached when events are told: they are about x, and it is told,
\* or they are not.
LEMMA BroadcastReaches ==
  ASSUME Streams, NEW es \in Seq(Event), Broadcast(es), NEW c \in Clients, NEW x \in heard'[c],
         NEW v
  PROVE  IF Silent(es, x) THEN Kept(c, x, v) ELSE Tells(es, x, v) => Told(c, x, v)
<1> DEFINE told == {About(es[i]) : i \in DOMAIN es} \cap Subjects
<1>1. x \in Subjects /\ queue[c] \in Seq(Event)  BY BroadcastTyped DEF Streams
<1>2. x \in told <=> ~Silent(es, x)  BY <1>1 DEF Silent
<1>3. /\ conn[c] = "subscribed" => heard'[c] = heard[c] \cup told /\ queue'[c] = queue[c] \o es
      /\ conn[c] # "subscribed" => heard'[c] = heard[c] \ told /\ queue'[c] = queue[c]
  BY DEF Broadcast, Streams
<1> HIDE DEF told
<1>4. /\ Silent(queue[c] \o es, x) <=> Silent(queue[c], x) /\ Silent(es, x)
      /\ Tells(es, x, v) /\ (Silent(es, x) => Tells(queue[c], x, v)) => Tells(queue[c] \o es, x, v)
  BY <1>1, ConcatTells
<1>5. Silent(es, x) => Tells(es, x, v)  BY DEF Silent, Tells
<1> QED  BY <1>2, <1>3, <1>4, <1>5 DEF Told, Kept

\* A page still counts as reached after a break only if nothing about x was under way.
LEMMA BreakReaches ==
  ASSUME Streams, NEW b \in Clients, Break(b), NEW c \in Clients, NEW x \in heard'[c], NEW v
  PROVE  Kept(c, x, v)
<1>1. CASE b = c
  <2>1. queue'[c] = <<>> /\ heard'[c] = Lost(c)  BY <1>1 DEF Break, Streams
  <2>2. x \in heard[c] /\ Silent(queue[c], x)  BY <2>1 DEF Lost, Silent
  <2>3. Tells(<<>>, x, v)  BY DEF Tells
  <2> QED  BY <2>1, <2>2, <2>3 DEF Kept
<1>2. CASE b # c
  <2>1. queue'[c] = queue[c] /\ heard'[c] = heard[c]  BY <1>2 DEF Break, Streams
  <2> QED  BY <2>1 DEF Kept
<1> QED  BY <1>1, <1>2

\* Events of other kinds than k.
LEMMA Untold ==
  ASSUME Streams, NEW es \in Seq(Event), Broadcast(es), NEW k,
         \A i \in DOMAIN es : About(es[i])[1] # k,
         NEW c \in Clients, NEW y, <<k, y>> \in heard'[c], NEW v
  PROVE  Kept(c, <<k, y>>, v)
<1>1. Silent(es, <<k, y>>)  BY DEF Silent
<1> QED  BY <1>1, BroadcastReaches

\* The event handled is the last one about x and tells v, or v is still to come.
LEMMA DeliverReaches ==
  ASSUME Streams, NEW b \in Clients, Deliver(b), NEW c \in Clients, NEW x, NEW v,
         Tells(queue[c], x, v)
  PROVE  /\ Tells(queue'[c], x, v)
         /\ Silent(queue'[c], x) =>
              IF b = c /\ About(Head(queue[c])) = x THEN Head(queue[c]).value = v
              ELSE Silent(queue[c], x)
<1>1. CASE b = c
  <2>1. /\ queue'[c] = Tail(queue[c]) /\ queue[c] # <<>> /\ queue[c] \in Seq(Event)
    BY <1>1 DEF Deliver, Streams
  <2>2. /\ Tells(Tail(queue[c]), x, v)
        /\ Silent(Tail(queue[c]), x) =>
             IF About(Head(queue[c])) = x THEN Head(queue[c]).value = v ELSE Silent(queue[c], x)
    BY <2>1, TailTells
  <2> QED  BY <1>1, <2>1, <2>2
<1>2. CASE b # c
  <2>1. queue'[c] = queue[c]  BY <1>2 DEF Deliver, Streams
  <2> QED  BY <1>2, <2>1
<1> QED  BY <1>1, <1>2

\* The page that handles an event, and the others.
LEMMA DeliveredPage ==
  ASSUME Parts, NEW b \in Clients, Deliver(b), NEW c \in Clients
  PROVE  IF b = c
         THEN /\ Head(queue[c]) \in Event
              /\ \A a \in Artworks : EntryAfter(Head(queue[c]), a, entry[c][a], entry'[c][a])
              /\ \A d \in Devices : DeviceAfter(Head(queue[c]), d, device[c][d], device'[c][d])
         ELSE entry'[c] = entry[c] /\ device'[c] = device[c]
<1>1. queue[b] \in Seq(Event) /\ queue[b] # <<>>  BY DEF Deliver, Parts, Streams
<1>2. Head(queue[b]) \in Event  BY <1>1, HeadTailProperties
<1> DEFINE v == Handled(View(b), Head(queue[b]))
<1>3. entry' = [entry EXCEPT ![b] = v.entry] /\ device' = [device EXCEPT ![b] = v.device]
  BY DEF Deliver
<1> HIDE DEF v
<1>4. b = c => entry'[c] = v.entry /\ device'[c] = v.device
  BY <1>3 DEF Parts, Pages
<1>5. b # c => entry'[c] = entry[c] /\ device'[c] = device[c]
  BY <1>3 DEF Parts, Pages
<1>6. PageOf(View(c)) /\ View(c) = [entry |-> View(c).entry, device |-> View(c).device]
      /\ View(c).entry = entry[c] /\ View(c).device = device[c]
  BY DEF PageOf, View, Parts, Pages
<1>7. CASE b = c
  <2>1. /\ \A a \in Artworks : EntryAfter(Head(queue[c]), a, View(c).entry[a], v.entry[a])
        /\ \A d \in Devices : DeviceAfter(Head(queue[c]), d, View(c).device[d], v.device[d])
    BY <1>2, <1>6, <1>7, HandledPage, Zenon DEF v
  <2> QED  BY <1>2, <1>4, <1>6, <1>7, <2>1
<1> QED  BY <1>5, <1>7

-----------------------------------------------------------------------------
(* Whether an artwork runs                                                 *)

LEMMA StatusDelivered ==
  ASSUME Parts, StatusReaches, NEW b \in Clients, Deliver(b), NEW c \in Clients,
         NEW a \in Artworks, <<"protection_status", a>> \in heard'[c], stops'[a] = 0
  PROVE  /\ Tells(queue'[c], <<"protection_status", a>>, running'[a])
         /\ Silent(queue'[c], <<"protection_status", a>>) => StatusShown(c, a)'
<1> DEFINE x == <<"protection_status", a>>
           h == Head(queue[c])
<1>1. stops' = stops /\ running' = running /\ heard' = heard  BY DEF Deliver, backend
<1>2. Tells(queue[c], x, running[a]) /\ (Silent(queue[c], x) => StatusShown(c, a))
  BY <1>1 DEF StatusReaches, Reaches
<1>3. /\ Tells(queue'[c], x, running[a])
      /\ Silent(queue'[c], x) =>
           IF b = c /\ About(h) = x THEN h.value = running[a] ELSE Silent(queue[c], x)
  BY <1>2, DeliverReaches DEF Parts
<1>4. ASSUME Silent(queue'[c], x) PROVE entry'[c][a] # None /\ entry'[c][a].running = running[a]
  <2>1. CASE b # c
    <3>1. entry'[c] = entry[c]  BY <2>1, DeliveredPage
    <3>2. StatusShown(c, a)  BY <1>2, <1>3, <1>4, <2>1
    <3> QED  BY <3>1, <3>2 DEF StatusShown
  <2>2. CASE b = c
    <3>1. h \in Event /\ EntryAfter(h, a, entry[c][a], entry'[c][a])  BY <2>2, DeliveredPage
    <3>2. /\ About(h) = x => entry'[c][a] = [running |-> h.value, gate |-> None]
          /\ About(h) = <<"accepting_triggers_change", a>> /\ entry[c][a] # None =>
               entry'[c][a] = [running |-> entry[c][a].running, gate |-> h.value]
          /\ About(h) # x /\ About(h) # <<"accepting_triggers_change", a>> =>
               entry'[c][a] = entry[c][a]
      BY <3>1 DEF EntryAfter
    <3>3. h.value \in BOOLEAN /\ entry[c][a] \in Status \cup {None}
      BY <3>1 DEF Event, DeviceEvent, Parts, Pages
    <3>4. CASE About(h) = x
      <4>1. entry'[c][a] = [running |-> h.value, gate |-> None]  BY <3>2, <3>4
      <4>2. entry'[c][a] \in Status  BY <3>3, <4>1 DEF Status
      <4> QED  BY <1>3, <1>4, <2>2, <3>4, <4>1, <4>2, NoneIsOther
    <3>5. CASE About(h) # x
      <4>1. StatusShown(c, a)  BY <1>2, <1>3, <1>4, <3>5
      <4>2. CASE About(h) = <<"accepting_triggers_change", a>>
        <5>1. entry'[c][a] = [running |-> entry[c][a].running, gate |-> h.value]
          BY <3>2, <3>5, <4>1, <4>2 DEF StatusShown
        <5>2. entry'[c][a] \in Status  BY <3>3, <4>1, <5>1 DEF StatusShown, Status
        <5> QED  BY <4>1, <5>1, <5>2, NoneIsOther DEF StatusShown
      <4>3. CASE About(h) # <<"accepting_triggers_change", a>>
        <5>1. entry'[c][a] = entry[c][a]  BY <3>2, <3>5, <4>3
        <5> QED  BY <4>1, <5>1 DEF StatusShown
      <4> QED  BY <4>2, <4>3
    <3> QED  BY <3>4, <3>5
  <2> QED  BY <2>1, <2>2
<1> QED  BY <1>1, <1>3, <1>4 DEF StatusShown

\* A status that is told tells what runs now.
LEMMA StatusTold ==
  ASSUME Parts, NEW b \in Artworks, NEW r \in [Artworks -> BOOLEAN], TellStatus(b, r),
         NEW c \in Clients, NEW a \in Artworks, <<"protection_status", a>> \in heard'[c]
  PROVE  IF a = b THEN Told(c, <<"protection_status", a>>, r[a])
         ELSE Kept(c, <<"protection_status", a>>, r[a])
<1> DEFINE x == <<"protection_status", a>>
           e == [type |-> "protection_status", of |-> b, value |-> r[b]]
           es == <<e>>
<1>1. e \in Event /\ About(e) = <<"protection_status", b>> /\ e.value = r[b]
  BY StatusEvent DEF About
<1>2. Streams /\ Broadcast(es)  BY DEF TellStatus, Parts
<1> HIDE DEF e
<1>3. /\ es \in Seq(Event) /\ (Silent(es, x) <=> a # b)
      /\ a = b => Tells(es, x, r[a])
  <2>1. About(e) = x <=> a = b  BY <1>1
  <2>2. es \in Seq(Event) /\ (Silent(es, x) <=> About(e) # x)  BY <1>1, OneTells
  <2>3. a = b => Tells(es, x, r[a])  BY <1>1, OneTells
  <2> QED  BY <2>1, <2>2, <2>3
<1> HIDE DEF es
<1> QED  BY <1>2, <1>3, BroadcastReaches

LEMMA StatusStep == ASSUME Parts, StatusReaches, [Next]_vars PROVE StatusReaches'
<1> SUFFICES ASSUME NEW c \in Clients, NEW a \in Artworks,
                    <<"protection_status", a>> \in heard'[c], stops'[a] = 0
             PROVE  /\ Tells(queue'[c], <<"protection_status", a>>, running'[a])
                    /\ Silent(queue'[c], <<"protection_status", a>>) => StatusShown(c, a)'
  BY DEF StatusReaches, Reaches
<1> DEFINE x == <<"protection_status", a>>
           After == /\ Tells(queue'[c], x, running'[a])
                    /\ Silent(queue'[c], x) => StatusShown(c, a)'
<1>1. ASSUME Kept(c, x, running[a]), stops'[a] = stops[a], running'[a] = running[a], entry' = entry
      PROVE  After
  <2>1. Tells(queue[c], x, running[a]) /\ (Silent(queue[c], x) => StatusShown(c, a))
    BY <1>1 DEF StatusReaches, Reaches, Kept
  <2>2. StatusShown(c, a) => StatusShown(c, a)'  BY <1>1 DEF StatusShown
  <2> QED  BY <1>1, <2>1, <2>2 DEF Kept
<1>2. ASSUME Told(c, x, running'[a]) PROVE After  BY <1>2 DEF Told
<1>3. ASSUME running' = running, entry' = entry, stops' = stops, UNCHANGED stream PROVE After
  <2>1. Kept(c, x, running[a])  BY <1>3 DEF stream, Kept
  <2> QED  BY <1>1, <1>3, <2>1
<1>4. CASE Changes
  <2>1. CASE \E A \in (SUBSET Artworks) \ {{}}, v \in BOOLEAN : UpdateGates(A, v)
    BY <1>3, <2>1 DEF UpdateGates, backend, page
  <2>2. ASSUME NEW b \in Artworks, NotifyStarted(b) PROVE After
    <3>1. /\ running' = [running EXCEPT ![b] = TRUE] /\ TellStatus(b, running')
          /\ entry' = entry /\ stops' = stops
      BY <2>2 DEF NotifyStarted, page
    <3>2. running' \in [Artworks -> BOOLEAN]  BY <3>1 DEF Parts, Backend
    <3>3. a # b => running'[a] = running[a]  BY <3>1 DEF Parts, Backend
    <3>4. IF a = b THEN Told(c, x, running'[a]) ELSE Kept(c, x, running[a])
      BY <3>1, <3>2, <3>3, StatusTold
    <3> QED  BY <1>1, <1>2, <3>1, <3>3, <3>4
  <2>3. ASSUME NEW b \in Artworks, NotifyStopped(b) PROVE After
    <3>1. /\ running' = [running EXCEPT ![b] = FALSE] /\ stops' = [stops EXCEPT ![b] = @ + 1]
          /\ entry' = entry /\ UNCHANGED stream
      BY <2>3 DEF NotifyStopped, page
    <3>2. a # b
      <4>1. stops \in [Artworks -> Nat]  BY DEF Parts, Backend
      <4>2. stops'[a] = 0 /\ stops' = [stops EXCEPT ![b] = @ + 1]  BY <3>1
      <4> QED  BY <4>1, <4>2
    <3>3. running'[a] = running[a] /\ stops'[a] = stops[a]  BY <3>1, <3>2 DEF Parts, Backend
    <3>4. Kept(c, x, running[a])  BY <3>1 DEF stream, Kept
    <3> QED  BY <1>1, <3>1, <3>3, <3>4
  <2>4. ASSUME NEW b \in Artworks, TellAgain(b) PROVE After
    <3>1. TellStatus(b, running) /\ running' = running /\ entry' = entry /\ stops' = stops
      BY <2>4 DEF TellAgain, backend, page
    <3>2. IF a = b THEN Told(c, x, running[a]) ELSE Kept(c, x, running[a])
      BY <3>1, StatusTold DEF Parts, Backend
    <3> QED  BY <1>1, <1>2, <3>1, <3>2
  <2>5. ASSUME NEW d \in Devices, RegisterFastPoll(d) \/ UnregisterFastPoll(d) \/ PollTells(d)
        PROVE  After
    BY <1>3, <2>5 DEF RegisterFastPoll, UnregisterFastPoll, PollTells, LaterTell, page
  <2> QED  BY <1>4, <2>1, <2>2, <2>3, <2>4, <2>5 DEF Changes
<1>5. ASSUME NEW t \in changes, Announce(t) PROVE After
  <2>0. PICK A \in SUBSET Artworks : Announced(t, A)  BY <1>5, AnnounceKnown
  <2> DEFINE as == SetToSeq(A)
             es == [i \in DOMAIN as |->
                      [type |-> "accepting_triggers_change", of |-> as[i], value |-> t.to]]
  <2>1. t.to \in BOOLEAN  BY DEF Parts, Stored, Change
  <2>2. /\ es \in Seq(Event)
        /\ \A i \in DOMAIN es : About(es[i])[1] = "accepting_triggers_change"
    BY <2>1, ChangeTells
  <2>3. Broadcast(es) /\ running' = running /\ entry' = entry /\ stops' = stops
    BY <1>5, <2>0 DEF Announced, Announce, backend, page
  <2> HIDE DEF es
  <2>4. Kept(c, x, running[a])  BY <2>2, <2>3, Untold DEF Parts
  <2> QED  BY <1>1, <2>3, <2>4
<1>6. ASSUME NEW t \in changes, CommitGates(t) \/ RollbackGates(t) PROVE After
  BY <1>3, <1>6 DEF CommitGates, RollbackGates, backend, page
<1>7. ASSUME NEW b \in Artworks, StoppedTells(b) PROVE After
  <2>1. /\ TellStatus(b, running) /\ running' = running /\ entry' = entry
        /\ stops' = [stops EXCEPT ![b] = @ - 1]
    BY <1>7 DEF StoppedTells, page
  <2>2. a # b => stops'[a] = stops[a]  BY <2>1 DEF Parts, Backend
  <2>3. IF a = b THEN Told(c, x, running[a]) ELSE Kept(c, x, running[a])
    BY <2>1, StatusTold DEF Parts, Backend
  <2> QED  BY <1>1, <1>2, <2>1, <2>2, <2>3
<1>8. CASE RunTask
  <2> DEFINE e == Head(tasks)
             es == <<e>>
  <2>1. e \in DeviceEvent  BY <1>8, HeadTailProperties DEF RunTask, Parts, Backend
  <2>2. e \in Event /\ About(e)[1] # "protection_status"
    BY <2>1 DEF Event, DeviceEvent, DeviceKinds, About
  <2>3. Broadcast(es) /\ running' = running /\ entry' = entry /\ stops' = stops
    BY <1>8 DEF RunTask, page
  <2> HIDE DEF e
  <2>4. es \in Seq(Event) /\ \A i \in DOMAIN es : About(es[i])[1] # "protection_status"
    BY <2>2
  <2> HIDE DEF es
  <2>5. Kept(c, x, running[a])  BY <2>3, <2>4, Untold DEF Parts
  <2> QED  BY <1>1, <2>3, <2>5
<1>9. CASE Restart  BY <1>9 DEF Restart
<1>10. ASSUME NEW b \in Clients, Break(b) PROVE After
  <2>1. running' = running /\ entry' = entry /\ stops' = stops  BY <1>10 DEF Break, backend, page
  <2>2. Kept(c, x, running[a])  BY <1>10, BreakReaches DEF Parts
  <2> QED  BY <1>1, <2>1, <2>2
<1>11. ASSUME NEW b \in Clients, Deliver(b) PROVE After  BY <1>11, StatusDelivered DEF StatusReaches
<1>12. ASSUME NEW b \in Clients, Open(b) \/ Subscribe(b) PROVE After
  <2>1. running' = running /\ entry' = entry /\ stops' = stops  BY <1>12 DEF Open, Subscribe, backend, page
  <2>2. Kept(c, x, running[a])  BY <1>12 DEF Open, Subscribe, Kept
  <2> QED  BY <1>1, <2>1, <2>2
<1>13. ASSUME NEW b \in Clients, LoadList(b) \/ (\E g \in Artworks : Fetch(b, g)) PROVE After
  BY <1>3, <1>13 DEF LoadList, Fetch, backend
<1>14. CASE UNCHANGED vars  BY <1>3, <1>14 DEF vars, backend, page
<1> QED
  BY <1>4, <1>5, <1>6, <1>7, <1>8, <1>9, <1>10, <1>11, <1>12, <1>13, <1>14 DEF Next, Client

\* A page the last status event about an artwork reached will show whether it runs,
\* once no stop of it waits for the database: also one started while its stop was being
\* saved (ProtectionService.notify_stopped, handleMessage of the page).
THEOREM StatusReachesCorrect == Spec => []StatusReaches
<1>1. Init => StatusReaches  BY DEF Init, StatusReaches
<1>2. TypeOK /\ StatusReaches /\ [Next]_vars => StatusReaches'
  BY TypeParts, StatusStep
<1> QED  BY <1>1, <1>2, TypeCorrect, PTL DEF Spec

-----------------------------------------------------------------------------
(* Whether a device is being verified                                      *)

\* The last task about a device tells whether it is polled fast now.
TasksTell == \A d \in Devices : Tells(tasks, <<"verification", d>>, d \in fast)

VerificationShown(c, d, v) == (device[c][d] = TRUE) = v

\* A task that is added is the last one.
LEMMA LaterTells ==
  ASSUME Parts, NEW b \in Devices, NEW k \in DeviceKinds, NEW w \in BOOLEAN, LaterTell(k, b, w),
         NEW d \in Devices, NEW v
  PROVE  IF k = "verification" /\ b = d
         THEN /\ ~Silent(tasks', <<"verification", d>>)
              /\ w = v => Tells(tasks', <<"verification", d>>, v)
         ELSE /\ Silent(tasks', <<"verification", d>>) => Silent(tasks, <<"verification", d>>)
              /\ Tells(tasks, <<"verification", d>>, v) => Tells(tasks', <<"verification", d>>, v)
<1> DEFINE x == <<"verification", d>>
           e == [type |-> k, of |-> b, value |-> w]
<1>1. /\ e \in DeviceEvent /\ e.value = w
      /\ About(e) = x <=> k = "verification" /\ b = d
  BY DEF DeviceEvent, About
<1>2. tasks \in Seq(DeviceEvent) /\ tasks' = Append(tasks, e)
  BY DEF Parts, Backend, LaterTell
<1> HIDE DEF e
<1>3. tasks' = tasks \o <<e>> /\ <<e>> \in Seq(DeviceEvent)  BY <1>1, <1>2
<1>4. /\ Silent(tasks \o <<e>>, x) <=> Silent(tasks, x) /\ Silent(<<e>>, x)
      /\ Tells(<<e>>, x, v) /\ (Silent(<<e>>, x) => Tells(tasks, x, v))
           => Tells(tasks \o <<e>>, x, v)
  BY <1>2, <1>3, ConcatTells
<1>5. /\ Silent(<<e>>, x) <=> About(e) # x
      /\ (About(e) = x => e.value = v) => Tells(<<e>>, x, v)
  BY <1>1, OneTells
<1> QED  BY <1>1, <1>3, <1>4, <1>5

LEMMA TasksStep == ASSUME Parts, TasksTell, [Next]_vars PROVE TasksTell'
<1> SUFFICES ASSUME NEW d \in Devices PROVE Tells(tasks', <<"verification", d>>, d \in fast')
  BY DEF TasksTell
<1> DEFINE x == <<"verification", d>>
<1>1. Tells(tasks, x, d \in fast)  BY DEF TasksTell
<1>2. ASSUME tasks' = tasks, fast' = fast PROVE Tells(tasks', x, d \in fast')
  BY <1>1, <1>2
<1>3. CASE Changes
  <2>1. CASE \E A \in (SUBSET Artworks) \ {{}}, v \in BOOLEAN : UpdateGates(A, v)
    BY <1>2, <2>1 DEF UpdateGates, backend
  <2>2. CASE \E a \in Artworks : NotifyStarted(a) \/ NotifyStopped(a) \/ TellAgain(a)
    BY <1>2, <2>2 DEF NotifyStarted, NotifyStopped, TellAgain, backend
  <2>3. ASSUME NEW b \in Devices, RegisterFastPoll(b) PROVE Tells(tasks', x, d \in fast')
    <3>1. LaterTell("verification", b, TRUE) /\ fast' = fast \cup {b}
      BY <2>3 DEF RegisterFastPoll
    <3>2. CASE b = d
      <4>1. Tells(tasks', x, TRUE)  BY <3>1, <3>2, LaterTells DEF DeviceKinds
      <4>2. (d \in fast') = TRUE  BY <3>1, <3>2
      <4> QED  BY <4>1, <4>2
    <3>3. CASE b # d
      <4>1. (d \in fast') = (d \in fast)  BY <3>1, <3>3
      <4>2. Tells(tasks', x, d \in fast)  BY <1>1, <3>1, <3>3, LaterTells DEF DeviceKinds
      <4> QED  BY <4>1, <4>2
    <3> QED  BY <3>2, <3>3
  <2>4. ASSUME NEW b \in Devices, UnregisterFastPoll(b) PROVE Tells(tasks', x, d \in fast')
    <3>1. LaterTell("verification", b, FALSE) /\ fast' = fast \ {b}
      BY <2>4 DEF UnregisterFastPoll
    <3>2. CASE b = d
      <4>1. Tells(tasks', x, FALSE)  BY <3>1, <3>2, LaterTells DEF DeviceKinds
      <4>2. (d \in fast') = FALSE  BY <3>1, <3>2
      <4> QED  BY <4>1, <4>2
    <3>3. CASE b # d
      <4>1. (d \in fast') = (d \in fast)  BY <3>1, <3>3
      <4>2. Tells(tasks', x, d \in fast)  BY <1>1, <3>1, <3>3, LaterTells DEF DeviceKinds
      <4> QED  BY <4>1, <4>2
    <3> QED  BY <3>2, <3>3
  <2>5. ASSUME NEW b \in Devices, PollTells(b) PROVE Tells(tasks', x, d \in fast')
    <3>1. LaterTell("poll_complete", b, TRUE) /\ fast' = fast  BY <2>5 DEF PollTells
    <3>2. Tells(tasks', x, d \in fast)  BY <1>1, <3>1, LaterTells DEF DeviceKinds
    <3> QED  BY <3>1, <3>2
  <2> QED  BY <1>3, <2>1, <2>2, <2>3, <2>4, <2>5 DEF Changes
<1>4. CASE RunTask
  <2>1. tasks \in Seq(DeviceEvent) /\ tasks # <<>> /\ tasks' = Tail(tasks) /\ fast' = fast
    BY <1>4 DEF RunTask, Parts, Backend
  <2>2. Tells(Tail(tasks), x, d \in fast)  BY <1>1, <2>1, TailTells
  <2> QED  BY <2>1, <2>2
<1>5. CASE Restart
  <2>1. tasks' = <<>>  BY <1>5 DEF Restart
  <2> QED  BY <2>1 DEF Tells
<1>6. ASSUME NEW t \in changes, Announce(t) \/ CommitGates(t) \/ RollbackGates(t)
      PROVE  Tells(tasks', x, d \in fast')
  BY <1>2, <1>6 DEF Announce, CommitGates, RollbackGates, backend
<1>7. CASE \E a \in Artworks : StoppedTells(a)  BY <1>2, <1>7 DEF StoppedTells
<1>8. ASSUME NEW c \in Clients, Client(c) \/ Break(c) PROVE Tells(tasks', x, d \in fast')
  BY <1>2, <1>8 DEF Client, Open, Subscribe, Deliver, LoadList, Fetch, Break, backend
<1>9. CASE UNCHANGED vars  BY <1>2, <1>9 DEF vars, backend
<1> QED  BY <1>3, <1>4, <1>5, <1>6, <1>7, <1>8, <1>9 DEF Next

LEMMA VerificationDelivered ==
  ASSUME Parts, VerificationReaches, NEW b \in Clients, Deliver(b), NEW c \in Clients,
         NEW d \in Devices, <<"verification", d>> \in heard'[c],
         Silent(tasks', <<"verification", d>>)
  PROVE  /\ Tells(queue'[c], <<"verification", d>>, d \in fast')
         /\ Silent(queue'[c], <<"verification", d>>)
              => VerificationShown(c, d, d \in fast)'
<1> DEFINE x == <<"verification", d>>
           h == Head(queue[c])
<1>1. tasks' = tasks /\ fast' = fast /\ heard' = heard  BY DEF Deliver, backend
<1>2. /\ Tells(queue[c], x, d \in fast)
      /\ Silent(queue[c], x) => (device[c][d] = TRUE) = (d \in fast)
  BY <1>1 DEF VerificationReaches, Reaches
<1>3. /\ Tells(queue'[c], x, d \in fast)
      /\ Silent(queue'[c], x) =>
           IF b = c /\ About(h) = x THEN h.value = (d \in fast) ELSE Silent(queue[c], x)
  BY <1>2, DeliverReaches DEF Parts
<1>4. ASSUME Silent(queue'[c], x) PROVE (device'[c][d] = TRUE) = (d \in fast)
  <2>1. CASE b # c
    <3>1. device'[c] = device[c]  BY <2>1, DeliveredPage
    <3>2. (device[c][d] = TRUE) = (d \in fast)  BY <1>2, <1>3, <1>4, <2>1
    <3> QED  BY <3>1, <3>2
  <2>2. CASE b = c
    <3>1. h \in Event /\ DeviceAfter(h, d, device[c][d], device'[c][d])  BY <2>2, DeliveredPage
    <3>2. h.value \in BOOLEAN /\ device[c][d] \in BOOLEAN \cup {None}
      BY <3>1 DEF Event, DeviceEvent, Parts, Pages
    <3>3. CASE About(h) = x
      <4>1. device'[c][d] = IF h.value \/ device[c][d] # None THEN h.value ELSE None
        BY <3>1, <3>3 DEF DeviceAfter
      <4>2. h.value = (d \in fast)  BY <1>3, <1>4, <2>2, <3>3
      <4> QED  BY <3>2, <4>1, <4>2, NoneIsOther
    <3>4. CASE About(h) # x
      <4>1. (device[c][d] = TRUE) = (d \in fast)  BY <1>2, <1>3, <1>4, <3>4
      <4>2. CASE About(h) = <<"poll_complete", d>>
        <5>1. device'[c][d] = IF device[c][d] = None THEN FALSE ELSE device[c][d]
          BY <3>1, <4>2 DEF DeviceAfter
        <5> QED  BY <3>2, <4>1, <5>1, NoneIsOther
      <4>3. CASE About(h) # <<"poll_complete", d>>
        <5>1. device'[c][d] = device[c][d]  BY <3>1, <3>4, <4>3 DEF DeviceAfter
        <5> QED  BY <4>1, <5>1
      <4> QED  BY <4>2, <4>3
    <3> QED  BY <3>3, <3>4
  <2> QED  BY <2>1, <2>2
<1> QED  BY <1>1, <1>3, <1>4 DEF VerificationShown

LEMMA VerificationStep ==
  ASSUME Parts, TasksTell, VerificationReaches, [Next]_vars PROVE VerificationReaches'
<1> SUFFICES ASSUME NEW c \in Clients, NEW d \in Devices,
                    <<"verification", d>> \in heard'[c], Silent(tasks', <<"verification", d>>)
             PROVE  /\ Tells(queue'[c], <<"verification", d>>, d \in fast')
                    /\ Silent(queue'[c], <<"verification", d>>)
                         => VerificationShown(c, d, d \in fast)'
  BY DEF VerificationReaches, Reaches, VerificationShown
<1> DEFINE x == <<"verification", d>>
           After == /\ Tells(queue'[c], x, d \in fast')
                    /\ Silent(queue'[c], x) => VerificationShown(c, d, d \in fast)'
<1>1. ASSUME Kept(c, x, d \in fast), Silent(tasks, x), (d \in fast') = (d \in fast),
             device' = device
      PROVE  After
  <2>1. /\ Tells(queue[c], x, d \in fast)
        /\ Silent(queue[c], x) => (device[c][d] = TRUE) = (d \in fast)
    BY <1>1 DEF VerificationReaches, Reaches, Kept
  <2>2. /\ Tells(queue'[c], x, d \in fast)
        /\ Silent(queue'[c], x) => (device[c][d] = TRUE) = (d \in fast)
    BY <1>1, <2>1 DEF Kept
  <2>3. VerificationShown(c, d, d \in fast)' <=> (device[c][d] = TRUE) = (d \in fast)
    BY <1>1 DEF VerificationShown
  <2>4. Tells(queue'[c], x, d \in fast')  BY <1>1, <2>2
  <2> QED  BY <2>2, <2>3, <2>4
<1>2. ASSUME UNCHANGED stream, Silent(tasks, x), (d \in fast') = (d \in fast), device' = device
      PROVE  After
  <2>1. Kept(c, x, d \in fast)  BY <1>2 DEF stream, Kept
  <2> QED  BY <1>1, <1>2, <2>1
<1>3. ASSUME NEW b \in Artworks, NEW r \in [Artworks -> BOOLEAN], TellStatus(b, r),
             tasks' = tasks, fast' = fast, device' = device
      PROVE  After
  <2> DEFINE e == [type |-> "protection_status", of |-> b, value |-> r[b]]
             es == <<e>>
  <2>1. e \in Event /\ About(e)[1] = "protection_status"  BY StatusEvent DEF About
  <2>2. Broadcast(es)  BY <1>3 DEF TellStatus
  <2> HIDE DEF e
  <2>3. es \in Seq(Event) /\ \A i \in DOMAIN es : About(es[i])[1] # "verification"
    BY <2>1
  <2> HIDE DEF es
  <2>4. Kept(c, x, d \in fast)  BY <2>2, <2>3, Untold DEF Parts
  <2> QED  BY <1>1, <1>3, <2>4
<1>4. CASE Changes
  <2>1. CASE \E A \in (SUBSET Artworks) \ {{}}, v \in BOOLEAN : UpdateGates(A, v)
    BY <1>2, <2>1 DEF UpdateGates, backend, page
  <2>2. ASSUME NEW b \in Artworks, NotifyStarted(b) PROVE After
    <3>1. running' \in [Artworks -> BOOLEAN]  BY <2>2 DEF NotifyStarted, Parts, Backend
    <3> QED  BY <1>3, <2>2, <3>1 DEF NotifyStarted, page
  <2>3. ASSUME NEW b \in Artworks, NotifyStopped(b) PROVE After
    BY <1>2, <2>3 DEF NotifyStopped, page
  <2>4. ASSUME NEW b \in Artworks, TellAgain(b) PROVE After
    BY <1>3, <2>4 DEF TellAgain, backend, page, Parts, Backend
  <2>5. ASSUME NEW b \in Devices, RegisterFastPoll(b) PROVE After
    <3>1. /\ LaterTell("verification", b, TRUE) /\ fast' = fast \cup {b}
          /\ UNCHANGED stream /\ device' = device
      BY <2>5 DEF RegisterFastPoll, LaterTell, page
    <3>2. b # d /\ Silent(tasks, x)  BY <3>1, LaterTells DEF DeviceKinds
    <3> QED  BY <1>2, <3>1, <3>2
  <2>6. ASSUME NEW b \in Devices, UnregisterFastPoll(b) PROVE After
    <3>1. /\ LaterTell("verification", b, FALSE) /\ fast' = fast \ {b}
          /\ UNCHANGED stream /\ device' = device
      BY <2>6 DEF UnregisterFastPoll, LaterTell, page
    <3>2. b # d /\ Silent(tasks, x)  BY <3>1, LaterTells DEF DeviceKinds
    <3> QED  BY <1>2, <3>1, <3>2
  <2>7. ASSUME NEW b \in Devices, PollTells(b) PROVE After
    <3>1. /\ LaterTell("poll_complete", b, TRUE) /\ fast' = fast
          /\ UNCHANGED stream /\ device' = device
      BY <2>7 DEF PollTells, LaterTell, page
    <3>2. Silent(tasks, x)  BY <3>1, LaterTells DEF DeviceKinds
    <3> QED  BY <1>2, <3>1, <3>2
  <2> QED  BY <1>4, <2>1, <2>2, <2>3, <2>4, <2>5, <2>6, <2>7 DEF Changes
<1>5. ASSUME NEW t \in changes, Announce(t) PROVE After
  <2>0. PICK A \in SUBSET Artworks : Announced(t, A)  BY <1>5, AnnounceKnown
  <2> DEFINE as == SetToSeq(A)
             es == [i \in DOMAIN as |->
                      [type |-> "accepting_triggers_change", of |-> as[i], value |-> t.to]]
  <2>1. t.to \in BOOLEAN  BY DEF Parts, Stored, Change
  <2>2. /\ es \in Seq(Event)
        /\ \A i \in DOMAIN es : About(es[i])[1] = "accepting_triggers_change"
    BY <2>1, ChangeTells
  <2>3. Broadcast(es) /\ tasks' = tasks /\ fast' = fast /\ device' = device
    BY <1>5, <2>0 DEF Announced, Announce, backend, page
  <2> HIDE DEF es
  <2>4. Kept(c, x, d \in fast)  BY <2>2, <2>3, Untold DEF Parts
  <2> QED  BY <1>1, <2>3, <2>4
<1>6. ASSUME NEW t \in changes, CommitGates(t) \/ RollbackGates(t) PROVE After
  BY <1>2, <1>6 DEF CommitGates, RollbackGates, backend, page
<1>7. ASSUME NEW b \in Artworks, StoppedTells(b) PROVE After
  BY <1>3, <1>7 DEF StoppedTells, page, Parts, Backend
<1>8. CASE RunTask
  <2> DEFINE e == Head(tasks)
             es == <<e>>
  <2>1. /\ tasks \in Seq(DeviceEvent) /\ tasks # <<>> /\ tasks' = Tail(tasks)
        /\ Broadcast(es) /\ fast' = fast /\ device' = device
    BY <1>8 DEF RunTask, Parts, Backend, page
  <2>2. e \in DeviceEvent /\ (IF About(e) = x THEN e.value = (d \in fast) ELSE Silent(tasks, x))
    BY <2>1, TailTells DEF TasksTell
  <2>3. e \in Event  BY <2>2 DEF Event
  <2> HIDE DEF e
  <2>4. /\ es \in Seq(Event)
        /\ Silent(es, x) <=> About(e) # x
        /\ About(e) = x => Tells(es, x, d \in fast)
    BY <2>2, <2>3, OneTells
  <2> HIDE DEF es
  <2>5. CASE About(e) = x
    <3>1. Told(c, x, d \in fast)  BY <2>1, <2>4, <2>5, BroadcastReaches DEF Parts
    <3> QED  BY <2>1, <3>1 DEF Told
  <2>6. CASE About(e) # x
    <3>1. Kept(c, x, d \in fast)  BY <2>1, <2>4, <2>6, BroadcastReaches DEF Parts
    <3> QED  BY <1>1, <2>1, <2>2, <2>6, <3>1
  <2> QED  BY <2>5, <2>6
<1>9. CASE Restart  BY <1>9 DEF Restart
<1>10. ASSUME NEW b \in Clients, Break(b) PROVE After
  <2>1. tasks' = tasks /\ fast' = fast /\ device' = device  BY <1>10 DEF Break, backend, page
  <2>2. Kept(c, x, d \in fast)  BY <1>10, BreakReaches DEF Parts
  <2> QED  BY <1>1, <2>1, <2>2
<1>11. ASSUME NEW b \in Clients, Deliver(b) PROVE After  BY <1>11, VerificationDelivered
<1>12. ASSUME NEW b \in Clients, Open(b) \/ Subscribe(b) PROVE After
  <2>1. tasks' = tasks /\ fast' = fast /\ device' = device
    BY <1>12 DEF Open, Subscribe, backend, page
  <2>2. Kept(c, x, d \in fast)  BY <1>12 DEF Open, Subscribe, Kept
  <2> QED  BY <1>1, <2>1, <2>2
<1>13. ASSUME NEW b \in Clients, LoadList(b) \/ (\E g \in Artworks : Fetch(b, g)) PROVE After
  BY <1>2, <1>13 DEF LoadList, Fetch, backend
<1>14. CASE UNCHANGED vars  BY <1>2, <1>14 DEF vars, backend, page
<1> QED
  BY <1>4, <1>5, <1>6, <1>7, <1>8, <1>9, <1>10, <1>11, <1>12, <1>13, <1>14 DEF Next, Client

\* A page the last event about the verification of a device reached will show whether
\* it is being verified, once the tasks that tell have run: they run in the order of the
\* changes (StateMonitor.register_fast_poll, unregister_fast_poll, _create_background_task).
THEOREM VerificationReachesCorrect == Spec => []VerificationReaches
<1>1. Init => TasksTell /\ VerificationReaches
  BY DEF Init, TasksTell, VerificationReaches, Tells
<1>2. TypeOK /\ TasksTell /\ VerificationReaches /\ [Next]_vars
        => TasksTell' /\ VerificationReaches'
  BY TypeParts, TasksStep, VerificationStep
<1> QED  BY <1>1, <1>2, TypeCorrect, PTL DEF Spec

-----------------------------------------------------------------------------
(* Whether the gate of an artwork is open                                  *)

\* Transactions lock their rows, so no two of them set the same gate.
Disjoint == \A t, u \in changes : t # u => t.of \cap u.of = {}

\* Until it commits, a page the events of a transaction reached will show what it sets,
\* unless events of another one that does not set it came later.
AnnouncedReaches ==
  \A t \in changes, c \in Clients :
    t.announced => \A a \in t.of \ phantom :
      LET x == <<"accepting_triggers_change", a>> IN
      x \in heard[c] => Reaches(c, x, t.to, GateShown(c, a, t.to))

\* A page that has been reached will show v of the gate of a; after a step, likewise.
GateDue(c, a, v) ==
  LET x == <<"accepting_triggers_change", a>> IN
  x \in heard[c] => Tells(queue[c], x, v) /\ (Silent(queue[c], x) => GateShown(c, a, v))
GateDueNext(c, a, v) ==
  LET x == <<"accepting_triggers_change", a>> IN
  x \in heard'[c] =>
    /\ Tells(queue'[c], x, v)
    /\ Silent(queue'[c], x) => (entry'[c][a] # None => entry'[c][a].gate \in {v, None})

\* The steps that tell nothing of gates.
Untelling == \/ Changes \/ (\E t \in changes : CommitGates(t) \/ RollbackGates(t))
             \/ (\E a \in Artworks : StoppedTells(a)) \/ RunTask \/ Restart
             \/ (\E c \in Clients : Client(c) \/ Break(c)) \/ UNCHANGED vars

LEMMA GateKept ==
  ASSUME NEW c \in Clients, NEW a \in Artworks, NEW v, GateDue(c, a, v), entry' = entry,
         <<"accepting_triggers_change", a>> \in heard'[c]
           => Kept(c, <<"accepting_triggers_change", a>>, v)
  PROVE  GateDueNext(c, a, v)
BY DEF GateDue, GateDueNext, Kept, GateShown

LEMMA GateDelivered ==
  ASSUME Parts, NEW b \in Clients, Deliver(b), NEW c \in Clients, NEW a \in Artworks, NEW v,
         GateDue(c, a, v)
  PROVE  GateDueNext(c, a, v)
<1> DEFINE x == <<"accepting_triggers_change", a>>
           h == Head(queue[c])
<1> SUFFICES ASSUME x \in heard'[c]
             PROVE  /\ Tells(queue'[c], x, v)
                    /\ Silent(queue'[c], x) =>
                         (entry'[c][a] # None => entry'[c][a].gate \in {v, None})
  BY DEF GateDueNext
<1>1. Tells(queue[c], x, v) /\ (Silent(queue[c], x) => GateShown(c, a, v))
  BY DEF GateDue, Deliver
<1>2. /\ Tells(queue'[c], x, v)
      /\ Silent(queue'[c], x) =>
           IF b = c /\ About(h) = x THEN h.value = v ELSE Silent(queue[c], x)
  BY <1>1, DeliverReaches DEF Parts
<1>3. ASSUME Silent(queue'[c], x), entry'[c][a] # None PROVE entry'[c][a].gate \in {v, None}
  <2>1. CASE b # c
    <3>1. entry'[c] = entry[c]  BY <2>1, DeliveredPage
    <3>2. GateShown(c, a, v)  BY <1>1, <1>2, <1>3, <2>1
    <3> QED  BY <1>3, <3>1, <3>2 DEF GateShown
  <2>2. CASE b = c
    <3>1. EntryAfter(h, a, entry[c][a], entry'[c][a])  BY <2>2, DeliveredPage
    <3>2. CASE About(h) = x
      <4>1. h.value = v  BY <1>2, <1>3, <2>2, <3>2
      <4>2. entry'[c][a] = [running |-> entry[c][a].running, gate |-> h.value]
        BY <1>3, <3>1, <3>2 DEF EntryAfter
      <4> QED  BY <4>1, <4>2
    <3>3. CASE About(h) = <<"protection_status", a>>
      <4>1. entry'[c][a] = [running |-> h.value, gate |-> None]
        BY <3>1, <3>3 DEF EntryAfter
      <4> QED  BY <4>1
    <3>4. CASE About(h) # x /\ About(h) # <<"protection_status", a>>
      <4>1. entry'[c][a] = entry[c][a]  BY <3>1, <3>4 DEF EntryAfter
      <4>2. GateShown(c, a, v)  BY <1>1, <1>2, <1>3, <3>4
      <4> QED  BY <1>3, <4>1, <4>2 DEF GateShown
    <3> QED  BY <3>2, <3>3, <3>4
  <2> QED  BY <2>1, <2>2
<1> QED  BY <1>2, <1>3

\* What a page will show of a gate stays, whatever else happens.
LEMMA GateStays ==
  ASSUME Parts, Untelling, NEW c \in Clients, NEW a \in Artworks, NEW v, GateDue(c, a, v)
  PROVE  GateDueNext(c, a, v)
<1> DEFINE k == "accepting_triggers_change"
           x == <<k, a>>
           After == GateDueNext(c, a, v)
<1>1. ASSUME UNCHANGED stream, entry' = entry PROVE After
  BY <1>1, GateKept DEF stream, Kept
<1>2. ASSUME NEW b \in Artworks, NEW r \in [Artworks -> BOOLEAN], TellStatus(b, r),
             entry' = entry
      PROVE  After
  <2> DEFINE e == [type |-> "protection_status", of |-> b, value |-> r[b]]
             es == <<e>>
  <2>1. e \in Event /\ About(e)[1] = "protection_status"  BY StatusEvent DEF About
  <2>2. Broadcast(es)  BY <1>2 DEF TellStatus
  <2> HIDE DEF e
  <2>3. es \in Seq(Event) /\ \A i \in DOMAIN es : About(es[i])[1] # k  BY <2>1
  <2> HIDE DEF es
  <2>4. x \in heard'[c] => Kept(c, x, v)  BY <2>2, <2>3, Untold DEF Parts
  <2> QED  BY <1>2, <2>4, GateKept
<1>3. CASE Changes
  <2>1. CASE \E A \in (SUBSET Artworks) \ {{}}, w \in BOOLEAN : UpdateGates(A, w)
    BY <1>1, <2>1 DEF UpdateGates, page
  <2>2. ASSUME NEW b \in Artworks, NotifyStarted(b) PROVE After
    <3>1. running' \in [Artworks -> BOOLEAN]  BY <2>2 DEF NotifyStarted, Parts, Backend
    <3> QED  BY <1>2, <2>2, <3>1 DEF NotifyStarted, page
  <2>3. ASSUME NEW b \in Artworks, NotifyStopped(b) PROVE After
    BY <1>1, <2>3 DEF NotifyStopped, page
  <2>4. ASSUME NEW b \in Artworks, TellAgain(b) PROVE After
    BY <1>2, <2>4 DEF TellAgain, page, Parts, Backend
  <2>5. ASSUME NEW b \in Devices, RegisterFastPoll(b) \/ UnregisterFastPoll(b) \/ PollTells(b)
        PROVE  After
    BY <1>1, <2>5 DEF RegisterFastPoll, UnregisterFastPoll, PollTells, LaterTell, page
  <2> QED  BY <1>3, <2>1, <2>2, <2>3, <2>4, <2>5 DEF Changes
<1>4. ASSUME NEW t \in changes, CommitGates(t) \/ RollbackGates(t) PROVE After
  BY <1>1, <1>4 DEF CommitGates, RollbackGates, page
<1>5. ASSUME NEW b \in Artworks, StoppedTells(b) PROVE After
  BY <1>2, <1>5 DEF StoppedTells, page, Parts, Backend
<1>6. CASE RunTask
  <2> DEFINE e == Head(tasks)
             es == <<e>>
  <2>1. e \in DeviceEvent /\ Broadcast(es) /\ entry' = entry
    BY <1>6, HeadTailProperties DEF RunTask, Parts, Backend, page
  <2>2. e \in Event /\ About(e)[1] # k  BY <2>1 DEF Event, DeviceEvent, DeviceKinds, About
  <2> HIDE DEF e
  <2>3. es \in Seq(Event) /\ \A i \in DOMAIN es : About(es[i])[1] # k  BY <2>2
  <2> HIDE DEF es
  <2>4. x \in heard'[c] => Kept(c, x, v)  BY <2>1, <2>3, Untold DEF Parts
  <2> QED  BY <2>1, <2>4, GateKept
<1>7. CASE Restart  BY <1>7 DEF Restart, GateDueNext
<1>8. ASSUME NEW b \in Clients, Break(b) PROVE After
  <2>1. x \in heard'[c] => Kept(c, x, v)  BY <1>8, BreakReaches DEF Parts
  <2> QED  BY <1>8, <2>1, GateKept DEF Break, page
<1>9. ASSUME NEW b \in Clients, Deliver(b) PROVE After  BY <1>9, GateDelivered
<1>10. ASSUME NEW b \in Clients, Open(b) \/ Subscribe(b) PROVE After
  <2>1. x \in heard'[c] => Kept(c, x, v)  BY <1>10 DEF Open, Subscribe, Kept
  <2> QED  BY <1>10, <2>1, GateKept DEF Open, Subscribe, page
<1>11. ASSUME NEW b \in Clients, LoadList(b) \/ (\E g \in Artworks : Fetch(b, g)) PROVE After
  BY <1>1, <1>11 DEF LoadList, Fetch
<1>12. CASE UNCHANGED vars  BY <1>1, <1>12 DEF vars, page
<1> QED
  BY <1>3, <1>4, <1>5, <1>6, <1>7, <1>8, <1>9, <1>10, <1>11, <1>12 DEF Untelling, Client

\* The events of a transaction tell what it sets, of its artworks and of such as become
\* phantom.
LEMMA GateAnnounced ==
  ASSUME Parts, NEW t \in changes, Announce(t), NEW c \in Clients, NEW a \in Artworks, NEW v,
         IF a \in t.of THEN v = t.to ELSE GateDue(c, a, v) /\ a \notin phantom'
  PROVE  GateDueNext(c, a, v)
<1>0. PICK A \in SUBSET Artworks : Announced(t, A)  BY AnnounceKnown
<1> DEFINE x == <<"accepting_triggers_change", a>>
           as == SetToSeq(A)
           es == [i \in DOMAIN as |->
                    [type |-> "accepting_triggers_change", of |-> as[i], value |-> t.to]]
<1>1. t.to \in BOOLEAN  BY DEF Parts, Stored, Change
<1>7. a \in A <=> a \in t.of  BY <1>0 DEF Announced
<1>2. /\ es \in Seq(Event) /\ (Silent(es, x) <=> a \notin A)
      /\ \A i \in DOMAIN es : es[i].value = t.to
  BY <1>1, ChangeTells
<1>3. Broadcast(es) /\ entry' = entry  BY <1>0 DEF Announced, Announce, page
<1> HIDE DEF es
<1>4. Tells(es, x, t.to)  BY <1>2 DEF Tells
<1>5. CASE a \in t.of
  <2>1. x \in heard'[c] => Told(c, x, v)  BY <1>7, <1>2, <1>3, <1>4, <1>5, BroadcastReaches DEF Parts
  <2> QED  BY <2>1 DEF Told, GateDueNext
<1>6. CASE a \notin t.of
  <2>1. x \in heard'[c] => Kept(c, x, v)  BY <1>2, <1>3, <1>6, <1>7, BroadcastReaches DEF Parts
  <2> QED  BY <1>3, <1>6, <2>1, GateKept
<1> QED  BY <1>5, <1>6

LEMMA Locked ==
  ASSUME Parts, Disjoint, [Next]_vars PROVE Disjoint'
<1>1. ASSUME changes' \subseteq changes PROVE Disjoint'  BY <1>1 DEF Disjoint
<1>2. ASSUME NEW A \in (SUBSET Artworks) \ {{}}, NEW v \in BOOLEAN, UpdateGates(A, v)
      PROVE  Disjoint'
  <2> DEFINE u == [of |-> A, to |-> v, announced |-> FALSE]
  <2>1. u.of = A  OBVIOUS
  <2>2. changes' = changes \cup {u} /\ \A t \in changes : t.of \cap A = {}
    BY <1>2 DEF UpdateGates
  <2> HIDE DEF u
  <2> QED  BY <2>1, <2>2 DEF Disjoint
<1>3. ASSUME NEW t \in changes, Announce(t) PROVE Disjoint'
  <2> DEFINE u == [t EXCEPT !.announced = TRUE]
  <2>1. u.of = t.of  BY DEF Parts, Stored, Change
  <2>2. changes' = (changes \ {t}) \cup {u}  BY <1>3 DEF Announce
  <2> HIDE DEF u
  <2> QED  BY <2>1, <2>2 DEF Disjoint
<1>4. CASE Changes
  <2>1. ASSUME NEW a \in Artworks, NotifyStarted(a) \/ NotifyStopped(a) \/ TellAgain(a)
        PROVE  changes' \subseteq changes
    BY <2>1 DEF NotifyStarted, NotifyStopped, TellAgain, db
  <2>2. ASSUME NEW d \in Devices, RegisterFastPoll(d) \/ UnregisterFastPoll(d) \/ PollTells(d)
        PROVE  changes' \subseteq changes
    BY <2>2 DEF RegisterFastPoll, UnregisterFastPoll, PollTells, LaterTell, db
  <2> QED  BY <1>1, <1>2, <1>4, <2>1, <2>2 DEF Changes
<1>5. ASSUME NEW t \in changes, CommitGates(t) \/ RollbackGates(t) PROVE Disjoint'
  BY <1>1, <1>5 DEF CommitGates, RollbackGates
<1>6. CASE \E a \in Artworks : StoppedTells(a)  BY <1>1, <1>6 DEF StoppedTells, db
<1>7. CASE RunTask \/ Restart  BY <1>1, <1>7 DEF RunTask, Restart, db
<1>8. ASSUME NEW c \in Clients, Client(c) \/ Break(c) PROVE Disjoint'
  BY <1>1, <1>8 DEF Client, Open, Subscribe, Deliver, LoadList, Fetch, Break, db
<1>9. CASE UNCHANGED vars  BY <1>1, <1>9 DEF vars, db
<1> QED  BY <1>3, <1>4, <1>5, <1>6, <1>7, <1>8, <1>9 DEF Next

\* Without an announcement a gate that is settled has been, or has just been committed.
LEMMA SettledBefore ==
  ASSUME Parts, Untelling
  PROVE  /\ \A t \in changes' : t.announced => t \in changes
         /\ phantom \subseteq phantom'
         /\ \A a \in Artworks :
              Settled(a)' => \/ Restart
                             \/ Settled(a) /\ gate'[a] = gate[a]
                             \/ \E t \in changes : /\ t.announced /\ a \in t.of \ phantom
                                                   /\ gate'[a] = t.to
<1> DEFINE Goal == /\ \A t \in changes' : t.announced => t \in changes
                   /\ phantom \subseteq phantom'
                   /\ \A a \in Artworks :
                        Settled(a)' => \/ Restart
                                       \/ Settled(a) /\ gate'[a] = gate[a]
                                       \/ \E t \in changes : /\ t.announced
                                                             /\ a \in t.of \ phantom
                                                             /\ gate'[a] = t.to
<1>1. ASSUME UNCHANGED db, phantom' = phantom PROVE Goal  BY <1>1 DEF db, Settled
<1>2. ASSUME NEW A \in (SUBSET Artworks) \ {{}}, NEW v \in BOOLEAN, UpdateGates(A, v)
      PROVE  Goal
  <2> DEFINE u == [of |-> A, to |-> v, announced |-> FALSE]
  <2>1. u.announced = FALSE  OBVIOUS
  <2>2. changes' = changes \cup {u} /\ gate' = gate /\ phantom' = phantom
    BY <1>2 DEF UpdateGates
  <2> HIDE DEF u
  <2> QED  BY <2>1, <2>2 DEF Settled
<1>3. CASE Changes
  <2>1. ASSUME NEW a \in Artworks, NotifyStarted(a) \/ NotifyStopped(a) \/ TellAgain(a)
        PROVE  UNCHANGED db /\ phantom' = phantom
    BY <2>1 DEF NotifyStarted, NotifyStopped, TellAgain
  <2>2. ASSUME NEW d \in Devices, RegisterFastPoll(d) \/ UnregisterFastPoll(d) \/ PollTells(d)
        PROVE  UNCHANGED db /\ phantom' = phantom
    BY <2>2 DEF RegisterFastPoll, UnregisterFastPoll, PollTells, LaterTell
  <2> QED  BY <1>1, <1>2, <1>3, <2>1, <2>2 DEF Changes
<1>4. ASSUME NEW t \in changes, CommitGates(t) PROVE Goal
  <2>1. /\ t.announced /\ changes' = changes \ {t} /\ phantom' = phantom
        /\ gate' = [a \in Artworks |-> IF a \in t.of THEN t.to ELSE gate[a]]
    BY <1>4 DEF CommitGates
  <2> QED  BY <2>1 DEF Settled
<1>5. ASSUME NEW t \in changes, RollbackGates(t) PROVE Goal
  <2>1. /\ changes' = changes \ {t} /\ gate' = gate
        /\ phantom' = IF t.announced THEN phantom \cup t.of ELSE phantom
    BY <1>5 DEF RollbackGates
  <2> QED  BY <2>1 DEF Settled
<1>6. CASE \E a \in Artworks : StoppedTells(a)  BY <1>1, <1>6 DEF StoppedTells
<1>7. CASE RunTask  BY <1>1, <1>7 DEF RunTask
<1>8. CASE Restart  BY <1>8 DEF Restart
<1>9. ASSUME NEW c \in Clients, Client(c) \/ Break(c) PROVE Goal
  BY <1>1, <1>9 DEF Client, Open, Subscribe, Deliver, LoadList, Fetch, Break
<1>10. CASE UNCHANGED vars  BY <1>1, <1>10 DEF vars
<1> QED  BY <1>3, <1>4, <1>5, <1>6, <1>7, <1>8, <1>9, <1>10 DEF Untelling

GateInv == Disjoint /\ AnnouncedReaches /\ GateReaches

\* GateReaches, by what is due.
LEMMA GateParts ==
  /\ GateReaches <=> \A c \in Clients, a \in Artworks : Settled(a) => GateDue(c, a, gate[a])
  /\ AnnouncedReaches <=>
       \A t \in changes, c \in Clients :
         t.announced => \A a \in t.of \ phantom : GateDue(c, a, t.to)
BY DEF GateReaches, AnnouncedReaches, Reaches, GateDue

LEMMA GateStep == ASSUME Parts, GateInv, [Next]_vars PROVE GateInv'
<1>1. Disjoint'  BY Locked DEF GateInv
<1>2. ASSUME NEW c \in Clients, NEW a \in Artworks, Settled(a) PROVE GateDue(c, a, gate[a])
  BY <1>2, GateParts DEF GateInv
<1>3. ASSUME NEW t \in changes, NEW c \in Clients, NEW a \in t.of \ phantom, t.announced
      PROVE  GateDue(c, a, t.to) /\ a \in Artworks
  BY <1>3, GateParts DEF GateInv, Parts, Stored, Change
<1>4. ASSUME \A c \in Clients, a \in Artworks : Settled(a)' => GateDueNext(c, a, gate'[a]),
             \A t \in changes', c \in Clients :
               t.announced => \A a \in t.of \ phantom' : GateDueNext(c, a, t.to)
      PROVE  GateInv'
  BY <1>1, <1>4 DEF GateInv, GateReaches, AnnouncedReaches, Reaches, GateShown, GateDueNext
<1>5. ASSUME NEW t \in changes, Announce(t) PROVE GateInv'
  <2> DEFINE u == [t EXCEPT !.announced = TRUE]
  <2>1. u.of = t.of /\ u.to = t.to /\ u.announced /\ t.of \subseteq Artworks
    BY DEF Parts, Stored, Change
  <2>2. /\ changes' = (changes \ {t}) \cup {u} /\ gate' = gate /\ phantom \ t.of \subseteq phantom'
        /\ ~t.announced
    BY <1>5 DEF Announce
  <2> HIDE DEF u
  <2>3. ASSUME NEW c \in Clients, NEW a \in Artworks, Settled(a)'
        PROVE  GateDueNext(c, a, gate'[a])
    <3>1. a \notin t.of  BY <2>1, <2>2, <2>3 DEF Settled
    <3>2. Settled(a)  BY <2>2, <2>3, <3>1 DEF Settled
    <3>3. GateDue(c, a, gate[a])  BY <1>2, <3>2
    <3> QED  BY <1>5, <2>2, <2>3, <3>1, <3>3, GateAnnounced DEF Settled
  <2>4. ASSUME NEW w \in changes', NEW c \in Clients, w.announced, NEW a \in w.of \ phantom'
        PROVE  GateDueNext(c, a, w.to)
    <3>1. CASE w = u  BY <1>5, <2>1, <3>1, <2>4, GateAnnounced
    <3>2. CASE w \in changes /\ w # t
      <4>1. a \notin t.of  BY <2>4, <3>2 DEF GateInv, Disjoint
      <4>2. GateDue(c, a, w.to) /\ a \in Artworks  BY <1>3, <2>2, <2>4, <3>2, <4>1
      <4> QED  BY <1>5, <2>4, <4>1, <4>2, GateAnnounced
    <3> QED  BY <2>2, <3>1, <3>2
  <2> QED  BY <1>4, <2>3, <2>4
<1>6. CASE Untelling
  <2>1. ASSUME NEW c \in Clients, NEW a \in Artworks, Settled(a)'
        PROVE  GateDueNext(c, a, gate'[a])
    <3>1. CASE Restart  BY <3>1 DEF Restart, GateDueNext
    <3>2. CASE Settled(a) /\ gate'[a] = gate[a]
      <4>1. GateDueNext(c, a, gate[a])  BY <1>2, <1>6, <3>2, GateStays
      <4> QED  BY <3>2, <4>1
    <3>3. ASSUME NEW t \in changes, t.announced, a \in t.of \ phantom, gate'[a] = t.to
          PROVE  GateDueNext(c, a, gate'[a])
      <4>1. GateDueNext(c, a, t.to)  BY <1>3, <1>6, <3>3, GateStays
      <4> QED  BY <3>3, <4>1
    <3> QED  BY <1>6, <2>1, <3>1, <3>2, <3>3, SettledBefore
  <2>2. ASSUME NEW w \in changes', NEW c \in Clients, w.announced, NEW a \in w.of \ phantom'
        PROVE  GateDueNext(c, a, w.to)
    <3>1. w \in changes /\ a \notin phantom  BY <1>6, <2>2, SettledBefore
    <3> QED  BY <1>3, <1>6, <2>2, <3>1, GateStays
  <2> QED  BY <1>4, <2>1, <2>2
<1> QED  BY <1>5, <1>6 DEF Next, Untelling

\* A page the last event about the gate of an artwork reached will show what the
\* database holds, although the events are sent before the commit: transactions that
\* are open, commits that failed and artworks that came to a target too late, aside
\* (CommandOrchestrator._update_accepting_triggers).
THEOREM GateReachesCorrect == Spec => []GateReaches
<1>1. Init => GateInv
  BY DEF Init, GateInv, Disjoint, AnnouncedReaches, GateReaches
<1>2. TypeOK /\ GateInv /\ [Next]_vars => GateInv'
  BY TypeParts, GateStep
<1>3. GateInv => GateReaches  BY DEF GateInv
<1> QED  BY <1>1, <1>2, <1>3, TypeCorrect, PTL DEF Spec

-----------------------------------------------------------------------------
(* What a page shows when nothing is left to be told                       *)

\* What PageCatchesUp promises of one artwork and of one device.
RunRight(c, a) == RunShown(c, a) \/ RunMissed(c, a)
BadgeRight(c, d) == Badge(c, d) = (d \in fast) \/ VerificationMissed(c, d)

\* Nothing about it is still to be told to the page.
RunRests(c, a) == queue[c] = <<>> /\ stops[a] = 0
BadgeRests(c, d) == queue[c] = <<>> /\ Silent(tasks, <<"verification", d>>)

\* The safety half of PageCatchesUp.  When all is told, a page that was told of an
\* artwork or a device is right about it.
PageRight ==
  \A c \in Clients :
    /\ \A a \in Artworks : RunRests(c, a) /\ entry[c][a] # None => RunRight(c, a)
    /\ \A d \in Devices : BadgeRests(c, d) /\ device[c][d] = TRUE => BadgeRight(c, d)

\* A page is right about the rest as soon as it asks, and right it stays, until there
\* is something to tell.
PageStays ==
  [][\A c \in Clients :
       /\ \A a \in Artworks :
            /\ RunRests(c, a) /\ RunRests(c, a)' /\ running'[a] = running[a]
            /\ RunRight(c, a) \/ Fetch(c, a)
            => RunRight(c, a)'
       /\ \A d \in Devices :
            /\ BadgeRests(c, d) /\ BadgeRests(c, d)' /\ (d \in fast' <=> d \in fast)
            /\ BadgeRight(c, d) \/ LoadList(c)
            => BadgeRight(c, d)']_vars

LEMMA RightAtRest ==
  ASSUME StatusReaches, VerificationReaches PROVE PageRight
<1>1. ASSUME NEW c \in Clients, NEW a \in Artworks, RunRests(c, a), entry[c][a] # None
      PROVE  RunRight(c, a)
  <2> DEFINE x == <<"protection_status", a>>
  <2>1. CASE x \in heard[c]
    <3>1. Silent(queue[c], x)  BY <1>1 DEF RunRests, Silent
    <3>2. Silent(queue[c], x) => StatusShown(c, a)
      BY <1>1, <2>1 DEF StatusReaches, Reaches, RunRests
    <3> QED  BY <3>1, <3>2 DEF StatusShown, RunRight, RunShown, Panel
  <2>2. CASE x \notin heard[c]
    BY <1>1, <2>2 DEF RunRight, RunMissed
  <2> QED  BY <2>1, <2>2
<1>2. ASSUME NEW c \in Clients, NEW d \in Devices, BadgeRests(c, d), device[c][d] = TRUE
      PROVE  BadgeRight(c, d)
  <2> DEFINE x == <<"verification", d>>
  <2>1. CASE x \in heard[c]
    <3>1. Silent(queue[c], x)  BY <1>2 DEF BadgeRests, Silent
    <3>2. Silent(queue[c], x) => (device[c][d] = TRUE) = (d \in fast)
      BY <1>2, <2>1 DEF VerificationReaches, Reaches, BadgeRests
    <3> QED  BY <1>2, <3>1, <3>2 DEF BadgeRight, Badge
  <2>2. CASE x \notin heard[c]
    BY <1>2, <2>2 DEF BadgeRight, VerificationMissed
  <2> QED  BY <2>1, <2>2
<1> QED  BY <1>1, <1>2 DEF PageRight

\* With an empty queue a page changes only what it asked for.
LEMMA AskedPage ==
  ASSUME Parts, [Next]_vars, NEW c \in Clients, queue[c] = <<>>
  PROVE  /\ entry'[c] = entry[c] /\ device'[c] = device[c]
         /\ \A a \in Artworks : fetched'[c][a] = fetched[c][a] \/ Fetch(c, a)
         /\ listed'[c] = listed[c] \/ LoadList(c)
<1> DEFINE Asked == /\ entry'[c] = entry[c] /\ device'[c] = device[c]
                    /\ \A a \in Artworks : fetched'[c][a] = fetched[c][a] \/ Fetch(c, a)
                    /\ listed'[c] = listed[c] \/ LoadList(c)
<1> SUFFICES Asked  OBVIOUS
<1>1. ASSUME UNCHANGED page PROVE Asked  BY <1>1 DEF page
<1> HIDE DEF Asked
<1>2. CASE Changes
  BY <1>1, <1>2 DEF Changes, UpdateGates, NotifyStarted, NotifyStopped, TellAgain,
                    RegisterFastPoll, UnregisterFastPoll, PollTells, LaterTell
<1>3. ASSUME NEW t \in changes, Announce(t) \/ CommitGates(t) \/ RollbackGates(t) PROVE Asked
  BY <1>1, <1>3 DEF Announce, CommitGates, RollbackGates
<1>4. CASE (\E a \in Artworks : StoppedTells(a)) \/ RunTask \/ Restart
  BY <1>1, <1>4 DEF StoppedTells, RunTask, Restart
<1>5. ASSUME NEW b \in Clients, Open(b) \/ Subscribe(b) \/ Break(b) PROVE Asked
  BY <1>1, <1>5 DEF Open, Subscribe, Break
<1>6. ASSUME NEW b \in Clients, Deliver(b) PROVE Asked
  <2>1. b # c  BY <1>6 DEF Deliver
  <2>2. entry'[c] = entry[c] /\ device'[c] = device[c]  BY <1>6, <2>1, DeliveredPage
  <2> QED  BY <1>6, <2>2 DEF Deliver, Asked
<1>7. ASSUME NEW b \in Clients, LoadList(b) PROVE Asked
  <2>1. entry' = entry /\ device' = device /\ fetched' = fetched  BY <1>7 DEF LoadList
  <2>2. b # c => listed'[c] = listed[c]  BY <1>7 DEF LoadList, Parts, Pages
  <2> QED  BY <1>7, <2>1, <2>2 DEF Asked
<1>8. ASSUME NEW b \in Clients, NEW g \in Artworks, Fetch(b, g) PROVE Asked
  <2>1. entry' = entry /\ device' = device /\ listed' = listed  BY <1>8 DEF Fetch
  <2>2. ASSUME NEW a \in Artworks PROVE fetched'[c][a] = fetched[c][a] \/ Fetch(c, a)
    <3>1. ~(b = c /\ g = a) => fetched'[c][a] = fetched[c][a]
      BY <1>8 DEF Fetch, Parts, Pages
    <3> QED  BY <1>8, <3>1
  <2> QED  BY <2>1, <2>2 DEF Asked
<1>9. CASE UNCHANGED vars  BY <1>1, <1>9 DEF vars
<1> QED  BY <1>2, <1>3, <1>4, <1>5, <1>6, <1>7, <1>8, <1>9 DEF Next, Client

LEMMA RunStays ==
  ASSUME Parts, [Next]_vars, PageRight', NEW c \in Clients, NEW a \in Artworks,
         RunRests(c, a), RunRests(c, a)', running'[a] = running[a],
         RunRight(c, a) \/ Fetch(c, a)
  PROVE  RunRight(c, a)'
<1>1. entry'[c] = entry[c] /\ (fetched'[c][a] = fetched[c][a] \/ Fetch(c, a))
  BY AskedPage DEF RunRests
<1>2. CASE entry'[c][a] # None  BY <1>2 DEF PageRight
<1>3. CASE entry'[c][a] = None
  <2>1. CASE Fetch(c, a)
    <3> DEFINE s == [running |-> running[a], gate |-> gate[a]]
    <3>1. s \in Status /\ s.running = running[a]
      BY DEF Status, Parts, Stored, Backend
    <3>2. fetched'[c][a] = s  BY <2>1 DEF Fetch, Parts, Pages
    <3>3. s # None  BY <3>1, NoneIsOther
    <3> HIDE DEF s
    <3> QED  BY <1>3, <3>1, <3>2, <3>3 DEF RunRight, RunShown, Panel
  <2>2. CASE ~Fetch(c, a)
    <3>1. fetched'[c][a] = fetched[c][a] /\ entry[c][a] = None  BY <1>1, <1>3, <2>2
    <3>2. RunShown(c, a)  BY <2>2, <3>1 DEF RunRight, RunMissed
    <3> QED  BY <1>3, <3>1, <3>2 DEF RunRight, RunShown, Panel
  <2> QED  BY <2>1, <2>2
<1> QED  BY <1>2, <1>3

LEMMA BadgeStays ==
  ASSUME Parts, [Next]_vars, PageRight', NEW c \in Clients, NEW d \in Devices,
         BadgeRests(c, d), BadgeRests(c, d)', d \in fast' <=> d \in fast,
         BadgeRight(c, d) \/ LoadList(c)
  PROVE  BadgeRight(c, d)'
<1>1. device'[c] = device[c] /\ (listed'[c] = listed[c] \/ LoadList(c))
  BY AskedPage DEF BadgeRests
<1>2. CASE device'[c][d] = TRUE  BY <1>2 DEF PageRight
<1>3. CASE device'[c][d] # TRUE
  <2>1. d \in listed'[c] <=> d \in fast'
    <3>1. CASE LoadList(c)
      <4>1. listed'[c] = {b \in Devices : PollStatus(b)}
        BY <3>1 DEF LoadList, Parts, Pages
      <4> QED  BY <4>1 DEF PollStatus
    <3>2. CASE ~LoadList(c)
      <4>1. listed'[c] = listed[c] /\ device[c][d] # TRUE  BY <1>1, <1>3, <3>2
      <4>2. Badge(c, d) = (d \in fast)
        BY <3>2, <4>1 DEF BadgeRight, VerificationMissed
      <4>3. d \in listed[c] <=> d \in fast  BY <4>1, <4>2 DEF Badge
      <4> QED  BY <4>1, <4>3
    <3> QED  BY <3>1, <3>2
  <2>2. Badge(c, d)' <=> d \in fast'  BY <1>3, <2>1 DEF Badge
  <2>3. Badge(c, d)' \in BOOLEAN  BY DEF Badge
  <2> QED  BY <2>2, <2>3 DEF BadgeRight
<1> QED  BY <1>2, <1>3

\* When nothing about it is left to be told, a page that an event has told of shows
\* whether an artwork runs and whether a device is being verified, or its connection
\* missed the last event; of the rest it is right as soon as it asks, and right it
\* stays (handleMessage, the polling of the panels and of the list).
THEOREM PageRightCorrect == Spec => []PageRight /\ PageStays
<1> DEFINE Stays ==
      \A c \in Clients :
        /\ \A a \in Artworks :
             /\ RunRests(c, a) /\ RunRests(c, a)' /\ running'[a] = running[a]
             /\ RunRight(c, a) \/ Fetch(c, a)
             => RunRight(c, a)'
        /\ \A d \in Devices :
             /\ BadgeRests(c, d) /\ BadgeRests(c, d)' /\ (d \in fast' <=> d \in fast)
             /\ BadgeRight(c, d) \/ LoadList(c)
             => BadgeRight(c, d)'
<1>1. StatusReaches /\ VerificationReaches => PageRight  BY RightAtRest
<1>2. TypeOK /\ PageRight' /\ [Next]_vars => [Stays]_vars
  <2> SUFFICES ASSUME TypeOK, PageRight', [Next]_vars PROVE Stays  OBVIOUS
  <2>1. Parts  BY TypeParts
  <2> QED  BY <2>1, RunStays, BadgeStays
<1>3. PageStays <=> [][Stays]_vars  BY DEF PageStays
<1> HIDE DEF Stays
<1> QED  BY <1>1, <1>2, <1>3, TypeCorrect, StatusReachesCorrect, VerificationReachesCorrect, PTL
         DEF Spec
=============================================================================
