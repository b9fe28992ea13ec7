-------------------------- MODULE AnelRunnerProofs --------------------------
(* Proofs about AnelRunner, for any strips and requests and a queue of any *)
(* size: its invariants, and that it implements PowerService.              *)
EXTENDS AnelRunner, SequenceTheorems, TLAPS

-----------------------------------------------------------------------------
(* Types                                                                   *)

\* A request that is done, whatever it is told.
LEMMA FinishTyped ==
  ASSUME TypeOK, NEW r \in Requests, NEW ok \in BOOLEAN, Finish(r, ok)
  PROVE  /\ pc' \in [Requests -> PCs] /\ heard' \in [Requests -> Messages \cup {None}]
         /\ pending' \in [Strips -> Requests \cup {None}]
         /\ serving' \in Requests \cup {None}
BY DEF TypeOK, Finish, Unregister, PCs

\* A request that takes the entry of its strip.
LEMMA BeginsTyped ==
  ASSUME TypeOK, NEW r \in Requests
  PROVE  /\ [pc EXCEPT ![r] = "sending"] \in [Requests -> PCs]
         /\ [pending EXCEPT ![Strip[r]] = r] \in [Strips -> Requests \cup {None}]
BY RunnerAssumption DEF TypeOK, PCs, Unfinished, InFlight

LEMMA RouteTyped == ASSUME TypeOK, NEW r \in Requests, Route(r) PROVE TypeOK'
<1>1. CASE SetPowerState(r)
  <2>1. CASE Begins(r)
    <3>1. pc' \in [Requests -> PCs] /\ pending' \in [Strips -> Requests \cup {None}]
      BY <2>1, BeginsTyped DEF Begins
    <3> QED  BY <1>1, <2>1, <3>1 DEF SetPowerState, Begins, TypeOK, world
  <2>2. CASE Enqueue(r)
    <3>1. pc' \in [Requests -> PCs]  BY <2>2 DEF Enqueue, TypeOK, PCs, Unfinished
    <3>2. queue' \in Seq(Requests) /\ Len(queue') <= QueueSize
      <4>1. CASE Len(queue) < QueueSize
        <5>1. queue' = Append(queue, r)  BY <2>2, <4>1 DEF Enqueue
        <5>2. queue \in Seq(Requests)  BY DEF TypeOK
        <5>3. queue' \in Seq(Requests) /\ Len(queue') = Len(queue) + 1  BY <5>1, <5>2
        <5> QED  BY <4>1, <5>2, <5>3, RunnerAssumption
      <4>2. CASE ~(Len(queue) < QueueSize)  BY <2>2, <4>2 DEF Enqueue, TypeOK
      <4> QED  BY <4>1, <4>2
    <3> QED  BY <1>1, <2>2, <3>1, <3>2 DEF SetPowerState, Enqueue, TypeOK, world
  <2> QED  BY <1>1, <2>1, <2>2 DEF SetPowerState
<1>2. CASE GetState(r)
  <2>1. pc' \in [Requests -> PCs] /\ pending' \in [Strips -> Requests \cup {None}]
    BY <1>2, BeginsTyped DEF GetState, Begins
  <2> QED  BY <1>2, <2>1 DEF GetState, Begins, TypeOK, world
<1> QED  BY <1>1, <1>2 DEF Route, PowerOn, PowerOff

LEMMA CachedTyped ==
  ASSUME TypeOK, NEW m \in Messages
  PROVE  Cached(m) \in [Strips -> States \cup {"unknown"}]
BY DEF TypeOK, Cached, IsStatus, Messages

LEMMA HandlerTyped == ASSUME TypeOK, NEW r \in Requests, Handler(r) PROVE TypeOK'
<1>1. CASE Put(r)
  <2>1. pc' \in [Requests -> PCs]  BY <1>1 DEF Put, TypeOK, PCs, Unfinished
  <2>2. queue' \in Seq(Requests) /\ Len(queue') <= QueueSize
    <3>1. queue' = Append(queue, r) /\ Len(queue) < QueueSize  BY <1>1 DEF Put
    <3>2. queue \in Seq(Requests)  BY DEF TypeOK
    <3>3. queue' \in Seq(Requests) /\ Len(queue') = Len(queue) + 1  BY <3>1, <3>2
    <3> QED  BY <3>1, <3>2, <3>3, RunnerAssumption
  <2> QED  BY <1>1, <2>1, <2>2 DEF Put, TypeOK, world
<1>2. CASE Sends(r)
  <2>1. pc' \in [Requests -> PCs]  BY <1>2 DEF Sends, TypeOK, PCs, Unfinished, InFlight
  <2> QED  BY <1>2, <2>1 DEF Sends, TypeOK
<1>3. CASE TimesOut(r)
  BY <1>3, FinishTyped DEF TimesOut, TypeOK, world
<1>4. CASE PowerAnswers(r)
  <2>1. Accepted(heard[r]) \in BOOLEAN  BY DEF Accepted
  <2> QED  BY <1>4, <2>1, FinishTyped DEF PowerAnswers, TypeOK, world
<1>5. CASE QueryAnswers(r)
  <2>1. IsStatus(heard[r]) \in BOOLEAN  BY DEF IsStatus
  <2>2. heard[r] \in Messages  BY <1>5 DEF QueryAnswers, TypeOK
  <2>3. cache' \in [Strips -> States \cup {"unknown"}]  BY <1>5, <2>2, CachedTyped DEF QueryAnswers
  <2> QED  BY <1>5, <2>1, <2>3, FinishTyped DEF QueryAnswers, TypeOK, world
<1>6. ASSUME NEW left \in BOOLEAN, SendFails(r, left) PROVE TypeOK'
  <2>1. down' \subseteq Requests  BY <1>6 DEF SendFails, TypeOK
  <2> QED  BY <1>6, <2>1, FinishTyped DEF SendFails, TypeOK
<1> QED  BY <1>1, <1>2, <1>3, <1>4, <1>5, <1>6 DEF Handler

LEMMA ProcessOneTyped == ASSUME TypeOK, ProcessOne PROVE TypeOK'
<1>1. Head(queue) \in Requests /\ Tail(queue) \in Seq(Requests) /\ Len(Tail(queue)) <= QueueSize
  BY HeadTailProperties, RunnerAssumption DEF ProcessOne, TypeOK
<1>2. pc' \in [Requests -> PCs] /\ pending' \in [Strips -> Requests \cup {None}]
  BY <1>1, BeginsTyped DEF ProcessOne
<1> QED  BY <1>1, <1>2 DEF ProcessOne, TypeOK, world

LEMMA DatagramTyped ==
  ASSUME TypeOK, NEW m \in Messages, DatagramReceived(m) PROVE TypeOK'
<1>1. up' \subseteq Messages  BY DEF DatagramReceived, TypeOK
<1>2. heard' \in [Requests -> Messages \cup {None}]
  BY DEF DatagramReceived, Hears, Matches, TypeOK
<1>3. cache' \in [Strips -> States \cup {"unknown"}]
  BY CachedTyped DEF DatagramReceived, TypeOK
<1> QED  BY <1>1, <1>2, <1>3 DEF DatagramReceived, TypeOK

LEMMA NetworkTyped == ASSUME TypeOK, Network PROVE TypeOK'
<1>1. ASSUME NEW m \in Messages, Emits(m) PROVE up' \subseteq Messages
  BY <1>1 DEF Emits, TypeOK
<1>2. ASSUME NEW r \in Requests, StripObeys(r) PROVE TypeOK'
  <2> DEFINE now == IF Want[r] \in Power THEN Want[r] ELSE outlet[Strip[r]]
  <2>1. now \in States /\ Strip[r] \in Strips
    BY RunnerAssumption DEF TypeOK, Power, States
  <2>2. [from |-> Strip[r], state |-> now] \in Messages
        /\ [from |-> Strip[r], state |-> "brief"] \in Messages
    BY <2>1 DEF Messages
  <2>3. up' \subseteq Messages  BY <1>1, <1>2, <2>2 DEF StripObeys
  <2>4. outlet' \in [Strips -> States] /\ down' \subseteq Requests
    BY <1>2, <2>1 DEF StripObeys, TypeOK
  <2> QED  BY <1>2, <2>3, <2>4 DEF StripObeys, TypeOK, runner
<1>3. ASSUME NEW r \in Requests, StripRefuses(r) PROVE TypeOK'
  <2>1. [from |-> Strip[r], state |-> "refused"] \in Messages
    BY RunnerAssumption DEF Messages
  <2>2. up' \subseteq Messages  BY <1>1, <1>3, <2>1 DEF StripRefuses
  <2> QED  BY <1>3, <2>2 DEF StripRefuses, TypeOK, runner
<1>4. ASSUME NEW s \in Strips, Broadcast(s) PROVE TypeOK'
  <2>1. [from |-> s, state |-> outlet[s]] \in Messages  BY DEF Messages, TypeOK
  <2>2. up' \subseteq Messages  BY <1>1, <1>4, <2>1 DEF Broadcast
  <2> QED  BY <1>4, <2>2 DEF Broadcast, TypeOK, runner
<1> QED  BY <1>2, <1>3, <1>4 DEF Network

LEMMA ShutdownTyped == ASSUME TypeOK, Shutdown PROVE TypeOK'
<1>1. pc' \in [Requests -> PCs]  BY DEF Shutdown, ClearQueue, TypeOK, PCs
<1>2. heard' \in [Requests -> Messages \cup {None}]  BY DEF Shutdown, StopProcessor, TypeOK
<1>3. pending' \in [Strips -> Requests \cup {None}]
  BY DEF Shutdown, StopProcessor, Unregister, TypeOK
<1>4. queue' \in Seq(Requests) /\ Len(queue') <= QueueSize
  BY EmptySeq, RunnerAssumption DEF Shutdown, ClearQueue
<1>5. restarts' \in 0..MaxRestarts  BY RunnerAssumption DEF Shutdown, TypeOK
<1> QED  BY <1>1, <1>2, <1>3, <1>4, <1>5 DEF Shutdown, StopProcessor, TypeOK, world

LEMMA StartTyped == ASSUME TypeOK, Start PROVE TypeOK'
<1>1. pc' \in [Requests -> PCs]  BY DEF Start, TypeOK, PCs
<1>2. queue' \in Seq(Requests) /\ Len(queue') <= QueueSize
  BY EmptySeq, RunnerAssumption DEF Start
<1> QED  BY <1>1, <1>2 DEF Start, TypeOK, world

(* Every state of AnelRunner is well typed; the queue never holds more commands   *)
(* than its size (CommandQueue, command_queue.py).                                *)
THEOREM TypeCorrect == Spec => []TypeOK
<1>1. Init => TypeOK
  <2> SUFFICES ASSUME Init PROVE TypeOK  OBVIOUS
  <2>1. pc \in [Requests -> PCs]  BY DEF Init, PCs
  <2>2. queue \in Seq(Requests) /\ Len(queue) <= QueueSize
    BY EmptySeq, RunnerAssumption DEF Init
  <2>3. outlet \in [Strips -> States]  BY DEF Init, States
  <2>4. restarts \in 0..MaxRestarts  BY RunnerAssumption DEF Init
  <2> QED  BY <2>1, <2>2, <2>3, <2>4 DEF Init, TypeOK
<1>2. TypeOK /\ [Next]_vars => TypeOK'
  <2> SUFFICES ASSUME TypeOK, [Next]_vars PROVE TypeOK'  OBVIOUS
  <2>1. ASSUME NEW r \in Requests, CallFails(r) PROVE TypeOK'
    <3>1. pc' \in [Requests -> PCs]  BY <2>1 DEF CallFails, TypeOK, PCs
    <3> QED  BY <2>1, <3>1 DEF CallFails, TypeOK, world
  <2>2. CASE UNCHANGED vars  BY <2>2 DEF TypeOK, vars, world, runner
  <2> QED  BY <2>1, <2>2, RouteTyped, HandlerTyped, ProcessOneTyped, DatagramTyped,
              NetworkTyped, ShutdownTyped, StartTyped DEF Next
<1> QED  BY <1>1, <1>2, PTL DEF Spec

-----------------------------------------------------------------------------
(* The discipline of the queue                                             *)

Lined == {r \in Requests : Want[r] \in Power} \ Fast

\* A command of the queue is on its way just while it is served; those in the queue
\* wait, each once; and a service that has stopped serves none.
Discipline ==
  /\ \A r \in Requests : pc[r] \in {"putting", "queued"} => r \in Lined
  /\ \A r \in Requests : r = serving <=> r \in Lined /\ pc[r] \in InFlight
  /\ \A i \in DOMAIN queue : pc[queue[i]] = "queued"
  /\ \A i, j \in DOMAIN queue : queue[i] = queue[j] => i = j
  /\ ~running => serving = None

\* A command that has a place in the queue from now on.
LEMMA AppendDiscipline ==
  ASSUME TypeOK, Discipline, NEW r \in Requests, r \in Lined,
         pc[r] \in {"idle", "putting"}, pc' = [pc EXCEPT ![r] = "queued"],
         queue' = Append(queue, r), UNCHANGED <<serving, running>>
  PROVE  Discipline'
<1> USE DEF InFlight
<1>1. /\ DOMAIN queue' = 1..(Len(queue) + 1) /\ DOMAIN queue = 1..Len(queue)
      /\ Len(queue) \in Nat /\ queue'[Len(queue) + 1] = r
      /\ \A i \in DOMAIN queue : queue'[i] = queue[i] /\ queue[i] \in Requests
  BY DEF TypeOK
<1>2. \A i \in DOMAIN queue : queue[i] # r  BY <1>1 DEF Discipline, TypeOK
<1>3. \A i \in DOMAIN queue' : i \in DOMAIN queue \/ i = Len(queue) + 1  BY <1>1
<1>4. \A i \in DOMAIN queue' : pc'[queue'[i]] = "queued"
  BY <1>1, <1>2, <1>3 DEF Discipline, TypeOK
<1>5. \A i, j \in DOMAIN queue' : queue'[i] = queue'[j] => i = j
  BY <1>1, <1>2, <1>3 DEF Discipline
<1>6. \A q \in Requests : q # r => pc'[q] = pc[q]  BY DEF TypeOK
<1>7. pc'[r] = "queued" /\ r # serving  BY DEF Discipline, TypeOK
<1>8. \A q \in Requests : pc'[q] \in {"putting", "queued"} => q \in Lined
  BY <1>6, <1>7 DEF Discipline
<1>9. \A q \in Requests : q = serving' <=> q \in Lined /\ pc'[q] \in InFlight
  BY <1>6, <1>7 DEF Discipline
<1> QED  BY <1>4, <1>5, <1>8, <1>9 DEF Discipline, Lined

\* A request that is done.
LEMMA FinishDiscipline ==
  ASSUME TypeOK, Discipline, NEW r \in Requests, NEW ok \in BOOLEAN,
         pc[r] \in InFlight, Finish(r, ok), UNCHANGED <<queue, running>>
  PROVE  Discipline'
<1> USE DEF InFlight
<1>1. \A i \in DOMAIN queue : queue[i] \in Requests /\ queue[i] # r
  BY ElementOfSeq, LenProperties DEF Discipline, TypeOK
<1>2. \A q \in Requests : q # r => pc'[q] = pc[q]  BY DEF Finish, TypeOK
<1>3. pc'[r] \in {"ok", "failed"}  BY DEF Finish, TypeOK
<1>4. \A i \in DOMAIN queue : pc'[queue[i]] = "queued"  BY <1>1, <1>2 DEF Discipline
<1>5. \A q \in Requests : q = serving' <=> q \in Lined /\ pc'[q] \in InFlight
  BY <1>2, <1>3, RunnerAssumption DEF Discipline, Finish
<1>6. ~running => serving' = None  BY DEF Discipline, Finish
<1> QED  BY <1>2, <1>3, <1>4, <1>5, <1>6 DEF Discipline, Lined

\* A request that goes from one place on its way to the next, or to none.
LEMMA OtherDiscipline ==
  ASSUME TypeOK, Discipline, NEW r \in Requests, NEW p, pc[r] # "queued",
         p \in {"putting", "queued"} => r \in Lined,
         r \in Lined => (p \in InFlight <=> pc[r] \in InFlight),
         pc' = [pc EXCEPT ![r] = p], UNCHANGED <<queue, serving, running>>
  PROVE  Discipline'
<1>1. \A i \in DOMAIN queue : queue[i] \in Requests /\ queue[i] # r
  BY ElementOfSeq, LenProperties DEF Discipline, TypeOK
<1> QED  BY <1>1 DEF Discipline, Lined, TypeOK

LEMMA ProcessOneDiscipline == ASSUME TypeOK, Discipline, ProcessOne PROVE Discipline'
<1> DEFINE r == Head(queue)
<1> USE DEF InFlight
<1>1. /\ queue \in Seq(Requests) /\ queue # <<>>
      /\ r \in Requests /\ r = queue[1] /\ 1 \in DOMAIN queue
      /\ Len(queue) \in Nat \ {0} /\ DOMAIN queue = 1..Len(queue)
  BY HeadTailProperties, LenProperties, EmptySeq DEF ProcessOne, TypeOK
<1>2. /\ DOMAIN queue' = 1..(Len(queue) - 1)
      /\ \A i \in DOMAIN queue' : queue'[i] = queue[i + 1] /\ i + 1 \in DOMAIN queue
  BY <1>1, HeadTailProperties, LenProperties DEF ProcessOne
<1>3. \A i \in DOMAIN queue' : queue'[i] # r /\ queue'[i] \in Requests
  <2> SUFFICES ASSUME NEW i \in DOMAIN queue' PROVE queue'[i] # r /\ queue'[i] \in Requests
    OBVIOUS
  <2>1. i + 1 # 1 /\ i + 1 \in DOMAIN queue /\ queue'[i] = queue[i + 1]  BY <1>1, <1>2
  <2>2. queue[i + 1] \in Requests  BY <1>1, <2>1, ElementOfSeq
  <2> QED  BY <1>1, <2>1, <2>2 DEF Discipline
<1>4. \A q \in Requests : q # r => pc'[q] = pc[q]  BY <1>1 DEF ProcessOne, TypeOK
<1>5. pc'[r] = "sending" /\ pc[r] = "queued" /\ r \in Lined
  BY <1>1 DEF ProcessOne, TypeOK, Discipline
<1>6. \A i \in DOMAIN queue' : pc'[queue'[i]] = "queued"
  BY <1>2, <1>3, <1>4 DEF Discipline
<1>7. \A i, j \in DOMAIN queue' : queue'[i] = queue'[j] => i = j
  <2> SUFFICES ASSUME NEW i \in DOMAIN queue', NEW j \in DOMAIN queue', queue'[i] = queue'[j]
               PROVE i = j
    OBVIOUS
  <2>1. i + 1 = j + 1  BY <1>2 DEF Discipline
  <2> QED  BY <1>1, <1>2, <2>1
<1>8. \A q \in Requests : q = serving' <=> q \in Lined /\ pc'[q] \in InFlight
  BY <1>1, <1>4, <1>5, RunnerAssumption DEF Discipline, ProcessOne
<1>9. \A q \in Requests : pc'[q] \in {"putting", "queued"} => q \in Lined
  BY <1>4, <1>5 DEF Discipline
<1> QED  BY <1>6, <1>7, <1>8, <1>9 DEF Discipline, Lined, ProcessOne

LEMMA NextDiscipline == ASSUME TypeOK, Discipline, [Next]_vars PROVE Discipline'
<1>1. ASSUME NEW r \in Requests, Route(r) PROVE Discipline'
  <2>1. pc[r] = "idle" /\ UNCHANGED running
    BY <1>1 DEF Route, PowerOn, PowerOff, SetPowerState, GetState
  <2>2. r \in Lined <=> ~(GetState(r) \/ r \in Fast)
    BY <1>1, RunnerAssumption
    DEF Lined, Route, PowerOn, PowerOff, SetPowerState, GetState, Power, Wants
  <2>3. CASE Begins(r) /\ r \notin Lined
    BY <2>1, <2>3, OtherDiscipline DEF Begins
  <2>4. CASE Enqueue(r) /\ r \in Lined
    <3>1. CASE Len(queue) < QueueSize
      BY <2>1, <2>4, <3>1, AppendDiscipline DEF Enqueue
    <3>2. CASE ~(Len(queue) < QueueSize)
      BY <2>1, <2>4, <3>2, OtherDiscipline DEF Enqueue, InFlight
    <3> QED  BY <3>1, <3>2
  <2> QED  BY <1>1, <2>2, <2>3, <2>4 DEF Route, PowerOn, PowerOff, SetPowerState, GetState
<1>2. ASSUME NEW r \in Requests, Handler(r) PROVE Discipline'
  <2>1. CASE Put(r)
    <3>1. r \in Lined  BY <2>1 DEF Put, Discipline
    <3> QED  BY <2>1, <3>1, AppendDiscipline DEF Put
  <2>2. CASE Sends(r)  BY <2>2, OtherDiscipline DEF Sends, InFlight
  <2>3. CASE TimesOut(r)  BY <2>3, FinishDiscipline DEF TimesOut, InFlight
  <2>4. CASE PowerAnswers(r)
    BY <2>4, FinishDiscipline DEF PowerAnswers, Accepted, InFlight
  <2>5. CASE QueryAnswers(r)
    <3>1. IsStatus(heard[r]) \in BOOLEAN  BY DEF IsStatus
    <3>2. Finish(r, IsStatus(heard[r])) /\ UNCHANGED <<queue, running>> /\ pc[r] \in InFlight
      BY <2>5 DEF QueryAnswers, InFlight
    <3> QED  BY <3>1, <3>2, FinishDiscipline
  <2>6. ASSUME NEW left \in BOOLEAN, SendFails(r, left) PROVE Discipline'
    BY <2>6, FinishDiscipline DEF SendFails, InFlight
  <2> QED  BY <1>2, <2>1, <2>2, <2>3, <2>4, <2>5, <2>6 DEF Handler
<1>3. ASSUME NEW r \in Requests, CallFails(r) PROVE Discipline'
  BY <1>3, OtherDiscipline DEF CallFails, InFlight
<1>4. CASE Shutdown
  <2>1. serving' = None /\ queue' = <<>>  BY <1>4 DEF Shutdown, StopProcessor, ClearQueue
  <2>2. \A q \in Requests : (pc'[q] = pc[q] /\ q # serving) \/ pc'[q] \in {"orphan", "dropped"}
    BY <1>4 DEF Shutdown, ClearQueue
  <2>3. \A q \in Requests : ~(q \in Lined /\ pc'[q] \in InFlight)
    BY <2>2 DEF Discipline, InFlight
  <2> QED  BY <2>1, <2>2, <2>3, RunnerAssumption DEF Discipline, Lined
<1>5. CASE Start
  <2>1. serving' = None /\ queue' = <<>>  BY <1>5 DEF Start, Discipline
  <2>2. \A q \in Requests : pc'[q] \notin Unfinished
    BY <1>5 DEF Start, Unfinished, InFlight
  <2> QED  BY <2>1, <2>2, RunnerAssumption DEF Discipline, Lined, Unfinished
<1>6. ASSUME NEW m \in Messages, DatagramReceived(m) PROVE Discipline'
  BY <1>6 DEF DatagramReceived, Discipline, Lined
<1>7. CASE UNCHANGED runner  BY <1>7 DEF runner, Discipline, Lined
<1>8. CASE Network  BY <1>7, <1>8 DEF Network, StripObeys, StripRefuses, Broadcast
<1>9. CASE UNCHANGED vars  BY <1>7, <1>9 DEF vars
<1> QED  BY <1>1, <1>2, <1>3, <1>4, <1>5, <1>6, <1>8, <1>9, ProcessOneDiscipline DEF Next

-----------------------------------------------------------------------------
(* Who has the entries, and what is heard                                  *)

\* A request that is done leaves no entry.
LEMMA FinishEntries ==
  ASSUME TypeOK, PendingInFlight, NEW r \in Requests, NEW ok \in BOOLEAN, Finish(r, ok)
  PROVE  PendingInFlight'
<1> SUFFICES ASSUME NEW s \in Strips, pending'[s] # None
             PROVE  pc'[pending'[s]] \in InFlight /\ Strip[pending'[s]] = s
  BY DEF PendingInFlight
<1>1. s # Strip[r] /\ pending'[s] = pending[s]
  BY RunnerAssumption DEF Finish, Unregister, TypeOK
<1>2. pending[s] \in Requests /\ Strip[pending[s]] = s /\ pc[pending[s]] \in InFlight
  BY <1>1 DEF PendingInFlight, TypeOK
<1>3. pc'[pending[s]] = pc[pending[s]]  BY <1>1, <1>2 DEF Finish, TypeOK
<1> QED  BY <1>1, <1>2, <1>3

\* A request that takes the entry is on its way.
LEMMA BeginsEntries ==
  ASSUME TypeOK, PendingInFlight, NEW r \in Requests,
         pc' = [pc EXCEPT ![r] = "sending"], pending' = [pending EXCEPT ![Strip[r]] = r]
  PROVE  PendingInFlight'
BY RunnerAssumption DEF PendingInFlight, TypeOK, InFlight

\* A request that was not on its way has no entry and may do what it likes.
LEMMA OthersEntries ==
  ASSUME TypeOK, PendingInFlight, NEW r \in Requests, NEW p, pc[r] \notin InFlight,
         pc' = [pc EXCEPT ![r] = p], pending' = pending
  PROVE  PendingInFlight'
BY DEF PendingInFlight, TypeOK

LEMMA NextEntries ==
  ASSUME TypeOK, Discipline, PendingInFlight, [Next]_vars PROVE PendingInFlight'
<1>1. ASSUME NEW r \in Requests, Route(r) PROVE PendingInFlight'
  <2>1. CASE Begins(r)  BY <2>1, BeginsEntries DEF Begins
  <2>2. CASE Enqueue(r) /\ pc[r] = "idle"
    BY <2>2, OthersEntries DEF Enqueue, InFlight
  <2> QED  BY <1>1, <2>1, <2>2 DEF Route, PowerOn, PowerOff, SetPowerState, GetState
<1>2. ASSUME NEW r \in Requests, Handler(r) PROVE PendingInFlight'
  <2>1. CASE Put(r)  BY <2>1, OthersEntries DEF Put, InFlight
  <2>2. CASE Sends(r)  BY <2>2 DEF Sends, PendingInFlight, TypeOK, InFlight
  <2>3. CASE TimesOut(r)  BY <2>3, FinishEntries DEF TimesOut
  <2>4. CASE PowerAnswers(r)  BY <2>4, FinishEntries DEF PowerAnswers, Accepted
  <2>5. CASE QueryAnswers(r)
    <3>1. IsStatus(heard[r]) \in BOOLEAN  BY DEF IsStatus
    <3> QED  BY <2>5, <3>1, FinishEntries DEF QueryAnswers
  <2>6. ASSUME NEW left \in BOOLEAN, SendFails(r, left) PROVE PendingInFlight'
    BY <2>6, FinishEntries DEF SendFails
  <2> QED  BY <1>2, <2>1, <2>2, <2>3, <2>4, <2>5, <2>6 DEF Handler
<1>3. ASSUME NEW r \in Requests, CallFails(r) PROVE PendingInFlight'
  BY <1>3, OthersEntries DEF CallFails, InFlight
<1>4. CASE ProcessOne
  <2>1. Head(queue) \in Requests  BY <1>4, HeadTailProperties DEF ProcessOne, TypeOK
  <2> QED  BY <1>4, <2>1, BeginsEntries DEF ProcessOne
<1>5. CASE Shutdown
  <2> SUFFICES ASSUME NEW s \in Strips, pending'[s] # None
               PROVE  pc'[pending'[s]] \in InFlight /\ Strip[pending'[s]] = s
    BY DEF PendingInFlight
  <2>1. serving # None => serving \in Requests /\ s # Strip[serving]
    BY <1>5 DEF Shutdown, StopProcessor, Unregister, TypeOK
  <2>2. pending'[s] = pending[s]
    BY <1>5, <2>1 DEF Shutdown, StopProcessor, Unregister, TypeOK
  <2>3. pending[s] \in Requests /\ Strip[pending[s]] = s /\ pc[pending[s]] \in InFlight
    BY <2>2 DEF PendingInFlight, TypeOK
  <2>4. pending[s] # serving  BY <2>1, <2>3, RunnerAssumption
  <2>5. pending[s] \notin Range(queue)  BY <2>3 DEF Discipline, InFlight, Range
  <2>6. pc'[pending[s]] = pc[pending[s]]
    BY <1>5, <2>3, <2>4, <2>5 DEF Shutdown, ClearQueue
  <2> QED  BY <2>2, <2>3, <2>6
<1>6. CASE Start  BY <1>6 DEF Start, PendingInFlight
<1>7. ASSUME NEW m \in Messages, DatagramReceived(m) PROVE PendingInFlight'
  BY <1>7 DEF DatagramReceived, PendingInFlight
<1>8. CASE UNCHANGED runner  BY <1>8 DEF runner, PendingInFlight
<1>9. CASE Network  BY <1>8, <1>9 DEF Network, StripObeys, StripRefuses, Broadcast
<1>10. CASE UNCHANGED vars  BY <1>8, <1>10 DEF vars
<1> QED  BY <1>1, <1>2, <1>3, <1>4, <1>5, <1>6, <1>7, <1>9, <1>10 DEF Next

LEMMA NextAnswers ==
  ASSUME TypeOK, PendingInFlight, AnswerNamesHost, [Next]_vars PROVE AnswerNamesHost'
<1>1. ASSUME \A r \in Requests : heard'[r] = heard[r] \/ heard'[r] = None
      PROVE  AnswerNamesHost'
  BY <1>1 DEF AnswerNamesHost
<1>2. ASSUME NEW m \in Messages, DatagramReceived(m) PROVE AnswerNamesHost'
  <2>1. CASE UNCHANGED heard  BY <2>1 DEF AnswerNamesHost
  <2>2. ASSUME NEW s \in Strips, Matches(s, m),
               heard' = [heard EXCEPT ![pending[s]] = IF @ = None THEN m ELSE @]
        PROVE  AnswerNamesHost'
    <3>1. pending[s] \in Requests /\ Strip[pending[s]] = s
      BY <2>2 DEF Matches, PendingInFlight, TypeOK
    <3>2. m.from = s \/ <<s, m.from>> \in Named  BY <2>2 DEF Matches
    <3>3. \A r \in Requests : r # pending[s] => heard'[r] = heard[r]  BY <2>2 DEF TypeOK
    <3>4. heard'[pending[s]] \in {m, heard[pending[s]]}  BY <2>2, <3>1 DEF TypeOK
    <3> QED  BY <3>1, <3>2, <3>3, <3>4 DEF AnswerNamesHost
  <2> QED  BY <1>2, <2>1, <2>2 DEF DatagramReceived, Hears
<1>3. ASSUME NEW r \in Requests, NEW ok, Finish(r, ok) PROVE AnswerNamesHost'
  BY <1>1, <1>3 DEF Finish, TypeOK
<1>4. ASSUME NEW r \in Requests, Handler(r) PROVE AnswerNamesHost'
  BY <1>1, <1>3, <1>4
  DEF Handler, Put, Sends, TimesOut, PowerAnswers, QueryAnswers, SendFails
<1>5. ASSUME NEW r \in Requests, Route(r) \/ CallFails(r) PROVE UNCHANGED heard
  BY <1>5 DEF Route, PowerOn, PowerOff, SetPowerState, GetState, CallFails
<1>6. CASE Shutdown  BY <1>1, <1>6 DEF Shutdown, StopProcessor, TypeOK
<1>7. CASE Start  BY <1>1, <1>7 DEF Start
<1>8. CASE ProcessOne \/ Network \/ UNCHANGED vars
  BY <1>1, <1>8 DEF ProcessOne, Network, StripObeys, StripRefuses, Broadcast, vars, runner
<1> QED  BY <1>1, <1>2, <1>4, <1>5, <1>6, <1>7, <1>8 DEF Next

Inv == TypeOK /\ Discipline /\ PendingInFlight /\ AnswerNamesHost

LEMMA InitInv == Init => Discipline /\ PendingInFlight /\ AnswerNamesHost
<1> SUFFICES ASSUME Init PROVE Discipline /\ PendingInFlight /\ AnswerNamesHost  OBVIOUS
<1>1. Discipline
  BY RunnerAssumption DEF Init, Discipline, InFlight
<1>2. PendingInFlight /\ AnswerNamesHost  BY DEF Init, PendingInFlight, AnswerNamesHost
<1> QED  BY <1>1, <1>2

LEMMA InvCorrect == Spec => []Inv
BY InitInv, TypeCorrect, NextDiscipline, NextEntries, NextAnswers, PTL DEF Spec, Inv

\* Every entry of _pending_responses belongs to a request on its way to that strip,
\* however requests end and whoever took the entry over (connection.py).
THEOREM PendingInFlightCorrect == Spec => []PendingInFlight
BY InvCorrect, PTL DEF Inv

\* What a request is told comes from its strip, or from one whose status holds the
\* address of its strip (datagram_received in connection.py).
THEOREM AnswerNamesHostCorrect == Spec => []AnswerNamesHost
BY InvCorrect, PTL DEF Inv

-----------------------------------------------------------------------------
(* AnelRunner implements PowerService                                      *)

Line == (IF serving = None THEN <<>> ELSE <<serving>>) \o queue
Begun == {r \in Requests : pc[r] = "waiting"}
Status == [r \in Requests |-> StatusOf(r)]

LEMMA LineServing ==
  ASSUME TypeOK, serving # None
  PROVE  Line # <<>> /\ Head(Line) = serving /\ Tail(Line) = queue
BY DEF Line, TypeOK

LEMMA LineFree == ASSUME TypeOK, serving = None PROVE Line = queue
BY DEF Line, TypeOK

LEMMA LineAppend ==
  ASSUME TypeOK, NEW r \in Requests
  PROVE  (IF serving = None THEN <<>> ELSE <<serving>>) \o Append(queue, r)
           = Append(Line, r)
BY DEF Line, TypeOK

\* What a request counts as, by where its handler is.
LEMMA Statuses ==
  ASSUME NEW r
  PROVE  /\ pc[r] \in {"idle", "putting"} => StatusOf(r) = "new"
         /\ pc[r] \in {"queued"} \cup InFlight => StatusOf(r) = "open"
         /\ pc[r] \in {"dropped", "orphan"} => StatusOf(r) = "dropped"
         /\ pc[r] = "ok" => StatusOf(r) = "ok"
         /\ pc[r] = "failed" => StatusOf(r) = "failed"
BY DEF StatusOf, InFlight

LEMMA StatusesAfter ==
  ASSUME NEW r
  PROVE  /\ pc'[r] \in {"idle", "putting"} => StatusOf(r)' = "new"
         /\ pc'[r] \in {"queued"} \cup InFlight => StatusOf(r)' = "open"
         /\ pc'[r] \in {"dropped", "orphan"} => StatusOf(r)' = "dropped"
         /\ pc'[r] = "ok" => StatusOf(r)' = "ok"
         /\ pc'[r] = "failed" => StatusOf(r)' = "failed"
BY DEF StatusOf, InFlight

\* One request moves: what that does to the abstract variables.
LEMMA Moves ==
  ASSUME TypeOK, NEW r \in Requests, NEW p, pc' = [pc EXCEPT ![r] = p]
  PROVE  /\ Status' = [Status EXCEPT ![r] = StatusOf(r)']
         /\ pc'[r] = p
         /\ pc'[r] = "waiting" => Begun' = Begun \cup {r}
         /\ pc'[r] # "waiting" => Begun' = Begun \ {r}
<1>1. pc'[r] = p /\ \A q \in Requests : q # r => pc'[q] = pc[q]  BY DEF TypeOK
<1>2. \A q \in Requests : q # r => StatusOf(q)' = StatusOf(q)  BY <1>1 DEF StatusOf
<1>3. Status' = [Status EXCEPT ![r] = StatusOf(r)']  BY <1>2 DEF Status
<1> QED  BY <1>1, <1>3 DEF Begun

\* The line keeps still when the queue and the processor do.
LEMMA LineStill == ASSUME UNCHANGED <<queue, serving>> PROVE Line' = Line
BY DEF Line

\* The abstract service, its variables named.
LEMMA Abstract ==
  /\ Service!Init <=> Status = [r \in Requests |-> "new"] /\ Line = <<>> /\ Begun = {}
  /\ \A r : Service!Turn(r) <=>
       Status[r] = "open" /\ (r \in Lined => Line # <<>> /\ r = Head(Line))
  /\ UNCHANGED <<Status, Line, Begun>> => [Service!Next]_(Service!svars)
BY DEF Service!Init, Service!Turn, Service!svars, Status, Line, Begun, Lined

\* A request that is done, or fails, is the abstract one that succeeds or fails.
LEMMA FinishServes ==
  ASSUME TypeOK, Discipline, NEW r \in Requests, NEW ok \in BOOLEAN,
         pc[r] \in InFlight, ok => pc[r] = "waiting", Finish(r, ok), UNCHANGED queue
  PROVE  Service!Next
<1>1. pc' = [pc EXCEPT ![r] = IF ok THEN "ok" ELSE "failed"]  BY DEF Finish
<1>2. /\ Status' = [Status EXCEPT ![r] = StatusOf(r)'] /\ Begun' = Begun \ {r}
  <2>1. PICK p \in {"ok", "failed"} : pc' = [pc EXCEPT ![r] = p]  BY <1>1
  <2> QED  BY <2>1, Moves
<1>3. StatusOf(r)' = (IF ok THEN "ok" ELSE "failed")
  <2>1. pc'[r] = IF ok THEN "ok" ELSE "failed"  BY <1>1 DEF TypeOK
  <2> QED  BY <2>1, StatusesAfter
<1>4. Status[r] = "open" /\ (ok => r \in Begun)  BY Statuses DEF Status, Begun
<1>5. r \in Lined => Line # <<>> /\ r = Head(Line)
  <2> SUFFICES ASSUME r \in Lined PROVE Line # <<>> /\ r = Head(Line)  OBVIOUS
  <2>1. r = serving /\ serving # None  BY RunnerAssumption DEF Discipline
  <2> QED  BY <2>1, LineServing
<1>6. Line' = IF r \in Lined THEN Tail(Line) ELSE Line
  <2>1. CASE r \in Lined
    <3>1. r = serving /\ serving # None /\ serving' = None
      BY <2>1, RunnerAssumption DEF Discipline, Finish
    <3>2. Line' = queue  BY <3>1 DEF Line, TypeOK
    <3> QED  BY <2>1, <3>1, <3>2, LineServing
  <2>2. CASE r \notin Lined
    <3>1. r # serving  BY <2>2 DEF Discipline
    <3> QED  BY <2>2, <3>1, LineStill DEF Finish
  <2> QED  BY <2>1, <2>2
<1>7. CASE ok
  <2>1. Service!Succeed(r)
    BY <1>2, <1>3, <1>4, <1>5, <1>6, <1>7
    DEF Service!Succeed, Service!Turn, Status, Line, Begun, Lined
  <2> QED  BY <2>1 DEF Service!Next
<1>8. CASE ~ok
  <2>1. Service!Fail(r)
    BY <1>2, <1>3, <1>4, <1>5, <1>6, <1>8
    DEF Service!Fail, Service!Turn, Status, Line, Begun, Lined
  <2> QED  BY <2>1 DEF Service!Next
<1> QED  BY <1>7, <1>8

\* A request that is handed in.
LEMMA SubmitServes ==
  ASSUME TypeOK, NEW r \in Requests, NEW p \in {"queued", "sending"},
         pc[r] \in {"idle", "putting"}, pc' = [pc EXCEPT ![r] = p], UNCHANGED serving,
         queue' = IF r \in Lined THEN Append(queue, r) ELSE queue
  PROVE  Service!Next
<1>1. Status' = [Status EXCEPT ![r] = StatusOf(r)'] /\ Begun' = Begun \ {r}  BY Moves
<1>2. pc'[r] = p  BY DEF TypeOK
<1>3. StatusOf(r)' = "open"  BY <1>2, StatusesAfter DEF InFlight
<1>4. Status[r] = "new" /\ r \notin Begun  BY Statuses DEF Status, Begun
<1>5. Line' = IF r \in Lined THEN Append(Line, r) ELSE Line
  BY LineAppend DEF Line
<1>6. Service!Submit(r)
  BY <1>1, <1>3, <1>4, <1>5 DEF Service!Submit, Status, Line, Begun, Lined
<1> QED  BY <1>6 DEF Service!Next

\* Those that are dropped when the service stops or starts.
LEMMA DropServes ==
  ASSUME NEW S \in SUBSET Requests, \A i \in DOMAIN Line : Line[i] \in S,
         \A r \in S : StatusOf(r) \in {"new", "open"} /\ StatusOf(r)' = "dropped",
         \A r \in Requests \ S : StatusOf(r)' = StatusOf(r),
         Line' = <<>>, Begun' = Begun \ S
  PROVE  Service!Next
<1>1. Status' = [r \in Requests |-> IF r \in S THEN "dropped" ELSE Status[r]]
  BY DEF Status
<1>2. \A r \in S : Status[r] \in {"new", "open"}  BY DEF Status
<1>3. Service!Drop(S)
  BY <1>1, <1>2 DEF Service!Drop, Service!InLine, Status, Line, Begun
<1> QED  BY <1>3 DEF Service!Next

\* What leaves requests, queue and processor as they are, or only moves a request
\* from one place to another of the same status, is no step of the abstract service.
LEMMA Stutters ==
  ASSUME UNCHANGED <<pc, queue, serving>>
  PROVE  UNCHANGED <<Status, Line, Begun>>
BY DEF Status, Line, Begun, StatusOf

LEMMA StepServes ==
  ASSUME TypeOK, Discipline, [Next]_vars PROVE [Service!Next]_(Service!svars)
<1>1. ASSUME NEW r \in Requests, Route(r) PROVE [Service!Next]_(Service!svars)
  <2>1. pc[r] = "idle" /\ UNCHANGED running
    BY <1>1 DEF Route, PowerOn, PowerOff, SetPowerState, GetState
  <2>2. r \in Lined <=> ~(GetState(r) \/ r \in Fast)
    BY <1>1, RunnerAssumption
    DEF Lined, Route, PowerOn, PowerOff, SetPowerState, GetState, Power, Wants
  <2>3. CASE Begins(r) /\ r \notin Lined
    BY <2>1, <2>3, SubmitServes DEF Begins
  <2>4. CASE Enqueue(r) /\ r \in Lined
    <3>1. CASE Len(queue) < QueueSize
      BY <2>1, <2>4, <3>1, SubmitServes DEF Enqueue
    <3>2. CASE ~(Len(queue) < QueueSize)
      <4>1. pc' = [pc EXCEPT ![r] = "putting"] /\ UNCHANGED <<queue, serving>>
        BY <2>4, <3>2 DEF Enqueue
      <4>2. Status' = [Status EXCEPT ![r] = StatusOf(r)'] /\ Begun' = Begun \ {r}
        <5>1. pc'[r] = "putting"  BY <4>1 DEF TypeOK
        <5> QED  BY <4>1, <5>1, Moves
      <4>3. pc'[r] = "putting"  BY <4>1 DEF TypeOK
      <4>4. StatusOf(r)' = "new" /\ StatusOf(r) = "new"
        BY <2>1, <4>3, Statuses, StatusesAfter
      <4>5. Status' = Status /\ Begun' = Begun /\ Line' = Line
        BY <2>1, <4>1, <4>2, <4>4, LineStill DEF Status, Begun
      <4> QED  BY <4>5, Abstract
    <3> QED  BY <3>1, <3>2
  <2> QED  BY <1>1, <2>2, <2>3, <2>4 DEF Route, PowerOn, PowerOff, SetPowerState, GetState
<1>2. ASSUME NEW r \in Requests, Handler(r) PROVE [Service!Next]_(Service!svars)
  <2>1. CASE Put(r)
    <3>1. r \in Lined  BY <2>1 DEF Put, Discipline
    <3> QED  BY <2>1, <3>1, SubmitServes DEF Put
  <2>2. CASE Sends(r)
    <3>1. pc' = [pc EXCEPT ![r] = "waiting"] /\ UNCHANGED <<queue, serving>>
      BY <2>2 DEF Sends
    <3>2. Status' = [Status EXCEPT ![r] = StatusOf(r)'] /\ Begun' = Begun \cup {r}
      BY <3>1, Moves
    <3>3. pc'[r] = "waiting" /\ pc[r] = "sending"  BY <2>2, <3>1 DEF Sends, TypeOK
    <3>4. StatusOf(r)' = "open" /\ StatusOf(r) = "open" /\ r \notin Begun
      BY <3>3, Statuses, StatusesAfter DEF InFlight, Begun
    <3>5. Status' = Status /\ Line' = Line  BY <3>1, <3>2, <3>4, LineStill DEF Status
    <3>6. r \in Lined => Line # <<>> /\ r = Head(Line)
      BY <3>3, LineServing, RunnerAssumption DEF Discipline, InFlight
    <3>7. Service!Begin(r)
      BY <3>2, <3>4, <3>5, <3>6
      DEF Service!Begin, Service!Turn, Status, Line, Begun, Lined
    <3> QED  BY <3>7 DEF Service!Next
  <2>3. CASE TimesOut(r)  BY <2>3, FinishServes DEF TimesOut, InFlight
  <2>4. CASE PowerAnswers(r)
    <3>1. Accepted(heard[r]) \in BOOLEAN  BY DEF Accepted
    <3> QED  BY <2>4, <3>1, FinishServes DEF PowerAnswers, InFlight
  <2>5. CASE QueryAnswers(r)
    <3>1. IsStatus(heard[r]) \in BOOLEAN  BY DEF IsStatus
    <3> QED  BY <2>5, <3>1, FinishServes DEF QueryAnswers, InFlight
  <2>6. ASSUME NEW left \in BOOLEAN, SendFails(r, left) PROVE Service!Next
    BY <2>6, FinishServes DEF SendFails, InFlight
  <2> QED  BY <1>2, <2>1, <2>2, <2>3, <2>4, <2>5, <2>6 DEF Handler
<1>3. ASSUME NEW r \in Requests, CallFails(r) PROVE [Service!Next]_(Service!svars)
  <2>1. pc' = [pc EXCEPT ![r] = "failed"] /\ UNCHANGED <<queue, serving>>
    BY <1>3 DEF CallFails
  <2>2. Status' = [Status EXCEPT ![r] = StatusOf(r)'] /\ Begun' = Begun \ {r}
    <3>1. pc'[r] = "failed"  BY <2>1 DEF TypeOK
    <3> QED  BY <2>1, <3>1, Moves
  <2>3. pc'[r] = "failed" /\ pc[r] = "idle"  BY <1>3, <2>1 DEF CallFails, TypeOK
  <2>4. StatusOf(r)' = "failed" /\ StatusOf(r) = "new" /\ Begun' = Begun /\ Line' = Line
    BY <2>1, <2>2, <2>3, Statuses, StatusesAfter, LineStill DEF Begun
  <2>5. Service!Refuse(r)
    BY <2>2, <2>4 DEF Service!Refuse, Status, Line, Begun, Lined
  <2> QED  BY <2>5 DEF Service!Next
<1>4. CASE ProcessOne
  <2>0. PICK r \in Requests : r = Head(queue)
    BY <1>4, HeadTailProperties DEF ProcessOne, TypeOK
  <2>1. queue # <<>> /\ serving = None /\ serving' = r  BY <1>4, <2>0 DEF ProcessOne
  <2>2. pc' = [pc EXCEPT ![r] = "sending"] /\ queue' = Tail(queue)  BY <1>4, <2>0 DEF ProcessOne
  <2>3. Status' = [Status EXCEPT ![r] = StatusOf(r)'] /\ Begun' = Begun \ {r}
    <3>1. pc'[r] = "sending"  BY <2>2 DEF TypeOK
    <3> QED  BY <2>2, <3>1, Moves
  <2>4. pc'[r] = "sending" /\ pc[r] = "queued"
    <3>1. 1 \in DOMAIN queue /\ r = queue[1]
      BY <2>0, <2>1, LenProperties, EmptySeq DEF TypeOK
    <3> QED  BY <2>1, <2>2, <3>1 DEF TypeOK, Discipline
  <2>5. StatusOf(r)' = "open" /\ StatusOf(r) = "open"
    BY <2>4, Statuses, StatusesAfter DEF InFlight
  <2>6. Line' = Line
    <3>1. Line' = <<r>> \o Tail(queue)  BY <2>1, <2>2, RunnerAssumption DEF Line
    <3>2. <<r>> \o Tail(queue) = queue  BY <2>0, <2>1 DEF TypeOK
    <3> QED  BY <2>1, <3>1, <3>2, LineFree
  <2>7. Status' = Status /\ Begun' = Begun  BY <2>1, <2>3, <2>4, <2>5 DEF Status, Begun
  <2> QED  BY <2>6, <2>7, Abstract
<1>5. CASE Shutdown
  <2>1. serving' = None /\ queue' = <<>>  BY <1>5 DEF Shutdown, StopProcessor, ClearQueue
  <2>2. PICK S \in SUBSET Requests : S = {r \in Requests : r = serving \/ r \in Range(queue)}
    OBVIOUS
  <2>3. \A r \in S : pc[r] \in {"queued"} \cup InFlight /\ pc'[r] \in {"dropped", "orphan"}
    BY <1>5, <2>2 DEF Shutdown, ClearQueue, Discipline, Range
  <2>4. \A r \in Requests \ S : pc'[r] = pc[r]
    BY <1>5, <2>2 DEF Shutdown, ClearQueue
  <2>5. \A r \in S : StatusOf(r) \in {"new", "open"} /\ StatusOf(r)' = "dropped"
    BY <2>3, Statuses, StatusesAfter
  <2>6. \A r \in Requests \ S : StatusOf(r)' = StatusOf(r)  BY <2>4 DEF StatusOf
  <2>7. Begun' = Begun \ S  BY <2>3, <2>4 DEF Begun
  <2>8. Line' = <<>>  BY <2>1, EmptySeq, ConcatEmptySeq DEF Line
  <2>9. \A i \in DOMAIN Line : Line[i] \in S
    <3> SUFFICES ASSUME NEW i \in DOMAIN Line PROVE Line[i] \in S  OBVIOUS
    <3>1. (Line[i] = serving /\ serving # None) \/ Line[i] \in Range(queue)
      BY DEF Line, Range, TypeOK
    <3>2. Range(queue) \subseteq Requests  BY DEF Range, TypeOK
    <3> QED  BY <2>2, <3>1, <3>2 DEF TypeOK
  <2> QED  BY <2>5, <2>6, <2>7, <2>8, <2>9, DropServes
<1>6. CASE Start
  <2>1. serving = None /\ serving' = None /\ queue' = <<>>
    BY <1>6 DEF Start, Discipline
  <2>2. PICK S \in SUBSET Requests : S = {r \in Requests : pc[r] \in Unfinished}
    OBVIOUS
  <2>3. \A r \in S : pc'[r] = "dropped" /\ pc[r] \in {"putting", "queued"} \cup InFlight
    BY <1>6, <2>2 DEF Start, Unfinished
  <2>4. \A r \in Requests \ S : pc'[r] = pc[r] \/ (pc'[r] = "dropped" /\ pc[r] = "orphan")
    <3> SUFFICES ASSUME NEW r \in Requests, pc[r] \notin Unfinished
                 PROVE  pc'[r] = pc[r] \/ (pc'[r] = "dropped" /\ pc[r] = "orphan")
      BY <2>2
    <3> QED  BY <1>6 DEF Start
  <2>5. \A r \in S : StatusOf(r) \in {"new", "open"} /\ StatusOf(r)' = "dropped"
    BY <2>3, Statuses, StatusesAfter
  <2>6. \A r \in Requests \ S : StatusOf(r)' = StatusOf(r)
    BY <2>4, Statuses, StatusesAfter DEF StatusOf
  <2>7. Begun' = Begun \ S  BY <2>2, <2>3, <2>4 DEF Begun
  <2>8. Line' = <<>>  BY <2>1, EmptySeq, ConcatEmptySeq DEF Line
  <2>9. \A i \in DOMAIN Line : Line[i] \in S
    BY <2>1, <2>2, LineFree, ElementOfSeq, LenProperties DEF Discipline, TypeOK, Unfinished
  <2> QED  BY <2>5, <2>6, <2>7, <2>8, <2>9, DropServes
<1>7. ASSUME UNCHANGED runner \/ UNCHANGED <<pc, queue, serving>>
      PROVE  [Service!Next]_(Service!svars)
  BY <1>7, Stutters, Abstract DEF runner
<1>8. CASE (\E m \in Messages : DatagramReceived(m)) \/ Network \/ UNCHANGED vars
  BY <1>7, <1>8
  DEF DatagramReceived, Network, StripObeys, StripRefuses, Broadcast, vars, runner
<1> QED  BY <1>1, <1>2, <1>3, <1>4, <1>5, <1>6, <1>8 DEF Next

\* The runner implements the abstract service: commands are served from the queue in
\* their order and one at a time, nothing succeeds that was not sent, and a request
\* has one answer at most (queue_processor.py, command_queue.py, connection.py).
THEOREM ServesInOrderCorrect == Spec => ServesInOrder
<1>1. Init => Service!Init
  <2> SUFFICES ASSUME Init PROVE Service!Init  OBVIOUS
  <2>1. \A r \in Requests : pc[r] = "idle"  BY DEF Init
  <2>2. Status = [r \in Requests |-> "new"]  BY <2>1, Statuses DEF Status
  <2>3. Begun = {}  BY <2>1 DEF Begun
  <2>4. Line = <<>>  BY EmptySeq, ConcatEmptySeq DEF Line, Init
  <2> QED  BY <2>2, <2>3, <2>4, Abstract
<1>2. ASSUME TypeOK, Discipline, [Next]_vars PROVE [Service!Next]_(Service!svars)
  BY <1>2, StepServes
<1> QED  BY <1>1, <1>2, InvCorrect, PTL DEF Spec, Inv, ServesInOrder, Service!Spec

-----------------------------------------------------------------------------
(* Nobody waits for a result that nobody will give                         *)

\* The safety half of RequestsEnd.  A command whose handler waits for its turn is in
\* the queue; the processor serves only what is on its way, which its time-out ends;
\* and a handler whose future was abandoned by a shutdown waits no longer than the
\* process lives.
NobodyForgotten ==
  /\ \A r \in Requests : pc[r] = "queued" => \E i \in DOMAIN queue : queue[i] = r
  /\ serving # None => pc[serving] \in InFlight
  /\ \A r \in Requests : pc[r] = "orphan" => ~running

\* The part of it that Discipline does not have.
Held == /\ \A r \in Requests : pc[r] = "queued" => \E i \in DOMAIN queue : queue[i] = r
        /\ \A r \in Requests : pc[r] = "orphan" => ~running

LEMMA AppendHeld ==
  ASSUME TypeOK, Held, NEW r \in Requests, pc' = [pc EXCEPT ![r] = "queued"],
         queue' = Append(queue, r), UNCHANGED running
  PROVE  Held'
<1>1. /\ DOMAIN queue' = 1..(Len(queue) + 1) /\ DOMAIN queue = 1..Len(queue)
      /\ Len(queue) \in Nat /\ queue'[Len(queue) + 1] = r
      /\ \A i \in DOMAIN queue : queue'[i] = queue[i] /\ i \in DOMAIN queue'
  BY DEF TypeOK
<1>2. Len(queue) + 1 \in DOMAIN queue'  BY <1>1
<1>3. pc'[r] = "queued" /\ \A q \in Requests : q # r => pc'[q] = pc[q]  BY DEF TypeOK
<1>4. ASSUME NEW q \in Requests, pc'[q] = "queued" PROVE \E i \in DOMAIN queue' : queue'[i] = q
  <2>1. CASE q = r  BY <1>1, <1>2, <2>1
  <2>2. CASE q # r  BY <1>1, <1>3, <1>4, <2>2 DEF Held
  <2> QED  BY <2>1, <2>2
<1>5. \A q \in Requests : pc'[q] = "orphan" => ~running'  BY <1>3 DEF Held
<1> QED  BY <1>4, <1>5 DEF Held

LEMMA OtherHeld ==
  ASSUME TypeOK, Held, NEW r \in Requests, NEW p, p \notin {"queued", "orphan"},
         pc' = [pc EXCEPT ![r] = p], UNCHANGED <<queue, running>>
  PROVE  Held'
BY DEF Held, TypeOK

LEMMA FinishHeld ==
  ASSUME TypeOK, Held, NEW r \in Requests, NEW ok \in BOOLEAN, Finish(r, ok),
         UNCHANGED <<queue, running>>
  PROVE  Held'
<1>1. PICK p \in {"ok", "failed"} : pc' = [pc EXCEPT ![r] = p]  BY DEF Finish
<1> QED  BY <1>1, OtherHeld

LEMMA HandlerHeld ==
  ASSUME TypeOK, Held, NEW r \in Requests, Route(r) \/ Handler(r) \/ CallFails(r)
  PROVE  Held'
<1>1. CASE Route(r)
  <2>1. CASE Begins(r)
    BY <1>1, <2>1, OtherHeld
    DEF Route, PowerOn, PowerOff, SetPowerState, GetState, Begins
  <2>2. CASE Enqueue(r)
    <3>1. UNCHANGED running  BY <1>1 DEF Route, PowerOn, PowerOff, SetPowerState, GetState
    <3>2. CASE Len(queue) < QueueSize  BY <2>2, <3>1, <3>2, AppendHeld DEF Enqueue
    <3>3. CASE ~(Len(queue) < QueueSize)  BY <2>2, <3>1, <3>3, OtherHeld DEF Enqueue
    <3> QED  BY <3>2, <3>3
  <2> QED  BY <1>1, <2>1, <2>2 DEF Route, PowerOn, PowerOff, SetPowerState, GetState
<1>2. CASE Put(r)  BY <1>2, AppendHeld DEF Put
<1>3. CASE Sends(r)  BY <1>3, OtherHeld DEF Sends
<1>4. CASE TimesOut(r)  BY <1>4, FinishHeld DEF TimesOut
<1>5. CASE PowerAnswers(r)  BY <1>5, FinishHeld DEF PowerAnswers, Accepted
<1>6. CASE QueryAnswers(r)
  <2>1. IsStatus(heard[r]) \in BOOLEAN  BY DEF IsStatus
  <2> QED  BY <1>6, <2>1, FinishHeld DEF QueryAnswers
<1>7. ASSUME NEW left \in BOOLEAN, SendFails(r, left) PROVE Held'
  BY <1>7, FinishHeld DEF SendFails
<1>8. CASE CallFails(r)  BY <1>8, OtherHeld DEF CallFails
<1> QED  BY <1>1, <1>2, <1>3, <1>4, <1>5, <1>6, <1>7, <1>8 DEF Handler

LEMMA ProcessOneHeld ==
  ASSUME TypeOK, Held, ProcessOne PROVE Held'
<1> DEFINE r == Head(queue)
<1>1. /\ r \in Requests /\ r = queue[1] /\ Len(queue) \in Nat \ {0}
      /\ DOMAIN queue = 1..Len(queue) /\ DOMAIN queue' = 1..(Len(queue) - 1)
      /\ \A i \in DOMAIN queue' : queue'[i] = queue[i + 1]
  BY HeadTailProperties, LenProperties, EmptySeq DEF ProcessOne, TypeOK
<1>2. pc' = [pc EXCEPT ![r] = "sending"] /\ UNCHANGED running  BY DEF ProcessOne
<1> HIDE DEF r
<1>3. ASSUME NEW q \in Requests, pc'[q] = "queued" PROVE \E i \in DOMAIN queue' : queue'[i] = q
  <2>1. q # r /\ pc[q] = "queued"  BY <1>1, <1>2, <1>3 DEF TypeOK
  <2>2. PICK i \in DOMAIN queue : queue[i] = q  BY <2>1 DEF Held
  <2>3. i # 1  BY <1>1, <2>1, <2>2
  <2>4. i - 1 \in DOMAIN queue' /\ (i - 1) + 1 = i  BY <1>1, <2>2, <2>3
  <2> QED  BY <1>1, <2>2, <2>4
<1>4. \A q \in Requests : pc'[q] = "orphan" => ~running'  BY <1>2 DEF Held, TypeOK
<1> QED  BY <1>3, <1>4 DEF Held

LEMMA NextHeld == ASSUME TypeOK, Held, [Next]_vars PROVE Held'
<1>1. CASE Shutdown
  <2>1. ~running' /\ queue' = <<>>  BY <1>1 DEF Shutdown, ClearQueue
  <2>2. ASSUME NEW q \in Requests PROVE pc'[q] # "queued"
    <3>1. pc[q] = "queued" => q \in Range(queue)  BY DEF Held, Range
    <3> QED  BY <1>1, <3>1 DEF Shutdown, ClearQueue
  <2> QED  BY <2>1, <2>2 DEF Held
<1>2. CASE Start
  BY <1>2 DEF Start, Held, Unfinished
<1>3. ASSUME UNCHANGED <<pc, queue, running>> PROVE Held'  BY <1>3 DEF Held
<1>4. CASE (\E m \in Messages : DatagramReceived(m)) \/ Network \/ UNCHANGED vars
  BY <1>3, <1>4
  DEF DatagramReceived, Network, StripObeys, StripRefuses, Broadcast, vars, runner
<1> QED  BY <1>1, <1>2, <1>4, HandlerHeld, ProcessOneHeld DEF Next

\* No request waits for a queue it has fallen out of, or for a processor that has
\* lost it, whoever fills the queue, times out or stops the service meanwhile
\* (command_queue.py, queue_processor.py).
THEOREM NobodyForgottenCorrect == Spec => []NobodyForgotten
<1>1. Init => Held  BY DEF Init, Held
<1>2. TypeOK /\ Discipline /\ Held => NobodyForgotten
  BY DEF Discipline, Held, NobodyForgotten, TypeOK
<1> QED  BY <1>1, <1>2, InvCorrect, NextHeld, PTL DEF Spec, Inv
=============================================================================
