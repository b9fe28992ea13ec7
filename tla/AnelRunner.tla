----------------------------- MODULE AnelRunner -----------------------------
(***************************************************************************)
(* The ANEL runner (anel_runner/), a process of its own that switches the  *)
(* outlets of power strips over UDP for those who call it over HTTP.       *)
(*                                                                         *)
(* A strip answers a command or a query with its status, and sends the     *)
(* same status by itself now and then.  All arrive on one socket; nothing  *)
(* in them says which request they answer.  Datagrams overtake each other, *)
(* and those that are lost stay on the network for ever or never get there.*)
(*                                                                         *)
(* The runner is one asyncio event loop; an action is the code between two *)
(* awaits that suspend.  The locks of the connection and of the cache are  *)
(* never held across one and have no variable.  A strip has one outlet,    *)
(* and a request is one HTTP call; its handler goes on when the caller has *)
(* given up.                                                               *)
(***************************************************************************)
EXTENDS Naturals, Sequences, FiniteSets, Functions

CONSTANTS
  Strips,
  Requests,
  Strip   ,     \* the strip a request is about, its host
  Want   ,      \* what it asks for: a route of the API
  Fast,         \* the commands with fast_lane
  Named,        \* <<h, s>>: the address of h is a substring of the status of s,
                \* as 10.0.0.1 is of 10.0.0.12
  None,
  QueueSize,    \* capacity of the queue; 1000 in the code
  MaxAir,       \* bound on the messages of one strip on the network at once
  MaxRestarts

Power == {"on", "off"}
Wants == Power \cup {"query"}

ASSUME RunnerAssumption ==
  /\ Strip \in [Requests -> Strips] /\ Want \in [Requests -> Wants]
  /\ Fast \subseteq {r \in Requests : Want[r] \in Power}
  /\ Named \subseteq Strips \X Strips
  /\ None \notin Requests
  /\ QueueSize \in Nat \ {0} /\ MaxAir \in Nat /\ MaxRestarts \in Nat

States == {"on", "off"}
\* A message that is no status: "refused", as after a wrong password, or "brief", one
\* that bears an OK or begins like a status and tells no state.
Messages == [from : Strips, state : States \cup {"refused", "brief"}]

VARIABLES
  outlet,    \* per strip: whether its outlet is on
  down, up,  \* requests and messages on the network
  running,   \* the service, between its start and its shutdown
  pc,        \* per request: where its handler is
  heard,     \* per request on its way: response_data[0]
  pending,   \* per strip: the request with the entry in _pending_responses
  queue,     \* CommandQueue._queue
  serving,   \* the command the queue processor executes
  cache,     \* per strip: _device_states
  restarts

world == <<outlet, down, up>>
runner == <<running, pc, heard, pending, queue, serving, cache>>
vars == <<world, runner, restarts>>

InFlight == {"sending", "waiting"}
Unfinished == {"putting", "queued"} \cup InFlight
PCs == {"idle", "ok", "failed", "dropped", "orphan"} \cup Unfinished

TypeOK ==
  /\ outlet \in [Strips -> States]
  /\ down \subseteq Requests /\ up \subseteq Messages
  /\ running \in BOOLEAN
  /\ pc \in [Requests -> PCs]
  /\ heard \in [Requests -> Messages \cup {None}]
  /\ pending \in [Strips -> Requests \cup {None}]
  /\ queue \in Seq(Requests) /\ Len(queue) <= QueueSize
  /\ serving \in Requests \cup {None}
  /\ cache \in [Strips -> States \cup {"unknown"}]
  /\ restarts \in 0..MaxRestarts

Init ==
  /\ outlet = [s \in Strips |-> "off"] /\ down = {} /\ up = {}
  /\ running = TRUE
  /\ pc = [r \in Requests |-> "idle"]
  /\ heard = [r \in Requests |-> None]
  /\ pending = [s \in Strips |-> None]
  /\ queue = <<>> /\ serving = None
  /\ cache = [s \in Strips |-> "unknown"]
  /\ restarts = 0

-----------------------------------------------------------------------------
(* Pieces of the handlers                                                  *)

\* mutant: the entry stays behind
UnregisterNot(r) == pending

\* _pending_responses.pop(host): the entry of whoever has it by now.
Unregister(r) == [pending EXCEPT ![Strip[r]] = None]

\* parse_status_response
IsStatus(m) == m.state \in States

\* mutant: only the first status of a strip is kept
CachedFirst(m) ==
  IF IsStatus(m) /\ cache[m.from] = "unknown"
  THEN [cache EXCEPT ![m.from] = m.state] ELSE cache

\* The cache after a message, which bears the address of its strip.
Cached(m) == IF IsStatus(m) THEN [cache EXCEPT ![m.from] = m.state] ELSE cache

\* The queue processor, or the handler itself, is done with the request.
Finish(r, ok) ==
  /\ pc' = [pc EXCEPT ![r] = IF ok THEN "ok" ELSE "failed"]
  /\ heard' = [heard EXCEPT ![r] = None]
  /\ pending' = Unregister(r)
  /\ serving' = IF serving = r THEN None ELSE serving

-----------------------------------------------------------------------------
(* The routes of the API                                                   *)

\* The request takes the entry of its strip, whoever has it, and its datagram is
\* handed to a thread.
Begins(r) ==
  /\ pc' = [pc EXCEPT ![r] = "sending"]
  /\ pending' = [pending EXCEPT ![Strip[r]] = r]
  /\ UNCHANGED <<queue, serving>>

\* CommandQueue.queue_command: a full queue makes the handler wait.
Enqueue(r) ==
  /\ IF Len(queue) < QueueSize
     THEN pc' = [pc EXCEPT ![r] = "queued"] /\ queue' = Append(queue, r)
     ELSE pc' = [pc EXCEPT ![r] = "putting"] /\ UNCHANGED queue
  /\ UNCHANGED <<pending, serving>>

SetPowerState(r) ==
  /\ pc[r] = "idle" /\ running
  /\ IF r \in Fast THEN Begins(r) ELSE Enqueue(r)
  /\ UNCHANGED <<world, running, heard, cache, restarts>>

PowerOn(r) == Want[r] = "on" /\ SetPowerState(r)
PowerOff(r) == Want[r] = "off" /\ SetPowerState(r)

\* Queries of the state or of everything about a strip, which never go through the
\* queue.
GetState(r) ==
  /\ Want[r] = "query" /\ pc[r] = "idle" /\ running
  /\ Begins(r)
  /\ UNCHANGED <<world, running, heard, cache, restarts>>

\* ANELShutdownError, or nobody listens.
CallFails(r) ==
  /\ pc[r] = "idle" /\ ~running
  /\ pc' = [pc EXCEPT ![r] = "failed"]
  /\ UNCHANGED <<world, running, heard, pending, queue, serving, cache, restarts>>

\* A place in the queue is free again.
Put(r) ==
  /\ pc[r] = "putting" /\ Len(queue) < QueueSize
  /\ queue' = Append(queue, r)
  /\ pc' = [pc EXCEPT ![r] = "queued"]
  /\ UNCHANGED <<world, running, heard, pending, serving, cache, restarts>>

-----------------------------------------------------------------------------
(* The queue processor                                                     *)

\* mutant: the processor does not wait for the command it has begun
ProcessOneMore ==
  /\ running /\ queue # <<>>
  /\ LET r == Head(queue) IN
     /\ pc' = [pc EXCEPT ![r] = "sending"]
     /\ pending' = [pending EXCEPT ![Strip[r]] = r]
     /\ serving' = r
  /\ queue' = Tail(queue)
  /\ UNCHANGED <<world, running, heard, cache, restarts>>

ProcessOne ==
  /\ running /\ serving = None /\ queue # <<>>
  /\ LET r == Head(queue) IN
     /\ pc' = [pc EXCEPT ![r] = "sending"]
     /\ pending' = [pending EXCEPT ![Strip[r]] = r]
     /\ serving' = r
  /\ queue' = Tail(queue)
  /\ UNCHANGED <<world, running, heard, cache, restarts>>

-----------------------------------------------------------------------------
(* send_and_receive                                                        *)

Sends(r) ==
  /\ pc[r] = "sending"
  /\ pc' = [pc EXCEPT ![r] = "waiting"]
  /\ down' = down \cup {r}
  /\ UNCHANGED <<outlet, up, running, heard, pending, queue, serving, cache, restarts>>

\* The socket fails or its time-out strikes; the datagram may have left.
SendFails(r, left) ==
  /\ pc[r] = "sending"
  /\ Finish(r, FALSE)
  /\ down' = IF left THEN down \cup {r} ELSE down
  /\ UNCHANGED <<outlet, up, running, queue, cache, restarts>>

\* mutant: the wait is not bounded for a request that has lost its entry
TimesOutIfOwn(r) ==
  /\ pc[r] = "waiting" /\ pending[Strip[r]] = r
  /\ Finish(r, FALSE)
  /\ UNCHANGED <<world, running, queue, cache, restarts>>

\* The time-out may win against an answer that has come.
TimesOut(r) ==
  /\ pc[r] = "waiting"
  /\ Finish(r, FALSE)
  /\ UNCHANGED <<world, running, queue, cache, restarts>>

\* parse_command_response: any status counts as the answer to a command, and so does
\* what parse_status_response makes nothing of.
Accepted(m) == m.state # "refused"

PowerAnswers(r) ==
  /\ pc[r] = "waiting" /\ heard[r] # None /\ Want[r] \in Power
  /\ Finish(r, Accepted(heard[r]))
  /\ UNCHANGED <<world, running, queue, cache, restarts>>

\* A query also writes what it heard into the cache.  The address the message
\* bears is not compared with the one that was asked.
QueryAnswers(r) ==
  /\ pc[r] = "waiting" /\ heard[r] # None /\ Want[r] \notin Power
  /\ Finish(r, IsStatus(heard[r]))
  /\ cache' = Cached(heard[r])
  /\ UNCHANGED <<world, running, queue, restarts>>

-----------------------------------------------------------------------------
(* Messages of the strips                                                  *)

\* The message is the strip's, or the address of the strip is found in it.
Matches(s, m) == pending[s] # None /\ (s = m.from \/ <<s, m.from>> \in Named)

\* The event of one entry that matches is set: the oldest, a matter the model leaves
\* open.  Later messages are appended to response_data, and the first is used.
Hears(m) ==
  IF \E s \in Strips : Matches(s, m)
  THEN \E s \in Strips :
         /\ Matches(s, m)
         /\ heard' = [heard EXCEPT ![pending[s]] = IF @ = None THEN m ELSE @]
  ELSE UNCHANGED heard

\* Also every status goes into the cache, by a task that runs at once.
DatagramReceived(m) ==
  /\ m \in up /\ up' = up \ {m}
  /\ IF running THEN Hears(m) /\ cache' = Cached(m)
     ELSE UNCHANGED <<heard, cache>>
  /\ UNCHANGED <<outlet, down, running, pc, pending, queue, serving, restarts>>

-----------------------------------------------------------------------------
(* Strips and network                                                      *)

\* The message is on its way, or lost.
Emits(m) ==
  \/ UNCHANGED up
  \/ /\ Cardinality({n \in up \cup {m} : n.from = m.from}) <= MaxAir
     /\ up' = up \cup {m}

\* The strip obeys and sends its status, or a command a brief answer, or refuses the
\* password.
StripObeys(r) ==
  /\ r \in down /\ down' = down \ {r}
  /\ LET now == IF Want[r] \in Power THEN Want[r] ELSE outlet[Strip[r]] IN
     /\ outlet' = [outlet EXCEPT ![Strip[r]] = now]
     /\ \E said \in IF Want[r] \in Power THEN {now, "brief"} ELSE {now} :
          Emits([from |-> Strip[r], state |-> said])
  /\ UNCHANGED <<runner, restarts>>

StripRefuses(r) ==
  /\ r \in down /\ down' = down \ {r} /\ Want[r] \in Power
  /\ Emits([from |-> Strip[r], state |-> "refused"])
  /\ UNCHANGED <<outlet, runner, restarts>>

Broadcast(s) ==
  /\ Emits([from |-> s, state |-> outlet[s]])
  /\ UNCHANGED <<outlet, down, runner, restarts>>

-----------------------------------------------------------------------------
(* Shutdown and start                                                      *)

\* The processor's task is cancelled, and with it the command it executes: nothing
\* resolves the future the handler waits for.
StopProcessor ==
  /\ heard' = IF serving = None THEN heard ELSE [heard EXCEPT ![serving] = None]
  /\ pending' = IF serving = None THEN pending ELSE Unregister(serving)
  /\ serving' = None

\* The futures of the commands in the queue are cancelled.
ClearQueue ==
  /\ pc' = [r \in Requests |-> IF r = serving THEN "orphan"
                               ELSE IF r \in Range(queue) THEN "dropped" ELSE pc[r]]
  /\ queue' = <<>>

\* ANELService.shutdown.  A handler that waited for a place in the queue gets it now.
Shutdown ==
  /\ running /\ restarts < MaxRestarts
  /\ running' = FALSE /\ restarts' = restarts + 1
  /\ StopProcessor /\ ClearQueue
  /\ UNCHANGED <<world, cache>>

\* The process starts again, with a service that knows nothing.
Start ==
  /\ ~running
  /\ running' = TRUE
  /\ pc' = [r \in Requests |-> IF pc[r] \in Unfinished \cup {"orphan"} THEN "dropped" ELSE pc[r]]
  /\ heard' = [r \in Requests |-> None]
  /\ pending' = [s \in Strips |-> None] /\ queue' = <<>>
  /\ cache' = [s \in Strips |-> "unknown"]
  /\ UNCHANGED <<world, serving, restarts>>

-----------------------------------------------------------------------------
Route(r) == PowerOn(r) \/ PowerOff(r) \/ GetState(r)
Handler(r) == \/ Put(r) \/ Sends(r) \/ TimesOut(r) \/ PowerAnswers(r) \/ QueryAnswers(r)
              \/ \E left \in BOOLEAN : SendFails(r, left)
Network == \/ \E r \in Requests : StripObeys(r) \/ StripRefuses(r)
           \/ \E s \in Strips : Broadcast(s)

Next ==
  \/ \E r \in Requests : Route(r) \/ Handler(r) \/ CallFails(r)
  \/ ProcessOne
  \/ \E m \in Messages : DatagramReceived(m)
  \/ Network
  \/ Shutdown \/ Start

Spec == Init /\ [][Next]_vars

\* Time-outs strike, the loop runs, a stopped service is started again.  A strip
\* sends its status again and again, and of what it sends some arrives.
Fairness ==
  /\ \A r \in Requests : WF_vars(Handler(r))
  /\ WF_vars(ProcessOne) /\ WF_vars(Start)
  /\ \A s \in Strips : WF_vars(Broadcast(s))
                         /\ WF_vars(\E m \in Messages : m.from = s /\ DatagramReceived(m))
FairSpec == Spec /\ Fairness

-----------------------------------------------------------------------------
(* Properties                                                              *)

\* Every entry of _pending_responses belongs to a request that is on its way to that
\* strip: none of the ways a request ends leaves one behind, which would take the
\* answer to a later request.
PendingInFlight ==
  \A s \in Strips : pending[s] # None =>
    pc[pending[s]] \in InFlight /\ Strip[pending[s]] = s

\* What a request is told comes from its strip, or from one whose status holds the
\* address of its strip: a message never answers a request it does not match.
AnswerNamesHost ==
  \A r \in Requests : heard[r] # None =>
    \/ heard[r].from = Strip[r] \/ <<Strip[r], heard[r].from>> \in Named

\* The abstract service this one implements.  A handler that waits for a free place
\* has not submitted yet; one whose command was cancelled with the queue processor
\* counts as dropped, though it waits on.
StatusOf(r) ==
  CASE pc[r] \in {"idle", "putting"} -> "new"
    [] pc[r] \in {"queued"} \cup InFlight -> "open"
    [] pc[r] \in {"dropped", "orphan"} -> "dropped"
    [] pc[r] \in {"ok", "failed"} -> pc[r]

Service == INSTANCE PowerService WITH
  Lined <- {r \in Requests : Want[r] \in Power} \ Fast,
  status <- [r \in Requests |-> StatusOf(r)],
  line <- (IF serving = None THEN <<>> ELSE <<serving>>) \o queue,
  begun <- {r \in Requests : pc[r] = "waiting"}

\* Commands are served from the queue in their order and one at a time, nothing
\* succeeds that was not sent, and every request has one answer at most, whatever
\* the network, the time-outs and the other requests do.
ServesInOrder == Service!Spec

\* Every request is answered, or dropped when the service stops: also one whose
\* entry another request took over, and one whose answer never comes.
RequestsEnd == Service!Served

\* The cache comes to show the state of every strip, although statuses overtake
\* each other and a query writes an older one over a newer.
CacheCatchesUp == \A s \in Strips : <>[](cache[s] = outlet[s])
=============================================================================
