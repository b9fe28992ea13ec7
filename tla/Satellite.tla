------------------------------ MODULE Satellite ------------------------------
(***************************************************************************)
(* One satellite relay: the server's satellite manager and its two         *)
(* WebSocket endpoints (services/satellite_manager.py, api/satellite.py),  *)
(* the daemon that runs at the remote site                                 *)
(* (satellite-daemon/satellite_daemon/ws_client.py), the callers that send *)
(* device commands through it (devices/satellite_router.py) and the        *)
(* administrators who approve, reject and revoke it.                       *)
(*                                                                         *)
(* A connection of the daemon is a socket: a link and two message queues.  *)
(* The server runs one handler task per socket, which learns of the loss   *)
(* of its link some time after the daemon does, or before.  The manager's  *)
(* lock is held across an await while a connection is replaced, and while  *)
(* an approval looks in the database for what nobody waits for any more.   *)
(***************************************************************************)
EXTENDS Naturals, Sequences, SequencesExt

CONSTANTS
  Sockets,    \* connections of the daemon that may have traces at the same time
  Commands,   \* device commands sent through the satellite, each once
  Admins,     \* administrators' requests that may be in progress at once
  None,
  MaxDrops,   \* bound on links that break
  MaxChores   \* bound on approvals, rejections and revocations

ASSUME SatelliteAssumption ==
  /\ None \notin Sockets \cup Commands \cup Admins /\ Sockets \cap Admins = {}
  /\ MaxDrops \in Nat /\ MaxChores \in Nat

VARIABLES
  link,         \* per socket: up, closed in order, or dropped
  down, up,     \* per socket: messages to the daemon, results to the server
  handler,      \* per socket: the await its endpoint is suspended in
  connections,  \* _connections[satellite_id]: the socket registered, or None
  pending,      \* _pending_satellites[api_key_hash]: the socket, or None
  record,       \* the satellites row exists, with status approved
  lock,         \* whose handler or request holds the manager's lock
  admin, target,          \* per administrator: the await, the socket captured
  dpc, sock, known, doing, \* the daemon: await, socket, is_approved, command
  caller, via,  \* per command: the await of send_command, its connection
  future,       \* per command: how its future was completed
  registered,   \* _pending_commands
  sent, executed, \* the commands in the order of sending, and of taking effect
  strayed,      \* those the daemon gave up while they were under way
  drops, chores

sockets == <<link, down, up>>
server == <<handler, connections, pending, record, lock>>
admins == <<admin, target>>
daemon == <<dpc, sock, known, doing>>
callers == <<caller, via, future, registered, sent>>
devices == <<executed, strayed>>
bounds == <<drops, chores>>
vars == <<sockets, server, admins, daemon, callers, devices, bounds>>

HandlerPC == {"none", "hello", "pend", "announce", "waiting", "auth", "checked",
              "replacing", "confirm", "loop", "cleanup"}
AdminPC == {"idle", "search", "insert", "notify", "clear", "tell", "pop", "delete"}
DaemonPC == {"idle", "onboarding", "joining", "loop", "busy"}

Message(k) == [kind |-> k, cmd |-> None]
Messages == [kind : {"pending", "approved", "rejected", "error", "connected"}, cmd : {None}]
              \cup [kind : {"command"}, cmd : Commands]
Results == [cmd : Commands, ok : BOOLEAN]

TypeOK ==
  /\ link \in [Sockets -> {"up", "closed", "dropped"}]
  /\ down \in [Sockets -> Seq(Messages)] /\ up \in [Sockets -> Seq(Results)]
  /\ handler \in [Sockets -> HandlerPC]
  /\ connections \in Sockets \cup {None} /\ pending \in Sockets \cup {None}
  /\ record \in BOOLEAN
  /\ lock \in Sockets \cup Admins \cup {None}
  /\ admin \in [Admins -> AdminPC] /\ target \in [Admins -> Sockets \cup {None}]
  /\ dpc \in DaemonPC /\ sock \in Sockets \cup {None}
  /\ known \in BOOLEAN /\ doing \in Commands \cup {None}
  /\ caller \in [Commands -> {"new", "queued", "wait", "done"}]
  /\ via \in [Commands -> Sockets \cup {None}]
  /\ future \in [Commands -> {"none", "ok", "failed"}]
  /\ registered \subseteq Commands
  /\ sent \in Seq(Commands) /\ executed \in Seq(Commands) /\ strayed \subseteq Commands
  /\ drops \in 0..MaxDrops /\ chores \in 0..MaxChores

Init ==
  /\ link = [w \in Sockets |-> "closed"]
  /\ down = [w \in Sockets |-> <<>>] /\ up = [w \in Sockets |-> <<>>]
  /\ handler = [w \in Sockets |-> "none"]
  /\ connections = None /\ pending = None /\ record = FALSE /\ lock = None
  /\ admin = [a \in Admins |-> "idle"] /\ target = [a \in Admins |-> None]
  /\ dpc = "idle" /\ sock = None /\ known = FALSE /\ doing = None
  /\ caller = [c \in Commands |-> "new"] /\ via = [c \in Commands |-> None]
  /\ future = [c \in Commands |-> "none"]
  /\ registered = {} /\ sent = <<>> /\ executed = <<>> /\ strayed = {}
  /\ drops = 0 /\ chores = 0

-----------------------------------------------------------------------------
(* Sockets                                                                 *)

\* Nothing refers to the socket any more.
Unused(w) ==
  /\ handler[w] = "none" /\ sock # w /\ pending # w /\ connections # w
  /\ \A a \in Admins : target[a] # w
  /\ \A c \in Commands : via[c] # w

\* send_json: what is sent over a broken link is lost.
Post(w, m) == down' = IF link[w] = "up" THEN [down EXCEPT ![w] = Append(@, m)] ELSE down

\* The server closes: the daemon still reads what was sent before.
Close(w) ==
  /\ link' = [link EXCEPT ![w] = IF @ = "up" THEN "closed" ELSE @]
  /\ up' = [up EXCEPT ![w] = <<>>]

Goto(w, p) == handler' = [handler EXCEPT ![w] = p]

-----------------------------------------------------------------------------
(* The onboarding endpoint                                                 *)

\* The row is looked up; an approved satellite is told so.
Hello(w) ==
  /\ handler[w] = "hello"
  /\ IF record
     THEN Post(w, Message("approved")) /\ Close(w) /\ Goto(w, "none")
     ELSE Goto(w, "pend") /\ UNCHANGED sockets
  /\ UNCHANGED <<connections, pending, record, lock, admins, daemon, callers,
                 devices, bounds>>

Pend(w) ==
  /\ handler[w] = "pend" /\ lock = None
  /\ pending' = w
  /\ Goto(w, "announce")
  /\ UNCHANGED <<sockets, connections, record, lock, admins, daemon, callers,
                 devices, bounds>>

Announce(w) ==
  /\ handler[w] = "announce"
  /\ Post(w, Message("pending"))
  /\ Goto(w, IF link[w] = "closed" THEN "none" ELSE "waiting")
  /\ UNCHANGED <<link, up, connections, pending, record, lock, admins, daemon,
                 callers, devices, bounds>>

\* Neither endpoint leaves a trace of a peer it loses before the registration;
\* a pending entry stays.
HandlerGone(w) ==
  /\ handler[w] \in {"hello", "waiting", "auth"} /\ link[w] # "up"
  /\ Goto(w, "none")
  /\ UNCHANGED <<sockets, connections, pending, record, lock, admins, daemon,
                 callers, devices, bounds>>

-----------------------------------------------------------------------------
(* The main endpoint                                                       *)

Auth(w) ==
  /\ handler[w] = "auth"
  /\ IF record
     THEN Goto(w, "checked") /\ UNCHANGED sockets
     ELSE Post(w, Message("error")) /\ Close(w) /\ Goto(w, "none")
  /\ UNCHANGED <<connections, pending, record, lock, admins, daemon, callers,
                 devices, bounds>>

\* A connection that is still registered is closed first, under the lock.
Connect(w) ==
  /\ handler[w] = "checked" /\ lock = None
  /\ IF connections = None
     THEN /\ connections' = w
          /\ Goto(w, "confirm")
          /\ UNCHANGED <<link, up, lock>>
     ELSE /\ Close(connections)
          /\ lock' = w
          /\ Goto(w, "replacing")
          /\ UNCHANGED connections
  /\ UNCHANGED <<down, pending, record, admins, daemon, callers, devices, bounds>>

\* mutant: the lock is kept when a connection was replaced
KeepsLock(w) ==
  /\ handler[w] = "replacing"
  /\ connections' = w
  /\ Goto(w, "confirm")
  /\ UNCHANGED <<sockets, pending, record, lock, admins, daemon, callers, devices, bounds>>

Replace(w) ==
  /\ handler[w] = "replacing"
  /\ connections' = w
  /\ lock' = None
  /\ Goto(w, "confirm")
  /\ UNCHANGED <<sockets, pending, record, admins, daemon, callers, devices, bounds>>

Confirm(w) ==
  /\ handler[w] = "confirm"
  /\ Post(w, Message("connected"))
  /\ Goto(w, IF link[w] = "closed" THEN "cleanup" ELSE "loop")
  /\ UNCHANGED <<link, up, connections, pending, record, lock, admins, daemon,
                 callers, devices, bounds>>

\* mutant: a result completes a command that waits, not the one it names
ResolvesAny(w) ==
  /\ handler[w] = "loop" /\ up[w] # <<>> /\ lock = None
  /\ future' = [c \in Commands |->
                  IF c \in registered /\ future[c] = "none"
                  THEN IF Head(up[w]).ok THEN "ok" ELSE "failed" ELSE future[c]]
  /\ up' = [up EXCEPT ![w] = Tail(@)]
  /\ UNCHANGED <<link, down, server, admins, daemon, caller, via, registered, sent,
                 devices, bounds>>

HandleResult(w) ==
  /\ handler[w] = "loop" /\ up[w] # <<>> /\ lock = None
  /\ LET r == Head(up[w]) IN
       future' = IF r.cmd \in registered /\ future[r.cmd] = "none"
                 THEN [future EXCEPT ![r.cmd] = IF r.ok THEN "ok" ELSE "failed"]
                 ELSE future
  /\ up' = [up EXCEPT ![w] = Tail(@)]
  /\ UNCHANGED <<link, down, server, admins, daemon, caller, via, registered, sent,
                 devices, bounds>>

\* mutant: a lost connection is not taken off the books
NoCleanup(w) ==
  /\ handler[w] = "loop" /\ link[w] # "up"
  /\ Goto(w, "none")
  /\ UNCHANGED <<sockets, connections, pending, record, lock, admins, daemon,
                 callers, devices, bounds>>

HandlerNotices(w) ==
  /\ handler[w] = "loop" /\ link[w] # "up"
  /\ Goto(w, "cleanup")
  /\ UNCHANGED <<sockets, connections, pending, record, lock, admins, daemon,
                 callers, devices, bounds>>

\* disconnect(satellite_id): whatever connection is registered is removed.
Disconnect(w) ==
  /\ handler[w] = "cleanup" /\ lock = None
  /\ connections' = None
  /\ Goto(w, "none")
  /\ UNCHANGED <<sockets, pending, record, lock, admins, daemon, callers, devices,
                 bounds>>

-----------------------------------------------------------------------------
(* Administrators                                                          *)

AdminGoto(a, p, w) ==
  /\ admin' = [admin EXCEPT ![a] = p]
  /\ target' = [target EXCEPT ![a] = w]

Chore(a) == admin[a] = "idle" /\ chores < MaxChores /\ chores' = chores + 1

Approve(a) ==
  /\ Chore(a) /\ lock = None /\ pending # None
  /\ AdminGoto(a, "insert", pending)
  /\ UNCHANGED <<sockets, server, daemon, callers, devices, drops>>

\* Nobody is pending: a row with status pending is looked for, under the lock, and
\* there is none, for nothing writes one.
ApproveSearch(a) ==
  /\ Chore(a) /\ lock = None /\ pending = None
  /\ lock' = a
  /\ AdminGoto(a, "search", None)
  /\ UNCHANGED <<sockets, handler, connections, pending, record, daemon, callers,
                 devices, drops>>

ApproveNothing(a) ==
  /\ admin[a] = "search"
  /\ lock' = None
  /\ AdminGoto(a, "idle", None)
  /\ UNCHANGED <<sockets, handler, connections, pending, record, daemon, callers,
                 devices, bounds>>

\* api_key_hash is unique: a second insert fails, and the request with it.
ApproveInsert(a) ==
  /\ admin[a] = "insert"
  /\ record' = TRUE
  /\ IF record THEN AdminGoto(a, "idle", None) ELSE AdminGoto(a, "notify", target[a])
  /\ UNCHANGED <<sockets, handler, connections, pending, lock, daemon, callers,
                 devices, bounds>>

ApproveNotify(a) ==
  /\ admin[a] = "notify"
  /\ Post(target[a], Message("approved"))
  /\ AdminGoto(a, "clear", None)
  /\ UNCHANGED <<link, up, server, daemon, callers, devices, bounds>>

ApproveClear(a) ==
  /\ admin[a] = "clear" /\ lock = None
  /\ pending' = None
  /\ AdminGoto(a, "idle", None)
  /\ UNCHANGED <<sockets, handler, connections, record, lock, daemon, callers,
                 devices, bounds>>

Reject(a) ==
  /\ Chore(a) /\ lock = None /\ pending # None
  /\ AdminGoto(a, "tell", pending)
  /\ pending' = None
  /\ UNCHANGED <<sockets, handler, connections, record, lock, daemon, callers,
                 devices, drops>>

RejectTell(a) ==
  /\ admin[a] = "tell"
  /\ Post(target[a], Message("rejected")) /\ Close(target[a])
  /\ AdminGoto(a, "idle", None)
  /\ UNCHANGED <<server, daemon, callers, devices, bounds>>

Revoke(a) ==
  /\ Chore(a) /\ record
  /\ IF connections = None
     THEN AdminGoto(a, "delete", None) /\ UNCHANGED <<link, up>>
     ELSE AdminGoto(a, "pop", None) /\ Close(connections)
  /\ UNCHANGED <<down, server, daemon, callers, devices, drops>>

RevokePop(a) ==
  /\ admin[a] = "pop" /\ lock = None
  /\ connections' = None
  /\ AdminGoto(a, "delete", None)
  /\ UNCHANGED <<sockets, handler, pending, record, lock, daemon, callers, devices,
                 bounds>>

RevokeDelete(a) ==
  /\ admin[a] = "delete"
  /\ record' = FALSE
  /\ AdminGoto(a, "idle", None)
  /\ UNCHANGED <<sockets, handler, connections, pending, lock, daemon, callers,
                 devices, bounds>>

-----------------------------------------------------------------------------
(* The daemon                                                              *)

DaemonOpens ==
  /\ dpc = "idle" /\ \E w \in Sockets : Unused(w)
  /\ LET w == CHOOSE w \in Sockets : Unused(w) IN
       /\ link' = [link EXCEPT ![w] = "up"]
       /\ down' = [down EXCEPT ![w] = <<>>] /\ up' = [up EXCEPT ![w] = <<>>]
       /\ sock' = w
       /\ Goto(w, IF known THEN "auth" ELSE "hello")
  /\ dpc' = IF known THEN "joining" ELSE "onboarding"
  /\ UNCHANGED <<connections, pending, record, lock, admins, known, doing, callers,
                 devices, bounds>>

\* `async with websockets.connect` closes the connection it leaves.
DaemonLeaves ==
  /\ link' = [link EXCEPT ![sock] = IF @ = "up" THEN "closed" ELSE @]
  /\ down' = [down EXCEPT ![sock] = <<>>]
  /\ dpc' = "idle" /\ sock' = None

DaemonReads(k) == down[sock] # <<>> /\ Head(down[sock]).kind = k

Pop == down' = [down EXCEPT ![sock] = Tail(@)]

DaemonOnboarding ==
  /\ dpc = "onboarding"
  /\ \/ DaemonReads("approved") /\ DaemonLeaves /\ known' = TRUE
     \/ DaemonReads("rejected") /\ DaemonLeaves /\ UNCHANGED known
     \/ DaemonReads("pending") /\ Pop /\ UNCHANGED <<link, dpc, sock, known>>
  /\ UNCHANGED <<up, server, admins, doing, callers, devices, bounds>>

\* Anything but "connected" ends the attempt, a command that overtook it too.
DaemonJoining ==
  /\ dpc = "joining"
  /\ \/ DaemonReads("connected") /\ Pop /\ dpc' = "loop" /\ UNCHANGED <<link, sock, known>>
     \/ DaemonReads("error") /\ DaemonLeaves /\ known' = FALSE
     \/ DaemonReads("command") /\ DaemonLeaves /\ UNCHANGED known
  /\ UNCHANGED <<up, server, admins, doing, callers, devices, bounds>>

\* mutant: commands are taken from the wrong end of the queue
TakesNewest ==
  /\ dpc = "loop" /\ DaemonReads("command")
  /\ down' = [down EXCEPT ![sock] = Front(@)]
  /\ doing' = Last(down[sock]).cmd
  /\ dpc' = "busy"
  /\ UNCHANGED <<link, up, server, admins, sock, known, callers, devices, bounds>>

DaemonTakes ==
  /\ dpc = "loop" /\ DaemonReads("command")
  /\ Pop
  /\ doing' = Head(down[sock]).cmd
  /\ dpc' = "busy"
  /\ UNCHANGED <<link, up, server, admins, sock, known, callers, devices, bounds>>

\* The device obeys or not, or the daemon gives the command up while it is still
\* under way: a failure says nothing about it.  A result that cannot be sent is
\* dropped.
DaemonDoes ==
  /\ dpc = "busy"
  /\ \E ok \in BOOLEAN :
       /\ \/ executed' = Append(executed, doing) /\ UNCHANGED strayed
          \/ ~ok /\ UNCHANGED devices
          \/ ~ok /\ strayed' = strayed \cup {doing} /\ UNCHANGED executed
       /\ up' = IF link[sock] = "up"
                THEN [up EXCEPT ![sock] = Append(@, [cmd |-> doing, ok |-> ok])] ELSE up
  /\ dpc' = "loop" /\ doing' = None
  /\ UNCHANGED <<link, down, server, admins, sock, known, callers, bounds>>

\* A time-out cancels the wait for a shell command and not its process, which may
\* get its work done at any time later, or never.
StrayEnds(c) ==
  /\ c \in strayed \ ToSet(executed)
  /\ executed' = Append(executed, c)
  /\ UNCHANGED <<sockets, server, admins, daemon, callers, strayed, bounds>>

\* mutant: the loss of a connection is noticed in the message loop only
NoticesInLoop ==
  /\ dpc = "loop"
  /\ link[sock] # "up" /\ down[sock] = <<>>
  /\ dpc' = "idle" /\ sock' = None
  /\ UNCHANGED <<sockets, server, admins, known, doing, callers, devices, bounds>>

DaemonNotices ==
  /\ dpc \in {"onboarding", "joining", "loop"}
  /\ link[sock] # "up" /\ down[sock] = <<>>
  /\ dpc' = "idle" /\ sock' = None
  /\ UNCHANGED <<sockets, server, admins, known, doing, callers, devices, bounds>>

\* The network fails; what is under way is lost.
Drop(w) ==
  /\ link[w] = "up" /\ drops < MaxDrops
  /\ drops' = drops + 1
  /\ link' = [link EXCEPT ![w] = "dropped"]
  /\ down' = [down EXCEPT ![w] = <<>>] /\ up' = [up EXCEPT ![w] = <<>>]
  /\ UNCHANGED <<server, admins, daemon, callers, devices, chores>>

-----------------------------------------------------------------------------
(* send_command                                                            *)

Complete(c, r) == future' = [future EXCEPT ![c] = IF @ = "none" THEN r ELSE @]

NotConnected(c) ==
  /\ caller[c] = "new" /\ connections = None
  /\ caller' = [caller EXCEPT ![c] = "done"]
  /\ Complete(c, "failed")
  /\ UNCHANGED <<sockets, server, admins, daemon, via, registered, sent, devices, bounds>>

Look(c) ==
  /\ caller[c] = "new" /\ connections # None
  /\ caller' = [caller EXCEPT ![c] = "queued"]
  /\ via' = [via EXCEPT ![c] = connections]
  /\ UNCHANGED <<sockets, server, admins, daemon, future, registered, sent, devices,
                 bounds>>

\* The command is registered under the lock, then sent over the connection
\* found before; sending over a closed one raises, over a dropped one it may.
Send(c) ==
  /\ caller[c] = "queued" /\ lock = None
  /\ caller' = [caller EXCEPT ![c] = "wait"]
  /\ via' = [via EXCEPT ![c] = None]
  /\ registered' = registered \cup {c}
  /\ sent' = Append(sent, c)
  /\ Post(via[c], [kind |-> "command", cmd |-> c])
  /\ \/ link[via[c]] # "closed" /\ UNCHANGED future
     \/ link[via[c]] # "up" /\ Complete(c, "failed")
  /\ UNCHANGED <<link, up, server, admins, daemon, devices, bounds>>

Timeout(c) ==
  /\ caller[c] = "wait" /\ future[c] = "none"
  /\ Complete(c, "failed")
  /\ UNCHANGED <<sockets, server, admins, daemon, caller, via, registered, sent,
                 devices, bounds>>

Return(c) ==
  /\ caller[c] = "wait" /\ future[c] # "none" /\ lock = None
  /\ caller' = [caller EXCEPT ![c] = "done"]
  /\ registered' = registered \ {c}
  /\ UNCHANGED <<sockets, server, admins, daemon, via, future, sent, devices, bounds>>

-----------------------------------------------------------------------------
HandlerStep(w) ==
  \/ Hello(w) \/ Pend(w) \/ Announce(w) \/ HandlerGone(w)
  \/ Auth(w) \/ Connect(w) \/ Replace(w) \/ Confirm(w)
  \/ HandleResult(w) \/ HandlerNotices(w) \/ Disconnect(w)

AdminStep(a) ==
  \/ ApproveNothing(a) \/ ApproveInsert(a) \/ ApproveNotify(a) \/ ApproveClear(a)
  \/ RejectTell(a) \/ RevokePop(a) \/ RevokeDelete(a)

DaemonStep ==
  \/ DaemonOpens \/ DaemonOnboarding \/ DaemonJoining
  \/ DaemonTakes \/ DaemonDoes \/ DaemonNotices

CallerStep(c) == Send(c) \/ Timeout(c) \/ Return(c)

Next ==
  \/ \E w \in Sockets : HandlerStep(w) \/ Drop(w)
  \/ \E a \in Admins : Approve(a) \/ ApproveSearch(a) \/ Reject(a) \/ Revoke(a) \/ AdminStep(a)
  \/ DaemonStep
  \/ \E c \in Commands : StrayEnds(c)
  \/ \E c \in Commands : NotConnected(c) \/ Look(c) \/ CallerStep(c)

Spec == Init /\ [][Next]_vars

\* Tasks go on, the daemon reconnects, a closed or dropped link is noticed in the
\* end (keepalive pings of both WebSocket libraries) and a command times out;
\* nobody has to approve, to send or to break anything.
Fairness ==
  /\ \A w \in Sockets : WF_vars(HandlerStep(w))
  /\ \A a \in Admins : WF_vars(AdminStep(a))
  /\ WF_vars(DaemonStep)
  /\ \A c \in Commands : WF_vars(CallerStep(c))

FairSpec == Spec /\ Fairness

-----------------------------------------------------------------------------
(* Properties                                                              *)

Before(s, x, y) ==
  \E i, j \in DOMAIN s : i < j /\ s[i] = x /\ s[j] = y

(* A command reported as done was done, by the device it was sent for: late
   results, results of commands that timed out and reconnections never
   complete another caller's future. *)
SuccessWasExecuted ==
  \A c \in Commands : future[c] = "ok" => c \in ToSet(executed)

(* The relay keeps the order of commands, over reconnections and the server's
   time-outs: an ON takes effect after an OFF that was sent after it only if it
   ran into the daemon's own time-out, which leaves its process running. *)
OrderKept ==
  \A c, d \in Commands :
    Before(executed, d, c) /\ Before(sent, c, d) => c \in strayed

\* The abstract service of the relay.  A command whose connection was found but that
\* has not been sent yet is still a new one.
StatusOf(c) ==
  IF future[c] # "none" THEN future[c]
  ELSE IF caller[c] = "wait" THEN "open" ELSE "new"

Relay == INSTANCE RelayService WITH status <- [c \in Commands |-> StatusOf(c)]

(* The relay implements it: no command takes effect or is answered twice, none is
   started before an older one, and only one the daemon gave up takes effect out
   of turn and is then never reported as done, whatever connections are lost,
   replaced and revoked in between, and however late a result arrives. *)
Relays == Relay!Spec

(* A registered connection has a handler that will take it off the books:
   is_connected does not stay true for a satellite that is gone. *)
NoDanglingConnection ==
  connections # None => handler[connections] \in {"confirm", "loop", "cleanup"}

(* What a daemon finds in its queue is what it waits for; and as long as its
   link is up and the queue empty, a handler at the other end will send it
   something or take its results: no refusal, replacement or race at the lock
   leaves it waiting for nobody. *)
WaitsFor(kinds, handlers) ==
  /\ down[sock] # <<>> => Head(down[sock]).kind \in kinds
  /\ link[sock] = "up" /\ down[sock] = <<>> => handler[sock] \in handlers
DaemonServed ==
  /\ dpc = "onboarding" => WaitsFor({"approved", "rejected", "pending"},
                                    {"hello", "pend", "announce", "waiting"})
  /\ dpc = "joining" => WaitsFor({"connected", "error", "command"},
                                 {"auth", "checked", "replacing", "confirm"})
  /\ dpc \in {"loop", "busy"} => WaitsFor({"command"}, {"loop"})

(* The lock is held by a handler or a request that gives it back with its next step. *)
LockOwned ==
  /\ \A w \in Sockets : lock = w <=> handler[w] = "replacing"
  /\ \A a \in Admins : lock = a <=> admin[a] = "search"

(* Whoever waits for the other end or for the lock, waits for somebody who goes on. *)
NobodyStranded == NoDanglingConnection /\ DaemonServed /\ LockOwned

(* Every send_command returns. *)
CommandsReturn == \A c \in Commands : caller[c] = "queued" ~> caller[c] = "done"

(* An approved daemon gets back into its message loop after every loss of a
   connection: "Main run loop with automatic reconnection" (ws_client.py:30). *)
KnownReconnects == known /\ record ~> dpc \in {"loop", "busy"} \/ ~known \/ ~record
=============================================================================
