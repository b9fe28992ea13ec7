----------------------------- MODULE EventStream -----------------------------
(***************************************************************************)
(* The event stream (services/sse_broadcaster.py): what the backend tells  *)
(* the open pages of the web frontend, and what a page shows of it: for an *)
(* artwork under protection whether it runs and whether its gate for       *)
(* triggers is open, for a device whether a command is being verified.     *)
(*                                                                         *)
(* The backend is one asyncio event loop; the lock of the broadcaster is   *)
(* never held across an await that suspends and has no variable.  A row of *)
(* the database is locked from its update to the end of the transaction.   *)
(* Events without a state of their own (heartbeat, forced off, satellites) *)
(* are left out: the page logs or counts them.  The answer to a request of *)
(* the page is one step.                                                   *)
(***************************************************************************)
EXTENDS Naturals, SequencesExt

CONSTANTS
  Clients,      \* open pages, each with the panels of its artworks open
  Artworks,     \* those under protection
  Devices,
  MaxEvents,    \* bound: changes that are told
  MaxBreaks,    \* bound: connections that break and restarts of the backend
  None

ASSUME Finite == IsFiniteSet(Artworks) /\ {MaxEvents, MaxBreaks} \subseteq Nat

VARIABLES
  gate,       \* artworks.accepting_triggers, as committed
  changes,    \* the open transactions that set gates
  running,    \* state["is_running"]
  stops,      \* per artwork: notify_stopped's that wait for the database
  fast,       \* _fast_poll_devices
  tasks,      \* the tasks that will broadcast for the state monitor
  conn,       \* per client: its connection
  queue,      \* per client: its asyncio.Queue in _clients, or what is left of it
  entry,      \* per client: the page's protectionStatus
  device,     \* per client: isVerifying in the page's deviceStatus
  fetched,    \* per client: the panel's fetchedStatus
  listed,     \* per client: devices whose poll_status.is_verifying holds in its list
  events, breaks,   \* counted for the bounds
  heard,      \* per client: what the last event about it reached, or will reach
  phantom     \* artworks whose last gate event told of a change that never was

db == <<gate, changes>>
backend == <<running, stops, fast, tasks>>
stream == <<conn, queue, heard>>
page == <<entry, device, fetched, listed>>
vars == <<db, backend, stream, page, events, breaks, phantom>>

Kinds == {"accepting_triggers_change", "protection_status"}
DeviceKinds == {"verification", "poll_complete"}
DeviceEvent == [type : DeviceKinds, of : Devices, value : BOOLEAN]
Event == [type : Kinds, of : Artworks, value : BOOLEAN] \cup DeviceEvent
About(e) == <<e.type, e.of>>
\* What a page shows, by the events that tell it; a poll tells of none of it.
Subjects == (Kinds \X Artworks) \cup ({"verification"} \X Devices)

Change == [of : SUBSET Artworks, to : BOOLEAN, announced : BOOLEAN]
\* What a page knows of an artwork; the gate may be missing in it.
Status == [running : BOOLEAN, gate : BOOLEAN \cup {None}]
ASSUME NoneIsOther == None \notin BOOLEAN \cup Status

TypeOK ==
  /\ gate \in [Artworks -> BOOLEAN] /\ changes \subseteq Change
  /\ running \in [Artworks -> BOOLEAN] /\ stops \in [Artworks -> Nat]
  /\ fast \subseteq Devices /\ tasks \in Seq(DeviceEvent)
  /\ conn \in [Clients -> {"closed", "opened", "subscribed"}]
  /\ queue \in [Clients -> Seq(Event)]
  /\ entry \in [Clients -> [Artworks -> Status \cup {None}]]
  /\ device \in [Clients -> [Devices -> BOOLEAN \cup {None}]]
  /\ fetched \in [Clients -> [Artworks -> Status \cup {None}]]
  /\ listed \in [Clients -> SUBSET Devices]
  /\ events \in 0..MaxEvents /\ breaks \in 0..MaxBreaks
  /\ heard \in [Clients -> SUBSET Subjects]
  /\ phantom \subseteq Artworks

Init ==
  /\ gate = [a \in Artworks |-> FALSE] /\ changes = {}
  /\ running = [a \in Artworks |-> FALSE] /\ stops = [a \in Artworks |-> 0]
  /\ fast = {} /\ tasks = <<>>
  /\ conn = [c \in Clients |-> "closed"] /\ queue = [c \in Clients |-> <<>>]
  /\ entry = [c \in Clients |-> [a \in Artworks |-> None]]
  /\ device = [c \in Clients |-> [d \in Devices |-> None]]
  /\ fetched = [c \in Clients |-> [a \in Artworks |-> None]]
  /\ listed = [c \in Clients |-> {}]
  /\ events = 0 /\ breaks = 0
  /\ heard = [c \in Clients |-> {}] /\ phantom = {}

-----------------------------------------------------------------------------
(* The broadcaster                                                         *)

\* Every queue in _clients gets the events; queues have no limit.
Broadcast(es) ==
  LET told == {About(es[i]) : i \in DOMAIN es} \cap Subjects IN
  /\ queue' = [c \in Clients |-> IF conn[c] = "subscribed" THEN queue[c] \o es ELSE queue[c]]
  /\ heard' = [c \in Clients |-> IF conn[c] = "subscribed" THEN heard[c] \cup told
                                 ELSE heard[c] \ told]
  /\ UNCHANGED conn

Quiet == events < MaxEvents /\ events' = events + 1

-----------------------------------------------------------------------------
(* The gate: CommandOrchestrator._update_accepting_triggers                *)

\* mutant: no row is locked, transactions overlap
UpdateGatesUnlocked(A, v) ==
  /\ changes' = changes \cup {[of |-> A, to |-> v, announced |-> FALSE]}
  /\ UNCHANGED <<gate, backend, stream, page, breaks, phantom>>

\* The UPDATE, which waits for the rows other transactions have updated.
UpdateGates(A, v) ==
  /\ \A t \in changes : t.of \cap A = {}
  /\ changes' = changes \cup {[of |-> A, to |-> v, announced |-> FALSE]}
  /\ UNCHANGED <<gate, backend, stream, page, breaks, phantom>>

\* The artworks of the target are read again, with those that came to it after the
\* UPDATE: an event for each, before the commit.
Announce(t) ==
  /\ ~t.announced
  /\ changes' = (changes \ {t}) \cup {[t EXCEPT !.announced = TRUE]}
  /\ \E A \in SUBSET Artworks :
       /\ t.of \subseteq A
       /\ LET as == SetToSeq(A) IN
          Broadcast([i \in DOMAIN as |->
                       [type |-> "accepting_triggers_change", of |-> as[i], value |-> t.to]])
       /\ phantom' = (phantom \ t.of) \cup (A \ t.of)
  /\ UNCHANGED <<gate, backend, page, events, breaks>>

CommitGates(t) ==
  /\ t.announced
  /\ changes' = changes \ {t}
  /\ gate' = [a \in Artworks |-> IF a \in t.of THEN t.to ELSE gate[a]]
  /\ UNCHANGED <<backend, stream, page, events, breaks, phantom>>

\* The database fails; the error is logged.
RollbackGates(t) ==
  /\ breaks < MaxBreaks /\ breaks' = breaks + 1
  /\ changes' = changes \ {t}
  /\ phantom' = IF t.announced THEN phantom \cup t.of ELSE phantom
  /\ UNCHANGED <<gate, backend, stream, page, events>>

-----------------------------------------------------------------------------
(* The protection service                                                  *)

\* _broadcast_status of a service whose is_running is r: the status is computed and
\* told at once, and holds nothing of the gate.
TellStatus(a, r) ==
  Broadcast(<<[type |-> "protection_status", of |-> a, value |-> r[a]]>>)

NotifyStarted(a) ==
  /\ ~running[a]
  /\ running' = [running EXCEPT ![a] = TRUE]
  /\ TellStatus(a, running')
  /\ UNCHANGED <<db, stops, fast, tasks, page, breaks, phantom>>

\* The state changes before it is saved, which others see.
NotifyStopped(a) ==
  /\ running[a]
  /\ running' = [running EXCEPT ![a] = FALSE]
  /\ stops' = [stops EXCEPT ![a] = @ + 1]
  /\ UNCHANGED <<db, fast, tasks, stream, page, breaks, phantom>>

\* mutant: the status is the one the artwork stopped with
StoppedTellsOff(a) ==
  /\ stops[a] > 0
  /\ stops' = [stops EXCEPT ![a] = @ - 1]
  /\ Broadcast(<<[type |-> "protection_status", of |-> a, value |-> FALSE]>>)
  /\ UNCHANGED <<db, running, fast, tasks, page, events, breaks, phantom>>

\* The end of notify_stopped: saved, and told as it is now.
StoppedTells(a) ==
  /\ stops[a] > 0
  /\ stops' = [stops EXCEPT ![a] = @ - 1]
  /\ TellStatus(a, running)
  /\ UNCHANGED <<db, running, fast, tasks, page, events, breaks, phantom>>

\* Told again: the end of a forced stop, the end of a cooldown.
TellAgain(a) ==
  /\ TellStatus(a, running)
  /\ UNCHANGED <<db, backend, page, breaks, phantom>>

-----------------------------------------------------------------------------
(* The state monitor, whose events are told by tasks of their own          *)

LaterTell(type, d, v) ==
  /\ tasks' = Append(tasks, [type |-> type, of |-> d, value |-> v])
  /\ UNCHANGED <<db, running, stops, stream, page, breaks, phantom>>

RegisterFastPoll(d) ==
  /\ fast' = fast \cup {d}
  /\ LaterTell("verification", d, TRUE)

UnregisterFastPoll(d) ==
  /\ d \in fast /\ fast' = fast \ {d}
  /\ LaterTell("verification", d, FALSE)

\* A poll has succeeded, failed or run into its time-out: a matter of display.
PollTells(d) ==
  /\ LaterTell("poll_complete", d, TRUE)
  /\ UNCHANGED fast

\* mutant: any task may run first
RunAnyTask ==
  \E i \in DOMAIN tasks :
    /\ tasks' = RemoveAt(tasks, i)
    /\ Broadcast(<<tasks[i]>>)
    /\ UNCHANGED <<db, running, stops, fast, page, events, breaks, phantom>>

\* The loop runs tasks in the order they were created.
RunTask ==
  /\ tasks # <<>> /\ tasks' = Tail(tasks)
  /\ Broadcast(<<Head(tasks)>>)
  /\ UNCHANGED <<db, running, stops, fast, page, events, breaks, phantom>>

-----------------------------------------------------------------------------
(* Connections                                                             *)

\* The page connects, for the first time or 5 s after an error.  "connected" is sent.
Open(c) ==
  /\ conn[c] = "closed" /\ conn' = [conn EXCEPT ![c] = "opened"]
  /\ UNCHANGED <<db, backend, queue, heard, page, events, breaks, phantom>>

\* The generator goes on when "connected" has been written, and only now adds its queue.
Subscribe(c) ==
  /\ conn[c] = "opened" /\ conn' = [conn EXCEPT ![c] = "subscribed"]
  /\ UNCHANGED <<db, backend, queue, heard, page, events, breaks, phantom>>

\* Of no use for those the connection loses: what is in the queue of the generator,
\* which goes when it notices.
Lost(c) == heard[c] \ {About(queue[c][i]) : i \in DOMAIN queue[c]}

Break(c) ==
  /\ conn[c] # "closed" /\ conn' = [conn EXCEPT ![c] = "closed"]
  /\ queue' = [queue EXCEPT ![c] = <<>>]
  /\ heard' = [heard EXCEPT ![c] = Lost(c)]
  /\ breaks < MaxBreaks /\ breaks' = breaks + 1
  /\ UNCHANGED <<db, backend, page, events, phantom>>

\* The backend restarts: open transactions are rolled back, fast polling is forgotten,
\* and of the runs the database knows what it was last told, which may be either.
Restart ==
  /\ breaks < MaxBreaks /\ breaks' = breaks + 1
  /\ changes' = {}
  /\ phantom' = phantom \cup UNION {t.of : t \in {u \in changes : u.announced}}
  /\ running' \in [Artworks -> BOOLEAN]
  /\ stops' = [a \in Artworks |-> 0] /\ fast' = {} /\ tasks' = <<>>
  /\ conn' = [c \in Clients |-> "closed"]
  /\ queue' = [c \in Clients |-> <<>>]
  /\ heard' = [c \in Clients |-> {}]
  /\ UNCHANGED <<gate, page, events>>

-----------------------------------------------------------------------------
(* The page: handleMessage                                                 *)

View(c) == [entry |-> entry[c], device |-> device[c]]

DeviceHandled(v, e) ==
  CASE e.type = "verification" ->
         IF e.value \/ v.device[e.of] # None THEN [v EXCEPT !.device[e.of] = e.value] ELSE v
    [] e.type = "poll_complete" ->
         IF v.device[e.of] = None THEN [v EXCEPT !.device[e.of] = FALSE] ELSE v

\* A status replaces the whole entry, and the gate goes with it; a gate needs an entry.
Handled(v, e) ==
  CASE e.type = "protection_status" ->
         [v EXCEPT !.entry[e.of] = [running |-> e.value, gate |-> None]]
    [] e.type = "accepting_triggers_change" ->
         IF v.entry[e.of] = None THEN v ELSE [v EXCEPT !.entry[e.of].gate = e.value]
    [] OTHER -> DeviceHandled(v, e)

Deliver(c) ==
  /\ conn[c] = "subscribed" /\ queue[c] # <<>>
  /\ queue' = [queue EXCEPT ![c] = Tail(@)]
  /\ LET v == Handled(View(c), Head(queue[c])) IN
     /\ entry' = [entry EXCEPT ![c] = v.entry]
     /\ device' = [device EXCEPT ![c] = v.device]
  /\ UNCHANGED <<db, backend, conn, heard, fetched, listed, events, breaks, phantom>>

\* mutant: the panel asks once
FetchOnce(c, a) ==
  /\ entry[c][a] = None /\ fetched[c][a] = None
  /\ fetched' = [fetched EXCEPT ![c][a] = [running |-> running[a], gate |-> gate[a]]]
  /\ UNCHANGED <<db, backend, stream, entry, device, listed, events, breaks, phantom>>

\* The panel asks for the protection status every 30 s, unless events told one.
Fetch(c, a) ==
  /\ entry[c][a] = None
  /\ fetched' = [fetched EXCEPT ![c][a] = [running |-> running[a], gate |-> gate[a]]]
  /\ UNCHANGED <<db, backend, stream, entry, device, listed, events, breaks, phantom>>

\* get_device_poll_status
PollStatus(d) == d \in fast

\* The page loads its list every 5 s.
LoadList(c) ==
  /\ listed' = [listed EXCEPT ![c] = {d \in Devices : PollStatus(d)}]
  /\ UNCHANGED <<db, backend, stream, entry, device, fetched, events, breaks, phantom>>

Panel(c, a) == IF entry[c][a] # None THEN entry[c][a] ELSE fetched[c][a]
Badge(c, d) == device[c][d] = TRUE \/ d \in listed[c]

-----------------------------------------------------------------------------
Changes ==
  /\ Quiet
  /\ \/ \E A \in (SUBSET Artworks) \ {{}}, v \in BOOLEAN : UpdateGates(A, v)
     \/ \E a \in Artworks : NotifyStarted(a) \/ NotifyStopped(a) \/ TellAgain(a)
     \/ \E d \in Devices : RegisterFastPoll(d) \/ UnregisterFastPoll(d) \/ PollTells(d)

Client(c) == \/ Open(c) \/ Subscribe(c) \/ Deliver(c) \/ LoadList(c)
             \/ \E a \in Artworks : Fetch(c, a)

Next ==
  \/ Changes
  \/ \E t \in changes : Announce(t) \/ CommitGates(t) \/ RollbackGates(t)
  \/ \E a \in Artworks : StoppedTells(a)
  \/ RunTask \/ Restart
  \/ \E c \in Clients : Client(c) \/ Break(c)

Spec == Init /\ [][Next]_vars

\* The database answers, the loop runs its tasks, and a page connects again and asks
\* again.  Nobody has to change anything.
Fairness ==
  /\ WF_vars(\E t \in changes : Announce(t) \/ CommitGates(t))
  /\ \A a \in Artworks : WF_vars(StoppedTells(a))
  /\ WF_vars(RunTask)
  /\ \A c \in Clients :
       /\ WF_vars(Open(c)) /\ WF_vars(Subscribe(c)) /\ WF_vars(Deliver(c))
       /\ WF_vars(LoadList(c)) /\ \A a \in Artworks : WF_vars(Fetch(c, a))
FairSpec == Spec /\ Fairness

-----------------------------------------------------------------------------
(* Properties                                                              *)

\* No event of s is about x; the last one of s that is tells v.
Silent(s, x) == \A i \in DOMAIN s : About(s[i]) # x
Tells(s, x, v) ==
  \A i \in DOMAIN s :
    (About(s[i]) = x /\ \A k \in DOMAIN s : k > i => About(s[k]) # x) => s[i].value = v

\* What page c will show of x once its queue is empty: v, or already shown.
Reaches(c, x, v, shown) == Tells(queue[c], x, v) /\ (Silent(queue[c], x) => shown)

\* A gate an event has told a page is the one in the database, although events are
\* sent before the commit (_update_accepting_triggers): transactions that are open,
\* commits that failed, and artworks that came to a target too late, aside.
Settled(a) == a \notin phantom /\ \A t \in changes : t.announced => a \notin t.of
GateShown(c, a, v) == entry[c][a] # None => entry[c][a].gate \in {v, None}
GateReaches ==
  \A c \in Clients, a \in Artworks :
    LET x == <<"accepting_triggers_change", a>> IN
    x \in heard[c] /\ Settled(a) => Reaches(c, x, gate[a], GateShown(c, a, gate[a]))

\* A page which the last status event about an artwork reached will show whether it
\* runs, also when it was started while a stop was being saved (notify_stopped).
StatusShown(c, a) == entry[c][a] # None /\ entry[c][a].running = running[a]
StatusReaches ==
  \A c \in Clients, a \in Artworks :
    LET x == <<"protection_status", a>> IN
    x \in heard[c] /\ stops[a] = 0 => Reaches(c, x, running[a], StatusShown(c, a))

\* Likewise for the verification of a device, whose events later tasks tell
\* (StateMonitor._create_background_task).
VerificationReaches ==
  \A c \in Clients, d \in Devices :
    LET x == <<"verification", d>> IN
    x \in heard[c] /\ Silent(tasks, x) =>
      Reaches(c, x, d \in fast, (device[c][d] = TRUE) = (d \in fast))

\* In the end a page shows what runs and what is being verified, or it is a page that
\* holds an old event and whose connection missed the last one: after a break
\* it asks again only for what no event has ever told it.
RunShown(c, a) == Panel(c, a) # None /\ Panel(c, a).running = running[a]
RunMissed(c, a) == entry[c][a] # None /\ <<"protection_status", a>> \notin heard[c]
VerificationMissed(c, d) == device[c][d] = TRUE /\ <<"verification", d>> \notin heard[c]
PageCatchesUp ==
  \A c \in Clients :
    /\ \A a \in Artworks : <>[](RunShown(c, a) \/ RunMissed(c, a))
    /\ \A d \in Devices : <>[](Badge(c, d) = (d \in fast) \/ VerificationMissed(c, d))
=============================================================================
