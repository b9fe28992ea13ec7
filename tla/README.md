# Gallery Control: a TLA+ verification project

Gallery Control switches the projectors, power strips and computers of an
exhibition: from a web page, on a schedule, from motion sensors, through
satellites in remote networks. This directory holds TLA+ models of its backend
(`src/gallerycontrol/`), the TLC runs that check them, and TLAPS proofs.

## 1. The system

The backend is one Python process, a FastAPI application on one asyncio event
loop. Concurrency is cooperative: a task runs alone from one `await` that really
suspends (a database call, a device command, a lock, a sleep) to the next, and
anything may happen in between. That is the atomicity of the models here. `Inventory` is
coarser: there a handler that waits for nothing but the database is one action, unless what
it has checked can be stale when it commits, or it tells others before (section 3). Two
helper programs run beside it: the anel runner, which owns the UDP socket to the
power strips, and a satellite daemon per remote network.

| component | state it keeps | operations | who calls whom |
|---|---|---|---|
| protection service | per artwork: running, started_at, cooldown_until, usage per window, desired_state; a row in the database; a lock | sensor signal, notify started/stopped, enforcement loop, config reload | called by the sensor API, the orchestrator and the admin API; calls the orchestrator |
| command orchestrator | none of its own; the gate `accepting_triggers` in the database | execute a command on an exhibition, artwork or device | calls the protection service, the device managers, the verifier, the scheduler |
| command verifier | one verification task per device | verify, cancel, state reached, state deviated | started by the orchestrator, told by the state monitor, calls the device managers |
| state monitor | poll schedule, last states | poll loop, fast polls | calls device managers, writes device states, tells the verifier |
| scheduler | jobs in the database, next run times | check and execute, trigger, one-shots, circuit breaker | calls the orchestrator and maintenance tasks |
| satellites | connections, pending commands, approvals | onboard, approve, connect, disconnect, send command, result, heartbeat | called by the satellite API and the device managers |
| anel runner | command queue, pending UDP requests | enqueue, process, send, stop | called over HTTP by the anel device manager |
| device managers and cooldown | time of the last request per device | get state, set power | called by orchestrator, verifier, monitor |
| asset management | assets with a number and a history of lamp hours, the link of each projector to one | link, record, backfill, manual entries, delete; jobs that link, check and record | called by the admin and asset APIs, the scheduler and the orchestrator; reads projectors and the DNS |
| administration | the tables of exhibitions, artworks, devices and satellite assignments | create, change, move, delete, revoke; the protection rules | calls the protection service and the asset service |
| device cache | device information in the device rows | refresh by a job, clear on a change of host | scheduler, administration |
| event stream | one queue per connected page | subscribe, broadcast | called by the orchestrator, the protection service and the state monitor |
| web frontend | per page: what events, lists and requests have told it | connect, handle an event, poll | reads the event stream and the API |
| service health, durations, database wiring, displays | counters, none, connections, templates | record; parse; session; render | shared helpers |

### What is hard, and what makes each part correct

* **Protection.** Sensor requests, the enforcement loop and operators interleave at
  every await; only the first two take the artwork lock. Correct means: nobody
  else is inside the lock; no sensor ON during a cooldown; each second of runtime
  is charged once, to the right window; a restart neither gives budget back nor
  forgets a cooldown that was saved, although writes overtake each other; a run ends.
* **Orchestrator and verifier.** Corrections are sent in the background while newer
  commands arrive. Correct means: the newest command wins, and a verification that
  was cancelled sends nothing more.
* **State monitor.** A poll reads a device and writes later. Correct means: an old
  reading does not overwrite a newer state for good.
* **Scheduler.** A job may be due, triggered by hand and switched off at once.
  Correct means: a job runs once at a time, the loop runs a one-shot once, a circuit stops the
  retries of a failing job, a job that is due runs, a one-shot that was asked for is
  not lost.
* **Satellites.** Connections replace each other; answers are lost or late. Correct
  means: a live connection is registered, an answer reaches the command it answers,
  every command returns.
* **Anel runner.** One socket, many waiters, answers that are late or name somebody else.
  Correct means: queued commands are sent one at a time and in order, no entry of a
  finished request takes a later answer, every request ends, and the cache of states
  catches up.
* **Administration and assets.** Transactions wait for projectors, which takes seconds,
  with rows they have read before, while others move, relink or delete those rows; the
  protection service is told of a change before it is committed. Correct means: hours go
  to the asset of the projector they were read from, a history outlives its devices, the
  rules in force are those of the database once a request is through, a device gets a
  satellite it cannot reach only by ways that are known, and every projector is linked, read and cached in the end, whatever spoils a
  first attempt.
* **Event stream.** Events are sent before commits, after database calls and by later
  tasks, and connections lose some. Correct means: a page the last event reached shows the
  state of the backend.

## 2. Plan

Done, in this order of importance:

1. `Protection`, `ProtectionProofs`, `ProtectionAloneProofs`: the core, with the
   orchestrator's part in it; `RunLedger`, what it promises of runs, budget and cooldowns.
2. `Scheduler`, `SchedulerProofs`: jobs, one-shots, circuit breaker, manual triggers,
   restarts.
3. `Verifier`, `VerifierProofs`: orchestrator, verifier and state monitor around one
   device.
4. `Satellite`, `SatelliteProofs`: manager and daemon over an unreliable connection;
   `RelayService`, what they promise those who send commands.
5. `AnelRunner`, `AnelRunnerProofs`: queue, processor and the pending requests of one UDP
   socket; `PowerService`, the abstract service it implements.
6. `Inventory`, `InventoryProofs`: administration, assets, the jobs that work on devices,
   the device cache, and the way of the protection rules into the service.
7. `EventStream`, `EventStreamProofs`: gates, runs and verifications as a page shows them.

Left: new rules for an artwork in the middle of a run; the window arithmetic against a
reference definition.

A run has to earn its place: one safety run per module, one liveness run where fairness
promises something and the two do not fit together, and a violated statement where the
documentation is plainly wrong.

## 3. Modules

The modules named `MC...` extend the others with the definitions the instances need: sets of
operator targets, the direction of each command, symmetries, the names of hosts. Operators followed or preceded by `mutant` in a comment are broken variants
of the definition they stand before; nothing uses them, they record which mistake each
property would expose.

### Protection

One protected artwork. A task is a sensor request, an operator (a web or scheduler
command) or the enforcement loop; `pc[t]` names the await it is suspended in and
`job`, `todo`, `succ` are the local variables of `execute_control_command`.

| variable | code |
|---|---|
| `is_running`, `runtime`, `cooldown`, `used`, `stale`, `desired_state` | `_states[artwork_id]` of `ProtectionService` |
| `db`, `recorded` | the row of `artwork_protection_states`, and whether there is one |
| `writing`, `inserting` | per task: the values its `_persist_state` has taken, and whether it inserts them |
| `outdated` | no variable of the code: which writes, or the row, are from before the last run ended |
| `accepting` | `artworks.accepting_triggers`, the gate |
| `enabled` | `timeslice_enabled` and `_enabled_artworks` |
| `power` | what each device really does |
| `phase` | position of now in the budget window |
| `lock` | the artwork's `asyncio.Lock` |
| `failures`, `restarts`, `toggles` | counters that bound the environment |

The code stores time stamps and compares differences, so the model stores the
differences and `Tick` advances them: one tick is one enforcement interval. `stale`
says that `last_window_reset` is older than the current window. A capped age
(`AgeCap`) and a capped usage (at the budget) are enough since no comparison tells
larger values apart.

A write (`_persist_state`) awaits a session and a SELECT, takes the values of memory,
and awaits the UPDATE or INSERT and the commit. `Capture` is the moment it takes them, and
`Persist`, `PersistForceStop` and `PersistResume` are the ends of it. In between others go on;
writes of several tasks are committed in any order; a first row that another task has
inserted meanwhile is refused, and any write may fail: both are logged and the values are lost
(`Settle`).

Simplifications: the SELECT and the taking of the values are one step (a row that comes
between them only turns a refused INSERT into an UPDATE, which `Capture` a moment later is);
a device command that fails may have been obeyed or not, and may be counted as a
success or not (some managers report an answer they do not understand as success);
commands of operators and of the fast API are one kind of task, `OperatorTargets` says
which. The verifier's corrections are not part of this module.

`RunLedger` is what the rest of the system may rely on, whoever commands the artwork: a run
begins and ends, and its end charges all its time to the current window, once, and may start
a cooldown; usage goes away with its window and a cooldown with time, and with nothing else;
and a restart loses only what was not saved. `KeepsLedger` says that `Protection` implements
it, with the usage read as `UsedNow`, an expired and a cleared cooldown as none
(`CoolingOf`), and as `unsaved` (`Unsaved`) that the row, or a write that may still get there,
is from before the last run ended. Its windows are the code's: fixed, each beginning with
nothing used. The documents promise another rule (section 5).
A restart while it is unsaved takes the run up again, as the row has it, and then its age and the
row's usage together are no less than what memory had charged: nobody gets budget back. What
is lost is a run whose beginning was never written (section 5).

### Verifier

One device, and the commands given for it. A command has up to three tasks, each with
the await it is suspended in: the request itself (`command`), the call of
`verify_devices` it leaves behind when it returns (`starters`, in any order, since a call
takes the lock anew for each of its devices; `lock` while it replaces a verification), and the verification (`enforcer`), which enforces the
direction for five minutes, checks once more and marks the device.

| variable | code |
|---|---|
| `real` | what the device does; `row`: `devices.state` |
| `cooling` | the cooldown of the device manager (`CooldownManager`) |
| `newest` | no variable of the code: the command given last |
| `carry` | the ORM object's state a request or a final check writes |
| `lock`, `active` | `_verification_lock`, `_active_verifications[device]` |
| `polling` | `_fast_poll_devices[device]` of the monitor |
| `poll`, `seen` | the monitor's poll in progress and what it read |
| `correction` | tasks of `_notify_state_deviated`: noticed, or about to send |

A command goes: load the device and see whether a verification is active (`Issue`),
cancel it under the lock (`CancelVerification`, `CancelReturns`), send
(`Sent`, `Refused`, `Misunderstood`, `SendFails`), write the state (`WriteState`), and
after the stagger leave `verify_devices` behind (`Finish`) if it comes from the web or the
scheduler. The end of the enforcement period is an action without fairness, so what the
liveness properties promise does not depend on five minutes being long.

Simplifications: states are ON, OFF or an error (warming and cooling are states of
success of the two directions); `_fast_poll_lock` is never held across a suspension; the
database keeps what is written to it.

### Satellite

One satellite. A connection of the daemon is a socket with a `link` and a queue in each
direction; the server has one handler task per socket (`handler`), which is the endpoint
`/ws/satellite/onboard` or `/ws/satellite`, and learns of a lost link in its own time.

| variable | code |
|---|---|
| `connections`, `pending`, `registered`, `lock` | `_connections`, `_pending_satellites`, `_pending_commands`, `_lock` of `SatelliteManager` |
| `record` | the satellite's row, with status approved |
| `admin`, `target` | an administrator's request in progress and the socket it has in hand |
| `dpc`, `sock`, `known`, `doing` | the daemon: its await, its socket, `config.is_approved`, the command it executes |
| `caller`, `via`, `future` | `send_command`: its await, the connection it found, its future |
| `sent`, `executed` | no variables of the code: the commands in the order of sending, and of taking effect |
| `strayed` | shell commands whose wait the daemon's time-out has cancelled, and whose processes run on |

`RelayService` is what those who send commands may rely on: a command is refused, or sent and
answered once, and takes effect once at most. It has its turn after all that had theirs,
which were sent before it, and takes effect in it or is given up; a command that was given up
may take effect at any time later, or never. Success means that a command took effect in its
turn. `Relays` says that manager and
daemon implement it: the status of a command is that of its future once it is resolved, `open`
while its sender waits, and new until it is sent (`StatusOf`); `sent`, `executed` and `strayed`
are the histories.

Sending over a broken link loses the message; the daemon still reads what was sent before
the server closed in order. When the daemon reports a failure, the command has taken effect,
has not, or still may: the daemon's time-out (ws_client.py:190) cancels the wait for a shell
command and leaves its process running (handlers/shell.py:109-127), and `StrayEnds` is that process
getting its work done. `Drop` breaks a link and loses what is under way.

The daemon takes the first free socket: sockets are names without meaning, and an order of
reuse is as good as any other.

Simplifications: one satellite, since nothing but the lock is shared between two;
heartbeats, which keep a time stamp; the daemon does not crash in the middle of a command
and the server does not restart.

### Scheduler

The jobs of `scheduled_jobs`, and the executors of jobs: the scheduler's loop and the
calls of `trigger_job` in progress. A one-shot of the model is the call of
`schedule_once` (or the administrator) that may create it. All one-shots have one name,
as those that record the lamp hours of one projector do.

| variable | code |
|---|---|
| `row[j]` | the row of `scheduled_jobs`: `enabled`, `fail_count`, `executed_at`; `due` and `backoff` say whether `next_run_at` has come and `backoff_until` has not; `state` whether it is inserted or deleted |
| `executing` | `_executing_jobs` |
| `batch` | what is left of `due_jobs` in `_check_and_execute_jobs` |
| `pc`, `on`, `ok`, `read` | per executor: its await, its job, the outcome it records and the `fail_count` it loaded |
| `call` | per one-shot: the call of `schedule_once`; `waiting` until a run is recorded |
| `loopRuns`, `tries` | no variables of the code: starts by the loop; failures in a row |
| `admin`, `lost` | counters that bound changes by administrators, and results lost |

An execution goes: claimed (`LoopStarts`, or `TriggerAsks`, `TriggerClaims` and
`TriggerLoads`), running until the row is loaded to record its outcome (`RunEnds`), and
until that is committed (`Records`). The loop takes its jobs as the query found them
(`LoopSelects`) and runs one at a time. `RecordFails` and `TriggerLoadFails` are a
database that refuses; `Restart` ends whatever is in progress and does what `start` does:
it creates missing system jobs and gives recurring jobs their next slot.

Simplifications: what a job does is whether it succeeds; time stamps are whether they
have come, so the length of a backoff is left out; `_job_lock` is never held across a
suspension and needs no variable; a deleted job is not created again with the same key,
except the system jobs a start creates.

### AnelRunner

The runner's process with its power strips and the network between. A request is a call of
the API: `power_on`, `power_off`, or a query of the state; `pc[r]` names the await it is
suspended in, wherever it runs (its HTTP handler, or the queue processor for a queued
command).

| variable | code |
|---|---|
| `outlet`, `down`, `up` | the strips, and the datagrams to and from them |
| `running` | whether the service has been started and not shut down |
| `pc`, `heard` | per request: its await, and `response_data` with the event set |
| `pending` | `_pending_responses`: per host the request that has the entry |
| `queue`, `serving` | `CommandQueue`, and the item in `QueueProcessor._process_one` |
| `cache` | the states the runner keeps of its strips |
| `restarts` | a counter that bounds shutdowns |

A request registers its entry by host, sends (`Sends`, `SendFails`), waits, and ends by an
answer or its time-out; every way out takes the entry of the host away, whoever has it by
then. A message is matched by its sender or by an address found in it (`Matches`, with
`Named` as the addresses that are parts of others), and any status counts as the success
of a command, as in `parse_command_response`, and so does a brief answer that tells no state.
Datagrams are lost, delayed and overtaken;
`MaxAir` bounds those of one strip that are under way.

`PowerService` is what callers may rely on: three variables, a line of commands served one at a
time, and an answer for each request. `AnelRunner` maps to it with `StatusOf`, the queue
with the command served as the line, and the requests that wait for an answer as begun;
`ServesInOrder` says that it implements it.

Simplifications: one outlet per strip; a request is made once; requests of the same kind
in the queue differ in nothing but their strip; the entry that several waiting hosts match
is chosen freely (the code takes the oldest).

### Inventory

The tables the administration keeps, and the transactions on them. Handlers and jobs that
wait for a projector or for the DNS are split at these waits: `update_device`,
`create_device`, `delete_device` by requests with a stage `at`, jobs and chores by a list of
devices (`todo`) with what the session has changed and not committed (`links`, `made`, `log`).
Of the handlers that wait for the database only, those whose checks another transaction can
make stale, or that tell others before they commit, have two steps: the SELECTs with what
is to be done (`read`, `plan`) and the commit. These are the assignment of a satellite
(`CheckSatellite`, `AssignSatellite`), the change of an exhibition's satellites
(`UpdateExhibition`, `ReplaceSatellites`) and the change of rules (`UpdateProtection` with the
`reload_config`, then `CommitProtection` or `LoseProtection`). The others are one action.

| variable | code |
|---|---|
| `satellite`, `exhibition`, `artwork`, `device`, `asset`, `logs` | the committed tables; `exhibition[e]` is its set of satellites, an entry of `logs` the asset and the host the hours are from |
| `configs`, `enabled` | `_configs`, `_enabled_artworks` of `ProtectionService` |
| `request[r]` | an administrator's open request: the device as read, the row as updated, what was inserted |
| `job[w]` | the list the scheduler's loop or a chore is at |
| `held` | no variable of the code: which device hosts were linked to which asset |
| `unsaved` | no variable of the code: artworks whose rules in force are not committed |
| `events` | a counter that bounds requests, restarts, failures and lost commits together |

PostgreSQL is modelled by what the code relies on: nothing is seen before it is committed,
an updated row is locked until then (`Locked`), foreign keys and the unique asset number
are looked at when a transaction commits (`Accepted`; an insertion that meets an
uncommitted one is refused, `Collides`), a commit is all or nothing, and of two lists that
wait for each other one is ended (`DeadlockDetected`).

Simplifications: devices are projectors; entries carry no hours, so "no more hours than
last time" is that there is an entry; the linker's batch limit is larger than the instance;
the device cache keeps the host its information is from. Devices have no ports, and the
unique key has one: a host that another device has may be refused or not (`HostTaken`).

### EventStream

The broadcaster, those who send events a page shows, and the page.

| variable | code |
|---|---|
| `gate`, `changes` | `artworks.accepting_triggers` as committed, and the open transactions of `_update_accepting_triggers` |
| `running`, `stops` | `is_running` of the protection service, and `notify_stopped`s that are being saved |
| `fast`, `tasks` | `_fast_poll_devices`, and the monitor's tasks that will broadcast |
| `conn`, `queue` | per page: its connection, and its queue in `_clients` |
| `entry`, `device` | `protectionStatus` and `deviceStatus` of `PollStatusContext` |
| `fetched`, `listed` | what the panel fetched, and the list of devices the page loaded |
| `heard`, `phantom` | no variables of the code: what the last event about it reached, and whose last gate event told of a change that was rolled back |
| `events`, `breaks` | counters that bound changes, and breaks with restarts |

The SELECT that finds the artworks to tell comes after the UPDATE: `Announce` also tells of
artworks that have come to the exhibition in between, whose gate is not set.

Simplifications: the answer to a request of the page is one step; a page has the panels of
its artworks open.

### The proof modules

`ProtectionProofs`, `ProtectionAloneProofs`, `VerifierProofs`, `SatelliteProofs`,
`SchedulerProofs`, `AnelRunnerProofs`, `InventoryProofs` and `EventStreamProofs` hold the theorems, section 6.

## 4. Runs

| run | shows |
|---|---|
| `ProtectionSensors` | two requests, enforcement, one failing command or write, one restart, one switch of protection, no operators: the lock's discipline, durability, minimum; and, while nothing failed, restarted or was switched, `is_running` is true of the devices at rest |
| `ProtectionOperators` | a sensor, an operator (from the web, to the artwork) and enforcement, writes that overtake each other, a restart: no sensor ON in a cooldown, and `RunLedger` is implemented: each run charged once and whole, cooldowns last, restarts forget nothing that was saved |
| `ProtectionLive` | runs end, requests are answered, what a sensor still wants after a cooldown comes on |
| `LimitOffLost` | violated: the OFF at the limit is sent once; section 5 |
| `Verifier` | two commands that overlap, a failure, and a drift or a restart: one enforcement at a time; deviations are corrected, refused commands retried, commands return, the recorded state catches up |
| `StaleEnforcement` | violated with overlap; section 5 |
| `SatelliteSafety` | two commands, two broken links, two administrative acts, a daemon that gives commands up while they run: an OK is true, `RelayService` is implemented, and whoever waits for the other end or for the lock waits for somebody who goes on |
| `SatelliteLive` | one command, a broken link, an approval and a revocation: commands return, the daemon reconnects |
| `Scheduler` | a recurring job and two calls of `schedule_once`, a trigger or another act of an administrator, two lost results or restarts: one run at a time, no claim left behind, retries bounded, the loop runs a one-shot once, what is due runs, every call is followed by a recorded run |
| `AnelRunner` | two queued commands and a query, two strips that answer with a status, briefly or with a refusal, a shutdown and a start: no entry is left behind, `PowerService` is implemented, requests end, the cache catches up |
| `Inventory` | two exhibitions, artworks and projectors, a satellite, two assets, two sets of rules; two requests that may overlap, or one and a restart, a failed reading or a lost commit, between the steps of the scheduler's jobs: keys hold, entries name the asset read, the rules in force are the committed ones outside a known window, devices stray in known ways only; projectors are linked, read and cached in the end |
| `EventStream` | one page, four changes, two broken connections or restarts: a page the last event reached shows the state of the backend, and catches up but for what a break made it miss |

Types are proved for every value of the constants (section 6), so the runs do not repeat them;
only that of `Inventory` is a property of a run, because it has the foreign keys and the unique
number of an asset in it. Some properties are proved only, for the same reason:
`RunsChargedOnce`, `OrderKept`, `NoDanglingConnection`, `AnswerNamesHost`, `HistoryKept`,
`VerifiedOnce`, and the safety halves of liveness properties named at the end of section 6.
TLC has checked each of them on the instances of these runs.

### Bounds

*Protection.* Two sensor requests are enough for one to wait while another is inside,
with the enforcement loop as a third contender. The configuration has
`MinRuntime < MaxRuntime < Budget < Window` with each a tick or two apart, so every
branch of the budget check, the bridge, the exhaustion and the rollover is reached;
the smaller one of the operator and liveness runs keeps `Budget = MaxRuntime`. One
failure, one restart and one switch can each strike at every state. Sensors are
symmetric in the safety runs; no symmetry is used with liveness. An operator and the task in
the lock are two who write, so writes overtake each other and two first insertions collide.
`ForceCompletion` is FALSE in the runs; the proofs hold for both. Commands of the scheduler and
to single devices differ from those of the web in the devices they go to and in the gate, and
are in the proofs only, as are failed writes beside operators.

*Verifier.* A verification can be replaced, cancelled by a command or end by itself, and two
commands allow each order of the lock's waiters. One deviation notice at a time: a second
would send the same or be dropped by the cooldown. Failures are bounded by one, drifts and
restarts together by one, so that "once they are over" is reached. The state space has
every interleaving of those tasks. The order of `starters` is free, so either call may have
the device first. That a newer command which waits for the older one is
enforced alone is proved (`SerialEnforcesNewest`) and needs no run.

*Satellite.* The safety run has two sockets, so that one replaces the other, and two broken
links, after which each is used again: two commands are sent over one connection or over two,
and the one given up on the first takes effect after that on the second. The liveness run has
three sockets: one registered, one that replaces it, one that waits for approval. One broken
link already gives a daemon that reconnects before the server has noticed; an approval and a
revocation give a refusal and a second onboarding.

*Scheduler.* A trigger and the loop are two who may claim one job, and enough for the
circuit to be overrun by one that saw it closed. `Limit` is 2 instead of 5: one failure is
below it, two reach it. Two one-shots, so that two calls look for a pending one before
either inserts. A trigger counts as an act of the administrator, of which there is one;
more triggers are covered by the proofs of all four safety properties.

*AnelRunner.* The address of one strip is a part of the other's, as 10.0.0.1 is of
10.0.0.12, so that an answer finds the wrong entry. A place in the queue for one of two
commands makes the other wait for it; the query takes the entry of the command to the same
strip. One message of each strip may be under way, and a strip may send its status at any
time: the late answer to an earlier request is there. A fast command (`Fast`) takes the
steps a query takes until its answer; the run has none, the proofs allow any.

*Inventory.* Two of each kind of row are where a device, an artwork or a satellite can go
to; one host has a number and one has none; two assets are one more than numbers, so that a
deleted one is created again; two sets of rules, so that they change. The scheduler's jobs
come again and again; two requests (`Admins`), one after the other or open at once, meet each
of their steps and each other: an assignment crosses a withdrawal, one change of rules waits
for another, a backfill runs beside the linker, a device or an asset in a list is deleted, a
host changes in the middle of a reading. A restart, a commit that is lost and a reading that
fails take the place of one of them (`MaxEvents`). More of all are covered by the proofs of the
safety properties, which hold for any number.

*EventStream.* Four changes are two transactions on one gate around a start and a stop, or
the beginning and the end of two verifications. Two breaks are a lost connection
and a restart. One page, as pages share nothing; one artwork and one device, since their
events meet only in the queue, whose order is kept. Events for an artwork that is not set
(`Announce`) need a second one; TLC has checked two with fewer changes, and the proofs hold for
any number.

`CHECK_DEADLOCK FALSE` in the satellite's runs: a rejected or approved exchange, with all
commands done and no bounded act left, really is at rest when the daemon waits in its
loop.

### Fairness

*Protection.* Time passes. Every await ends: database calls and device
commands have timeouts. `asyncio.Lock` is FIFO, so a waiter that finds the lock free
again and again gets it: strong fairness on taking the lock. Requests, commands,
failures and restarts are never forced.

*Verifier.* Weak fairness of each request, verification and correction, of the monitor's
loop, and of the manager's cooldown, which is a time stamp. Nobody has to give a command,
and no enforcement period has to end.

*Satellite.* Weak fairness of each handler, administrator's request in progress, of the
daemon, which reconnects for ever (`ws_client.py:33`), and of each `send_command`, whose
time-out may fire. Both WebSocket libraries send keepalive pings, which is why a lost
link is noticed. Nobody has to approve or send anything.

*Scheduler.* Weak fairness of the loop with the job it runs, of each trigger, of the second
half of `schedule_once`, and of the passing of time to each slot and end of backoff: jobs
end (device commands and maintenance tasks have time-outs), and the database answers.
Losses are bounded, so that "the database is well" is reached.

*AnelRunner.* Weak fairness of each request, which has a time-out (`connection.py:191`), of the
queue processor, and of the start of a stopped service, which its container restarts. A
strip sends its status again and again, and of what it sends some arrives: without that no
cache could catch up. No request has to be made.

*Inventory.* Weak fairness of the list the loop is at and of each open request: projectors,
the DNS and the database answer or run into a time-out. The loop runs its recurring jobs
one after the other, and each comes again when its interval is over: strong fairness of
its beginning, since the loop is busy with other jobs in between. Events are
bounded, so that "the projector answers" is reached.

*EventStream.* Weak fairness of the transactions, of the monitor's tasks, and of the page,
which connects again 5 s after an error and polls for ever. Nobody has to change anything.

## 5. Where code and documents disagree

With a run that finds the violation:

| run | statement | what happens |
|---|---|---|
| `LimitOffLost` | docs/staff-guide/protection.md:58 "artwork turns OFF automatically" | an OFF that fails is not repeated |
| `StaleEnforcement` | command_verifier.py:58 "Frontend command cancels current enforcement and starts fresh with new target" | an ON still in its stagger starts its enforcement after a newer OFF |

The models also contain these behaviours. No run states them: they are smaller, or
consequences of a choice of the code that a reader may find right.

* docs/staff-guide/satellites.md:107, commands fail "until it reconnects": the old handler
  of a satellite that has reconnected removes the entry of the new connection
  (satellite_manager.py:361), and commands go on failing.
* docs/admin-guide/internals.md:173 and 191-194, docs/admin-guide/protection.md:7 and 16-27,
  docs/staff-guide/protection.md:13 and 27-29 promise a budget for each rolling window, which
  refills gradually as old use slides out of it. The code has fixed windows that follow one
  another: `_get_time_slice_budget` reads nothing used as soon as a new one begins (line
  335), and `_update_time_slice_usage` charges a whole run to the window it ends in (line
  797). An artwork that used up its budget at the end of one window may use all of it again at
  the beginning of the next: within a window's length around the boundary it may be on up to
  twice the limit, and a run across the boundary is charged to the new window, that part too
  which was before it. `KeepsLedger` states the rule of the code and not that of the documents.
* protection_service.py:258-303: an operator's stop is written without the lock. A write that
  took its values before another may be committed after it, so that the row is older than
  memory until the next write; and when two tasks find no row, the second insertion is
  refused, logged and lost. A crash then brings back books from before the last run. That is
  `unsaved` in `RunLedger`.
* protection_service.py:561, "we'll cross into fresh budget": the enforcement check after
  the start counts the whole run against the old window and stops it before it crosses.
* docs/admin-guide/protection.md:92, `is_running` is "Whether artwork is currently ON":
  an ON and an OFF of operators that overlap may report in another order than the devices
  obeyed, and leave it wrong.
* docs/admin-guide/internals.md:209, "During cooldown: ON commands BLOCKED": an operator's
  ON admitted before the cooldown is reported in it.
* docs/admin-guide/protection.md:82, the gate keeps sensors from turning things back on: a
  sensor past the gate check turns devices on.
* docs/admin-guide/protection.md:58, "OFF commands are blocked until max_runtime is
  reached": only the sensor's OFF is.
* docs/admin-guide/protection.md:98, "persisted across service restarts": a start is not
  persisted, the run is forgotten.
* command_verifier.py:99-142: the lock is taken anew for each device of a call, so two calls
  for several devices that overlap may reach one of them in inverted order, and the older
  command's enforcement replaces the newer's. The module allows any order, and
  `EnforcesNewest` holds without overlap only.
* command_verifier.py:261: a correction takes its direction, then awaits the database; it
  may be sent after a newer, opposite command of a sensor, which has no verification of
  its own to repair it.
* state_monitor.py:588: the error mark of a poll that failed may be written after a
  command that succeeded; the next poll repairs it (`StateCatchesUp`).
* docs/admin-guide/internals.md:80, commands queue up: a command the manager's cooldown
  refuses is not queued, and one from a sensor is not retried.
* cron_scheduler.py:163, docs/admin-guide/scheduling.md:80, a one-shot executes once: one
  that is triggered by hand while the loop's list holds it runs a second time when its turn
  comes, and a trigger runs an executed one-shot again. `LoopRunsOnce` is what holds.
* lamp_hours_record.py:9, "retry via scheduler": a one-shot that fails is over.
* docs/admin-guide/scheduling.md:47, "pause after 5 consecutive failures": triggers that
  saw the circuit closed run after it has opened. `RetriesBounded` is what holds.
* docs/admin-guide/scheduling.md:58, "Job is disabled" when its circuit is open: `enabled`
  stays as it was, and a success of a run in progress closes the circuit again.
* api/admin.py:2545, the reset "resets the circuit, allowing the job to run again": a result
  recorded at the same time overwrites the reset with the old count.
* api/admin.py:2470, a trigger "will run on the next scheduler check cycle": it runs at
  once, whether the job is enabled or not.
* command_orchestrator.py:747, "7 minutes from now": `schedule_once` takes the naive UTC
  time for local time, so the job is due at once.
* api/admin.py:2110 offers one-shots for "all devices"; cron_scheduler.py:316 fails them
  for want of a `target_id`.
* satellite-daemon handlers/shell.py:109-127, ws_client.py:190-195: a time-out ends the daemon's wait
  for a shell command and not the command's process. An ON that was reported as failed may
  switch the device on after a later OFF was carried out. `Relays` allows that for the
  commands in `strayed` and for no others.
* satellite_manager.py:237: an approval removes the pending entry by key, which may be that
  of a newer connection of the same satellite; nobody tells that one.
* anel_runner/protocol/connection.py:160, "each request is tracked separately": there is one
  entry per host, which a later request takes over; the earlier one times out although its
  strip obeyed and answered, and the end of either takes the entry away.
* anel_runner/core/queue_processor.py:55, "wait for current command to finish": the
  processor's task is cancelled in the middle of it, and the handler that waits for the
  command's future is not woken before the process ends.
* anel_runner/protocol/parser.py:164, "True if command was successful": any status of the
  strip counts, also one from before the command.
* api/admin.py:485: an artwork whose `protection_config` is cleared keeps its rules in the
  service until a restart, as `reload_config` takes None for "not given". `ConfigInForce`
  speaks of artworks with rules only.
* api/admin.py:485: the service is given new rules before `get_session` commits them
  (database/connection.py:73). Until then, and after a commit that fails, until the next change
  or restart, it runs with rules the database does not have. `ConfigInForce` leaves out these
  artworks (`unsaved`), and says that two changes which overlap do not end that way.
* api/admin.py:739: a satellite is checked when it is assigned only; a device that moves, or
  whose artwork moves, keeps one its new exhibition does not have.
* api/admin.py:640-651 and 771-783, 240-262: an assignment is checked, and a withdrawal finds the
  devices to clear, before each commits. When the two cross, or an assignment and a move of
  the artwork, a device has a satellite its exhibition has not, without a move of it.
  `OnlyMovesStray` says that these two ways are all there are.
* command_orchestrator.py:342-357: the artworks to tell of a gate are found by a SELECT after
  the UPDATE; one that came to the exhibition in between is told of a gate it does not have.
  `GateReaches` leaves it out (`phantom`).
* scheduler/tasks/asset_linker.py:71: the hours of a newly linked projector are recorded in a
  session that does not see the link, so there is no first entry; the daily check makes one
  (`HistoryBegins`).
* PollStatusContext.tsx:132: a `protection_status` event replaces what the page knows of the
  artwork, and with it `accepting_triggers`, which the event does not have; the panel shows
  the gate again after the next gate event. `GateReaches` allows the missing gate.
* PollStatusContext.tsx:193, a page that has lost its connection reconnects, but asks for the
  status again only where no event ever told one: what changed meanwhile stays as it was.
  `PageCatchesUp` makes an exception of it.
* api/state.py:465, "config_change: When monitoring config changes": main.py:229 creates the
  task for it in the thread of the file watcher, which has no event loop; the error is
  logged.

## 6. Proofs

`ProtectionProofs` proves, for every number of requests, operators and devices and
every configuration that satisfies the module's assumptions:

* `TypeCorrect`: the type invariant.
* `LockCorrect`: the lock is held exactly by the task inside.
* `SensorOnCorrect`: from the inductive `CooldownInv`. The property is not inductive alone:
  what excludes a cooldown beside a sensor ON is that only the enforcement loop starts one,
  inside the lock (`SourcesRight`, `LockDiscipline`), and that a resume begins by clearing it.
* `ChargedOnceCorrect`: from the types and one case per action.
* `KeepsLedgerCorrect`: `Spec => RunLedger!Spec` under the mapping of section 3, with operators and
  for any order in which writes are committed. Since any write may still become the row, the
  invariant `LedgerInv` speaks of every copy of it, the one in the database and those being
  written (`BooksRight`). Each copy `Fits`: it has no more usage or cooldown than memory, and a
  run it knows of covers what memory has charged or has to charge since the copy was taken
  (an inequality that every tick, charge and rollover keeps: `CoversLonger`). A copy that is
  not outdated `Holds` all there is but, it may be, the beginning of the run. Most actions do
  nothing to the ledger (`QuietIsKept`, `MovesAreKept`, `StaysAreKept`); one lemma each shows
  the begin, the end, the taking of values, the commit, the tick, the crash and the shutdown
  (`BeginsLedger`, `EndsLedger`, `CapturesLedger`, `SettlesLedger`, `TicksLedger`,
  `CrashesLedger`, `ShutdownKeepsLedger`).

Assumed: the tasks are distinct, the automated devices are devices, the configuration
is natural numbers, a window is longer than one enforcement interval (`ConfigAssumption`;
the code's smallest window is a minute), and ages are capped above every limit.

`ProtectionAloneProofs` adds what a crash may cost:

* `CooldownDurableCorrect`, `UsageDurableCorrect`: from `LedgerInv` the row agrees with memory unless
  it is outdated, or a write that is may still come (`NotOutdated`). `UndisturbedSaved` gives
  the rest, the case without operators and failed writes: one task writes at a time, inside
  the lock, so a run's end that is not in the row yet has a task about to write it, and no
  insertion is refused (`SavedInv`).

and what holds as long as no operator commands the artwork (`Operators = {}`; with operators
both are false, an operator does not take the lock):

* `SensorKeepsMinimumCorrect`, from `FoundInv`: what a task found under the lock still
  holds when it reports, because only the task in the lock changes `is_running`
  (`FoundByOne`, `OnlyOneInside`), and time only makes a run older (`MayEndKept`).
* `RunningIffOnCorrect`, from `RunsRight`: for the one task that works on the devices, the
  devices told are as commanded and the others as the run says; nobody else works beside
  it (`OnlyOneWorks`), and when nobody works all automated devices are as the run says.
  The hypothesis `Clean`, no failure, restart or switch of protection so far, cannot be
  dropped: a device that fails once is not told again, and a start is lost in a restart.

`VerifierProofs` proves, for any number of commands, corrections, failures and restarts:

* `TypeCorrect`: the type invariant.
* `OneEnforcerCorrect`: `OneEnforcer`, with `LockInv` as strengthening: while a task holds
  the lock across a suspension nothing is on the books, and while nobody does no cancelled
  verification is still ending. That is what keeps a `finally` block from removing the
  entries of its successor.
* `LockIsGivenBackCorrect`: the lock across a suspension is held by the call that has cancelled
  the verification on the books, and while it is free no cancellation is pending. Whoever
  holds it awaits a task that needs no lock to end. The invariant says where each request's
  second half is (`Calls`) and which of them has the lock (`LockHeld`).
* `VerifiedOnceCorrect`: a verification goes through its stages and never back, so no command is
  enforced twice and a cancelled one marks nothing.
* `SerialEnforcesNewest`: without overlapping commands, `EnforcesNewest`. The invariant
  says that only the newest command has tasks on their way, and that no older verification
  is active once it is past the cancellation. `StaleEnforcement` shows that the hypothesis
  is needed.

`SatelliteProofs` proves, for any number of sockets, commands and administrators:

* `TypeCorrect`: the type invariant, with `Pointers`: a socket is known wherever one is used.
* `NoDanglingConnectionCorrect`: inductive as it stands.
* `SuccessWasExecutedCorrect`: strengthened by `ResultsTrue`, the same of every result still
  on its way.
* `OrderKeptCorrect`: from `KeepsOrder`: the commands in the queue of the daemon's socket
  were sent in that order, after the one being executed, which was sent after all that had
  their turn (`Handled`: done, or given up and perhaps still running); and no command is sent
  twice. So only one that was given up takes effect out of turn (`TurnComes`, `StrayKeeps`).
  Queues of other sockets need no such statement: they are never read again. The lemmas on
  `Append` and `Tail` (`AppendFacts`, `TailFacts`) carry the argument.
* `RelaysCorrect`: `Spec => RelayService!Spec` under the mapping of section 3, one lemma per
  action that touches a command. `KeepsOrder` gives that the command the daemon takes was
  sent after all that had their turn, `ResultsTrue` and `SureResults` that a success is one,
  and of a command that was not given up.
* `NobodyStrandedCorrect`: what a daemon finds in its queue is what it waits for, and with an
  empty queue and a link that is up there is a handler that will send or read. The invariant
  follows the handler of the daemon's socket through its stages (`Onboards`, `Joins`), one
  statement for each stage of the daemon (`Served`), with `LockOwned`.

`SchedulerProofs` proves, for any jobs, any number of triggers, any limit and any number of
administrative acts and lost results:

* `TypeCorrect`: the type invariant.
* `OneRunPerJobCorrect`: inductive as it stands, since a claim and its registration are one
  step.
* `LoopRunsOnceCorrect`: a one-shot the loop may still start (`Unspent`) has been started at
  most as often as results were lost. `Hands` says that the loop's job is not in its list
  again, and that a row not yet inserted was never selected.
* `RetriesBoundedCorrect`: whoever may still add a failure to a job saw its circuit closed
  and holds a permit (`Permits`); the failures in a row and the permits together stay below
  the limit and the number of executors (`Room`), because recording a failure gives a permit
  back, and no permit is given while the row counts `Limit` failures. The row counts no
  fewer failures than there were (`Counted`), which needs `OneRunPerJob`.
* `CallKeptCorrect`: a call of `schedule_once` that waits for a run has a one-shot, its own or
  another of its name, that nothing holds up: it is enabled, has no failure on its account,
  and is due once its slot has come, unless an administrator withdrew one. A row that was not
  executed is `Fresh`, and no step but a recorded run or an administrator ends what is
  `Owed`: that is what makes the look-up for a pending one-shot before the insertion safe.

`AnelRunnerProofs` proves, for any strips, requests, names and queue:

* `TypeCorrect`: the type invariant.
* `PendingInFlightCorrect`, `AnswerNamesHostCorrect`: with `Discipline` as strengthening, which
  says where the commands of the queue are: those in it are queued, each once; the one
  being served is the only one in flight; and a stopped service serves none. Without it an
  entry could be that of a request which has ended.
* `ServesInOrderCorrect`: `Spec => PowerService!Spec` under the mapping of section 3. One
  lemma per action shows its step of the abstract service, or that the three mapped
  variables stay; `Discipline` gives that the head of the line is the request served, and
  that nobody leaves the line from the middle.
* `NobodyForgottenCorrect`: a command whose handler waits for its turn is in the queue, the one
  being served is in flight and has a time-out, and a handler whose future a shutdown has
  abandoned is there only while the service is stopped (`Held`).

`InventoryProofs` proves, for any number of rows, administrators, requests and failures:

* `TypeCorrect`: the type invariant, which has the foreign keys and the unique asset number in
  it (`RowsInv`). It is not inductive alone: `TransInv` says of every open transaction what
  it may hold at its stage (`RequestsInv`, `JobsInv`), and that the device it has updated
  and not committed still has the artwork and the satellite the transaction read, or, when
  it is new, that no other transaction creates it (`PendingInv`, which the row locks
  give). So a commit `Accepted` lets through leaves tables that satisfy `RowsInv` again.
* `ReadTogetherCorrect`: with `TraceInv`, the same of every reading that is not committed yet:
  asset and host of a request or a list are those a row had together, or the number of an
  asset the transaction has inserted is that of the host (`TracedRequest`, `TracedList`);
  `held` has every linked row (`DevicesHeld`); and the assets inserted are new ones, each of
  one transaction (`MadeInv`), so that an asset keeps its number for good.
* `ConfigInForceCorrect`: from `RulesInv`, with the types of the tables it needs. Between the
  UPDATE and the commit the row is locked, so a request at "rules" is the only one at its
  artwork, and the service has the rules it is to commit (`RulesPending`); so the last reload
  and the last commit are of one request. Without the lock the theorem would be false: the
  mutant that tells the service before the UPDATE shows it.
* `OnlyMovesStrayCorrect`: a commit that comes late brings back the artwork and the satellite
  of a row read earlier, so the property needs `PendingInv`. Of an assignment and a withdrawal
  the invariant says that what they have read was right when they read it (`Survey`); if
  nothing has changed since, the commit strays no device (`AssignSatelliteStrays`,
  `ReplaceSatellitesStrays`), and otherwise they are `Crossed`.
* `HistoryKeptCorrect`: one case per action.

`EventStreamProofs` proves, for any pages, artworks, devices, changes and breaks:

* `TypeCorrect`: the type invariant.
* `StatusReachesCorrect`: inductive as it stands.
* `VerificationReachesCorrect`: strengthened by `TasksTell`, that the last of the monitor's tasks
  about a device tells what holds now: tasks run in order, so the last to be told is the last
  change.
* `GateReachesCorrect`: while a transaction is open the database does not hold what its events
  have told. `AnnouncedReaches` says that a page they reached will show what the transaction
  sets, unless another one told of that artwork without setting it, and `Disjoint` that no
  other transaction sets the same gate; the commit turns the one into the property.
* `PageRightCorrect`: `[]PageRight` and `PageStays`. When its queue is empty and nobody is about
  to tell it more, a page that was told of an artwork or a device is right about it, except
  for what a break made it miss; a page that asks is right at once; and it stays right until
  there is something to tell. It follows from the three above (`RightAtRest`) and what one
  step can do to a page at rest (`RunStays`, `BadgeStays`).

Those three rest on lemmas about queues: what the last event about something tells when two
sequences are joined (`ConcatTells`) or the first event leaves (`TailTells`), and so what a
broadcast, a break and a delivery do to a page that counts as reached (`BroadcastReaches`,
`BreakReaches`, `DeliverReaches`).

Assumed are only the `ASSUME`s of the modules: distinct names and natural bounds.

Only model-checked: liveness under fairness, which is beyond the prover, and the violated
statements. What can be proved of a liveness property is that nothing is ever in its way: that
nobody waits for somebody who is gone, and that what was achieved stays. These safety halves are
proved:

| liveness, checked by TLC | safety half, proved |
|---|---|
| `RunsEnd`, `RequestsAnswered` | `LockDiscipline`: the lock has a holder who is inside |
| `WantedResumes` | `LockDiscipline`, and `KeepsLedger`: every tick brings the end of a cooldown nearer, and only the end of a run starts one |
| `CommandsReturn` of `Verifier` | `LockIsGivenBack` |
| `CommandsReturn`, `KnownReconnects` of `Satellite` | `NobodyStranded` |
| `CallServed` | `CallKept` |
| `RequestsEnd` | `NobodyForgotten` |
| `PageCatchesUp` | `PageRight`, `PageStays` |

For the others (`EnforcementCorrects`, `RefusedIsRetried`, `StateCatchesUp`,
`DueIsRun`, `CacheCatchesUp`, `HistoryBegins`, `LinkedInTheEnd`, `CacheInTheEnd`) only the runs
speak. `SensorKeepsMinimum` and `RunningIffOn` hold without operators only, and are proved for
that case.

## 7. Not modelled

The components with their status are in `PROJECT.json`. Left out, and why:

* *Service health, durations, database wiring*: counters nothing acts on, a parser of
  configuration strings, a session factory. What sessions promise is part of `Inventory`.
* *Device managers*: the protocols of projectors, strips and shells are I/O; their outcomes
  are inputs of `Verifier` and `Inventory`, their cooldown is part of `Verifier`.
* *Administration*: credentials, display tokens, templates, exports and log views are one read
  or one write each; `update_asset` and `update_device_dns` change labels. The debug API's
  live look-up writes the device cache by the function the job uses.
* *Assets*: devices that are not projectors have none; a host without a number
  (`NumberOf[h] = None`) is allowed by the module and the proofs, but not in the run. The linker
  takes 20 devices at a time, those longest without an update first: with more devices than that
  whose names never resolve, the others wait; the module's list is never that long.
  Commits fail in the model where somebody was told before (`LoseProtection`), and where another
  transaction makes them; that the database is lost in the middle of a single-row change leaves
  nothing behind.
* *Device cache*: only devices that are enabled and online are refreshed; the module has no
  others.
* *Event stream*: heartbeats, forced-off and satellite events change nothing a page shows of
  an artwork or a device.
* *State monitor*: the schedule of polls, PING jobs and recovery checks.
* *Displays, the rest of the web frontend*: presentation of what the API returns.
