------------------------------ MODULE Inventory ------------------------------
(***************************************************************************)
(* The rows the administration keeps: exhibitions with the satellites      *)
(* assigned to them, their artworks with the protection rules, the         *)
(* projectors of the artworks, and the assets, the projectors as things    *)
(* with a number and a history of lamp hours.  The handlers of api/admin   *)
(* and api/assets change them, one transaction each, and so do the jobs    *)
(* the scheduler runs: the asset linker, the lamp hours check, the         *)
(* recording after a command and the cache of device information.          *)
(*                                                                         *)
(* What waits for a projector or for the DNS is a step of its own.  Such a *)
(* transaction works on the rows it read before it waited, and none of its *)
(* writes is seen before it commits; a device row it has updated is locked *)
(* until then.  Foreign keys and the unique asset number are checked when  *)
(* it commits.  Devices are projectors (pjlink), the only ones with        *)
(* assets.                                                                 *)
(***************************************************************************)
EXTENDS Naturals, FiniteSets

CONSTANTS
  Exhibitions, Artworks, Devices, Satellites,  \* the rows there may ever be
  Hosts,         \* the addresses of devices
  Numbers,       \* asset numbers
  NumberOf,      \* [Hosts -> Numbers \cup {None}]: what the host name or the DNS shows
  Configs,       \* protection rules
  Admins,        \* requests of administrators that may be open at once
  MaxAssets,     \* bound: assets ever created
  MaxEvents,     \* bound: requests of administrators, commands, failures and restarts
  Loop,          \* the task of the scheduler's loop
  None, Gone     \* no row (yet, or no value), and a row that was deleted

Assets == 1..MaxAssets
Workers == Admins \cup {Loop}                      \* who works through lists of devices
Recurring == {"linker", "check", "cache"}          \* the jobs of the loop that come again
Chores == {"backfill", "initial", "selected"}       \* the same work, asked for by an administrator

ASSUME NumbersKnown == NumberOf \in [Hosts -> Numbers \cup {None}]
VARIABLES
  satellite,   \* the satellites
  exhibition,  \* the exhibitions: the set of satellites assigned to each
  artwork,     \* the artworks
  device,      \* the devices
  asset,       \* the assets: their numbers
  logs,        \* lamp_hours_logs
  configs,     \* ProtectionService._configs
  enabled,     \* ProtectionService._enabled_artworks
  unsaved,     \* specification only: the artworks with rules in force not committed
  request,     \* the open request of each administrator
  job,         \* the list each worker is at
  held,        \* specification only: the pairs <<asset, host>> rows have held
  events       \* how many of them there have been

rows == <<satellite, exhibition, artwork, device, asset, logs, held>>
service == <<configs, enabled, unsaved>>
vars == <<rows, service, request, job, events>>

ArtworkRow == [exhibition : Exhibitions, config : Configs \cup {None}, timeslice : BOOLEAN]
DeviceRow == [artwork : Artworks, satellite : Satellites \cup {None}, host : Hosts,
              asset : Assets \cup {None}, cached : Hosts \cup {None}]
\* An entry of the history, by the host that was read, None for one typed in.
Entry == [asset : Assets, host : Hosts \cup {None}]
\* What a transaction goes by of a device row it has read.
Glimpse == [asset : Assets \cup {None}, host : Hosts]

AreRows(S) == \A x \in S : x \notin {None, Gone}
ASSUME AbsentRows ==
  /\ AreRows(ArtworkRow) /\ AreRows(DeviceRow) /\ AreRows(Glimpse) /\ AreRows(SUBSET Satellites)
  /\ AreRows(Hosts) /\ AreRows(Numbers) /\ AreRows(Satellites) /\ AreRows(Configs)
  /\ AreRows(Assets)
  /\ None # Gone /\ Loop \notin Admins
ASSUME Bounds == MaxEvents \in Nat
ASSUME SomeOfEach == {} \notin {Exhibitions, Artworks, Devices, Hosts}

\* What is there of a table.
Rows(table) == {x \in DOMAIN table : table[x] \notin {None, Gone}}

\* f, and g where f says nothing.
Over(f, g) == [x \in DOMAIN f \cup DOMAIN g |-> IF x \in DOMAIN f THEN f[x] ELSE g[x]]
Without(f, x) == [y \in DOMAIN f \ {x} |-> f[y]]
Nothing == [x \in {} |-> None]
Just(x, y) == [z \in {x} |-> y]

\* The transaction of a request: seen is the device as it was read, to the host it
\* is to have, row the row as updated, made the assets and log the entries inserted.
\* Plan is what another request will write and read the places it goes by.
IdleRequest == [at |-> "idle", dev |-> None, seen |-> None, to |-> None, row |-> None,
                made |-> Nothing, log |-> {}, plan |-> None, read |-> None]

\* A list of devices as they were read, and the transaction of those done.
NoJob == [kind |-> "none", todo |-> Nothing, links |-> Nothing, made |-> Nothing,
          log |-> Nothing]

Stages == {"idle", "offboard", "update", "link", "onboard", "delete", "background",
           "assign", "withdraw", "rules"}

TypeOK ==
  /\ satellite \subseteq Satellites
  /\ exhibition \in [Exhibitions -> (SUBSET Satellites) \cup {None, Gone}]
  /\ artwork \in [Artworks -> ArtworkRow \cup {None, Gone}]
  /\ device \in [Devices -> DeviceRow \cup {None, Gone}]
  /\ asset \in [Assets -> Numbers \cup {None, Gone}]
  /\ logs \subseteq Entry /\ held \subseteq Assets \X Hosts
  /\ \A e \in Rows(exhibition) : exhibition[e] \subseteq satellite
  /\ \A a \in Rows(artwork) : artwork[a].exhibition \in Rows(exhibition)
  /\ \A d \in Rows(device) : /\ device[d].artwork \in Rows(artwork)
                             /\ device[d].satellite \in satellite \cup {None}
                             /\ device[d].asset \in Rows(asset) \cup {None}
  /\ \A l \in logs : l.asset \in Rows(asset)
  /\ \A a, b \in Rows(asset) : asset[a] = asset[b] => a = b
  /\ configs \in [Artworks -> Configs \cup {None}] /\ enabled \subseteq Artworks
  /\ unsaved \subseteq Artworks
  /\ \A r \in Admins : /\ request[r].at \in Stages
                       /\ request[r].at = "idle" => request[r] = IdleRequest
                       /\ request[r].log \subseteq Entry
  /\ \A w \in Workers : /\ job[w].kind \in Recurring \cup Chores \cup {"none", "record"}
                        /\ job[w].kind = "none" => job[w] = NoJob
  /\ events \in 0..MaxEvents

Some(S) == CHOOSE x \in S : TRUE

\* One exhibition with one artwork and one projector, known by its host only.
Init ==
  /\ satellite = Satellites
  /\ LET e == Some(Exhibitions)
         a == Some(Artworks)
         d == Some(Devices)
     IN
       /\ exhibition = [x \in Exhibitions |-> IF x = e THEN Satellites ELSE None]
       /\ artwork = [x \in Artworks |->
            IF x = a THEN [exhibition |-> e, config |-> None, timeslice |-> FALSE] ELSE None]
       /\ device = [x \in Devices |->
            IF x = d THEN [artwork |-> a, satellite |-> None, host |-> Some(Hosts),
                           asset |-> None, cached |-> None] ELSE None]
  /\ asset = [a \in Assets |-> None] /\ logs = {} /\ held = {}
  /\ configs = [a \in Artworks |-> None] /\ enabled = {} /\ unsaved = {}
  /\ request = [r \in Admins |-> IdleRequest]
  /\ job = [w \in Workers |-> NoJob]
  /\ events = 0

-----------------------------------------------------------------------------
(* Transactions                                                            *)

\* The rows another transaction has updated and not yet committed.
Locked(d, w) ==
  \/ \E r \in Admins \ {w} : request[r].dev = d /\ request[r].row # None
  \/ \E v \in Workers \ {w} : d \in DOMAIN job[v].links

\* The row of an artwork whose rules another request has updated is locked, too.
Ruled(a, r) == \E q \in Admins \ {r} : request[q].at = "rules" /\ request[q].plan.artwork = a

\* Where satellites, artworks and devices are: what a request reads that assigns a
\* satellite or takes some away.
Places == [exhibition |-> exhibition,
           artwork |-> [a \in Rows(artwork) |-> artwork[a].exhibition],
           device |-> [d \in Rows(device) |-> [artwork |-> device[d].artwork,
                                              satellite |-> device[d].satellite]]]

\* unique_device, if the port is the same, too
HostTaken(d, h) ==
  \/ \E x \in Rows(device) \ {d} : device[x].host = h
  \/ \E r \in Admins : request[r].row # None /\ request[r].dev # d /\ request[r].row.host = h

Insertions == {request[r].made : r \in Admins} \cup {job[w].made : w \in Workers}
Unused == {a \in Assets : asset[a] = None /\ \A m \in Insertions : a \notin DOMAIN m}
FreshAsset == CHOOSE a \in Unused : TRUE

\* The assets with number n a transaction sees that has inserted made itself.
Known(n, made) == {a \in Rows(asset) : asset[a] = n} \cup {a \in DOMAIN made : made[a] = n}

\* The asset with number n, and what the transaction then has inserted.
GetOrCreateAsset(n, made) ==
  IF Known(n, made) # {} THEN [id |-> CHOOSE a \in Known(n, made) : TRUE, made |-> made]
  ELSE [id |-> FreshAsset, made |-> Over(Just(FreshAsset, n), made)]

\* The bound on the assets has been reached.
Full(n, made) == Known(n, made) = {} /\ Unused = {}

\* Another transaction has inserted an asset with number n: ours will be refused.
Collides(n, made) == \E m \in Insertions \ {made} : \E a \in DOMAIN m : m[a] = n

\* Foreign keys and the unique number, as they are when a transaction commits.
Accepted(update, made, entries) ==
  /\ \A a \in DOMAIN made, b \in Rows(asset) : made[a] # asset[b]
  /\ \A d \in DOMAIN update :
       /\ update[d].asset \in Rows(asset) \cup DOMAIN made \cup {None}
       /\ update[d].artwork \in Rows(artwork) /\ update[d].satellite \in satellite \cup {None}
  /\ \A l \in entries : l.asset \in Rows(asset) \cup DOMAIN made

Commit(update, made, entries) ==
  /\ device' = Over(update, device)
  /\ asset' = Over(made, asset)
  /\ logs' = logs \cup entries
  /\ held' = held \cup {<<update[d].asset, update[d].host>> :
                          d \in {x \in DOMAIN update : update[x].asset # None}}
  /\ UNCHANGED <<satellite, exhibition, artwork>>

CommitOrRollback(update, made, entries) ==
  IF Accepted(update, made, entries) THEN Commit(update, made, entries) ELSE UNCHANGED rows

\* A reading of the host of row for the history of its asset.
Reading(row) == [asset |-> row.asset, host |-> row.host]

\* The glimpse of a row.
Seen(row) == [asset |-> row.asset, host |-> row.host]

Happens == events < MaxEvents /\ events' = events + 1

\* A projector that does not answer, a name that does not resolve, a commit that is lost.
Fails == Happens

-----------------------------------------------------------------------------
(* Exhibitions, artworks and their protection rules                        *)

\* A new request; which of the free ones it takes makes no difference.
Asks(r) ==
  /\ request[r] = IdleRequest /\ job[r] = NoJob /\ Happens
  /\ r = CHOOSE q \in Admins : request[q] = IdleRequest /\ job[q] = NoJob

\* One that waits for the database only.
AsksDatabase(r) == Asks(r) /\ UNCHANGED <<request, job>>

\* The request goes on with what it has read and written so far.
Goes(r, next) == request' = [request EXCEPT ![r] = next]
Ends(r) == Goes(r, IdleRequest)

CreateExhibition(r, e) ==
  /\ AsksDatabase(r) /\ exhibition[e] = None
  /\ exhibition' = [exhibition EXCEPT ![e] = {}]
  /\ UNCHANGED <<satellite, artwork, device, asset, logs, held, service>>

DevicesOf(e) == {d \in Rows(device) : artwork[device[d].artwork].exhibition = e}

\* What a deletion cascades to, or an update of many rows touches, is not locked.
Free(D, w) == \A d \in D : ~Locked(d, w)
Unruled(A, r) == \A a \in A : ~Ruled(a, r)

\* The SELECTs: the satellites the exhibition has, its artworks and their devices.
UpdateExhibition(r, e, S) ==
  /\ Asks(r) /\ e \in Rows(exhibition)
  /\ Goes(r, [IdleRequest EXCEPT !.at = "withdraw", !.read = Places,
                !.plan = [exhibition |-> e, satellites |-> S]])
  /\ UNCHANGED <<rows, service, job>>

\* Of the devices read, those of the exhibition with one of the satellites S.
Users(read, e, S) ==
  {d \in DOMAIN read.device :
     read.artwork[read.device[d].artwork] = e /\ read.device[d].satellite \in S}

\* mutant: the devices keep a satellite that was taken away
ReplaceSatellitesOnly(r) ==
  LET q == request[r]
      e == q.plan.exhibition
  IN  /\ q.at = "withdraw" /\ Ends(r)
      /\ exhibition' = IF e \in Rows(exhibition)
           THEN [exhibition EXCEPT ![e] = q.plan.satellites \cap satellite] ELSE exhibition
      /\ UNCHANGED <<satellite, artwork, device, asset, logs, held, service, job, events>>

\* The commit: what differs from the sets read is deleted and inserted, and what was
\* deleted or inserted by another since is an error.  A device given such a satellite
\* after the SELECT keeps it.
ReplaceSatellites(r) ==
  LET q == request[r]
      e == q.plan.exhibition
      removed == q.read.exhibition[e] \ q.plan.satellites
      added == q.plan.satellites \ q.read.exhibition[e]
      cleared == Users(q.read, e, removed)
      accepted == /\ e \in Rows(exhibition) /\ cleared \subseteq Rows(device)
                  /\ removed \subseteq exhibition[e]
                  /\ added \subseteq satellite \ exhibition[e]
  IN  /\ q.at = "withdraw" /\ Free(cleared, r) /\ Ends(r)
      /\ exhibition' = IF accepted
           THEN [exhibition EXCEPT ![e] = (@ \ removed) \cup added] ELSE exhibition
      /\ device' = [d \in Devices |->
           IF accepted /\ d \in cleared THEN [device[d] EXCEPT !.satellite = None] ELSE device[d]]
      /\ UNCHANGED <<satellite, artwork, asset, logs, held, service, job, events>>

Deleted(table, D) == [x \in DOMAIN table |-> IF x \in D THEN Gone ELSE table[x]]

DeleteExhibition(r, e) ==
  /\ AsksDatabase(r) /\ e \in Rows(exhibition) /\ Free(DevicesOf(e), r)
  /\ Unruled({a \in Rows(artwork) : artwork[a].exhibition = e}, r)
  /\ exhibition' = Deleted(exhibition, {e})
  /\ artwork' = Deleted(artwork, {a \in Rows(artwork) : artwork[a].exhibition = e})
  /\ device' = Deleted(device, DevicesOf(e))
  /\ UNCHANGED <<satellite, asset, logs, held, service>>

\* The foreign keys of a satellite row: its assignments go, its devices lose it.
RevokeSatellite(r, s) ==
  LET users == {d \in Rows(device) : device[d].satellite = s}
  IN  /\ AsksDatabase(r) /\ s \in satellite /\ Free(users, r)
      /\ satellite' = satellite \ {s}
      /\ exhibition' = [e \in Exhibitions |->
           IF e \in Rows(exhibition) THEN exhibition[e] \ {s} ELSE exhibition[e]]
      /\ device' = [d \in Devices |->
           IF d \in users THEN [device[d] EXCEPT !.satellite = None] ELSE device[d]]
      /\ UNCHANGED <<artwork, asset, logs, held, service>>

CreateArtwork(r, a, e) ==
  /\ AsksDatabase(r) /\ artwork[a] = None /\ e \in Rows(exhibition)
  /\ artwork' = [artwork EXCEPT ![a] = [exhibition |-> e, config |-> None, timeslice |-> FALSE]]
  /\ UNCHANGED <<satellite, exhibition, device, asset, logs, held, service>>

\* The service takes the rules of the row; no rules are no change to it.
ReloadConfig(a, row) ==
  /\ configs' = IF row.config # None THEN [configs EXCEPT ![a] = row.config] ELSE configs
  /\ enabled' = IF row.timeslice THEN enabled \cup {a} ELSE enabled \ {a}

\* mutant: the service is told before the UPDATE, which may have to wait
UpdateProtectionEarly(r, a, config, timeslice) ==
  LET plan == [artwork |-> a, config |-> config, timeslice |-> timeslice]
  IN  /\ Asks(r) /\ a \in Rows(artwork)
      /\ ReloadConfig(a, plan)
      /\ unsaved' = unsaved \cup {a}
      /\ Goes(r, [IdleRequest EXCEPT !.at = "rules", !.plan = plan])
      /\ UNCHANGED <<rows, job>>

\* New rules, none (the row is cleared), or the switch of the time slices: the UPDATE,
\* which locks the row, and the service is told.
UpdateProtection(r, a, config, timeslice) ==
  LET plan == [artwork |-> a, config |-> config, timeslice |-> timeslice]
  IN  /\ Asks(r) /\ a \in Rows(artwork) /\ ~Ruled(a, r)
      /\ ReloadConfig(a, plan)
      /\ unsaved' = unsaved \cup {a}
      /\ Goes(r, [IdleRequest EXCEPT !.at = "rules", !.plan = plan])
      /\ UNCHANGED <<rows, job>>

\* get_session commits when the answer is made.
CommitProtection(r) ==
  LET p == request[r].plan
  IN  /\ request[r].at = "rules" /\ Ends(r)
      /\ artwork' = [artwork EXCEPT ![p.artwork].config = p.config,
                                    ![p.artwork].timeslice = p.timeslice]
      /\ unsaved' = unsaved \ {p.artwork}
      /\ UNCHANGED <<satellite, exhibition, device, asset, logs, held, configs, enabled, job, events>>

\* The commit fails; nobody tells the service.
LoseProtection(r) ==
  /\ request[r].at = "rules" /\ Ends(r) /\ Fails
  /\ UNCHANGED <<rows, service, job>>

MoveArtwork(r, a, e) ==
  /\ AsksDatabase(r) /\ a \in Rows(artwork) /\ e \in Rows(exhibition) /\ ~Ruled(a, r)
  /\ artwork' = [artwork EXCEPT ![a].exhibition = e]
  /\ UNCHANGED <<satellite, exhibition, device, asset, logs, held, service>>

DeleteArtwork(r, a) ==
  LET devices == {d \in Rows(device) : device[d].artwork = a}
  IN  /\ AsksDatabase(r) /\ a \in Rows(artwork) /\ Free(devices, r) /\ ~Ruled(a, r)
      /\ artwork' = Deleted(artwork, {a})
      /\ device' = Deleted(device, devices)
      /\ UNCHANGED <<satellite, exhibition, asset, logs, held, service>>

-----------------------------------------------------------------------------
(* Devices                                                                 *)

\* _validate_satellite_for_artwork
MayUse(a, s) ==
  /\ a \in Rows(artwork)
  /\ s # None => s \in exhibition[artwork[a].exhibition]

\* A change of a device that waits for the database only.
ChangeDevice(r, d, row) ==
  /\ AsksDatabase(r) /\ d \in Rows(device) /\ ~Locked(d, r)
  /\ device' = [device EXCEPT ![d] = row]
  /\ UNCHANGED <<satellite, exhibition, artwork, asset, logs, held, service>>

\* The SELECTs before a satellite is assigned: it is checked against the artwork given
\* with it, or against that of the device.
CheckSatellite(r, d, a, s) ==
  /\ Asks(r) /\ d \in Rows(device)
  /\ MayUse(IF a = None THEN device[d].artwork ELSE a, s)
  /\ Goes(r, [IdleRequest EXCEPT !.at = "assign", !.dev = d, !.read = Places,
                !.plan = [artwork |-> a, satellite |-> s]])
  /\ UNCHANGED <<rows, service, job>>

\* The UPDATE and the commit, on the row as it is now.
AssignSatellite(r) ==
  LET q == request[r]
      d == q.dev
      row == [device[d] EXCEPT !.satellite = q.plan.satellite,
                               !.artwork = IF q.plan.artwork = None THEN @ ELSE q.plan.artwork]
  IN  /\ q.at = "assign" /\ ~Locked(d, r) /\ Ends(r)
      /\ IF d \in Rows(device) THEN CommitOrRollback(Just(d, row), Nothing, {}) ELSE UNCHANGED rows
      /\ UNCHANGED <<service, job, events>>

\* The device keeps its satellite or loses it: neither is checked.
MoveDevice(r, d, a, s) ==
  /\ d \in Rows(device) /\ a \in Rows(artwork) /\ s \in {None, device[d].satellite}
  /\ ChangeDevice(r, d, [device[d] EXCEPT !.artwork = a, !.satellite = s])

\* A new config, or the host and port it has: the cached information goes.
ReconfigureDevice(r, d) ==
  d \in Rows(device) /\ ChangeDevice(r, d, [device[d] EXCEPT !.cached = None])

CreateDevice(r, d, a, s, h) ==
  /\ Asks(r) /\ device[d] = None /\ ~Locked(d, r) /\ MayUse(a, s)
  /\ Goes(r, [IdleRequest EXCEPT !.at = "link", !.dev = d,
                !.row = [artwork |-> a, satellite |-> s, host |-> h, asset |-> None,
                         cached |-> None]])
  /\ UNCHANGED <<rows, service, job>>

\* The device moves to another host: its old asset has to be signed off first.
UpdateHost(r, d, h) ==
  /\ Asks(r) /\ d \in Rows(device) /\ h # device[d].host
  /\ Goes(r, [IdleRequest EXCEPT !.at = IF device[d].asset # None THEN "offboard" ELSE "update",
                !.dev = d, !.seen = Seen(device[d]), !.to = h])
  /\ UNCHANGED <<rows, service, job>>

DeleteDevice(r, d) ==
  /\ Asks(r) /\ d \in Rows(device)
  /\ Goes(r, [IdleRequest EXCEPT !.at = IF device[d].asset # None THEN "offboard" ELSE "delete",
                !.dev = d, !.seen = Seen(device[d])])
  /\ UNCHANGED <<rows, service, job>>

\* unlink_device_from_asset: the last reading for the asset the device was read with.
ReadOffboard(r) ==
  LET q == request[r]
      next == IF q.to = None THEN "delete" ELSE "update"
  IN  /\ q.at = "offboard"
      /\ \/ Goes(r, [q EXCEPT !.at = next, !.log = {Reading(q.seen)}])
            /\ UNCHANGED events
         \/ Goes(r, [q EXCEPT !.at = next]) /\ Fails
      /\ UNCHANGED <<rows, service, job>>

\* The UPDATE: on the row as it is now, but the asset goes only if it was seen.
UpdateRow(r) ==
  LET q == request[r]
      d == q.dev
  IN  /\ q.at = "update" /\ ~Locked(d, r)
      /\ \/ /\ d \in Rows(device)
            /\ Goes(r, [q EXCEPT !.at = "link", !.row =
                 [device[d] EXCEPT !.host = q.to, !.cached = None,
                    !.asset = IF q.seen.asset # None THEN None ELSE device[d].asset]])
         \/ (d \notin Rows(device) \/ HostTaken(d, q.to)) /\ Ends(r)
      /\ UNCHANGED <<rows, service, job, events>>

\* link_device_to_asset: the DNS answers.  A new device is committed at once, with
\* the onboard reading left to a transaction of its own.
LinkRow(r) ==
  LET q == request[r]
      n == NumberOf[q.row.host]
      link == GetOrCreateAsset(n, q.made)
      row == [q.row EXCEPT !.asset = link.id]
      update == Just(q.dev, row)
  IN  /\ q.at = "link" /\ n # None /\ ~Full(n, q.made)
      /\ IF Collides(n, q.made) THEN Ends(r) /\ UNCHANGED rows
         ELSE IF q.seen # None
           THEN /\ Goes(r, [q EXCEPT !.at = "onboard", !.row = row, !.made = link.made])
                /\ UNCHANGED rows
         ELSE IF Accepted(update, link.made, {})
           THEN /\ Goes(r, [IdleRequest EXCEPT !.at = "background", !.dev = q.dev, !.seen = Seen(row)])
                /\ Commit(update, link.made, {})
           ELSE Ends(r) /\ UNCHANGED rows
      /\ UNCHANGED <<service, job, events>>

\* No number in the names of the device, or the DNS does not answer.
LinksNothing(r) ==
  LET q == request[r]
  IN  /\ q.at = "link"
      /\ IF NumberOf[q.row.host] = None THEN UNCHANGED events ELSE Fails
      /\ CommitOrRollback(Just(q.dev, q.row), q.made, q.log)
      /\ Ends(r)
      /\ UNCHANGED <<service, job>>

\* record_lamp_hours for the new asset, and the end of update_device.
ReadOnboard(r) ==
  LET q == request[r]
      update == Just(q.dev, q.row)
  IN  /\ q.at = "onboard"
      /\ \/ /\ CommitOrRollback(update, q.made, q.log \cup {Reading(q.row)})
            /\ UNCHANGED events
         \/ CommitOrRollback(update, q.made, q.log) /\ Fails
      /\ Ends(r)
      /\ UNCHANGED <<service, job>>

\* record_lamp_hours_background, after create_device has committed.
ReadInBackground(r) ==
  LET q == request[r]
  IN  /\ q.at = "background"
      /\ \/ /\ UNCHANGED events
            /\ IF q.dev \in Rows(device) THEN CommitOrRollback(Nothing, Nothing, {Reading(q.seen)})
               ELSE UNCHANGED rows
         \/ Fails /\ UNCHANGED rows
      /\ Ends(r)
      /\ UNCHANGED <<service, job>>

\* The row goes, the history stays.
DeleteRow(r) ==
  LET q == request[r]
  IN  /\ q.at = "delete" /\ ~Locked(q.dev, r)
      /\ IF Accepted(Nothing, Nothing, q.log) /\ q.dev \in Rows(device)
           THEN /\ device' = Deleted(device, {q.dev})
                /\ logs' = logs \cup q.log
                /\ UNCHANGED <<satellite, exhibition, artwork, asset, held>>
           ELSE UNCHANGED rows
      /\ Ends(r)
      /\ UNCHANGED <<service, job, events>>

-----------------------------------------------------------------------------
(* Lists of devices: the jobs of the scheduler and the chores              *)

HasHistory(a) == \E l \in logs : l.asset = a

Linked == {d \in Rows(device) : device[d].asset # None}

\* The devices a list of a kind is made of.
Listed(kind) ==
  CASE kind \in {"linker", "backfill"} -> Rows(device) \ Linked
    [] kind = "check"   -> Linked
    [] kind = "cache"   -> Rows(device)
    [] kind = "initial" -> {d \in Linked : ~HasHistory(device[d].asset)}

Takes(w, kind, D) ==
  job' = [job EXCEPT ![w] = IF D = {} THEN NoJob
            ELSE [NoJob EXCEPT !.kind = kind, !.todo = [d \in D |-> Seen(device[d])]]]

\* The loop runs the jobs one after the other, each again an interval later.  A job
\* that finds no device ends at once.
JobBegins(kind) ==
  /\ job[Loop] = NoJob /\ Takes(Loop, kind, Listed(kind))
  /\ UNCHANGED <<rows, service, request, events>>

\* The one-shot of one device, minutes after a command to it.
RecordBegins(d) ==
  /\ job[Loop] = NoJob /\ d \in Linked /\ Takes(Loop, "record", {d})
  /\ Happens
  /\ UNCHANGED <<rows, service, request>>

ChoreBegins(r, kind, D) ==
  /\ Asks(r) /\ Takes(r, kind, D)
  /\ UNCHANGED <<rows, service, request>>

\* The worker is done with d and keeps the rest of j.
Works(w, j, d) == job' = [job EXCEPT ![w] = [j EXCEPT !.todo = Without(j.todo, d)]]
\* It drops the list and all it has not committed.
Drops(w) == job' = [job EXCEPT ![w] = NoJob]

Linking == {"linker", "backfill"}

\* mutant: the check reads nothing where there is no last entry
MootWithoutEntry(kind, d, seen) ==
  \/ kind \in Linking /\ NumberOf[seen.host] = None
  \/ kind = "check"
  \/ kind \notin Linking \cup {"cache"} /\ d \notin Rows(device)

\* Nothing to do: no number in the names, for the check no more hours than at the last
\* entry, or no device to be read any more.
Moot(kind, d, seen) ==
  \/ kind \in Linking /\ NumberOf[seen.host] = None
  \/ kind = "check" /\ HasHistory(seen.asset)
  \/ kind \notin Linking \cup {"cache"} /\ d \notin Rows(device)

\* Or no answer of the DNS or the projector.
SkipDevice(w, d) ==
  LET j == job[w]
  IN  /\ d \in DOMAIN j.todo
      /\ IF Moot(j.kind, d, j.todo[d]) THEN UNCHANGED events ELSE Fails
      /\ Works(w, j, d)
      /\ UNCHANGED <<rows, service, request>>

\* A name without a number: what it resolves to is written to the row, its asset is not.
TouchDevice(w, d) ==
  LET j == job[w]
  IN  /\ d \in DOMAIN j.todo /\ j.kind \in Linking /\ ~Locked(d, w)
      /\ NumberOf[j.todo[d].host] = None
      /\ IF d \in Rows(device) THEN Works(w, [j EXCEPT !.links = Over(Just(d, None), @)], d)
         ELSE Drops(w)
      /\ UNCHANGED <<rows, service, request, events>>

\* link_device_to_asset on the row as it was listed.  The linker then has the onboard
\* hours recorded by a session of its own, which sees what was committed before; the
\* backfill records them in its own.  A row that is gone, or an asset somebody else has
\* just inserted, spoils the session and with it the whole list.
LinkDevice(w, d) ==
  LET j == job[w]
      n == NumberOf[j.todo[d].host]
      link == GetOrCreateAsset(n, j.made)
      listed == [j.todo[d] EXCEPT !.asset = link.id]
      linked == [j EXCEPT !.links = Over(Just(d, link.id), @), !.made = link.made]
  IN  /\ d \in DOMAIN j.todo /\ j.kind \in Linking /\ n # None /\ ~Locked(d, w)
      /\ ~Full(n, j.made)
      /\ IF d \notin Rows(device) \/ Collides(n, j.made)
           THEN Drops(w) /\ UNCHANGED <<rows, events>>
         ELSE IF j.kind = "linker"
           THEN /\ Works(w, linked, d)
                /\ UNCHANGED events
                /\ \/ UNCHANGED rows
                   \/ device[d].asset # None /\ Commit(Nothing, Nothing, {Reading(device[d])})
         ELSE \/ /\ Works(w, [linked EXCEPT !.log = Over(Just(d, Reading(listed)), @)], d)
                 /\ UNCHANGED <<rows, events>>
              \/ Works(w, linked, d) /\ Fails /\ UNCHANGED rows
      /\ UNCHANGED <<service, request>>

\* mutant: the host is read again before the projector is asked
ReadDeviceAgain(w, d) ==
  LET j == job[w]
      now == IF d \in Rows(device) THEN device[d].host ELSE j.todo[d].host
      entry == [asset |-> j.todo[d].asset, host |-> now]
  IN  /\ d \in DOMAIN j.todo /\ j.kind \notin Linking \cup {"cache"}
      /\ Works(w, [j EXCEPT !.log = Over(Just(d, entry), @)], d)
      /\ UNCHANGED <<rows, service, request, events>>

\* _record_lamp_hours_impl: asset and host are those the list was made with.
ReadDevice(w, d) ==
  LET j == job[w]
  IN  /\ d \in DOMAIN j.todo /\ j.kind \notin Linking \cup {"cache"}
      /\ Works(w, [j EXCEPT !.log = Over(Just(d, Reading(j.todo[d])), @)], d)
      /\ UNCHANGED <<rows, service, request, events>>

\* mutant: only an empty cache is written
CacheInfoOnce(w, d) ==
  LET j == job[w]
  IN  /\ d \in DOMAIN j.todo /\ j.kind = "cache" /\ ~Locked(d, w)
      /\ device' = IF d \in Rows(device) /\ device[d].cached = None
                     THEN [device EXCEPT ![d].cached = j.todo[d].host] ELSE device
      /\ Works(w, j, d)
      /\ UNCHANGED <<satellite, exhibition, artwork, asset, logs, held, service, request, events>>

\* update_device_cache, a session of its own for every device of the list.
CacheInfo(w, d) ==
  LET j == job[w]
  IN  /\ d \in DOMAIN j.todo /\ j.kind = "cache" /\ ~Locked(d, w)
      /\ device' = IF d \in Rows(device)
                     THEN [device EXCEPT ![d].cached = j.todo[d].host] ELSE device
      /\ Works(w, j, d)
      /\ UNCHANGED <<satellite, exhibition, artwork, asset, logs, held, service, request, events>>

\* Two lists that wait for rows of each other: the database ends one of them.
Waits(w, v) == \E d \in DOMAIN job[w].todo : d \in DOMAIN job[v].links

DeadlockDetected(w) ==
  /\ job[w].kind \in Linking
  /\ \E v \in Workers \ {w} : Waits(w, v) /\ Waits(v, w)
  /\ Drops(w)
  /\ UNCHANGED <<rows, service, request, events>>

\* mutant: no commit at the end of the list
CommitListNever(w) ==
  /\ job[w].kind # "none" /\ job[w].todo = Nothing
  /\ Drops(w)
  /\ UNCHANGED <<rows, service, request, events>>

\* The end of the list: all of it is committed, or nothing.
CommitList(w) ==
  LET j == job[w]
      update == [d \in DOMAIN j.links |->
                   [device[d] EXCEPT !.asset = IF j.links[d] = None THEN @ ELSE j.links[d]]]
      entries == {j.log[d] : d \in DOMAIN j.log}
  IN  /\ j.kind # "none" /\ j.todo = Nothing
      /\ IF DOMAIN j.links \cup DOMAIN j.log \subseteq Rows(device)
           THEN CommitOrRollback(update, j.made, entries) ELSE UNCHANGED rows
      /\ Drops(w)
      /\ UNCHANGED <<service, request, events>>

-----------------------------------------------------------------------------
(* Assets                                                                  *)

\* mutant: the devices keep the link to an asset that is gone
DeleteAssetOnly(r, a) ==
  /\ AsksDatabase(r) /\ a \in Rows(asset)
  /\ asset' = [asset EXCEPT ![a] = Gone]
  /\ logs' = {l \in logs : l.asset # a}
  /\ UNCHANGED <<satellite, exhibition, artwork, device, held, service>>

DeleteAsset(r, a) ==
  LET users == {d \in Rows(device) : device[d].asset = a}
  IN  /\ AsksDatabase(r) /\ a \in Rows(asset) /\ Free(users, r) /\ Unused # {}
      /\ asset' = [asset EXCEPT ![a] = Gone]
      /\ device' = [d \in Devices |->
           IF d \in users THEN [device[d] EXCEPT !.asset = None] ELSE device[d]]
      /\ logs' = {l \in logs : l.asset # a}
      /\ UNCHANGED <<satellite, exhibition, artwork, held, service>>

AddManualLampHours(r, a) ==
  /\ AsksDatabase(r) /\ a \in Rows(asset)
  /\ logs' = logs \cup {[asset |-> a, host |-> None]}
  /\ UNCHANGED <<satellite, exhibition, artwork, device, asset, held, service>>

-----------------------------------------------------------------------------
(* The whole                                                               *)

\* Open transactions are rolled back; the protection service loads its rules.
Restart ==
  LET loaded == {a \in Rows(artwork) : artwork[a].config # None}
  IN  /\ Happens
      /\ request' = [r \in Admins |-> IdleRequest]
      /\ job' = [w \in Workers |-> NoJob]
      /\ configs' = [a \in Artworks |-> IF a \in loaded THEN artwork[a].config ELSE None]
      /\ enabled' = {a \in loaded : artwork[a].timeslice}
      /\ unsaved' = {}
      /\ UNCHANGED rows

ListStep(w) ==
  \/ \E d \in Devices : \/ SkipDevice(w, d) \/ TouchDevice(w, d) \/ LinkDevice(w, d)
                      \/ ReadDevice(w, d) \/ CacheInfo(w, d)
  \/ DeadlockDetected(w) \/ CommitList(w)

DeviceStep(r) ==
  \/ ReadOffboard(r) \/ UpdateRow(r) \/ LinkRow(r) \/ LinksNothing(r) \/ ReadOnboard(r)
  \/ ReadInBackground(r) \/ DeleteRow(r) \/ AssignSatellite(r)
  \/ ListStep(r)

RequestStep(r) ==
  DeviceStep(r) \/ ReplaceSatellites(r) \/ CommitProtection(r) \/ LoseProtection(r)

LoopStep ==
  \/ \E kind \in Recurring : JobBegins(kind)
  \/ \E d \in Devices : RecordBegins(d)
  \/ ListStep(Loop)

NewRequest(r) ==
  \/ \E e \in Exhibitions :
       \/ CreateExhibition(r, e) \/ DeleteExhibition(r, e)
       \/ \E S \in SUBSET satellite : UpdateExhibition(r, e, S)
  \/ \E s \in Satellites : RevokeSatellite(r, s)
  \/ \E a \in Artworks, e \in Exhibitions : CreateArtwork(r, a, e) \/ MoveArtwork(r, a, e)
  \/ \E a \in Artworks :
       \/ DeleteArtwork(r, a)
       \/ \E c \in Configs \cup {None}, t \in BOOLEAN : UpdateProtection(r, a, c, t)
  \/ \E d \in Devices :
       \/ DeleteDevice(r, d) \/ ReconfigureDevice(r, d)
       \/ \E h \in Hosts : UpdateHost(r, d, h)
       \/ \E a \in Artworks \cup {None}, s \in Satellites : CheckSatellite(r, d, a, s)
       \/ \E a \in Artworks, s \in Satellites \cup {None} :
            MoveDevice(r, d, a, s) \/ \E h \in Hosts : CreateDevice(r, d, a, s, h)
  \/ \E a \in Assets : DeleteAsset(r, a) \/ AddManualLampHours(r, a)
  \/ \E kind \in {"backfill", "initial"} : ChoreBegins(r, kind, Listed(kind))
  \/ \E a \in Rows(asset) : ChoreBegins(r, "selected", {d \in Linked : device[d].asset = a})

Next == (\E r \in Admins : NewRequest(r) \/ RequestStep(r)) \/ LoopStep \/ Restart

Spec == Init /\ [][Next]_vars

\* The loop works on and comes back to every recurring job, requests go on.
Fairness ==
  /\ WF_vars(ListStep(Loop))
  /\ \A kind \in Recurring : SF_vars(JobBegins(kind))
  /\ \A r \in Admins : WF_vars(RequestStep(r))

FairSpec == Spec /\ Fairness

-----------------------------------------------------------------------------
(* Properties                                                              *)

\* The hours in the history of an asset are those of a host whose names carry its
\* number, or of the host of a device linked to it at that moment: never the asset of
\* one state of a row with the host of another (_record_lamp_hours_impl waits for the
\* projector in between).
ReadTogether ==
  \A l \in logs : l.host # None =>
    <<l.asset, l.host>> \in held \/ NumberOf[l.host] = asset[l.asset]

\* The protection service runs with the rules the database has, as long as it has some:
\* it is told before the commit (reload_config, get_session), so not while a request is
\* between the two, nor after a commit that failed until the next one; but requests that
\* overlap never leave it with the rules of the one that lost.
ConfigInForce ==
  \A a \in Rows(artwork) \ unsaved : artwork[a].config # None =>
    /\ configs[a] = artwork[a].config
    /\ a \in enabled <=> artwork[a].timeslice

Reachable(d) ==
  LET s == device[d].satellite
  IN  s # None => s \in exhibition[artwork[device[d].artwork].exhibition]

\* A request that assigns a satellite or takes some away ends, after another one has
\* changed what it had read.
Crossed ==
  \E r \in Admins : /\ request[r].at \in {"assign", "withdraw"} /\ request'[r] = IdleRequest
                    /\ request[r].read # Places

\* A device comes to a satellite its exhibition does not have by a move of the device or
\* of its artwork, or because an assignment crossed a withdrawal or a move (update_device
\* checks, update_exhibition lists the devices to clear, and each commits later), but
\* never by a request that nothing crosses.
OnlyMovesStray ==
  [][\A d \in Rows(device) \cap Rows(device)' :
       (Reachable(d) /\ ~Reachable(d)') =>
         \/ device[d].artwork # device'[d].artwork /\ device'[d].satellite = device[d].satellite
         \/ artwork[device[d].artwork].exhibition # artwork'[device[d].artwork].exhibition
         \/ Crossed]_vars

\* The history of a projector outlives its devices and goes with its asset only.
HistoryKept == [][\A l \in logs \ logs' : asset'[l.asset] = Gone]_vars

Unlinked(d) == d \in Rows(device) /\ NumberOf[device[d].host] # None /\ device[d].asset = None

\* A projector with a number is linked to an asset in the end.
LinkedInTheEnd == \A d \in Devices : Unlinked(d) ~> ~Unlinked(d)

\* Whatever spoils the first reading, the history of a linked projector begins.
HistoryBegins ==
  \A d \in Devices :
    (d \in Rows(device) /\ device[d].asset # None) ~>
      (d \notin Rows(device) \/ device[d].asset = None \/ HasHistory(device[d].asset))

\* The cache has information about a host the device has left.
Stale(d) == d \in Rows(device) /\ device[d].cached \notin {None, device[d].host}

\* It does not stay there, whoever wrote it after update_device had cleared it.
CacheInTheEnd == \A d \in Devices : Stale(d) ~> ~Stale(d)
=============================================================================
