-------------------------- MODULE InventoryProofs --------------------------
(* Proofs about Inventory, for any rows, hosts and numbers, any number of  *)
(* administrators at work at once, and any failures.                       *)
EXTENDS Inventory, TLAPS

-----------------------------------------------------------------------------
(* Tables                                                                  *)

LEMMA OverApplies ==
  ASSUME NEW f, NEW g, NEW x
  PROVE  /\ DOMAIN Over(f, g) = DOMAIN f \cup DOMAIN g
         /\ x \in DOMAIN f => Over(f, g)[x] = f[x]
         /\ x \in DOMAIN g /\ x \notin DOMAIN f => Over(f, g)[x] = g[x]
BY DEF Over

LEMMA JustApplies ==
  ASSUME NEW x, NEW y
  PROVE  DOMAIN Just(x, y) = {x} /\ Just(x, y)[x] = y
BY DEF Just

LEMMA OverJust ==
  ASSUME NEW x, NEW y, NEW f
  PROVE  \A z \in DOMAIN Over(Just(x, y), f) :
           \/ z = x /\ Over(Just(x, y), f)[z] = y
           \/ z \in DOMAIN f /\ Over(Just(x, y), f)[z] = f[z]
<1> DEFINE g == Just(x, y)
<1>1. DOMAIN g = {x} /\ g[x] = y  BY JustApplies
<1> HIDE DEF g
<1>2. \A z \in DOMAIN Over(g, f) : \/ z = x /\ Over(g, f)[z] = y
                                   \/ z \in DOMAIN f /\ Over(g, f)[z] = f[z]
  BY <1>1 DEF Over
<1> QED  BY <1>2 DEF g

LEMMA NothingApplies == DOMAIN Nothing = {}
BY DEF Nothing

\* Tables of some of the rows.
Partial(X, Y) == UNION {[S -> Y] : S \in SUBSET X}

LEMMA PartialApplies ==
  ASSUME NEW X, NEW Y, NEW f \in Partial(X, Y)
  PROVE  DOMAIN f \subseteq X /\ \A x \in DOMAIN f : f[x] \in Y
BY DEF Partial

LEMMA PartialOver ==
  ASSUME NEW X, NEW Y, NEW f \in Partial(X, Y), NEW g \in Partial(X, Y)
  PROVE  Over(f, g) \in Partial(X, Y)
<1> DEFINE S == DOMAIN f \cup DOMAIN g
<1>1. S \in SUBSET X /\ \A x \in S : (IF x \in DOMAIN f THEN f[x] ELSE g[x]) \in Y
  BY PartialApplies
<1>2. Over(f, g) \in [S -> Y]  BY <1>1 DEF Over
<1> QED  BY <1>1, <1>2 DEF Partial

LEMMA PartialJust ==
  ASSUME NEW X, NEW Y, NEW x \in X, NEW y \in Y
  PROVE  Just(x, y) \in Partial(X, Y)
<1>1. Just(x, y) \in [{x} -> Y] /\ {x} \in SUBSET X  BY DEF Just
<1> QED  BY <1>1 DEF Partial

LEMMA PartialNothing == ASSUME NEW X, NEW Y PROVE Nothing \in Partial(X, Y)
<1>1. Nothing \in [{} -> Y] /\ {} \in SUBSET X  BY DEF Nothing
<1> QED  BY <1>1 DEF Partial

LEMMA PartialWithout ==
  ASSUME NEW X, NEW Y, NEW f \in Partial(X, Y), NEW x
  PROVE  Without(f, x) \in Partial(X, Y) /\ \A y \in DOMAIN Without(f, x) :
           y \in DOMAIN f /\ Without(f, x)[y] = f[y]
<1>1. DOMAIN f \ {x} \in SUBSET X /\ \A y \in DOMAIN f \ {x} : f[y] \in Y
  BY PartialApplies
<1>2. Without(f, x) \in [DOMAIN f \ {x} -> Y]  BY <1>1 DEF Without
<1> QED  BY <1>1, <1>2 DEF Partial, Without

-----------------------------------------------------------------------------
(* What an action leaves alone                                             *)

\* The steps of requests and lists change rows by a commit, the deletion of a device
\* or the writing of a cache only, and the exhibitions and their artworks never.
LEMMA CommitKeeps ==
  ASSUME NEW u, NEW m, NEW e, Commit(u, m, e)
  PROVE  logs \subseteq logs' /\ UNCHANGED <<satellite, exhibition, artwork>>
BY DEF Commit

LEMMA RollbackKeeps ==
  ASSUME NEW u, NEW m, NEW e, CommitOrRollback(u, m, e)
  PROVE  logs \subseteq logs' /\ UNCHANGED <<satellite, exhibition, artwork>>
BY CommitKeeps DEF CommitOrRollback, rows

LEMMA ListStepKeeps ==
  ASSUME NEW w, ListStep(w)
  PROVE  /\ logs \subseteq logs' /\ UNCHANGED <<satellite, exhibition, artwork, service>>
         /\ UNCHANGED request
<1>1. ASSUME NEW d, SkipDevice(w, d) \/ ReadDevice(w, d) \/ TouchDevice(w, d)
      PROVE  logs \subseteq logs' /\ UNCHANGED <<satellite, exhibition, artwork, service, request>>
  BY <1>1 DEF SkipDevice, ReadDevice, TouchDevice, rows
<1>2. ASSUME NEW d, CacheInfo(w, d)
      PROVE  logs \subseteq logs' /\ UNCHANGED <<satellite, exhibition, artwork, service, request>>
  BY <1>2 DEF CacheInfo
<1>3. ASSUME NEW d, LinkDevice(w, d)
      PROVE  logs \subseteq logs' /\ UNCHANGED <<satellite, exhibition, artwork, service, request>>
  <2>1. UNCHANGED <<service, request>>  BY <1>3 DEF LinkDevice
  <2>2. UNCHANGED rows \/ Commit(Nothing, Nothing, {Reading(device[d])})
    BY <1>3 DEF LinkDevice
  <2> QED  BY <2>1, <2>2, CommitKeeps DEF rows
<1>4. CASE DeadlockDetected(w)  BY <1>4 DEF DeadlockDetected, rows
<1>5. CASE CommitList(w)  BY <1>5, RollbackKeeps DEF CommitList, rows
<1> QED  BY <1>1, <1>2, <1>3, <1>4, <1>5 DEF ListStep

LEMMA DeviceStepKeeps ==
  ASSUME NEW r, DeviceStep(r)
  PROVE  logs \subseteq logs' /\ UNCHANGED <<satellite, exhibition, artwork, service>>
<1>1. CASE ReadOffboard(r)  BY <1>1 DEF ReadOffboard, rows
<1>2. CASE UpdateRow(r)  BY <1>2 DEF UpdateRow, rows
<1>3. CASE LinkRow(r)
  <2>1. UNCHANGED <<service, job, events>>  BY <1>3 DEF LinkRow
  <2>2. UNCHANGED rows \/ \E u, m : Commit(u, m, {})  BY <1>3 DEF LinkRow
  <2> QED  BY <2>1, <2>2, CommitKeeps DEF rows
<1>4. CASE LinksNothing(r)  BY <1>4, RollbackKeeps DEF LinksNothing
<1>5. CASE ReadOnboard(r)  BY <1>5, RollbackKeeps DEF ReadOnboard
<1>6. CASE ReadInBackground(r)  BY <1>6, RollbackKeeps DEF ReadInBackground, rows
<1>7. CASE DeleteRow(r)  BY <1>7 DEF DeleteRow, rows
<1>8. CASE AssignSatellite(r)  BY <1>8, RollbackKeeps DEF AssignSatellite, rows
<1> QED  BY <1>1, <1>2, <1>3, <1>4, <1>5, <1>6, <1>7, <1>8, ListStepKeeps DEF DeviceStep

LEMMA LoopStepKeeps ==
  ASSUME LoopStep
  PROVE  logs \subseteq logs' /\ UNCHANGED <<satellite, exhibition, artwork, service, request>>
BY ListStepKeeps DEF LoopStep, JobBegins, RecordBegins, rows

-----------------------------------------------------------------------------
(* The history                                                             *)

\* The lamp hours of an asset are kept when its device goes, is moved to another host
\* or is linked anew; only the deletion of the asset takes them (delete_device and
\* update_device in admin.py, assets.py).
THEOREM HistoryKeptCorrect == Spec => HistoryKept
<1>1. ASSUME Next PROVE \A l \in logs \ logs' : asset'[l.asset] = Gone
  <2>1. ASSUME NEW r \in Admins, NewRequest(r)
        PROVE  \A l \in logs \ logs' : asset'[l.asset] = Gone
    <3>1. ASSUME NEW a \in Assets, DeleteAsset(r, a)
          PROVE  \A l \in logs \ logs' : asset'[l.asset] = Gone
      <4>1. \A l \in logs \ logs' : l.asset = a  BY <3>1 DEF DeleteAsset
      <4>2. asset'[a] = Gone  BY <3>1 DEF DeleteAsset, Rows
      <4> QED  BY <4>1, <4>2
    <3>2. ASSUME NEW a \in Assets, AddManualLampHours(r, a) PROVE logs \subseteq logs'
      BY <3>2 DEF AddManualLampHours
    <3>3. ASSUME NEW e \in Exhibitions, CreateExhibition(r, e) \/ DeleteExhibition(r, e)
          PROVE  logs \subseteq logs'
      BY <3>3 DEF CreateExhibition, DeleteExhibition
    <3>4. ASSUME NEW e, NEW S, NEW a, NEW c, NEW t, NEW d, NEW s,
                 \/ UpdateExhibition(r, e, S) \/ UpdateProtection(r, a, c, t)
                 \/ CheckSatellite(r, d, a, s)
          PROVE  logs \subseteq logs'
      BY <3>4 DEF UpdateExhibition, UpdateProtection, CheckSatellite, rows
    <3>5. ASSUME NEW s, RevokeSatellite(r, s) PROVE logs \subseteq logs'
      BY <3>5 DEF RevokeSatellite
    <3>6. ASSUME NEW a, NEW e, CreateArtwork(r, a, e) \/ MoveArtwork(r, a, e)
          PROVE  logs \subseteq logs'
      BY <3>6 DEF CreateArtwork, MoveArtwork
    <3>7. ASSUME NEW a, DeleteArtwork(r, a) PROVE logs \subseteq logs'
      BY <3>7 DEF DeleteArtwork
    <3>8. ASSUME NEW d, NEW row, ChangeDevice(r, d, row) PROVE logs \subseteq logs'
      BY <3>8 DEF ChangeDevice
    <3>9. ASSUME NEW d, NEW a, NEW s, NEW h,
                 DeleteDevice(r, d) \/ UpdateHost(r, d, h) \/ CreateDevice(r, d, a, s, h)
          PROVE  logs \subseteq logs'
      BY <3>9 DEF DeleteDevice, UpdateHost, CreateDevice, rows
    <3>10. ASSUME NEW d, NEW a, NEW s, ReconfigureDevice(r, d) \/ MoveDevice(r, d, a, s)
           PROVE  logs \subseteq logs'
      BY <3>8, <3>10 DEF ReconfigureDevice, MoveDevice
    <3>11. ASSUME NEW kind, NEW D, ChoreBegins(r, kind, D) PROVE logs \subseteq logs'
      BY <3>11 DEF ChoreBegins, rows
    <3> QED  BY <2>1, <3>1, <3>2, <3>3, <3>4, <3>5, <3>6, <3>7, <3>9, <3>10, <3>11
             DEF NewRequest
  <2>2. CASE Restart  BY <2>2 DEF Restart, rows
  <2>3. ASSUME NEW r \in Admins, RequestStep(r) PROVE logs \subseteq logs'
    BY <2>3, DeviceStepKeeps
    DEF RequestStep, ReplaceSatellites, CommitProtection, LoseProtection, rows
  <2> QED  BY <1>1, <2>1, <2>2, <2>3, LoopStepKeeps DEF Next
<1>2. ASSUME UNCHANGED vars PROVE logs = logs'
  BY <1>2 DEF vars, rows
<1>3. [Next]_vars => [\A l \in logs \ logs' : asset'[l.asset] = Gone]_vars
  BY <1>1, <1>2
<1> QED  BY <1>3, PTL DEF Spec, HistoryKept

-----------------------------------------------------------------------------
(* The rows                                                                *)

Tables ==
  /\ satellite \subseteq Satellites
  /\ exhibition \in [Exhibitions -> (SUBSET Satellites) \cup {None, Gone}]
  /\ artwork \in [Artworks -> ArtworkRow \cup {None, Gone}]
  /\ device \in [Devices -> DeviceRow \cup {None, Gone}]
  /\ asset \in [Assets -> Numbers \cup {None, Gone}]
  /\ logs \subseteq Entry /\ held \subseteq Assets \X Hosts

\* The foreign keys, and the unique number of an asset.
Keys ==
  /\ \A e \in Rows(exhibition) : exhibition[e] \subseteq satellite
  /\ \A a \in Rows(artwork) : artwork[a].exhibition \in Rows(exhibition)
  /\ \A d \in Rows(device) : /\ device[d].artwork \in Rows(artwork)
                             /\ device[d].satellite \in satellite \cup {None}
                             /\ device[d].asset \in Rows(asset) \cup {None}
  /\ \A l \in logs : l.asset \in Rows(asset)
  /\ \A a, b \in Rows(asset) : asset[a] = asset[b] => a = b

RowsInv == Tables /\ Keys

\* What a transaction may have inserted.
Insertion == {m \in Partial(Assets, Numbers) : \A a, b \in DOMAIN m : m[a] = m[b] => a = b}

LEMMA RowsOf ==
  ASSUME NEW X, NEW S, AreRows(S), NEW table \in [X -> S \cup {None, Gone}]
  PROVE  \A x : x \in Rows(table) <=> x \in X /\ table[x] \in S
BY DEF Rows, AreRows

LEMMA RowsOfTables ==
  ASSUME Tables
  PROVE  /\ \A e \in Rows(exhibition) : e \in Exhibitions /\ exhibition[e] \subseteq Satellites
         /\ \A a : a \in Rows(artwork) <=> a \in Artworks /\ artwork[a] \in ArtworkRow
         /\ \A d : d \in Rows(device) <=> d \in Devices /\ device[d] \in DeviceRow
         /\ \A a : a \in Rows(asset) <=> a \in Assets /\ asset[a] \in Numbers
<1>1. \A e \in Rows(exhibition) : e \in Exhibitions /\ exhibition[e] \subseteq Satellites
  BY DEF Tables, Rows
<1>2. \A a : a \in Rows(artwork) <=> a \in Artworks /\ artwork[a] \in ArtworkRow
  BY AbsentRows, RowsOf, Zenon DEF Tables
<1>3. \A d : d \in Rows(device) <=> d \in Devices /\ device[d] \in DeviceRow
  BY AbsentRows, RowsOf, Zenon DEF Tables
<1>4. \A a : a \in Rows(asset) <=> a \in Assets /\ asset[a] \in Numbers
  BY AbsentRows, RowsOf, Zenon DEF Tables
<1> QED  BY <1>1, <1>2, <1>3, <1>4

LEMMA SetsAreRows == \A S \in SUBSET Satellites : S \notin {None, Gone}
BY AbsentRows DEF AreRows

LEMMA CommitRows ==
  ASSUME RowsInv, NEW update \in Partial(Devices, DeviceRow), NEW made \in Insertion,
         NEW entries \in SUBSET Entry, Accepted(update, made, entries),
         Commit(update, made, entries)
  PROVE  RowsInv'
<1>1. made \in Partial(Assets, Numbers)  BY DEF Insertion
<1>2. /\ DOMAIN update \subseteq Devices /\ \A d \in DOMAIN update : update[d] \in DeviceRow
      /\ DOMAIN made \subseteq Assets /\ \A a \in DOMAIN made : made[a] \in Numbers
  BY <1>1, PartialApplies
<1>3. Tables  BY DEF RowsInv
<1>4. device' = [d \in Devices |-> IF d \in DOMAIN update THEN update[d] ELSE device[d]]
  <2>1. DOMAIN update \cup DOMAIN device = Devices  BY <1>2, <1>3 DEF Tables
  <2> QED  BY <2>1 DEF Commit, Over
<1>5. asset' = [a \in Assets |-> IF a \in DOMAIN made THEN made[a] ELSE asset[a]]
  <2>1. DOMAIN made \cup DOMAIN asset = Assets  BY <1>2, <1>3 DEF Tables
  <2> QED  BY <2>1 DEF Commit, Over
<1>6. device' \in [Devices -> DeviceRow \cup {None, Gone}]  BY <1>2, <1>3, <1>4 DEF Tables
<1>7. asset' \in [Assets -> Numbers \cup {None, Gone}]  BY <1>2, <1>3, <1>5 DEF Tables
<1>8. logs' \subseteq Entry  BY <1>3 DEF Commit, Tables
<1>9. held' \subseteq Assets \X Hosts
  <2>1. \A d \in DOMAIN update : update[d].asset # None =>
          <<update[d].asset, update[d].host>> \in Assets \X Hosts
    BY <1>2 DEF DeviceRow
  <2> QED  BY <1>3, <2>1 DEF Commit, Tables
<1>10. Tables'  BY <1>3, <1>6, <1>7, <1>8, <1>9 DEF Commit, Tables
<1>11. Rows(asset)' = Rows(asset) \cup DOMAIN made
  BY <1>2, <1>3, <1>5, AbsentRows DEF AreRows, Rows, Tables
<1>12. \A d \in Rows(device)' : d \in DOMAIN update \/ (d \in Rows(device) /\ device'[d] = device[d])
  BY <1>3, <1>4 DEF Rows, Tables
<1>13. \A d \in DOMAIN update : device'[d] = update[d]  BY <1>2, <1>4
<1>14. Rows(artwork)' = Rows(artwork)  BY DEF Commit, Rows
<1>15. \A d \in Rows(device)' : /\ device'[d].artwork \in Rows(artwork)'
                                /\ device'[d].satellite \in satellite' \cup {None}
                                /\ device'[d].asset \in Rows(asset)' \cup {None}
  BY <1>11, <1>12, <1>13, <1>14 DEF RowsInv, Keys, Accepted, Commit
<1>16. \A l \in logs' : l.asset \in Rows(asset)'
  BY <1>11 DEF RowsInv, Keys, Accepted, Commit
<1>17. \A a, b \in Rows(asset)' : asset'[a] = asset'[b] => a = b
  <2> SUFFICES ASSUME NEW a \in Rows(asset)', NEW b \in Rows(asset)', asset'[a] = asset'[b]
               PROVE  a = b
    OBVIOUS
  <2>1. /\ a \in DOMAIN made => asset'[a] = made[a]
        /\ a \notin DOMAIN made => a \in Rows(asset) /\ asset'[a] = asset[a]
        /\ b \in DOMAIN made => asset'[b] = made[b]
        /\ b \notin DOMAIN made => b \in Rows(asset) /\ asset'[b] = asset[b]
    BY <1>2, <1>3, <1>5, <1>11 DEF Tables, Rows
  <2> QED  BY <2>1 DEF Insertion, Accepted, RowsInv, Keys
<1>18. /\ \A e \in Rows(exhibition)' : exhibition'[e] \subseteq satellite'
       /\ \A a \in Rows(artwork)' : artwork'[a].exhibition \in Rows(exhibition)'
  BY DEF RowsInv, Keys, Commit, Rows
<1>19. Keys'  BY <1>15, <1>16, <1>17, <1>18 DEF Keys
<1> QED  BY <1>10, <1>19 DEF RowsInv

LEMMA RollbackRows ==
  ASSUME RowsInv, NEW update \in Partial(Devices, DeviceRow), NEW made \in Insertion,
         NEW entries \in SUBSET Entry, CommitOrRollback(update, made, entries)
  PROVE  RowsInv'
<1>1. CASE UNCHANGED rows  BY <1>1 DEF rows, RowsInv, Tables, Keys, Rows
<1> QED  BY <1>1, CommitRows DEF CommitOrRollback

\* A device row changes, and still refers to rows there are.
LEMMA DeviceRows ==
  ASSUME RowsInv, UNCHANGED <<satellite, exhibition, artwork, asset, logs, held>>,
         device' \in [Devices -> DeviceRow \cup {None, Gone}],
         \A d \in Devices : device'[d] = device[d] \/ device'[d] \in {None, Gone} \/
           (/\ device'[d].artwork \in Rows(artwork)
            /\ device'[d].satellite \in satellite \cup {None}
            /\ device'[d].asset \in Rows(asset) \cup {None})
  PROVE  RowsInv'
<1>1. \A d \in Devices : d \in Rows(device)' =>
        (d \in Rows(device) /\ device'[d] = device[d]) \/
        (/\ device'[d].artwork \in Rows(artwork)
         /\ device'[d].satellite \in satellite \cup {None}
         /\ device'[d].asset \in Rows(asset) \cup {None})
  BY DEF Rows, RowsInv, Tables
<1>2. Rows(artwork)' = Rows(artwork) /\ Rows(asset)' = Rows(asset)
      /\ Rows(exhibition)' = Rows(exhibition)
  BY DEF Rows
<1>3. Tables'  BY DEF RowsInv, Tables
<1>4. \A d \in Rows(device)' : d \in Devices  BY <1>3 DEF Tables, Rows
<1>5. Keys'  BY <1>1, <1>2, <1>4 DEF RowsInv, Keys
<1> QED  BY <1>3, <1>5 DEF RowsInv

\* Rows go; what refers to them goes too, or loses the reference.
LEMMA DeleteExhibitionRows ==
  ASSUME RowsInv, NEW r, NEW e \in Exhibitions, DeleteExhibition(r, e) PROVE RowsInv'
<1> DEFINE A == {a \in Rows(artwork) : artwork[a].exhibition = e}
<1>1. /\ exhibition' = Deleted(exhibition, {e}) /\ artwork' = Deleted(artwork, A)
      /\ device' = Deleted(device, DevicesOf(e)) /\ UNCHANGED <<satellite, asset, logs, held>>
  BY DEF DeleteExhibition
<1>2. Tables'  BY <1>1 DEF Deleted, Rows, RowsInv, Tables
<1>3. \A x \in Rows(exhibition)' : x \in Rows(exhibition) /\ exhibition'[x] = exhibition[x]
  BY <1>1 DEF Deleted, Rows, RowsInv, Tables
<1>4. \A a \in Rows(artwork)' : /\ a \in Rows(artwork) /\ artwork'[a] = artwork[a]
                                /\ artwork[a].exhibition # e
  BY <1>1 DEF Deleted, Rows, RowsInv, Tables
<1>5. \A x \in Rows(exhibition) : x # e => x \in Rows(exhibition)'
  BY <1>1 DEF Deleted, Rows, RowsInv, Tables
<1>6. \A d \in Rows(device)' : /\ d \in Rows(device) /\ device'[d] = device[d]
                               /\ d \notin DevicesOf(e)
  BY <1>1 DEF Deleted, Rows, RowsInv, Tables
<1>7. \A a \in Rows(artwork) : a \notin A => a \in Rows(artwork)'
  BY <1>1 DEF Deleted, Rows, RowsInv, Tables
<1>8. \A d \in Rows(device)' : device'[d].artwork \in Rows(artwork)'
  BY <1>6, <1>7 DEF DevicesOf, RowsInv, Keys
<1>9. Rows(asset)' = Rows(asset)  BY <1>1 DEF Rows
<1>10. Keys'  BY <1>1, <1>3, <1>4, <1>5, <1>6, <1>8, <1>9 DEF RowsInv, Keys
<1> QED  BY <1>2, <1>10 DEF RowsInv

LEMMA DeleteArtworkRows ==
  ASSUME RowsInv, NEW r, NEW a \in Artworks, DeleteArtwork(r, a) PROVE RowsInv'
<1> DEFINE D == {d \in Rows(device) : device[d].artwork = a}
<1>1. /\ artwork' = Deleted(artwork, {a}) /\ device' = Deleted(device, D)
      /\ UNCHANGED <<satellite, exhibition, asset, logs, held>>
  BY DEF DeleteArtwork
<1>2. Tables'  BY <1>1 DEF Deleted, Rows, RowsInv, Tables
<1>3. \A x \in Rows(artwork)' : x \in Rows(artwork) /\ artwork'[x] = artwork[x]
  BY <1>1 DEF Deleted, Rows, RowsInv, Tables
<1>4. \A x \in Rows(artwork) : x # a => x \in Rows(artwork)'
  BY <1>1 DEF Deleted, Rows, RowsInv, Tables
<1>5. \A d \in Rows(device)' : d \in Rows(device) /\ device'[d] = device[d] /\ d \notin D
  BY <1>1 DEF Deleted, Rows, RowsInv, Tables
<1>6. Rows(asset)' = Rows(asset) /\ Rows(exhibition)' = Rows(exhibition)  BY <1>1 DEF Rows
<1>7. Keys'  BY <1>1, <1>3, <1>4, <1>5, <1>6 DEF RowsInv, Keys
<1> QED  BY <1>2, <1>7 DEF RowsInv

\* The rows of devices with one field changed.
LEMMA SatelliteField ==
  ASSUME NEW row \in DeviceRow, NEW s \in Satellites \cup {None},
         NEW new, new = [row EXCEPT !.satellite = s]
  PROVE  /\ new \in DeviceRow /\ new.satellite = s
         /\ new.artwork = row.artwork /\ new.asset = row.asset /\ new.host = row.host
BY DEF DeviceRow

LEMMA AssetField ==
  ASSUME NEW row \in DeviceRow, NEW a \in Assets \cup {None},
         NEW new, new = [row EXCEPT !.asset = a]
  PROVE  /\ new \in DeviceRow /\ new.asset = a
         /\ new.artwork = row.artwork /\ new.satellite = row.satellite /\ new.host = row.host
BY DEF DeviceRow

LEMMA CachedField ==
  ASSUME NEW row \in DeviceRow, NEW h \in Hosts \cup {None},
         NEW new, new = [row EXCEPT !.cached = h]
  PROVE  /\ new \in DeviceRow /\ new.artwork = row.artwork /\ new.satellite = row.satellite
         /\ new.asset = row.asset /\ new.host = row.host
BY DEF DeviceRow

LEMMA ArtworkField ==
  ASSUME NEW row \in DeviceRow, NEW a \in Artworks, NEW s \in Satellites \cup {None},
         NEW new, new = [row EXCEPT !.artwork = a, !.satellite = s]
  PROVE  /\ new \in DeviceRow /\ new.artwork = a /\ new.satellite = s
         /\ new.asset = row.asset /\ new.host = row.host
BY DEF DeviceRow

LEMMA MovedField ==
  ASSUME NEW row \in DeviceRow, NEW a \in Artworks, NEW new, new = [row EXCEPT !.artwork = a]
  PROVE  /\ new \in DeviceRow /\ new.artwork = a /\ new.satellite = row.satellite
         /\ new.asset = row.asset /\ new.host = row.host
BY DEF DeviceRow

LEMMA RevokeSatelliteRows ==
  ASSUME RowsInv, NEW r, NEW s \in Satellites, RevokeSatellite(r, s) PROVE RowsInv'
<1> DEFINE users == {d \in Rows(device) : device[d].satellite = s}
<1>1. /\ satellite' = satellite \ {s} /\ UNCHANGED <<artwork, asset, logs, held>>
      /\ exhibition' = [e \in Exhibitions |->
           IF e \in Rows(exhibition) THEN exhibition[e] \ {s} ELSE exhibition[e]]
      /\ device' = [d \in Devices |->
           IF d \in users THEN [device[d] EXCEPT !.satellite = None] ELSE device[d]]
  BY DEF RevokeSatellite
<1>2. Tables  BY DEF RowsInv
<1>3. /\ exhibition' \in [Exhibitions -> (SUBSET Satellites) \cup {None, Gone}]
      /\ \A e \in Rows(exhibition)' : e \in Rows(exhibition)
      /\ \A e \in Rows(exhibition) : e \in Rows(exhibition)' /\ exhibition'[e] = exhibition[e] \ {s}
  <2>1. \A e \in Rows(exhibition) : e \in Exhibitions /\ exhibition[e] \ {s} \in SUBSET Satellites
    BY <1>2, RowsOfTables
  <2>2. \A e \in Rows(exhibition) : exhibition[e] \ {s} \notin {None, Gone}
    BY <2>1, SetsAreRows
  <2>3. exhibition' \in [Exhibitions -> (SUBSET Satellites) \cup {None, Gone}]
    BY <1>1, <1>2, <2>1 DEF Tables
  <2>4. \A e \in Exhibitions : exhibition'[e] =
          IF e \in Rows(exhibition) THEN exhibition[e] \ {s} ELSE exhibition[e]
    BY <1>1
  <2>5. DOMAIN exhibition' = Exhibitions /\ DOMAIN exhibition = Exhibitions
    BY <1>1, <1>2 DEF Tables
  <2> QED  BY <2>1, <2>2, <2>3, <2>4, <2>5 DEF Rows
<1>4. \A d \in users : device[d] \in DeviceRow /\ [device[d] EXCEPT !.satellite = None] \in DeviceRow
  BY <1>2, RowsOfTables, SatelliteField
<1>5. device' \in [Devices -> DeviceRow \cup {None, Gone}]
  BY <1>1, <1>2, <1>4 DEF Tables
<1>6. Tables'  BY <1>1, <1>2, <1>3, <1>5 DEF Tables
<1>7. \A d \in Rows(device)' : d \in Rows(device) /\ d \in Devices
  BY <1>1, <1>2, <1>4, AbsentRows DEF Rows, Tables, AreRows
<1>8. \A d \in Rows(device)' : /\ device'[d].artwork = device[d].artwork
                               /\ device'[d].asset = device[d].asset
                               /\ device'[d].satellite \in (satellite \ {s}) \cup {None}
  <2> SUFFICES ASSUME NEW d \in Rows(device)'
               PROVE  /\ device'[d].artwork = device[d].artwork
                      /\ device'[d].asset = device[d].asset
                      /\ device'[d].satellite \in (satellite \ {s}) \cup {None}
    OBVIOUS
  <2>1. CASE d \in users
    <3>1. device'[d] = [device[d] EXCEPT !.satellite = None]  BY <1>1, <1>7, <2>1
    <3>2. device[d] \in DeviceRow /\ None \in Satellites \cup {None}  BY <1>4, <2>1
    <3> QED  BY <3>1, <3>2, SatelliteField
  <2>2. CASE d \notin users
    <3>1. device'[d] = device[d]  BY <1>1, <1>7, <2>2
    <3> QED  BY <1>7, <2>2, <3>1 DEF RowsInv, Keys
  <2> QED  BY <2>1, <2>2
<1>9. Rows(artwork)' = Rows(artwork) /\ Rows(asset)' = Rows(asset)  BY <1>1 DEF Rows
<1>10. \A e \in Rows(exhibition)' : exhibition'[e] \subseteq satellite'
  BY <1>1, <1>3 DEF RowsInv, Keys
<1>11. \A a \in Rows(artwork)' : artwork'[a].exhibition \in Rows(exhibition)'
  BY <1>1, <1>3, <1>9 DEF RowsInv, Keys
<1>12. /\ \A d \in Rows(device)' : /\ device'[d].artwork \in Rows(artwork)'
                                   /\ device'[d].satellite \in satellite' \cup {None}
                                   /\ device'[d].asset \in Rows(asset)' \cup {None}
       /\ \A l \in logs' : l.asset \in Rows(asset)'
       /\ \A a, b \in Rows(asset)' : asset'[a] = asset'[b] => a = b
  BY <1>1, <1>7, <1>8, <1>9 DEF RowsInv, Keys
<1>13. Keys'  BY <1>10, <1>11, <1>12 DEF Keys
<1> QED  BY <1>6, <1>13 DEF RowsInv

LEMMA DeleteAssetRows ==
  ASSUME RowsInv, NEW r, NEW a \in Assets, DeleteAsset(r, a) PROVE RowsInv'
<1> DEFINE users == {d \in Rows(device) : device[d].asset = a}
<1>1. /\ asset' = [asset EXCEPT ![a] = Gone] /\ logs' = {l \in logs : l.asset # a}
      /\ device' = [d \in Devices |->
           IF d \in users THEN [device[d] EXCEPT !.asset = None] ELSE device[d]]
      /\ UNCHANGED <<satellite, exhibition, artwork, held>>
  BY DEF DeleteAsset
<1>2. Tables  BY DEF RowsInv
<1>3. \A d \in users : device[d] \in DeviceRow /\ [device[d] EXCEPT !.asset = None] \in DeviceRow
  BY <1>2, RowsOfTables, AssetField
<1>4. device' \in [Devices -> DeviceRow \cup {None, Gone}]  BY <1>1, <1>2, <1>3 DEF Tables
<1>5. asset' \in [Assets -> Numbers \cup {None, Gone}]  BY <1>1, <1>2 DEF Tables
<1>6. Tables'  BY <1>1, <1>2, <1>4, <1>5 DEF Tables
<1>7. \A b : b \in Rows(asset)' <=> b \in Rows(asset) /\ b # a
  BY <1>1, <1>2 DEF Rows, Tables
<1>8. \A b \in Rows(asset) : b # a => asset'[b] = asset[b]
  BY <1>1, <1>2 DEF Rows, Tables
<1>9. \A d \in Rows(device)' : d \in Rows(device) /\ d \in Devices
  BY <1>1, <1>2, <1>3, AbsentRows DEF Rows, Tables, AreRows
<1>10. \A d \in Rows(device)' : /\ device'[d].artwork = device[d].artwork
                                /\ device'[d].satellite = device[d].satellite
                                /\ device'[d].asset \in (Rows(asset) \ {a}) \cup {None}
  <2> SUFFICES ASSUME NEW d \in Rows(device)'
               PROVE  /\ device'[d].artwork = device[d].artwork
                      /\ device'[d].satellite = device[d].satellite
                      /\ device'[d].asset \in (Rows(asset) \ {a}) \cup {None}
    OBVIOUS
  <2>1. CASE d \in users
    <3>1. device'[d] = [device[d] EXCEPT !.asset = None]  BY <1>1, <1>9, <2>1
    <3>2. device[d] \in DeviceRow /\ None \in Assets \cup {None}  BY <1>3, <2>1
    <3> QED  BY <3>1, <3>2, AssetField
  <2>2. CASE d \notin users
    <3>1. device'[d] = device[d]  BY <1>1, <1>9, <2>2
    <3> QED  BY <1>9, <2>2, <3>1 DEF RowsInv, Keys
  <2> QED  BY <2>1, <2>2
<1>11. Rows(artwork)' = Rows(artwork) /\ Rows(exhibition)' = Rows(exhibition)
  BY <1>1 DEF Rows
<1>12. \A d \in Rows(device)' : /\ device'[d].artwork \in Rows(artwork)'
                                /\ device'[d].satellite \in satellite' \cup {None}
                                /\ device'[d].asset \in Rows(asset)' \cup {None}
  BY <1>1, <1>7, <1>9, <1>10, <1>11 DEF RowsInv, Keys
<1>13. \A l \in logs' : l.asset \in Rows(asset)'  BY <1>1, <1>7 DEF RowsInv, Keys
<1>14. \A b, c \in Rows(asset)' : asset'[b] = asset'[c] => b = c
  BY <1>7, <1>8 DEF RowsInv, Keys
<1>15. Keys'  BY <1>1, <1>11, <1>12, <1>13, <1>14 DEF RowsInv, Keys
<1> QED  BY <1>6, <1>15 DEF RowsInv

LEMMA ExhibitionRows ==
  ASSUME RowsInv, UNCHANGED <<satellite, artwork, asset, logs, held>>,
         NEW e \in Exhibitions, NEW S \in SUBSET satellite,
         exhibition' = [exhibition EXCEPT ![e] = S],
         device' \in [Devices -> DeviceRow \cup {None, Gone}],
         \A d \in Rows(device)' : /\ d \in Rows(device)
                                  /\ device'[d].artwork = device[d].artwork
                                  /\ device'[d].asset = device[d].asset
                                  /\ device'[d].satellite \in {device[d].satellite, None}
  PROVE  RowsInv'
<1>1. Tables  BY DEF RowsInv
<1>2. S \in SUBSET Satellites /\ S \notin {None, Gone}
  BY <1>1, SetsAreRows DEF Tables
<1>3. exhibition' \in [Exhibitions -> (SUBSET Satellites) \cup {None, Gone}]
  BY <1>1, <1>2 DEF Tables
<1>4. Tables'  BY <1>1, <1>3 DEF Tables
<1>5. Rows(exhibition)' = Rows(exhibition) \cup {e} /\ exhibition'[e] = S
      /\ \A x \in Rows(exhibition) : x # e => exhibition'[x] = exhibition[x]
  BY <1>1, <1>2 DEF Tables, Rows
<1>6. Rows(artwork)' = Rows(artwork) /\ Rows(asset)' = Rows(asset)  BY DEF Rows
<1>7. \A x \in Rows(exhibition)' : exhibition'[x] \subseteq satellite'
  BY <1>5 DEF RowsInv, Keys
<1>8. \A d \in Rows(device)' : /\ device'[d].artwork \in Rows(artwork)'
                               /\ device'[d].satellite \in satellite' \cup {None}
                               /\ device'[d].asset \in Rows(asset)' \cup {None}
  BY <1>6 DEF RowsInv, Keys
<1>9. Keys'  BY <1>5, <1>6, <1>7, <1>8 DEF RowsInv, Keys
<1> QED  BY <1>4, <1>9 DEF RowsInv

LEMMA CreateExhibitionRows ==
  ASSUME RowsInv, NEW r, NEW e \in Exhibitions, CreateExhibition(r, e) PROVE RowsInv'
<1>1. /\ exhibition' = [exhibition EXCEPT ![e] = {}]
      /\ UNCHANGED <<satellite, artwork, device, asset, logs, held>>
  BY DEF CreateExhibition
<1>2. device \in [Devices -> DeviceRow \cup {None, Gone}]  BY DEF RowsInv, Tables
<1>3. Rows(device)' = Rows(device)  BY <1>1 DEF Rows
<1> QED  BY <1>1, <1>2, <1>3, ExhibitionRows

\* The devices of an exhibition without the satellites it loses.
LEMMA ClearedDevices ==
  ASSUME RowsInv, NEW D \in SUBSET Rows(device),
         device' = [d \in Devices |->
           IF d \in D THEN [device[d] EXCEPT !.satellite = None] ELSE device[d]]
  PROVE  /\ device' \in [Devices -> DeviceRow \cup {None, Gone}]
         /\ \A d \in Rows(device)' : d \in Rows(device) /\ d \in Devices
         /\ \A d \in Rows(device)' : /\ device'[d].artwork = device[d].artwork
                                     /\ device'[d].asset = device[d].asset
                                     /\ device'[d].host = device[d].host
                                     /\ d \in D => device'[d].satellite = None
                                     /\ d \notin D => device'[d].satellite = device[d].satellite
<1>1. Tables  BY DEF RowsInv
<1>2. \A d \in D : device[d] \in DeviceRow /\ [device[d] EXCEPT !.satellite = None] \in DeviceRow
  BY <1>1, RowsOfTables, SatelliteField
<1>3. device' \in [Devices -> DeviceRow \cup {None, Gone}]  BY <1>1, <1>2 DEF Tables
<1>4. \A d \in Rows(device)' : d \in Rows(device) /\ d \in Devices
  BY <1>1, <1>2 DEF Rows, Tables
<1>5. ASSUME NEW d \in Rows(device)'
      PROVE  /\ device'[d].artwork = device[d].artwork
             /\ device'[d].asset = device[d].asset
             /\ device'[d].host = device[d].host
             /\ d \in D => device'[d].satellite = None
             /\ d \notin D => device'[d].satellite = device[d].satellite
  <2>1. CASE d \in D
    <3>1. device'[d] = [device[d] EXCEPT !.satellite = None]  BY <1>4, <2>1
    <3>2. device[d] \in DeviceRow /\ None \in Satellites \cup {None}  BY <1>2, <2>1
    <3> QED  BY <2>1, <3>1, <3>2, SatelliteField
  <2>2. CASE d \notin D  BY <1>4, <2>2
  <2> QED  BY <2>1, <2>2
<1> QED  BY <1>3, <1>4, <1>5

LEMMA UnchangedRows == ASSUME RowsInv, UNCHANGED rows PROVE RowsInv'
BY DEF rows, RowsInv, Tables, Keys, Rows

\* The satellites of an exhibition are replaced, or what has come between is an error.
ReplacedRows(r) ==
  LET q == request[r]
      e == q.plan.exhibition
      removed == q.read.exhibition[e] \ q.plan.satellites
      added == q.plan.satellites \ q.read.exhibition[e]
      cleared == Users(q.read, e, removed)
  IN  /\ e \in Rows(exhibition) /\ cleared \subseteq Rows(device) /\ added \subseteq satellite
      /\ exhibition' = [exhibition EXCEPT ![e] = (@ \ removed) \cup added]
      /\ device' = [d \in Devices |->
           IF d \in cleared THEN [device[d] EXCEPT !.satellite = None] ELSE device[d]]

LEMMA ReplaceSatellitesCases ==
  ASSUME RowsInv, NEW r, ReplaceSatellites(r)
  PROVE  /\ ReplacedRows(r) \/ UNCHANGED rows
         /\ UNCHANGED <<satellite, artwork, asset, logs, held>>
<1> DEFINE q == request[r]
           e == q.plan.exhibition
           removed == q.read.exhibition[e] \ q.plan.satellites
           added == q.plan.satellites \ q.read.exhibition[e]
           cleared == Users(q.read, e, removed)
           accepted == /\ e \in Rows(exhibition) /\ cleared \subseteq Rows(device)
                       /\ removed \subseteq exhibition[e]
                       /\ added \subseteq satellite \ exhibition[e]
<1>1. /\ exhibition' = IF accepted
           THEN [exhibition EXCEPT ![e] = (@ \ removed) \cup added] ELSE exhibition
      /\ device' = [d \in Devices |->
           IF accepted /\ d \in cleared THEN [device[d] EXCEPT !.satellite = None] ELSE device[d]]
      /\ UNCHANGED <<satellite, artwork, asset, logs, held>>
  BY DEF ReplaceSatellites
<1>2. CASE accepted
  <2>1. added \subseteq satellite  BY <1>2
  <2> QED  BY <1>1, <1>2, <2>1 DEF ReplacedRows
<1>3. CASE ~accepted
  <2> HIDE DEF accepted
  <2>1. device' = [d \in Devices |-> device[d]] /\ exhibition' = exhibition  BY <1>1, <1>3
  <2>2. device' = device  BY <2>1 DEF RowsInv, Tables
  <2> QED  BY <1>1, <2>1, <2>2 DEF rows
<1> QED  BY <1>2, <1>3

LEMMA ReplaceSatellitesRows == ASSUME RowsInv, NEW r, ReplaceSatellites(r) PROVE RowsInv'
<1> DEFINE q == request[r]
           e == q.plan.exhibition
           removed == q.read.exhibition[e] \ q.plan.satellites
           added == q.plan.satellites \ q.read.exhibition[e]
           D == Users(q.read, e, removed)
           S == (exhibition[e] \ removed) \cup added
<1>1. CASE UNCHANGED rows  BY <1>1, UnchangedRows
<1>2. CASE ReplacedRows(r)
  <2>1. /\ exhibition' = [exhibition EXCEPT ![e] = S] /\ e \in Rows(exhibition)
        /\ added \subseteq satellite /\ D \in SUBSET Rows(device)
        /\ device' = [d \in Devices |->
             IF d \in D THEN [device[d] EXCEPT !.satellite = None] ELSE device[d]]
    BY <1>2 DEF ReplacedRows
  <2>2. UNCHANGED <<satellite, artwork, asset, logs, held>>  BY ReplaceSatellitesCases
  <2>3. exhibition[e] \subseteq satellite  BY <2>1 DEF RowsInv, Keys
  <2>4. S \in SUBSET satellite  BY <2>1, <2>3
  <2>5. e \in Exhibitions  BY <2>1, RowsOfTables DEF RowsInv
  <2> HIDE DEF D, S, e, added
  <2>6. device' \in [Devices -> DeviceRow \cup {None, Gone}]
        /\ \A d \in Rows(device)' : /\ d \in Rows(device)
                                    /\ device'[d].artwork = device[d].artwork
                                    /\ device'[d].asset = device[d].asset
                                    /\ device'[d].satellite \in {device[d].satellite, None}
    BY <2>1, ClearedDevices
  <2> QED  BY <2>1, <2>2, <2>4, <2>5, <2>6, ExhibitionRows
<1> QED  BY <1>1, <1>2, ReplaceSatellitesCases

\* The rows of artworks with other rules, or in another exhibition.
LEMMA ArtworkRows ==
  ASSUME RowsInv, UNCHANGED <<satellite, exhibition, device, asset, logs, held>>,
         NEW a \in Artworks, NEW row \in ArtworkRow, row.exhibition \in Rows(exhibition),
         artwork' = [artwork EXCEPT ![a] = row]
  PROVE  RowsInv'
<1>1. Tables  BY DEF RowsInv
<1>2. row \notin {None, Gone}  BY AbsentRows DEF AreRows
<1>3. Tables'  BY <1>1 DEF Tables
<1>4. Rows(artwork)' = Rows(artwork) \cup {a} /\ artwork'[a] = row
      /\ \A x \in Rows(artwork) : x # a => artwork'[x] = artwork[x]
  BY <1>1, <1>2 DEF Tables, Rows
<1>5. Rows(exhibition)' = Rows(exhibition) /\ Rows(device)' = Rows(device)
      /\ Rows(asset)' = Rows(asset)
  BY DEF Rows
<1>6. Keys'  BY <1>4, <1>5 DEF RowsInv, Keys
<1> QED  BY <1>3, <1>6 DEF RowsInv

LEMMA ArtworkActionRows ==
  ASSUME RowsInv, NEW r, NEW a \in Artworks, NEW e \in Exhibitions,
         CreateArtwork(r, a, e) \/ MoveArtwork(r, a, e)
  PROVE  RowsInv'
<1>1. CASE CreateArtwork(r, a, e)
  <2> DEFINE row == [exhibition |-> e, config |-> None, timeslice |-> FALSE]
  <2>1. row \in ArtworkRow /\ row.exhibition = e  BY DEF ArtworkRow
  <2> HIDE DEF row
  <2>2. e \in Rows(exhibition) /\ artwork' = [artwork EXCEPT ![a] = row]
        /\ UNCHANGED <<satellite, exhibition, device, asset, logs, held>>
    BY <1>1 DEF CreateArtwork, row
  <2> QED  BY <2>1, <2>2, ArtworkRows
<1>2. CASE MoveArtwork(r, a, e)
  <2> DEFINE row == [artwork[a] EXCEPT !.exhibition = e]
  <2>1. artwork[a] \in ArtworkRow
    BY <1>2, RowsOfTables DEF MoveArtwork, RowsInv
  <2>2. row \in ArtworkRow /\ row.exhibition = e  BY <2>1 DEF ArtworkRow
  <2>3. e \in Rows(exhibition) /\ artwork' = [artwork EXCEPT ![a] = row]
        /\ UNCHANGED <<satellite, exhibition, device, asset, logs, held>>
    BY <1>2 DEF MoveArtwork
  <2> HIDE DEF row
  <2> QED  BY <2>2, <2>3, ArtworkRows
<1> QED  BY <1>1, <1>2

\* What a request is to write.
ExhibitionPlan == [exhibition : Exhibitions, satellites : SUBSET Satellites]
RulesPlan == [artwork : Artworks, config : Configs \cup {None}, timeslice : BOOLEAN]
AssignPlan == [artwork : Artworks \cup {None}, satellite : Satellites]

LEMMA CommitProtectionRow ==
  ASSUME Tables, NEW r, CommitProtection(r), NEW p, p = request[r].plan, p \in RulesPlan,
         p.artwork \in Rows(artwork), NEW row,
         row = [artwork[p.artwork] EXCEPT !.config = p.config, !.timeslice = p.timeslice]
  PROVE  /\ p.artwork \in Artworks /\ artwork[p.artwork] \in ArtworkRow /\ row \in ArtworkRow
         /\ artwork' = [artwork EXCEPT ![p.artwork] = row]
         /\ row.exhibition = artwork[p.artwork].exhibition
         /\ row.config = p.config /\ row.timeslice = p.timeslice
<1>1. p.artwork \in Artworks /\ artwork[p.artwork] \in ArtworkRow  BY RowsOfTables
<1> DEFINE old == artwork[p.artwork]
<1>2. /\ row \in ArtworkRow /\ row.exhibition = old.exhibition
      /\ row.config = p.config /\ row.timeslice = p.timeslice
  <2> DEFINE c == p.config
             t == p.timeslice
  <2>1. old \in ArtworkRow /\ row = [old EXCEPT !.config = c, !.timeslice = t]
    BY <1>1
  <2>2. c \in Configs \cup {None} /\ t \in BOOLEAN  BY DEF RulesPlan
  <2> HIDE DEF old, c, t
  <2>3. row \in ArtworkRow /\ row.exhibition = old.exhibition /\ row.config = c
    BY <2>1, <2>2 DEF ArtworkRow
  <2>4. row.timeslice = t  BY <2>1, <2>2, Zenon DEF ArtworkRow
  <2> QED  BY <2>3, <2>4, Zenon DEF c, t
<1>3. artwork' = [artwork EXCEPT ![p.artwork] = row]
  BY DEF CommitProtection
<1> QED  BY <1>1, <1>2, <1>3

LEMMA CommitProtectionRows ==
  ASSUME RowsInv, NEW r, CommitProtection(r), request[r].plan \in RulesPlan,
         request[r].plan.artwork \in Rows(artwork)
  PROVE  RowsInv'
<1> DEFINE p == request[r].plan
           row == [artwork[p.artwork] EXCEPT !.config = p.config, !.timeslice = p.timeslice]
<1>1. /\ p.artwork \in Artworks /\ row \in ArtworkRow
      /\ artwork' = [artwork EXCEPT ![p.artwork] = row]
      /\ row.exhibition = artwork[p.artwork].exhibition
  BY CommitProtectionRow DEF RowsInv
<1>2. UNCHANGED <<satellite, exhibition, device, asset, logs, held>>  BY DEF CommitProtection
<1> HIDE DEF row
<1>3. row.exhibition \in Rows(exhibition)  BY <1>1 DEF RowsInv, Keys
<1> QED  BY <1>1, <1>2, <1>3, ArtworkRows

LEMMA DeviceActionRows ==
  ASSUME RowsInv, NEW r, NEW d \in Devices, NEW a \in Artworks, NEW s \in Satellites \cup {None},
         ReconfigureDevice(r, d) \/ MoveDevice(r, d, a, s)
  PROVE  RowsInv'
<1>1. d \in Rows(device) /\ device[d] \in DeviceRow
  BY RowsOfTables DEF ReconfigureDevice, MoveDevice, RowsInv
<1>2. /\ device[d].artwork \in Rows(artwork) /\ device[d].satellite \in satellite \cup {None}
      /\ device[d].asset \in Rows(asset) \cup {None}
  BY <1>1 DEF RowsInv, Keys
<1>3. ASSUME NEW row \in DeviceRow, ChangeDevice(r, d, row), row.artwork \in Rows(artwork),
             row.satellite \in satellite \cup {None}, row.asset \in Rows(asset) \cup {None}
      PROVE  RowsInv'
  <2>1. device' = [device EXCEPT ![d] = row]
        /\ UNCHANGED <<satellite, exhibition, artwork, asset, logs, held>>
    BY <1>3 DEF ChangeDevice
  <2>2. device' \in [Devices -> DeviceRow \cup {None, Gone}]
    BY <2>1 DEF RowsInv, Tables
  <2>3. \A x \in Devices : device'[x] = device[x] \/ device'[x] = row
    BY <2>1 DEF RowsInv, Tables
  <2> QED  BY <1>3, <2>1, <2>2, <2>3, DeviceRows
<1>4. CASE ReconfigureDevice(r, d)
  BY <1>1, <1>2, <1>3, <1>4, CachedField DEF ReconfigureDevice
<1>5. CASE MoveDevice(r, d, a, s)
  <2> DEFINE row == [device[d] EXCEPT !.artwork = a, !.satellite = s]
  <2>1. /\ a \in Rows(artwork) /\ s \in {None, device[d].satellite} /\ ChangeDevice(r, d, row)
    BY <1>5 DEF MoveDevice
  <2>2. /\ row \in DeviceRow /\ row.artwork = a /\ row.satellite = s
        /\ row.asset = device[d].asset
    BY <1>1 DEF DeviceRow
  <2> HIDE DEF row
  <2> QED  BY <1>2, <1>3, <2>1, <2>2
<1> QED  BY <1>4, <1>5

LEMMA NewRequestRows == ASSUME RowsInv, NEW r \in Admins, NewRequest(r) PROVE RowsInv'
<1>1. ASSUME NEW a \in Assets, AddManualLampHours(r, a) PROVE RowsInv'
  <2>1. a \in Rows(asset) /\ logs' = logs \cup {[asset |-> a, host |-> None]}
        /\ UNCHANGED <<satellite, exhibition, artwork, device, asset, held>>
    BY <1>1 DEF AddManualLampHours
  <2>2. [asset |-> a, host |-> None] \in Entry  BY DEF Entry
  <2> QED  BY <2>1, <2>2 DEF RowsInv, Tables, Keys, Rows
<1>2. ASSUME NEW d, NEW a, NEW s, NEW h, NEW kind, NEW D, NEW e, NEW c, NEW t,
             \/ DeleteDevice(r, d) \/ UpdateHost(r, d, h) \/ CreateDevice(r, d, a, s, h)
             \/ UpdateExhibition(r, e, D) \/ UpdateProtection(r, a, c, t)
             \/ CheckSatellite(r, d, a, s) \/ ChoreBegins(r, kind, D)
      PROVE  RowsInv'
  BY <1>2, UnchangedRows
  DEF DeleteDevice, UpdateHost, CreateDevice, UpdateExhibition, UpdateProtection,
      CheckSatellite, ChoreBegins
<1>3. CASE \E e \in Exhibitions : CreateExhibition(r, e) \/ DeleteExhibition(r, e)
  BY <1>3, CreateExhibitionRows, DeleteExhibitionRows
<1>4. CASE \E s \in Satellites : RevokeSatellite(r, s)
  BY <1>4, RevokeSatelliteRows
<1>5. CASE \E a \in Artworks, e \in Exhibitions : CreateArtwork(r, a, e) \/ MoveArtwork(r, a, e)
  BY <1>5, ArtworkActionRows
<1>6. CASE \E a \in Artworks : DeleteArtwork(r, a)  BY <1>6, DeleteArtworkRows
<1>7. CASE \E d \in Devices : \/ ReconfigureDevice(r, d)
                              \/ \E a \in Artworks, s \in Satellites \cup {None} :
                                   MoveDevice(r, d, a, s)
  <2>1. Some(Artworks) \in Artworks /\ None \in Satellites \cup {None}
    BY SomeOfEach DEF Some
  <2> QED  BY <1>7, <2>1, DeviceActionRows
<1>8. CASE \E a \in Assets : DeleteAsset(r, a)  BY <1>8, DeleteAssetRows
<1> QED  BY <1>1, <1>2, <1>3, <1>4, <1>5, <1>6, <1>7, <1>8 DEF NewRequest

-----------------------------------------------------------------------------
(* The transactions                                                        *)

\* What a request goes by that assigns a satellite or takes some away.
Place == [artwork : Artworks, satellite : Satellites \cup {None}]
Survey == [exhibition : [Exhibitions -> (SUBSET Satellites) \cup {None, Gone}],
           artwork : Partial(Artworks, Exhibitions), device : Partial(Devices, Place)]

Transaction == [at : Stages, dev : Devices \cup {None}, seen : Glimpse \cup {None},
                to : Hosts \cup {None}, row : DeviceRow \cup {None}, made : Insertion,
                log : SUBSET Entry,
                plan : ExhibitionPlan \cup RulesPlan \cup AssignPlan \cup {None},
                read : Survey \cup {None}]

\* The satellite was one of the artwork's exhibition, as the rows were read.
Checked(q) ==
  LET a == IF q.plan.artwork = None THEN q.read.device[q.dev].artwork ELSE q.plan.artwork
  IN  /\ a \in DOMAIN q.read.artwork
      /\ q.plan.satellite \in q.read.exhibition[q.read.artwork[a]]

Staged(q) ==
  /\ q.at = "idle" => q = IdleRequest
  /\ q.at \notin {"idle", "withdraw", "rules"} => q.dev \in Devices
  /\ q.at = "withdraw" => q.plan \in ExhibitionPlan
  /\ q.at = "rules" => q.plan \in RulesPlan
  /\ q.at = "assign" => q.plan \in AssignPlan /\ Checked(q)
  /\ q.at \in {"offboard", "update", "delete", "background"} => q.seen \in Glimpse
  /\ q.at \in {"offboard", "background"} => q.seen.asset \in Assets
  /\ q.at = "update" => q.to \in Hosts
  /\ q.row # None <=> q.at \in {"link", "onboard"}
  /\ q.at = "onboard" => q.row.asset \in Assets

List == [kind : Recurring \cup Chores \cup {"none", "record"}, todo : Partial(Devices, Glimpse),
         links : Partial(Devices, Assets \cup {None}), made : Insertion,
         log : Partial(Devices, Entry)]

Kept(j) ==
  /\ j.kind = "none" => j = NoJob
  /\ j.kind \notin Linking \cup {"cache"} => \A d \in DOMAIN j.todo : j.todo[d].asset \in Assets

RequestsInv == request \in [Admins -> Transaction] /\ \A r \in Admins : Staged(request[r])
JobsInv == job \in [Workers -> List] /\ \A w \in Workers : Kept(job[w])

\* What a request that is not at "link" or "onboard" wrote is committed or undone:
\* the device of another is as it was read, and a new one is not there yet.
PendingInv ==
  /\ \A r \in Admins : request[r].row # None =>
       LET q == request[r]
           d == q.dev
       IN  IF q.seen = None THEN device[d] = None
           ELSE /\ d \in Rows(device) /\ q.row.artwork = device[d].artwork
                /\ q.row.satellite = device[d].satellite
  /\ \A r, x \in Admins :
       /\ request[r].row # None /\ request[x].row # None
       /\ request[r].seen = None /\ request[x].seen = None
       /\ request[r].dev = request[x].dev
       => r = x

LEMMA InsertionNothing == Nothing \in Insertion
BY PartialNothing, NothingApplies DEF Insertion

LEMMA IdleTyped == IdleRequest \in Transaction /\ Staged(IdleRequest) /\ IdleRequest.row = None
BY InsertionNothing DEF IdleRequest, Transaction, Staged, Stages

LEMMA NoJobTyped == NoJob \in List /\ Kept(NoJob)
BY InsertionNothing, PartialNothing, NothingApplies DEF NoJob, List, Kept

LEMMA GoesTyped ==
  ASSUME RequestsInv, NEW r \in Admins, NEW next \in Transaction, Staged(next), Goes(r, next)
  PROVE  RequestsInv' /\ request'[r] = next /\ \A x \in Admins : x # r => request'[x] = request[x]
BY DEF RequestsInv, Goes, Staged

LEMMA EndsTyped ==
  ASSUME RequestsInv, NEW r \in Admins, Ends(r)
  PROVE  /\ RequestsInv' /\ request'[r] = IdleRequest
         /\ \A x \in Admins : x # r => request'[x] = request[x]
BY GoesTyped, IdleTyped DEF Ends

LEMMA SeenTyped ==
  ASSUME NEW row \in DeviceRow
  PROVE  Seen(row) \in Glimpse /\ Seen(row).asset = row.asset /\ Seen(row).host = row.host
BY DEF DeviceRow, Seen, Glimpse

LEMMA PlacesTyped ==
  ASSUME RowsInv
  PROVE  /\ Places \in Survey /\ Places.exhibition = exhibition
         /\ DOMAIN Places.artwork = Rows(artwork) /\ DOMAIN Places.device = Rows(device)
         /\ \A a \in Rows(artwork) : Places.artwork[a] = artwork[a].exhibition
         /\ \A d \in Rows(device) : /\ Places.device[d].artwork = device[d].artwork
                                    /\ Places.device[d].satellite = device[d].satellite
<1> DEFINE works == [a \in Rows(artwork) |-> artwork[a].exhibition]
           places == [d \in Rows(device) |-> [artwork |-> device[d].artwork,
                                              satellite |-> device[d].satellite]]
<1>1. Tables  BY DEF RowsInv
<1>2. Rows(artwork) \in SUBSET Artworks /\ \A a \in Rows(artwork) : artwork[a].exhibition \in Exhibitions
  BY <1>1, RowsOfTables DEF ArtworkRow
<1>3. works \in Partial(Artworks, Exhibitions)
  <2>1. works \in [Rows(artwork) -> Exhibitions]  BY <1>2
  <2> QED  BY <1>2, <2>1 DEF Partial
<1>4. Rows(device) \in SUBSET Devices
      /\ \A d \in Rows(device) : device[d].artwork \in Artworks /\ device[d].satellite \in Satellites \cup {None}
  BY <1>1, RowsOfTables DEF DeviceRow
<1>5. places \in Partial(Devices, Place)
  <2>1. places \in [Rows(device) -> Place]  BY <1>4 DEF Place
  <2> QED  BY <1>4, <2>1 DEF Partial
<1>6. exhibition \in [Exhibitions -> (SUBSET Satellites) \cup {None, Gone}]  BY <1>1 DEF Tables
<1>7. /\ DOMAIN works = Rows(artwork) /\ DOMAIN places = Rows(device)
      /\ \A a \in Rows(artwork) : works[a] = artwork[a].exhibition
      /\ \A d \in Rows(device) : /\ places[d].artwork = device[d].artwork
                                 /\ places[d].satellite = device[d].satellite
  OBVIOUS
<1>8. Places = [exhibition |-> exhibition, artwork |-> works, device |-> places]  BY DEF Places
<1> HIDE DEF works, places
<1> QED  BY <1>3, <1>5, <1>6, <1>7, <1>8 DEF Survey

LEMMA ReadingTyped ==
  ASSUME NEW x, x \in Glimpse \/ x \in DeviceRow, x.asset \in Assets
  PROVE  Reading(x) \in Entry /\ Reading(x).asset = x.asset /\ Reading(x).host = x.host
BY DEF DeviceRow, Reading, Glimpse, Entry

LEMMA AssetTyped ==
  ASSUME RowsInv, NEW n \in Numbers, NEW m \in Insertion, ~Full(n, m)
  PROVE  /\ GetOrCreateAsset(n, m).id \in Assets
         /\ GetOrCreateAsset(n, m).made \in Insertion
<1>1. m \in Partial(Assets, Numbers) /\ DOMAIN m \subseteq Assets
  BY PartialApplies DEF Insertion
<1>2. CASE Known(n, m) # {}
  <2>1. Known(n, m) \subseteq Assets  BY <1>1 DEF Known, Rows, RowsInv, Tables
  <2>2. (CHOOSE a \in Known(n, m) : TRUE) \in Known(n, m)  BY <1>2
  <2> QED  BY <1>2, <2>1, <2>2 DEF GetOrCreateAsset
<1>3. CASE Known(n, m) = {}
  <2>1. Unused # {} /\ Unused \subseteq Assets  BY <1>3 DEF Full, Unused
  <2>2. FreshAsset \in Assets  BY <2>1 DEF FreshAsset
  <2> DEFINE new == Over(Just(FreshAsset, n), m)
  <2>3. new \in Partial(Assets, Numbers)  BY <1>1, <2>2, PartialJust, PartialOver
  <2>4. DOMAIN new = {FreshAsset} \cup DOMAIN m /\ new[FreshAsset] = n
        /\ \A a \in DOMAIN m : a # FreshAsset => new[a] = m[a]
    BY DEF Over, Just
  <2>5. \A a \in DOMAIN m : m[a] # n  BY <1>3 DEF Known
  <2> HIDE DEF new
  <2>6. \A a, b \in DOMAIN new : new[a] = new[b] => a = b
    BY <2>4, <2>5 DEF Insertion
  <2>7. new \in Insertion  BY <2>3, <2>6 DEF Insertion
  <2> QED  BY <1>3, <2>2, <2>7 DEF GetOrCreateAsset, new
<1> QED  BY <1>2, <1>3

\* A list is made.
LEMMA TakesTyped ==
  ASSUME RowsInv, JobsInv, NEW w \in Workers, NEW kind \in Recurring \cup Chores \cup {"record"},
         NEW D \in SUBSET Rows(device), Takes(w, kind, D),
         kind \notin Linking \cup {"cache"} => \A d \in D : device[d].asset # None
  PROVE  JobsInv'
<1> DEFINE todo == [d \in D |-> Seen(device[d])]
           next == [NoJob EXCEPT !.kind = kind, !.todo = todo]
<1>1. \A d \in D : device[d] \in DeviceRow /\ d \in Devices
  BY RowsOfTables DEF RowsInv
<1>2. \A d \in D : Seen(device[d]) \in Glimpse /\ Seen(device[d]).asset = device[d].asset
  BY <1>1, SeenTyped
<1>3. todo \in [D -> Glimpse] /\ D \in SUBSET Devices  BY <1>1, <1>2
<1>4. todo \in Partial(Devices, Glimpse)  BY <1>3 DEF Partial
<1>5. kind \notin Linking \cup {"cache"} => \A d \in DOMAIN todo : todo[d].asset \in Assets
  BY <1>1, <1>2 DEF DeviceRow
<1> HIDE DEF todo
<1>6. next \in List /\ next.kind = kind /\ next.todo = todo
  BY <1>4, InsertionNothing, PartialNothing DEF List, NoJob
<1>7. kind # "none"  BY DEF Recurring, Chores
<1> HIDE DEF next
<1>8. Kept(next)  BY <1>5, <1>6, <1>7 DEF Kept
<1>9. job' = [job EXCEPT ![w] = IF D = {} THEN NoJob ELSE next]  BY DEF Takes, next, todo
<1> QED  BY <1>6, <1>8, <1>9, NoJobTyped DEF JobsInv

\* A request begins.
LEMMA NewRequestTrans ==
  ASSUME RowsInv, RequestsInv, JobsInv, NEW r \in Admins, NewRequest(r)
  PROVE  RequestsInv' /\ JobsInv'
<1>1. ASSUME UNCHANGED <<request, job>> PROVE RequestsInv' /\ JobsInv'
  BY <1>1 DEF RequestsInv, JobsInv
<1>2. ASSUME NEW next \in Transaction, Staged(next), Goes(r, next), UNCHANGED job
      PROVE  RequestsInv' /\ JobsInv'
  BY <1>2, GoesTyped DEF JobsInv
<1>3. ASSUME NEW d \in Devices, NEW a \in Artworks, NEW s \in Satellites \cup {None}, NEW h \in Hosts,
             CreateDevice(r, d, a, s, h)
      PROVE  RequestsInv' /\ JobsInv'
  <2> DEFINE row == [artwork |-> a, satellite |-> s, host |-> h, asset |-> None, cached |-> None]
             next == [IdleRequest EXCEPT !.at = "link", !.dev = d, !.row = row]
  <2>1. row \in DeviceRow  BY DEF DeviceRow
  <2>2. row # None  BY <2>1, AbsentRows DEF AreRows
  <2>3. Goes(r, next) /\ UNCHANGED job  BY <1>3 DEF CreateDevice
  <2> HIDE DEF row
  <2>4. next \in Transaction /\ next.at = "link" /\ next.dev = d /\ next.row = row
    BY <2>1, InsertionNothing DEF IdleRequest, Transaction, Stages
  <2> HIDE DEF next
  <2>5. Staged(next)  BY <2>2, <2>4 DEF Staged
  <2> QED  BY <1>2, <2>3, <2>4, <2>5
<1>4. ASSUME NEW d \in Devices, DeleteDevice(r, d) PROVE RequestsInv' /\ JobsInv'
  <2> DEFINE at == IF device[d].asset # None THEN "offboard" ELSE "delete"
             next == [IdleRequest EXCEPT !.at = at, !.dev = d, !.seen = Seen(device[d])]
  <2>1. device[d] \in DeviceRow  BY <1>4, RowsOfTables DEF DeleteDevice, RowsInv
  <2>2. /\ Seen(device[d]) \in Glimpse /\ at \in {"offboard", "delete"}
        /\ at = "offboard" => Seen(device[d]).asset \in Assets
    BY <2>1, SeenTyped DEF DeviceRow
  <2>3. Goes(r, next) /\ UNCHANGED job  BY <1>4 DEF DeleteDevice
  <2> HIDE DEF at
  <2>4. next \in Transaction /\ next.at = at /\ next.dev = d /\ next.seen = Seen(device[d])
        /\ next.row = None
    BY <2>2, InsertionNothing DEF IdleRequest, Transaction, Stages
  <2> HIDE DEF next
  <2>5. Staged(next)  BY <2>2, <2>4 DEF Staged
  <2> QED  BY <1>2, <2>3, <2>4, <2>5
<1>5. ASSUME NEW d \in Devices, NEW h \in Hosts, UpdateHost(r, d, h)
      PROVE  RequestsInv' /\ JobsInv'
  <2> DEFINE at == IF device[d].asset # None THEN "offboard" ELSE "update"
             next == [IdleRequest EXCEPT !.at = at, !.dev = d, !.seen = Seen(device[d]), !.to = h]
  <2>1. device[d] \in DeviceRow  BY <1>5, RowsOfTables DEF UpdateHost, RowsInv
  <2>2. /\ Seen(device[d]) \in Glimpse /\ at \in {"offboard", "update"}
        /\ at = "offboard" => Seen(device[d]).asset \in Assets
    BY <2>1, SeenTyped DEF DeviceRow
  <2>3. Goes(r, next) /\ UNCHANGED job  BY <1>5 DEF UpdateHost
  <2> HIDE DEF at
  <2>4. next \in Transaction /\ next.at = at /\ next.dev = d /\ next.seen = Seen(device[d])
        /\ next.row = None /\ next.to = h
    BY <2>2, InsertionNothing DEF IdleRequest, Transaction, Stages
  <2> HIDE DEF next
  <2>5. Staged(next)  BY <2>2, <2>4 DEF Staged
  <2> QED  BY <1>2, <2>3, <2>4, <2>5
<1>6. ASSUME NEW kind \in Chores, NEW D \in SUBSET Rows(device), ChoreBegins(r, kind, D),
             kind \notin Linking => \A d \in D : device[d].asset # None
      PROVE  RequestsInv' /\ JobsInv'
  BY <1>6, TakesTyped DEF ChoreBegins, RequestsInv, Workers
<1>7. ASSUME NEW kind \in {"backfill", "initial"}, ChoreBegins(r, kind, Listed(kind))
      PROVE  RequestsInv' /\ JobsInv'
  <2>1. Listed(kind) \in SUBSET Rows(device) /\ kind \in Chores
        /\ (kind \notin Linking => \A d \in Listed(kind) : device[d].asset # None)
    BY DEF Listed, Linked, Chores, Linking
  <2> QED  BY <1>6, <1>7, <2>1
<1>8. ASSUME NEW a \in Rows(asset), ChoreBegins(r, "selected", {d \in Linked : device[d].asset = a})
      PROVE  RequestsInv' /\ JobsInv'
  <2> DEFINE D == {d \in Linked : device[d].asset = a}
  <2>1. D \in SUBSET Rows(device) /\ "selected" \in Chores
        /\ (\A d \in D : device[d].asset # None)
    BY DEF Linked, Chores
  <2> HIDE DEF D
  <2>2. ChoreBegins(r, "selected", D)  BY <1>8 DEF D
  <2> QED  BY <1>6, <2>1, <2>2
<1>9. CASE \E e \in Exhibitions : CreateExhibition(r, e) \/ DeleteExhibition(r, e)
  BY <1>1, <1>9 DEF CreateExhibition, DeleteExhibition, AsksDatabase
<1>10. CASE \/ \E s \in Satellites : RevokeSatellite(r, s)
            \/ \E a \in Artworks, e \in Exhibitions : CreateArtwork(r, a, e) \/ MoveArtwork(r, a, e)
            \/ \E a \in Artworks : DeleteArtwork(r, a)
  BY <1>1, <1>10 DEF RevokeSatellite, CreateArtwork, MoveArtwork, DeleteArtwork, AsksDatabase
<1>11. CASE \E d \in Devices : \/ ReconfigureDevice(r, d)
                               \/ \E a \in Artworks, s \in Satellites \cup {None} :
                                    MoveDevice(r, d, a, s)
  BY <1>1, <1>11 DEF ReconfigureDevice, MoveDevice, ChangeDevice, AsksDatabase
<1>12. CASE \E a \in Assets : DeleteAsset(r, a) \/ AddManualLampHours(r, a)
  BY <1>1, <1>12 DEF DeleteAsset, AddManualLampHours, AsksDatabase
<1>13. ASSUME NEW e \in Exhibitions, NEW S \in SUBSET satellite, UpdateExhibition(r, e, S)
       PROVE  RequestsInv' /\ JobsInv'
  <2> DEFINE plan == [exhibition |-> e, satellites |-> S]
             next == [IdleRequest EXCEPT !.at = "withdraw", !.read = Places, !.plan = plan]
  <2>1. plan \in ExhibitionPlan  BY DEF ExhibitionPlan, RowsInv, Tables
  <2>2. Goes(r, next) /\ UNCHANGED job  BY <1>13 DEF UpdateExhibition
  <2> HIDE DEF plan
  <2>3. next \in Transaction /\ next.at = "withdraw" /\ next.plan = plan /\ next.row = None
    BY <2>1, PlacesTyped, InsertionNothing DEF IdleRequest, Transaction, Stages
  <2> HIDE DEF next
  <2>4. Staged(next)  BY <2>1, <2>3 DEF Staged
  <2> QED  BY <1>2, <2>2, <2>3, <2>4
<1>14. ASSUME NEW a \in Artworks, NEW c \in Configs \cup {None}, NEW t \in BOOLEAN,
              UpdateProtection(r, a, c, t)
       PROVE  RequestsInv' /\ JobsInv'
  <2> DEFINE plan == [artwork |-> a, config |-> c, timeslice |-> t]
             next == [IdleRequest EXCEPT !.at = "rules", !.plan = plan]
  <2>1. plan \in RulesPlan  BY DEF RulesPlan
  <2>2. Goes(r, next) /\ UNCHANGED job  BY <1>14 DEF UpdateProtection
  <2> HIDE DEF plan
  <2>3. next \in Transaction /\ next.at = "rules" /\ next.plan = plan /\ next.row = None
    BY <2>1, InsertionNothing DEF IdleRequest, Transaction, Stages
  <2> HIDE DEF next
  <2>4. Staged(next)  BY <2>1, <2>3 DEF Staged
  <2> QED  BY <1>2, <2>2, <2>3, <2>4
<1>15. ASSUME NEW d \in Devices, NEW a \in Artworks \cup {None}, NEW s \in Satellites,
              CheckSatellite(r, d, a, s)
       PROVE  RequestsInv' /\ JobsInv'
  <2> DEFINE plan == [artwork |-> a, satellite |-> s]
             next == [IdleRequest EXCEPT !.at = "assign", !.dev = d, !.read = Places, !.plan = plan]
             b == IF a = None THEN device[d].artwork ELSE a
  <2>1. plan \in AssignPlan /\ plan.artwork = a /\ plan.satellite = s  BY DEF AssignPlan
  <2>2. Goes(r, next) /\ UNCHANGED job /\ d \in Rows(device) /\ MayUse(b, s)
    BY <1>15 DEF CheckSatellite
  <2>3. s # None  BY AbsentRows DEF AreRows
  <2>4. b \in Rows(artwork) /\ s \in exhibition[artwork[b].exhibition]  BY <2>2, <2>3 DEF MayUse
  <2> HIDE DEF plan
  <2>5. /\ next \in Transaction /\ next.at = "assign" /\ next.plan = plan /\ next.row = None
        /\ next.dev = d /\ next.read = Places
    BY <2>1, PlacesTyped, InsertionNothing DEF IdleRequest, Transaction, Stages
  <2> HIDE DEF next
  <2>6. b = IF next.plan.artwork = None THEN next.read.device[next.dev].artwork ELSE next.plan.artwork
    BY <2>1, <2>2, <2>5, PlacesTyped
  <2> HIDE DEF b
  <2>7. b \in DOMAIN next.read.artwork
        /\ next.plan.satellite \in next.read.exhibition[next.read.artwork[b]]
    BY <2>1, <2>4, <2>5, PlacesTyped
  <2>8. Checked(next)  BY <2>6, <2>7 DEF Checked
  <2>9. Staged(next)  BY <2>1, <2>5, <2>8 DEF Staged
  <2> QED  BY <1>2, <2>2, <2>5, <2>9
<1> QED  BY <1>3, <1>4, <1>5, <1>7, <1>8, <1>9, <1>10, <1>11, <1>12, <1>13, <1>14, <1>15
         DEF NewRequest

-----------------------------------------------------------------------------
(* The steps of a request                                                  *)

\* The devices there are keep their artwork and satellite.
Stays ==
  \A d \in Rows(device) : d \in Rows(device)' =>
    device'[d].artwork = device[d].artwork /\ device'[d].satellite = device[d].satellite

\* A device is left as it is, as far as a transaction at it is concerned.
KeepsPlace(d) ==
  /\ device[d] = None => device'[d] = None
  /\ d \in Rows(device) =>
       /\ d \in Rows(device)' /\ device'[d].artwork = device[d].artwork
       /\ device'[d].satellite = device[d].satellite

LEMMA PendingKept ==
  ASSUME PendingInv, \A x \in Admins : request'[x] = request[x] \/ request'[x].row = None,
         \A x \in Admins : request'[x].row # None => KeepsPlace(request[x].dev)
  PROVE  PendingInv'
BY DEF PendingInv, KeepsPlace

LEMMA PendingUnchanged ==
  ASSUME PendingInv, UNCHANGED device,
         \A x \in Admins : request'[x] = request[x] \/ request'[x].row = None
  PROVE  PendingInv' /\ Stays
<1>1. Rows(device)' = Rows(device)  BY DEF Rows
<1>2. \A d : KeepsPlace(d)  BY <1>1 DEF KeepsPlace
<1> QED  BY <1>2, PendingKept DEF Stays

\* The row a request has updated is committed, or the transaction undone.
LEMMA CommitPlace ==
  ASSUME RowsInv, RequestsInv, PendingInv, NEW r \in Admins, request[r].row # None,
         NEW row \in DeviceRow, row.artwork = request[r].row.artwork,
         row.satellite = request[r].row.satellite, NEW made, NEW log,
         CommitOrRollback(Just(request[r].dev, row), made, log), request'[r].row = None,
         \A x \in Admins : x # r => request'[x] = request[x]
  PROVE  PendingInv' /\ Stays
<1> DEFINE d == request[r].dev
<1>1. CASE UNCHANGED rows
  <2>1. UNCHANGED device  BY <1>1 DEF rows
  <2> QED  BY <2>1, PendingUnchanged
<1>2. CASE Commit(Just(request[r].dev, row), made, log)
  <2>1. device' = Over(Just(d, row), device)  BY <1>2 DEF Commit
  <2>2. d \in Devices  BY DEF RequestsInv, Staged, Transaction, IdleRequest
  <2>3. /\ d \in DOMAIN device' /\ device'[d] = row
        /\ \A x \in DOMAIN device : x # d => x \in DOMAIN device' /\ device'[x] = device[x]
    BY <2>1 DEF Over, Just
  <2>4. row \notin {None, Gone}  BY AbsentRows DEF AreRows
  <2>5. IF request[r].seen = None THEN device[d] = None
        ELSE /\ d \in Rows(device) /\ row.artwork = device[d].artwork
             /\ row.satellite = device[d].satellite
    BY DEF PendingInv
  <2>6. \A x \in Rows(device) : x # d => x \in Rows(device)' /\ device'[x] = device[x]
    BY <2>3 DEF Rows
  <2>7. d \in Rows(device)'  BY <2>3, <2>4 DEF Rows
  <2>8. Stays  BY <2>3, <2>5, <2>6 DEF Stays, Rows
  <2>9. \A x \in Devices : x # d => KeepsPlace(x)
    BY <2>3, <2>6 DEF KeepsPlace, RowsInv, Tables
  <2>10. request[r].seen # None => KeepsPlace(d)
    BY <2>3, <2>5, <2>7 DEF KeepsPlace, Rows
  <2>11. ASSUME NEW x \in Admins, request'[x].row # None PROVE KeepsPlace(request[x].dev)
    <3>1. x # r /\ request'[x] = request[x] /\ request[x].row # None  BY <2>11
    <3>2. request[x].dev \in Devices
      BY <3>1 DEF RequestsInv, Staged, Transaction, IdleRequest
    <3>3. CASE request[x].dev = d /\ request[r].seen = None
      <4>1. device[d] = None  BY <2>5, <3>3
      <4>2. request[x].seen = None  BY <3>1, <3>3, <4>1 DEF PendingInv, Rows
      <4> QED  BY <3>1, <3>3, <4>2 DEF PendingInv
    <3> QED  BY <2>9, <2>10, <3>2, <3>3
  <2> QED  BY <2>8, <2>11, PendingKept
<1> QED  BY <1>1, <1>2 DEF CommitOrRollback

LEMMA RequestTyped ==
  ASSUME RequestsInv, NEW r \in Admins
  PROVE  request[r] \in Transaction /\ Staged(request[r])
BY DEF RequestsInv

LEMMA JustTyped ==
  ASSUME NEW d \in Devices, NEW row \in DeviceRow PROVE Just(d, row) \in Partial(Devices, DeviceRow)
BY PartialJust

TransInv == RequestsInv /\ JobsInv /\ PendingInv
Inv == RowsInv /\ TransInv

LEMMA ReadOffboardInv ==
  ASSUME Inv, NEW r \in Admins, ReadOffboard(r) PROVE Inv' /\ Stays
<1> DEFINE q == request[r]
           at == IF q.to = None THEN "delete" ELSE "update"
<1>1. q \in Transaction /\ Staged(q) /\ q.at = "offboard"
  BY RequestTyped DEF Inv, TransInv, ReadOffboard
<1>2. at \in {"delete", "update"} /\ (at = "update" => q.to \in Hosts)
  BY <1>1 DEF Transaction
<1>3. Reading(q.seen) \in Entry  BY <1>1, ReadingTyped DEF Staged
<1>4. ASSUME NEW next, next.at = at, next.dev = q.dev, next.seen = q.seen, next.row = q.row,
             next.to = q.to, next \in Transaction, Goes(r, next)
      PROVE  RequestsInv' /\ \A x \in Admins : request'[x] = request[x] \/ request'[x].row = None
  <2>1. Staged(next) /\ next.row = None  BY <1>1, <1>2, <1>4 DEF Staged
  <2> QED  BY <1>4, <2>1, GoesTyped DEF Inv, TransInv
<1>5. /\ [q EXCEPT !.at = at, !.log = {Reading(q.seen)}] \in Transaction
      /\ [q EXCEPT !.at = at] \in Transaction
  BY <1>1, <1>2, <1>3 DEF Transaction, Stages
<1>6. RequestsInv' /\ \A x \in Admins : request'[x] = request[x] \/ request'[x].row = None
  <2>1. CASE Goes(r, [q EXCEPT !.at = at, !.log = {Reading(q.seen)}])
    <3> DEFINE next == [q EXCEPT !.at = at, !.log = {Reading(q.seen)}]
    <3>1. next.at = at /\ next.dev = q.dev /\ next.seen = q.seen /\ next.row = q.row /\ next.to = q.to
      BY <1>1 DEF Transaction
    <3> QED  BY <1>4, <1>5, <2>1, <3>1
  <2>2. CASE Goes(r, [q EXCEPT !.at = at])
    <3> DEFINE next == [q EXCEPT !.at = at]
    <3>1. next.at = at /\ next.dev = q.dev /\ next.seen = q.seen /\ next.row = q.row /\ next.to = q.to
      BY <1>1 DEF Transaction
    <3> QED  BY <1>4, <1>5, <2>2, <3>1
  <2> QED  BY <2>1, <2>2 DEF ReadOffboard
<1>7. UNCHANGED rows /\ UNCHANGED job /\ UNCHANGED device  BY DEF ReadOffboard, rows
<1> QED  BY <1>6, <1>7, UnchangedRows, PendingUnchanged DEF Inv, TransInv, JobsInv

LEMMA UpdateRowInv ==
  ASSUME Inv, NEW r \in Admins, UpdateRow(r) PROVE Inv' /\ Stays
<1> DEFINE q == request[r]
           d == q.dev
           a == IF q.seen.asset # None THEN None ELSE device[d].asset
           row == [device[d] EXCEPT !.host = q.to, !.cached = None, !.asset = a]
           next == [q EXCEPT !.at = "link", !.row = row]
<1>1. q \in Transaction /\ Staged(q) /\ q.at = "update"
  BY RequestTyped DEF Inv, TransInv, UpdateRow
<1>2. UNCHANGED rows /\ UNCHANGED job /\ UNCHANGED device  BY DEF UpdateRow, rows
<1>3. CASE Ends(r)
  BY <1>2, <1>3, EndsTyped, IdleTyped, UnchangedRows, PendingUnchanged DEF Inv, TransInv, JobsInv
<1>4. CASE d \in Rows(device) /\ Goes(r, next)
  <2>1. device[d] \in DeviceRow /\ q.to \in Hosts /\ d \in Devices /\ q.seen \in Glimpse
    BY <1>1, <1>4, RowsOfTables DEF Staged, Inv, RowsInv
  <2>2. a \in Assets \cup {None}  BY <2>1 DEF DeviceRow
  <2> HIDE DEF a
  <2>3. row \in DeviceRow /\ row.artwork = device[d].artwork /\ row.satellite = device[d].satellite
    BY <2>1, <2>2 DEF DeviceRow
  <2>4. row # None  BY <2>3, AbsentRows DEF AreRows
  <2> HIDE DEF row
  <2>5. /\ next \in Transaction /\ next.at = "link" /\ next.dev = d /\ next.row = row
        /\ next.seen = q.seen
    BY <1>1, <2>3 DEF Transaction, Stages
  <2>6. q.seen # None  BY <2>1, AbsentRows DEF AreRows
  <2>7. Goes(r, next)  BY <1>4 DEF row, a
  <2> HIDE DEF next
  <2>8. Staged(next)  BY <2>1, <2>4, <2>5 DEF Staged
  <2>9. /\ RequestsInv' /\ request'[r] = next
        /\ \A x \in Admins : x # r => request'[x] = request[x]
    BY <2>5, <2>7, <2>8, GoesTyped DEF Inv, TransInv
  <2>10. Rows(device)' = Rows(device)  BY <1>2 DEF Rows
  <2>11. PendingInv'
    BY <1>2, <1>4, <2>3, <2>5, <2>6, <2>9, <2>10 DEF Inv, TransInv, PendingInv
  <2>12. Stays  BY <1>2 DEF Stays
  <2> QED  BY <1>2, <2>9, <2>11, <2>12, UnchangedRows DEF Inv, TransInv, JobsInv
<1> QED  BY <1>3, <1>4 DEF UpdateRow

LEMMA LinkRowInv ==
  ASSUME Inv, NEW r \in Admins, LinkRow(r) PROVE Inv' /\ Stays
<1> DEFINE q == request[r]
           n == NumberOf[q.row.host]
           link == GetOrCreateAsset(n, q.made)
           row == [q.row EXCEPT !.asset = link.id]
<1>1. q \in Transaction /\ Staged(q) /\ q.at = "link" /\ q.row \in DeviceRow /\ q.row # None
  BY RequestTyped DEF Inv, TransInv, LinkRow, Staged, Transaction
<1>2. n \in Numbers
  <2>1. q.row.host \in Hosts  BY <1>1 DEF DeviceRow
  <2> QED  BY <2>1, NumbersKnown DEF LinkRow
<1>3. link.id \in Assets /\ link.made \in Insertion
  <2>1. q.made \in Insertion  BY <1>1 DEF Transaction
  <2> QED  BY <1>2, <2>1, AssetTyped DEF LinkRow, Inv
<1>4. /\ row \in DeviceRow /\ row.asset = link.id /\ row.artwork = q.row.artwork
      /\ row.satellite = q.row.satellite
  <2>1. link.id \in Assets \cup {None}  BY <1>3
  <2> QED  BY <1>1, <2>1, AssetField
<1>5. row # None  BY <1>4, AbsentRows DEF AreRows
<1>6. UNCHANGED job  BY DEF LinkRow
<1>7. CASE Ends(r) /\ UNCHANGED rows
  <2>1. UNCHANGED device  BY <1>7 DEF rows
  <2> QED  BY <1>6, <1>7, <2>1, EndsTyped, IdleTyped, UnchangedRows, PendingUnchanged
           DEF Inv, TransInv, JobsInv
<1>8. CASE /\ q.seen # None /\ UNCHANGED rows
           /\ Goes(r, [q EXCEPT !.at = "onboard", !.row = row, !.made = link.made])
  <2> HIDE DEF row, link
  <2> DEFINE next == [q EXCEPT !.at = "onboard", !.row = row, !.made = link.made]
  <2>1. /\ next \in Transaction /\ next.at = "onboard" /\ next.dev = q.dev /\ next.row = row
        /\ next.seen = q.seen
    BY <1>1, <1>3, <1>4 DEF Transaction, Stages
  <2>2. Goes(r, next)  BY <1>8
  <2> HIDE DEF next
  <2>3. Staged(next)  BY <1>1, <1>3, <1>4, <1>5, <2>1 DEF Staged
  <2>4. /\ RequestsInv' /\ request'[r] = next
        /\ \A x \in Admins : x # r => request'[x] = request[x]
    BY <2>1, <2>2, <2>3, GoesTyped DEF Inv, TransInv
  <2>5. UNCHANGED device /\ Rows(device)' = Rows(device)  BY <1>8 DEF rows, Rows
  <2>6. PendingInv'
    BY <1>1, <1>4, <1>8, <2>1, <2>4, <2>5 DEF Inv, TransInv, PendingInv
  <2>7. Stays  BY <2>5 DEF Stays
  <2> QED  BY <1>6, <1>8, <2>4, <2>6, <2>7, UnchangedRows DEF Inv, TransInv, JobsInv
<1>9. CASE /\ Accepted(Just(q.dev, row), link.made, {})
           /\ Goes(r, [IdleRequest EXCEPT !.at = "background", !.dev = q.dev, !.seen = Seen(row)])
           /\ Commit(Just(q.dev, row), link.made, {})
  <2>1. q.dev \in Devices  BY <1>1 DEF Staged
  <2>2. Seen(row) \in Glimpse /\ Seen(row).asset \in Assets  BY <1>3, <1>4, SeenTyped
  <2>3. Just(q.dev, row) \in Partial(Devices, DeviceRow)  BY <1>4, <2>1, JustTyped
  <2>4. {} \in SUBSET Entry  OBVIOUS
  <2>5. RowsInv'  BY <1>3, <1>9, <2>3, <2>4, CommitRows DEF Inv
  <2> HIDE DEF row, link
  <2> DEFINE next == [IdleRequest EXCEPT !.at = "background", !.dev = q.dev, !.seen = Seen(row)]
  <2>6. /\ next \in Transaction /\ next.at = "background" /\ next.dev = q.dev /\ next.row = None
        /\ next.seen = Seen(row)
    BY <2>1, <2>2, InsertionNothing DEF Transaction, Stages, IdleRequest
  <2>7. Goes(r, next)  BY <1>9
  <2> HIDE DEF next
  <2>8. Staged(next)  BY <2>1, <2>2, <2>6 DEF Staged
  <2>9. /\ RequestsInv' /\ request'[r] = next
        /\ \A x \in Admins : x # r => request'[x] = request[x]
    BY <2>6, <2>7, <2>8, GoesTyped DEF Inv, TransInv
  <2>10. CommitOrRollback(Just(q.dev, row), link.made, {})  BY <1>9 DEF CommitOrRollback
  <2>11. PendingInv' /\ Stays
    BY <1>1, <1>4, <2>6, <2>9, <2>10, CommitPlace DEF Inv, TransInv
  <2> QED  BY <1>6, <2>5, <2>9, <2>11 DEF Inv, TransInv, JobsInv
<1> QED  BY <1>7, <1>8, <1>9 DEF LinkRow

LEMMA LinksNothingInv ==
  ASSUME Inv, NEW r \in Admins, LinksNothing(r) PROVE Inv' /\ Stays
<1> DEFINE q == request[r]
<1>1. q \in Transaction /\ Staged(q) /\ q.at = "link"
  BY RequestTyped DEF Inv, TransInv, LinksNothing
<1>2. /\ q.row \in DeviceRow /\ q.row # None /\ q.dev \in Devices /\ q.made \in Insertion
      /\ q.log \in SUBSET Entry
  BY <1>1 DEF Staged, Transaction
<1>3. CommitOrRollback(Just(q.dev, q.row), q.made, q.log) /\ Ends(r) /\ UNCHANGED job
  BY DEF LinksNothing
<1>4. RowsInv'  BY <1>2, <1>3, JustTyped, RollbackRows DEF Inv
<1>5. /\ RequestsInv' /\ request'[r] = IdleRequest
      /\ \A x \in Admins : x # r => request'[x] = request[x]
  BY <1>3, EndsTyped DEF Inv, TransInv
<1>6. PendingInv' /\ Stays
  BY <1>2, <1>3, <1>5, IdleTyped, CommitPlace DEF Inv, TransInv
<1> QED  BY <1>3, <1>4, <1>5, <1>6 DEF Inv, TransInv, JobsInv

LEMMA ReadOnboardInv ==
  ASSUME Inv, NEW r \in Admins, ReadOnboard(r) PROVE Inv' /\ Stays
<1> DEFINE q == request[r]
<1>1. q \in Transaction /\ Staged(q) /\ q.at = "onboard"
  BY RequestTyped DEF Inv, TransInv, ReadOnboard
<1>2. /\ q.row \in DeviceRow /\ q.row # None /\ q.dev \in Devices /\ q.made \in Insertion
      /\ q.log \in SUBSET Entry /\ q.row.asset \in Assets
  BY <1>1 DEF Staged, Transaction
<1>3. Reading(q.row) \in Entry  BY <1>2, ReadingTyped
<1>4. PICK log \in SUBSET Entry : CommitOrRollback(Just(q.dev, q.row), q.made, log)
  BY <1>2, <1>3 DEF ReadOnboard
<1>5. Ends(r) /\ UNCHANGED job  BY DEF ReadOnboard
<1>6. RowsInv'  BY <1>2, <1>4, JustTyped, RollbackRows DEF Inv
<1>7. /\ RequestsInv' /\ request'[r] = IdleRequest
      /\ \A x \in Admins : x # r => request'[x] = request[x]
  BY <1>5, EndsTyped DEF Inv, TransInv
<1>8. PendingInv' /\ Stays
  BY <1>2, <1>4, <1>7, IdleTyped, CommitPlace DEF Inv, TransInv
<1> QED  BY <1>5, <1>6, <1>7, <1>8 DEF Inv, TransInv, JobsInv

\* A commit that changes no device row.
LEMMA EntriesKeep ==
  ASSUME RowsInv, NEW made \in Insertion, NEW entries \in SUBSET Entry,
         CommitOrRollback(Nothing, made, entries)
  PROVE  RowsInv' /\ UNCHANGED device
<1>1. Nothing \in Partial(Devices, DeviceRow)  BY PartialNothing
<1>2. RowsInv'  BY <1>1, RollbackRows
<1>3. ASSUME Commit(Nothing, made, entries) PROVE UNCHANGED device
  <2>1. device' = [d \in DOMAIN device |-> device[d]]
    BY <1>3, NothingApplies DEF Commit, Over
  <2> QED  BY <2>1 DEF RowsInv, Tables
<1> QED  BY <1>2, <1>3 DEF CommitOrRollback, rows

LEMMA ReadInBackgroundInv ==
  ASSUME Inv, NEW r \in Admins, ReadInBackground(r) PROVE Inv' /\ Stays
<1> DEFINE q == request[r]
<1>1. q \in Transaction /\ Staged(q) /\ q.at = "background"
  BY RequestTyped DEF Inv, TransInv, ReadInBackground
<1>2. {Reading(q.seen)} \in SUBSET Entry  BY <1>1, ReadingTyped DEF Staged
<1>3. RowsInv' /\ UNCHANGED device
  <2>1. CASE UNCHANGED rows  BY <2>1, UnchangedRows DEF rows, Inv
  <2>2. CASE CommitOrRollback(Nothing, Nothing, {Reading(q.seen)})
    BY <1>2, <2>2, InsertionNothing, EntriesKeep DEF Inv
  <2> QED  BY <2>1, <2>2 DEF ReadInBackground
<1>4. Ends(r) /\ UNCHANGED job  BY DEF ReadInBackground
<1>5. /\ RequestsInv' /\ request'[r] = IdleRequest
      /\ \A x \in Admins : x # r => request'[x] = request[x]
  BY <1>4, EndsTyped DEF Inv, TransInv
<1>6. PendingInv' /\ Stays
  BY <1>3, <1>5, IdleTyped, PendingUnchanged DEF Inv, TransInv
<1> QED  BY <1>3, <1>4, <1>5, <1>6 DEF Inv, TransInv, JobsInv

\* Rows nobody else has updated change: what others have pending is as it was.
LEMMA FreeKept ==
  ASSUME RowsInv, RowsInv', RequestsInv, PendingInv, NEW w, NEW D, Free(D, w),
         \A d \in Devices : d \notin D => device'[d] = device[d],
         \A x \in Admins : request'[x] = request[x] \/ request'[x].row = None,
         \A x \in Admins : x = w => request'[x].row = None
  PROVE  PendingInv'
<1>1. ASSUME NEW d \in Devices, d \notin D PROVE KeepsPlace(d)
  <2>1. DOMAIN device = Devices /\ DOMAIN device' = Devices
    BY DEF RowsInv, Tables
  <2> QED  BY <1>1, <2>1 DEF KeepsPlace, Rows
<1>2. ASSUME NEW x \in Admins, request'[x].row # None PROVE KeepsPlace(request[x].dev)
  <2>1. x # w /\ request[x].row # None  BY <1>2
  <2>2. Locked(request[x].dev, w)  BY <2>1 DEF Locked
  <2>3. request[x].dev \in Devices  BY <2>1, RequestTyped DEF Staged, IdleRequest
  <2> QED  BY <1>1, <2>2, <2>3 DEF Free
<1> QED  BY <1>2, PendingKept

LEMMA DeleteRowInv ==
  ASSUME Inv, NEW r \in Admins, DeleteRow(r) PROVE Inv' /\ Stays
<1> DEFINE q == request[r]
           d == q.dev
<1>1. q \in Transaction /\ Staged(q) /\ q.at = "delete" /\ d \in Devices
  BY RequestTyped DEF Inv, TransInv, DeleteRow, Staged
<1>2. Ends(r) /\ UNCHANGED job /\ ~Locked(d, r)  BY DEF DeleteRow
<1>3. /\ RequestsInv' /\ request'[r] = IdleRequest
      /\ \A x \in Admins : x # r => request'[x] = request[x]
  BY <1>2, EndsTyped DEF Inv, TransInv
<1>4. CASE UNCHANGED rows
  <2>1. RowsInv' /\ UNCHANGED device  BY <1>4, UnchangedRows DEF rows, Inv
  <2>2. PendingInv' /\ Stays
    BY <1>3, <2>1, IdleTyped, PendingUnchanged DEF Inv, TransInv
  <2> QED  BY <1>2, <1>3, <2>1, <2>2 DEF Inv, TransInv, JobsInv
<1>5. CASE /\ Accepted(Nothing, Nothing, q.log) /\ logs' = logs \cup q.log
           /\ device' = Deleted(device, {d})
           /\ UNCHANGED <<satellite, exhibition, artwork, asset, held>>
  <2>1. q.log \subseteq Entry  BY <1>1 DEF Transaction
  <2>2. Tables /\ Keys  BY DEF Inv, RowsInv
  <2>3. device' = [x \in Devices |-> IF x = d THEN Gone ELSE device[x]]
    BY <1>5, <2>2 DEF Deleted, Tables
  <2>4. Tables'  BY <1>5, <2>1, <2>2, <2>3 DEF Tables
  <2>5. \A x \in Rows(device)' : x \in Rows(device) /\ x # d /\ device'[x] = device[x]
    BY <2>2, <2>3 DEF Rows, Tables
  <2>6. /\ Rows(exhibition)' = Rows(exhibition) /\ Rows(artwork)' = Rows(artwork)
        /\ Rows(asset)' = Rows(asset)
    BY <1>5 DEF Rows
  <2>7. \A l \in q.log : l.asset \in Rows(asset)
    BY <1>5, NothingApplies DEF Accepted
  <2>8. Keys'  BY <1>5, <2>2, <2>5, <2>6, <2>7 DEF Keys
  <2>9. RowsInv'  BY <2>4, <2>8 DEF RowsInv
  <2>10. Stays  BY <2>5 DEF Stays
  <2>11. Free({d}, r) /\ \A x \in Devices : x \notin {d} => device'[x] = device[x]
    BY <1>2, <2>3 DEF Free
  <2>12. PendingInv'
    BY <1>3, <2>9, <2>11, IdleTyped, FreeKept DEF Inv, TransInv
  <2> QED  BY <1>2, <1>3, <2>9, <2>10, <2>12 DEF Inv, TransInv, JobsInv
<1> QED  BY <1>4, <1>5 DEF DeleteRow

\* The satellite is written to the row as it is now.
LEMMA AssignedRow ==
  ASSUME RowsInv, NEW r, Staged(request[r]), AssignSatellite(r)
  PROVE  \/ UNCHANGED rows
         \/ LET q == request[r]
                d == q.dev
                row == [device[d] EXCEPT !.satellite = q.plan.satellite,
                          !.artwork = IF q.plan.artwork = None THEN @ ELSE q.plan.artwork]
            IN  /\ d \in Rows(device) /\ row \in DeviceRow
                /\ Accepted(Just(d, row), Nothing, {}) /\ Commit(Just(d, row), Nothing, {})
                /\ row.satellite = q.plan.satellite
                /\ row.artwork = IF q.plan.artwork = None THEN device[d].artwork
                                 ELSE q.plan.artwork
                /\ row.asset = device[d].asset /\ row.host = device[d].host
<1> DEFINE q == request[r]
           d == q.dev
           s == q.plan.satellite
           a == IF q.plan.artwork = None THEN device[d].artwork ELSE q.plan.artwork
           row == [device[d] EXCEPT !.satellite = s,
                     !.artwork = IF q.plan.artwork = None THEN @ ELSE q.plan.artwork]
<1>1. CASE UNCHANGED rows  BY <1>1
<1>2. CASE /\ d \in Rows(device) /\ Accepted(Just(d, row), Nothing, {})
           /\ Commit(Just(d, row), Nothing, {})
  <2>1. q.plan \in AssignPlan  BY DEF AssignSatellite, Staged
  <2>2. s \in Satellites \cup {None} /\ q.plan.artwork \in Artworks \cup {None}
    BY <2>1 DEF AssignPlan
  <2>3. device[d] \in DeviceRow  BY <1>2, RowsOfTables DEF RowsInv
  <2>4. a \in Artworks  BY <2>2, <2>3 DEF DeviceRow
  <2>5. row = [device[d] EXCEPT !.satellite = s, !.artwork = a]  BY <2>3 DEF DeviceRow
  <2> DEFINE old == device[d]
  <2>6. old \in DeviceRow /\ row = [old EXCEPT !.satellite = s, !.artwork = a]  BY <2>3, <2>5
  <2> HIDE DEF s, a, row, old
  <2>7. /\ row \in DeviceRow /\ row.satellite = s /\ row.artwork = a
        /\ row.asset = old.asset /\ row.host = old.host
    BY <2>2, <2>4, <2>6 DEF DeviceRow
  <2> QED  BY <1>2, <2>7 DEF row, s, a, old
<1> QED  BY <1>1, <1>2 DEF AssignSatellite, CommitOrRollback

LEMMA AssignSatelliteInv ==
  ASSUME Inv, NEW r \in Admins, AssignSatellite(r) PROVE Inv'
<1> DEFINE q == request[r]
           d == q.dev
<1>1. q \in Transaction /\ Staged(q) /\ q.at = "assign" /\ d \in Devices
  BY RequestTyped DEF Inv, TransInv, AssignSatellite, Staged
<1>2. Ends(r) /\ UNCHANGED job /\ ~Locked(d, r)  BY DEF AssignSatellite
<1>3. /\ RequestsInv' /\ request'[r] = IdleRequest
      /\ \A x \in Admins : x # r => request'[x] = request[x]
  BY <1>2, EndsTyped DEF Inv, TransInv
<1>4. CASE UNCHANGED rows
  <2>1. RowsInv' /\ UNCHANGED device  BY <1>4, UnchangedRows DEF rows, Inv
  <2>2. PendingInv'  BY <1>3, <2>1, IdleTyped, PendingUnchanged DEF Inv, TransInv
  <2> QED  BY <1>2, <1>3, <2>1, <2>2 DEF Inv, TransInv, JobsInv
<1>5. ASSUME NEW row \in DeviceRow, Accepted(Just(d, row), Nothing, {}),
             Commit(Just(d, row), Nothing, {})
      PROVE  Inv'
  <2>1. Just(d, row) \in Partial(Devices, DeviceRow)  BY <1>1, JustTyped
  <2>2. RowsInv'  BY <1>5, <2>1, InsertionNothing, CommitRows DEF Inv
  <2>3. device' = Over(Just(d, row), device)  BY <1>5 DEF Commit
  <2>4. \A x \in Devices : x # d => device'[x] = device[x]
    BY <2>3 DEF Over, Just, Inv, RowsInv, Tables
  <2>5. Free({d}, r) /\ \A x \in Devices : x \notin {d} => device'[x] = device[x]
    BY <1>2, <2>4 DEF Free
  <2>6. PendingInv'  BY <1>3, <2>2, <2>5, IdleTyped, FreeKept DEF Inv, TransInv
  <2> QED  BY <1>2, <1>3, <2>2, <2>6 DEF Inv, TransInv, JobsInv
<1> QED  BY <1>1, <1>4, <1>5, AssignedRow DEF Inv

LEMMA ReplaceSatellitesInv ==
  ASSUME Inv, NEW r \in Admins, ReplaceSatellites(r) PROVE Inv'
<1> DEFINE q == request[r]
           D == Users(q.read, q.plan.exhibition, q.read.exhibition[q.plan.exhibition] \ q.plan.satellites)
<1>1. Ends(r) /\ UNCHANGED job /\ Free(D, r)  BY DEF ReplaceSatellites
<1>2. /\ RequestsInv' /\ request'[r] = IdleRequest
      /\ \A x \in Admins : x # r => request'[x] = request[x]
  BY <1>1, EndsTyped DEF Inv, TransInv
<1>3. RowsInv'  BY ReplaceSatellitesRows DEF Inv
<1>4. \A d \in Devices : d \notin D => device'[d] = device[d]
  BY ReplaceSatellitesCases DEF Inv, ReplacedRows, rows
<1>5. PendingInv'  BY <1>1, <1>2, <1>3, <1>4, IdleTyped, FreeKept DEF Inv, TransInv
<1> QED  BY <1>1, <1>2, <1>3, <1>5 DEF Inv, TransInv, JobsInv

\* The rules of an artwork are committed, or lost.
LEMMA ProtectionEndsInv ==
  ASSUME Inv, NEW r \in Admins, CommitProtection(r) \/ LoseProtection(r),
         request[r].plan.artwork \in Rows(artwork)
  PROVE  Inv' /\ Stays
<1>1. Ends(r) /\ UNCHANGED <<job, device>> /\ request[r].at = "rules"
  BY DEF CommitProtection, LoseProtection, rows
<1>2. /\ RequestsInv' /\ request'[r] = IdleRequest
      /\ \A x \in Admins : x # r => request'[x] = request[x]
  BY <1>1, EndsTyped DEF Inv, TransInv
<1>3. request[r].plan \in RulesPlan  BY <1>1, RequestTyped DEF Inv, TransInv, Staged
<1>4. RowsInv'
  BY <1>3, CommitProtectionRows, UnchangedRows DEF Inv, LoseProtection
<1>5. PendingInv' /\ Stays  BY <1>1, <1>2, IdleTyped, PendingUnchanged DEF Inv, TransInv
<1> QED  BY <1>1, <1>2, <1>4, <1>5 DEF Inv, TransInv, JobsInv

-----------------------------------------------------------------------------
(* The steps of a list                                                     *)

LEMMA WorksTyped ==
  ASSUME JobsInv, NEW w \in Workers, NEW j \in List, j.kind = job[w].kind,
         j.todo = job[w].todo, NEW d \in DOMAIN j.todo, Works(w, j, d)
  PROVE  JobsInv'
<1> DEFINE rest == Without(j.todo, d)
           next == [j EXCEPT !.todo = rest]
<1>1. job[w] \in List /\ Kept(job[w])  BY DEF JobsInv
<1>2. rest \in Partial(Devices, Glimpse)
      /\ \A x \in DOMAIN rest : x \in DOMAIN j.todo /\ rest[x] = j.todo[x]
  <2>1. j.todo \in Partial(Devices, Glimpse)  BY DEF List
  <2> QED  BY <2>1, PartialWithout
<1>3. j.kind # "none"
  <2>1. j.kind = "none" => j.todo = Nothing  BY <1>1 DEF Kept, NoJob
  <2> QED  BY <2>1, NothingApplies
<1> HIDE DEF rest
<1>4. next \in List /\ next.kind = j.kind /\ next.todo = rest  BY <1>2 DEF List
<1> HIDE DEF next
<1>5. Kept(next)  BY <1>1, <1>2, <1>3, <1>4 DEF Kept
<1>6. job' = [job EXCEPT ![w] = next]  BY DEF Works, next, rest
<1> QED  BY <1>4, <1>5, <1>6 DEF JobsInv

LEMMA DropsTyped == ASSUME JobsInv, NEW w \in Workers, Drops(w) PROVE JobsInv'
BY NoJobTyped DEF JobsInv, Drops

\* A worker is at a device of its list.
LEMMA AtDevice ==
  ASSUME JobsInv, NEW w \in Workers, NEW d \in DOMAIN job[w].todo
  PROVE  /\ job[w] \in List /\ Kept(job[w]) /\ d \in Devices /\ job[w].todo[d] \in Glimpse
         /\ job[w].todo[d].host \in Hosts
<1>1. job[w] \in List /\ Kept(job[w])  BY DEF JobsInv
<1>2. job[w].todo \in Partial(Devices, Glimpse)  BY <1>1 DEF List
<1>3. d \in Devices /\ job[w].todo[d] \in Glimpse  BY <1>2, PartialApplies
<1> QED  BY <1>1, <1>3 DEF Glimpse

LEMMA PlacesKept ==
  ASSUME RowsInv, RequestsInv, PendingInv, UNCHANGED request, \A d \in Devices : KeepsPlace(d)
  PROVE  PendingInv' /\ Stays
<1>1. \A x \in Admins : request'[x].row # None => KeepsPlace(request[x].dev)
  BY RequestTyped DEF Staged, IdleRequest
<1>2. PendingInv'  BY <1>1, PendingKept
<1>3. \A d \in Rows(device) : d \in Devices  BY DEF RowsInv, Tables, Rows
<1> QED  BY <1>2, <1>3 DEF Stays, KeepsPlace

\* The device rows are left alone.
LEMMA DevicesKept ==
  ASSUME RowsInv', JobsInv', RequestsInv, PendingInv, UNCHANGED <<device, request>>
  PROVE  Inv' /\ Stays
BY PendingUnchanged DEF Inv, TransInv, RequestsInv

LEMMA ReadDeviceInv ==
  ASSUME Inv, NEW w \in Workers, NEW d, ReadDevice(w, d) \/ SkipDevice(w, d)
  PROVE  Inv' /\ Stays
<1> DEFINE j == job[w]
<1>1. d \in DOMAIN j.todo /\ UNCHANGED <<device, request, rows>>
  BY DEF ReadDevice, SkipDevice, rows
<1>2. j \in List /\ Kept(j) /\ d \in Devices /\ j.todo[d] \in Glimpse
  BY <1>1, AtDevice DEF Inv, TransInv
<1>3. CASE SkipDevice(w, d)
  <2>1. JobsInv'  BY <1>1, <1>2, <1>3, WorksTyped DEF SkipDevice, Inv, TransInv
  <2> QED  BY <1>1, <2>1, UnchangedRows, DevicesKept DEF Inv, TransInv
<1>4. CASE ReadDevice(w, d)
  <2> DEFINE log == Over(Just(d, Reading(j.todo[d])), j.log)
             next == [j EXCEPT !.log = log]
  <2>1. Reading(j.todo[d]) \in Entry  BY <1>1, <1>2, <1>4, ReadingTyped DEF Kept, ReadDevice
  <2>2. log \in Partial(Devices, Entry)
    <3>1. j.log \in Partial(Devices, Entry)  BY <1>2 DEF List
    <3> QED  BY <1>2, <2>1, <3>1, PartialJust, PartialOver
  <2>3. Works(w, next, d)  BY <1>4 DEF ReadDevice
  <2> HIDE DEF log
  <2>4. next \in List /\ next.kind = j.kind /\ next.todo = j.todo  BY <1>2, <2>2 DEF List
  <2> HIDE DEF next
  <2>5. JobsInv'  BY <1>1, <2>3, <2>4, WorksTyped DEF Inv, TransInv
  <2> QED  BY <1>1, <2>5, UnchangedRows, DevicesKept DEF Inv, TransInv
<1> QED  BY <1>3, <1>4

LEMMA TouchDeviceInv ==
  ASSUME Inv, NEW w \in Workers, NEW d, TouchDevice(w, d) PROVE Inv' /\ Stays
<1> DEFINE j == job[w]
           links == Over(Just(d, None), j.links)
           next == [j EXCEPT !.links = links]
<1>1. d \in DOMAIN j.todo /\ UNCHANGED <<device, request, rows>>
  BY DEF TouchDevice, rows
<1>2. j \in List /\ d \in Devices  BY <1>1, AtDevice DEF Inv, TransInv
<1>3. Works(w, next, d) \/ Drops(w)  BY DEF TouchDevice
<1>4. links \in Partial(Devices, Assets \cup {None})
  <2>1. j.links \in Partial(Devices, Assets \cup {None})  BY <1>2 DEF List
  <2>2. None \in Assets \cup {None}  OBVIOUS
  <2> QED  BY <1>2, <2>1, <2>2, PartialJust, PartialOver
<1> HIDE DEF links
<1>5. next \in List /\ next.kind = j.kind /\ next.todo = j.todo  BY <1>2, <1>4 DEF List
<1> HIDE DEF next
<1>6. JobsInv'  BY <1>1, <1>3, <1>5, WorksTyped, DropsTyped DEF Inv, TransInv
<1> QED  BY <1>1, <1>6, UnchangedRows, DevicesKept DEF Inv, TransInv

LEMMA CacheInfoInv ==
  ASSUME Inv, NEW w \in Workers, NEW d, CacheInfo(w, d) PROVE Inv' /\ Stays
<1> DEFINE j == job[w]
           h == j.todo[d].host
           row == [device[d] EXCEPT !.cached = h]
<1>1. d \in DOMAIN j.todo /\ Works(w, j, d) /\ UNCHANGED request
      /\ UNCHANGED <<satellite, exhibition, artwork, asset, logs, held>>
  BY DEF CacheInfo
<1>2. j \in List /\ d \in Devices /\ h \in Hosts  BY <1>1, AtDevice DEF Inv, TransInv
<1>3. JobsInv'  BY <1>1, <1>2, WorksTyped DEF Inv, TransInv
<1>4. CASE UNCHANGED device
  <2>1. RowsInv'  BY <1>1, <1>4, UnchangedRows DEF Inv, rows
  <2> QED  BY <1>1, <1>3, <1>4, <2>1, DevicesKept DEF Inv, TransInv
<1>5. CASE d \in Rows(device) /\ device' = [device EXCEPT ![d].cached = h]
  <2>1. device[d] \in DeviceRow /\ h \in Hosts \cup {None}
    BY <1>2, <1>5, RowsOfTables DEF Inv, RowsInv
  <2>2. /\ row \in DeviceRow /\ row.artwork = device[d].artwork
        /\ row.satellite = device[d].satellite /\ row.asset = device[d].asset
    BY <2>1, CachedField
  <2>3. device' = [device EXCEPT ![d] = row]  BY <1>5
  <2>4. row \notin {None, Gone}  BY <2>2, AbsentRows DEF AreRows
  <2> HIDE DEF row
  <2>5. \A x \in Devices : device'[x] = IF x = d THEN row ELSE device[x]
    BY <2>3 DEF Inv, RowsInv, Tables
  <2>6. device' \in [Devices -> DeviceRow \cup {None, Gone}] /\ DOMAIN device = Devices
    BY <2>2, <2>3 DEF Inv, RowsInv, Tables
  <2>7. RowsInv'
    BY <1>1, <1>5, <2>2, <2>5, <2>6, DeviceRows DEF Inv, RowsInv, Keys
  <2>8. \A x \in Devices : KeepsPlace(x)
    BY <1>5, <2>2, <2>4, <2>5, <2>6 DEF KeepsPlace, Rows
  <2>9. PendingInv' /\ Stays  BY <1>1, <2>8, PlacesKept DEF Inv, TransInv
  <2> QED  BY <1>1, <1>3, <2>7, <2>9 DEF Inv, TransInv, RequestsInv
<1> QED  BY <1>4, <1>5 DEF CacheInfo

LEMMA DeadlockDetectedInv ==
  ASSUME Inv, NEW w \in Workers, DeadlockDetected(w) PROVE Inv' /\ Stays
<1>1. UNCHANGED <<device, request, rows>> /\ Drops(w)  BY DEF DeadlockDetected, rows
<1> QED  BY <1>1, DropsTyped, UnchangedRows, DevicesKept DEF Inv, TransInv

LEMMA LinkDeviceInv ==
  ASSUME Inv, NEW w \in Workers, NEW d, LinkDevice(w, d) PROVE Inv' /\ Stays
<1> DEFINE j == job[w]
           n == NumberOf[j.todo[d].host]
           link == GetOrCreateAsset(n, j.made)
           listed == [j.todo[d] EXCEPT !.asset = link.id]
           links == Over(Just(d, link.id), j.links)
           linked == [j EXCEPT !.links = links, !.made = link.made]
           log == Over(Just(d, Reading(listed)), linked.log)
           logged == [linked EXCEPT !.log = log]
<1>1. d \in DOMAIN j.todo /\ UNCHANGED request  BY DEF LinkDevice
<1>2. j \in List /\ d \in Devices /\ j.todo[d] \in Glimpse /\ j.todo[d].host \in Hosts
  BY <1>1, AtDevice DEF Inv, TransInv
<1>3. n \in Numbers  BY <1>2, NumbersKnown DEF LinkDevice
<1>4. link.id \in Assets /\ link.made \in Insertion
  <2>1. j.made \in Insertion  BY <1>2 DEF List
  <2> QED  BY <1>3, <2>1, AssetTyped DEF LinkDevice, Inv
<1>5. listed \in Glimpse /\ listed.asset = link.id  BY <1>2, <1>4 DEF Glimpse
<1>6. Reading(listed) \in Entry  BY <1>4, <1>5, ReadingTyped
<1>7. links \in Partial(Devices, Assets \cup {None})
  <2>1. j.links \in Partial(Devices, Assets \cup {None})  BY <1>2 DEF List
  <2>2. link.id \in Assets \cup {None}  BY <1>4
  <2> QED  BY <1>2, <2>1, <2>2, PartialJust, PartialOver
<1>8. Drops(w) \/ Works(w, linked, d) \/ Works(w, logged, d)  BY DEF LinkDevice
<1>9. UNCHANGED rows \/ (d \in Rows(device) /\ device[d].asset # None
                           /\ Commit(Nothing, Nothing, {Reading(device[d])}))
  BY DEF LinkDevice
<1> HIDE DEF link, links, listed
<1>10. linked \in List /\ linked.kind = j.kind /\ linked.todo = j.todo
  BY <1>2, <1>4, <1>7 DEF List
<1> HIDE DEF linked
<1>11. log \in Partial(Devices, Entry)
  <2>1. linked.log \in Partial(Devices, Entry)  BY <1>10 DEF List
  <2> QED  BY <1>2, <1>6, <2>1, PartialJust, PartialOver
<1> HIDE DEF log
<1>12. logged \in List /\ logged.kind = j.kind /\ logged.todo = j.todo
  BY <1>10, <1>11 DEF List
<1> HIDE DEF logged
<1>13. JobsInv'
  BY <1>1, <1>8, <1>10, <1>12, DropsTyped, WorksTyped DEF Inv, TransInv
<1>14. RowsInv' /\ UNCHANGED device
  <2>1. CASE UNCHANGED rows  BY <2>1, UnchangedRows DEF Inv, rows
  <2>2. CASE /\ d \in Rows(device) /\ device[d].asset # None
             /\ Commit(Nothing, Nothing, {Reading(device[d])})
    <3>1. device[d] \in DeviceRow /\ device[d].asset \in Rows(asset)
      BY <2>2, RowsOfTables DEF Inv, RowsInv, Keys
    <3>2. device[d].asset \in Assets  BY <3>1, RowsOfTables DEF Inv, RowsInv
    <3>3. Reading(device[d]) \in Entry /\ Reading(device[d]).asset = device[d].asset
      BY <3>1, <3>2, ReadingTyped
    <3>4. Accepted(Nothing, Nothing, {Reading(device[d])})
      BY <3>1, <3>3, NothingApplies DEF Accepted
    <3>5. {Reading(device[d])} \in SUBSET Entry  BY <3>3
    <3>6. CommitOrRollback(Nothing, Nothing, {Reading(device[d])})
      BY <2>2, <3>4 DEF CommitOrRollback
    <3> QED  BY <3>5, <3>6, InsertionNothing, EntriesKeep DEF Inv
  <2> QED  BY <1>9, <2>1, <2>2
<1> QED  BY <1>1, <1>13, <1>14, DevicesKept DEF Inv, TransInv

\* A row of a list: linked, or only touched.
LEMMA LinkedRow ==
  ASSUME NEW old \in DeviceRow, NEW link \in Assets \cup {None}, NEW row,
         row = [old EXCEPT !.asset = IF link = None THEN @ ELSE link]
  PROVE  /\ row \in DeviceRow /\ row.artwork = old.artwork
         /\ row.satellite = old.satellite /\ row.host = old.host
         /\ row.asset = IF link = None THEN old.asset ELSE link
<1> DEFINE a == IF link = None THEN old.asset ELSE link
<1>1. a \in Assets \cup {None}  BY DEF DeviceRow
<1>2. row = [old EXCEPT !.asset = a]  BY DEF DeviceRow
<1> HIDE DEF a
<1> QED  BY <1>1, <1>2, AssetField

LEMMA CommitListInv ==
  ASSUME Inv, NEW w \in Workers, CommitList(w) PROVE Inv' /\ Stays
<1> DEFINE j == job[w]
           update == [d \in DOMAIN j.links |->
                        [device[d] EXCEPT !.asset = IF j.links[d] = None THEN @ ELSE j.links[d]]]
           entries == {j.log[d] : d \in DOMAIN j.log}
<1>1. Drops(w) /\ UNCHANGED request  BY DEF CommitList
<1>2. JobsInv'  BY <1>1, DropsTyped DEF Inv, TransInv
<1>3. CASE UNCHANGED rows
  <2>1. RowsInv' /\ UNCHANGED device  BY <1>3, UnchangedRows DEF Inv, rows
  <2> QED  BY <1>1, <1>2, <2>1, DevicesKept DEF Inv, TransInv
<1>4. CASE /\ DOMAIN j.links \subseteq Rows(device) /\ Accepted(update, j.made, entries)
           /\ Commit(update, j.made, entries)
  <2>1. j \in List  BY DEF Inv, TransInv, JobsInv
  <2>2. /\ j.links \in Partial(Devices, Assets \cup {None}) /\ j.made \in Insertion
        /\ j.log \in Partial(Devices, Entry)
    BY <2>1 DEF List
  <2>3. \A d \in DOMAIN j.links :
          d \in Devices /\ d \in Rows(device) /\ device[d] \in DeviceRow
    BY <1>4, <2>2, PartialApplies, RowsOfTables DEF Inv, RowsInv
  <2>4. DOMAIN update = DOMAIN j.links
        /\ \A d \in DOMAIN j.links : /\ update[d] \in DeviceRow
                                     /\ update[d].artwork = device[d].artwork
                                     /\ update[d].satellite = device[d].satellite
    <3>1. ASSUME NEW d \in DOMAIN j.links
          PROVE  /\ update[d] \in DeviceRow /\ update[d].artwork = device[d].artwork
                 /\ update[d].satellite = device[d].satellite
      <4> DEFINE old == device[d]
                 link == j.links[d]
      <4>1. old \in DeviceRow /\ link \in Assets \cup {None}
        BY <2>2, <2>3, <3>1, PartialApplies
      <4>2. update[d] = [old EXCEPT !.asset = IF link = None THEN @ ELSE link]  BY <3>1
      <4> HIDE DEF old, link, update
      <4>3. /\ update[d] \in DeviceRow /\ update[d].artwork = old.artwork
            /\ update[d].satellite = old.satellite
        BY <4>1, <4>2, LinkedRow
      <4> QED  BY <4>3 DEF old
    <3> QED  BY <3>1
  <2>5. entries \in SUBSET Entry  BY <2>2, PartialApplies
  <2>6. device' = Over(update, device)  BY <1>4 DEF Commit
  <2>7. Accepted(update, j.made, entries) /\ Commit(update, j.made, entries)  BY <1>4
  <2>8. update \in [DOMAIN j.links -> DeviceRow]  BY <2>4
  <2> HIDE DEF update, entries
  <2>9. update \in Partial(Devices, DeviceRow)
    BY <2>3, <2>8 DEF Partial
  <2>10. RowsInv'  BY <2>2, <2>5, <2>7, <2>9, CommitRows DEF Inv
  <2>11. \A d \in Devices : KeepsPlace(d)
    <3>1. DOMAIN device = Devices  BY DEF Inv, RowsInv, Tables
    <3>2. DOMAIN device' = Devices  BY <2>10 DEF RowsInv, Tables
    <3>3. \A d \in Devices : device'[d] = IF d \in DOMAIN update THEN update[d] ELSE device[d]
      BY <2>6, <3>1 DEF Over
    <3>4. \A d \in DOMAIN update : update[d] \notin {None, Gone}
      BY <2>4, AbsentRows DEF AreRows
    <3> QED  BY <2>3, <2>4, <3>1, <3>2, <3>3, <3>4 DEF KeepsPlace, Rows
  <2>12. PendingInv' /\ Stays  BY <1>1, <2>11, PlacesKept DEF Inv, TransInv
  <2> QED  BY <1>1, <1>2, <2>10, <2>12 DEF Inv, TransInv, RequestsInv
<1> QED  BY <1>3, <1>4 DEF CommitList, CommitOrRollback

LEMMA ListStepInv == ASSUME Inv, NEW w \in Workers, ListStep(w) PROVE Inv' /\ Stays
BY ReadDeviceInv, TouchDeviceInv, LinkDeviceInv, CacheInfoInv, DeadlockDetectedInv, CommitListInv
DEF ListStep

LEMMA DeviceStepInv ==
  ASSUME Inv, NEW r \in Admins, DeviceStep(r) PROVE Inv' /\ (AssignSatellite(r) \/ Stays)
BY ReadOffboardInv, UpdateRowInv, LinkRowInv, LinksNothingInv, ReadOnboardInv,
   ReadInBackgroundInv, DeleteRowInv, AssignSatelliteInv, ListStepInv
DEF DeviceStep, Workers

LEMMA LoopStepInv == ASSUME Inv, LoopStep PROVE Inv' /\ Stays
<1>1. Loop \in Workers  BY DEF Workers
<1>2. ASSUME NEW kind \in Recurring \cup {"record"}, NEW D \in SUBSET Rows(device),
             Takes(Loop, kind, D), UNCHANGED <<rows, request>>,
             kind \notin Linking \cup {"cache"} => \A d \in D : device[d].asset # None
      PROVE  Inv' /\ Stays
  <2>1. JobsInv'  BY <1>1, <1>2, TakesTyped DEF Inv, TransInv
  <2>2. RowsInv' /\ UNCHANGED <<device, request>>
    BY <1>2, UnchangedRows DEF rows, Inv
  <2> QED  BY <2>1, <2>2, DevicesKept DEF Inv, TransInv
<1>3. ASSUME NEW kind \in Recurring, JobBegins(kind) PROVE Inv' /\ Stays
  <2>1. Listed(kind) \in SUBSET Rows(device)
        /\ (kind \notin Linking \cup {"cache"} => \A d \in Listed(kind) : device[d].asset # None)
    BY DEF Listed, Linked, Recurring, Linking
  <2> QED  BY <1>2, <1>3, <2>1 DEF JobBegins
<1>4. ASSUME NEW d \in Devices, RecordBegins(d) PROVE Inv' /\ Stays
  BY <1>2, <1>4 DEF RecordBegins, Linked
<1> QED  BY <1>1, <1>3, <1>4, ListStepInv DEF LoopStep

-----------------------------------------------------------------------------
(* What a request leaves pending                                           *)

LEMMA NewRequestPending ==
  ASSUME Inv, NEW r \in Admins, NewRequest(r) PROVE PendingInv'
<1>1. RowsInv' /\ RowsInv /\ RequestsInv /\ PendingInv
  BY NewRequestRows DEF Inv, TransInv
<1>2. DOMAIN device = Devices /\ \A d \in Rows(device) : d \in Devices
  BY <1>1 DEF RowsInv, Tables, Rows
<1>3. ASSUME NEW D, Free(D, r), Asks(r), UNCHANGED request,
             \A d \in Devices : d \notin D => device'[d] = device[d]
      PROVE  PendingInv'
  BY <1>1, <1>3, IdleTyped, FreeKept DEF Asks
<1>4. ASSUME UNCHANGED <<device, request>> PROVE PendingInv'
  BY <1>1, <1>4, PendingUnchanged
<1>5. ASSUME NEW next, next.row = None, Goes(r, next), UNCHANGED rows PROVE PendingInv'
  <2>1. UNCHANGED device  BY <1>5 DEF rows
  <2>2. \A x \in Admins : request'[x] = request[x] \/ request'[x].row = None
    BY <1>1, <1>5 DEF Goes, RequestsInv
  <2> QED  BY <1>1, <2>1, <2>2, PendingUnchanged
<1>6. ASSUME NEW d, NEW row, ChangeDevice(r, d, row) PROVE PendingInv'
  <2>1. Free({d}, r) /\ Asks(r) /\ UNCHANGED request
    BY <1>6 DEF ChangeDevice, Free, AsksDatabase
  <2>2. \A x \in Devices : x \notin {d} => device'[x] = device[x]
    BY <1>2, <1>6 DEF ChangeDevice
  <2> QED  BY <1>3, <2>1, <2>2
<1>7. ASSUME NEW e, DeleteExhibition(r, e) PROVE PendingInv'
  <2>1. Free(DevicesOf(e), r) /\ Asks(r) /\ UNCHANGED request
    BY <1>7 DEF DeleteExhibition, AsksDatabase
  <2>2. \A d \in Devices : d \notin DevicesOf(e) => device'[d] = device[d]
    BY <1>2, <1>7 DEF DeleteExhibition, Deleted
  <2> QED  BY <1>3, <2>1, <2>2
<1>8. ASSUME NEW e, NEW S, NEW d, NEW a, NEW s, NEW c, NEW t,
             \/ UpdateExhibition(r, e, S) \/ CheckSatellite(r, d, a, s)
             \/ UpdateProtection(r, a, c, t)
      PROVE  PendingInv'
  <2>1. CASE UpdateExhibition(r, e, S)
    <3> DEFINE next == [IdleRequest EXCEPT !.at = "withdraw", !.read = Places,
                          !.plan = [exhibition |-> e, satellites |-> S]]
    <3>1. next.row = None  BY DEF IdleRequest
    <3>2. Goes(r, next) /\ UNCHANGED rows  BY <2>1 DEF UpdateExhibition
    <3> HIDE DEF next
    <3> QED  BY <1>5, <3>1, <3>2
  <2>2. CASE CheckSatellite(r, d, a, s)
    <3> DEFINE next == [IdleRequest EXCEPT !.at = "assign", !.dev = d, !.read = Places,
                          !.plan = [artwork |-> a, satellite |-> s]]
    <3>1. next.row = None  BY DEF IdleRequest
    <3>2. Goes(r, next) /\ UNCHANGED rows  BY <2>2 DEF CheckSatellite
    <3> HIDE DEF next
    <3> QED  BY <1>5, <3>1, <3>2
  <2>3. CASE UpdateProtection(r, a, c, t)
    <3> DEFINE next == [IdleRequest EXCEPT !.at = "rules",
                          !.plan = [artwork |-> a, config |-> c, timeslice |-> t]]
    <3>1. next.row = None  BY DEF IdleRequest
    <3>2. Goes(r, next) /\ UNCHANGED rows  BY <2>3 DEF UpdateProtection
    <3> HIDE DEF next
    <3> QED  BY <1>5, <3>1, <3>2
  <2> QED  BY <1>8, <2>1, <2>2, <2>3
<1>9. ASSUME NEW s, RevokeSatellite(r, s) PROVE PendingInv'
  <2> DEFINE D == {d \in Rows(device) : device[d].satellite = s}
  <2>1. Free(D, r) /\ Asks(r) /\ UNCHANGED request
    BY <1>9 DEF RevokeSatellite, AsksDatabase
  <2>2. \A d \in Devices : d \notin D => device'[d] = device[d]
    BY <1>9 DEF RevokeSatellite
  <2> QED  BY <1>3, <2>1, <2>2
<1>10. ASSUME NEW a, DeleteArtwork(r, a) PROVE PendingInv'
  <2> DEFINE D == {d \in Rows(device) : device[d].artwork = a}
  <2>1. Free(D, r) /\ Asks(r) /\ UNCHANGED request
    BY <1>10 DEF DeleteArtwork, AsksDatabase
  <2>2. \A d \in Devices : d \notin D => device'[d] = device[d]
    BY <1>2, <1>10 DEF DeleteArtwork, Deleted
  <2> QED  BY <1>3, <2>1, <2>2
<1>11. ASSUME NEW a, DeleteAsset(r, a) PROVE PendingInv'
  <2> DEFINE D == {d \in Rows(device) : device[d].asset = a}
  <2>1. Free(D, r) /\ Asks(r) /\ UNCHANGED request
    BY <1>11 DEF DeleteAsset, AsksDatabase
  <2>2. \A d \in Devices : d \notin D => device'[d] = device[d]
    BY <1>11 DEF DeleteAsset
  <2> QED  BY <1>3, <2>1, <2>2
<1>12. ASSUME NEW d \in Devices, NEW a \in Artworks, NEW s \in Satellites \cup {None}, NEW h \in Hosts,
              CreateDevice(r, d, a, s, h)
       PROVE  PendingInv'
  <2> DEFINE next == [IdleRequest EXCEPT !.at = "link", !.dev = d,
                !.row = [artwork |-> a, satellite |-> s, host |-> h, asset |-> None,
                         cached |-> None]]
  <2>1. Goes(r, next) /\ device[d] = None /\ ~Locked(d, r) /\ UNCHANGED device
    BY <1>12 DEF CreateDevice, rows
  <2>2. next.dev = d /\ next.seen = None  BY DEF IdleRequest
  <2> HIDE DEF next
  <2>3. request'[r] = next /\ \A x \in Admins : x # r => request'[x] = request[x]
    BY <1>1, <2>1 DEF Goes, RequestsInv
  <2>4. \A x \in Admins : x # r /\ request[x].row # None => request[x].dev # d
    BY <2>1 DEF Locked
  <2>5. Rows(device)' = Rows(device)  BY <2>1 DEF Rows
  <2>6. \A x \in Admins : request'[x].row # None =>
          LET q == request'[x]
              y == q.dev
          IN  IF q.seen = None THEN device'[y] = None
              ELSE /\ y \in Rows(device)' /\ q.row.artwork = device'[y].artwork
                   /\ q.row.satellite = device'[y].satellite
    BY <1>1, <2>1, <2>2, <2>3, <2>5 DEF PendingInv
  <2>7. \A x, y \in Admins :
          /\ request'[x].row # None /\ request'[y].row # None
          /\ request'[x].seen = None /\ request'[y].seen = None
          /\ request'[x].dev = request'[y].dev
          => x = y
    BY <1>1, <2>2, <2>3, <2>4 DEF PendingInv
  <2> QED  BY <2>6, <2>7 DEF PendingInv
<1>13. ASSUME NEW d, NEW h, DeleteDevice(r, d) \/ UpdateHost(r, d, h) PROVE PendingInv'
  <2>1. PICK next : next.row = None /\ Goes(r, next)
    <3>1. \A at, x, y : [IdleRequest EXCEPT !.at = at, !.dev = d, !.seen = x, !.to = y].row = None
      BY DEF IdleRequest
    <3>2. \A at, x : [IdleRequest EXCEPT !.at = at, !.dev = d, !.seen = x].row = None
      BY DEF IdleRequest
    <3> QED  BY <1>13, <3>1, <3>2 DEF DeleteDevice, UpdateHost
  <2>2. UNCHANGED rows  BY <1>13 DEF DeleteDevice, UpdateHost
  <2> QED  BY <1>5, <2>1, <2>2
<1>14. ASSUME NEW a, NEW e, NEW kind, NEW D,
              \/ CreateExhibition(r, e) \/ CreateArtwork(r, a, e) \/ MoveArtwork(r, a, e)
              \/ AddManualLampHours(r, a) \/ ChoreBegins(r, kind, D)
       PROVE  PendingInv'
  BY <1>4, <1>14
  DEF CreateExhibition, CreateArtwork, MoveArtwork, AddManualLampHours, ChoreBegins,
      AsksDatabase, rows
<1>15. ASSUME NEW d, NEW a, NEW s, ReconfigureDevice(r, d) \/ MoveDevice(r, d, a, s)
       PROVE  PendingInv'
  BY <1>6, <1>15 DEF ReconfigureDevice, MoveDevice
<1> QED  BY <1>7, <1>8, <1>9, <1>10, <1>11, <1>12, <1>13, <1>14, <1>15 DEF NewRequest

-----------------------------------------------------------------------------
(* Devices and the satellites of their exhibitions                         *)

\* A device comes to a satellite its exhibition does not have.
Strays(d) == Reachable(d) /\ ~Reachable(d)'

Moves(d) ==
  \/ device[d].artwork # device'[d].artwork /\ device'[d].satellite = device[d].satellite
  \/ artwork[device[d].artwork].exhibition # artwork'[device[d].artwork].exhibition

LEMMA PlaceKept ==
  ASSUME NEW d, device'[d].artwork = device[d].artwork,
         device'[d].satellite \in {device[d].satellite, None},
         artwork'[device[d].artwork].exhibition = artwork[device[d].artwork].exhibition,
         \A s : /\ device'[d].satellite = s
                /\ s \in exhibition[artwork[device[d].artwork].exhibition]
                => s \in exhibition'[artwork[device[d].artwork].exhibition]
  PROVE  ~Strays(d)
BY DEF Strays, Reachable

LEMMA StaysInPlace ==
  ASSUME Stays, UNCHANGED <<exhibition, artwork>>,
         NEW d \in Rows(device), d \in Rows(device)'
  PROVE  ~Strays(d)
BY PlaceKept DEF Stays

\* Rows of exhibitions.
LEMMA ExhibitionStrays ==
  ASSUME Inv, NEW r \in Admins, NEW e \in Exhibitions, NEW s,
         CreateExhibition(r, e) \/ DeleteExhibition(r, e) \/ RevokeSatellite(r, s),
         NEW d \in Rows(device), d \in Rows(device)'
  PROVE  ~Strays(d)
<1> DEFINE a == device[d].artwork
           x == artwork[a].exhibition
<1>1. RowsInv /\ Tables  BY DEF Inv, RowsInv
<1>2. d \in Devices /\ a \in Rows(artwork) /\ x \in Rows(exhibition)
  BY <1>1 DEF RowsInv, Keys, Tables, Rows
<1>3. a \in Artworks /\ x \in Exhibitions /\ DOMAIN exhibition = Exhibitions
  BY <1>1, <1>2 DEF Tables, Rows
<1>4. CASE CreateExhibition(r, e)
  <2>1. /\ UNCHANGED <<artwork, device>> /\ exhibition[e] = None
        /\ exhibition' = [exhibition EXCEPT ![e] = {}]
    BY <1>4 DEF CreateExhibition
  <2>2. x # e  BY <1>2, <2>1 DEF Rows
  <2>3. exhibition'[x] = exhibition[x]  BY <1>3, <2>1, <2>2
  <2> QED  BY <2>1, <2>3, PlaceKept
<1>5. CASE DeleteExhibition(r, e)
  <2>1. /\ exhibition' = Deleted(exhibition, {e}) /\ device' = Deleted(device, DevicesOf(e))
        /\ artwork' = Deleted(artwork, {b \in Rows(artwork) : artwork[b].exhibition = e})
    BY <1>5 DEF DeleteExhibition
  <2>2. d \notin DevicesOf(e) /\ device'[d] = device[d]
    BY <1>1, <1>2, <2>1 DEF Deleted, Rows, Tables
  <2>3. x # e  BY <2>2 DEF DevicesOf
  <2>4. exhibition'[x] = exhibition[x]  BY <1>3, <2>1, <2>3 DEF Deleted
  <2>5. artwork'[a] = artwork[a]  BY <1>1, <1>3, <2>1, <2>3 DEF Deleted, Tables
  <2> QED  BY <2>2, <2>4, <2>5, PlaceKept
<1>6. CASE RevokeSatellite(r, s)
  <2> DEFINE D == {y \in Rows(device) : device[y].satellite = s}
  <2>1. /\ exhibition' = [y \in Exhibitions |->
             IF y \in Rows(exhibition) THEN exhibition[y] \ {s} ELSE exhibition[y]]
        /\ UNCHANGED artwork
        /\ device' = [y \in Devices |->
             IF y \in D THEN [device[y] EXCEPT !.satellite = None] ELSE device[y]]
    BY <1>6 DEF RevokeSatellite
  <2>2. D \in SUBSET Rows(device)  OBVIOUS
  <2>3. d \in D <=> device[d].satellite = s  OBVIOUS
  <2> HIDE DEF D
  <2>4. /\ device'[d].artwork = a
        /\ d \in D => device'[d].satellite = None
        /\ d \notin D => device'[d].satellite = device[d].satellite
    BY <1>1, <2>1, <2>2, ClearedDevices
  <2>5. exhibition'[x] = exhibition[x] \ {s}  BY <1>2, <1>3, <2>1
  <2>6. None \notin exhibition[x]
    <3>1. exhibition[x] \subseteq Satellites  BY <1>1, <1>2, RowsOfTables
    <3> QED  BY <3>1, AbsentRows DEF AreRows
  <2>7. \A t : device'[d].satellite = t /\ t \in exhibition[x] => t \in exhibition'[x]
    BY <2>3, <2>4, <2>5, <2>6
  <2> QED  BY <2>1, <2>4, <2>7, PlaceKept
<1> QED  BY <1>4, <1>5, <1>6

\* A withdrawal that nothing has crossed takes the satellites from all devices.
LEMMA ReplaceSatellitesStrays ==
  ASSUME Inv, NEW r \in Admins, ReplaceSatellites(r), request[r].read = Places,
         NEW d \in Rows(device), d \in Rows(device)'
  PROVE  ~Strays(d)
<1> DEFINE q == request[r]
           e == q.plan.exhibition
           removed == exhibition[e] \ q.plan.satellites
           added == q.plan.satellites \ exhibition[e]
           D == Users(q.read, e, removed)
           a == device[d].artwork
           x == artwork[a].exhibition
<1>1. RowsInv /\ Tables  BY DEF Inv, RowsInv
<1>2. d \in Devices /\ a \in Rows(artwork) /\ x \in Rows(exhibition)
  BY <1>1 DEF RowsInv, Keys, Tables, Rows
<1>3. x \in Exhibitions /\ DOMAIN exhibition = Exhibitions
  BY <1>1, <1>2 DEF Tables, Rows
<1>4. UNCHANGED artwork /\ (ReplacedRows(r) \/ UNCHANGED rows)
  BY <1>1, ReplaceSatellitesCases
<1>5. CASE UNCHANGED rows  BY <1>4, <1>5, StaysInPlace DEF Stays, rows
<1>6. CASE ReplacedRows(r)
  <2>1. q.read.exhibition = exhibition  BY <1>1, PlacesTyped
  <2>2. /\ D \in SUBSET Rows(device)
        /\ exhibition' = [exhibition EXCEPT ![e] = (@ \ removed) \cup added]
        /\ device' = [y \in Devices |->
             IF y \in D THEN [device[y] EXCEPT !.satellite = None] ELSE device[y]]
    BY <1>6, <2>1 DEF ReplacedRows
  <2>3. d \in D <=> x = e /\ device[d].satellite \in removed
    BY <1>1, <1>2, PlacesTyped DEF Users
  <2>4. None \notin exhibition[x]
    <3>1. exhibition[x] \subseteq Satellites  BY <1>1, <1>2, RowsOfTables
    <3> QED  BY <3>1, AbsentRows DEF AreRows
  <2>5. exhibition'[x] = IF x = e THEN (exhibition[x] \ removed) \cup added ELSE exhibition[x]
    BY <1>3, <2>2
  <2>6. x # e \/ removed = exhibition[x] \ q.plan.satellites  OBVIOUS
  <2> HIDE DEF D, removed, added
  <2>7. /\ device'[d].artwork = a
        /\ d \in D => device'[d].satellite = None
        /\ d \notin D => device'[d].satellite = device[d].satellite
    BY <1>1, <2>2, ClearedDevices
  <2>8. \A s : device'[d].satellite = s /\ s \in exhibition[x] => s \in exhibition'[x]
    BY <2>3, <2>4, <2>5, <2>7
  <2> QED  BY <1>4, <2>7, <2>8, PlaceKept
<1> QED  BY <1>4, <1>5, <1>6

\* Rows of artworks.
LEMMA ArtworkStrays ==
  ASSUME Inv, NEW r \in Admins, NEW b \in Artworks, NEW e \in Exhibitions,
         CreateArtwork(r, b, e) \/ MoveArtwork(r, b, e) \/ DeleteArtwork(r, b),
         NEW d \in Rows(device), d \in Rows(device)', Strays(d)
  PROVE  Moves(d)
<1> DEFINE a == device[d].artwork
           x == artwork[a].exhibition
<1>1. RowsInv /\ Tables  BY DEF Inv, RowsInv
<1>2. d \in Devices /\ a \in Rows(artwork)
  BY <1>1 DEF RowsInv, Keys, Tables, Rows
<1>3. a \in Artworks /\ DOMAIN artwork = Artworks  BY <1>1, <1>2 DEF Tables, Rows
<1>4. UNCHANGED exhibition
  BY DEF CreateArtwork, MoveArtwork, DeleteArtwork
<1>5. CASE CreateArtwork(r, b, e)
  <2>1. UNCHANGED device /\ artwork[b] = None
        /\ \A y \in Artworks : y # b => artwork'[y] = artwork[y]
    BY <1>3, <1>5 DEF CreateArtwork
  <2>2. a # b  BY <1>2, <2>1 DEF Rows
  <2> QED  BY <1>3, <1>4, <2>1, <2>2, PlaceKept
<1>6. CASE MoveArtwork(r, b, e)
  <2>1. UNCHANGED device  BY <1>6 DEF MoveArtwork
  <2> QED  BY <1>4, <2>1, PlaceKept DEF Moves
<1>7. CASE DeleteArtwork(r, b)
  <2>1. /\ artwork' = Deleted(artwork, {b})
        /\ device' = Deleted(device, {y \in Rows(device) : device[y].artwork = b})
    BY <1>7 DEF DeleteArtwork
  <2>2. a # b /\ device'[d] = device[d]
    BY <1>1, <1>2, <2>1 DEF Deleted, Rows, Tables
  <2>3. artwork'[a] = artwork[a]  BY <1>3, <2>1, <2>2 DEF Deleted
  <2> QED  BY <1>4, <2>2, <2>3, PlaceKept
<1> QED  BY <1>5, <1>6, <1>7

LEMMA ProtectionEndsStrays ==
  ASSUME Inv, NEW r \in Admins, CommitProtection(r) \/ LoseProtection(r),
         request[r].plan.artwork \in Rows(artwork),
         NEW d \in Rows(device), d \in Rows(device)'
  PROVE  ~Strays(d)
<1>1. CASE LoseProtection(r)
  <2>1. UNCHANGED <<exhibition, artwork, device>>  BY <1>1 DEF LoseProtection, rows
  <2> QED  BY <2>1, PlaceKept
<1>2. CASE CommitProtection(r)
  <2> DEFINE p == request[r].plan
             row == [artwork[p.artwork] EXCEPT !.config = p.config, !.timeslice = p.timeslice]
  <2>1. UNCHANGED <<exhibition, device>>  BY <1>2 DEF CommitProtection
  <2>2. p \in RulesPlan  BY <1>2, RequestTyped DEF Inv, TransInv, Staged, CommitProtection
  <2>3. Tables  BY DEF Inv, RowsInv
  <2>4. /\ artwork' = [artwork EXCEPT ![p.artwork] = row]
        /\ row.exhibition = artwork[p.artwork].exhibition
    BY <1>2, <2>2, <2>3, CommitProtectionRow
  <2> HIDE DEF row
  <2>5. artwork'[device[d].artwork].exhibition = artwork[device[d].artwork].exhibition
    BY <2>3, <2>4 DEF Tables
  <2> QED  BY <2>1, <2>5, PlaceKept
<1> QED  BY <1>1, <1>2

\* Rows of devices.
LEMMA DeviceStrays ==
  ASSUME Inv, NEW r \in Admins, NEW b \in Devices, NEW a \in Artworks,
         NEW s \in Satellites \cup {None},
         ReconfigureDevice(r, b) \/ MoveDevice(r, b, a, s),
         NEW d \in Rows(device), d \in Rows(device)', Strays(d)
  PROVE  Moves(d)
<1>1. RowsInv /\ Tables  BY DEF Inv, RowsInv
<1>2. b \in Rows(device) /\ device[b] \in DeviceRow
  BY <1>1, RowsOfTables DEF ReconfigureDevice, MoveDevice
<1>3. d \in Devices /\ DOMAIN device = Devices  BY <1>1 DEF Tables, Rows
<1>4. UNCHANGED <<artwork, exhibition>>
  BY DEF ReconfigureDevice, MoveDevice, ChangeDevice
<1>5. ASSUME NEW row, device' = [device EXCEPT ![b] = row]
      PROVE  device'[d] = IF d = b THEN row ELSE device[d]
  BY <1>3, <1>5
<1>6. CASE ReconfigureDevice(r, b)
  <2> DEFINE row == [device[b] EXCEPT !.cached = None]
  <2>1. row.artwork = device[b].artwork /\ row.satellite = device[b].satellite
    BY <1>2, CachedField
  <2>2. device' = [device EXCEPT ![b] = row]  BY <1>6 DEF ReconfigureDevice, ChangeDevice
  <2> HIDE DEF row
  <2> QED  BY <1>4, <1>5, <2>1, <2>2, PlaceKept
<1>7. CASE MoveDevice(r, b, a, s)
  <2> DEFINE row == [device[b] EXCEPT !.artwork = a, !.satellite = s]
  <2>1. row.satellite = s /\ s \in {None, device[b].satellite}
    BY <1>2, <1>7 DEF DeviceRow, MoveDevice
  <2>2. device' = [device EXCEPT ![b] = row]  BY <1>7 DEF MoveDevice, ChangeDevice
  <2> HIDE DEF row
  <2>3. device'[d].satellite \in {None, device[d].satellite}  BY <1>5, <2>1, <2>2
  <2>4. CASE device'[d].satellite = None  BY <2>4 DEF Strays, Reachable
  <2>5. CASE device'[d].satellite = device[d].satellite
    BY <1>4, <2>5, PlaceKept DEF Moves
  <2> QED  BY <2>3, <2>4, <2>5
<1> QED  BY <1>6, <1>7

\* An assignment that nothing has crossed goes by the satellites there are.
LEMMA AssignSatelliteStrays ==
  ASSUME Inv, NEW r \in Admins, AssignSatellite(r), request[r].read = Places,
         NEW d \in Rows(device), d \in Rows(device)'
  PROVE  ~Strays(d)
<1> DEFINE q == request[r]
           b == q.dev
<1>1. RowsInv /\ Staged(q) /\ Checked(q)
  BY RequestTyped DEF Inv, TransInv, AssignSatellite, Staged
<1>2. CASE UNCHANGED rows  BY <1>2, StaysInPlace DEF Stays, rows
<1>3. ASSUME NEW row, b \in Rows(device), Commit(Just(b, row), Nothing, {}),
             row.satellite = q.plan.satellite,
             row.artwork = IF q.plan.artwork = None THEN device[b].artwork ELSE q.plan.artwork
      PROVE  ~Strays(d)
  <2>1. device' = Over(Just(b, row), device) /\ UNCHANGED <<exhibition, artwork>>
    BY <1>3 DEF Commit
  <2>2. device'[d] = IF d = b THEN row ELSE device[d]
    BY <2>1 DEF Over, Just, Rows
  <2>3. CASE d = b
    <3>1. q.read.device[b].artwork = device[b].artwork /\ q.read.exhibition = exhibition
      BY <1>1, <1>3, PlacesTyped
    <3>2. row.artwork \in DOMAIN q.read.artwork
          /\ row.satellite \in q.read.exhibition[q.read.artwork[row.artwork]]
      BY <1>1, <1>3, <3>1 DEF Checked
    <3>3. row.satellite \in exhibition[artwork[row.artwork].exhibition]
      BY <1>1, <3>1, <3>2, PlacesTyped
    <3> QED  BY <2>1, <2>2, <2>3, <3>3 DEF Strays, Reachable
  <2>4. CASE d # b  BY <2>1, <2>2, <2>4, PlaceKept
  <2> QED  BY <2>3, <2>4
<1> QED  BY <1>1, <1>2, <1>3, AssignedRow

LEMMA NewRequestStrays ==
  ASSUME Inv, NEW r \in Admins, NewRequest(r),
         NEW d \in Rows(device), d \in Rows(device)', Strays(d)
  PROVE  Moves(d)
<1>1. /\ Some(Exhibitions) \in Exhibitions /\ Some(Artworks) \in Artworks
      /\ None \in Satellites \cup {None}
  BY SomeOfEach DEF Some
<1>2. ASSUME UNCHANGED <<exhibition, artwork, device>> PROVE Moves(d)
  BY <1>2, StaysInPlace DEF Stays
<1>3. ASSUME NEW a, DeleteAsset(r, a) PROVE Moves(d)
  <2> DEFINE users == {x \in Rows(device) : device[x].asset = a}
  <2>1. UNCHANGED <<exhibition, artwork>> /\ device' = [x \in Devices |->
           IF x \in users THEN [device[x] EXCEPT !.asset = None] ELSE device[x]]
    BY <1>3 DEF DeleteAsset
  <2>2. device[d] \in DeviceRow /\ d \in Devices  BY RowsOfTables DEF Inv, RowsInv
  <2>3. /\ [device[d] EXCEPT !.asset = None].artwork = device[d].artwork
        /\ [device[d] EXCEPT !.asset = None].satellite = device[d].satellite
    BY <2>2, AssetField
  <2>4. /\ device'[d].artwork = device[d].artwork
        /\ device'[d].satellite = device[d].satellite
    BY <2>1, <2>2, <2>3
  <2> QED  BY <2>1, <2>4, PlaceKept
<1>4. ASSUME NEW a, NEW kind, NEW D, NEW h, NEW s, NEW x,
             \/ AddManualLampHours(r, a) \/ ChoreBegins(r, kind, D) \/ DeleteDevice(r, x)
             \/ UpdateHost(r, x, h) \/ CreateDevice(r, x, a, s, h)
      PROVE  Moves(d)
  BY <1>2, <1>4 DEF AddManualLampHours, ChoreBegins, DeleteDevice, UpdateHost, CreateDevice, rows
<1>5. ASSUME NEW e, NEW S, NEW x, NEW a, NEW s, NEW c, NEW t,
             \/ UpdateExhibition(r, e, S) \/ CheckSatellite(r, x, a, s)
             \/ UpdateProtection(r, a, c, t)
      PROVE  Moves(d)
  BY <1>2, <1>5 DEF UpdateExhibition, CheckSatellite, UpdateProtection, rows
<1>6. CASE \E e \in Exhibitions : CreateExhibition(r, e) \/ DeleteExhibition(r, e)
  BY <1>1, <1>6, ExhibitionStrays
<1>7. CASE \E s \in Satellites : RevokeSatellite(r, s)
  BY <1>1, <1>7, ExhibitionStrays
<1>8. CASE \/ \E a \in Artworks, e \in Exhibitions : CreateArtwork(r, a, e) \/ MoveArtwork(r, a, e)
           \/ \E a \in Artworks : DeleteArtwork(r, a)
  BY <1>1, <1>8, ArtworkStrays
<1>9. CASE \E x \in Devices : \/ ReconfigureDevice(r, x)
                              \/ \E a \in Artworks, s \in Satellites \cup {None} : MoveDevice(r, x, a, s)
  BY <1>1, <1>9, DeviceStrays
<1> QED  BY <1>3, <1>4, <1>5, <1>6, <1>7, <1>8, <1>9 DEF NewRequest

-----------------------------------------------------------------------------
(* The protection rules                                                    *)

\* A request between the UPDATE and the commit: its artwork is there and no other
\* request is at it, and the service has the rules it is to have.
RulesPending ==
  /\ \A r \in Admins : request[r].at = "rules" =>
       LET p == request[r].plan
       IN  /\ p.artwork \in Rows(artwork) /\ p.artwork \in unsaved
           /\ p.config # None => configs[p.artwork] = p.config
           /\ p.artwork \in enabled <=> p.timeslice
  /\ \A r, x \in Admins :
       /\ request[r].at = "rules" /\ request[x].at = "rules"
       /\ request[r].plan.artwork = request[x].plan.artwork
       => r = x

RulesTyped ==
  /\ configs \in [Artworks -> Configs \cup {None}] /\ enabled \subseteq Artworks
  /\ unsaved \subseteq Artworks

RulesInv == RulesTyped /\ RulesPending /\ ConfigInForce

\* No other request comes between the two.
SameRules == \A x \in Admins : request'[x].at = "rules" => request'[x] = request[x]

\* Rows of artworks that change nothing of the rules, or go.
LEMMA RulesKept ==
  ASSUME RulesInv, UNCHANGED service, SameRules,
         \A a \in Rows(artwork)' :
           \/ artwork'[a].config = None
           \/ /\ a \in Rows(artwork) /\ artwork'[a].config = artwork[a].config
              /\ artwork'[a].timeslice = artwork[a].timeslice,
         \A x \in Admins : request[x].at = "rules" => request[x].plan.artwork \in Rows(artwork)'
  PROVE  RulesInv'
<1>1. RulesTyped'  BY DEF RulesInv, RulesTyped, service
<1>2. RulesPending'  BY DEF RulesInv, RulesPending, SameRules, service
<1>3. ConfigInForce'
  <2> SUFFICES ASSUME NEW a \in Rows(artwork)', a \notin unsaved', artwork'[a].config # None
               PROVE  configs'[a] = artwork'[a].config /\ (a \in enabled' <=> artwork'[a].timeslice)
    BY DEF ConfigInForce
  <2>1. a \in Rows(artwork) /\ artwork'[a].config = artwork[a].config
        /\ artwork'[a].timeslice = artwork[a].timeslice
    OBVIOUS
  <2>2. a \notin unsaved /\ configs' = configs /\ enabled' = enabled  BY DEF service
  <2>3. configs[a] = artwork[a].config /\ (a \in enabled <=> artwork[a].timeslice)
    BY <2>1, <2>2, Zenon DEF RulesInv, ConfigInForce
  <2> QED  BY <2>1, <2>2, <2>3
<1> QED  BY <1>1, <1>2, <1>3 DEF RulesInv

LEMMA RulesUnchanged ==
  ASSUME RulesInv, UNCHANGED <<artwork, service>>, SameRules PROVE RulesInv'
<1>1. Rows(artwork)' = Rows(artwork)  BY DEF Rows
<1>2. \A x \in Admins : request[x].at = "rules" => request[x].plan.artwork \in Rows(artwork)'
  BY <1>1 DEF RulesInv, RulesPending
<1> QED  BY <1>1, <1>2, RulesKept

\* Artworks no other request is at are deleted.
LEMMA DeletedRules ==
  ASSUME RulesInv, RowsInv, NEW r \in Admins, UNCHANGED <<service, request>>,
         request[r].at # "rules", NEW D, D \subseteq Rows(artwork), Unruled(D, r),
         artwork' = Deleted(artwork, D)
  PROVE  RulesInv'
<1>1. artwork' = [a \in Artworks |-> IF a \in D THEN Gone ELSE artwork[a]]
  BY DEF Deleted, RowsInv, Tables
<1>2. \A a \in Rows(artwork)' : a \in Rows(artwork) /\ artwork'[a] = artwork[a]
  BY <1>1 DEF Rows, RowsInv, Tables
<1>3. ASSUME NEW x \in Admins, request[x].at = "rules"
      PROVE  request[x].plan.artwork \in Rows(artwork)'
  <2> DEFINE a == request[x].plan.artwork
  <2>1. a \in Rows(artwork) /\ x # r  BY <1>3 DEF RulesInv, RulesPending
  <2>2. a \notin D  BY <1>3, <2>1 DEF Unruled, Ruled
  <2> QED  BY <1>1, <2>1, <2>2 DEF Rows, RowsInv, Tables
<1>4. SameRules  BY DEF SameRules
<1> QED  BY <1>2, <1>3, <1>4, RulesKept

LEMMA UpdateProtectionRules ==
  ASSUME RulesInv, RequestsInv, NEW r \in Admins, NEW a \in Artworks,
         NEW c \in Configs \cup {None}, NEW t \in BOOLEAN, UpdateProtection(r, a, c, t)
  PROVE  RulesInv'
<1> DEFINE plan == [artwork |-> a, config |-> c, timeslice |-> t]
           next == [IdleRequest EXCEPT !.at = "rules", !.plan = plan]
<1>1. /\ a \in Rows(artwork) /\ ~Ruled(a, r) /\ unsaved' = unsaved \cup {a} /\ UNCHANGED artwork
      /\ configs' = IF c # None THEN [configs EXCEPT ![a] = c] ELSE configs
      /\ enabled' = IF t THEN enabled \cup {a} ELSE enabled \ {a}
      /\ Goes(r, next)
  BY DEF UpdateProtection, ReloadConfig, rows
<1>2. next.at = "rules" /\ next.plan = plan  BY DEF IdleRequest
<1>3. plan.artwork = a /\ plan.config = c /\ plan.timeslice = t  OBVIOUS
<1> HIDE DEF next, plan
<1>4. request'[r] = next /\ \A x \in Admins : x # r => request'[x] = request[x]
  BY <1>1 DEF Goes, RequestsInv
<1>5. RulesTyped'  BY <1>1 DEF RulesInv, RulesTyped
<1>6. (c # None => configs'[a] = c) /\ (a \in enabled' <=> t)
  BY <1>1 DEF RulesInv, RulesTyped
<1>7. \A b \in Artworks : b # a => configs'[b] = configs[b] /\ (b \in enabled' <=> b \in enabled)
  BY <1>1 DEF RulesInv, RulesTyped
<1>8. Rows(artwork)' = Rows(artwork)  BY <1>1 DEF Rows
<1>9. \A x \in Admins : x # r /\ request[x].at = "rules" => request[x].plan.artwork # a
  BY <1>1 DEF Ruled
<1>10. RulesPending'
  <2>1. ASSUME NEW x \in Admins, request'[x].at = "rules"
        PROVE  LET p == request'[x].plan
               IN  /\ p.artwork \in Rows(artwork)' /\ p.artwork \in unsaved'
                   /\ p.config # None => configs'[p.artwork] = p.config
                   /\ p.artwork \in enabled' <=> p.timeslice
    <3>1. CASE x = r
      <4>1. request'[x].plan = plan  BY <1>2, <1>4, <3>1
      <4> QED  BY <1>1, <1>3, <1>6, <1>8, <4>1
    <3>2. CASE x # r
      <4> DEFINE p == request[x].plan
      <4>1. request'[x] = request[x] /\ request[x].at = "rules"  BY <1>4, <2>1, <3>2
      <4>2. p.artwork # a /\ p.artwork \in unsaved /\ p.artwork \in Rows(artwork)
        BY <1>9, <3>2, <4>1 DEF RulesInv, RulesPending
      <4>3. p.artwork \in Artworks  BY <4>2 DEF RulesInv, RulesTyped
      <4>4. configs'[p.artwork] = configs[p.artwork] /\ (p.artwork \in enabled' <=> p.artwork \in enabled)
        BY <1>7, <4>2, <4>3
      <4>5. /\ p.config # None => configs[p.artwork] = p.config
            /\ p.artwork \in enabled <=> p.timeslice
        BY <4>1 DEF RulesInv, RulesPending
      <4> QED  BY <1>1, <1>8, <4>1, <4>2, <4>4, <4>5
    <3> QED  BY <3>1, <3>2
  <2>2. ASSUME NEW x \in Admins, NEW y \in Admins, request'[x].at = "rules",
               request'[y].at = "rules", request'[x].plan.artwork = request'[y].plan.artwork
        PROVE  x = y
    <3>1. request'[r].plan.artwork = a  BY <1>2, <1>3, <1>4
    <3> QED  BY <1>4, <1>9, <2>2, <3>1 DEF RulesInv, RulesPending
  <2> QED  BY <2>1, <2>2 DEF RulesPending
<1>11. ConfigInForce'
  <2> SUFFICES ASSUME NEW b \in Rows(artwork)', b \notin unsaved', artwork'[b].config # None
               PROVE  configs'[b] = artwork'[b].config /\ (b \in enabled' <=> artwork'[b].timeslice)
    BY DEF ConfigInForce
  <2>1. b # a /\ b \notin unsaved /\ b \in Rows(artwork) /\ artwork' = artwork
    BY <1>1, <1>8
  <2>2. b \in DOMAIN artwork  BY <2>1 DEF Rows
  <2>3. configs[b] = artwork[b].config /\ (b \in enabled <=> artwork[b].timeslice)
    BY <2>1, Zenon DEF RulesInv, ConfigInForce
  <2>4. CASE b \in Artworks  BY <1>7, <2>1, <2>3, <2>4
  <2>5. CASE b \notin Artworks
    <3>1. configs' [b] = configs[b]  BY <1>1, <2>1 DEF RulesInv, RulesTyped
    <3>2. b \in enabled' <=> b \in enabled  BY <1>1, <2>1
    <3> QED  BY <2>1, <2>3, <3>1, <3>2
  <2> QED  BY <2>4, <2>5
<1> QED  BY <1>5, <1>10, <1>11 DEF RulesInv

LEMMA CommitProtectionRules ==
  ASSUME RulesInv, Inv, NEW r \in Admins, CommitProtection(r) PROVE RulesInv'
<1> DEFINE p == request[r].plan
<1>1. request[r].at = "rules" /\ Ends(r) /\ unsaved' = unsaved \ {p.artwork}
      /\ UNCHANGED <<configs, enabled>>
  BY DEF CommitProtection
<1>2. /\ p.artwork \in Rows(artwork) /\ (p.config # None => configs[p.artwork] = p.config)
      /\ p.artwork \in enabled <=> p.timeslice
  BY <1>1 DEF RulesInv, RulesPending
<1>3. Tables /\ p \in RulesPlan
  BY <1>1, RequestTyped DEF Inv, TransInv, Staged, RowsInv
<1>4. PICK row : /\ artwork' = [artwork EXCEPT ![p.artwork] = row] /\ p.artwork \in Artworks
                 /\ row \in ArtworkRow /\ row.config = p.config /\ row.timeslice = p.timeslice
  <2> DEFINE row == [artwork[p.artwork] EXCEPT !.config = p.config, !.timeslice = p.timeslice]
  <2>1. /\ artwork' = [artwork EXCEPT ![p.artwork] = row] /\ p.artwork \in Artworks
        /\ row \in ArtworkRow /\ row.config = p.config /\ row.timeslice = p.timeslice
    <3>1. p.artwork \in Rows(artwork)  BY <1>2
    <3> QED  BY <1>3, <3>1, CommitProtectionRow, Zenon
  <2> HIDE DEF row
  <2> QED  BY <2>1
<1>5. request'[r] = IdleRequest /\ \A x \in Admins : x # r => request'[x] = request[x]
  BY <1>1, EndsTyped DEF Inv, TransInv
<1>6. row \notin {None, Gone}  BY <1>4, AbsentRows DEF AreRows
<1>7. \A a \in Artworks : artwork'[a] = IF a = p.artwork THEN row ELSE artwork[a]
  BY <1>3, <1>4 DEF Tables
<1>8. Rows(artwork)' = Rows(artwork)
  <2>1. DOMAIN artwork' = Artworks /\ DOMAIN artwork = Artworks  BY <1>3, <1>4 DEF Tables
  <2> QED  BY <1>2, <1>6, <1>7, <2>1 DEF Rows
<1>9. IdleRequest.at # "rules"  BY DEF IdleRequest
<1>10. RulesTyped'  BY <1>1 DEF RulesInv, RulesTyped
<1>11. RulesPending'
  <2>1. ASSUME NEW x \in Admins, request'[x].at = "rules"
        PROVE  x # r /\ request'[x] = request[x] /\ request[x].plan.artwork # p.artwork
    <3>1. x # r /\ request'[x] = request[x]  BY <1>5, <1>9, <2>1
    <3> QED  BY <1>1, <2>1, <3>1 DEF RulesInv, RulesPending
  <2>2. configs' = configs /\ enabled' = enabled  BY <1>1
  <2> QED  BY <1>1, <1>8, <2>1, <2>2 DEF RulesInv, RulesPending
<1>12. ConfigInForce'
  <2> SUFFICES ASSUME NEW a \in Rows(artwork)', a \notin unsaved', artwork'[a].config # None
               PROVE  configs'[a] = artwork'[a].config /\ (a \in enabled' <=> artwork'[a].timeslice)
    BY DEF ConfigInForce
  <2>1. a \in Artworks /\ a \in Rows(artwork)  BY <1>3, <1>8, RowsOfTables
  <2>2. CASE a = p.artwork
    <3>1. artwork'[a] = row  BY <1>7, <2>1, <2>2
    <3>2. configs'[a] = p.config  BY <1>1, <1>2, <1>4, <2>2, <3>1
    <3>3. a \in enabled' <=> row.timeslice  BY <1>1, <1>2, <1>4, <2>2
    <3> QED  BY <1>4, <3>1, <3>2, <3>3
  <2>3. CASE a # p.artwork
    <3>1. a \notin unsaved /\ artwork'[a] = artwork[a]  BY <1>1, <1>7, <2>1, <2>3
    <3>2. configs[a] = artwork[a].config /\ (a \in enabled <=> artwork[a].timeslice)
      BY <2>1, <3>1, Zenon DEF RulesInv, ConfigInForce
    <3> QED  BY <1>1, <3>1, <3>2
  <2> QED  BY <2>2, <2>3
<1> QED  BY <1>10, <1>11, <1>12 DEF RulesInv

\* What else a request does.
LEMMA DeviceStepRules ==
  ASSUME RequestsInv, NEW r \in Admins, DeviceStep(r) PROVE SameRules
<1>1. ASSUME NEW next, Goes(r, next), next.at # "rules" PROVE SameRules
  BY <1>1 DEF Goes, RequestsInv, SameRules
<1>2. ASSUME Ends(r) PROVE SameRules
  BY <1>1, <1>2 DEF Ends, IdleRequest
<1> DEFINE q == request[r]
<1>3. q \in Transaction  BY RequestTyped
<1>4. CASE ReadOffboard(r)
  <2>1. \E at, log : /\ at # "rules"
                     /\ Goes(r, [q EXCEPT !.at = at, !.log = log]) \/ Goes(r, [q EXCEPT !.at = at])
    BY <1>4 DEF ReadOffboard
  <2>2. \A at, log : [q EXCEPT !.at = at, !.log = log].at = at /\ [q EXCEPT !.at = at].at = at
    BY <1>3 DEF Transaction
  <2>3. ASSUME NEW at, at # "rules", NEW log, Goes(r, [q EXCEPT !.at = at, !.log = log])
        PROVE  SameRules
    BY <1>1, <2>2, <2>3
  <2>4. ASSUME NEW at, at # "rules", Goes(r, [q EXCEPT !.at = at]) PROVE SameRules
    BY <1>1, <2>2, <2>4
  <2> QED  BY <2>1, <2>3, <2>4
<1>5. CASE UpdateRow(r)
  <2>1. Ends(r) \/ \E row : Goes(r, [q EXCEPT !.at = "link", !.row = row])
    BY <1>5 DEF UpdateRow
  <2>2. \A row : [q EXCEPT !.at = "link", !.row = row].at = "link"  BY <1>3 DEF Transaction
  <2> QED  BY <1>1, <1>2, <2>1, <2>2
<1>6. CASE LinkRow(r)
  <2>1. \/ Ends(r) \/ \E row, made : Goes(r, [q EXCEPT !.at = "onboard", !.row = row, !.made = made])
        \/ \E d, seen : Goes(r, [IdleRequest EXCEPT !.at = "background", !.dev = d, !.seen = seen])
    BY <1>6 DEF LinkRow
  <2>2. \A row, made : [q EXCEPT !.at = "onboard", !.row = row, !.made = made].at = "onboard"
    BY <1>3 DEF Transaction
  <2>3. \A d, seen : [IdleRequest EXCEPT !.at = "background", !.dev = d, !.seen = seen].at = "background"
    BY DEF IdleRequest
  <2> QED  BY <1>1, <1>2, <2>1, <2>2, <2>3
<1>7. CASE LinksNothing(r)  BY <1>2, <1>7 DEF LinksNothing
<1>8. CASE ReadOnboard(r)  BY <1>2, <1>8 DEF ReadOnboard
<1>9. CASE ReadInBackground(r)  BY <1>2, <1>9 DEF ReadInBackground
<1>10. CASE DeleteRow(r)  BY <1>2, <1>10 DEF DeleteRow
<1>11. CASE AssignSatellite(r)  BY <1>2, <1>11 DEF AssignSatellite
<1>12. CASE ListStep(r)  BY <1>12, ListStepKeeps DEF SameRules
<1> QED  BY <1>4, <1>5, <1>6, <1>7, <1>8, <1>9, <1>10, <1>11, <1>12 DEF DeviceStep

LEMMA RequestStepRules ==
  ASSUME RulesInv, Inv, NEW r \in Admins, RequestStep(r) PROVE RulesInv'
<1>1. CASE DeviceStep(r)
  BY <1>1, DeviceStepRules, DeviceStepKeeps, RulesUnchanged DEF Inv, TransInv
<1>2. ASSUME Ends(r) PROVE SameRules
  BY <1>2, EndsTyped DEF Inv, TransInv, SameRules, IdleRequest
<1>3. CASE ReplaceSatellites(r)  BY <1>2, <1>3, RulesUnchanged DEF ReplaceSatellites
<1>4. CASE LoseProtection(r)  BY <1>2, <1>4, RulesUnchanged DEF LoseProtection, rows
<1> QED  BY <1>1, <1>3, <1>4, CommitProtectionRules DEF RequestStep

LEMMA NewRequestRules ==
  ASSUME RulesInv, Inv, NEW r \in Admins, NewRequest(r) PROVE RulesInv'
<1>1. RowsInv /\ RequestsInv  BY DEF Inv, TransInv
<1>2. ASSUME UNCHANGED request PROVE SameRules  BY <1>2 DEF SameRules
<1>3. ASSUME NEW next, Goes(r, next), next.at # "rules", UNCHANGED <<artwork, service>>
      PROVE  RulesInv'
  <2>1. SameRules  BY <1>1, <1>3 DEF Goes, RequestsInv, SameRules
  <2> QED  BY <1>3, <2>1, RulesUnchanged
<1>4. ASSUME NEW a \in Artworks, NEW e \in Exhibitions, CreateArtwork(r, a, e) PROVE RulesInv'
  <2> DEFINE new == [exhibition |-> e, config |-> None, timeslice |-> FALSE]
  <2>1. UNCHANGED <<service, request>> /\ artwork[a] = None /\ artwork' = [artwork EXCEPT ![a] = new]
    BY <1>4 DEF CreateArtwork, AsksDatabase
  <2>2. new \in ArtworkRow /\ new.config = None  BY DEF ArtworkRow
  <2> HIDE DEF new
  <2>3. new \notin {None, Gone}  BY <2>2, AbsentRows DEF AreRows
  <2>4. ASSUME NEW b \in Rows(artwork)'
        PROVE  artwork'[b].config = None \/ (b \in Rows(artwork) /\ artwork'[b] = artwork[b])
    <3>1. b \in Artworks /\ DOMAIN artwork = Artworks
      <4>1. DOMAIN artwork = Artworks  BY <1>1 DEF RowsInv, Tables
      <4>2. DOMAIN artwork' = Artworks  BY <2>1, <4>1
      <4>3. b \in DOMAIN artwork'  BY DEF Rows
      <4> QED  BY <4>1, <4>2, <4>3
    <3>2. CASE b = a  BY <2>1, <2>2, <3>1, <3>2
    <3>3. CASE b # a  BY <2>1, <2>4, <3>1, <3>3 DEF Rows
    <3> QED  BY <3>2, <3>3
  <2>5. Rows(artwork) \subseteq Rows(artwork)'
    BY <1>1, <2>1, <2>3 DEF Rows, RowsInv, Tables
  <2>6. \A x \in Admins : request[x].at = "rules" => request[x].plan.artwork \in Rows(artwork)'
    BY <2>5 DEF RulesInv, RulesPending
  <2>7. \A b \in Rows(artwork)' :
           \/ artwork'[b].config = None
           \/ /\ b \in Rows(artwork) /\ artwork'[b].config = artwork[b].config
              /\ artwork'[b].timeslice = artwork[b].timeslice
    BY <2>4, Zenon
  <2> QED  BY <1>2, <2>1, <2>6, <2>7, RulesKept
<1>5. ASSUME NEW a \in Artworks, NEW e \in Exhibitions, MoveArtwork(r, a, e) PROVE RulesInv'
  <2> DEFINE old == artwork[a]
             moved == [old EXCEPT !.exhibition = e]
  <2>1. UNCHANGED <<service, request>> /\ a \in Rows(artwork) /\ artwork' = [artwork EXCEPT ![a] = moved]
    BY <1>5 DEF MoveArtwork, AsksDatabase
  <2>2. old \in ArtworkRow  BY <1>1, <2>1, RowsOfTables DEF RowsInv
  <2>3. moved \in ArtworkRow /\ moved.config = old.config
    BY <2>2 DEF ArtworkRow
  <2>4. moved.timeslice = old.timeslice  BY <2>2, Zenon DEF ArtworkRow
  <2>5. moved \notin {None, Gone}  BY <2>3, AbsentRows DEF AreRows
  <2> HIDE DEF moved
  <2>6. \A b \in Artworks : artwork'[b] = IF b = a THEN moved ELSE artwork[b]
    BY <1>1, <2>1 DEF RowsInv, Tables
  <2>7. DOMAIN artwork' = Artworks /\ DOMAIN artwork = Artworks  BY <1>1, <2>1 DEF RowsInv, Tables
  <2>8. Rows(artwork)' = Rows(artwork)  BY <2>1, <2>5, <2>6, <2>7 DEF Rows
  <2>9. \A x \in Admins : request[x].at = "rules" => request[x].plan.artwork \in Rows(artwork)'
    BY <2>8 DEF RulesInv, RulesPending
  <2>10. ASSUME NEW b \in Rows(artwork)'
         PROVE  /\ b \in Rows(artwork) /\ artwork'[b].config = artwork[b].config
                /\ artwork'[b].timeslice = artwork[b].timeslice
    <3>1. b \in Artworks /\ b \in Rows(artwork)  BY <2>7, <2>8 DEF Rows
    <3>2. CASE b = a
      <4>1. artwork'[b] = moved /\ artwork[b] = old  BY <2>6, <3>1, <3>2
      <4> HIDE DEF old
      <4> QED  BY <2>3, <2>4, <3>1, <4>1, Zenon
    <3>3. CASE b # a
      <4>1. artwork'[b] = artwork[b]  BY <2>6, <3>1, <3>3
      <4> QED  BY <3>1, <4>1, Zenon
    <3> QED  BY <3>2, <3>3
  <2> QED  BY <1>2, <2>1, <2>9, <2>10, RulesKept
<1>6. ASSUME NEW e, DeleteExhibition(r, e) PROVE RulesInv'
  <2> DEFINE D == {a \in Rows(artwork) : artwork[a].exhibition = e}
  <2>1. UNCHANGED <<service, request>> /\ Unruled(D, r) /\ artwork' = Deleted(artwork, D)
        /\ request[r] = IdleRequest
    BY <1>6 DEF DeleteExhibition, AsksDatabase, Asks
  <2>2. request[r].at # "rules" /\ D \subseteq Rows(artwork)  BY <2>1 DEF IdleRequest
  <2> HIDE DEF D
  <2> QED  BY <1>1, <2>1, <2>2, DeletedRules
<1>7. ASSUME NEW a, DeleteArtwork(r, a) PROVE RulesInv'
  <2>1. UNCHANGED <<service, request>> /\ ~Ruled(a, r) /\ artwork' = Deleted(artwork, {a})
        /\ request[r] = IdleRequest /\ a \in Rows(artwork)
    BY <1>7 DEF DeleteArtwork, AsksDatabase, Asks
  <2>2. request[r].at # "rules" /\ Unruled({a}, r)  BY <2>1 DEF IdleRequest, Unruled
  <2> QED  BY <1>1, <2>1, <2>2, DeletedRules
<1>8. ASSUME NEW e, NEW s, CreateExhibition(r, e) \/ RevokeSatellite(r, s)
      PROVE  RulesInv'
  BY <1>2, <1>8, RulesUnchanged DEF CreateExhibition, RevokeSatellite, AsksDatabase
<1>9. ASSUME NEW e, NEW S, UpdateExhibition(r, e, S) PROVE RulesInv'
  BY <1>3, <1>9 DEF UpdateExhibition, IdleRequest, rows
<1>10. ASSUME NEW d, NEW a, NEW s, CheckSatellite(r, d, a, s) PROVE RulesInv'
  BY <1>3, <1>10 DEF CheckSatellite, IdleRequest, rows
<1>11. ASSUME NEW d, NEW row, ChangeDevice(r, d, row) PROVE RulesInv'
  BY <1>2, <1>11, RulesUnchanged DEF ChangeDevice, AsksDatabase
<1>12. ASSUME NEW d, NEW a, NEW s, ReconfigureDevice(r, d) \/ MoveDevice(r, d, a, s)
       PROVE  RulesInv'
  BY <1>11, <1>12 DEF ReconfigureDevice, MoveDevice
<1>13. ASSUME NEW d, NEW a, NEW s, NEW h, CreateDevice(r, d, a, s, h) PROVE RulesInv'
  BY <1>3, <1>13 DEF CreateDevice, IdleRequest, rows
<1>14. ASSUME NEW d, NEW h, DeleteDevice(r, d) \/ UpdateHost(r, d, h) PROVE RulesInv'
  <2>1. \E at, seen, to : /\ at # "rules"
                          /\ \/ Goes(r, [IdleRequest EXCEPT !.at = at, !.dev = d, !.seen = seen])
                             \/ Goes(r, [IdleRequest EXCEPT !.at = at, !.dev = d, !.seen = seen, !.to = to])
    BY <1>14 DEF DeleteDevice, UpdateHost
  <2>2. \A at, seen, to :
          /\ [IdleRequest EXCEPT !.at = at, !.dev = d, !.seen = seen].at = at
          /\ [IdleRequest EXCEPT !.at = at, !.dev = d, !.seen = seen, !.to = to].at = at
    BY DEF IdleRequest
  <2>3. UNCHANGED <<artwork, service>>  BY <1>14 DEF DeleteDevice, UpdateHost, rows
  <2>4. ASSUME NEW at, at # "rules", NEW seen, NEW to,
               Goes(r, [IdleRequest EXCEPT !.at = at, !.dev = d, !.seen = seen, !.to = to])
        PROVE  RulesInv'
    BY <1>3, <2>2, <2>3, <2>4
  <2>5. ASSUME NEW at, at # "rules", NEW seen,
               Goes(r, [IdleRequest EXCEPT !.at = at, !.dev = d, !.seen = seen])
        PROVE  RulesInv'
    BY <1>3, <2>2, <2>3, <2>5
  <2> QED  BY <2>1, <2>4, <2>5
<1>15. ASSUME NEW a, DeleteAsset(r, a) \/ AddManualLampHours(r, a) PROVE RulesInv'
  BY <1>2, <1>15, RulesUnchanged DEF DeleteAsset, AddManualLampHours, AsksDatabase
<1>16. ASSUME NEW kind, NEW D, ChoreBegins(r, kind, D) PROVE RulesInv'
  BY <1>2, <1>16, RulesUnchanged DEF ChoreBegins, rows
<1> QED  BY <1>1, <1>4, <1>5, <1>6, <1>7, <1>8, <1>9, <1>10, <1>12, <1>13, <1>14, <1>15, <1>16,
            UpdateProtectionRules DEF NewRequest

LEMMA RestartRules == ASSUME Inv, Restart PROVE RulesInv'
<1>1. artwork' = artwork /\ unsaved' = {} /\ request' = [r \in Admins |-> IdleRequest]
  BY DEF Restart, rows
<1>2. RulesTyped'
  <2>1. \A a \in Rows(artwork) : a \in Artworks /\ artwork[a].config \in Configs \cup {None}
    BY RowsOfTables DEF Inv, RowsInv, ArtworkRow
  <2> QED  BY <1>1, <2>1 DEF Restart, RulesTyped
<1>3. RulesPending'  BY <1>1 DEF RulesPending, IdleRequest
<1>4. ConfigInForce'
  <2>1. \A a \in Rows(artwork) : a \in Artworks  BY RowsOfTables DEF Inv, RowsInv
  <2> QED  BY <1>1, <2>1 DEF Restart, ConfigInForce, Rows
<1> QED  BY <1>2, <1>3, <1>4 DEF RulesInv

LEMMA NextRules == ASSUME RulesInv, Inv, [Next]_vars PROVE RulesInv'
<1>1. CASE LoopStep  BY <1>1, LoopStepKeeps, RulesUnchanged DEF SameRules
<1>2. CASE UNCHANGED vars  BY <1>2, RulesUnchanged DEF vars, rows, SameRules
<1> QED  BY <1>1, <1>2, NewRequestRules, RequestStepRules, RestartRules DEF Next

LEMMA InitRules == Init => RulesInv
<1> SUFFICES ASSUME Init PROVE RulesInv  OBVIOUS
<1>1. PICK a, e : artwork = [x \in Artworks |->
        IF x = a THEN [exhibition |-> e, config |-> None, timeslice |-> FALSE] ELSE None]
  BY DEF Init
<1>2. \A x \in Rows(artwork) : artwork[x].config = None  BY <1>1 DEF Rows
<1>3. ConfigInForce  BY <1>2 DEF ConfigInForce
<1>4. RulesPending  BY DEF Init, RulesPending, IdleRequest
<1>5. RulesTyped  BY DEF Init, RulesTyped
<1> QED  BY <1>3, <1>4, <1>5 DEF RulesInv

-----------------------------------------------------------------------------
(* The whole                                                               *)

LEMMA InitInv == Init => Inv
<1> SUFFICES ASSUME Init PROVE Inv  OBVIOUS
<1> DEFINE e == Some(Exhibitions)
           a == Some(Artworks)
           d == Some(Devices)
           workRow == [exhibition |-> e, config |-> None, timeslice |-> FALSE]
           deviceRow == [artwork |-> a, satellite |-> None, host |-> Some(Hosts),
                         asset |-> None, cached |-> None]
<1>1. e \in Exhibitions /\ a \in Artworks /\ d \in Devices /\ Some(Hosts) \in Hosts
  BY SomeOfEach DEF Some
<1>2. workRow \in ArtworkRow /\ workRow.exhibition = e  BY <1>1 DEF ArtworkRow
<1>3. /\ deviceRow \in DeviceRow /\ deviceRow.artwork = a /\ deviceRow.satellite = None
      /\ deviceRow.asset = None
  BY <1>1 DEF DeviceRow
<1>4. /\ satellite = Satellites
      /\ exhibition = [x \in Exhibitions |-> IF x = e THEN Satellites ELSE None]
      /\ artwork = [x \in Artworks |-> IF x = a THEN workRow ELSE None]
      /\ device = [x \in Devices |-> IF x = d THEN deviceRow ELSE None]
      /\ asset = [x \in Assets |-> None] /\ logs = {} /\ held = {}
  BY DEF Init
<1>5. request = [r \in Admins |-> IdleRequest] /\ job = [w \in Workers |-> NoJob]
  BY DEF Init
<1> HIDE DEF e, a, d, workRow, deviceRow
<1>6. Tables  BY <1>2, <1>3, <1>4 DEF Tables
<1>7. Satellites \notin {None, Gone} /\ workRow \notin {None, Gone} /\ deviceRow \notin {None, Gone}
  BY <1>2, <1>3, SetsAreRows, AbsentRows DEF AreRows
<1>8. Rows(exhibition) = {e} /\ Rows(artwork) = {a} /\ Rows(device) = {d} /\ Rows(asset) = {}
  BY <1>1, <1>4, <1>7 DEF Rows
<1>9. Keys
  BY <1>1, <1>2, <1>3, <1>4, <1>8 DEF Keys
<1>10. RequestsInv /\ JobsInv
  BY <1>5, IdleTyped, NoJobTyped DEF RequestsInv, JobsInv
<1>11. PendingInv  BY <1>5, IdleTyped DEF PendingInv
<1> QED  BY <1>6, <1>9, <1>10, <1>11 DEF Inv, RowsInv, TransInv

LEMMA RequestStepStrays ==
  ASSUME Inv, RulesInv, NEW r \in Admins, RequestStep(r)
  PROVE  Inv' /\ \A d \in Rows(device) \cap Rows(device)' : Strays(d) => (Moves(d) \/ Crossed)
<1>1. CASE DeviceStep(r)
  <2>1. Inv' /\ (AssignSatellite(r) \/ Stays) /\ UNCHANGED <<exhibition, artwork>>
    BY <1>1, DeviceStepInv, DeviceStepKeeps
  <2>2. CASE Stays  BY <2>1, <2>2, StaysInPlace
  <2>3. CASE AssignSatellite(r)
    <3>1. request[r].at = "assign" /\ request'[r] = IdleRequest
      BY <2>3, EndsTyped DEF Inv, TransInv, AssignSatellite
    <3>2. CASE request[r].read = Places  BY <2>1, <2>3, <3>2, AssignSatelliteStrays
    <3>3. CASE request[r].read # Places  BY <2>1, <3>1, <3>3 DEF Crossed
    <3> QED  BY <3>2, <3>3
  <2> QED  BY <2>1, <2>2, <2>3
<1>2. CASE ReplaceSatellites(r)
  <2>1. request[r].at = "withdraw" /\ request'[r] = IdleRequest
    BY <1>2, EndsTyped DEF Inv, TransInv, ReplaceSatellites
  <2>2. CASE request[r].read = Places
    BY <1>2, <2>2, ReplaceSatellitesInv, ReplaceSatellitesStrays
  <2>3. CASE request[r].read # Places
    BY <1>2, <2>1, <2>3, ReplaceSatellitesInv DEF Crossed
  <2> QED  BY <2>2, <2>3
<1>3. CASE CommitProtection(r) \/ LoseProtection(r)
  <2>1. request[r].plan.artwork \in Rows(artwork)
    BY <1>3 DEF RulesInv, RulesPending, CommitProtection, LoseProtection
  <2> QED  BY <1>3, <2>1, ProtectionEndsInv, ProtectionEndsStrays
<1> QED  BY <1>1, <1>2, <1>3 DEF RequestStep

LEMMA NextInv ==
  ASSUME Inv, RulesInv, [Next]_vars
  PROVE  Inv' /\ \A d \in Rows(device) \cap Rows(device)' : Strays(d) => (Moves(d) \/ Crossed)
<1>1. ASSUME Inv', Stays, UNCHANGED <<exhibition, artwork>>
      PROVE  Inv' /\ \A d \in Rows(device) \cap Rows(device)' : Strays(d) => (Moves(d) \/ Crossed)
  BY <1>1, StaysInPlace
<1>2. ASSUME NEW r \in Admins, NewRequest(r)
      PROVE  Inv' /\ \A d \in Rows(device) \cap Rows(device)' : Strays(d) => (Moves(d) \/ Crossed)
  BY <1>2, NewRequestRows, NewRequestTrans, NewRequestPending, NewRequestStrays
  DEF Inv, TransInv
<1>3. CASE LoopStep  BY <1>1, <1>3, LoopStepInv, LoopStepKeeps
<1>4. CASE Restart
  <2>1. UNCHANGED rows /\ UNCHANGED <<device, exhibition, artwork>>  BY <1>4 DEF Restart, rows
  <2>2. RequestsInv' /\ JobsInv' /\ \A r \in Admins : request'[r].row = None
    BY <1>4, IdleTyped, NoJobTyped DEF Restart, RequestsInv, JobsInv
  <2>3. PendingInv' /\ Stays  BY <2>1, <2>2, PendingUnchanged DEF Inv, TransInv
  <2> QED  BY <1>1, <2>1, <2>2, <2>3, UnchangedRows DEF Inv, TransInv
<1>5. CASE UNCHANGED vars
  <2>1. UNCHANGED rows /\ UNCHANGED <<device, exhibition, artwork, request, job>>
    BY <1>5 DEF vars, rows
  <2>2. RequestsInv' /\ JobsInv'  BY <2>1 DEF Inv, TransInv, RequestsInv, JobsInv
  <2>3. PendingInv' /\ Stays  BY <2>1, PendingUnchanged DEF Inv, TransInv
  <2> QED  BY <1>1, <2>1, <2>2, <2>3, UnchangedRows DEF Inv, TransInv
<1> QED  BY <1>2, <1>3, <1>4, <1>5, RequestStepStrays DEF Next

\* A device comes to a satellite its exhibition does not have by a move of the device
\* or of its artwork, or because an assignment or a withdrawal ends that something has
\* crossed since its SELECTs, and never otherwise: an assignment is checked,
\* update_exhibition and the deletion of a satellite take it from the devices, and what
\* is pending does not bring it back (_validate_satellite_for_artwork,
\* update_exhibition in admin.py).
THEOREM OnlyMovesStrayCorrect == Spec => OnlyMovesStray
<1>1. Inv /\ RulesInv /\ [Next]_vars => Inv' /\ RulesInv'  BY NextInv, NextRules
<1>2. Inv /\ RulesInv /\ [Next]_vars =>
        [\A d \in Rows(device) \cap Rows(device)' :
           (Reachable(d) /\ ~Reachable(d)') =>
             \/ device[d].artwork # device'[d].artwork /\ device'[d].satellite = device[d].satellite
             \/ artwork[device[d].artwork].exhibition # artwork'[device[d].artwork].exhibition
             \/ Crossed]_vars
  BY NextInv DEF Strays, Moves
<1> QED  BY InitInv, InitRules, <1>1, <1>2, PTL DEF Spec, OnlyMovesStray

\* The protection service runs with the rules the database has, as long as it has some
\* and no request has come between reload_config and the commit or lost the latter: the
\* row lock keeps overlapping requests in one order, a restart loads the rules, and no
\* other handler or job touches them (admin.py, protection_service.py).
THEOREM ConfigInForceCorrect == Spec => []ConfigInForce
<1>1. Inv /\ RulesInv /\ [Next]_vars => Inv' /\ RulesInv'  BY NextInv, NextRules
<1>2. RulesInv => ConfigInForce  BY DEF RulesInv
<1> QED  BY InitInv, InitRules, <1>1, <1>2, PTL DEF Spec

\* The bound of the model.
Counts == events \in 0..MaxEvents

LEMMA CountsKept == ASSUME Counts, events' = events \/ Happens PROVE Counts'
BY Bounds DEF Counts, Happens

LEMMA ListStepCounts == ASSUME NEW w, ListStep(w) PROVE events' = events \/ Happens
BY DEF ListStep, SkipDevice, TouchDevice, LinkDevice, ReadDevice, CacheInfo, DeadlockDetected,
       CommitList, Fails

LEMMA RequestStepCounts == ASSUME NEW r, RequestStep(r) PROVE events' = events \/ Happens
BY ListStepCounts
DEF RequestStep, DeviceStep, ReadOffboard, UpdateRow, LinkRow, LinksNothing, ReadOnboard,
    ReadInBackground, DeleteRow, AssignSatellite, ReplaceSatellites, CommitProtection,
    LoseProtection, Fails

LEMMA NextCounts == ASSUME Counts, [Next]_vars PROVE Counts'
<1>1. ASSUME NEW r \in Admins, NewRequest(r) PROVE Counts'
  <2>1. ASSUME Asks(r) PROVE Counts'  BY <2>1, CountsKept DEF Asks
  <2>2. Asks(r)
    BY <1>1 DEF NewRequest, CreateExhibition, DeleteExhibition, UpdateExhibition, RevokeSatellite,
       CreateArtwork, MoveArtwork, DeleteArtwork, UpdateProtection, DeleteDevice, ReconfigureDevice,
       UpdateHost, MoveDevice, CheckSatellite, CreateDevice, ChangeDevice, DeleteAsset,
       AddManualLampHours, ChoreBegins, AsksDatabase
  <2> QED  BY <2>1, <2>2
<1>2. CASE LoopStep
  <2>1. events' = events \/ Happens
    BY <1>2, ListStepCounts DEF LoopStep, JobBegins, RecordBegins
  <2> QED  BY <2>1, CountsKept
<1>3. CASE Restart  BY <1>3, CountsKept DEF Restart
<1>4. CASE UNCHANGED vars  BY <1>4 DEF vars, Counts
<1> QED  BY <1>1, <1>2, <1>3, <1>4, RequestStepCounts, CountsKept DEF Next

\* The rows refer to rows there are, an asset has a number of its own, whatever is
\* committed or undone; what is open has the shape it should have (models.py).
THEOREM TypeCorrect == Spec => []TypeOK
<1>1. Init => Counts  BY Bounds DEF Init, Counts
<1>2. Counts /\ [Next]_vars => Counts'  BY NextCounts
<1>3. Inv /\ RulesInv /\ [Next]_vars => Inv' /\ RulesInv'  BY NextInv, NextRules
<1>4. Inv /\ RulesInv /\ Counts => TypeOK
  <2> SUFFICES ASSUME Inv, RulesInv, Counts PROVE TypeOK  OBVIOUS
  <2>1. \A r \in Admins : /\ request[r].at \in Stages
                          /\ request[r].at = "idle" => request[r] = IdleRequest
                          /\ request[r].log \subseteq Entry
    BY RequestTyped DEF Inv, TransInv, Transaction, Staged
  <2>2. \A w \in Workers : /\ job[w].kind \in Recurring \cup Chores \cup {"none", "record"}
                           /\ job[w].kind = "none" => job[w] = NoJob
    BY DEF Inv, TransInv, JobsInv, List, Kept
  <2> QED  BY <2>1, <2>2 DEF TypeOK, Inv, RowsInv, Tables, Keys, RulesInv, RulesTyped, Counts
<1> QED  BY InitInv, InitRules, <1>1, <1>2, <1>3, <1>4, PTL DEF Spec

-----------------------------------------------------------------------------
(* Assets and hosts                                                        *)

\* Where an entry for asset a from host h that is not committed yet comes from: a row
\* that held both, or the number of h, which a has, or had, or will have by m.
Traced(a, h, m, assets, pairs) ==
  \/ <<a, h>> \in pairs
  \/ assets[a] # None /\ assets[a] \in {NumberOf[h], Gone}
  \/ a \in DOMAIN m /\ m[a] = NumberOf[h]

TracedRequest(q, assets, pairs) ==
  /\ q.seen # None /\ q.seen.asset # None => <<q.seen.asset, q.seen.host>> \in pairs
  /\ \A l \in q.log : <<l.asset, l.host>> \in pairs
  /\ q.at = "onboard" => Traced(q.row.asset, q.row.host, q.made, assets, pairs)

TracedList(j, assets, pairs) ==
  /\ \A d \in DOMAIN j.todo : j.todo[d].asset # None => <<j.todo[d].asset, j.todo[d].host>> \in pairs
  /\ \A d \in DOMAIN j.log : Traced(j.log[d].asset, j.log[d].host, j.made, assets, pairs)

\* Asset ids that are inserted, not committed, are those of one transaction only.
Apart(m, n) == \A a \in DOMAIN m : a \notin DOMAIN n

MadeInv ==
  /\ \A r \in Admins : \A a \in DOMAIN request[r].made : asset[a] = None
  /\ \A w \in Workers : \A a \in DOMAIN job[w].made : asset[a] = None
  /\ \A r, x \in Admins : r # x => Apart(request[r].made, request[x].made)
  /\ \A w, v \in Workers : w # v => Apart(job[w].made, job[v].made)
  /\ \A r \in Admins, w \in Workers : Apart(request[r].made, job[w].made)

DevicesHeld ==
  \A d \in Rows(device) : device[d].asset # None => <<device[d].asset, device[d].host>> \in held

TraceInv ==
  /\ MadeInv /\ DevicesHeld /\ ReadTogether
  /\ \A r \in Admins : TracedRequest(request[r], asset, held)
  /\ \A w \in Workers : TracedList(job[w], asset, held)

\* A number is given once, a pair that was held stays on record.
Grows == held \subseteq held' /\ \A a \in Assets : asset[a] # None => asset'[a] \in {asset[a], Gone}

LEMMA TracedStays ==
  ASSUME NEW assets, NEW pairs, NEW later, NEW more, pairs \subseteq more,
         \A a \in Assets : assets[a] # None => later[a] \in {assets[a], Gone},
         NEW a \in Assets, NEW h, NEW m, Traced(a, h, m, assets, pairs)
  PROVE  Traced(a, h, m, later, more)
BY AbsentRows DEF Traced

LEMMA RequestTraceStays ==
  ASSUME Grows, NEW q \in Transaction, Staged(q), TracedRequest(q, asset, held)
  PROVE  TracedRequest(q, asset', held')
<1>1. CASE q.at = "onboard"
  <2>1. q.row.asset \in Assets  BY <1>1 DEF Staged
  <2>2. Traced(q.row.asset, q.row.host, q.made, asset', held')
    BY <1>1, <2>1, TracedStays DEF Grows, TracedRequest
  <2> QED  BY <2>2 DEF Grows, TracedRequest
<1>2. CASE q.at # "onboard"  BY <1>2 DEF Grows, TracedRequest
<1> QED  BY <1>1, <1>2

LEMMA ListTraceStays ==
  ASSUME Grows, NEW j \in List, TracedList(j, asset, held)
  PROVE  TracedList(j, asset', held')
<1>1. \A d \in DOMAIN j.log : j.log[d].asset \in Assets
  <2>1. j.log \in Partial(Devices, Entry)  BY DEF List
  <2>2. \A d \in DOMAIN j.log : j.log[d] \in Entry  BY <2>1, PartialApplies
  <2> QED  BY <2>2 DEF Entry
<1>2. \A d \in DOMAIN j.log : Traced(j.log[d].asset, j.log[d].host, j.made, asset', held')
  BY <1>1, TracedStays DEF Grows, TracedList
<1> QED  BY <1>2 DEF Grows, TracedList

\* A request or a list goes on, the others stay as they are.
LEMMA RequestsTraced ==
  ASSUME Inv, TraceInv, Grows, MadeInv', DevicesHeld', ReadTogether', UNCHANGED job,
         NEW r \in Admins, \A x \in Admins : x # r => request'[x] = request[x],
         TracedRequest(request'[r], asset', held')
  PROVE  TraceInv'
<1>1. ASSUME NEW x \in Admins PROVE TracedRequest(request'[x], asset', held')
  <2>1. CASE x = r  BY <2>1
  <2>2. CASE x # r
    <3>1. request[x] \in Transaction /\ Staged(request[x])  BY RequestTyped DEF Inv, TransInv
    <3> QED  BY <2>2, <3>1, RequestTraceStays DEF TraceInv
  <2> QED  BY <2>1, <2>2
<1>2. ASSUME NEW w \in Workers PROVE TracedList(job'[w], asset', held')
  <2>1. job[w] \in List  BY DEF Inv, TransInv, JobsInv
  <2> QED  BY <2>1, ListTraceStays DEF TraceInv
<1> QED  BY <1>1, <1>2 DEF TraceInv

LEMMA ListsTraced ==
  ASSUME Inv, TraceInv, Grows, MadeInv', DevicesHeld', ReadTogether', UNCHANGED request,
         NEW w \in Workers, \A v \in Workers : v # w => job'[v] = job[v],
         TracedList(job'[w], asset', held')
  PROVE  TraceInv'
<1>1. ASSUME NEW x \in Admins PROVE TracedRequest(request'[x], asset', held')
  <2>1. request[x] \in Transaction /\ Staged(request[x])  BY RequestTyped DEF Inv, TransInv
  <2> QED  BY <2>1, RequestTraceStays DEF TraceInv
<1>2. ASSUME NEW v \in Workers PROVE TracedList(job'[v], asset', held')
  <2>1. CASE v = w  BY <2>1
  <2>2. CASE v # w
    <3>1. job[v] \in List  BY DEF Inv, TransInv, JobsInv
    <3> QED  BY <2>2, <3>1, ListTraceStays DEF TraceInv
  <2> QED  BY <2>1, <2>2
<1> QED  BY <1>1, <1>2 DEF TraceInv

LEMMA MadeTyped ==
  ASSUME Inv
  PROVE  /\ \A r \in Admins : request[r].made \in Insertion /\ DOMAIN request[r].made \subseteq Assets
         /\ \A w \in Workers : job[w].made \in Insertion /\ DOMAIN job[w].made \subseteq Assets
<1>1. \A m \in Insertion : DOMAIN m \subseteq Assets  BY PartialApplies DEF Insertion
<1>2. \A r \in Admins : request[r].made \in Insertion
  BY RequestTyped DEF Inv, TransInv, Transaction
<1>3. \A w \in Workers : job[w].made \in Insertion  BY DEF Inv, TransInv, JobsInv, List
<1> QED  BY <1>1, <1>2, <1>3

\* What one transaction inserts, or has committed, is nobody else's.
LEMMA RequestMade ==
  ASSUME Inv, MadeInv, NEW r \in Admins, \A x \in Admins : x # r => request'[x] = request[x],
         UNCHANGED job, NEW m, request'[r].made \in {m, Nothing},
         \A a \in DOMAIN m : a \in DOMAIN request[r].made \/ a \in Unused,
         \A a \in Assets : asset'[a] = asset[a] \/ asset[a] # None
                             \/ (a \in DOMAIN m /\ request'[r].made = Nothing)
  PROVE  MadeInv'
<1>1. \A a \in DOMAIN m : /\ asset[a] = None
                          /\ \A x \in Admins : x # r => a \notin DOMAIN request[x].made
                          /\ \A w \in Workers : a \notin DOMAIN job[w].made
  BY DEF MadeInv, Apart, Unused, Insertions
<1>2. \A a \in DOMAIN request'[r].made : a \in DOMAIN m /\ request'[r].made # Nothing
  BY NothingApplies
<1>3. \A a \in DOMAIN request'[r].made : asset'[a] = None
  BY <1>1, <1>2, MadeTyped DEF Unused
<1>4. \A x \in Admins : x # r => \A a \in DOMAIN request[x].made : asset'[a] = None
  BY <1>1, MadeTyped DEF MadeInv
<1>5. \A w \in Workers : \A a \in DOMAIN job[w].made : asset'[a] = None
  BY <1>1, MadeTyped DEF MadeInv
<1>6. /\ \A x, y \in Admins : x # y => Apart(request'[x].made, request'[y].made)
      /\ \A w, v \in Workers : w # v => Apart(job'[w].made, job'[v].made)
      /\ \A x \in Admins, w \in Workers : Apart(request'[x].made, job'[w].made)
  BY <1>1, <1>2 DEF MadeInv, Apart
<1> QED  BY <1>3, <1>4, <1>5, <1>6 DEF MadeInv

LEMMA JobMade ==
  ASSUME Inv, MadeInv, NEW w \in Workers, \A v \in Workers : v # w => job'[v] = job[v],
         UNCHANGED request, NEW m, job'[w].made \in {m, Nothing},
         \A a \in DOMAIN m : a \in DOMAIN job[w].made \/ a \in Unused,
         \A a \in Assets : asset'[a] = asset[a] \/ asset[a] # None
                             \/ (a \in DOMAIN m /\ job'[w].made = Nothing)
  PROVE  MadeInv'
<1>1. \A a \in DOMAIN m : /\ asset[a] = None
                          /\ \A v \in Workers : v # w => a \notin DOMAIN job[v].made
                          /\ \A x \in Admins : a \notin DOMAIN request[x].made
  BY DEF MadeInv, Apart, Unused, Insertions
<1>2. \A a \in DOMAIN job'[w].made : a \in DOMAIN m /\ job'[w].made # Nothing
  BY NothingApplies
<1>3. \A a \in DOMAIN job'[w].made : asset'[a] = None
  BY <1>1, <1>2, MadeTyped DEF Unused
<1>4. \A v \in Workers : v # w => \A a \in DOMAIN job[v].made : asset'[a] = None
  BY <1>1, MadeTyped DEF MadeInv
<1>5. \A x \in Admins : \A a \in DOMAIN request[x].made : asset'[a] = None
  BY <1>1, MadeTyped DEF MadeInv
<1>6. /\ \A x, y \in Admins : x # y => Apart(request'[x].made, request'[y].made)
      /\ \A u, v \in Workers : u # v => Apart(job'[u].made, job'[v].made)
      /\ \A x \in Admins, v \in Workers : Apart(request'[x].made, job'[v].made)
  BY <1>1, <1>2 DEF MadeInv, Apart
<1> QED  BY <1>3, <1>4, <1>5, <1>6 DEF MadeInv

\* What is committed is traced, and so are the rows then.
LEMMA CommitTrace ==
  ASSUME RowsInv, DevicesHeld, ReadTogether, NEW update \in Partial(Devices, DeviceRow),
         NEW made \in Insertion, \A a \in DOMAIN made : asset[a] = None,
         NEW entries \in SUBSET Entry,
         \A l \in entries : Traced(l.asset, l.host, made, asset, held),
         CommitOrRollback(update, made, entries)
  PROVE  Grows /\ DevicesHeld' /\ ReadTogether'
         /\ \A a \in Assets : asset'[a] = asset[a] \/ a \in DOMAIN made
<1>1. CASE UNCHANGED rows
  BY <1>1 DEF rows, Grows, DevicesHeld, ReadTogether, Rows
<1>2. CASE Accepted(update, made, entries) /\ Commit(update, made, entries)
  <2>1. Tables /\ Keys /\ RowsInv'  BY <1>2, CommitRows DEF RowsInv
  <2>2. Tables' /\ Keys'  BY <2>1 DEF RowsInv
  <2>3. \A a \in Assets : asset'[a] = IF a \in DOMAIN made THEN made[a] ELSE asset[a]
    BY <1>2, <2>1 DEF Commit, Over, Tables
  <2>4. held \subseteq held' /\ \A d \in DOMAIN update : update[d].asset # None =>
          <<update[d].asset, update[d].host>> \in held'
    BY <1>2 DEF Commit
  <2>5. Grows  BY <2>3, <2>4 DEF Grows
  <2>6. DevicesHeld'
    <3> SUFFICES ASSUME NEW d \in Rows(device)', device'[d].asset # None
                 PROVE  <<device'[d].asset, device'[d].host>> \in held'
      BY DEF DevicesHeld
    <3>1. d \in Devices /\ device'[d] = IF d \in DOMAIN update THEN update[d] ELSE device[d]
      BY <1>2, <2>1, <2>2 DEF Commit, Over, Tables, Rows
    <3>2. CASE d \in DOMAIN update  BY <2>4, <3>1, <3>2
    <3>3. CASE d \notin DOMAIN update
      <4>1. d \in Rows(device)  BY <2>1, <3>1, <3>3 DEF Rows, Tables
      <4> QED  BY <2>4, <3>1, <3>3, <4>1 DEF DevicesHeld
    <3> QED  BY <3>2, <3>3
  <2>7. ReadTogether'
    <3> SUFFICES ASSUME NEW l \in logs', l.host # None
                 PROVE  <<l.asset, l.host>> \in held' \/ NumberOf[l.host] = asset'[l.asset]
      BY DEF ReadTogether
    <3>1. l.asset \in Assets /\ l \in logs \cup entries
      BY <1>2, <2>2 DEF Tables, Entry, Commit
    <3>2. CASE l \in logs
      <4>1. l.asset \in Rows(asset) /\ l.asset \notin DOMAIN made
        BY <2>1, <3>2 DEF Keys, Rows
      <4> QED  BY <2>3, <2>4, <3>1, <3>2, <4>1 DEF ReadTogether
    <3>3. CASE l \in entries
      <4>1. l.asset \in Rows(asset) \cup DOMAIN made  BY <1>2, <3>3 DEF Accepted
      <4>2. Traced(l.asset, l.host, made, asset, held)  BY <3>3
      <4> QED  BY <2>3, <2>4, <3>1, <4>1, <4>2 DEF Traced, Rows
    <3> QED  BY <3>1, <3>2, <3>3
  <2> QED  BY <2>3, <2>5, <2>6, <2>7
<1> QED  BY <1>1, <1>2 DEF CommitOrRollback

\* No asset and no pair is new.
LEMMA QuietTrace ==
  ASSUME RowsInv, RowsInv', DevicesHeld, ReadTogether, UNCHANGED held,
         \A a \in Assets : asset'[a] = asset[a] \/ (asset[a] # None /\ asset'[a] = Gone),
         \A l \in logs' : l \in logs \/ l.host = None \/ <<l.asset, l.host>> \in held,
         \A d \in Rows(device)' :
           \/ device'[d].asset = None
           \/ /\ d \in Rows(device) /\ device'[d].asset = device[d].asset
              /\ device'[d].host = device[d].host
  PROVE  Grows /\ DevicesHeld' /\ ReadTogether'
<1>1. Grows  BY DEF Grows
<1>2. DevicesHeld'  BY DEF DevicesHeld
<1>3. ASSUME NEW l \in logs', l.host # None, l \in logs
      PROVE  <<l.asset, l.host>> \in held' \/ NumberOf[l.host] = asset'[l.asset]
  <2>1. l.asset \in Rows(asset)' /\ l.asset \in Assets
    BY DEF RowsInv, Tables, Keys, Entry
  <2> QED  BY <1>3, <2>1 DEF ReadTogether, Rows
<1>4. ReadTogether'  BY <1>3 DEF ReadTogether
<1> QED  BY <1>1, <1>2, <1>4

LEMMA UnchangedTrace ==
  ASSUME DevicesHeld, ReadTogether, UNCHANGED rows
  PROVE  Grows /\ DevicesHeld' /\ ReadTogether' /\ UNCHANGED asset
BY DEF rows, Grows, DevicesHeld, ReadTogether, Rows

\* The asset a transaction takes.
LEMMA AssetTraced ==
  ASSUME Inv, NEW n \in Numbers, NEW m \in Insertion, m \in Insertions, ~Full(n, m), NEW h,
         NumberOf[h] = n, NEW link, link = GetOrCreateAsset(n, m)
  PROVE  /\ Traced(link.id, h, link.made, asset, held)
         /\ \A a \in DOMAIN link.made : a \in DOMAIN m \/ a \in Unused
         /\ \A a \in DOMAIN m : a \in DOMAIN link.made /\ link.made[a] = m[a]
<1>1. DOMAIN asset = Assets  BY DEF Inv, RowsInv, Tables
<1>2. CASE Known(n, m) # {}
  <2>1. link.id \in Known(n, m) /\ link.made = m  BY <1>2 DEF GetOrCreateAsset
  <2> QED  BY <2>1 DEF Traced, Known, Rows
<1>3. CASE Known(n, m) = {}
  <2>1. FreshAsset \in Unused  BY <1>3 DEF Full, FreshAsset
  <2>2. FreshAsset \notin DOMAIN m  BY <2>1 DEF Unused
  <2>3. link.id = FreshAsset /\ link.made = Over(Just(FreshAsset, n), m)
    BY <1>3 DEF GetOrCreateAsset
  <2>4. /\ DOMAIN link.made = {FreshAsset} \cup DOMAIN m /\ link.made[FreshAsset] = n
        /\ \A a \in DOMAIN m : a # FreshAsset => link.made[a] = m[a]
    BY <2>3 DEF Over, Just
  <2> QED  BY <2>1, <2>2, <2>3, <2>4 DEF Traced
<1> QED  BY <1>2, <1>3

-----------------------------------------------------------------------------
(* Each step, as far as assets and hosts are concerned                     *)

\* A request goes on with the same assets inserted, and commits nothing.
LEMMA GoesTrace ==
  ASSUME Inv, TraceInv, NEW r \in Admins, NEW next, Goes(r, next), UNCHANGED job,
         next.made \in {request[r].made, Nothing}, TracedRequest(next, asset', held'),
         Grows, DevicesHeld', ReadTogether',
         \A a \in Assets : asset'[a] = asset[a] \/ asset[a] # None
                             \/ (a \in DOMAIN request[r].made /\ next.made = Nothing)
  PROVE  TraceInv'
<1>1. request'[r] = next /\ \A x \in Admins : x # r => request'[x] = request[x]
  BY DEF Goes, Inv, TransInv, RequestsInv
<1>2. MadeInv'  BY <1>1, RequestMade DEF TraceInv
<1> QED  BY <1>1, <1>2, RequestsTraced

LEMMA IdleTraced == \A assets, pairs : TracedRequest(IdleRequest, assets, pairs)
BY DEF TracedRequest, IdleRequest

LEMMA ReadOffboardTrace ==
  ASSUME Inv, TraceInv, NEW r \in Admins, ReadOffboard(r) PROVE TraceInv'
<1> DEFINE q == request[r]
           at == IF q.to = None THEN "delete" ELSE "update"
<1>1. q \in Transaction /\ Staged(q) /\ q.at = "offboard" /\ TracedRequest(q, asset, held)
  BY RequestTyped DEF Inv, TransInv, ReadOffboard, TraceInv
<1>2. UNCHANGED rows /\ UNCHANGED job  BY DEF ReadOffboard
<1>3. /\ Grows /\ DevicesHeld' /\ ReadTogether' /\ UNCHANGED <<asset, held>>
  BY <1>2, UnchangedTrace DEF TraceInv, rows
<1>4. q.seen \in Glimpse /\ q.seen.asset \in Assets  BY <1>1 DEF Staged
<1>5. q.seen # None /\ q.seen.asset # None  BY <1>4, AbsentRows DEF AreRows
<1>6. <<q.seen.asset, q.seen.host>> \in held  BY <1>1, <1>5 DEF TracedRequest
<1>7. /\ Reading(q.seen) \in Entry /\ Reading(q.seen).asset = q.seen.asset
      /\ Reading(q.seen).host = q.seen.host
  BY <1>4, ReadingTyped
<1>8. at # "onboard"  OBVIOUS
<1> HIDE DEF at
<1>9. CASE Goes(r, [q EXCEPT !.at = at, !.log = {Reading(q.seen)}])
  <2> DEFINE next == [q EXCEPT !.at = at, !.log = {Reading(q.seen)}]
  <2>1. next.at = at /\ next.seen = q.seen /\ next.made = q.made /\ next.log = {Reading(q.seen)}
    BY <1>1 DEF Transaction
  <2> HIDE DEF next
  <2>2. TracedRequest(next, asset', held')
    BY <1>3, <1>6, <1>7, <1>8, <2>1 DEF TracedRequest
  <2>3. Goes(r, next)  BY <1>9 DEF next
  <2> QED  BY <1>2, <1>3, <2>1, <2>2, <2>3, GoesTrace
<1>10. CASE Goes(r, [q EXCEPT !.at = at])
  <2> DEFINE next == [q EXCEPT !.at = at]
  <2>1. next.at = at /\ next.seen = q.seen /\ next.made = q.made /\ next.log = q.log
    BY <1>1 DEF Transaction
  <2> HIDE DEF next
  <2>2. TracedRequest(next, asset', held')
    BY <1>1, <1>3, <1>8, <2>1 DEF TracedRequest
  <2>3. Goes(r, next)  BY <1>10 DEF next
  <2> QED  BY <1>2, <1>3, <2>1, <2>2, <2>3, GoesTrace
<1> QED  BY <1>9, <1>10 DEF ReadOffboard, at

\* A request ends, with a commit or without.
LEMMA EndsTrace ==
  ASSUME Inv, TraceInv, NEW r \in Admins, Ends(r), UNCHANGED job,
         Grows, DevicesHeld', ReadTogether',
         \A a \in Assets : asset'[a] = asset[a] \/ asset[a] # None \/ a \in DOMAIN request[r].made
  PROVE  TraceInv'
<1>1. IdleRequest.made = Nothing  BY DEF IdleRequest
<1> QED  BY <1>1, IdleTraced, GoesTrace DEF Ends

LEMMA UpdateRowTrace ==
  ASSUME Inv, TraceInv, NEW r \in Admins, UpdateRow(r) PROVE TraceInv'
<1> DEFINE q == request[r]
<1>1. q \in Transaction /\ TracedRequest(q, asset, held)
  BY RequestTyped DEF Inv, TransInv, TraceInv
<1>2. UNCHANGED rows /\ UNCHANGED job  BY DEF UpdateRow
<1>3. /\ Grows /\ DevicesHeld' /\ ReadTogether' /\ UNCHANGED <<asset, held>>
  BY <1>2, UnchangedTrace DEF TraceInv, rows
<1>4. CASE Ends(r)  BY <1>2, <1>3, <1>4, EndsTrace
<1>5. ASSUME NEW row, Goes(r, [q EXCEPT !.at = "link", !.row = row]) PROVE TraceInv'
  <2> DEFINE next == [q EXCEPT !.at = "link", !.row = row]
  <2>1. next.at = "link" /\ next.seen = q.seen /\ next.made = q.made /\ next.log = q.log
    BY <1>1 DEF Transaction
  <2>2. Goes(r, next)  BY <1>5
  <2> HIDE DEF next
  <2>3. TracedRequest(next, asset', held')  BY <1>1, <1>3, <2>1 DEF TracedRequest
  <2> QED  BY <1>2, <1>3, <2>1, <2>2, <2>3, GoesTrace
<1> QED  BY <1>4, <1>5 DEF UpdateRow

LEMMA LinkRowTrace ==
  ASSUME Inv, TraceInv, NEW r \in Admins, LinkRow(r) PROVE TraceInv'
<1> DEFINE q == request[r]
           n == NumberOf[q.row.host]
           link == GetOrCreateAsset(n, q.made)
           row == [q.row EXCEPT !.asset = link.id]
<1>1. /\ q \in Transaction /\ Staged(q) /\ q.at = "link" /\ q.row \in DeviceRow
      /\ TracedRequest(q, asset, held)
  BY RequestTyped DEF Inv, TransInv, LinkRow, Staged, Transaction, TraceInv
<1>2. n \in Numbers
  <2>1. q.row.host \in Hosts  BY <1>1 DEF DeviceRow
  <2> QED  BY <2>1, NumbersKnown DEF LinkRow
<1>3. q.made \in Insertion /\ q.made \in Insertions
  BY <1>1 DEF Transaction, Insertions
<1>4. ~Full(n, q.made) /\ UNCHANGED job  BY DEF LinkRow
<1>5. link.id \in Assets /\ link.made \in Insertion  BY <1>2, <1>3, <1>4, AssetTyped DEF Inv
<1>6. /\ Traced(link.id, q.row.host, link.made, asset, held)
      /\ \A a \in DOMAIN link.made : a \in DOMAIN q.made \/ a \in Unused
  BY <1>2, <1>3, <1>4, AssetTraced
<1>7. row \in DeviceRow /\ row.asset = link.id /\ row.host = q.row.host
  <2>1. link.id \in Assets \cup {None}  BY <1>5
  <2> QED  BY <1>1, <2>1, AssetField
<1>8. CASE Ends(r) /\ UNCHANGED rows
  BY <1>4, <1>8, UnchangedTrace, EndsTrace DEF TraceInv
<1>9. CASE /\ UNCHANGED rows
           /\ Goes(r, [q EXCEPT !.at = "onboard", !.row = row, !.made = link.made])
  <2> HIDE DEF row, link
  <2> DEFINE next == [q EXCEPT !.at = "onboard", !.row = row, !.made = link.made]
  <2>1. /\ next.at = "onboard" /\ next.seen = q.seen /\ next.made = link.made
        /\ next.log = q.log /\ next.row = row
    BY <1>1 DEF Transaction
  <2>2. Goes(r, next)  BY <1>9
  <2> HIDE DEF next
  <2>3. Grows /\ DevicesHeld' /\ ReadTogether' /\ UNCHANGED <<asset, held>>
    BY <1>9, UnchangedTrace DEF TraceInv, rows
  <2>4. TracedRequest(next, asset', held')
    BY <1>1, <1>6, <1>7, <2>1, <2>3 DEF TracedRequest
  <2>5. request'[r] = next /\ \A x \in Admins : x # r => request'[x] = request[x]
    BY <2>2 DEF Goes, Inv, TransInv, RequestsInv
  <2>6. MadeInv'  BY <1>4, <1>6, <2>1, <2>3, <2>5, RequestMade DEF TraceInv
  <2> QED  BY <1>4, <2>3, <2>4, <2>5, <2>6, RequestsTraced
<1>10. CASE /\ Accepted(Just(q.dev, row), link.made, {})
            /\ Goes(r, [IdleRequest EXCEPT !.at = "background", !.dev = q.dev, !.seen = Seen(row)])
            /\ Commit(Just(q.dev, row), link.made, {})
  <2>1. q.dev \in Devices /\ Just(q.dev, row) \in Partial(Devices, DeviceRow)
    BY <1>1, <1>7, JustTyped DEF Staged
  <2>2. <<row.asset, row.host>> \in held'
    <3>1. row.asset # None  BY <1>5, <1>7, AbsentRows DEF AreRows
    <3>2. DOMAIN Just(q.dev, row) = {q.dev} /\ Just(q.dev, row)[q.dev] = row
      BY JustApplies
    <3>3. held' = held \cup {<<Just(q.dev, row)[d].asset, Just(q.dev, row)[d].host>> :
                          d \in {x \in DOMAIN Just(q.dev, row) : Just(q.dev, row)[x].asset # None}}
      BY <1>10 DEF Commit
    <3> HIDE DEF row
    <3> QED  BY <3>1, <3>2, <3>3
  <2>3. Seen(row) \in Glimpse /\ Seen(row).asset = row.asset /\ Seen(row).host = row.host
    BY <1>7, SeenTyped
  <2>4. CommitOrRollback(Just(q.dev, row), link.made, {})  BY <1>10 DEF CommitOrRollback
  <2> HIDE DEF row, link
  <2>5. \A a \in DOMAIN link.made : asset[a] = None
    BY <1>6 DEF TraceInv, MadeInv, Unused
  <2>6. /\ Grows /\ DevicesHeld' /\ ReadTogether'
        /\ \A a \in Assets : asset'[a] = asset[a] \/ a \in DOMAIN link.made
    BY <1>5, <2>1, <2>4, <2>5, CommitTrace DEF Inv, TraceInv
  <2> DEFINE next == [IdleRequest EXCEPT !.at = "background", !.dev = q.dev, !.seen = Seen(row)]
  <2>7. /\ next.at = "background" /\ next.seen = Seen(row) /\ next.log = {}
        /\ next.made = Nothing
    BY DEF IdleRequest
  <2>8. Goes(r, next)  BY <1>10
  <2> HIDE DEF next
  <2>9. TracedRequest(next, asset', held')  BY <2>2, <2>3, <2>7 DEF TracedRequest
  <2>10. request'[r] = next /\ \A x \in Admins : x # r => request'[x] = request[x]
    BY <2>8 DEF Goes, Inv, TransInv, RequestsInv
  <2>11. MadeInv'  BY <1>4, <1>6, <2>6, <2>7, <2>10, RequestMade DEF TraceInv
  <2> QED  BY <1>4, <2>6, <2>9, <2>10, <2>11, RequestsTraced
<1> QED  BY <1>8, <1>9, <1>10 DEF LinkRow

LEMMA LinksNothingTrace ==
  ASSUME Inv, TraceInv, NEW r \in Admins, LinksNothing(r) PROVE TraceInv'
<1> DEFINE q == request[r]
<1>1. /\ q \in Transaction /\ Staged(q) /\ q.at = "link" /\ TracedRequest(q, asset, held)
  BY RequestTyped DEF Inv, TransInv, LinksNothing, TraceInv
<1>2. /\ q.row \in DeviceRow /\ q.dev \in Devices /\ q.made \in Insertion
      /\ q.log \in SUBSET Entry
  BY <1>1 DEF Staged, Transaction
<1>3. CommitOrRollback(Just(q.dev, q.row), q.made, q.log) /\ Ends(r) /\ UNCHANGED job
  BY DEF LinksNothing
<1>4. \A l \in q.log : Traced(l.asset, l.host, q.made, asset, held)
  BY <1>1 DEF TracedRequest, Traced
<1>5. \A a \in DOMAIN q.made : asset[a] = None  BY DEF TraceInv, MadeInv
<1>6. /\ Grows /\ DevicesHeld' /\ ReadTogether'
      /\ \A a \in Assets : asset'[a] = asset[a] \/ a \in DOMAIN q.made
  BY <1>2, <1>3, <1>4, <1>5, JustTyped, CommitTrace DEF Inv, TraceInv
<1> QED  BY <1>3, <1>6, EndsTrace

LEMMA ReadOnboardTrace ==
  ASSUME Inv, TraceInv, NEW r \in Admins, ReadOnboard(r) PROVE TraceInv'
<1> DEFINE q == request[r]
<1>1. /\ q \in Transaction /\ Staged(q) /\ q.at = "onboard" /\ TracedRequest(q, asset, held)
  BY RequestTyped DEF Inv, TransInv, ReadOnboard, TraceInv
<1>2. /\ q.row \in DeviceRow /\ q.dev \in Devices /\ q.made \in Insertion
      /\ q.log \in SUBSET Entry /\ q.row.asset \in Assets
  BY <1>1 DEF Staged, Transaction
<1>3. /\ Reading(q.row) \in Entry /\ Reading(q.row).asset = q.row.asset
      /\ Reading(q.row).host = q.row.host
  BY <1>2, ReadingTyped
<1>4. PICK log \in {q.log, q.log \cup {Reading(q.row)}} :
        CommitOrRollback(Just(q.dev, q.row), q.made, log)
  BY DEF ReadOnboard
<1>5. Ends(r) /\ UNCHANGED job  BY DEF ReadOnboard
<1>6. log \in SUBSET Entry  BY <1>2, <1>3, <1>4
<1>7. \A l \in log : Traced(l.asset, l.host, q.made, asset, held)
  <2>1. \A l \in q.log : Traced(l.asset, l.host, q.made, asset, held)
    BY <1>1 DEF TracedRequest, Traced
  <2>2. Traced(q.row.asset, q.row.host, q.made, asset, held)  BY <1>1 DEF TracedRequest
  <2> QED  BY <1>3, <1>4, <2>1, <2>2
<1>8. \A a \in DOMAIN q.made : asset[a] = None  BY DEF TraceInv, MadeInv
<1>9. /\ Grows /\ DevicesHeld' /\ ReadTogether'
      /\ \A a \in Assets : asset'[a] = asset[a] \/ a \in DOMAIN q.made
  BY <1>2, <1>4, <1>6, <1>7, <1>8, JustTyped, CommitTrace DEF Inv, TraceInv
<1> QED  BY <1>5, <1>9, EndsTrace

\* A reading is committed in a transaction of its own.
LEMMA EntryTrace ==
  ASSUME Inv, TraceInv, NEW x, x \in Glimpse \/ x \in DeviceRow, x.asset \in Assets,
         <<x.asset, x.host>> \in held, CommitOrRollback(Nothing, Nothing, {Reading(x)})
  PROVE  Grows /\ DevicesHeld' /\ ReadTogether' /\ \A a \in Assets : asset'[a] = asset[a]
<1>1. Reading(x) \in Entry /\ Reading(x).asset = x.asset /\ Reading(x).host = x.host
  BY ReadingTyped
<1>2. \A l \in {Reading(x)} : Traced(l.asset, l.host, Nothing, asset, held)
  BY <1>1 DEF Traced
<1>3. {Reading(x)} \in SUBSET Entry /\ DOMAIN Nothing = {}  BY <1>1, NothingApplies
<1>4. Nothing \in Partial(Devices, DeviceRow)  BY PartialNothing
<1> QED  BY <1>2, <1>3, <1>4, InsertionNothing, CommitTrace DEF Inv, TraceInv

LEMMA ReadInBackgroundTrace ==
  ASSUME Inv, TraceInv, NEW r \in Admins, ReadInBackground(r) PROVE TraceInv'
<1> DEFINE q == request[r]
<1>1. Staged(q) /\ q.at = "background" /\ TracedRequest(q, asset, held)
  BY RequestTyped DEF Inv, TransInv, ReadInBackground, TraceInv
<1>2. q.seen \in Glimpse /\ q.seen.asset \in Assets  BY <1>1 DEF Staged
<1>3. <<q.seen.asset, q.seen.host>> \in held
  <2>1. q.seen # None /\ q.seen.asset # None  BY <1>2, AbsentRows DEF AreRows
  <2> QED  BY <1>1, <2>1 DEF TracedRequest
<1>4. Ends(r) /\ UNCHANGED job  BY DEF ReadInBackground
<1>5. CASE UNCHANGED rows  BY <1>4, <1>5, UnchangedTrace, EndsTrace DEF TraceInv
<1>6. CASE CommitOrRollback(Nothing, Nothing, {Reading(q.seen)})
  BY <1>2, <1>3, <1>4, <1>6, EntryTrace, EndsTrace
<1> QED  BY <1>5, <1>6 DEF ReadInBackground

LEMMA DeleteRowTrace ==
  ASSUME Inv, TraceInv, NEW r \in Admins, DeleteRow(r) PROVE TraceInv'
<1> DEFINE q == request[r]
           d == q.dev
<1>1. Ends(r) /\ UNCHANGED job  BY DEF DeleteRow
<1>2. CASE UNCHANGED rows  BY <1>1, <1>2, UnchangedTrace, EndsTrace DEF TraceInv
<1>3. CASE /\ logs' = logs \cup q.log /\ device' = Deleted(device, {d})
           /\ UNCHANGED <<asset, held>>
  <2>1. RowsInv /\ RowsInv' /\ Tables  BY DeleteRowInv DEF Inv, RowsInv
  <2>2. \A x \in Rows(device)' : x \in Rows(device) /\ device'[x] = device[x]
    BY <1>3, <2>1 DEF Deleted, Rows, Tables
  <2>3. \A l \in q.log : <<l.asset, l.host>> \in held  BY DEF TraceInv, TracedRequest
  <2>4. Grows /\ DevicesHeld' /\ ReadTogether'
    BY <1>3, <2>1, <2>2, <2>3, QuietTrace DEF TraceInv
  <2> QED  BY <1>1, <1>3, <2>4, EndsTrace
<1> QED  BY <1>2, <1>3 DEF DeleteRow

LEMMA AssignSatelliteTrace ==
  ASSUME Inv, TraceInv, NEW r \in Admins, AssignSatellite(r) PROVE TraceInv'
<1> DEFINE d == request[r].dev
<1>1. RowsInv /\ Staged(request[r]) /\ d \in Devices
  BY RequestTyped DEF Inv, TransInv, AssignSatellite, Staged
<1>2. Ends(r) /\ UNCHANGED job  BY DEF AssignSatellite
<1>3. CASE UNCHANGED rows  BY <1>2, <1>3, UnchangedTrace, EndsTrace DEF TraceInv
<1>4. ASSUME NEW row \in DeviceRow, Accepted(Just(d, row), Nothing, {}),
             Commit(Just(d, row), Nothing, {})
      PROVE  TraceInv'
  <2>1. CommitOrRollback(Just(d, row), Nothing, {})  BY <1>4 DEF CommitOrRollback
  <2>2. Just(d, row) \in Partial(Devices, DeviceRow) /\ DOMAIN Nothing = {}
    BY <1>1, JustTyped, NothingApplies
  <2>3. /\ Grows /\ DevicesHeld' /\ ReadTogether'
        /\ \A a \in Assets : asset'[a] = asset[a] \/ a \in DOMAIN Nothing
    BY <2>1, <2>2, InsertionNothing, CommitTrace DEF Inv, TraceInv
  <2> QED  BY <1>2, <2>2, <2>3, EndsTrace
<1> QED  BY <1>1, <1>3, <1>4, AssignedRow

LEMMA ReplaceSatellitesTrace ==
  ASSUME Inv, TraceInv, NEW r \in Admins, ReplaceSatellites(r) PROVE TraceInv'
<1> DEFINE q == request[r]
           D == Users(q.read, q.plan.exhibition, q.read.exhibition[q.plan.exhibition] \ q.plan.satellites)
<1>1. Ends(r) /\ UNCHANGED job  BY DEF ReplaceSatellites
<1>2. RowsInv /\ RowsInv'  BY ReplaceSatellitesRows DEF Inv
<1>3. UNCHANGED <<asset, logs, held>> /\ (ReplacedRows(r) \/ UNCHANGED rows)
  BY <1>2, ReplaceSatellitesCases
<1>4. CASE UNCHANGED rows  BY <1>1, <1>4, UnchangedTrace, EndsTrace DEF TraceInv
<1>5. CASE ReplacedRows(r)
  <2>1. /\ D \in SUBSET Rows(device)
        /\ device' = [d \in Devices |->
             IF d \in D THEN [device[d] EXCEPT !.satellite = None] ELSE device[d]]
    BY <1>5 DEF ReplacedRows
  <2> HIDE DEF D
  <2>2. \A d \in Rows(device)' : /\ d \in Rows(device) /\ device'[d].asset = device[d].asset
                                 /\ device'[d].host = device[d].host
    BY <1>2, <2>1, ClearedDevices
  <2>3. Grows /\ DevicesHeld' /\ ReadTogether'  BY <1>2, <1>3, <2>2, QuietTrace DEF TraceInv
  <2> QED  BY <1>1, <1>3, <2>3, EndsTrace
<1> QED  BY <1>3, <1>4, <1>5

\* The rules concern neither devices nor assets.
LEMMA ProtectionEndsTrace ==
  ASSUME Inv, RulesInv, TraceInv, NEW r \in Admins, CommitProtection(r) \/ LoseProtection(r)
  PROVE  TraceInv'
<1>1. Ends(r) /\ UNCHANGED <<job, device, asset, logs, held>>
  BY DEF CommitProtection, LoseProtection, rows
<1>2. request[r].plan.artwork \in Rows(artwork)
  BY DEF RulesInv, RulesPending, CommitProtection, LoseProtection
<1>3. RowsInv /\ RowsInv'  BY <1>2, ProtectionEndsInv DEF Inv
<1>4. \A d \in Rows(device)' : d \in Rows(device)  BY <1>1 DEF Rows
<1>5. Grows /\ DevicesHeld' /\ ReadTogether'  BY <1>1, <1>3, <1>4, QuietTrace DEF TraceInv
<1> QED  BY <1>1, <1>5, EndsTrace

-----------------------------------------------------------------------------
(* Each step of a list                                                     *)

\* A list goes on with the same assets inserted, and commits nothing.
LEMMA ListTrace ==
  ASSUME Inv, TraceInv, NEW w \in Workers, NEW next, job' = [job EXCEPT ![w] = next],
         UNCHANGED request, next.made \in {job[w].made, Nothing},
         TracedList(next, asset', held'), Grows, DevicesHeld', ReadTogether',
         \A a \in Assets : asset'[a] = asset[a] \/ asset[a] # None
                             \/ (a \in DOMAIN job[w].made /\ next.made = Nothing)
  PROVE  TraceInv'
<1>1. job'[w] = next /\ \A v \in Workers : v # w => job'[v] = job[v]
  BY DEF Inv, TransInv, JobsInv
<1>2. MadeInv'  BY <1>1, JobMade DEF TraceInv
<1> QED  BY <1>1, <1>2, ListsTraced

LEMMA NoJobTraced == \A assets, pairs : TracedList(NoJob, assets, pairs)
BY NothingApplies DEF TracedList, NoJob

LEMMA DropsTrace ==
  ASSUME Inv, TraceInv, NEW w \in Workers, Drops(w), UNCHANGED request,
         Grows, DevicesHeld', ReadTogether',
         \A a \in Assets : asset'[a] = asset[a] \/ asset[a] # None \/ a \in DOMAIN job[w].made
  PROVE  TraceInv'
<1>1. NoJob.made = Nothing  BY DEF NoJob
<1> QED  BY <1>1, NoJobTraced, ListTrace DEF Drops

\* One device less.
LEMMA WorksTraced ==
  ASSUME NEW j \in List, NEW d, NEW next, next = [j EXCEPT !.todo = Without(j.todo, d)],
         NEW assets, NEW pairs, TracedList(j, assets, pairs)
  PROVE  TracedList(next, assets, pairs) /\ next.made = j.made
<1>1. j.todo \in Partial(Devices, Glimpse)  BY DEF List
<1>2. \A x \in DOMAIN Without(j.todo, d) : x \in DOMAIN j.todo /\ Without(j.todo, d)[x] = j.todo[x]
  BY <1>1, PartialWithout
<1> DEFINE todo == Without(j.todo, d)
<1>3. next.todo = todo /\ next.log = j.log /\ next.made = j.made  BY DEF List
<1> HIDE DEF todo
<1>4. \A x \in DOMAIN todo : x \in DOMAIN j.todo /\ todo[x] = j.todo[x]  BY <1>2 DEF todo
<1> QED  BY <1>3, <1>4 DEF TracedList

LEMMA ReadDeviceTrace ==
  ASSUME Inv, TraceInv, NEW w \in Workers, NEW d, ReadDevice(w, d) \/ SkipDevice(w, d)
  PROVE  TraceInv'
<1> DEFINE j == job[w]
<1>1. d \in DOMAIN j.todo /\ UNCHANGED <<request, rows>>  BY DEF ReadDevice, SkipDevice
<1>2. /\ j \in List /\ Kept(j) /\ d \in Devices /\ j.todo[d] \in Glimpse
      /\ TracedList(j, asset, held)
  BY <1>1, AtDevice DEF Inv, TransInv, TraceInv
<1>3. Grows /\ DevicesHeld' /\ ReadTogether' /\ UNCHANGED <<asset, held>>
  BY <1>1, UnchangedTrace DEF TraceInv, rows
<1>4. ASSUME NEW x \in List, x.made = j.made, TracedList(x, asset, held), Works(w, x, d)
      PROVE  TraceInv'
  <2> DEFINE next == [x EXCEPT !.todo = Without(x.todo, d)]
  <2>1. TracedList(next, asset, held) /\ next.made = x.made  BY <1>4, WorksTraced
  <2>2. job' = [job EXCEPT ![w] = next]  BY <1>4 DEF Works
  <2> HIDE DEF next
  <2> QED  BY <1>1, <1>3, <1>4, <2>1, <2>2, ListTrace
<1>5. CASE SkipDevice(w, d)  BY <1>2, <1>4, <1>5 DEF SkipDevice
<1>6. CASE ReadDevice(w, d)
  <2> DEFINE log == Over(Just(d, Reading(j.todo[d])), j.log)
             next == [j EXCEPT !.log = log]
  <2>1. j.todo[d].asset \in Assets  BY <1>1, <1>2, <1>6 DEF Kept, ReadDevice
  <2>2. /\ Reading(j.todo[d]) \in Entry /\ Reading(j.todo[d]).asset = j.todo[d].asset
        /\ Reading(j.todo[d]).host = j.todo[d].host
    BY <1>2, <2>1, ReadingTyped
  <2>3. <<j.todo[d].asset, j.todo[d].host>> \in held
    <3>1. j.todo[d].asset # None  BY <2>1, AbsentRows DEF AreRows
    <3> QED  BY <1>1, <1>2, <3>1 DEF TracedList
  <2>4. log \in Partial(Devices, Entry)
    <3>1. j.log \in Partial(Devices, Entry)  BY <1>2 DEF List
    <3> QED  BY <1>2, <2>2, <3>1, PartialJust, PartialOver
  <2>5. \A x \in DOMAIN log : \/ x = d /\ log[x] = Reading(j.todo[d])
                              \/ x \in DOMAIN j.log /\ log[x] = j.log[x]
    BY OverJust
  <2>6. Works(w, next, d)  BY <1>6 DEF ReadDevice
  <2> HIDE DEF log
  <2>7. next \in List /\ next.made = j.made /\ next.todo = j.todo /\ next.log = log
    BY <1>2, <2>4 DEF List
  <2> HIDE DEF next
  <2>8. \A x \in DOMAIN log : Traced(log[x].asset, log[x].host, j.made, asset, held)
    BY <1>2, <2>2, <2>3, <2>5 DEF TracedList, Traced
  <2>9. TracedList(next, asset, held)  BY <1>2, <2>7, <2>8 DEF TracedList
  <2> QED  BY <1>4, <2>6, <2>7, <2>9
<1> QED  BY <1>5, <1>6

LEMMA TouchDeviceTrace ==
  ASSUME Inv, TraceInv, NEW w \in Workers, NEW d, TouchDevice(w, d) PROVE TraceInv'
<1> DEFINE j == job[w]
           links == Over(Just(d, None), j.links)
           x == [j EXCEPT !.links = links]
           next == [x EXCEPT !.todo = Without(x.todo, d)]
<1>1. d \in DOMAIN j.todo /\ UNCHANGED <<request, rows>> /\ (Drops(w) \/ Works(w, x, d))
  BY DEF TouchDevice
<1>2. j \in List /\ d \in Devices /\ TracedList(j, asset, held)
  BY <1>1, AtDevice DEF Inv, TransInv, TraceInv
<1>3. Grows /\ DevicesHeld' /\ ReadTogether' /\ UNCHANGED <<asset, held>>
  BY <1>1, UnchangedTrace DEF TraceInv, rows
<1>4. links \in Partial(Devices, Assets \cup {None})
  <2>1. j.links \in Partial(Devices, Assets \cup {None})  BY <1>2 DEF List
  <2> QED  BY <1>2, <2>1, PartialJust, PartialOver
<1>5. CASE Drops(w)  BY <1>1, <1>3, <1>5, DropsTrace
<1>6. CASE Works(w, x, d)
  <2>1. job' = [job EXCEPT ![w] = next]  BY <1>6 DEF Works
  <2> HIDE DEF links
  <2>2. x \in List /\ x.todo = j.todo /\ x.made = j.made /\ x.log = j.log
    BY <1>2, <1>4 DEF List
  <2> HIDE DEF x
  <2>3. TracedList(x, asset, held)  BY <1>2, <2>2 DEF TracedList
  <2>4. TracedList(next, asset, held) /\ next.made = x.made  BY <2>2, <2>3, WorksTraced
  <2> HIDE DEF next
  <2> QED  BY <1>1, <1>3, <2>1, <2>2, <2>4, ListTrace
<1> QED  BY <1>1, <1>5, <1>6

LEMMA CacheInfoTrace ==
  ASSUME Inv, TraceInv, NEW w \in Workers, NEW d, CacheInfo(w, d) PROVE TraceInv'
<1> DEFINE j == job[w]
           h == j.todo[d].host
           next == [j EXCEPT !.todo = Without(j.todo, d)]
<1>1. /\ d \in DOMAIN j.todo /\ Works(w, j, d) /\ UNCHANGED <<request, asset, logs, held>>
      /\ device' = IF d \in Rows(device) THEN [device EXCEPT ![d].cached = h] ELSE device
  BY DEF CacheInfo
<1>2. j \in List /\ h \in Hosts /\ TracedList(j, asset, held)
  BY <1>1, AtDevice DEF Inv, TransInv, TraceInv
<1>3. RowsInv /\ RowsInv' /\ Tables  BY CacheInfoInv DEF Inv, RowsInv
<1>4. \A x \in Rows(device)' : /\ x \in Rows(device) /\ device'[x].asset = device[x].asset
                               /\ device'[x].host = device[x].host
  <2>1. CASE d \in Rows(device)
    <3> DEFINE row == [device[d] EXCEPT !.cached = h]
    <3>1. device[d] \in DeviceRow /\ h \in Hosts \cup {None}
      BY <1>2, <1>3, <2>1, RowsOfTables
    <3>2. row.asset = device[d].asset /\ row.host = device[d].host
      BY <3>1, CachedField
    <3>3. device' = [device EXCEPT ![d] = row]  BY <1>1, <2>1
    <3> HIDE DEF row
    <3>4. \A x \in Devices : device'[x] = IF x = d THEN row ELSE device[x]
      BY <1>3, <3>3 DEF Tables
    <3>5. DOMAIN device = Devices /\ DOMAIN device' = Devices  BY <1>3, <3>3 DEF Tables
    <3> QED  BY <2>1, <3>2, <3>4, <3>5 DEF Rows
  <2>2. CASE d \notin Rows(device)  BY <1>1, <2>2 DEF Rows
  <2> QED  BY <2>1, <2>2
<1>5. Grows /\ DevicesHeld' /\ ReadTogether'  BY <1>1, <1>3, <1>4, QuietTrace DEF TraceInv
<1>6. TracedList(next, asset, held) /\ next.made = j.made  BY <1>2, WorksTraced
<1>7. job' = [job EXCEPT ![w] = next]  BY <1>1 DEF Works
<1> HIDE DEF next
<1> QED  BY <1>1, <1>5, <1>6, <1>7, ListTrace

LEMMA LinkDeviceTrace ==
  ASSUME Inv, TraceInv, NEW w \in Workers, NEW d, LinkDevice(w, d) PROVE TraceInv'
<1> DEFINE j == job[w]
           n == NumberOf[j.todo[d].host]
           link == GetOrCreateAsset(n, j.made)
           listed == [j.todo[d] EXCEPT !.asset = link.id]
           links == Over(Just(d, link.id), j.links)
           linked == [j EXCEPT !.links = links, !.made = link.made]
           log == Over(Just(d, Reading(listed)), linked.log)
           logged == [linked EXCEPT !.log = log]
<1>1. d \in DOMAIN j.todo /\ UNCHANGED request /\ ~Full(n, j.made)  BY DEF LinkDevice
<1>2. /\ j \in List /\ d \in Devices /\ j.todo[d] \in Glimpse /\ j.todo[d].host \in Hosts
      /\ TracedList(j, asset, held)
  BY <1>1, AtDevice DEF Inv, TransInv, TraceInv
<1>3. n \in Numbers  BY <1>2, NumbersKnown DEF LinkDevice
<1>4. j.made \in Insertion /\ j.made \in Insertions  BY <1>2 DEF List, Insertions
<1>5. link.id \in Assets /\ link.made \in Insertion  BY <1>1, <1>3, <1>4, AssetTyped DEF Inv
<1>6. /\ Traced(link.id, j.todo[d].host, link.made, asset, held)
      /\ \A a \in DOMAIN link.made : a \in DOMAIN j.made \/ a \in Unused
      /\ \A a \in DOMAIN j.made : a \in DOMAIN link.made /\ link.made[a] = j.made[a]
  BY <1>1, <1>3, <1>4, AssetTraced
<1>7. listed \in Glimpse /\ listed.asset = link.id /\ listed.host = j.todo[d].host
  BY <1>2, <1>5 DEF Glimpse
<1>8. /\ Reading(listed) \in Entry /\ Reading(listed).asset = link.id
      /\ Reading(listed).host = j.todo[d].host
  BY <1>5, <1>7, ReadingTyped
<1>9. links \in Partial(Devices, Assets \cup {None})
  <2>1. j.links \in Partial(Devices, Assets \cup {None})  BY <1>2 DEF List
  <2>2. link.id \in Assets \cup {None}  BY <1>5
  <2> QED  BY <1>2, <2>1, <2>2, PartialJust, PartialOver
<1>10. \/ Drops(w) /\ UNCHANGED rows
       \/ Works(w, linked, d) \/ Works(w, logged, d)
  BY DEF LinkDevice
<1>11. UNCHANGED rows \/ (d \in Rows(device) /\ device[d].asset # None
                            /\ Commit(Nothing, Nothing, {Reading(device[d])}))
  BY DEF LinkDevice
<1> HIDE DEF link, links, listed
<1>12. /\ linked \in List /\ linked.todo = j.todo /\ linked.made = link.made
       /\ linked.log = j.log
  BY <1>2, <1>5, <1>9 DEF List
<1> HIDE DEF linked
<1>13. /\ log \in Partial(Devices, Entry)
       /\ \A x \in DOMAIN log : \/ x = d /\ log[x] = Reading(listed)
                                \/ x \in DOMAIN j.log /\ log[x] = j.log[x]
  <2>1. linked.log \in Partial(Devices, Entry)  BY <1>12 DEF List
  <2>2. log \in Partial(Devices, Entry)  BY <1>2, <1>8, <2>1, PartialJust, PartialOver
  <2> QED  BY <1>12, <2>2, OverJust
<1> HIDE DEF log
<1>14. /\ logged \in List /\ logged.todo = j.todo /\ logged.made = link.made
       /\ logged.log = log
  BY <1>12, <1>13 DEF List
<1> HIDE DEF logged
<1>15. \A x \in DOMAIN j.log : Traced(j.log[x].asset, j.log[x].host, link.made, asset, held)
  BY <1>2, <1>6 DEF TracedList, Traced
<1>16. TracedList(linked, asset, held)  BY <1>2, <1>12, <1>15 DEF TracedList
<1>17. \A x \in DOMAIN log : Traced(log[x].asset, log[x].host, link.made, asset, held)
  BY <1>6, <1>8, <1>13, <1>15
<1>18. TracedList(logged, asset, held)  BY <1>2, <1>14, <1>17 DEF TracedList
<1>19. Grows /\ DevicesHeld' /\ ReadTogether' /\ \A a \in Assets : asset'[a] = asset[a]
  <2>1. CASE UNCHANGED rows  BY <2>1, UnchangedTrace DEF TraceInv
  <2>2. CASE /\ d \in Rows(device) /\ device[d].asset # None
             /\ Commit(Nothing, Nothing, {Reading(device[d])})
    <3>1. device[d] \in DeviceRow /\ device[d].asset \in Rows(asset)
      BY <2>2, RowsOfTables DEF Inv, RowsInv, Keys
    <3>2. device[d].asset \in Assets  BY <3>1, RowsOfTables DEF Inv, RowsInv
    <3>3. Reading(device[d]).asset = device[d].asset  BY <3>1, <3>2, ReadingTyped
    <3>4. Accepted(Nothing, Nothing, {Reading(device[d])})
      BY <3>1, <3>3, NothingApplies DEF Accepted
    <3>5. CommitOrRollback(Nothing, Nothing, {Reading(device[d])})
      BY <2>2, <3>4 DEF CommitOrRollback
    <3>6. <<device[d].asset, device[d].host>> \in held  BY <2>2 DEF TraceInv, DevicesHeld
    <3> QED  BY <3>1, <3>2, <3>5, <3>6, EntryTrace
  <2> QED  BY <1>11, <2>1, <2>2
<1>20. CASE Drops(w) /\ UNCHANGED rows  BY <1>1, <1>19, <1>20, DropsTrace
<1>21. ASSUME NEW x \in List, x.made = link.made, TracedList(x, asset, held), Works(w, x, d)
       PROVE  TraceInv'
  <2> DEFINE next == [x EXCEPT !.todo = Without(x.todo, d)]
  <2>1. TracedList(next, asset, held) /\ next.made = x.made  BY <1>21, WorksTraced
  <2>2. next \in List
    <3>1. x.todo \in Partial(Devices, Glimpse)  BY <1>21 DEF List
    <3>2. Without(x.todo, d) \in Partial(Devices, Glimpse)  BY <3>1, PartialWithout
    <3> QED  BY <1>21, <3>2 DEF List
  <2>3. job' = [job EXCEPT ![w] = next]  BY <1>21 DEF Works
  <2> HIDE DEF next
  <2>4. job'[w] = next /\ \A v \in Workers : v # w => job'[v] = job[v]
    BY <2>3 DEF Inv, TransInv, JobsInv
  <2>5. MadeInv'  BY <1>1, <1>6, <1>19, <1>21, <2>1, <2>4, JobMade DEF TraceInv
  <2>6. TracedList(next, asset', held')  BY <1>19, <2>1, <2>2, ListTraceStays
  <2> QED  BY <1>1, <1>19, <2>4, <2>5, <2>6, ListsTraced
<1> QED  BY <1>10, <1>12, <1>14, <1>16, <1>18, <1>20, <1>21

LEMMA CommitListTrace ==
  ASSUME Inv, TraceInv, NEW w \in Workers, CommitList(w) PROVE TraceInv'
<1> DEFINE j == job[w]
           update == [d \in DOMAIN j.links |->
                        [device[d] EXCEPT !.asset = IF j.links[d] = None THEN @ ELSE j.links[d]]]
           entries == {j.log[d] : d \in DOMAIN j.log}
<1>1. Drops(w) /\ UNCHANGED request  BY DEF CommitList
<1>2. CASE UNCHANGED rows  BY <1>1, <1>2, UnchangedTrace, DropsTrace DEF TraceInv
<1>3. CASE /\ DOMAIN j.links \subseteq Rows(device)
           /\ CommitOrRollback(update, j.made, entries)
  <2>1. j \in List /\ TracedList(j, asset, held)  BY DEF Inv, TransInv, JobsInv, TraceInv
  <2>2. /\ j.links \in Partial(Devices, Assets \cup {None}) /\ j.made \in Insertion
        /\ j.log \in Partial(Devices, Entry)
    BY <2>1 DEF List
  <2>3. \A d \in DOMAIN j.links : /\ d \in Devices /\ device[d] \in DeviceRow
                                  /\ j.links[d] \in Assets \cup {None}
    BY <1>3, <2>2, PartialApplies, RowsOfTables DEF Inv, RowsInv
  <2>4. ASSUME NEW d \in DOMAIN j.links PROVE update[d] \in DeviceRow
    <3> DEFINE old == device[d]
               link == j.links[d]
    <3>1. old \in DeviceRow /\ link \in Assets \cup {None}  BY <2>3
    <3>2. update[d] = [old EXCEPT !.asset = IF link = None THEN @ ELSE link]  BY <2>4
    <3> HIDE DEF old, link, update
    <3> QED  BY <3>1, <3>2, LinkedRow
  <2>5. update \in [DOMAIN j.links -> DeviceRow]  BY <2>4
  <2>6. entries \in SUBSET Entry  BY <2>2, PartialApplies
  <2>7. \A l \in entries : Traced(l.asset, l.host, j.made, asset, held)
    BY <2>1 DEF TracedList
  <2>8. CommitOrRollback(update, j.made, entries)  BY <1>3
  <2> HIDE DEF update, entries
  <2>9. update \in Partial(Devices, DeviceRow)  BY <2>3, <2>5 DEF Partial
  <2>10. \A a \in DOMAIN j.made : asset[a] = None  BY DEF TraceInv, MadeInv
  <2>11. /\ Grows /\ DevicesHeld' /\ ReadTogether'
         /\ \A a \in Assets : asset'[a] = asset[a] \/ a \in DOMAIN j.made
    BY <2>2, <2>6, <2>7, <2>8, <2>9, <2>10, CommitTrace DEF Inv, TraceInv
  <2> QED  BY <1>1, <2>11, DropsTrace
<1> QED  BY <1>2, <1>3 DEF CommitList

LEMMA ListStepTrace ==
  ASSUME Inv, TraceInv, NEW w \in Workers, ListStep(w) PROVE TraceInv'
<1>1. CASE DeadlockDetected(w)
  BY <1>1, UnchangedTrace, DropsTrace DEF DeadlockDetected, TraceInv
<1> QED  BY <1>1, ReadDeviceTrace, TouchDeviceTrace, LinkDeviceTrace, CacheInfoTrace, CommitListTrace
         DEF ListStep

LEMMA DeviceStepTrace ==
  ASSUME Inv, TraceInv, NEW r \in Admins, DeviceStep(r) PROVE TraceInv'
BY ReadOffboardTrace, UpdateRowTrace, LinkRowTrace, LinksNothingTrace, ReadOnboardTrace,
   ReadInBackgroundTrace, DeleteRowTrace, AssignSatelliteTrace, ListStepTrace
DEF DeviceStep, Workers

LEMMA RequestStepTrace ==
  ASSUME Inv, RulesInv, TraceInv, NEW r \in Admins, RequestStep(r) PROVE TraceInv'
BY DeviceStepTrace, ReplaceSatellitesTrace, ProtectionEndsTrace DEF RequestStep

LEMMA TakesTrace ==
  ASSUME Inv, TraceInv, NEW w \in Workers, NEW kind, NEW D \in SUBSET Rows(device),
         Takes(w, kind, D), UNCHANGED <<rows, request>>
  PROVE  TraceInv'
<1> DEFINE todo == [d \in D |-> Seen(device[d])]
           next == IF D = {} THEN NoJob ELSE [NoJob EXCEPT !.kind = kind, !.todo = todo]
<1>1. \A d \in D : device[d] \in DeviceRow  BY RowsOfTables DEF Inv, RowsInv
<1>2. \A d \in D : todo[d].asset = device[d].asset /\ todo[d].host = device[d].host
  BY <1>1, SeenTyped
<1>3. \A d \in DOMAIN todo : todo[d].asset # None => <<todo[d].asset, todo[d].host>> \in held
  BY <1>2 DEF TraceInv, DevicesHeld
<1> HIDE DEF todo
<1>4. TracedList(next, asset, held) /\ next.made = Nothing
  BY <1>3, NothingApplies, NoJobTraced DEF TracedList, NoJob
<1>5. job' = [job EXCEPT ![w] = next]  BY DEF Takes, next, todo
<1> HIDE DEF next
<1>6. Grows /\ DevicesHeld' /\ ReadTogether' /\ UNCHANGED <<asset, held>>
  BY UnchangedTrace DEF TraceInv, rows
<1> QED  BY <1>4, <1>5, <1>6, ListTrace

-----------------------------------------------------------------------------
(* New requests, as far as assets and hosts are concerned                  *)

LEMMA NewRequestRowsTrace ==
  ASSUME Inv, TraceInv, NEW r \in Admins, NewRequest(r)
  PROVE  /\ Grows /\ DevicesHeld' /\ ReadTogether'
         /\ \A a \in Assets : asset'[a] = asset[a] \/ asset[a] # None
<1>1. RowsInv /\ RowsInv' /\ Tables  BY NewRequestRows DEF Inv, RowsInv
<1> DEFINE SameOrLess == \A d \in Rows(device)' :
             \/ device'[d].asset = None
             \/ /\ d \in Rows(device) /\ device'[d].asset = device[d].asset
                /\ device'[d].host = device[d].host
           Goal == /\ Grows /\ DevicesHeld' /\ ReadTogether'
                   /\ \A a \in Assets : asset'[a] = asset[a] \/ asset[a] # None
<1>2. ASSUME UNCHANGED <<asset, held>>, SameOrLess,
             \A l \in logs' : l \in logs \/ l.host = None
      PROVE  Goal
  BY <1>1, <1>2, QuietTrace DEF TraceInv
<1>3. ASSUME UNCHANGED <<asset, held, logs, device>> PROVE Goal
  <2>1. SameOrLess  BY <1>3 DEF Rows
  <2> QED  BY <1>2, <1>3, <2>1
<1>4. ASSUME NEW D, device' = Deleted(device, D) PROVE SameOrLess
  BY <1>1, <1>4 DEF Deleted, Rows, Tables
<1>5. ASSUME NEW D \in SUBSET Rows(device),
             device' = [d \in Devices |->
               IF d \in D THEN [device[d] EXCEPT !.satellite = None] ELSE device[d]]
      PROVE  SameOrLess
  BY <1>1, <1>5, ClearedDevices
<1>6. ASSUME NEW d \in Rows(device), NEW row, device' = [device EXCEPT ![d] = row],
             row.asset = device[d].asset, row.host = device[d].host
      PROVE  SameOrLess
  <2>1. \A x \in Devices : device'[x] = IF x = d THEN row ELSE device[x]
    BY <1>1, <1>6 DEF Tables
  <2>2. \A x \in Rows(device)' : x \in Devices  BY <1>1 DEF RowsInv, Tables, Rows
  <2>3. \A x \in Rows(device)' : x # d => x \in Rows(device)
    BY <1>1, <2>1, <2>2 DEF Rows, Tables
  <2> QED  BY <1>6, <2>1, <2>2, <2>3
<1>7. ASSUME NEW d \in Devices, NEW a \in Artworks, NEW s \in Satellites \cup {None},
             ReconfigureDevice(r, d) \/ MoveDevice(r, d, a, s)
      PROVE  Goal
  <2>1. d \in Rows(device) /\ device[d] \in DeviceRow
    BY <1>1, <1>7, RowsOfTables DEF ReconfigureDevice, MoveDevice
  <2>2. UNCHANGED <<asset, held, logs>>
    BY <1>7 DEF ReconfigureDevice, MoveDevice, ChangeDevice
  <2>3. CASE ReconfigureDevice(r, d)
    <3> DEFINE row == [device[d] EXCEPT !.cached = None]
    <3>1. row.asset = device[d].asset /\ row.host = device[d].host  BY <2>1, CachedField
    <3>2. device' = [device EXCEPT ![d] = row]  BY <2>3 DEF ReconfigureDevice, ChangeDevice
    <3> HIDE DEF row
    <3> QED  BY <1>2, <1>6, <2>1, <2>2, <3>1, <3>2
  <2>4. CASE MoveDevice(r, d, a, s)
    <3> DEFINE row == [device[d] EXCEPT !.artwork = a, !.satellite = s]
    <3>1. row.asset = device[d].asset /\ row.host = device[d].host  BY <2>1 DEF DeviceRow
    <3>2. device' = [device EXCEPT ![d] = row]  BY <2>4 DEF MoveDevice, ChangeDevice
    <3> HIDE DEF row
    <3> QED  BY <1>2, <1>6, <2>1, <2>2, <3>1, <3>2
  <2> QED  BY <1>7, <2>3, <2>4
<1>8. ASSUME NEW e, NEW s, NEW a,
             DeleteExhibition(r, e) \/ DeleteArtwork(r, a) \/ RevokeSatellite(r, s)
      PROVE  Goal
  <2>1. UNCHANGED <<asset, held, logs>>
    BY <1>8 DEF DeleteExhibition, DeleteArtwork, RevokeSatellite
  <2>2. CASE DeleteExhibition(r, e)  BY <1>2, <1>4, <2>1, <2>2 DEF DeleteExhibition
  <2>3. CASE DeleteArtwork(r, a)  BY <1>2, <1>4, <2>1, <2>3 DEF DeleteArtwork
  <2>4. CASE RevokeSatellite(r, s)
    <3> DEFINE D == {d \in Rows(device) : device[d].satellite = s}
    <3>1. D \in SUBSET Rows(device)  OBVIOUS
    <3>2. device' = [d \in Devices |->
             IF d \in D THEN [device[d] EXCEPT !.satellite = None] ELSE device[d]]
      BY <2>4 DEF RevokeSatellite
    <3> QED  BY <1>2, <1>5, <2>1, <3>1, <3>2
  <2> QED  BY <1>8, <2>2, <2>3, <2>4
<1>9. ASSUME NEW a \in Assets, DeleteAsset(r, a) PROVE Goal
  <2> DEFINE users == {d \in Rows(device) : device[d].asset = a}
  <2>1. /\ a \in Rows(asset) /\ asset' = [asset EXCEPT ![a] = Gone]
        /\ logs' \subseteq logs /\ UNCHANGED held
        /\ device' = [d \in Devices |->
             IF d \in users THEN [device[d] EXCEPT !.asset = None] ELSE device[d]]
    BY <1>9 DEF DeleteAsset
  <2>2. ASSUME NEW d \in Rows(device)'
        PROVE  \/ device'[d].asset = None
               \/ /\ d \in Rows(device) /\ device'[d].asset = device[d].asset
                  /\ device'[d].host = device[d].host
    <3>1. d \in Devices  BY <1>1 DEF RowsInv, Tables, Rows
    <3>2. CASE d \in users
      <4>1. device[d] \in DeviceRow /\ None \in Assets \cup {None}
        BY <1>1, <3>2, RowsOfTables
      <4>2. device'[d] = [device[d] EXCEPT !.asset = None]  BY <2>1, <3>1, <3>2
      <4> QED  BY <4>1, <4>2, AssetField
    <3>3. CASE d \notin users  BY <1>1, <2>1, <3>1, <3>3 DEF Rows, Tables
    <3> QED  BY <3>2, <3>3
  <2>3. \A b \in Assets : asset'[b] = asset[b] \/ (asset[b] # None /\ asset'[b] = Gone)
    BY <1>1, <2>1 DEF Rows, Tables
  <2> QED  BY <1>1, <2>1, <2>2, <2>3, QuietTrace DEF TraceInv
<1>10. ASSUME NEW a, AddManualLampHours(r, a) PROVE Goal
  <2>1. UNCHANGED <<asset, held, device>> /\ \A l \in logs' : l \in logs \/ l.host = None
    BY <1>10 DEF AddManualLampHours
  <2>2. SameOrLess  BY <2>1 DEF Rows
  <2> QED  BY <1>2, <2>1, <2>2
<1>11. ASSUME NEW a, NEW kind, NEW D, NEW h, NEW s, NEW x, NEW e, NEW c, NEW t, NEW S,
              \/ ChoreBegins(r, kind, D) \/ DeleteDevice(r, x) \/ UpdateHost(r, x, h)
              \/ CreateDevice(r, x, a, s, h) \/ CreateExhibition(r, e) \/ CreateArtwork(r, a, e)
              \/ MoveArtwork(r, a, e) \/ UpdateProtection(r, a, c, t)
              \/ UpdateExhibition(r, e, S) \/ CheckSatellite(r, x, a, s)
       PROVE  Goal
  BY <1>3, <1>11
  DEF ChoreBegins, DeleteDevice, UpdateHost, CreateDevice, CreateExhibition, CreateArtwork,
      MoveArtwork, UpdateProtection, UpdateExhibition, CheckSatellite, rows
<1> SUFFICES Goal  OBVIOUS
<1> HIDE DEF Goal
<1>12. CASE \E e \in Exhibitions :
             \/ CreateExhibition(r, e) \/ DeleteExhibition(r, e)
             \/ \E S \in SUBSET satellite : UpdateExhibition(r, e, S)
  BY <1>8, <1>11, <1>12
<1>13. CASE \E s \in Satellites : RevokeSatellite(r, s)  BY <1>8, <1>13
<1>14. CASE \E a \in Artworks : DeleteArtwork(r, a)  BY <1>8, <1>14
<1>15. CASE \/ \E a \in Artworks, e \in Exhibitions : CreateArtwork(r, a, e) \/ MoveArtwork(r, a, e)
            \/ \E a \in Artworks, c \in Configs \cup {None}, t \in BOOLEAN : UpdateProtection(r, a, c, t)
            \/ \E d \in Devices, a \in Artworks \cup {None}, s \in Satellites : CheckSatellite(r, d, a, s)
  BY <1>11, <1>15
<1>16. CASE \E d \in Devices : \/ ReconfigureDevice(r, d)
                               \/ \E a \in Artworks, s \in Satellites \cup {None} : MoveDevice(r, d, a, s)
  <2>1. Some(Artworks) \in Artworks /\ None \in Satellites \cup {None}
    BY SomeOfEach DEF Some
  <2> QED  BY <1>7, <1>16, <2>1
<1>17. CASE \E d \in Devices : \/ DeleteDevice(r, d) \/ \E h \in Hosts : UpdateHost(r, d, h)
                               \/ \E a \in Artworks, s \in Satellites \cup {None}, h \in Hosts :
                                    CreateDevice(r, d, a, s, h)
  BY <1>11, <1>17
<1>18. CASE \/ \E kind \in {"backfill", "initial"} : ChoreBegins(r, kind, Listed(kind))
            \/ \E a \in Rows(asset) : ChoreBegins(r, "selected", {d \in Linked : device[d].asset = a})
  BY <1>11, <1>18
<1>19. CASE \E a \in Assets : DeleteAsset(r, a) \/ AddManualLampHours(r, a)
  BY <1>9, <1>10, <1>19
<1> QED  BY <1>12, <1>13, <1>14, <1>15, <1>16, <1>17, <1>18, <1>19 DEF NewRequest

LEMMA NewRequestTrace ==
  ASSUME Inv, TraceInv, NEW r \in Admins, NewRequest(r) PROVE TraceInv'
<1>1. /\ Grows /\ DevicesHeld' /\ ReadTogether'
      /\ \A a \in Assets : asset'[a] = asset[a] \/ asset[a] # None
  BY NewRequestRowsTrace
<1>2. request[r] \in Transaction /\ TracedRequest(request[r], asset, held)
      /\ TracedRequest(request[r], asset', held')
  BY <1>1, RequestTyped, RequestTraceStays DEF Inv, TransInv, TraceInv
<1>3. ASSUME UNCHANGED <<request, job>> PROVE TraceInv'
  <2>1. MadeInv'  BY <1>1, <1>3, RequestMade DEF TraceInv
  <2> QED  BY <1>1, <1>2, <1>3, <2>1, RequestsTraced
<1>4. ASSUME NEW next, Goes(r, next), UNCHANGED <<job, rows>>, next.made = Nothing,
             next.log = {}, next.at # "onboard",
             next.seen # None /\ next.seen.asset # None => <<next.seen.asset, next.seen.host>> \in held
      PROVE  TraceInv'
  <2>1. UNCHANGED <<asset, held>>  BY <1>4 DEF rows
  <2>2. TracedRequest(next, asset', held')  BY <1>4, <2>1 DEF TracedRequest
  <2> QED  BY <1>1, <1>4, <2>1, <2>2, GoesTrace
<1>5. ASSUME NEW d \in Devices, NEW a, NEW s, NEW h, CreateDevice(r, d, a, s, h) PROVE TraceInv'
  <2> DEFINE row == [artwork |-> a, satellite |-> s, host |-> h, asset |-> None, cached |-> None]
             next == [IdleRequest EXCEPT !.at = "link", !.dev = d, !.row = row]
  <2>1. Goes(r, next) /\ UNCHANGED <<job, rows>>  BY <1>5 DEF CreateDevice
  <2>2. next.made = Nothing /\ next.log = {} /\ next.at = "link" /\ next.seen = None
    BY DEF IdleRequest
  <2> HIDE DEF next
  <2> QED  BY <1>4, <2>1, <2>2
<1>6. ASSUME NEW d \in Devices, NEW h, NEW at, at # "onboard", d \in Rows(device),
             \/ Goes(r, [IdleRequest EXCEPT !.at = at, !.dev = d, !.seen = Seen(device[d])])
             \/ Goes(r, [IdleRequest EXCEPT !.at = at, !.dev = d, !.seen = Seen(device[d]), !.to = h]),
             UNCHANGED <<job, rows>>
      PROVE  TraceInv'
  <2>1. device[d] \in DeviceRow  BY <1>6, RowsOfTables DEF Inv, RowsInv
  <2>2. Seen(device[d]).asset = device[d].asset /\ Seen(device[d]).host = device[d].host
    BY <2>1, SeenTyped
  <2>3. device[d].asset # None => <<device[d].asset, device[d].host>> \in held
    BY <1>6 DEF TraceInv, DevicesHeld
  <2> DEFINE first == [IdleRequest EXCEPT !.at = at, !.dev = d, !.seen = Seen(device[d])]
             second == [IdleRequest EXCEPT !.at = at, !.dev = d, !.seen = Seen(device[d]), !.to = h]
  <2>4. /\ first.made = Nothing /\ first.log = {} /\ first.at = at /\ first.seen = Seen(device[d])
        /\ second.made = Nothing /\ second.log = {} /\ second.at = at
        /\ second.seen = Seen(device[d])
    BY DEF IdleRequest
  <2>5. Goes(r, first) \/ Goes(r, second)  BY <1>6
  <2> HIDE DEF first, second
  <2> QED  BY <1>4, <1>6, <2>2, <2>3, <2>4, <2>5
<1>7. ASSUME NEW d \in Devices, DeleteDevice(r, d) PROVE TraceInv'
  <2>1. PICK at : /\ at \in {"offboard", "delete"}
                  /\ Goes(r, [IdleRequest EXCEPT !.at = at, !.dev = d, !.seen = Seen(device[d])])
    BY <1>7 DEF DeleteDevice
  <2>2. d \in Rows(device) /\ UNCHANGED <<job, rows>>  BY <1>7 DEF DeleteDevice
  <2> QED  BY <1>6, <2>1, <2>2
<1>8. ASSUME NEW d \in Devices, NEW h \in Hosts, UpdateHost(r, d, h) PROVE TraceInv'
  <2>1. PICK at : /\ at \in {"offboard", "update"}
                  /\ Goes(r, [IdleRequest EXCEPT !.at = at, !.dev = d, !.seen = Seen(device[d]), !.to = h])
    BY <1>8 DEF UpdateHost
  <2>2. d \in Rows(device) /\ UNCHANGED <<job, rows>>  BY <1>8 DEF UpdateHost
  <2> QED  BY <1>6, <2>1, <2>2
<1>9. ASSUME NEW kind, NEW D \in SUBSET Rows(device), ChoreBegins(r, kind, D) PROVE TraceInv'
  <2>1. r \in Workers  BY DEF Workers
  <2> QED  BY <1>9, <2>1, TakesTrace DEF ChoreBegins
<1>10. ASSUME NEW e, NEW a, NEW s, NEW x, NEW row,
              \/ CreateExhibition(r, e) \/ DeleteExhibition(r, e)
              \/ RevokeSatellite(r, s) \/ CreateArtwork(r, a, e) \/ MoveArtwork(r, a, e)
              \/ DeleteArtwork(r, a) \/ ChangeDevice(r, x, row)
              \/ DeleteAsset(r, a) \/ AddManualLampHours(r, a)
       PROVE  TraceInv'
  <2>1. UNCHANGED <<request, job>>
    BY <1>10 DEF CreateExhibition, DeleteExhibition, RevokeSatellite,
       CreateArtwork, MoveArtwork, DeleteArtwork, ChangeDevice, DeleteAsset,
       AddManualLampHours, AsksDatabase
  <2> QED  BY <1>3, <2>1
<1>11. ASSUME NEW d, NEW a, NEW s,
              ReconfigureDevice(r, d) \/ MoveDevice(r, d, a, s)
       PROVE  TraceInv'
  BY <1>10, <1>11 DEF ReconfigureDevice, MoveDevice
<1>12. \A kind \in {"backfill", "initial"} : Listed(kind) \in SUBSET Rows(device)
  BY DEF Listed, Linked
<1>13. \A a : {d \in Linked : device[d].asset = a} \in SUBSET Rows(device)
  BY DEF Linked
<1>14. ASSUME NEW e, NEW S, UpdateExhibition(r, e, S) PROVE TraceInv'
  <2> DEFINE plan == [exhibition |-> e, satellites |-> S]
             next == [IdleRequest EXCEPT !.at = "withdraw", !.read = Places, !.plan = plan]
  <2>1. Goes(r, next) /\ UNCHANGED <<job, rows>>  BY <1>14 DEF UpdateExhibition
  <2>2. next.made = Nothing /\ next.log = {} /\ next.at = "withdraw" /\ next.seen = None
    BY DEF IdleRequest
  <2> HIDE DEF next
  <2> QED  BY <1>4, <2>1, <2>2
<1>15. ASSUME NEW d, NEW a, NEW s, CheckSatellite(r, d, a, s) PROVE TraceInv'
  <2> DEFINE plan == [artwork |-> a, satellite |-> s]
             next == [IdleRequest EXCEPT !.at = "assign", !.dev = d, !.read = Places, !.plan = plan]
  <2>1. Goes(r, next) /\ UNCHANGED <<job, rows>>  BY <1>15 DEF CheckSatellite
  <2>2. next.made = Nothing /\ next.log = {} /\ next.at = "assign" /\ next.seen = None
    BY DEF IdleRequest
  <2> HIDE DEF next
  <2> QED  BY <1>4, <2>1, <2>2
<1>16. ASSUME NEW a, NEW c, NEW t, UpdateProtection(r, a, c, t) PROVE TraceInv'
  <2> DEFINE plan == [artwork |-> a, config |-> c, timeslice |-> t]
             next == [IdleRequest EXCEPT !.at = "rules", !.plan = plan]
  <2>1. Goes(r, next) /\ UNCHANGED <<job, rows>>  BY <1>16 DEF UpdateProtection
  <2>2. next.made = Nothing /\ next.log = {} /\ next.at = "rules" /\ next.seen = None
    BY DEF IdleRequest
  <2> HIDE DEF next
  <2> QED  BY <1>4, <2>1, <2>2
<1> QED  BY <1>5, <1>7, <1>8, <1>9, <1>10, <1>11, <1>12, <1>13, <1>14, <1>15, <1>16 DEF NewRequest

LEMMA NextTrace == ASSUME Inv, RulesInv, TraceInv, [Next]_vars PROVE TraceInv'
<1>1. Loop \in Workers  BY DEF Workers
<1>2. CASE LoopStep
  <2>1. ASSUME NEW kind \in Recurring, JobBegins(kind) PROVE TraceInv'
    <3>1. Listed(kind) \in SUBSET Rows(device)  BY DEF Listed, Linked, Recurring
    <3> QED  BY <1>1, <2>1, <3>1, TakesTrace DEF JobBegins
  <2>2. ASSUME NEW d \in Devices, RecordBegins(d) PROVE TraceInv'
    BY <1>1, <2>2, TakesTrace DEF RecordBegins, Linked
  <2> QED  BY <1>1, <1>2, <2>1, <2>2, ListStepTrace DEF LoopStep
<1>3. CASE Restart
  <2>1. /\ UNCHANGED rows /\ request' = [r \in Admins |-> IdleRequest]
        /\ job' = [w \in Workers |-> NoJob]
    BY <1>3 DEF Restart
  <2>2. Grows /\ DevicesHeld' /\ ReadTogether'  BY <2>1, UnchangedTrace DEF TraceInv
  <2>3. IdleRequest.made = Nothing /\ NoJob.made = Nothing  BY DEF IdleRequest, NoJob
  <2>4. MadeInv'  BY <2>1, <2>3, NothingApplies DEF MadeInv, Apart
  <2> QED  BY <2>1, <2>2, <2>4, IdleTraced, NoJobTraced DEF TraceInv
<1>4. CASE UNCHANGED vars
  <2>1. UNCHANGED rows /\ UNCHANGED <<request, job, asset, held>>  BY <1>4 DEF vars, rows
  <2>2. Grows /\ DevicesHeld' /\ ReadTogether'  BY <2>1, UnchangedTrace DEF TraceInv
  <2>3. MadeInv'  BY <2>1 DEF MadeInv, TraceInv
  <2> QED  BY <2>1, <2>2, <2>3 DEF TraceInv
<1> QED  BY <1>2, <1>3, <1>4, NewRequestTrace, RequestStepTrace DEF Next

\* An entry of the history of an asset is a reading of a host whose names carry its
\* number, or of the host a device linked to it had: however long the reading took, and
\* whatever became of the device, its host and the other lists meanwhile
\* (_record_lamp_hours_impl, link_device_to_asset in asset_service.py).
THEOREM ReadTogetherCorrect == Spec => []ReadTogether
<1>1. Init => TraceInv
  <2> SUFFICES ASSUME Init PROVE TraceInv  OBVIOUS
  <2>1. IdleRequest.made = Nothing /\ NoJob.made = Nothing  BY DEF IdleRequest, NoJob
  <2>2. MadeInv  BY <2>1, NothingApplies DEF Init, MadeInv, Apart
  <2>3. DevicesHeld
    <3> DEFINE row == [artwork |-> Some(Artworks), satellite |-> None, host |-> Some(Hosts),
                       asset |-> None, cached |-> None]
    <3>1. row.asset = None  OBVIOUS
    <3>2. device = [x \in Devices |-> IF x = Some(Devices) THEN row ELSE None]
      BY DEF Init
    <3> HIDE DEF row
    <3> QED  BY <3>1, <3>2 DEF DevicesHeld, Rows
  <2>4. ReadTogether  BY DEF Init, ReadTogether
  <2> QED  BY <2>2, <2>3, <2>4, IdleTraced, NoJobTraced DEF TraceInv, Init
<1>2. Inv /\ RulesInv /\ [Next]_vars => Inv' /\ RulesInv'  BY NextInv, NextRules
<1>3. Inv /\ RulesInv /\ TraceInv /\ [Next]_vars => TraceInv'  BY NextTrace
<1>4. TraceInv => ReadTogether  BY DEF TraceInv
<1> QED  BY InitInv, InitRules, <1>1, <1>2, <1>3, <1>4, PTL DEF Spec
=============================================================================
