-------------------------- MODULE SchedulerProofs --------------------------
(* Proofs about Scheduler, for every set of jobs and triggers, any limit   *)
(* and any number of administrative acts and lost results.                 *)
EXTENDS Scheduler, FiniteSetTheorems, TLAPS

-----------------------------------------------------------------------------
(* Types                                                                   *)

LEMMA NewRowTyped ==
  ASSUME NEW b \in BOOLEAN
  PROVE  NewRow(b) \in Row /\ NewRow(b).state = "row" /\ NewRow(b).fail_count = 0
BY DEF NewRow, Row

LEMMA NewRowUnexecuted == ASSUME NEW b PROVE ~NewRow(b).executed
BY Zenon DEF NewRow

\* What changes of a row keep.
Keeps(q, r) == q.state = r.state /\ q.executed = r.executed

LEMMA DueTyped ==
  ASSUME NEW r \in Row, NEW b \in BOOLEAN
  PROVE  LET q == [r EXCEPT !.due = b]
         IN  q \in Row /\ Keeps(q, r) /\ q.fail_count = r.fail_count
BY DEF Row, Keeps

LEMMA EnabledTyped ==
  ASSUME NEW r \in Row, NEW b \in BOOLEAN
  PROVE  LET q == [r EXCEPT !.enabled = b]
         IN  q \in Row /\ Keeps(q, r) /\ q.fail_count = r.fail_count
BY DEF Row, Keeps

LEMMA BackoffTyped ==
  ASSUME NEW r \in Row, NEW b \in BOOLEAN
  PROVE  LET q == [r EXCEPT !.backoff = b]
         IN  q \in Row /\ Keeps(q, r) /\ q.fail_count = r.fail_count
BY DEF Row, Keeps

LEMMA ResetTyped ==
  ASSUME NEW r \in Row, NEW b \in BOOLEAN, NEW c \in BOOLEAN, NEW n \in Nat
  PROVE  LET q == [r EXCEPT !.fail_count = n, !.backoff = b, !.due = c]
         IN  q \in Row /\ Keeps(q, r) /\ q.fail_count = n
BY DEF Row, Keeps

LEMMA RecordTyped ==
  ASSUME NEW r \in Row, NEW b \in BOOLEAN, NEW c \in BOOLEAN, NEW d \in BOOLEAN,
         NEW e \in BOOLEAN, NEW n \in Nat
  PROVE  [r EXCEPT !.fail_count = n, !.backoff = b, !.executed = c,
                   !.enabled = d, !.due = e] \in Row
BY DEF Row

LEMMA RecordFields ==
  ASSUME NEW r \in Row, NEW b, NEW c, NEW d, NEW e, NEW n
  PROVE  LET q == [r EXCEPT !.fail_count = n, !.backoff = b, !.executed = c,
                            !.enabled = d, !.due = e]
         IN  q.state = r.state /\ q.fail_count = n /\ q.executed = c
BY DEF Row

LEMMA InitTyped == Init => TypeOK
<1> SUFFICES ASSUME Init PROVE TypeOK  OBVIOUS
<1> USE SchedulerAssumption
<1>1. row \in [Jobs -> Row]  BY NewRowTyped DEF Init, NewRow, Row
<1>2. pc \in [Executors -> RunPC] /\ pc[Loop] \notin {"asked", "claimed"}
  BY DEF Init, RunPC, Executors
<1>3. /\ on \in [Executors -> Jobs \cup {None}]
      /\ \A e \in Executors : pc[e] = "idle" <=> on[e] = None  BY DEF Init
<1>4. ok \in [Executors -> BOOLEAN]  BY DEF Init
<1>5. /\ read \in [Executors -> Nat] /\ loopRuns \in [OneShots -> Nat]
      /\ tries \in [Jobs -> Nat] /\ admin \in 0..MaxAdmin /\ lost \in 0..MaxLost
  BY DEF Init
<1>6. /\ executing \subseteq Jobs /\ batch \subseteq Jobs
      /\ call \in [OneShots -> {"idle", "inserting", "waiting", "served"}]
  BY DEF Init
<1> QED  BY <1>1, <1>2, <1>3, <1>4, <1>5, <1>6 DEF TypeOK

\* Giving a job up, or going on to record its result, keeps the types.
LEMMA ReleaseTyped ==
  ASSUME TypeOK, NEW e \in Executors, Release(e)
  PROVE  /\ executing' \subseteq Jobs /\ batch' \subseteq Jobs
         /\ pc' \in [Executors -> RunPC] /\ pc'[Loop] \notin {"asked", "claimed"}
         /\ on' \in [Executors -> Jobs \cup {None}]
         /\ \A x \in Executors : pc'[x] = "idle" <=> on'[x] = None
         /\ ok' \in [Executors -> BOOLEAN] /\ read' \in [Executors -> Nat]
         /\ loopRuns' = loopRuns
BY SchedulerAssumption DEF TypeOK, Release, RunPC, Executors

LEMMA LoadsRowTyped ==
  ASSUME TypeOK, NEW e \in Executors, NEW b \in BOOLEAN, pc[e] \in Busy, LoadsRow(e, b)
  PROVE  /\ executing' \subseteq Jobs /\ batch' \subseteq Jobs
         /\ pc' \in [Executors -> RunPC] /\ pc'[Loop] \notin {"asked", "claimed"}
         /\ on' \in [Executors -> Jobs \cup {None}]
         /\ \A x \in Executors : pc'[x] = "idle" <=> on'[x] = None
         /\ ok' \in [Executors -> BOOLEAN] /\ read' \in [Executors -> Nat]
         /\ loopRuns' = loopRuns
<1>1. CASE Exists(on[e])
  <2>1. on[e] \in Jobs  BY DEF TypeOK, Busy
  <2>2. row[on[e]].fail_count \in Nat  BY <2>1 DEF TypeOK, Row
  <2> QED  BY <1>1, <2>2, SchedulerAssumption DEF LoadsRow, TypeOK, RunPC, Busy, Executors
<1>2. CASE ~Exists(on[e])  BY <1>2, ReleaseTyped DEF LoadsRow
<1> QED  BY <1>1, <1>2

LEMMA RecordedTyped ==
  ASSUME TypeOK, NEW j \in Jobs, NEW b \in BOOLEAN, NEW n \in Nat
  PROVE  /\ Recorded(j, b, n) \in Row
         /\ Recorded(j, b, n).state = row[j].state
         /\ Recorded(j, b, n).executed = (j \in OneShots)
         /\ Recorded(j, b, n).fail_count = IF b THEN 0 ELSE n + 1
<1> DEFINE count == IF b THEN 0 ELSE n + 1
           over == j \in OneShots
           enabled == row[j].enabled /\ j \notin OneShots
           due == row[j].due /\ j \in OneShots
           failed == ~b
<1>1. count \in Nat  OBVIOUS
<1>2. row[j] \in Row  BY DEF TypeOK
<1>3. failed \in BOOLEAN /\ over \in BOOLEAN /\ enabled \in BOOLEAN /\ due \in BOOLEAN
  OBVIOUS
<1>4. Recorded(j, b, n) =
           [row[j] EXCEPT !.fail_count = count, !.backoff = failed, !.executed = over,
                          !.enabled = enabled, !.due = due]
  BY DEF Recorded
<1> HIDE DEF count, failed, over, enabled, due
<1>5. Recorded(j, b, n) \in Row
  <2>1. [row[j] EXCEPT !.fail_count = count, !.backoff = failed, !.executed = over,
                       !.enabled = enabled, !.due = due] \in Row
    BY <1>1, <1>2, <1>3, RecordTyped
  <2> QED  BY <1>4, <2>1, Zenon
<1>6. /\ Recorded(j, b, n).state = row[j].state
      /\ Recorded(j, b, n).fail_count = count
      /\ Recorded(j, b, n).executed = over
  BY <1>2, <1>4, RecordFields
<1> QED  BY <1>5, <1>6 DEF count, over

LEMMA DeletesTyped ==
  ASSUME TypeOK, NEW j \in Jobs, Deletes(j)
  PROVE  row' \in [Jobs -> Row] /\ tries' \in [Jobs -> Nat]
<1>1. [NewRow(FALSE) EXCEPT !.state = "gone", !.executed = row[j].executed] \in Row
  BY DEF TypeOK, NewRow, Row
<1> QED  BY <1>1 DEF TypeOK, Deletes, Change

LEMMA NextTyped == TypeOK /\ [Next]_vars => TypeOK'
<1> SUFFICES ASSUME TypeOK, [Next]_vars PROVE TypeOK'  OBVIOUS
<1> USE SchedulerAssumption
<1>1. CASE LoopSelects
  BY <1>1 DEF LoopSelects, TypeOK, store, bounds
<1>2. ASSUME NEW j \in Jobs, LoopSkips(j) PROVE TypeOK'
  BY <1>2 DEF LoopSkips, TypeOK, store, bounds
<1>3. ASSUME NEW j \in Jobs, LoopStarts(j) PROVE TypeOK'
  <2>1. loopRuns' \in [OneShots -> Nat]  BY <1>3 DEF LoopStarts, TypeOK
  <2> QED  BY <1>3, <2>1 DEF LoopStarts, TypeOK, RunPC, Executors, Jobs, store, bounds
<1>4. ASSUME NEW t \in Triggers, NEW j \in Jobs, TriggerAsks(t, j) PROVE TypeOK'
  BY <1>4 DEF TriggerAsks, Administer, TypeOK, RunPC, Executors, Jobs, store
<1>5. ASSUME NEW t \in Triggers, TriggerRefused(t) PROVE TypeOK'
  BY <1>5 DEF TriggerRefused, TypeOK, RunPC, Executors, store, bounds
<1>6. ASSUME NEW t \in Triggers, TriggerClaims(t) PROVE TypeOK'
  BY <1>6 DEF TriggerClaims, TypeOK, RunPC, Executors, store, bounds
<1>7. ASSUME NEW t \in Triggers, TriggerLoads(t) PROVE TypeOK'
  <2>1. t \in Executors  BY DEF Executors
  <2>2. CASE Exists(on[t])
    BY <1>7, <2>1, <2>2 DEF TriggerLoads, TypeOK, RunPC, Executors, store, bounds
  <2>3. CASE ~Exists(on[t])
    BY <1>7, <2>1, <2>3, ReleaseTyped DEF TriggerLoads, TypeOK, store, bounds
  <2> QED  BY <2>2, <2>3
<1>8. ASSUME NEW t \in Triggers, TriggerLoadFails(t) PROVE TypeOK'
  <2>1. t \in Executors /\ pc[t] \in Busy  BY <1>8 DEF TriggerLoadFails, Executors, Busy
  <2>2. lost' \in 0..MaxLost  BY <1>8 DEF TriggerLoadFails, Lose, TypeOK
  <2> QED  BY <1>8, <2>1, <2>2, LoadsRowTyped DEF TriggerLoadFails, TypeOK, store
<1>9. ASSUME NEW e \in Executors, NEW b \in BOOLEAN, RunEnds(e, b) PROVE TypeOK'
  <2>1. pc[e] \in Busy  BY <1>9 DEF RunEnds, Busy
  <2> QED  BY <1>9, <2>1, LoadsRowTyped DEF RunEnds, TypeOK, store, bounds
<1>10. ASSUME NEW e \in Executors, Records(e) PROVE TypeOK'
  <2>1. on[e] \in Jobs  BY <1>10 DEF Records, TypeOK
  <2>2. row' \in [Jobs -> Row] /\ tries' \in [Jobs -> Nat]
    <3>1. ok[e] \in BOOLEAN /\ read[e] \in Nat  BY DEF TypeOK
    <3>2. Recorded(on[e], ok[e], read[e]) \in Row  BY <2>1, <3>1, RecordedTyped
    <3> QED  BY <1>10, <2>1, <3>2 DEF Records, TypeOK, store
  <2>3. call' \in [OneShots -> {"idle", "inserting", "waiting", "served"}]
    BY <1>10 DEF Records, TypeOK
  <2> QED  BY <1>10, <2>2, <2>3, ReleaseTyped DEF Records, TypeOK, bounds
<1>11. ASSUME NEW e \in Executors, RecordFails(e) PROVE TypeOK'
  <2>1. lost' \in 0..MaxLost  BY <1>11 DEF RecordFails, Lose, TypeOK
  <2> QED  BY <1>11, <2>1, ReleaseTyped DEF RecordFails, TypeOK, store
<1>12. ASSUME NEW o \in OneShots, CallLooks(o) PROVE TypeOK'
  BY <1>12 DEF CallLooks, TypeOK, store, runs, bounds
<1>13. ASSUME NEW o \in OneShots, CallInserts(o) PROVE TypeOK'
  BY <1>13, NewRowTyped DEF CallInserts, TypeOK, Jobs, runs, bounds
<1>14. ASSUME NEW o \in OneShots, CleanUp(o) PROVE TypeOK'
  BY <1>14, DeletesTyped DEF CleanUp, Deletes, Change, TypeOK, Jobs, runs
<1>15. ASSUME NEW j \in Jobs, NEW b \in BOOLEAN, Create(j, b) PROVE TypeOK'
  BY <1>15, NewRowTyped DEF Create, Change, Administer, TypeOK, runs
<1>16. ASSUME NEW j \in Jobs, NEW b \in BOOLEAN, SetEnabled(j, b) PROVE TypeOK'
  <2>1. [row[j] EXCEPT !.enabled = b] \in Row  BY EnabledTyped DEF TypeOK
  <2> QED  BY <1>16, <2>1 DEF SetEnabled, Change, Administer, TypeOK, runs
<1>17. ASSUME NEW j \in Jobs, ResetCircuit(j) PROVE TypeOK'
  <2>1. [row[j] EXCEPT !.fail_count = 0, !.backoff = FALSE, !.due = TRUE] \in Row
    BY ResetTyped DEF TypeOK
  <2> QED  BY <1>17, <2>1 DEF ResetCircuit, Change, Administer, TypeOK, runs
<1>18. ASSUME NEW j \in Jobs, Reschedule(j) PROVE TypeOK'
  <2>1. [row[j] EXCEPT !.due = FALSE] \in Row  BY DueTyped DEF TypeOK
  <2> QED  BY <1>18, <2>1 DEF Reschedule, Change, Administer, TypeOK, runs
<1>19. ASSUME NEW j \in Jobs, Delete(j) PROVE TypeOK'
  <2>1. Deletes(j) /\ UNCHANGED <<runs, call, lost>>  BY <1>19 DEF Delete, Deletes, Change
  <2>2. row' \in [Jobs -> Row] /\ tries' \in [Jobs -> Nat]  BY <2>1, DeletesTyped
  <2>3. admin' \in 0..MaxAdmin  BY <1>19 DEF Delete, Administer, TypeOK
  <2> QED  BY <2>1, <2>2, <2>3 DEF TypeOK, runs
<1>20. ASSUME NEW j \in Jobs, SlotComes(j) PROVE TypeOK'
  <2>1. [row[j] EXCEPT !.due = TRUE] \in Row  BY DueTyped DEF TypeOK
  <2> QED  BY <1>20, <2>1 DEF SlotComes, Change, TypeOK, runs
<1>21. ASSUME NEW j \in Jobs, BackoffEnds(j) PROVE TypeOK'
  <2>1. [row[j] EXCEPT !.backoff = FALSE] \in Row  BY BackoffTyped DEF TypeOK
  <2> QED  BY <1>21, <2>1 DEF BackoffEnds, Change, TypeOK, runs
<1>22. CASE Restart
  <2>1. row' \in [Jobs -> Row]
    <3>1. \A j \in Jobs : [row[j] EXCEPT !.due = FALSE] \in Row  BY DueTyped DEF TypeOK
    <3> QED  BY <1>22, <3>1, NewRowTyped DEF Restart, TypeOK
  <2>2. lost' \in 0..MaxLost  BY <1>22 DEF Restart, Lose, TypeOK
  <2>3. /\ pc' \in [Executors -> RunPC] /\ pc'[Loop] \notin {"asked", "claimed"}
        /\ on' \in [Executors -> Jobs \cup {None}]
        /\ \A e \in Executors : pc'[e] = "idle" <=> on'[e] = None
    BY <1>22 DEF Restart, RunPC, Executors
  <2>4. call' \in [OneShots -> {"idle", "inserting", "waiting", "served"}]
    BY <1>22 DEF Restart, TypeOK
  <2> QED  BY <1>22, <2>1, <2>2, <2>3, <2>4 DEF Restart, TypeOK
<1>23. CASE UNCHANGED vars
  BY <1>23 DEF TypeOK, vars, store, runs, bounds
<1> QED  BY <1>1, <1>2, <1>3, <1>4, <1>5, <1>6, <1>7, <1>8, <1>9, <1>10, <1>11, <1>12,
            <1>13, <1>14, <1>15, <1>16, <1>17, <1>18, <1>19, <1>20, <1>21, <1>22, <1>23
         DEF Next, LoopStep, TriggerStep, RunStep, AdminStep, TimeStep

\* Every variable of the scheduler keeps its type, and an executor has a job exactly
\* while it is not idle.
THEOREM TypeCorrect == Spec => []TypeOK
<1> QED  BY InitTyped, NextTyped, PTL DEF Spec

-----------------------------------------------------------------------------
(* One run per job                                                         *)

LEMMA ReleaseOne ==
  ASSUME TypeOK, OneRunPerJob, NEW e \in Executors, pc[e] \in Busy, Release(e)
  PROVE  OneRunPerJob'
<1>1. \A d \in Executors : pc'[d] \in Busy <=> pc[d] \in Busy /\ d # e
  BY DEF Release, TypeOK, Busy
<1>2. \A d \in Executors : pc'[d] \in Busy => on'[d] = on[d]
  BY <1>1 DEF Release, TypeOK
<1>3. executing' = executing \ {on[e]}  BY DEF Release
<1> QED  BY <1>1, <1>2, <1>3 DEF OneRunPerJob

LEMMA LoadsRowOne ==
  ASSUME TypeOK, OneRunPerJob, NEW e \in Executors, NEW b \in BOOLEAN, pc[e] \in Busy,
         LoadsRow(e, b)
  PROVE  OneRunPerJob'
<1>1. CASE Exists(on[e])
  <2>1. \A d \in Executors : pc'[d] \in Busy <=> pc[d] \in Busy
    BY <1>1 DEF LoadsRow, TypeOK, Busy
  <2> QED  BY <1>1, <2>1 DEF LoadsRow, OneRunPerJob
<1>2. CASE ~Exists(on[e])  BY <1>2, ReleaseOne DEF LoadsRow
<1> QED  BY <1>1, <1>2

\* Taking up a job that nobody executes.
LEMMA TakesOne ==
  ASSUME TypeOK, OneRunPerJob, NEW e \in Executors, NEW j \in Jobs, pc[e] \notin Busy,
         j \notin executing, executing' = executing \cup {j}, on' = [on EXCEPT ![e] = j],
         NEW p \in Busy, pc' = [pc EXCEPT ![e] = p]
  PROVE  OneRunPerJob'
<1>1. /\ pc'[e] \in Busy /\ on'[e] = j
      /\ \A d \in Executors \ {e} : pc'[d] = pc[d] /\ on'[d] = on[d]
  BY DEF TypeOK
<1>2. executing' = {on'[d] : d \in {x \in Executors : pc'[x] \in Busy}}
  BY <1>1 DEF OneRunPerJob
<1>3. \A d \in Executors : pc[d] \in Busy => on[d] # j  BY DEF OneRunPerJob
<1> QED  BY <1>1, <1>2, <1>3 DEF OneRunPerJob

LEMMA NextOne == TypeOK /\ OneRunPerJob /\ [Next]_vars => OneRunPerJob'
<1> SUFFICES ASSUME TypeOK, OneRunPerJob, [Next]_vars PROVE OneRunPerJob'  OBVIOUS
<1>1. ASSUME UNCHANGED <<executing, pc, on>> PROVE OneRunPerJob'
  BY <1>1 DEF OneRunPerJob
<1>2. CASE LoopSelects \/ \E j \in Jobs : LoopSkips(j)
  BY <1>1, <1>2 DEF LoopSelects, LoopSkips
<1>3. ASSUME NEW j \in Jobs, LoopStarts(j) PROVE OneRunPerJob'
  BY <1>3, TakesOne DEF LoopStarts, Busy, Executors
<1>4. ASSUME NEW t \in Triggers, NEW j \in Jobs, TriggerAsks(t, j) PROVE OneRunPerJob'
  <2>1. /\ executing' = executing
        /\ \A d \in Executors : pc'[d] \in Busy <=> pc[d] \in Busy
        /\ \A d \in Executors : pc[d] \in Busy => on'[d] = on[d]
    BY <1>4 DEF TriggerAsks, TypeOK, Busy, Executors
  <2> QED  BY <2>1 DEF OneRunPerJob
<1>5. ASSUME NEW t \in Triggers, TriggerRefused(t) PROVE OneRunPerJob'
  <2>1. /\ executing' = executing
        /\ \A d \in Executors : pc'[d] \in Busy <=> pc[d] \in Busy
        /\ \A d \in Executors : pc[d] \in Busy => on'[d] = on[d]
    BY <1>5 DEF TriggerRefused, TypeOK, Busy, Executors
  <2> QED  BY <2>1 DEF OneRunPerJob
<1>6. ASSUME NEW t \in Triggers, TriggerClaims(t) PROVE OneRunPerJob'
  <2>1. t \in Executors /\ on[t] \in Jobs  BY <1>6 DEF TriggerClaims, TypeOK, Executors
  <2>2. on' = [on EXCEPT ![t] = on[t]]  BY <1>6 DEF TriggerClaims, TypeOK
  <2> QED  BY <1>6, <2>1, <2>2, TakesOne DEF TriggerClaims, Busy
<1>7. ASSUME NEW t \in Triggers, TriggerLoads(t) PROVE OneRunPerJob'
  <2>1. t \in Executors /\ pc[t] \in Busy  BY <1>7 DEF TriggerLoads, Executors, Busy
  <2>2. CASE Exists(on[t])
    <3>1. \A d \in Executors : pc'[d] \in Busy <=> pc[d] \in Busy
      BY <1>7, <2>1, <2>2 DEF TriggerLoads, TypeOK, Busy
    <3> QED  BY <1>7, <2>2, <3>1 DEF TriggerLoads, OneRunPerJob
  <2>3. CASE ~Exists(on[t])  BY <1>7, <2>1, <2>3, ReleaseOne DEF TriggerLoads
  <2> QED  BY <2>2, <2>3
<1>8. ASSUME NEW t \in Triggers, TriggerLoadFails(t) PROVE OneRunPerJob'
  BY <1>8, LoadsRowOne DEF TriggerLoadFails, Executors, Busy
<1>9. ASSUME NEW e \in Executors, NEW b \in BOOLEAN, RunEnds(e, b) PROVE OneRunPerJob'
  BY <1>9, LoadsRowOne DEF RunEnds, Busy
<1>10. ASSUME NEW e \in Executors, Records(e) \/ RecordFails(e) PROVE OneRunPerJob'
  BY <1>10, ReleaseOne DEF Records, RecordFails, Busy
<1>11. CASE \E o \in OneShots : CallLooks(o) \/ CallInserts(o) \/ CleanUp(o)
  BY <1>1, <1>11 DEF CallLooks, CallInserts, CleanUp, Deletes, Change, runs
<1>12. CASE \E j \in Jobs : AdminStep(j) \/ TimeStep(j)
  BY <1>1, <1>12 DEF AdminStep, TimeStep, Create, SetEnabled, ResetCircuit, Reschedule,
                     Delete, Deletes, SlotComes, BackoffEnds, Change, runs
<1>13. CASE Restart
  <2>1. \A d \in Executors : pc'[d] \notin Busy  BY <1>13 DEF Restart, Busy
  <2> QED  BY <1>13, <2>1 DEF Restart, OneRunPerJob
<1>14. CASE UNCHANGED vars  BY <1>1, <1>14 DEF vars, runs
<1> QED  BY <1>2, <1>3, <1>4, <1>5, <1>6, <1>7, <1>8, <1>9, <1>10, <1>11, <1>12, <1>13, <1>14
         DEF Next, LoopStep, TriggerStep, RunStep

LEMMA InitOne == Init => OneRunPerJob
BY DEF Init, OneRunPerJob, Busy

\* No job runs twice at a time and none stays marked as executing, for any number of
\* concurrent triggers.
THEOREM OneRunPerJobCorrect == Spec => []OneRunPerJob
<1> QED  BY InitOne, InitTyped, NextTyped, NextOne, PTL DEF Spec

-----------------------------------------------------------------------------
(* One-shots                                                               *)

\* What the loop has in hand exists or has existed, and is not in its batch again.
Hands ==
  /\ on[Loop] \notin batch
  /\ \A o \in OneShots : call[o] = "inserting" => row[o].state = "new"
  /\ \A o \in OneShots : row[o].state = "new" =>
       ~row[o].executed /\ o \notin batch /\ on[Loop] # o

\* A one-shot the loop may still start was started no more often than results got lost.
Unspent(o) == \/ o \in batch
              \/ row[o].state # "gone" /\ ~row[o].executed /\ on[Loop] # o
OnceInv == Hands /\ \A o \in OneShots : /\ loopRuns[o] <= 1 + lost
                                        /\ Unspent(o) => loopRuns[o] <= lost

LEMMA ReleaseHands ==
  ASSUME TypeOK, Hands, NEW e \in Executors, Release(e)
  PROVE  batch' = batch /\ on'[Loop] \in {on[Loop], None}
BY DEF Release, TypeOK, Executors

\* A step that leaves the rows alone, and the loop its job.
LEMMA StaysOnce ==
  ASSUME TypeOK, OnceInv, UNCHANGED <<row, batch, call, loopRuns>>,
         on'[Loop] = on[Loop], lost' \in Nat, lost' >= lost
  PROVE  OnceInv'
<1>1. Hands' /\ \A o \in OneShots : Unspent(o)' => Unspent(o)
  BY DEF OnceInv, Hands, Unspent
<1>2. lost \in Nat /\ \A o \in OneShots : loopRuns[o] \in Nat
  BY SchedulerAssumption DEF TypeOK
<1> QED  BY <1>1, <1>2 DEF OnceInv

\* The loop gives up its job, without a recorded result only if the row is gone or the
\* result is lost.
LEMMA EndsOnce ==
  ASSUME TypeOK, OnceInv, UNCHANGED <<row, batch, call, loopRuns>>, on'[Loop] = None,
         lost' \in Nat, lost' >= lost, lost' = lost + 1 \/ ~Exists(on[Loop])
  PROVE  OnceInv'
<1>1. batch \subseteq Jobs /\ None \notin Jobs  BY SchedulerAssumption DEF TypeOK
<1>2. Hands'  BY <1>1 DEF OnceInv, Hands, Jobs
<1>3. lost \in Nat  BY SchedulerAssumption DEF TypeOK
<1>4. ASSUME NEW o \in OneShots
      PROVE  loopRuns'[o] <= 1 + lost' /\ (Unspent(o)' => loopRuns'[o] <= lost')
  <2>1. loopRuns[o] \in Nat /\ loopRuns' = loopRuns  BY DEF TypeOK
  <2>2. loopRuns[o] <= 1 + lost /\ (Unspent(o) => loopRuns[o] <= lost)  BY DEF OnceInv
  <2>3. row[o].state \in {"new", "row", "gone"}  BY DEF TypeOK, Row, Jobs
  <2>4. lost' = lost + 1 \/ (Unspent(o)' => Unspent(o))
    BY <2>3 DEF Unspent, OnceInv, Hands, Exists
  <2> QED  BY <1>3, <2>1, <2>2, <2>4
<1> QED  BY <1>2, <1>4 DEF OnceInv

\* A step that changes rows but nothing else that matters here.
LEMMA RowsOnce ==
  ASSUME TypeOK, OnceInv, UNCHANGED <<runs, lost>>,
         \A o \in OneShots :
           /\ row'[o].executed = row[o].executed
           /\ row[o].state = "gone" => row'[o].state = "gone"
           /\ row'[o].state = "new" => row[o].state = "new"
           /\ call'[o] = "inserting" => row'[o].state = "new"
  PROVE  OnceInv'
<1>1. Hands'  BY DEF OnceInv, Hands, runs
<1>2. \A o \in OneShots : Unspent(o)' => Unspent(o)  BY DEF Unspent, runs
<1> QED  BY <1>1, <1>2 DEF OnceInv, runs

LEMMA NextOnce == TypeOK /\ OnceInv /\ [Next]_vars => OnceInv'
<1> SUFFICES ASSUME TypeOK, OnceInv, [Next]_vars PROVE OnceInv'  OBVIOUS
<1> USE SchedulerAssumption
<1>0. lost \in Nat /\ Loop \in Executors /\ on[Loop] \in Jobs \cup {None}
  BY DEF TypeOK, Executors
<1>1. CASE LoopSelects
  <2>1. on[Loop] = None  BY <1>1, <1>0 DEF LoopSelects, TypeOK
  <2>2. Hands'  BY <1>1, <2>1 DEF LoopSelects, OnceInv, Hands, IsDue, Exists, store, Jobs
  <2>3. ASSUME NEW o \in OneShots, Unspent(o)' PROVE Unspent(o)
    BY <1>1, <2>1, <2>3 DEF LoopSelects, Unspent, IsDue, Exists, store, Jobs
  <2> QED  BY <1>1, <2>2, <2>3 DEF LoopSelects, OnceInv, bounds
<1>2. ASSUME NEW j \in Jobs, LoopSkips(j) PROVE OnceInv'
  BY <1>2 DEF LoopSkips, OnceInv, Hands, Unspent, store, bounds
<1>3. ASSUME NEW j \in Jobs, LoopStarts(j) PROVE OnceInv'
  <2>1. on'[Loop] = j /\ on[Loop] = None /\ j \in batch /\ batch' = batch \ {j}
    BY <1>3, <1>0 DEF LoopStarts, TypeOK
  <2>2. Hands'  BY <1>3, <2>1 DEF LoopStarts, OnceInv, Hands, store
  <2>3. ASSUME NEW o \in OneShots
        PROVE  loopRuns'[o] <= 1 + lost' /\ (Unspent(o)' => loopRuns'[o] <= lost')
    <3>1. /\ loopRuns'[o] = loopRuns[o] + IF o = j THEN 1 ELSE 0
          /\ loopRuns[o] \in Nat /\ lost' = lost
      BY <1>3 DEF LoopStarts, TypeOK, bounds
    <3>2. loopRuns[o] <= 1 + lost /\ (Unspent(o) => loopRuns[o] <= lost)  BY DEF OnceInv
    <3>3. CASE o = j
      <4>1. Unspent(o)  BY <2>1, <3>3 DEF Unspent
      <4>2. ~Unspent(o)'
        BY <1>3, <2>1, <3>3 DEF Unspent
      <4> QED  BY <1>0, <3>1, <3>2, <3>3, <4>1, <4>2
    <3>4. CASE o # j
      <4>1. Unspent(o)' => Unspent(o)  BY <1>3, <2>1, <3>4 DEF LoopStarts, Unspent, store, Jobs
      <4> QED  BY <1>0, <3>1, <3>2, <3>4, <4>1
    <3> QED  BY <3>3, <3>4
  <2> QED  BY <2>2, <2>3 DEF OnceInv
<1>4. ASSUME NEW t \in Triggers,
             TriggerRefused(t) \/ TriggerClaims(t) \/ \E j \in Jobs : TriggerAsks(t, j)
      PROVE  OnceInv'
  <2>1. on'[Loop] = on[Loop]
    BY <1>4 DEF TriggerRefused, TriggerClaims, TriggerAsks, TypeOK, Executors
  <2>2. UNCHANGED <<row, batch, call, loopRuns, lost>>
    BY <1>4 DEF TriggerRefused, TriggerClaims, TriggerAsks, store, bounds
  <2> QED  BY <1>0, <2>1, <2>2, StaysOnce
<1>5. ASSUME NEW t \in Triggers, TriggerLoads(t) \/ TriggerLoadFails(t) PROVE OnceInv'
  <2>1. on'[Loop] = on[Loop] /\ batch' = batch /\ loopRuns' = loopRuns
    BY <1>5 DEF TriggerLoads, TriggerLoadFails, LoadsRow, Release, TypeOK, Executors
  <2>2. UNCHANGED <<row, call>> /\ lost' \in {lost, lost + 1}
    BY <1>5 DEF TriggerLoads, TriggerLoadFails, Lose, store, bounds
  <2>3. lost' \in Nat /\ lost' >= lost  BY <1>0, <2>2
  <2> QED  BY <2>1, <2>2, <2>3, StaysOnce
<1>6. ASSUME NEW e \in Executors, NEW b \in BOOLEAN, RunEnds(e, b) PROVE OnceInv'
  <2>1. UNCHANGED <<row, call, lost>>  BY <1>6 DEF RunEnds, store, bounds
  <2>2. CASE Exists(on[e])
    <3>1. UNCHANGED <<batch, loopRuns, on>>  BY <1>6, <2>2 DEF RunEnds, LoadsRow
    <3> QED  BY <1>0, <2>1, <3>1, StaysOnce
  <2>3. CASE ~Exists(on[e])
    <3>1. /\ UNCHANGED <<batch, loopRuns>>
          /\ on'[Loop] = IF e = Loop THEN None ELSE on[Loop]
      BY <1>6, <1>0, <2>3 DEF RunEnds, LoadsRow, Release, TypeOK
    <3>2. CASE e = Loop  BY <1>0, <2>1, <2>3, <3>1, <3>2, EndsOnce
    <3>3. CASE e # Loop  BY <1>0, <2>1, <3>1, <3>3, StaysOnce
    <3> QED  BY <3>2, <3>3
  <2> QED  BY <2>2, <2>3
<1>7. ASSUME NEW e \in Executors, Records(e) PROVE OnceInv'
  <2>1. /\ batch' = batch /\ loopRuns' = loopRuns /\ lost' = lost
        /\ on'[Loop] = IF e = Loop THEN None ELSE on[Loop]
    BY <1>7, <1>0 DEF Records, Release, TypeOK, bounds
  <2>2. on[e] \in Jobs  BY <1>7 DEF Records, TypeOK
  <2>3. CASE ~Exists(on[e])
    <3>1. UNCHANGED <<row, call>>  BY <1>7, <2>3 DEF Records, store
    <3>2. CASE e = Loop  BY <1>0, <2>1, <2>3, <3>1, <3>2, EndsOnce
    <3>3. CASE e # Loop  BY <1>0, <2>1, <3>1, <3>3, StaysOnce
    <3> QED  BY <3>2, <3>3
  <2>4. CASE Exists(on[e])
    <3>1. \A j \in Jobs : j # on[e] => row'[j] = row[j]
      BY <1>7, <2>2, <2>4 DEF Records, TypeOK
    <3>2. row'[on[e]].state = "row" /\ (on[e] \in OneShots => row'[on[e]].executed)
      <4>1. ok[e] \in BOOLEAN /\ read[e] \in Nat  BY DEF TypeOK
      <4>2. row'[on[e]] = Recorded(on[e], ok[e], read[e])
        BY <1>7, <2>2, <2>4 DEF Records, TypeOK
      <4>3. /\ Recorded(on[e], ok[e], read[e]).state = row[on[e]].state
            /\ Recorded(on[e], ok[e], read[e]).executed = (on[e] \in OneShots)
        BY <2>2, <4>1, RecordedTyped
      <4> QED  BY <2>4, <4>2, <4>3 DEF Exists
    <3>3. \A o \in OneShots : call'[o] = "inserting" => call[o] = "inserting" /\ o # on[e]
      BY <1>7, <2>4 DEF Records, OnceInv, Hands, Exists, TypeOK
    <3>4. None \notin batch  BY DEF TypeOK
    <3>5. Hands'  BY <2>1, <3>1, <3>2, <3>3, <3>4 DEF OnceInv, Hands, Jobs
    <3>6. ASSUME NEW o \in OneShots, Unspent(o)' PROVE Unspent(o)
      BY <2>1, <3>1, <3>2, <3>6 DEF Unspent, Jobs
    <3> QED  BY <2>1, <3>5, <3>6 DEF OnceInv
  <2> QED  BY <2>3, <2>4
<1>8. ASSUME NEW e \in Executors, RecordFails(e) PROVE OnceInv'
  <2>1. /\ batch' = batch /\ loopRuns' = loopRuns
        /\ on'[Loop] = on[Loop] \/ on'[Loop] = None
    BY <1>8, <1>0 DEF RecordFails, Release, TypeOK
  <2>2. UNCHANGED <<row, call>> /\ lost' = lost + 1  BY <1>8 DEF RecordFails, Lose, store
  <2>3. lost' \in Nat /\ lost' >= lost  BY <1>0, <2>2
  <2> QED  BY <2>1, <2>2, <2>3, StaysOnce, EndsOnce
<1>9. ASSUME NEW o \in OneShots, CallLooks(o) PROVE OnceInv'
  BY <1>9, RowsOnce DEF CallLooks, OnceInv, Hands, TypeOK, store, bounds
<1>10. ASSUME NEW o \in OneShots, CallInserts(o) PROVE OnceInv'
  <2>1. row[o].state = "new" /\ ~row[o].executed  BY <1>10 DEF CallInserts, OnceInv, Hands
  <2>2. row'[o].state = "row" /\ ~row'[o].executed
    BY <1>10, NewRowTyped, NewRowUnexecuted DEF CallInserts, TypeOK, Jobs
  <2>3. /\ \A p \in OneShots \ {o} : row'[p] = row[p] /\ call'[p] = call[p]
        /\ call'[o] = "waiting"
    BY <1>10 DEF CallInserts, TypeOK, Jobs
  <2>4. row'[o].executed = row[o].executed
    <3>1. row'[o].executed \in BOOLEAN /\ row[o].executed \in BOOLEAN
      BY NextTyped DEF TypeOK, Row, Jobs
    <3> QED  BY <2>1, <2>2, <3>1, Zenon
  <2> QED  BY <1>10, <2>1, <2>2, <2>3, <2>4, RowsOnce
           DEF CallInserts, OnceInv, Hands, bounds
<1>11. ASSUME NEW j \in Jobs, Deletes(j) PROVE OnceInv'
  <2>1. row' = [row EXCEPT ![j] =
                  [NewRow(FALSE) EXCEPT !.state = "gone", !.executed = row[j].executed]]
    BY <1>11 DEF Deletes, Change
  <2>2. row'[j].state = "gone" /\ row'[j].executed = row[j].executed
    BY <2>1 DEF NewRow, TypeOK
  <2>3. \A o \in Jobs \ {j} : row'[o] = row[o]  BY <2>1 DEF TypeOK
  <2>4. row[j].state = "row"  BY <1>11 DEF Deletes, Exists
  <2> QED  BY <1>11, <2>2, <2>3, <2>4, RowsOnce DEF Deletes, Change, OnceInv, Hands, Jobs
<1>12. ASSUME NEW j \in Jobs, NEW b \in BOOLEAN, Create(j, b) PROVE OnceInv'
  <2>1. row[j].state = "new" /\ (j \in OneShots => call[j] = "idle" /\ ~row[j].executed)
    BY <1>12 DEF Create, OnceInv, Hands
  <2>2. row'[j].state = "row" /\ ~row'[j].executed
    BY <1>12, NewRowTyped, NewRowUnexecuted DEF Create, Change, TypeOK
  <2>3. \A p \in OneShots \ {j} : row'[p] = row[p]
    BY <1>12 DEF Create, Change, TypeOK, Jobs
  <2>4. j \in OneShots => row'[j].executed = row[j].executed
    <3>1. row'[j].executed \in BOOLEAN /\ row[j].executed \in BOOLEAN
      BY NextTyped DEF TypeOK, Row
    <3> QED  BY <2>1, <2>2, <3>1, Zenon
  <2> QED  BY <1>12, <2>1, <2>2, <2>3, <2>4, RowsOnce DEF Create, Change, OnceInv, Hands
<1>13. ASSUME NEW j \in Jobs, NEW r, Exists(j), Change(j, r), Keeps(r, row[j])
       PROVE  OnceInv'
  BY <1>13, RowsOnce DEF Keeps, Change, Exists, OnceInv, Hands, TypeOK, Jobs
<1>14. ASSUME NEW j \in Jobs, TimeStep(j) \/ ResetCircuit(j) \/ Reschedule(j)
              \/ \E b \in BOOLEAN : SetEnabled(j, b)
       PROVE  OnceInv'
  <2>1. row[j] \in Row  BY DEF TypeOK
  <2> QED  BY <1>13, <1>14, <2>1, DueTyped, BackoffTyped, ResetTyped, EnabledTyped
           DEF TimeStep, SlotComes, BackoffEnds, ResetCircuit, Reschedule, SetEnabled
<1>15. CASE Restart
  <2>1. on'[Loop] = None /\ batch' = {} /\ loopRuns' = loopRuns /\ lost' = lost + 1
    BY <1>15, <1>0 DEF Restart, Lose
  <2>2. \A o \in OneShots : row'[o] = row[o]  BY <1>15 DEF Restart, Jobs
  <2>3. \A o \in OneShots : call'[o] # "inserting"  BY <1>15 DEF Restart
  <2>4. Hands'  BY <2>1, <2>2, <2>3 DEF OnceInv, Hands, Jobs
  <2>5. \A o \in OneShots : loopRuns[o] \in Nat /\ loopRuns[o] <= 1 + lost
    BY DEF TypeOK, OnceInv
  <2> QED  BY <1>0, <2>1, <2>4, <2>5 DEF OnceInv
<1>16. CASE UNCHANGED vars
  BY <1>16 DEF vars, store, runs, bounds, OnceInv, Hands, Unspent
<1>17. CASE \E j \in Jobs : AdminStep(j) \/ TimeStep(j)
  BY <1>11, <1>12, <1>14, <1>17 DEF AdminStep, Delete
<1>18. CASE \E o \in OneShots : CallLooks(o) \/ CallInserts(o) \/ CleanUp(o)
  BY <1>9, <1>10, <1>11, <1>18 DEF CleanUp, Jobs
<1> QED  BY <1>1, <1>2, <1>3, <1>4, <1>5, <1>6, <1>7, <1>8, <1>15, <1>16, <1>17, <1>18
         DEF Next, LoopStep, TriggerStep, RunStep

LEMMA InitOnce == Init => OnceInv
<1> SUFFICES ASSUME Init PROVE OnceInv  OBVIOUS
<1>1. \A o \in OneShots : ~row[o].executed  BY DEF Init, NewRow, Jobs
<1>2. on[Loop] = None /\ batch = {} /\ lost = 0  BY DEF Init, Executors
<1>3. Hands  BY <1>1, <1>2, SchedulerAssumption DEF Init, Hands, Jobs
<1> QED  BY <1>2, <1>3 DEF Init, OnceInv

\* The loop runs a one-shot once, and once more for every restart and every result the
\* database refused, whatever administrators and triggers do.
THEOREM LoopRunsOnceCorrect == Spec => []LoopRunsOnce
<1>1. OnceInv => LoopRunsOnce  BY DEF OnceInv, LoopRunsOnce
<1> QED  BY <1>1, InitOnce, InitTyped, NextTyped, NextOnce, PTL DEF Spec
-----------------------------------------------------------------------------
(* The circuit breaker                                                     *)

\* Who may still add a failure to a job: those who found its circuit closed.
Permits(j) == {e \in Executors : on[e] = j \/ (e = Loop /\ j \in batch)}

Room(j) == tries[j] + Cardinality(Permits(j)) < Limit + Cardinality(Executors)

\* The row counts no fewer failures than were recorded, and nor does what a run has
\* read of it.
Counted ==
  /\ \A j \in Jobs : tries[j] <= row[j].fail_count
  /\ \A j \in Jobs : ~Exists(j) => tries[j] = 0
  /\ \A e \in Executors : pc[e] = "recording" => tries[on[e]] <= read[e]

CircuitInv == Counted /\ \A j \in Jobs : Room(j)

LEMMA Sizes ==
  /\ IsFiniteSet(Executors) /\ Cardinality(Executors) \in Nat
  /\ \A S \in SUBSET Executors : /\ IsFiniteSet(S) /\ Cardinality(S) \in Nat
                                 /\ Cardinality(S) <= Cardinality(Executors)
<1>1. IsFiniteSet(Executors)  BY FS_AddElement, SchedulerAssumption DEF Executors
<1> QED  BY <1>1, FS_Subset, FS_CardinalityType

LEMMA RoomKept ==
  ASSUME NEW j \in Jobs, Room(j), Permits(j)' \subseteq Permits(j),
         tries[j] \in Nat, tries'[j] \in Nat, tries'[j] <= tries[j]
  PROVE  Room(j)'
<1>1. Permits(j) \subseteq Executors  BY DEF Permits
<1>2. Cardinality(Permits(j)') <= Cardinality(Permits(j))  BY <1>1, Sizes, FS_Subset
<1>3. Cardinality(Permits(j)) \in Nat /\ Cardinality(Permits(j)') \in Nat
  BY <1>1, Sizes
<1> QED  BY <1>2, <1>3, Sizes, SchedulerAssumption DEF Room

LEMMA RoomFree ==
  ASSUME NEW j \in Jobs, tries'[j] \in Nat, tries'[j] < Limit
  PROVE  Room(j)'
<1>1. Permits(j)' \in SUBSET Executors  BY DEF Permits
<1>2. Cardinality(Permits(j)') \in Nat /\ Cardinality(Permits(j)') <= Cardinality(Executors)
  BY <1>1, Sizes
<1> QED  BY <1>2, Sizes, SchedulerAssumption DEF Room

LEMMA RoomSpent ==
  ASSUME NEW j \in Jobs, Room(j), NEW e \in Permits(j), Permits(j)' \subseteq Permits(j) \ {e},
         tries[j] \in Nat, tries'[j] \in Nat, tries'[j] <= tries[j] + 1
  PROVE  Room(j)'
<1>1. Permits(j) \in SUBSET Executors  BY DEF Permits
<1>2. IsFiniteSet(Permits(j)) /\ Cardinality(Permits(j)) \in Nat  BY <1>1, Sizes
<1>3. /\ IsFiniteSet(Permits(j) \ {e})
      /\ Cardinality(Permits(j) \ {e}) = Cardinality(Permits(j)) - 1
  BY <1>2, FS_RemoveElement
<1>4. Cardinality(Permits(j)') <= Cardinality(Permits(j) \ {e})  BY <1>3, FS_Subset
<1>5. Cardinality(Permits(j)') \in Nat
  BY <1>1, Sizes
<1> QED  BY <1>2, <1>3, <1>4, <1>5, Sizes, SchedulerAssumption DEF Room

\* A step that changes rows, and no run.
LEMMA RowsCircuit ==
  ASSUME TypeOK, TypeOK', CircuitInv, UNCHANGED runs,
         \A j \in Jobs : /\ tries'[j] <= tries[j] /\ tries'[j] <= row'[j].fail_count
                         /\ ~Exists(j)' => tries'[j] = 0
  PROVE  CircuitInv'
<1>1. \A j \in Jobs : tries[j] \in Nat /\ tries'[j] \in Nat  BY DEF TypeOK
<1>2. \A j \in Jobs : Permits(j)' = Permits(j)  BY DEF Permits, runs
<1>3. \A j \in Jobs : Room(j)'  BY <1>1, <1>2, RoomKept DEF CircuitInv
<1>4. ASSUME NEW e \in Executors, pc'[e] = "recording" PROVE tries'[on'[e]] <= read'[e]
  <2>1. pc[e] = "recording" /\ on'[e] = on[e] /\ read'[e] = read[e]  BY <1>4 DEF runs
  <2>2. on[e] \in Jobs /\ read[e] \in Nat  BY <2>1 DEF TypeOK
  <2>3. tries[on[e]] <= read[e]  BY <2>1 DEF CircuitInv, Counted
  <2>4. tries'[on[e]] <= tries[on[e]] /\ tries[on[e]] \in Nat /\ tries'[on[e]] \in Nat
    BY <1>1, <2>2
  <2> QED  BY <2>1, <2>2, <2>3, <2>4
<1> QED  BY <1>3, <1>4 DEF CircuitInv, Counted

\* A step of loop, trigger or run that leaves the rows alone.
LEMMA RunsCircuit ==
  ASSUME TypeOK, CircuitInv, UNCHANGED <<row, tries>>,
         \A e \in Executors : pc'[e] = "recording" =>
           \/ pc[e] = "recording" /\ on'[e] = on[e] /\ read'[e] = read[e]
           \/ on'[e] \in Jobs /\ read'[e] = row[on'[e]].fail_count,
         \A j \in Jobs : Permits(j)' \subseteq Permits(j) \/ ~CircuitOpen(j)
  PROVE  CircuitInv'
<1>1. \A j \in Jobs : tries[j] \in Nat /\ row[j].fail_count \in Nat  BY DEF TypeOK, Row
<1>2. ASSUME NEW j \in Jobs PROVE Room(j)'
  <2>1. CASE Permits(j)' \subseteq Permits(j)  BY <1>1, <2>1, RoomKept DEF CircuitInv
  <2>2. CASE ~CircuitOpen(j)
    <3>1. tries'[j] = tries[j] /\ tries[j] <= row[j].fail_count  BY DEF CircuitInv, Counted
    <3>2. row[j].fail_count < Limit  BY <1>1, <2>2, SchedulerAssumption DEF CircuitOpen
    <3>3. tries'[j] < Limit  BY <1>1, <3>1, <3>2, SchedulerAssumption
    <3> QED  BY <1>1, <3>1, <3>3, RoomFree
  <2> QED  BY <2>1, <2>2
<1>3. Counted'
  BY DEF CircuitInv, Counted, Exists
<1> QED  BY <1>2, <1>3 DEF CircuitInv

LEMMA ReleaseCircuit ==
  ASSUME TypeOK, NEW e \in Executors, Release(e)
  PROVE  /\ \A d \in Executors : pc'[d] = "recording" =>
              pc[d] = "recording" /\ on'[d] = on[d] /\ read'[d] = read[d] /\ d # e
         /\ \A j \in Jobs : Permits(j)' \subseteq Permits(j)
         /\ \A j \in Jobs : ~(e = Loop /\ j \in batch) => e \notin Permits(j)'
<1>1. \A d \in Executors : /\ on'[d] = IF d = e THEN None ELSE on[d]
                           /\ d # e => pc'[d] = pc[d] /\ read'[d] = read[d]
                           /\ pc'[e] = "idle" /\ batch' = batch
  BY DEF Release, TypeOK
<1>2. None \notin Jobs  BY SchedulerAssumption
<1> QED  BY <1>1, <1>2 DEF Permits
LEMMA LoadsRowCircuit ==
  ASSUME TypeOK, CircuitInv, NEW e \in Executors, NEW b \in BOOLEAN, pc[e] \in Busy,
         LoadsRow(e, b), UNCHANGED <<row, tries>>
  PROVE  CircuitInv'
<1>1. CASE Exists(on[e])
  <2>1. on[e] \in Jobs  BY DEF TypeOK, Busy
  <2>2. /\ on' = on /\ batch' = batch /\ read'[e] = row[on[e]].fail_count
        /\ \A d \in Executors \ {e} : pc'[d] = pc[d] /\ read'[d] = read[d]
    BY <1>1 DEF LoadsRow, TypeOK
  <2>3. \A j \in Jobs : Permits(j)' = Permits(j)  BY <2>2 DEF Permits
  <2> QED  BY <2>1, <2>2, <2>3, RunsCircuit
<1>2. CASE ~Exists(on[e])  BY <1>2, ReleaseCircuit, RunsCircuit DEF LoadsRow
<1> QED  BY <1>1, <1>2

\* The failure recorded uses up the permit of its run.
LEMMA RecordsCircuit ==
  ASSUME TypeOK, TypeOK', CircuitInv, OneRunPerJob, Hands, NEW e \in Executors, Records(e),
         NEW j, j = on[e]
  PROVE  CircuitInv'
<1>1. j \in Jobs /\ Release(e)  BY DEF Records, TypeOK
<1>2. CASE ~Exists(j)
  <2>1. UNCHANGED <<row, tries>>  BY <1>2 DEF Records, store
  <2> QED  BY <1>1, <2>1, ReleaseCircuit, RunsCircuit
<1>3. CASE Exists(j)
  <2>1. \A i \in Jobs \ {j} : row'[i] = row[i] /\ tries'[i] = tries[i]
    BY <1>1, <1>3 DEF Records, TypeOK
  <2>2. ok[e] \in BOOLEAN /\ read[e] \in Nat  BY DEF TypeOK
  <2>3. row'[j] = Recorded(j, ok[e], read[e])  BY <1>1, <1>3 DEF Records, TypeOK
  <2>4. /\ row'[j].state = "row"
        /\ row'[j].fail_count = IF ok[e] THEN 0 ELSE read[e] + 1
    BY <1>1, <1>3, <2>2, <2>3, RecordedTyped DEF Exists
  <2>5. tries'[j] = IF ok[e] THEN 0 ELSE tries[j] + 1
    BY <1>1, <1>3 DEF Records, TypeOK
  <2>6. \A i \in Jobs : tries[i] \in Nat /\ tries'[i] \in Nat  BY DEF TypeOK
  <2>7. tries[j] <= read[e]  BY DEF Records, CircuitInv, Counted
  <2>8. tries'[j] <= row'[j].fail_count  BY <1>1, <2>2, <2>4, <2>5, <2>6, <2>7
  <2>9. \A d \in Executors : pc'[d] = "recording" =>
          /\ pc[d] = "recording" /\ on'[d] = on[d] /\ read'[d] = read[d]
          /\ on[d] \in Jobs \ {j}
    BY <1>1, ReleaseCircuit DEF OneRunPerJob, Records, Busy, TypeOK
  <2>10. Counted'
    BY <1>1, <2>1, <2>4, <2>8, <2>9 DEF CircuitInv, Counted, Exists
  <2>11. e \in Permits(j) /\ Permits(j)' \subseteq Permits(j) \ {e}
    BY <1>1, ReleaseCircuit DEF Permits, Hands
  <2>12. tries'[j] <= tries[j] + 1  BY <1>1, <2>5, <2>6
  <2>13. Room(j)'  BY <1>1, <2>6, <2>11, <2>12, RoomSpent DEF CircuitInv
  <2>14. \A i \in Jobs \ {j} : Room(i)'
    BY <1>1, <2>1, <2>6, ReleaseCircuit, RoomKept DEF CircuitInv
  <2> QED  BY <2>10, <2>13, <2>14 DEF CircuitInv
<1> QED  BY <1>2, <1>3

LEMMA NextCircuit ==
  TypeOK /\ TypeOK' /\ OneRunPerJob /\ OnceInv /\ CircuitInv /\ [Next]_vars => CircuitInv'
<1> SUFFICES ASSUME TypeOK, TypeOK', OneRunPerJob, OnceInv, CircuitInv, [Next]_vars
             PROVE  CircuitInv'
  OBVIOUS
<1> USE SchedulerAssumption
<1>1. CASE LoopSelects
  <2>1. UNCHANGED <<row, tries, pc, on, read>>  BY <1>1 DEF LoopSelects, store
  <2>2. \A j \in Jobs : Permits(j)' \subseteq Permits(j) \/ ~CircuitOpen(j)
    BY <1>1 DEF LoopSelects, Permits
  <2> QED  BY <2>1, <2>2, RunsCircuit
<1>2. ASSUME NEW j \in Jobs, LoopSkips(j) PROVE CircuitInv'
  <2>1. UNCHANGED <<row, tries, pc, on, read>>  BY <1>2 DEF LoopSkips, store
  <2>2. \A i \in Jobs : Permits(i)' \subseteq Permits(i)  BY <1>2 DEF LoopSkips, Permits
  <2> QED  BY <2>1, <2>2, RunsCircuit
<1>3. ASSUME NEW j \in Jobs, LoopStarts(j) PROVE CircuitInv'
  <2>1. /\ UNCHANGED <<row, tries, read>> /\ Loop \in Executors /\ j \in batch
        /\ \A e \in Executors : pc'[e] = "recording" =>
             pc[e] = "recording" /\ on'[e] = on[e] /\ read'[e] = read[e]
    BY <1>3 DEF LoopStarts, TypeOK, store, Executors
  <2>2. \A e \in Executors : on'[e] = IF e = Loop THEN j ELSE on[e]
    BY <1>3 DEF LoopStarts, TypeOK
  <2>3. \A i \in Jobs : Permits(i)' \subseteq Permits(i)
    BY <1>3, <2>1, <2>2 DEF LoopStarts, Permits
  <2> QED  BY <2>1, <2>3, RunsCircuit
<1>4. ASSUME NEW t \in Triggers, NEW j \in Jobs, TriggerAsks(t, j) PROVE CircuitInv'
  <2>1. /\ UNCHANGED <<row, tries, batch, read>>
        /\ \A e \in Executors : pc'[e] = "recording" => pc[e] = "recording" /\ on'[e] = on[e]
        /\ \A e \in Executors : on'[e] = IF e = t THEN j ELSE on[e]
    BY <1>4 DEF TriggerAsks, TypeOK, store, Executors
  <2>2. ~CircuitOpen(j)  BY <1>4 DEF TriggerAsks
  <2>3. \A i \in Jobs : Permits(i)' \subseteq Permits(i) \/ ~CircuitOpen(i)
    BY <2>1, <2>2 DEF Permits
  <2> QED  BY <2>1, <2>3, RunsCircuit
<1>5. ASSUME NEW t \in Triggers, TriggerRefused(t) \/ TriggerClaims(t) PROVE CircuitInv'
  <2>1. /\ UNCHANGED <<row, tries, batch, read>>
        /\ \A e \in Executors : pc'[e] = "recording" => pc[e] = "recording" /\ on'[e] = on[e]
        /\ \A e \in Executors : on'[e] \in {on[e], None}
    BY <1>5 DEF TriggerRefused, TriggerClaims, TypeOK, store, Executors
  <2>2. \A i \in Jobs : Permits(i)' \subseteq Permits(i)  BY <2>1 DEF Permits
  <2> QED  BY <2>1, <2>2, RunsCircuit
<1>6. ASSUME NEW t \in Triggers, TriggerLoads(t) PROVE CircuitInv'
  <2>1. t \in Executors /\ UNCHANGED <<row, tries>>
    BY <1>6 DEF TriggerLoads, store, Executors
  <2>2. CASE Exists(on[t])
    <3>1. /\ UNCHANGED <<batch, on, read>>
          /\ \A e \in Executors : pc'[e] = "recording" => pc[e] = "recording"
      BY <1>6, <2>2 DEF TriggerLoads, TypeOK
    <3>2. \A i \in Jobs : Permits(i)' \subseteq Permits(i)  BY <3>1 DEF Permits
    <3> QED  BY <2>1, <3>1, <3>2, RunsCircuit
  <2>3. CASE ~Exists(on[t])
    BY <1>6, <2>1, <2>3, ReleaseCircuit, RunsCircuit DEF TriggerLoads
  <2> QED  BY <2>2, <2>3
<1>7. ASSUME NEW t \in Triggers, TriggerLoadFails(t) PROVE CircuitInv'
  BY <1>7, LoadsRowCircuit DEF TriggerLoadFails, Executors, Busy, store
<1>8. ASSUME NEW e \in Executors, NEW b \in BOOLEAN, RunEnds(e, b) PROVE CircuitInv'
  BY <1>8, LoadsRowCircuit DEF RunEnds, Busy, store
<1>9. ASSUME NEW e \in Executors, Records(e) PROVE CircuitInv'
  BY <1>9, RecordsCircuit DEF OnceInv
<1>10. ASSUME NEW e \in Executors, RecordFails(e) PROVE CircuitInv'
  BY <1>10, ReleaseCircuit, RunsCircuit DEF RecordFails, store
<1>11. \A j \in Jobs : /\ tries[j] \in Nat /\ row[j].fail_count \in Nat
                       /\ tries[j] <= row[j].fail_count /\ (~Exists(j) => tries[j] = 0)
  BY DEF TypeOK, Row, CircuitInv, Counted
<1>12. ASSUME NEW j \in Jobs, NEW r, UNCHANGED <<runs, tries>>,
              row' = [row EXCEPT ![j] = r],
              r.fail_count = row[j].fail_count, r.state = row[j].state
       PROVE  CircuitInv'
  <2>1. row'[j] = r /\ \A i \in Jobs \ {j} : row'[i] = row[i]  BY <1>12 DEF TypeOK
  <2>2. ASSUME NEW i \in Jobs
        PROVE  /\ tries'[i] <= tries[i] /\ tries'[i] <= row'[i].fail_count
               /\ ~Exists(i)' => tries'[i] = 0
    <3>1. CASE i = j  BY <1>11, <1>12, <2>1, <3>1 DEF Exists
    <3>2. CASE i # j  BY <1>11, <1>12, <2>1, <3>2 DEF Exists
    <3> QED  BY <3>1, <3>2
  <2> QED  BY <1>12, <2>2, RowsCircuit
<1>12a. ASSUME NEW j \in Jobs, NEW r, UNCHANGED runs, row' = [row EXCEPT ![j] = r],
              r.fail_count = 0, tries'[j] = 0, \A i \in Jobs \ {j} : tries'[i] = tries[i]
       PROVE  CircuitInv'
  <2>1. row'[j] = r /\ \A i \in Jobs \ {j} : row'[i] = row[i]  BY <1>12a DEF TypeOK
  <2>2. ASSUME NEW i \in Jobs
        PROVE  /\ tries'[i] <= tries[i] /\ tries'[i] <= row'[i].fail_count
               /\ ~Exists(i)' => tries'[i] = 0
    <3>1. CASE i = j  BY <1>11, <1>12a, <2>1, <3>1 DEF Exists
    <3>2. CASE i # j  BY <1>11, <1>12a, <2>1, <3>2 DEF Exists
    <3> QED  BY <3>1, <3>2
  <2> QED  BY <1>12a, <2>2, RowsCircuit
<1>13. ASSUME NEW j \in Jobs, Deletes(j) PROVE CircuitInv'
  <2>1. [NewRow(FALSE) EXCEPT !.state = "gone", !.executed = row[j].executed].fail_count = 0
    BY DEF NewRow
  <2>2. tries'[j] = 0 /\ \A i \in Jobs \ {j} : tries'[i] = tries[i]
    BY <1>13 DEF Deletes, TypeOK
  <2> QED  BY <1>12a, <1>13, <2>1, <2>2 DEF Deletes, Change
<1>14. ASSUME NEW o \in OneShots, CallInserts(o) PROVE CircuitInv'
  <2>1. row[o].state = "new"  BY <1>14 DEF CallInserts, OnceInv, Hands
  <2>2. tries' = tries /\ tries[o] = 0 /\ o \in Jobs
    BY <1>11, <1>14, <2>1 DEF CallInserts, Exists, Jobs
  <2>3. NewRow(TRUE).fail_count = 0  BY DEF NewRow
  <2> QED  BY <1>12a, <1>14, <2>2, <2>3 DEF CallInserts
<1>15. ASSUME NEW j \in Jobs, NEW b \in BOOLEAN, Create(j, b) PROVE CircuitInv'
  <2>1. tries' = tries /\ tries[j] = 0  BY <1>11, <1>15 DEF Create, Exists
  <2>2. NewRow(b).fail_count = 0  BY DEF NewRow
  <2> QED  BY <1>12a, <1>15, <2>1, <2>2 DEF Create, Change
<1>16. ASSUME NEW j \in Jobs, TimeStep(j) \/ Reschedule(j) \/ \E b \in BOOLEAN : SetEnabled(j, b)
       PROVE  CircuitInv'
  <2>1. row[j] \in Row  BY DEF TypeOK
  <2>2. PICK r : /\ Change(j, r) /\ tries' = tries
                 /\ r.state = row[j].state /\ r.fail_count = row[j].fail_count
    BY <1>16, <2>1, DueTyped, BackoffTyped, EnabledTyped
       DEF TimeStep, SlotComes, BackoffEnds, Reschedule, SetEnabled, Keeps
  <2> QED  BY <1>12, <2>2 DEF Change
<1>17. ASSUME NEW j \in Jobs, ResetCircuit(j) PROVE CircuitInv'
  <2>1. [row[j] EXCEPT !.fail_count = 0, !.backoff = FALSE, !.due = TRUE].fail_count = 0
    BY DEF TypeOK, Row
  <2>2. tries'[j] = 0 /\ \A i \in Jobs \ {j} : tries'[i] = tries[i]
    BY <1>17 DEF ResetCircuit, TypeOK
  <2> QED  BY <1>12a, <1>17, <2>1, <2>2 DEF ResetCircuit, Change
<1>18. CASE Restart
  <2>1. \A e \in Executors : pc'[e] = "idle" /\ on'[e] = None  BY <1>18 DEF Restart
  <2>2. batch' = {} /\ tries' = tries  BY <1>18 DEF Restart
  <2>3. \A j \in Jobs : Permits(j)' = {}  BY <2>1, <2>2 DEF Permits
  <2>4. \A j \in Jobs : Room(j)'  BY <1>11, <2>2, <2>3, RoomKept DEF CircuitInv
  <2>5. ASSUME NEW j \in Jobs
        PROVE  tries'[j] <= row'[j].fail_count /\ (~Exists(j)' => tries'[j] = 0)
    <3>1. CASE j \in Seeded /\ ~Exists(j)
      <4>1. row'[j] = NewRow(TRUE)  BY <1>18, <3>1 DEF Restart
      <4>2. row'[j].fail_count = 0 /\ row'[j].state = "row"  BY <4>1 DEF NewRow
      <4>3. tries'[j] = 0  BY <1>11, <2>2, <3>1
      <4> QED  BY <4>2, <4>3 DEF Exists
    <3>2. CASE ~(j \in Seeded /\ ~Exists(j))
      <4>1. row'[j] = row[j] \/ row'[j] = [row[j] EXCEPT !.due = FALSE]
        BY <1>18, <3>2 DEF Restart
      <4>2. row'[j].fail_count = row[j].fail_count /\ row'[j].state = row[j].state
        BY <4>1, DueTyped DEF TypeOK, Keeps
      <4> QED  BY <1>11, <2>2, <4>2 DEF Exists
    <3> QED  BY <3>1, <3>2
  <2> QED  BY <2>1, <2>4, <2>5 DEF CircuitInv, Counted
<1>19. ASSUME UNCHANGED <<store, runs>> PROVE CircuitInv'
  BY <1>11, <1>19, RowsCircuit DEF store, Exists
<1>20. CASE UNCHANGED vars  BY <1>19, <1>20 DEF vars
<1>21. CASE \E j \in Jobs : AdminStep(j) \/ TimeStep(j)
  BY <1>13, <1>15, <1>16, <1>17, <1>21 DEF AdminStep, Delete
<1>22. CASE \E o \in OneShots : CallLooks(o) \/ CallInserts(o) \/ CleanUp(o)
  BY <1>13, <1>14, <1>19, <1>22 DEF CallLooks, CleanUp, Jobs
<1> QED  BY <1>1, <1>2, <1>3, <1>4, <1>5, <1>6, <1>7, <1>8, <1>9, <1>10, <1>18, <1>20,
            <1>21, <1>22
         DEF Next, LoopStep, TriggerStep, RunStep

\* However many triggers find a circuit closed, the failures recorded until the next
\* success or reset stay below the limit and one for each of them.
THEOREM RetriesBoundedCorrect == Spec => []RetriesBounded
<1>1. Init => CircuitInv
  <2> SUFFICES ASSUME Init PROVE CircuitInv  OBVIOUS
  <2>1. \A j \in Jobs : tries[j] = 0 /\ row[j].fail_count = 0  BY DEF Init, NewRow
  <2>2. \A e \in Executors : pc[e] # "recording" /\ on[e] = None  BY DEF Init
  <2>3. \A j \in Jobs : Permits(j) = {}
    BY <2>2, SchedulerAssumption DEF Init, Permits
  <2>4. Cardinality({}) = 0 /\ Loop \in Executors  BY FS_EmptySet DEF Executors
  <2>5. \A j \in Jobs : Room(j)  BY <2>1, <2>3, <2>4, Sizes, SchedulerAssumption DEF Room
  <2> QED  BY <2>1, <2>2, <2>5 DEF CircuitInv, Counted
<1>2. ASSUME TypeOK, CircuitInv PROVE RetriesBounded
  <2> SUFFICES ASSUME NEW j \in Jobs PROVE tries[j] < Limit + Cardinality(Executors)
    BY DEF RetriesBounded
  <2>1. Cardinality(Permits(j)) \in Nat  BY Sizes DEF Permits
  <2>2. tries[j] \in Nat /\ Room(j)  BY <1>2 DEF TypeOK, CircuitInv
  <2> QED  BY <2>1, <2>2, Sizes, SchedulerAssumption DEF Room
<1> QED  BY <1>1, <1>2, InitOne, InitOnce, InitTyped, NextTyped, NextOne, NextOnce, NextCircuit, PTL
         DEF Spec

-----------------------------------------------------------------------------
(* A call of schedule_once is owed a run                                   *)

\* The safety half of CallServed: whoever waits for a recorded run still has a
\* one-shot that will get one.  It is enabled, no circuit and no backoff holds it
\* up, and once its slot has come the next query finds it due; unless an
\* administrator withdrew one.
CallKept ==
  \A o \in OneShots : call[o] = "waiting" =>
    \/ Withdrawn
    \/ \E p \in OneShots : /\ Pending(p) /\ row[p].enabled /\ ~CircuitOpen(p)
                           /\ row[p].due => IsDue(p)

\* A row of a one-shot that was not executed has no failure on its account.
Fresh(r) == r.state = "row" /\ ~r.executed => r.fail_count = 0 /\ ~r.backoff

\* It was created, and never executed; it may be gone.
Owing(r) == r.state # "new" /\ ~r.executed

Owed == \E p \in OneShots : Owing(row[p])

CallInv == /\ \A p \in OneShots : Fresh(row[p])
           /\ \A o \in OneShots : call[o] = "waiting" => Owed

\* A change of a row that keeps what the one-shot owes.
Mild(q, r) == Fresh(q) /\ (Owing(r) => Owing(q))

LEMMA MildSame == ASSUME NEW r, Fresh(r) PROVE Mild(r, r)
BY DEF Mild

LEMMA MildNew ==
  ASSUME NEW r, NEW b \in BOOLEAN PROVE Mild(NewRow(b), r) /\ Owing(NewRow(b))
<1>1. ~NewRow(b).executed  BY NewRowUnexecuted
<1>2. NewRow(b).state = "row" /\ NewRow(b).fail_count = 0  BY NewRowTyped
<1>3. ~NewRow(b).backoff  BY Zenon DEF NewRow
<1> QED  BY <1>1, <1>2, <1>3 DEF Mild, Fresh, Owing

\* Only time, a setting or the slot of a row changes.
LEMMA MildSet ==
  ASSUME NEW r \in Row, Fresh(r), NEW b \in BOOLEAN
  PROVE  /\ Mild([r EXCEPT !.due = b], r) /\ Mild([r EXCEPT !.enabled = b], r)
         /\ Mild([r EXCEPT !.backoff = FALSE], r)
         /\ Mild([r EXCEPT !.fail_count = 0, !.backoff = FALSE, !.due = TRUE], r)
BY DEF Row, Mild, Fresh, Owing

LEMMA MildGone ==
  ASSUME NEW r \in Row, r.state = "row"
  PROVE  Mild([NewRow(FALSE) EXCEPT !.state = "gone", !.executed = r.executed], r)
BY DEF Row, NewRow, Mild, Fresh, Owing

\* The rows change mildly, and who newly waits found or made a one-shot that owes.
LEMMA MildStep ==
  ASSUME CallInv, \A p \in OneShots : Mild(row'[p], row[p]),
         \A o \in OneShots : call'[o] = "waiting" => call[o] = "waiting" \/ Owed'
  PROVE  CallInv'
<1>1. Owed => Owed'
  <2> SUFFICES ASSUME NEW p \in OneShots, Owing(row[p]) PROVE Owed'  BY DEF Owed
  <2> QED  BY DEF Owed, Mild
<1>2. \A p \in OneShots : Fresh(row'[p])  BY DEF Mild
<1> QED  BY <1>1, <1>2 DEF CallInv

\* One row changes, mildly.
LEMMA MildChange ==
  ASSUME TypeOK, CallInv, NEW j \in Jobs, NEW r, row' = [row EXCEPT ![j] = r],
         j \in OneShots => Mild(r, row[j]),
         \A o \in OneShots : call'[o] = "waiting" => call[o] = "waiting" \/ Owed'
  PROVE  CallInv'
<1>1. ASSUME NEW p \in OneShots PROVE Mild(row'[p], row[p])
  <2>1. p \in Jobs /\ Fresh(row[p])  BY DEF Jobs, CallInv
  <2>2. CASE p = j
    <3>1. row'[p] = r  BY <2>1, <2>2 DEF TypeOK
    <3> QED  BY <2>2, <3>1
  <2>3. CASE p # j
    <3>1. row'[p] = row[p]  BY <2>1, <2>3 DEF TypeOK
    <3> QED  BY <2>1, <3>1, MildSame
  <2> QED  BY <2>2, <2>3
<1> QED  BY <1>1, MildStep

LEMMA StaysCall ==
  ASSUME CallInv, row' = row, call' = call PROVE CallInv'
BY DEF CallInv, Owed

LEMMA DeletesCall ==
  ASSUME TypeOK, CallInv, NEW j \in Jobs, Deletes(j) PROVE CallInv'
<1> DEFINE r == [NewRow(FALSE) EXCEPT !.state = "gone", !.executed = row[j].executed]
<1>1. Mild(r, row[j])
  <2>1. row[j] \in Row /\ row[j].state = "row"  BY DEF TypeOK, Deletes, Exists
  <2> QED  BY <2>1, MildGone
<1>2. row' = [row EXCEPT ![j] = r] /\ call' = call  BY DEF Deletes, Change
<1> QED  BY <1>1, <1>2, MildChange

\* A recorded one-shot serves everyone who waits; a recurring job owes nobody.
LEMMA RecordsCall ==
  ASSUME TypeOK, CallInv, NEW e \in Executors, Records(e) PROVE CallInv'
<1> DEFINE j == on[e]
           r == Recorded(j, ok[e], read[e])
<1>1. CASE ~Exists(j)
  BY <1>1, StaysCall DEF Records, store
<1>2. CASE Exists(j)
  <2>1. j \in Jobs  BY DEF Records, TypeOK
  <2>2. row' = [row EXCEPT ![j] = r]  BY <1>2 DEF Records
  <2>3. call' = [o \in OneShots |->
                   IF j \in OneShots /\ call[o] = "waiting" THEN "served" ELSE call[o]]
    BY <1>2 DEF Records
  <2>4. CASE j \in OneShots
    <3>1. \A o \in OneShots : call'[o] # "waiting"  BY <2>3, <2>4
    <3>2. Fresh(r)
      <4>1. row[j] \in Row  BY <2>1 DEF TypeOK
      <4>2. r.executed = (j \in OneShots)  BY <4>1, RecordFields DEF Recorded
      <4> QED  BY <2>4, <4>2 DEF Fresh
    <3>3. ASSUME NEW p \in OneShots PROVE Fresh(row'[p])
      <4>1. p \in Jobs /\ Fresh(row[p])  BY DEF Jobs, CallInv
      <4>2. row'[p] = IF p = j THEN r ELSE row[p]  BY <2>2, <4>1 DEF TypeOK
      <4> QED  BY <3>2, <4>1, <4>2
    <3> QED  BY <3>1, <3>3 DEF CallInv
  <2>5. CASE j \notin OneShots
    <3>1. \A o \in OneShots : call'[o] = "waiting" => call[o] = "waiting"
      BY <2>3, <2>5
    <3> QED  BY <2>1, <2>2, <2>5, <3>1, MildChange
  <2> QED  BY <2>4, <2>5
<1> QED  BY <1>1, <1>2

LEMMA RestartCall ==
  ASSUME TypeOK, CallInv, Restart PROVE CallInv'
<1>1. ASSUME NEW p \in OneShots PROVE Mild(row'[p], row[p])
  <2>1. p \in Jobs /\ p \notin Seeded /\ p \notin Recurring
    BY SchedulerAssumption DEF Jobs
  <2>2. row'[p] = row[p]  BY <2>1 DEF Restart
  <2> QED  BY <2>2, MildSame DEF CallInv
<1>2. \A o \in OneShots : call'[o] = "waiting" => call[o] = "waiting"  BY DEF Restart
<1> QED  BY <1>1, <1>2, MildStep

LEMMA CallsCall ==
  ASSUME TypeOK, CallInv, NEW o \in OneShots, CallLooks(o) \/ CallInserts(o)
  PROVE  CallInv'
<1>1. CASE CallLooks(o)
  <2>1. row' = row  BY <1>1 DEF CallLooks, store
  <2>2. call' = [call EXCEPT ![o] = IF \E p \in OneShots : Pending(p) THEN "waiting"
                                                                   ELSE "inserting"]
    BY <1>1 DEF CallLooks
  <2>3. (\E p \in OneShots : Pending(p)) => Owed'
    BY <2>1 DEF Owed, Owing, Pending, Exists
  <2>4. \A a \in OneShots : call'[a] = "waiting" => call[a] = "waiting" \/ Owed'
    BY <2>2, <2>3 DEF TypeOK
  <2>5. \A p \in OneShots : Mild(row'[p], row[p])  BY <2>1, MildSame DEF CallInv
  <2> QED  BY <2>4, <2>5, MildStep
<1>2. CASE CallInserts(o)
  <2>1. o \in Jobs /\ row' = [row EXCEPT ![o] = NewRow(TRUE)]
    BY <1>2 DEF CallInserts, Jobs
  <2>2. row'[o] = NewRow(TRUE)  BY <2>1 DEF TypeOK
  <2>3. Owed'  BY <2>2, MildNew DEF Owed
  <2>4. Mild(NewRow(TRUE), row[o])  BY MildNew
  <2> QED  BY <2>1, <2>3, <2>4, MildChange
<1> QED  BY <1>1, <1>2

LEMMA AdminCall ==
  ASSUME TypeOK, CallInv, NEW j \in Jobs, AdminStep(j) \/ TimeStep(j) PROVE CallInv'
<1>1. row[j] \in Row  BY DEF TypeOK
<1>2. j \in OneShots => Fresh(row[j])  BY DEF CallInv
<1>3. ASSUME NEW b \in BOOLEAN, Create(j, b) PROVE CallInv'
  <2>1. row' = [row EXCEPT ![j] = NewRow(b)] /\ call' = call  BY <1>3 DEF Create, Change
  <2> QED  BY <2>1, MildNew, MildChange
<1>4. ASSUME NEW b \in BOOLEAN, SetEnabled(j, b) PROVE CallInv'
  <2>1. row' = [row EXCEPT ![j] = [row[j] EXCEPT !.enabled = b]] /\ call' = call
    BY <1>4 DEF SetEnabled, Change
  <2> QED  BY <1>1, <1>2, <2>1, MildSet, MildChange
<1>5. CASE ResetCircuit(j)
  <2>1. /\ row' = [row EXCEPT ![j] =
                     [row[j] EXCEPT !.fail_count = 0, !.backoff = FALSE, !.due = TRUE]]
        /\ call' = call
    BY <1>5 DEF ResetCircuit, Change
  <2> QED  BY <1>1, <1>2, <2>1, MildSet, MildChange
<1>6. CASE Reschedule(j)
  <2>1. row' = [row EXCEPT ![j] = [row[j] EXCEPT !.due = FALSE]] /\ call' = call
    BY <1>6 DEF Reschedule, Change
  <2> QED  BY <1>1, <1>2, <2>1, MildSet, MildChange
<1>7. CASE Delete(j)
  BY <1>7, DeletesCall DEF Delete
<1>8. CASE SlotComes(j)
  <2>1. row' = [row EXCEPT ![j] = [row[j] EXCEPT !.due = TRUE]] /\ call' = call
    BY <1>8 DEF SlotComes, Change
  <2> QED  BY <1>1, <1>2, <2>1, MildSet, MildChange
<1>9. CASE BackoffEnds(j)
  <2>1. row' = [row EXCEPT ![j] = [row[j] EXCEPT !.backoff = FALSE]] /\ call' = call
    BY <1>9 DEF BackoffEnds, Change
  <2> QED  BY <1>1, <1>2, <2>1, MildSet, MildChange
<1> QED  BY <1>3, <1>4, <1>5, <1>6, <1>7, <1>8, <1>9 DEF AdminStep, TimeStep

LEMMA NextCall == TypeOK /\ CallInv /\ [Next]_vars => CallInv'
<1> SUFFICES ASSUME TypeOK, CallInv, [Next]_vars PROVE CallInv'  OBVIOUS
<1>1. CASE LoopStep
  BY <1>1, StaysCall DEF LoopStep, LoopSelects, LoopSkips, LoopStarts, store
<1>2. ASSUME NEW t \in Triggers, TriggerStep(t) \/ \E j \in Jobs : TriggerAsks(t, j)
      PROVE CallInv'
  BY <1>2, StaysCall DEF TriggerStep, TriggerAsks, TriggerRefused, TriggerClaims,
                         TriggerLoads, TriggerLoadFails, store
<1>3. ASSUME NEW e \in Executors, RunStep(e) PROVE CallInv'
  <2>1. ASSUME NEW b \in BOOLEAN, RunEnds(e, b) PROVE CallInv'
    BY <2>1, StaysCall DEF RunEnds, store
  <2>2. CASE RecordFails(e)
    BY <2>2, StaysCall DEF RecordFails, store
  <2> QED  BY <1>3, <2>1, <2>2, RecordsCall DEF RunStep
<1>4. ASSUME NEW o \in OneShots, CleanUp(o) PROVE CallInv'
  <2>1. o \in Jobs  BY DEF Jobs
  <2> QED  BY <1>4, <2>1, DeletesCall DEF CleanUp
<1>5. CASE UNCHANGED vars
  BY <1>5, StaysCall DEF vars, store
<1> QED  BY <1>1, <1>2, <1>3, <1>4, <1>5, CallsCall, AdminCall, RestartCall DEF Next

\* Whoever called schedule_once has, until a run is recorded, a one-shot that the
\* loop will pick once its slot comes, across failures, refused results, restarts
\* and settings: no such row ever carries a failure, so neither backoff nor circuit
\* breaker can hold it up.
THEOREM CallKeptCorrect == Spec => []CallKept
<1>1. Init => CallInv
  <2> SUFFICES ASSUME Init PROVE CallInv  OBVIOUS
  <2>1. ASSUME NEW p \in OneShots PROVE Fresh(row[p])
    <3>1. p \in Jobs /\ p \notin Seeded  BY SchedulerAssumption DEF Jobs
    <3>2. row[p] = [NewRow(TRUE) EXCEPT !.state = "new"]  BY <3>1 DEF Init
    <3>3. row[p].state = "new"  BY <3>2 DEF NewRow
    <3> QED  BY <3>3 DEF Fresh
  <2> QED  BY <2>1 DEF Init, CallInv
<1>2. ASSUME TypeOK, CallInv PROVE CallKept
  <2> SUFFICES ASSUME NEW o \in OneShots, call[o] = "waiting", ~Withdrawn
               PROVE \E p \in OneShots : /\ Pending(p) /\ row[p].enabled /\ ~CircuitOpen(p)
                                         /\ row[p].due => IsDue(p)
    BY DEF CallKept
  <2>1. PICK p \in OneShots : Owing(row[p])  BY <1>2 DEF CallInv, Owed
  <2>2. p \in Jobs /\ row[p] \in Row /\ Fresh(row[p])  BY <1>2 DEF TypeOK, Jobs, CallInv
  <2>3. row[p].state \in {"new", "row", "gone"}  BY <2>2 DEF Row
  <2>4. Pending(p) /\ row[p].enabled
    BY <2>1, <2>3 DEF Owing, Withdrawn, Pending, Exists
  <2>5. row[p].fail_count = 0 /\ ~row[p].backoff  BY <2>2, <2>4 DEF Fresh, Pending, Exists
  <2>6. ~CircuitOpen(p)  BY <2>5, SchedulerAssumption DEF CircuitOpen
  <2>7. row[p].due => IsDue(p)  BY <2>4, <2>5 DEF IsDue, Pending
  <2> QED  BY <2>4, <2>6, <2>7
<1> QED  BY <1>1, <1>2, InitTyped, NextTyped, NextCall, PTL DEF Spec
=============================================================================
