----------------------------- MODULE Scheduler -----------------------------
(***************************************************************************)
(* The scheduler (scheduler/cron_scheduler.py): recurring and one-shot     *)
(* jobs, run by a loop or triggered by hand, with a circuit breaker per    *)
(* job, and the admin API that changes the jobs meanwhile.                 *)
(*                                                                         *)
(* Everything runs on one asyncio event loop; an action is the code        *)
(* between two awaits that suspend.  _job_lock is never held across one    *)
(* and has no variable.  The clock is left out: a time stamp is whether it *)
(* has been reached (due, backoff), and time may reach it at any moment.   *)
(* What a job does is whether it succeeds.                                 *)
(*                                                                         *)
(* A one-shot is the call of schedule_once that may create it; all carry   *)
(* the same name, as those that record the lamp hours of one projector do. *)
(***************************************************************************)
EXTENDS Naturals, FiniteSets

CONSTANTS
  Recurring,  \* jobs with a cron expression
  Seeded,     \* those of them every start creates if they are missing
  OneShots,   \* jobs with run_once
  Loop,       \* the task of _scheduler_loop
  Triggers,   \* calls of trigger_job that may be in progress at once
  None,       \* no job
  Limit,      \* failures that open a circuit; 5 in the code
  MaxAdmin,   \* bound on the acts of administrators, triggers among them
  MaxLost     \* bound on restarts and on results the database refuses

Jobs == Recurring \cup OneShots
Executors == Triggers \cup {Loop}

ASSUME SchedulerAssumption ==
  /\ Seeded \subseteq Recurring /\ Recurring \cap OneShots = {}
  /\ None \notin Jobs /\ Loop \notin Triggers
  /\ IsFiniteSet(Triggers)
  /\ Limit \in Nat \ {0} /\ MaxAdmin \in Nat /\ MaxLost \in Nat

VARIABLES
  row,        \* per job: its row of scheduled_jobs, which may be new or gone
  executing,  \* _executing_jobs
  batch,      \* due_jobs the loop has still to look at, their circuits then closed
  pc,         \* per executor: the await it is suspended in
  on,         \* per executor: its job
  ok, read,   \* per executor: the outcome it records, and the fail_count it read
  call,       \* per one-shot: the call of schedule_once
  loopRuns,   \* history: how often the loop started the one-shot
  tries,      \* history: failures recorded since the last success or reset
  admin, lost

store == <<row, tries>>
runs == <<executing, batch, pc, on, ok, read, loopRuns>>
bounds == <<admin, lost>>
vars == <<store, runs, call, bounds>>

Row == [state : {"new", "row", "gone"}, enabled : BOOLEAN, due : BOOLEAN,
        backoff : BOOLEAN, fail_count : Nat, executed : BOOLEAN]
RunPC == {"idle", "asked", "claimed", "running", "recording"}
Busy == {"claimed", "running", "recording"}

TypeOK ==
  /\ row \in [Jobs -> Row]
  /\ executing \subseteq Jobs /\ batch \subseteq Jobs
  /\ pc \in [Executors -> RunPC] /\ pc[Loop] \notin {"asked", "claimed"}
  /\ on \in [Executors -> Jobs \cup {None}]
  /\ \A e \in Executors : pc[e] = "idle" <=> on[e] = None
  /\ ok \in [Executors -> BOOLEAN] /\ read \in [Executors -> Nat]
  /\ call \in [OneShots -> {"idle", "inserting", "waiting", "served"}]
  /\ loopRuns \in [OneShots -> Nat] /\ tries \in [Jobs -> Nat]
  /\ admin \in 0..MaxAdmin /\ lost \in 0..MaxLost

\* A job as it is inserted.
NewRow(enabled) == [state |-> "row", enabled |-> enabled, due |-> FALSE,
                    backoff |-> FALSE, fail_count |-> 0, executed |-> FALSE]

Init ==
  /\ row = [j \in Jobs |-> IF j \in Seeded THEN NewRow(TRUE)
                           ELSE [NewRow(TRUE) EXCEPT !.state = "new"]]
  /\ executing = {} /\ batch = {}
  /\ pc = [e \in Executors |-> "idle"] /\ on = [e \in Executors |-> None]
  /\ ok = [e \in Executors |-> FALSE] /\ read = [e \in Executors |-> 0]
  /\ call = [o \in OneShots |-> "idle"]
  /\ loopRuns = [o \in OneShots |-> 0] /\ tries = [j \in Jobs |-> 0]
  /\ admin = 0 /\ lost = 0

Exists(j) == row[j].state = "row"

\* mutant: one failure more
CircuitOpenLate(j) == row[j].fail_count > Limit

CircuitOpen(j) == row[j].fail_count >= Limit

\* mutant: an executed one-shot still counts as pending
PendingAny(o) == Exists(o)

Pending(o) == Exists(o) /\ ~row[o].executed

Lose == lost < MaxLost /\ lost' = lost + 1
Administer == admin < MaxAdmin /\ admin' = admin + 1

-----------------------------------------------------------------------------
(* The loop                                                                *)

\* mutant: executed one-shots are told by their being disabled
IsDueEnabled(j) == Exists(j) /\ row[j].enabled /\ row[j].due /\ ~row[j].backoff

IsDue(j) ==
  /\ Exists(j) /\ row[j].enabled /\ row[j].due /\ ~row[j].backoff
  /\ j \in OneShots => ~row[j].executed

\* One query reads all due jobs; what it read is used until the batch is done.
LoopSelects ==
  /\ pc[Loop] = "idle" /\ batch = {}
  /\ batch' = {j \in Jobs : IsDue(j) /\ ~CircuitOpen(j)}
  /\ UNCHANGED <<store, executing, pc, on, ok, read, loopRuns, call, bounds>>

LoopSkips(j) ==
  /\ pc[Loop] = "idle" /\ j \in batch \cap executing
  /\ batch' = batch \ {j}
  /\ UNCHANGED <<store, executing, pc, on, ok, read, loopRuns, call, bounds>>

\* The job starts as the query found it, whatever has become of its row.
LoopStarts(j) ==
  /\ pc[Loop] = "idle" /\ j \in batch \ executing
  /\ batch' = batch \ {j}
  /\ executing' = executing \cup {j}
  /\ pc' = [pc EXCEPT ![Loop] = "running"]
  /\ on' = [on EXCEPT ![Loop] = j]
  /\ loopRuns' = [o \in OneShots |-> loopRuns[o] + IF o = j THEN 1 ELSE 0]
  /\ UNCHANGED <<store, ok, read, call, bounds>>

-----------------------------------------------------------------------------
(* trigger_job                                                             *)

\* An administrator asks for a run at once.
TriggerAsks(t, j) ==
  /\ Administer
  /\ pc[t] = "idle" /\ Exists(j) /\ ~CircuitOpen(j)
  /\ pc' = [pc EXCEPT ![t] = "asked"]
  /\ on' = [on EXCEPT ![t] = j]
  /\ UNCHANGED <<store, executing, batch, ok, read, loopRuns, call, lost>>

TriggerRefused(t) ==
  /\ pc[t] = "asked" /\ on[t] \in executing
  /\ pc' = [pc EXCEPT ![t] = "idle"]
  /\ on' = [on EXCEPT ![t] = None]
  /\ UNCHANGED <<store, executing, batch, ok, read, loopRuns, call, bounds>>

\* mutant: whether the job is executing is not looked up
TriggerClaimsAny(t) ==
  /\ pc[t] = "asked"
  /\ executing' = executing \cup {on[t]}
  /\ pc' = [pc EXCEPT ![t] = "claimed"]
  /\ UNCHANGED <<store, batch, on, ok, read, loopRuns, call, bounds>>

TriggerClaims(t) ==
  /\ pc[t] = "asked" /\ on[t] \notin executing
  /\ executing' = executing \cup {on[t]}
  /\ pc' = [pc EXCEPT ![t] = "claimed"]
  /\ UNCHANGED <<store, batch, on, ok, read, loopRuns, call, bounds>>

\* The executor is done with its job: the finally block of loop and trigger.
Release(e) ==
  /\ executing' = executing \ {on[e]}
  /\ pc' = [pc EXCEPT ![e] = "idle"]
  /\ on' = [on EXCEPT ![e] = None]
  /\ ok' = [ok EXCEPT ![e] = FALSE]
  /\ read' = [read EXCEPT ![e] = 0]
  /\ UNCHANGED <<batch, loopRuns>>

\* The row is loaded to record a result.  When it is gone nothing is recorded.
LoadsRow(e, success) ==
  IF Exists(on[e])
  THEN /\ pc' = [pc EXCEPT ![e] = "recording"]
       /\ ok' = [ok EXCEPT ![e] = success]
       /\ read' = [read EXCEPT ![e] = row[on[e]].fail_count]
       /\ UNCHANGED <<executing, batch, on, loopRuns>>
  ELSE Release(e)

\* The job is loaded again, and executed unless it has been deleted.
TriggerLoads(t) ==
  /\ pc[t] = "claimed"
  /\ IF Exists(on[t])
     THEN /\ pc' = [pc EXCEPT ![t] = "running"]
          /\ UNCHANGED <<executing, batch, on, ok, read, loopRuns>>
     ELSE Release(t)
  /\ UNCHANGED <<store, call, bounds>>

\* The database refuses to load it: the trigger records a failure.
TriggerLoadFails(t) ==
  /\ pc[t] = "claimed"
  /\ Lose
  /\ LoadsRow(t, FALSE)
  /\ UNCHANGED <<store, call, admin>>

-----------------------------------------------------------------------------
(* _execute_job and _record_execution                                      *)

RunEnds(e, success) ==
  /\ pc[e] = "running"
  /\ LoadsRow(e, success)
  /\ UNCHANGED <<store, call, bounds>>

\* The row a result leaves: a one-shot is over, a recurring job has its next slot.
Recorded(j, success, count) ==
  [row[j] EXCEPT !.fail_count = IF success THEN 0 ELSE count + 1,
                 !.backoff = ~success,
                 !.executed = j \in OneShots,
                 !.enabled = @ /\ j \notin OneShots,
                 !.due = @ /\ j \in OneShots]

\* The result is committed; the row may be gone, then nothing is.
Records(e) ==
  LET j == on[e] IN
  /\ pc[e] = "recording"
  /\ IF Exists(j)
     THEN /\ row' = [row EXCEPT ![j] = Recorded(j, ok[e], read[e])]
          /\ tries' = [tries EXCEPT ![j] = IF ok[e] THEN 0 ELSE @ + 1]
          /\ call' = [o \in OneShots |->
                        IF j \in OneShots /\ call[o] = "waiting" THEN "served"
                                                                 ELSE call[o]]
     ELSE UNCHANGED <<store, call>>
  /\ Release(e)
  /\ UNCHANGED bounds

\* mutant: the error ends the run past the finally block
RecordFailsHeld(e) ==
  /\ pc[e] \in {"running", "recording"}
  /\ Lose
  /\ pc' = [pc EXCEPT ![e] = "idle"]
  /\ on' = [on EXCEPT ![e] = None]
  /\ UNCHANGED <<store, executing, batch, ok, read, loopRuns, call, admin>>

\* The database refuses: the failure is logged and the row stays as it was.
RecordFails(e) ==
  /\ pc[e] \in {"running", "recording"}
  /\ Lose
  /\ Release(e)
  /\ UNCHANGED <<store, call, admin>>

-----------------------------------------------------------------------------
(* schedule_once                                                           *)

\* Ask for a pending one-shot of the name.  With several the query fails, and as
\* with one nothing is inserted.
CallLooks(o) ==
  /\ call[o] = "idle" /\ row[o].state = "new"
  /\ call' = [call EXCEPT ![o] =
                IF \E p \in OneShots : Pending(p) THEN "waiting" ELSE "inserting"]
  /\ UNCHANGED <<store, runs, bounds>>

CallInserts(o) ==
  /\ call[o] = "inserting"
  /\ row' = [row EXCEPT ![o] = NewRow(TRUE)]
  /\ call' = [call EXCEPT ![o] = "waiting"]
  /\ UNCHANGED <<tries, runs, bounds>>

-----------------------------------------------------------------------------
(* The administrator                                                       *)

Change(j, r) == /\ row' = [row EXCEPT ![j] = r]
                /\ UNCHANGED <<runs, call, lost>>

Create(j, enabled) ==
  /\ Administer
  /\ row[j].state = "new"
  /\ j \in OneShots => call[j] = "idle"
  /\ Change(j, NewRow(enabled)) /\ UNCHANGED tries

ResetCircuit(j) ==
  /\ Administer /\ Exists(j)
  /\ Change(j, [row[j] EXCEPT !.fail_count = 0, !.backoff = FALSE, !.due = TRUE])
  /\ tries' = [tries EXCEPT ![j] = 0]

SetEnabled(j, enabled) ==
  /\ Administer /\ Exists(j)
  /\ Change(j, [row[j] EXCEPT !.enabled = enabled]) /\ UNCHANGED tries

\* A new cron expression comes with a new slot.
Reschedule(j) ==
  /\ Administer /\ Exists(j)
  /\ Change(j, [row[j] EXCEPT !.due = FALSE]) /\ UNCHANGED tries

\* Of a row that is gone, the model remembers whether its one-shot was executed.
Deletes(j) ==
  /\ Exists(j)
  /\ Change(j, [NewRow(FALSE) EXCEPT !.state = "gone", !.executed = row[j].executed])
  /\ tries' = [tries EXCEPT ![j] = 0]

Delete(j) == Administer /\ Deletes(j)

\* The task log_cleanup deletes one-shots that were executed long ago.
CleanUp(o) == row[o].executed /\ Deletes(o) /\ UNCHANGED admin

-----------------------------------------------------------------------------
(* Time and restarts                                                       *)

SlotComes(j) ==
  /\ Exists(j) /\ ~row[j].due
  /\ Change(j, [row[j] EXCEPT !.due = TRUE]) /\ UNCHANGED <<tries, admin>>

\* Nobody reads the backoff of an executed one-shot again.
BackoffEnds(j) ==
  /\ Exists(j) /\ row[j].backoff /\ ~row[j].executed
  /\ Change(j, [row[j] EXCEPT !.backoff = FALSE]) /\ UNCHANGED <<tries, admin>>

\* Whatever was in progress is over.  The start creates the seeded jobs that are
\* missing, and gives every enabled recurring job its next slot.
Restart ==
  /\ Lose
  /\ row' = [j \in Jobs |->
       IF j \in Seeded /\ ~Exists(j) THEN NewRow(TRUE)
       ELSE IF j \in Recurring /\ Exists(j) /\ row[j].enabled
            THEN [row[j] EXCEPT !.due = FALSE]
       ELSE row[j]]
  /\ executing' = {} /\ batch' = {}
  /\ pc' = [e \in Executors |-> "idle"] /\ on' = [e \in Executors |-> None]
  /\ ok' = [e \in Executors |-> FALSE] /\ read' = [e \in Executors |-> 0]
  /\ call' = [o \in OneShots |-> IF call[o] = "inserting" THEN "idle" ELSE call[o]]
  /\ UNCHANGED <<tries, loopRuns, admin>>

-----------------------------------------------------------------------------
LoopStep == LoopSelects \/ \E j \in Jobs : LoopSkips(j) \/ LoopStarts(j)
TriggerStep(t) == TriggerRefused(t) \/ TriggerClaims(t)
                  \/ TriggerLoads(t) \/ TriggerLoadFails(t)
RunStep(e) == \/ \E success \in BOOLEAN : RunEnds(e, success)
              \/ Records(e) \/ RecordFails(e)
AdminStep(j) == \/ \E enabled \in BOOLEAN : Create(j, enabled) \/ SetEnabled(j, enabled)
                \/ ResetCircuit(j) \/ Reschedule(j) \/ Delete(j)
TimeStep(j) == SlotComes(j) \/ BackoffEnds(j)

Next ==
  \/ LoopStep
  \/ \E t \in Triggers : TriggerStep(t) \/ \E j \in Jobs : TriggerAsks(t, j)
  \/ \E e \in Executors : RunStep(e)
  \/ \E o \in OneShots : CallLooks(o) \/ CallInserts(o) \/ CleanUp(o)
  \/ \E j \in Jobs : AdminStep(j) \/ TimeStep(j)
  \/ Restart

Spec == Init /\ [][Next]_vars

\* Jobs end, the database answers and time passes.  Nobody has to trigger, change
\* or schedule a job.
Fairness ==
  /\ WF_vars(LoopStep \/ RunStep(Loop))
  /\ \A t \in Triggers : WF_vars(TriggerStep(t) \/ RunStep(t))
  /\ \A o \in OneShots : WF_vars(CallInserts(o))
  /\ \A j \in Jobs : WF_vars(SlotComes(j)) /\ WF_vars(BackoffEnds(j))
FairSpec == Spec /\ Fairness

-----------------------------------------------------------------------------
(* Properties                                                              *)

\* No job runs twice at a time, however triggers and the loop overlap, and no entry
\* of _executing_jobs is left behind, which would block the job for good.
OneRunPerJob ==
  /\ executing = {on[e] : e \in {x \in Executors : pc[x] \in Busy}}
  /\ \A d, e \in Executors :
       pc[d] \in Busy /\ pc[e] \in Busy /\ on[d] = on[e] => d = e

\* The circuit breaker: a job that keeps failing is tried no more often, until
\* somebody resets it, than the limit and once for each of those who found its
\* circuit still closed.  A reset that a recording overwrites does not raise it.
RetriesBounded ==
  \A j \in Jobs : tries[j] < Limit + Cardinality(Executors)

\* The loop runs a one-shot once.  Only a result that was lost with a restart or
\* refused by the database makes it run it again; enabling it does not.
LoopRunsOnce == \A o \in OneShots : loopRuns[o] <= 1 + lost

\* A recurring job whose slot has come gets its run, unless it is disabled, deleted
\* or paused: no run, trigger or lost result blocks it for good.
DueIsRun ==
  \A j \in Recurring : []<>~(Exists(j) /\ row[j].enabled /\ row[j].due
                              /\ ~CircuitOpen(j))

\* A pending one-shot an administrator has deleted or disabled.
Withdrawn == \E o \in OneShots : /\ ~row[o].executed
                                 /\ \/ row[o].state = "gone"
                                    \/ Exists(o) /\ ~row[o].enabled

\* A call of schedule_once is followed by a recorded run, whether it inserted the
\* one-shot or found one pending, also across restarts.
CallServed == \A o \in OneShots : call[o] = "waiting" ~> call[o] = "served" \/ Withdrawn
=============================================================================
