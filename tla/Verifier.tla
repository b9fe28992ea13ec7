------------------------------ MODULE Verifier ------------------------------
(***************************************************************************)
(* The enforcement of commands on one device: the command verifier         *)
(* (orchestrator/command_verifier.py), the part of the orchestrator that   *)
(* sends the commands and starts and cancels the verifications             *)
(* (orchestrator/command_orchestrator.py), and the state monitor, whose    *)
(* polls report deviations back to the verifier                            *)
(* (monitoring/state_monitor.py).                                          *)
(*                                                                         *)
(* Everything runs on one asyncio event loop; an action is the code        *)
(* between two awaits that suspend.  Per command there are up to three     *)
(* tasks: the request itself (command), the call of verify_devices it      *)
(* leaves behind (starters, lock) and the verification (enforcer).  The    *)
(* monitor's poll and the corrections it notifies are tasks of their own.  *)
(* _fast_poll_lock is never held across a suspension and has no variable.  *)
(* The locals of a task that is over (carry, seen) return to "error".      *)
(***************************************************************************)
EXTENDS Naturals

CONSTANTS
  Commands,         \* commands for the device, each given at most once
  Direction,        \* what each asks for
  Enforced,         \* those from the web or the scheduler: they get verified
  Corrections,      \* deviation notices that may be in progress at once
  None,             \* no command
  ManagerCooldown,  \* the device manager refuses commands for a while after one
  Overlap,          \* a command may be given before an earlier one has returned
  MaxFailures,      \* bound on failed requests to the device
  MaxUpsets         \* bound on changes of the device nobody commanded and on
                    \* restarts of the service, together

Directions == {"on", "off"}  \* success_states: off or cooling, on or warming
States == Directions \cup {"error"}

ASSUME CommandsAssumption ==
  /\ Direction \in [Commands -> Directions]
  /\ Enforced \subseteq Commands
  /\ None \notin Commands
  /\ ManagerCooldown \in BOOLEAN /\ Overlap \in BOOLEAN
  /\ MaxFailures \in Nat /\ MaxUpsets \in Nat

VARIABLES
  real,        \* what the device does
  row,         \* devices.state
  cooling,     \* the manager's cooldown is running
  newest,      \* the command given last
  command,     \* per command: the await its request is suspended in
  carry,       \* per command: the state its request, later its verification, writes
  starters,    \* calls of verify_devices that have not had the lock for this device
  lock,        \* the command whose task holds _verification_lock
  active,      \* _active_verifications: the command verified, or None
  enforcer,    \* per command: the await its verification is suspended in
  polling,     \* _fast_poll_devices: the direction registered, or "none"
  poll, seen,  \* the poll in progress, and what it read
  correction,  \* per notice: idle, notified, or the direction about to be sent
  failures, drifts, restarts

device == <<real, row, cooling>>
requests == <<newest, command, carry, starters>>
verification == <<lock, active, enforcer, polling>>
polls == <<poll, seen, correction>>
bounds == <<failures, drifts, restarts>>
vars == <<device, requests, verification, polls, bounds>>

CommandPC == {"new", "cancel", "cancelling", "send", "write", "answered",
              "refused", "failed", "done"}
EnforcerPC == {"none", "created", "enforcing", "checking", "marking",
               "cancelled", "dropped", "ended"}

TypeOK ==
  /\ real \in Directions /\ row \in States /\ cooling \in BOOLEAN
  /\ newest \in Commands \cup {None}
  /\ command \in [Commands -> CommandPC]
  /\ carry \in [Commands -> States]
  /\ starters \subseteq Commands
  /\ lock \in Commands \cup {None}
  /\ active \in Commands \cup {None}
  /\ enforcer \in [Commands -> EnforcerPC]
  /\ polling \in Directions \cup {"none"}
  /\ poll \in {"idle", "read", "written", "lost"}
  /\ seen \in States
  /\ correction \in [Corrections -> Directions \cup {"idle", "notified"}]
  /\ failures \in 0..MaxFailures /\ drifts \in 0..MaxUpsets
  /\ restarts \in 0..MaxUpsets

Init ==
  /\ real \in Directions /\ row = real /\ cooling = FALSE
  /\ newest = None
  /\ command = [c \in Commands |-> "new"]
  /\ carry = [c \in Commands |-> "error"]
  /\ starters = {}
  /\ lock = None /\ active = None
  /\ enforcer = [c \in Commands |-> "none"]
  /\ polling = "none"
  /\ poll = "idle" /\ seen = "error"
  /\ correction = [k \in Corrections |-> "idle"]
  /\ failures = 0 /\ drifts = 0 /\ restarts = 0

Upset == drifts + restarts < MaxUpsets
Fail == failures < MaxFailures /\ failures' = failures + 1

\* A state query that succeeds.  An answer nobody understands is an error state.
Reads(s) == \/ s = real /\ UNCHANGED failures
            \/ s = "error" /\ Fail

-----------------------------------------------------------------------------
(* Cancellation, under _verification_lock                                  *)

\* Forget the active verification, then cancel its task and wait for its end.
\* A task that never ran ends before its try block: its finally is not run.
CancelActive ==
  /\ active' = None
  /\ polling' = "none"
  /\ enforcer' = [enforcer EXCEPT ![active] =
                    IF @ = "created" THEN "dropped" ELSE "cancelled"]

NotAwaited == TRUE  \* mutant: the cancelled task is not awaited

\* The awaited task is over.
CancelDone == \A v \in Commands : enforcer[v] \notin {"cancelled", "dropped"}

\* The end of a verification that ran: its finally block.
Finally(v) ==
  /\ enforcer' = [enforcer EXCEPT ![v] = "ended"]
  /\ polling' = "none"
  /\ active' = None

-----------------------------------------------------------------------------
(* A command                                                               *)

InProgress(c) == command[c] \notin {"new", "done"}
Quiet == (\A c \in Commands : ~InProgress(c)) /\ starters = {} /\ lock = None

\* mutant: a new command leaves the verification of an older one alone
IssueOnly(c) ==
  /\ command[c] = "new"
  /\ Overlap \/ Quiet
  /\ newest' = c
  /\ carry' = [carry EXCEPT ![c] = row]
  /\ command' = [command EXCEPT ![c] = "send"]
  /\ UNCHANGED <<device, starters, verification, polls, bounds>>

\* The device row is loaded, and the verification found active is to be cancelled.
Issue(c) ==
  /\ command[c] = "new"
  /\ Overlap \/ Quiet
  /\ newest' = c
  /\ carry' = [carry EXCEPT ![c] = row]
  /\ command' = [command EXCEPT ![c] = IF active = None THEN "send" ELSE "cancel"]
  /\ UNCHANGED <<device, starters, verification, polls, bounds>>

CancelVerification(c) ==
  /\ command[c] = "cancel" /\ lock = None
  /\ IF active = None
     THEN /\ command' = [command EXCEPT ![c] = "send"]
          /\ UNCHANGED verification
     ELSE /\ command' = [command EXCEPT ![c] = "cancelling"]
          /\ CancelActive
          /\ lock' = c
  /\ UNCHANGED <<device, newest, carry, starters, polls, bounds>>

CancelReturns(c) ==
  /\ command[c] = "cancelling" /\ CancelDone
  /\ command' = [command EXCEPT ![c] = "send"]
  /\ lock' = None
  /\ UNCHANGED <<device, newest, carry, starters, active, enforcer, polling,
                 polls, bounds>>

\* The manager refuses during its cooldown.
Refused(c) ==
  /\ command[c] = "send" /\ cooling
  /\ command' = [command EXCEPT ![c] = "refused"]
  /\ UNCHANGED <<device, newest, carry, starters, verification, polls, bounds>>

Sent(c) ==
  /\ command[c] = "send" /\ ~cooling
  /\ real' = Direction[c]
  /\ carry' = [carry EXCEPT ![c] = Direction[c]]
  /\ command' = [command EXCEPT ![c] = "write"]
  /\ cooling' = ManagerCooldown
  /\ UNCHANGED <<row, newest, starters, verification, polls, bounds>>

\* An answer other than OK counts as success, with the old state or an error.
Misunderstood(c) ==
  /\ command[c] = "send" /\ ~cooling
  /\ Fail
  /\ real' \in {real, Direction[c]}
  /\ \E s \in {carry[c], "error"} : carry' = [carry EXCEPT ![c] = s]
  /\ command' = [command EXCEPT ![c] = "write"]
  /\ cooling' = ManagerCooldown
  /\ UNCHANGED <<row, newest, starters, verification, polls, drifts, restarts>>

\* A timeout or an error; the device may have obeyed.
SendFails(c) ==
  /\ command[c] = "send" /\ ~cooling
  /\ Fail
  /\ real' \in {real, Direction[c]}
  /\ command' = [command EXCEPT ![c] = "failed"]
  /\ UNCHANGED <<row, cooling, newest, carry, starters, verification, polls,
                 drifts, restarts>>

WriteState(c) ==
  /\ command[c] = "write"
  /\ row' = carry[c]
  /\ command' = [command EXCEPT ![c] = "answered"]
  /\ UNCHANGED <<real, cooling, newest, carry, starters, verification, polls, bounds>>

\* mutant: only commands that were answered are verified
FinishAnswered(c) ==
  /\ command[c] \in {"answered", "refused", "failed"}
  /\ command' = [command EXCEPT ![c] = "done"]
  /\ starters' = IF c \in Enforced /\ command[c] = "answered"
                 THEN starters \cup {c} ELSE starters
  /\ carry' = [carry EXCEPT ![c] = "error"]
  /\ UNCHANGED <<device, newest, verification, polls, bounds>>

\* After the stagger and the other devices: a task calls verify_devices.
Finish(c) ==
  /\ command[c] \in {"answered", "refused", "failed"}
  /\ command' = [command EXCEPT ![c] = "done"]
  /\ starters' = IF c \in Enforced /\ command[c] # "failed"
                 THEN starters \cup {c} ELSE starters
  /\ carry' = [carry EXCEPT ![c] = "error"]
  /\ UNCHANGED <<device, newest, verification, polls, bounds>>

-----------------------------------------------------------------------------
(* A verification                                                          *)

\* The lock is taken anew for each device of a call: a call that came first may
\* reach this device last.
StartVerification(c) ==
  /\ c \in starters /\ lock = None
  /\ starters' = starters \ {c}
  /\ IF active = None
     THEN /\ active' = c
          /\ enforcer' = [enforcer EXCEPT ![c] = "created"]
          /\ UNCHANGED <<lock, polling>>
     ELSE /\ CancelActive
          /\ lock' = c
  /\ UNCHANGED <<device, newest, command, carry, polls, bounds>>

CreateVerification(c) ==
  /\ lock = c /\ command[c] = "done" /\ CancelDone
  /\ active' = c
  /\ enforcer' = [enforcer EXCEPT ![c] = "created"]
  /\ lock' = None
  /\ UNCHANGED <<device, requests, polling, polls, bounds>>

\* mutant: the finally block takes the lock to change the books
EndsUnderLock(c) ==
  /\ lock = None
  /\ enforcer[c] \in {"cancelled", "dropped"} /\ Finally(c)
  /\ UNCHANGED <<device, requests, lock, polls, bounds>>

CancelledEnds(c) ==
  /\ \/ enforcer[c] = "cancelled" /\ Finally(c)
     \/ /\ enforcer[c] = "dropped"
        /\ enforcer' = [enforcer EXCEPT ![c] = "ended"]
        /\ UNCHANGED <<active, polling>>
  /\ UNCHANGED <<device, requests, lock, polls, bounds>>

BeginEnforcing(c) ==
  /\ enforcer[c] = "created"
  /\ IF active = None
     THEN Finally(c)
     ELSE /\ enforcer' = [enforcer EXCEPT ![c] = "enforcing"]
          /\ polling' = Direction[c]
          /\ UNCHANGED active
  /\ UNCHANGED <<device, requests, lock, polls, bounds>>

EnforcementEnds(c) ==
  /\ enforcer[c] = "enforcing"
  /\ enforcer' = [enforcer EXCEPT ![c] = "checking"]
  /\ polling' = "none"
  /\ UNCHANGED <<device, requests, lock, active, polls, bounds>>

FinalCheck(c) ==
  /\ enforcer[c] = "checking"
  /\ \E s \in States :
       /\ Reads(s)
       /\ carry' = [carry EXCEPT ![c] = IF s = Direction[c] THEN s ELSE "error"]
  /\ enforcer' = [enforcer EXCEPT ![c] = "marking"]
  /\ UNCHANGED <<device, newest, command, starters, lock, active, polling, polls,
                 drifts, restarts>>

FinalCheckFails(c) ==
  /\ enforcer[c] = "checking"
  /\ Fail
  /\ Finally(c)
  /\ UNCHANGED <<device, requests, lock, polls, drifts, restarts>>

FinalMark(c) ==
  /\ enforcer[c] = "marking"
  /\ row' = carry[c]
  /\ carry' = [carry EXCEPT ![c] = "error"]
  /\ Finally(c)
  /\ UNCHANGED <<real, cooling, newest, command, starters, lock, polls, bounds>>

-----------------------------------------------------------------------------
(* The monitor's polls and the corrections                                 *)

PollReads ==
  /\ poll = "idle"
  /\ \E s \in States : Reads(s) /\ seen' = s
  /\ poll' = "read"
  /\ UNCHANGED <<device, requests, verification, correction, drifts, restarts>>

\* mutant: polls of an enforced device do not reach the database
WritesUnenforced ==
  /\ poll = "read"
  /\ row' = IF polling = "none" THEN seen ELSE row
  /\ poll' = "written"
  /\ UNCHANGED <<real, cooling, requests, verification, seen, correction, bounds>>

PollWrites ==
  /\ poll = "read"
  /\ row' = seen
  /\ poll' = "written"
  /\ UNCHANGED <<real, cooling, requests, verification, seen, correction, bounds>>

DeviatesToOff == polling = "on" /\ seen # "on"  \* mutant: only ON is enforced
Deviates == polling # "none" /\ seen # polling

\* A deviation notice becomes a task of its own.
PollNotifies ==
  /\ poll = "written"
  /\ IF Deviates
     THEN \E k \in Corrections :
            /\ correction[k] = "idle"
            /\ correction' = [correction EXCEPT ![k] = "notified"]
     ELSE UNCHANGED correction
  /\ poll' = "idle"
  /\ seen' = "error"
  /\ UNCHANGED <<device, requests, verification, bounds>>

\* No answer, or the poll's own timeout: an error, unless the device is enforced.
PollFails ==
  /\ poll \in {"idle", "read"}
  /\ Fail
  /\ poll' = IF polling = "none" THEN "lost" ELSE "idle"
  /\ seen' = "error"
  /\ UNCHANGED <<device, requests, verification, correction, drifts, restarts>>

PollMarksError ==
  /\ poll = "lost"
  /\ row' = "error"
  /\ poll' = "idle"
  /\ UNCHANGED <<real, cooling, requests, verification, seen, correction, bounds>>

\* on_state_deviated: the correction takes its direction from the active
\* verification, then loads the device before it sends.
CorrectionLooksUp(k) ==
  /\ correction[k] = "notified"
  /\ correction' = [correction EXCEPT ![k] =
                      IF active = None THEN "idle" ELSE Direction[active]]
  /\ UNCHANGED <<device, requests, verification, poll, seen, bounds>>

CorrectionRefused(k) ==
  /\ correction[k] \in Directions /\ cooling
  /\ correction' = [correction EXCEPT ![k] = "idle"]
  /\ UNCHANGED <<device, requests, verification, poll, seen, bounds>>

CorrectionSent(k) ==
  /\ correction[k] \in Directions /\ ~cooling
  /\ \/ /\ real' = correction[k] /\ cooling' = ManagerCooldown
        /\ UNCHANGED failures
     \/ /\ real' \in {real, correction[k]} /\ cooling' \in {cooling, ManagerCooldown}
        /\ Fail
  /\ correction' = [correction EXCEPT ![k] = "idle"]
  /\ UNCHANGED <<row, requests, verification, poll, seen, drifts, restarts>>

-----------------------------------------------------------------------------
(* The world                                                               *)

CooldownEnds ==
  /\ cooling
  /\ cooling' = FALSE
  /\ UNCHANGED <<real, row, requests, verification, polls, bounds>>

DeviceDrifts ==
  /\ Upset
  /\ drifts' = drifts + 1
  /\ real' \in Directions \ {real}
  /\ UNCHANGED <<row, cooling, requests, verification, polls, failures, restarts>>

\* Every task is gone, and with it every verification.
Restart ==
  /\ Upset
  /\ restarts' = restarts + 1
  /\ command' = [c \in Commands |-> IF command[c] = "new" THEN "new" ELSE "done"]
  /\ enforcer' = [c \in Commands |-> IF command[c] = "new" THEN "none" ELSE "ended"]
  /\ starters' = {}
  /\ lock' = None /\ active' = None /\ polling' = "none"
  /\ poll' = "idle" /\ cooling' = FALSE
  /\ correction' = [k \in Corrections |-> "idle"]
  /\ carry' = [c \in Commands |-> "error"] /\ seen' = "error"
  /\ UNCHANGED <<real, row, newest, failures, drifts>>

CommandStep(c) ==
  \/ CancelVerification(c) \/ CancelReturns(c)
  \/ Refused(c) \/ Sent(c) \/ Misunderstood(c) \/ SendFails(c)
  \/ WriteState(c) \/ Finish(c)

\* Everything a verification does but ending its period.
VerificationStep(c) ==
  \/ StartVerification(c) \/ CreateVerification(c) \/ CancelledEnds(c)
  \/ BeginEnforcing(c) \/ FinalCheck(c) \/ FinalCheckFails(c) \/ FinalMark(c)

PollStep == PollReads \/ PollWrites \/ PollNotifies \/ PollFails \/ PollMarksError

CorrectionStep(k) == CorrectionLooksUp(k) \/ CorrectionRefused(k) \/ CorrectionSent(k)

Next ==
  \/ \E c \in Commands :
       Issue(c) \/ CommandStep(c) \/ VerificationStep(c) \/ EnforcementEnds(c)
  \/ \E k \in Corrections : CorrectionStep(k)
  \/ PollStep
  \/ CooldownEnds \/ DeviceDrifts \/ Restart

Spec == Init /\ [][Next]_vars

\* Tasks of the event loop go on, the monitor polls again and again, cooldowns
\* run out.  Nobody has to give a command, and no enforcement period has to
\* end: what is promised holds however long it is.
Fairness ==
  /\ \A c \in Commands : WF_vars(CommandStep(c)) /\ WF_vars(VerificationStep(c))
  /\ \A k \in Corrections : WF_vars(CorrectionStep(k))
  /\ WF_vars(PollStep) /\ WF_vars(CooldownEnds)

FairSpec == Spec /\ Fairness

-----------------------------------------------------------------------------
(* Properties                                                              *)

Verifying(v) == enforcer[v] \in {"created", "enforcing", "checking", "marking"}

(* At most one verification of a device is alive, it is the one the
   verifier has on its books, and the device is polled fast for exactly
   the direction and the time that verification enforces: no start,
   cancellation or natural end, in whatever order they meet at the lock,
   takes down another's entry or leaves one behind. *)
OneEnforcer ==
  /\ \A v \in Commands : Verifying(v) <=> active = v
  /\ polling = IF active # None /\ enforcer[active] = "enforcing"
               THEN Direction[active] ELSE "none"

(* When no command is on its way, what is enforced is what was asked for
   last: "Frontend command cancels current enforcement and starts fresh
   with new target" (command_verifier.py:58). *)
EnforcesNewest == Quiet /\ active # None => active = newest

(* A device that is not as the enforcement wants it is brought there,
   unless the enforcement is over first; drifts, stale readings, the
   manager's cooldown and failing corrections only delay it. *)
EnforcementCorrects ==
  \A c \in Commands :
    enforcer[c] = "enforcing" /\ real # Direction[c]
      ~> real = Direction[c] \/ enforcer[c] # "enforcing"

(* A web or scheduler command that meets the manager's cooldown is carried
   out by its enforcement: "Cooldown failures should still get enforcement
   - the enforcement will retry" (command_orchestrator.py:493). *)
RefusedIsRetried ==
  \A c \in Enforced :
    command[c] = "refused" ~> \/ real = Direction[c]
                             \/ newest # c \/ enforcer[c] = "ended"

(* Every command gets through the cancellation of an older verification,
   and every verification it leaves behind gets its turn at the lock. *)
CommandsReturn ==
  /\ \A c \in Commands : command[c] = "cancel" ~> command[c] = "done"
  /\ starters # {} ~> starters = {} /\ lock = None

(* Once commands, drifts and failures are over, the recorded state is the
   device's and stays so: optimistic writes of commands, stale polls and
   error marks are all repaired. *)
StateCatchesUp == <>[](row = real)
=============================================================================
