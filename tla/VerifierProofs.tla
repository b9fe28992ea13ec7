--------------------------- MODULE VerifierProofs ---------------------------
(* Proofs about Verifier: its type invariant, that at most one enforcement *)
(* is alive, and that without overlapping commands the newest is enforced. *)
EXTENDS Verifier, TLAPS

(* Every state of Verifier is well typed, for any number of commands and   *)
(* deviation notices (the tasks of command_verifier.py and its callers).   *)
THEOREM TypeCorrect == Spec => []TypeOK
<1>1. Init => TypeOK
  <2> SUFFICES ASSUME Init PROVE TypeOK
    OBVIOUS
  <2> USE DEF Init, States, Directions
  <2>1. command \in [Commands -> CommandPC] /\ enforcer \in [Commands -> EnforcerPC]
    BY DEF CommandPC, EnforcerPC
  <2>2. carry \in [Commands -> States] /\ starters \subseteq Commands
    OBVIOUS
  <2>3. correction \in [Corrections -> Directions \cup {"idle", "notified"}]
    OBVIOUS
  <2>4. failures \in 0..MaxFailures /\ drifts \in 0..MaxUpsets /\ restarts \in 0..MaxUpsets
    BY CommandsAssumption
  <2>5. cooling \in BOOLEAN
    OBVIOUS
  <2>6. QED BY <2>1, <2>2, <2>3, <2>4, <2>5 DEF TypeOK
<1>2. TypeOK /\ [Next]_vars => TypeOK'
  <2> SUFFICES ASSUME TypeOK, [Next]_vars PROVE TypeOK'
    OBVIOUS
  <2> USE CommandsAssumption
  <2> USE DEF TypeOK, States, Directions, CommandPC, EnforcerPC, device, requests,
              verification, polls, bounds, Fail, Reads, Finally, CancelActive
  <2>1. ASSUME NEW c \in Commands, Issue(c) PROVE TypeOK'
    BY <2>1 DEF Issue
  <2>2. ASSUME NEW c \in Commands, CommandStep(c) PROVE TypeOK'
    <3>1. CASE CancelVerification(c) BY <3>1 DEF CancelVerification
    <3>2. CASE CancelReturns(c) BY <3>2 DEF CancelReturns
    <3>3. CASE Refused(c) BY <3>3 DEF Refused
    <3>4. CASE Sent(c) BY <3>4 DEF Sent
    <3>5. CASE Misunderstood(c) BY <3>5 DEF Misunderstood
    <3>6. CASE SendFails(c) BY <3>6 DEF SendFails
    <3>7. CASE WriteState(c) BY <3>7 DEF WriteState
    <3>8. CASE Finish(c) BY <3>8 DEF Finish
    <3>9. QED BY <2>2, <3>1, <3>2, <3>3, <3>4, <3>5, <3>6, <3>7, <3>8 DEF CommandStep
  <2>3. ASSUME NEW c \in Commands, VerificationStep(c) PROVE TypeOK'
    <3>1. CASE StartVerification(c) BY <3>1 DEF StartVerification
    <3>2. CASE CreateVerification(c) BY <3>2 DEF CreateVerification
    <3>3. CASE CancelledEnds(c) BY <3>3 DEF CancelledEnds
    <3>4. CASE BeginEnforcing(c) BY <3>4 DEF BeginEnforcing
    <3>5. CASE FinalCheck(c) BY <3>5 DEF FinalCheck
    <3>6. CASE FinalCheckFails(c) BY <3>6 DEF FinalCheckFails
    <3>7. CASE FinalMark(c) BY <3>7 DEF FinalMark
    <3>8. QED BY <2>3, <3>1, <3>2, <3>3, <3>4, <3>5, <3>6, <3>7 DEF VerificationStep
  <2>4. ASSUME NEW c \in Commands, EnforcementEnds(c) PROVE TypeOK'
    BY <2>4 DEF EnforcementEnds
  <2>5. ASSUME NEW k \in Corrections, CorrectionStep(k) PROVE TypeOK'
    <3>1. CASE CorrectionLooksUp(k) BY <3>1 DEF CorrectionLooksUp
    <3>2. CASE CorrectionRefused(k) BY <3>2 DEF CorrectionRefused
    <3>3. CASE CorrectionSent(k) BY <3>3 DEF CorrectionSent
    <3>4. QED BY <2>5, <3>1, <3>2, <3>3 DEF CorrectionStep
  <2>6. CASE PollStep
    <3>1. CASE PollReads BY <3>1 DEF PollReads
    <3>2. CASE PollWrites BY <3>2 DEF PollWrites
    <3>3. CASE PollNotifies BY <3>3 DEF PollNotifies
    <3>4. CASE PollFails BY <3>4 DEF PollFails
    <3>5. CASE PollMarksError BY <3>5 DEF PollMarksError
    <3>6. QED BY <2>6, <3>1, <3>2, <3>3, <3>4, <3>5 DEF PollStep
  <2>7. CASE CooldownEnds BY <2>7 DEF CooldownEnds
  <2>8. CASE DeviceDrifts
    <3>1. drifts' \in 0..MaxUpsets
      BY <2>8, CommandsAssumption DEF DeviceDrifts, Upset
    <3>2. QED BY <2>8, <3>1 DEF DeviceDrifts
  <2>9. CASE Restart
    <3>1. command' \in [Commands -> CommandPC] /\ enforcer' \in [Commands -> EnforcerPC]
      BY <2>9 DEF Restart
    <3>2. carry' \in [Commands -> States] /\ starters' \subseteq Commands
      BY <2>9 DEF Restart
    <3>3. correction' \in [Corrections -> Directions \cup {"idle", "notified"}]
      BY <2>9 DEF Restart
    <3>4. restarts' \in 0..MaxUpsets
      BY <2>9, CommandsAssumption DEF Restart, Upset
    <3>5. cooling' \in BOOLEAN
      BY <2>9 DEF Restart
    <3>6. QED BY <2>9, <3>1, <3>2, <3>3, <3>4, <3>5 DEF Restart
  <2>10. CASE UNCHANGED vars BY <2>10 DEF vars
  <2>11. QED
    BY <2>1, <2>2, <2>3, <2>4, <2>5, <2>6, <2>7, <2>8, <2>9, <2>10 DEF Next
<1>3. QED BY <1>1, <1>2, PTL DEF Spec

-----------------------------------------------------------------------------
(* While a task holds the lock, no verification is on the books; while     *)
(* nobody does, no cancelled one is still ending.                          *)
LockInv ==
  /\ lock # None => active = None
  /\ lock = None => CancelDone

EnforcerInv == TypeOK /\ OneEnforcer /\ LockInv

LEMMA EnforcerCorrect == Spec => []EnforcerInv
<1>1. Init => OneEnforcer /\ LockInv
  BY CommandsAssumption DEF Init, OneEnforcer, LockInv, Verifying, CancelDone
<1>2. EnforcerInv /\ TypeOK' /\ [Next]_vars => (OneEnforcer /\ LockInv)'
  <2> SUFFICES ASSUME EnforcerInv, TypeOK', [Next]_vars PROVE (OneEnforcer /\ LockInv)'
    OBVIOUS
  <2> USE CommandsAssumption
  <2> USE DEF EnforcerInv, TypeOK, OneEnforcer, LockInv, Verifying, CancelDone,
              Finally, CancelActive, verification, requests
  <2>1. ASSUME NEW c \in Commands, VerificationStep(c) PROVE (OneEnforcer /\ LockInv)'
    <3>1. CASE StartVerification(c) BY <3>1 DEF StartVerification
    <3>2. CASE CreateVerification(c) BY <3>2 DEF CreateVerification
    <3>3. CASE CancelledEnds(c) BY <3>3 DEF CancelledEnds
    <3>4. CASE BeginEnforcing(c) BY <3>4 DEF BeginEnforcing, Directions
    <3>5. CASE FinalCheck(c) BY <3>5 DEF FinalCheck
    <3>6. CASE FinalCheckFails(c) BY <3>6 DEF FinalCheckFails
    <3>7. CASE FinalMark(c) BY <3>7 DEF FinalMark
    <3>8. QED BY <2>1, <3>1, <3>2, <3>3, <3>4, <3>5, <3>6, <3>7 DEF VerificationStep
  <2>2. ASSUME NEW c \in Commands, EnforcementEnds(c) PROVE (OneEnforcer /\ LockInv)'
    BY <2>2 DEF EnforcementEnds
  <2>3. ASSUME NEW c \in Commands, CancelVerification(c)
        PROVE (OneEnforcer /\ LockInv)'
    BY <2>3 DEF CancelVerification
  <2>4. ASSUME NEW c \in Commands, CancelReturns(c) PROVE (OneEnforcer /\ LockInv)'
    BY <2>4 DEF CancelReturns
  <2>5. CASE Restart BY <2>5 DEF Restart
  <2>6. CASE UNCHANGED verification BY <2>6
  <2>7. QED
    BY <2>1, <2>2, <2>3, <2>4, <2>5, <2>6
    DEF Next, CommandStep, PollStep, CorrectionStep, Issue, Refused, Sent, Misunderstood,
        SendFails, WriteState, Finish, PollReads, PollWrites, PollNotifies, PollFails,
        PollMarksError, CorrectionLooksUp, CorrectionRefused, CorrectionSent,
        CooldownEnds, DeviceDrifts, vars
<1>3. QED BY <1>1, <1>2, TypeCorrect, PTL DEF Spec, EnforcerInv

(* No start, cancellation or end of a verification touches another's entry *)
(* in _active_verifications or _fast_poll_devices, whatever the overlap.   *)
THEOREM OneEnforcerCorrect == Spec => []OneEnforcer
<1>1. EnforcerInv => OneEnforcer BY DEF EnforcerInv
<1>2. QED BY <1>1, EnforcerCorrect, PTL

-----------------------------------------------------------------------------
(* Without overlap, only the newest command has tasks on their way to a    *)
(* verification; once it has passed the cancellation, no older             *)
(* verification is active.                                                 *)
NewestOnly ==
  /\ \A c \in Commands : InProgress(c) => c = newest /\ starters = {}
  /\ \A c \in Commands : InProgress(c) /\ command[c] # "cancel" => active = None
  /\ \A c \in Commands : InProgress(c) /\ command[c] # "cancelling" => lock = None
  /\ starters = {} \/ (starters = {newest} /\ active = None)
  /\ lock # None => lock = newest /\ starters = {}
  /\ active # None => active = newest \/ \E c \in Commands : InProgress(c)

(* If commands do not overlap, the enforcement that is active when all is  *)
(* quiet is the one of the newest command (command_verifier.py:58).        *)
THEOREM SerialEnforcesNewest == ~Overlap => (Spec => []EnforcesNewest)
<1> SUFFICES ASSUME ~Overlap PROVE Spec => []EnforcesNewest
  OBVIOUS
<1>1. Init => NewestOnly
  BY DEF Init, NewestOnly, InProgress
<1>2. TypeOK /\ TypeOK' /\ NewestOnly /\ [Next]_vars => NewestOnly'
  <2> SUFFICES ASSUME TypeOK, TypeOK', NewestOnly, [Next]_vars PROVE NewestOnly'
    OBVIOUS
  <2> USE CommandsAssumption
  <2> USE DEF NewestOnly, InProgress, TypeOK, CommandPC, Finally, CancelActive,
              verification, requests
  <2>1. ASSUME NEW c \in Commands, Issue(c) PROVE NewestOnly'
    BY <2>1 DEF Issue, Quiet
  <2>2. ASSUME NEW c \in Commands, CommandStep(c) PROVE NewestOnly'
    <3>1. CASE CancelVerification(c) BY <3>1 DEF CancelVerification
    <3>2. CASE CancelReturns(c) BY <3>2 DEF CancelReturns
    <3>3. CASE Refused(c) BY <3>3 DEF Refused
    <3>4. CASE Sent(c) BY <3>4 DEF Sent
    <3>5. CASE Misunderstood(c) BY <3>5 DEF Misunderstood
    <3>6. CASE SendFails(c) BY <3>6 DEF SendFails
    <3>7. CASE WriteState(c) BY <3>7 DEF WriteState
    <3>8. CASE Finish(c)
      <4>1. c = newest /\ starters = {} /\ active = None /\ lock = None
        <5>1. InProgress(c) /\ command[c] \notin {"cancel", "cancelling"}
          BY <3>8 DEF Finish
        <5>2. QED BY <5>1
      <4>2. starters' \in {{}, {c}} BY <3>8, <4>1 DEF Finish
      <4>3. QED BY <3>8, <4>1, <4>2 DEF Finish
    <3>9. QED BY <2>2, <3>1, <3>2, <3>3, <3>4, <3>5, <3>6, <3>7, <3>8 DEF CommandStep
  <2>3. ASSUME NEW c \in Commands, VerificationStep(c) PROVE NewestOnly'
    <3>1. CASE StartVerification(c)
      <4>1. starters = {newest} /\ active = None BY <3>1 DEF StartVerification
      <4>2. c = newest /\ starters' = {} BY <3>1, <4>1 DEF StartVerification
      <4>3. \A d \in Commands : ~InProgress(d) BY <3>1 DEF StartVerification
      <4>4. QED BY <3>1, <4>1, <4>2, <4>3 DEF StartVerification
    <3>2. CASE CreateVerification(c) BY <3>2 DEF CreateVerification
    <3>3. CASE CancelledEnds(c) BY <3>3 DEF CancelledEnds
    <3>4. CASE BeginEnforcing(c) BY <3>4 DEF BeginEnforcing
    <3>5. CASE FinalCheck(c) BY <3>5 DEF FinalCheck
    <3>6. CASE FinalCheckFails(c) BY <3>6 DEF FinalCheckFails
    <3>7. CASE FinalMark(c) BY <3>7 DEF FinalMark
    <3>8. QED BY <2>3, <3>1, <3>2, <3>3, <3>4, <3>5, <3>6, <3>7 DEF VerificationStep
  <2>4. ASSUME NEW c \in Commands, EnforcementEnds(c) PROVE NewestOnly'
    BY <2>4 DEF EnforcementEnds
  <2>5. CASE Restart BY <2>5 DEF Restart
  <2>6. CASE UNCHANGED <<newest, command, starters, lock, active>> BY <2>6
  <2>7. QED
    BY <2>1, <2>2, <2>3, <2>4, <2>5, <2>6
    DEF Next, PollStep, CorrectionStep, PollReads, PollWrites, PollNotifies, PollFails,
        PollMarksError, CorrectionLooksUp, CorrectionRefused, CorrectionSent,
        CooldownEnds, DeviceDrifts, vars
<1>3. NewestOnly => EnforcesNewest
  BY DEF NewestOnly, EnforcesNewest, Quiet
<1>4. QED BY <1>1, <1>2, <1>3, TypeCorrect, PTL DEF Spec

-----------------------------------------------------------------------------
(* Who gives the lock back, and how often a command is verified            *)

(* A call of verify_devices waits for the lock before its verification     *)
(* exists.                                                                 *)
Calls ==
  /\ \A c \in Commands : command[c] # "done" => enforcer[c] = "none" /\ c \notin starters
  /\ \A c \in Commands : c \in starters => enforcer[c] = "none" /\ c # lock

(* Whoever holds the lock waits for a task it has cancelled: the request   *)
(* of a newer command, or the verification that is about to be made.       *)
LockHeld ==
  /\ \A c \in Commands : command[c] = "cancelling" => lock = c
  /\ lock # None => \/ command[lock] = "cancelling"
                    \/ command[lock] = "done" /\ enforcer[lock] = "none"
  /\ \A v, w \in Commands :
       enforcer[v] \in {"cancelled", "dropped"} /\ enforcer[w] \in {"cancelled", "dropped"}
         => v = w

CallsInv == EnforcerInv /\ Calls /\ LockHeld

LEMMA CallsStep ==
  ASSUME CallsInv, TypeOK', [Next]_vars PROVE (Calls /\ LockHeld)'
<1> USE CommandsAssumption
<1>1. TypeOK /\ Calls /\ LockHeld BY DEF CallsInv, EnforcerInv
<1>2. /\ command \in [Commands -> CommandPC] /\ enforcer \in [Commands -> EnforcerPC]
      /\ lock \in Commands \cup {None} /\ active \in Commands \cup {None}
      /\ \A v \in Commands : Verifying(v) <=> active = v
      /\ lock = None => CancelDone
      /\ lock # None => active = None
  BY DEF CallsInv, EnforcerInv, TypeOK, OneEnforcer, LockInv
<1>3. CASE UNCHANGED <<command, enforcer, starters, lock>>
  BY <1>1, <1>3 DEF Calls, LockHeld
<1>4. ASSUME NEW c \in Commands, CommandStep(c) PROVE (Calls /\ LockHeld)'
  <2>1. CASE Finish(c)
    <3>1. /\ command[c] \notin {"done", "cancelling"} /\ command' = [command EXCEPT ![c] = "done"]
          /\ UNCHANGED <<enforcer, lock>>
          /\ starters' \in {starters, starters \cup {c}}
      BY <2>1 DEF Finish, verification
    <3>2. c \notin starters /\ enforcer[c] = "none" /\ lock # c
      BY <1>1, <3>1 DEF Calls, LockHeld
    <3>3. LockHeld' BY <1>1, <1>2, <3>1, <3>2 DEF LockHeld
    <3>4. Calls' BY <1>1, <1>2, <3>1, <3>2 DEF Calls
    <3>5. QED BY <3>3, <3>4
  <2>2. CASE CancelVerification(c)
    <3>1. /\ command[c] = "cancel" /\ lock = None /\ UNCHANGED starters
          /\ \/ command' = [command EXCEPT ![c] = "send"] /\ UNCHANGED <<enforcer, lock>>
             \/ /\ command' = [command EXCEPT ![c] = "cancelling"] /\ lock' = c
                /\ active # None
                /\ \E p \in {"cancelled", "dropped"} :
                     enforcer' = [enforcer EXCEPT ![active] = p]
      BY <2>2 DEF CancelVerification, CancelActive, verification
    <3>2. c \notin starters /\ enforcer[c] = "none" BY <1>1, <3>1 DEF Calls
    <3>3. LockHeld' BY <1>1, <1>2, <3>1, <3>2 DEF LockHeld, CancelDone
    <3>4. active # None => command[active] = "done" /\ enforcer[active] # "none"
      BY <1>1, <1>2 DEF Calls, Verifying
    <3>5. Calls' BY <1>1, <1>2, <3>1, <3>2, <3>4 DEF Calls
    <3>6. QED BY <3>3, <3>5
  <2>3. CASE CancelReturns(c)
    <3>1. /\ command[c] = "cancelling" /\ CancelDone /\ command' = [command EXCEPT ![c] = "send"]
          /\ lock' = None /\ UNCHANGED <<starters, enforcer>>
      BY <2>3 DEF CancelReturns
    <3>2. LockHeld' BY <1>1, <1>2, <3>1 DEF LockHeld, CancelDone
    <3>3. Calls' BY <1>1, <1>2, <3>1 DEF Calls
    <3>4. QED BY <3>2, <3>3
  <2>4. ASSUME NEW p \in {"refused", "write", "failed", "answered"},
               command[c] \in {"send", "write"}, command' = [command EXCEPT ![c] = p],
               UNCHANGED <<starters, enforcer, lock>>
        PROVE  (Calls /\ LockHeld)'
    BY <1>1, <1>2, <2>4 DEF Calls, LockHeld
  <2>5. QED
    BY <1>4, <2>1, <2>2, <2>3, <2>4
    DEF CommandStep, Refused, Sent, Misunderstood, SendFails, WriteState, verification
<1>5. ASSUME NEW c \in Commands, Issue(c) PROVE (Calls /\ LockHeld)'
  <2>1. /\ command[c] = "new" /\ UNCHANGED <<starters, enforcer, lock>>
        /\ \E p \in {"send", "cancel"} : command' = [command EXCEPT ![c] = p]
    BY <1>5 DEF Issue, verification
  <2>2. QED BY <1>1, <1>2, <2>1 DEF Calls, LockHeld
<1>6. ASSUME NEW c \in Commands, VerificationStep(c) \/ EnforcementEnds(c) PROVE (Calls /\ LockHeld)'
  <2>1. CASE StartVerification(c)
    <3>1. /\ c \in starters /\ lock = None /\ starters' = starters \ {c}
          /\ UNCHANGED command
          /\ \/ lock' = None /\ enforcer' = [enforcer EXCEPT ![c] = "created"]
             \/ /\ lock' = c /\ active # None
                /\ \E p \in {"cancelled", "dropped"} :
                     enforcer' = [enforcer EXCEPT ![active] = p]
      BY <2>1 DEF StartVerification, CancelActive
    <3>3. enforcer[c] = "none" /\ command[c] = "done" BY <1>1, <3>1 DEF Calls
    <3>4. active # None => command[active] = "done" /\ enforcer[active] # "none"
      BY <1>1, <1>2 DEF Calls, Verifying
    <3>5. Calls' BY <1>1, <1>2, <3>1, <3>3, <3>4 DEF Calls
    <3>6. LockHeld' BY <1>1, <1>2, <3>1, <3>3, <3>4 DEF LockHeld, CancelDone
    <3>7. QED BY <3>5, <3>6
  <2>2. CASE CreateVerification(c)
    <3>1. /\ lock = c /\ command[c] = "done" /\ CancelDone /\ lock' = None
          /\ enforcer' = [enforcer EXCEPT ![c] = "created"] /\ UNCHANGED <<command, starters>>
      BY <2>2 DEF CreateVerification, requests
    <3>2. Calls' BY <1>1, <1>2, <3>1 DEF Calls
    <3>3. LockHeld' BY <1>1, <1>2, <3>1 DEF LockHeld, CancelDone
    <3>4. QED BY <3>2, <3>3
  <2>3. ASSUME NEW p \in {"enforcing", "checking", "marking", "ended"}, enforcer[c] # "none",
               enforcer' = [enforcer EXCEPT ![c] = p], UNCHANGED <<command, starters, lock>>
        PROVE  (Calls /\ LockHeld)'
    <3>1. Calls' BY <1>1, <1>2, <2>3 DEF Calls
    <3>2. LockHeld' BY <1>1, <1>2, <2>3 DEF LockHeld
    <3>3. QED BY <3>1, <3>2
  <2>4. QED
    BY <1>6, <2>1, <2>2, <2>3
    DEF VerificationStep, CancelledEnds, BeginEnforcing, EnforcementEnds, FinalCheck,
        FinalCheckFails, FinalMark, Finally, requests
<1>7. CASE Restart
  BY <1>1, <1>2, <1>7 DEF Restart, Calls, LockHeld
<1>8. QED
  BY <1>3, <1>4, <1>5, <1>6, <1>7
  DEF Next, PollStep, CorrectionStep, PollReads, PollWrites, PollNotifies, PollFails,
      PollMarksError, CorrectionLooksUp, CorrectionRefused, CorrectionSent, CooldownEnds,
      DeviceDrifts, requests, verification, vars

LEMMA CallsCorrect == Spec => []CallsInv
<1>1. Init => Calls /\ LockHeld
  BY CommandsAssumption DEF Init, Calls, LockHeld
<1>2. CallsInv /\ TypeOK' /\ [Next]_vars => (Calls /\ LockHeld)'
  BY CallsStep
<1>3. QED BY <1>1, <1>2, TypeCorrect, EnforcerCorrect, PTL DEF Spec, CallsInv

(* The lock is never held by a task that waits for another lock or a       *)
(* command: its holder awaits the one task it has cancelled, and goes on   *)
(* when that has ended, which it can do whoever holds the lock             *)
(* (command_verifier.py, _cancel_verification_unlocked).                   *)
LockIsGivenBack == LockHeld /\ (lock = None => CancelDone)

THEOREM LockIsGivenBackCorrect == Spec => []LockIsGivenBack
<1>1. CallsInv => LockIsGivenBack
  BY DEF CallsInv, EnforcerInv, LockInv, LockIsGivenBack
<1>2. QED BY <1>1, CallsCorrect, PTL

(* The stages of a verification, in their order.                           *)
Later ==
  [p \in EnforcerPC |->
     CASE p = "none" -> EnforcerPC \ {"none"}
       [] p = "created" -> {"enforcing", "dropped", "ended"}
       [] p = "enforcing" -> {"checking", "cancelled", "ended"}
       [] p = "checking" -> {"marking", "cancelled", "ended"}
       [] p = "marking" -> {"cancelled", "ended"}
       [] p \in {"cancelled", "dropped"} -> {"ended"}
       [] p = "ended" -> {}]

(* A verification never goes back: a command is enforced once at most, no  *)
(* cancelled or finished enforcement comes to life again, and none that    *)
(* was cancelled marks the device (verify_devices, _verify_single_device). *)
VerifiedOnce ==
  [][\A c \in Commands : enforcer'[c] = enforcer[c] \/ enforcer'[c] \in Later[enforcer[c]]]_vars

THEOREM VerifiedOnceCorrect == Spec => VerifiedOnce
<1>1. ASSUME CallsInv, [Next]_vars
      PROVE  \A c \in Commands : enforcer'[c] = enforcer[c] \/ enforcer'[c] \in Later[enforcer[c]]
  <2> DEFINE Goes == \A c \in Commands :
               enforcer'[c] = enforcer[c] \/ enforcer'[c] \in Later[enforcer[c]]
  <2> SUFFICES Goes OBVIOUS
  <2>1. /\ enforcer \in [Commands -> EnforcerPC] /\ active \in Commands \cup {None}
        /\ \A v \in Commands : Verifying(v) <=> active = v
        /\ Calls /\ LockHeld /\ TypeOK
    BY <1>1 DEF CallsInv, EnforcerInv, TypeOK, OneEnforcer
  <2>2. /\ Later["none"] = EnforcerPC \ {"none"}
        /\ Later["created"] = {"enforcing", "dropped", "ended"}
        /\ Later["enforcing"] = {"checking", "cancelled", "ended"}
        /\ Later["checking"] = {"marking", "cancelled", "ended"}
        /\ Later["marking"] = {"cancelled", "ended"}
        /\ Later["cancelled"] = {"ended"} /\ Later["dropped"] = {"ended"}
    BY DEF Later, EnforcerPC
  <2> HIDE DEF Goes
  <2>3. CASE UNCHANGED enforcer BY <2>3 DEF Goes
  <2>4. ASSUME NEW c \in Commands, NEW p, enforcer' = [enforcer EXCEPT ![c] = p],
               p \in Later[enforcer[c]]
        PROVE  Goes
    BY <2>1, <2>4 DEF Goes
  <2>5. CASE CancelActive /\ active # None
    <3>1. PICK v \in Commands : v = active BY <2>1, <2>5
    <3>2. enforcer[v] \in {"created", "enforcing", "checking", "marking"}
      BY <2>1, <3>1 DEF Verifying
    <3>3. enforcer' = [enforcer EXCEPT ![v] =
                         IF enforcer[v] = "created" THEN "dropped" ELSE "cancelled"]
      BY <2>5, <3>1 DEF CancelActive
    <3>4. QED BY <2>2, <2>4, <3>2, <3>3
  <2>6. ASSUME NEW c \in Commands, VerificationStep(c) \/ EnforcementEnds(c) PROVE Goes
    <3>1. CASE StartVerification(c)
      <4>1. enforcer[c] = "none"
        BY <2>1, <3>1 DEF StartVerification, Calls
      <4>2. CASE active = None
        <5>1. enforcer' = [enforcer EXCEPT ![c] = "created"]
          BY <3>1, <4>2 DEF StartVerification
        <5>2. "created" \in Later[enforcer[c]] BY <2>2, <4>1 DEF EnforcerPC
        <5>3. QED BY <2>4, <5>1, <5>2
      <4>3. CASE active # None
        <5>1. CancelActive BY <3>1, <4>3 DEF StartVerification
        <5>2. QED BY <2>5, <4>3, <5>1
      <4>4. QED BY <4>2, <4>3
    <3>2. CASE CreateVerification(c)
      <4>1. enforcer[c] = "none"
        <5>1. lock = c /\ command[c] = "done" BY <3>2 DEF CreateVerification
        <5>2. QED BY CommandsAssumption, <2>1, <5>1 DEF LockHeld
      <4>2. QED BY <2>2, <2>4, <3>2, <4>1 DEF CreateVerification, EnforcerPC
    <3>3. CASE CancelledEnds(c)
      BY <2>2, <2>4, <3>3 DEF CancelledEnds, Finally
    <3>4. CASE BeginEnforcing(c)
      BY <2>2, <2>4, <3>4 DEF BeginEnforcing, Finally
    <3>5. CASE FinalCheck(c) \/ FinalCheckFails(c) \/ FinalMark(c) \/ EnforcementEnds(c)
      BY <2>2, <2>4, <3>5 DEF FinalCheck, FinalCheckFails, FinalMark, EnforcementEnds, Finally
    <3>6. QED BY <2>6, <3>1, <3>2, <3>3, <3>4, <3>5 DEF VerificationStep
  <2>7. ASSUME NEW c \in Commands, CommandStep(c) PROVE Goes
    <3>1. CASE CancelVerification(c)
      <4>1. UNCHANGED verification \/ (CancelActive /\ active # None)
        BY <3>1 DEF CancelVerification
      <4>2. QED BY <2>3, <2>5, <4>1 DEF verification
    <3>2. CASE ~CancelVerification(c)
      <4>1. UNCHANGED enforcer
        BY <2>7, <3>2
        DEF CommandStep, CancelReturns, Refused, Sent, Misunderstood, SendFails, WriteState,
            Finish, verification
      <4>2. QED BY <2>3, <4>1
    <3>3. QED BY <3>1, <3>2
  <2>8. CASE Restart
    <3>1. \A c \in Commands : command[c] = "new" => enforcer[c] = "none" BY <2>1 DEF Calls
    <3>2. \A c \in Commands : enforcer'[c] = IF command[c] = "new" THEN "none" ELSE "ended"
      BY <2>8 DEF Restart
    <3>3. \A c \in Commands : enforcer[c] # "ended" => "ended" \in Later[enforcer[c]]
      BY <2>1, <2>2 DEF EnforcerPC
    <3>4. QED BY <3>1, <3>2, <3>3 DEF Goes
  <2>9. ASSUME NEW c \in Commands, Issue(c) PROVE Goes
    BY <2>3, <2>9 DEF Issue, verification
  <2>10. CASE (\E k \in Corrections : CorrectionStep(k)) \/ PollStep \/ CooldownEnds
                \/ DeviceDrifts \/ UNCHANGED vars
    <3>1. UNCHANGED enforcer
      BY <2>10
      DEF PollStep, CorrectionStep, PollReads, PollWrites, PollNotifies, PollFails,
          PollMarksError, CorrectionLooksUp, CorrectionRefused, CorrectionSent, CooldownEnds,
          DeviceDrifts, verification, vars
    <3>2. QED BY <2>3, <3>1
  <2>11. QED BY <1>1, <2>6, <2>7, <2>8, <2>9, <2>10 DEF Next
<1>2. QED BY <1>1, CallsCorrect, PTL DEF Spec, VerifiedOnce
=============================================================================
