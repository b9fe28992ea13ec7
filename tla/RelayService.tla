---------------------------- MODULE RelayService ----------------------------
(***************************************************************************)
(* What the relay promises to those who send device commands through it:   *)
(* every command has one answer, and takes effect once at most.  A command *)
(* in its turn follows all that had theirs, and these had been sent before *)
(* it; one that is given up in its turn may take effect at any time after. *)
(* Success means that the command took effect in its turn.  Of one that    *)
(* failed nothing is known: it may have taken effect, may still, or never. *)
(***************************************************************************)
EXTENDS Naturals, Sequences

CONSTANT Commands

VARIABLES
  status,    \* per command
  sent,      \* the commands in the order of sending
  executed,  \* and of taking effect
  strayed    \* those given up in their turn

rvars == <<status, sent, executed, strayed>>

Statuses == {"new", "open", "ok", "failed"}

Init ==
  /\ status = [c \in Commands |-> "new"] /\ sent = <<>>
  /\ executed = <<>> /\ strayed = {}

Answer(c, s) == status' = [status EXCEPT ![c] = s]

\* There is no connection.
Refuse(c) == status[c] = "new" /\ Answer(c, "failed") /\ UNCHANGED <<sent, executed, strayed>>

\* The connection that was there may be gone by now.
Submit(c) ==
  /\ status[c] = "new"
  /\ \E s \in {"open", "failed"} : Answer(c, s)
  /\ sent' = Append(sent, c)
  /\ UNCHANGED <<executed, strayed>>

Earlier(n) == {sent[k] : k \in {i \in DOMAIN sent : i < n}}

Range(s) == {s[i] : i \in DOMAIN s}

\* c has not had its turn, and all that had were sent before it.
Turn(c) ==
  \E n \in DOMAIN sent :
    sent[n] = c /\ c \notin Earlier(n) /\ Range(executed) \cup strayed \subseteq Earlier(n)

Execute(c) ==
  /\ Turn(c)
  /\ executed' = Append(executed, c)
  /\ UNCHANGED <<status, sent, strayed>>

GiveUp(c) ==
  /\ Turn(c)
  /\ strayed' = strayed \cup {c}
  /\ UNCHANGED <<status, sent, executed>>

TakeEffect(c) ==
  /\ c \in strayed \ Range(executed)
  /\ executed' = Append(executed, c)
  /\ UNCHANGED <<status, sent, strayed>>

Succeed(c) ==
  /\ status[c] = "open" /\ c \in Range(executed) \ strayed
  /\ Answer(c, "ok")
  /\ UNCHANGED <<sent, executed, strayed>>

Fail(c) == status[c] = "open" /\ Answer(c, "failed") /\ UNCHANGED <<sent, executed, strayed>>

Next ==
  \E c \in Commands :
    \/ Refuse(c) \/ Submit(c) \/ Execute(c) \/ GiveUp(c) \/ TakeEffect(c)
    \/ Succeed(c) \/ Fail(c)

Spec == Init /\ [][Next]_rvars
=============================================================================
