---------------------------- MODULE PowerService ----------------------------
(***************************************************************************)
(* What the ANEL runner promises to those who call it: the commands that   *)
(* go through its queue are begun one at a time and in the order they came *)
(* in, others overtake them; nothing succeeds that was not begun; and      *)
(* every request gets its one answer, unless the service is stopped.       *)
(***************************************************************************)
EXTENDS Sequences

CONSTANTS
  Requests,
  Lined       \* those that go through the queue

VARIABLES
  status,     \* per request
  line,       \* the queue, its head being served
  begun       \* the requests that were sent to their strip and have no answer yet

svars == <<status, line, begun>>

Statuses == {"new", "open", "ok", "failed", "dropped"}
InLine == {line[i] : i \in DOMAIN line}

Init ==
  /\ status = [r \in Requests |-> "new"]
  /\ line = <<>> /\ begun = {}

Submit(r) ==
  /\ status[r] = "new"
  /\ status' = [status EXCEPT ![r] = "open"]
  /\ line' = IF r \in Lined THEN Append(line, r) ELSE line
  /\ UNCHANGED begun

Turn(r) == status[r] = "open" /\ (r \in Lined => line # <<>> /\ r = Head(line))

Begin(r) ==
  /\ Turn(r) /\ r \notin begun
  /\ begun' = begun \cup {r}
  /\ UNCHANGED <<status, line>>

Succeed(r) ==
  /\ Turn(r) /\ r \in begun
  /\ status' = [status EXCEPT ![r] = "ok"]
  /\ line' = IF r \in Lined THEN Tail(line) ELSE line
  /\ begun' = begun \ {r}

Fail(r) ==
  /\ Turn(r)
  /\ status' = [status EXCEPT ![r] = "failed"]
  /\ line' = IF r \in Lined THEN Tail(line) ELSE line
  /\ begun' = begun \ {r}

\* The service is stopped.
Refuse(r) ==
  /\ status[r] = "new"
  /\ status' = [status EXCEPT ![r] = "failed"]
  /\ UNCHANGED <<line, begun>>

\* The service stops or starts; S are the callers who lose their connection to it.
Drop(S) ==
  /\ InLine \subseteq S /\ \A r \in S : status[r] \in {"new", "open"}
  /\ status' = [r \in Requests |-> IF r \in S THEN "dropped" ELSE status[r]]
  /\ line' = <<>>
  /\ begun' = begun \ S

Next ==
  \/ \E r \in Requests : Submit(r) \/ Begin(r) \/ Succeed(r) \/ Fail(r) \/ Refuse(r)
  \/ \E S \in SUBSET Requests : Drop(S)

Spec == Init /\ [][Next]_svars

\* No request stays unanswered.
Served == \A r \in Requests : status[r] = "open" ~> status[r] # "open"
=============================================================================
