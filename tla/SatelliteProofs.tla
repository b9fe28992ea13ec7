-------------------------- MODULE SatelliteProofs --------------------------
(* Proofs about Satellite: its type invariant, that a registered connection *)
(* has a handler, and what the relay promises of commands.                  *)
EXTENDS Satellite, TLAPS

-----------------------------------------------------------------------------
(* Queues and histories                                                    *)

LEMMA AppendFacts ==
  ASSUME NEW S, NEW s \in Seq(S), NEW e \in S
  PROVE  /\ Append(s, e) \in Seq(S)
         /\ ToSet(Append(s, e)) = ToSet(s) \cup {e}
         /\ \A x, y : Before(Append(s, e), x, y) =>
              Before(s, x, y) \/ (y = e /\ x \in ToSet(s))
         /\ \A x, y : Before(s, x, y) => Before(Append(s, e), x, y)
         /\ \A x \in ToSet(s) : Before(Append(s, e), x, e)
<1> DEFINE t == Append(s, e)
<1>1. /\ t \in Seq(S) /\ Len(t) = Len(s) + 1 /\ t[Len(s) + 1] = e
      /\ \A i \in 1..Len(s) : t[i] = s[i]
  OBVIOUS
<1>2. DOMAIN s = 1..Len(s) /\ DOMAIN t = 1..(Len(s) + 1) /\ Len(s) \in Nat
  BY <1>1
<1>3. ToSet(t) = ToSet(s) \cup {e}
  <2>1. ToSet(t) \subseteq ToSet(s) \cup {e} BY <1>1, <1>2 DEF ToSet
  <2>2. ToSet(s) \subseteq ToSet(t) BY <1>1, <1>2 DEF ToSet
  <2>3. e \in ToSet(t) BY <1>1, <1>2 DEF ToSet
  <2>4. QED BY <2>1, <2>2, <2>3
<1>4. ASSUME NEW x, NEW y, Before(t, x, y)
      PROVE  Before(s, x, y) \/ (y = e /\ x \in ToSet(s))
  <2> HIDE DEF t
  <2>1. PICK i, j \in DOMAIN t : i < j /\ t[i] = x /\ t[j] = y
    BY <1>4 DEF Before
  <2>2. i \in 1..Len(s) /\ x \in ToSet(s) BY <1>1, <1>2, <2>1 DEF ToSet
  <2>3. CASE j = Len(s) + 1 BY <1>1, <2>1, <2>2, <2>3
  <2>4. CASE j # Len(s) + 1 BY <1>1, <1>2, <2>1, <2>2, <2>4 DEF Before
  <2>5. QED BY <2>3, <2>4
<1>5. ASSUME NEW x, NEW y, Before(s, x, y) PROVE Before(t, x, y)
  <2> HIDE DEF t
  <2>1. PICK i, j \in DOMAIN s : i < j /\ s[i] = x /\ s[j] = y
    BY <1>5 DEF Before
  <2>2. i \in DOMAIN t /\ j \in DOMAIN t /\ t[i] = x /\ t[j] = y
    BY <1>1, <1>2, <2>1
  <2>3. QED BY <2>1, <2>2 DEF Before
<1>6. ASSUME NEW x \in ToSet(s) PROVE Before(t, x, e)
  <2> HIDE DEF t
  <2>1. PICK i \in DOMAIN s : s[i] = x BY DEF ToSet
  <2>2. /\ i \in DOMAIN t /\ Len(s) + 1 \in DOMAIN t /\ i < Len(s) + 1
        /\ t[i] = x /\ t[Len(s) + 1] = e
    BY <1>1, <1>2, <2>1
  <2>3. QED BY <2>2 DEF Before
<1>7. QED BY <1>1, <1>3, <1>4, <1>5, <1>6

LEMMA TailFacts ==
  ASSUME NEW S, NEW s \in Seq(S), s # <<>>
  PROVE  /\ Head(s) \in S /\ Head(s) \in ToSet(s)
         /\ Tail(s) \in Seq(S)
         /\ ToSet(Tail(s)) \subseteq ToSet(s)
         /\ \A x, y : Before(Tail(s), x, y) => Before(s, x, y)
         /\ \A y \in ToSet(Tail(s)) : Before(s, Head(s), y)
<1> DEFINE t == Tail(s)
<1>1. /\ t \in Seq(S) /\ Len(t) = Len(s) - 1 /\ Len(s) \in Nat \ {0}
      /\ Head(s) = s[1] /\ \A i \in 1..Len(t) : t[i] = s[i + 1]
  OBVIOUS
<1>2. DOMAIN s = 1..Len(s) /\ DOMAIN t = 1..(Len(s) - 1)
  BY <1>1
<1> HIDE DEF t
<1>3. Head(s) \in S /\ Head(s) \in ToSet(s)
  BY <1>1, <1>2 DEF ToSet
<1>4. ToSet(t) \subseteq ToSet(s)
  BY <1>1, <1>2 DEF ToSet
<1>5. ASSUME NEW x, NEW y, Before(t, x, y) PROVE Before(s, x, y)
  <2>1. PICK i, j \in DOMAIN t : i < j /\ t[i] = x /\ t[j] = y
    BY <1>5 DEF Before
  <2>2. /\ i + 1 \in DOMAIN s /\ j + 1 \in DOMAIN s /\ i + 1 < j + 1
        /\ s[i + 1] = x /\ s[j + 1] = y
    BY <1>1, <1>2, <2>1
  <2>3. QED BY <2>2 DEF Before
<1>6. ASSUME NEW y \in ToSet(t) PROVE Before(s, Head(s), y)
  <2>1. PICK j \in DOMAIN t : t[j] = y BY DEF ToSet
  <2>2. 1 \in DOMAIN s /\ j + 1 \in DOMAIN s /\ 1 < j + 1 /\ s[j + 1] = y
    BY <1>1, <1>2, <2>1
  <2>3. QED BY <1>1, <2>2 DEF Before
<1>7. QED BY <1>1, <1>3, <1>4, <1>5, <1>6 DEF t

LEMMA EmptyFacts ==
  /\ ToSet(<<>>) = {}
  /\ \A x, y : ~Before(<<>>, x, y)
BY DEF ToSet, Before

-----------------------------------------------------------------------------
(* A socket is known wherever one is used, and a busy daemon has a command. *)
Pointers ==
  /\ dpc # "idle" => sock \in Sockets
  /\ dpc = "busy" <=> doing # None
  /\ \A c \in Commands : caller[c] = "queued" => via[c] \in Sockets
  /\ \A a \in Admins : admin[a] \in {"insert", "notify", "tell"} => target[a] \in Sockets

TypeInv == TypeOK /\ Pointers

LEMMA MessageTyped ==
  \A k \in {"pending", "approved", "rejected", "error", "connected"} : Message(k) \in Messages
BY DEF Message, Messages

LEMMA PostTyped ==
  ASSUME TypeOK, NEW w \in Sockets, NEW m \in Messages, Post(w, m)
  PROVE  down' \in [Sockets -> Seq(Messages)]
<1> DEFINE q == Append(down[w], m)
<1>1. down \in [Sockets -> Seq(Messages)] BY DEF TypeOK
<1>2. q \in Seq(Messages) BY <1>1
<1>3. down' = IF link[w] = "up" THEN [down EXCEPT ![w] = q] ELSE down BY DEF Post
<1>4. QED BY <1>1, <1>2, <1>3

LEMMA CloseTyped ==
  ASSUME TypeOK, NEW w \in Sockets, Close(w)
  PROVE  link' \in [Sockets -> {"up", "closed", "dropped"}] /\ up' \in [Sockets -> Seq(Results)]
<1>1. up' \in [Sockets -> Seq(Results)] BY DEF TypeOK, Close
<1>2. link' \in [Sockets -> {"up", "closed", "dropped"}] BY DEF TypeOK, Close
<1>3. QED BY <1>1, <1>2

LEMMA PopTyped ==
  ASSUME TypeOK, NEW w \in Sockets, down[w] # <<>>
  PROVE  /\ Head(down[w]) \in Messages
         /\ [down EXCEPT ![w] = Tail(@)] \in [Sockets -> Seq(Messages)]
<1>1. down \in [Sockets -> Seq(Messages)] BY DEF TypeOK
<1>2. Head(down[w]) \in Messages /\ Tail(down[w]) \in Seq(Messages) BY <1>1
<1>3. QED BY <1>1, <1>2

LEMMA LeaveTyped ==
  ASSUME TypeOK, sock \in Sockets, DaemonLeaves
  PROVE  /\ link' \in [Sockets -> {"up", "closed", "dropped"}]
         /\ down' \in [Sockets -> Seq(Messages)]
         /\ dpc' = "idle" /\ sock' = None
<1>1. down' \in [Sockets -> Seq(Messages)] BY DEF TypeOK, DaemonLeaves
<1>2. link' \in [Sockets -> {"up", "closed", "dropped"}] BY DEF TypeOK, DaemonLeaves
<1>3. QED BY <1>1, <1>2 DEF DaemonLeaves

LEMMA ChoreTyped ==
  ASSUME TypeOK, NEW a \in Admins, Chore(a)
  PROVE  chores' \in 0..MaxChores
<1>1. chores \in 0..MaxChores /\ MaxChores \in Nat BY SatelliteAssumption DEF TypeOK
<1>2. chores < MaxChores /\ chores' = chores + 1 BY DEF Chore
<1>3. QED BY <1>1, <1>2

LEMMA TypeInit == Init => TypeInv
<1> SUFFICES ASSUME Init PROVE TypeInv
  OBVIOUS
<1> USE DEF Init
<1>1. drops \in 0..MaxDrops /\ chores \in 0..MaxChores BY SatelliteAssumption
<1>2. /\ down \in [Sockets -> Seq(Messages)] /\ up \in [Sockets -> Seq(Results)]
      /\ sent \in Seq(Commands) /\ executed \in Seq(Commands) /\ strayed \subseteq Commands
  OBVIOUS
<1>3. TypeOK
  BY <1>1, <1>2 DEF TypeOK, HandlerPC, AdminPC, DaemonPC
<1>4. Pointers BY DEF Pointers
<1>5. QED BY <1>3, <1>4 DEF TypeInv

LEMMA TypeStep == TypeInv /\ [Next]_vars => TypeInv'
<1> SUFFICES ASSUME TypeInv, [Next]_vars PROVE TypeInv'
  OBVIOUS
<1> USE SatelliteAssumption DEF TypeInv, TypeOK, Pointers, HandlerPC, AdminPC, DaemonPC,
        sockets, server, admins, daemon, callers, devices, bounds, Goto, AdminGoto
<1>1. ASSUME NEW w \in Sockets, Hello(w) PROVE TypeInv'
  <2>1. down' \in [Sockets -> Seq(Messages)]
    BY <1>1, MessageTyped, PostTyped DEF Hello
  <2>2. link' \in [Sockets -> {"up", "closed", "dropped"}] /\ up' \in [Sockets -> Seq(Results)]
    BY <1>1, CloseTyped DEF Hello
  <2>3. QED BY <1>1, <2>1, <2>2 DEF Hello
<1>2. ASSUME NEW w \in Sockets, Pend(w) PROVE TypeInv'
  BY <1>2 DEF Pend
<1>3. ASSUME NEW w \in Sockets, Announce(w) PROVE TypeInv'
  <2>1. down' \in [Sockets -> Seq(Messages)]
    BY <1>3, MessageTyped, PostTyped DEF Announce
  <2>2. QED BY <1>3, <2>1 DEF Announce
<1>4. ASSUME NEW w \in Sockets, HandlerGone(w) PROVE TypeInv'
  BY <1>4 DEF HandlerGone
<1>5. ASSUME NEW w \in Sockets, Auth(w) PROVE TypeInv'
  <2>1. down' \in [Sockets -> Seq(Messages)]
    BY <1>5, MessageTyped, PostTyped DEF Auth
  <2>2. link' \in [Sockets -> {"up", "closed", "dropped"}] /\ up' \in [Sockets -> Seq(Results)]
    BY <1>5, CloseTyped DEF Auth
  <2>3. QED BY <1>5, <2>1, <2>2 DEF Auth
<1>6. ASSUME NEW w \in Sockets, Connect(w) PROVE TypeInv'
  <2>1. link' \in [Sockets -> {"up", "closed", "dropped"}] /\ up' \in [Sockets -> Seq(Results)]
    BY <1>6, CloseTyped DEF Connect
  <2>2. QED BY <1>6, <2>1 DEF Connect
<1>7. ASSUME NEW w \in Sockets, Replace(w) PROVE TypeInv'
  BY <1>7 DEF Replace
<1>8. ASSUME NEW w \in Sockets, Confirm(w) PROVE TypeInv'
  <2>1. down' \in [Sockets -> Seq(Messages)]
    BY <1>8, MessageTyped, PostTyped DEF Confirm
  <2>2. QED BY <1>8, <2>1 DEF Confirm
<1>9. ASSUME NEW w \in Sockets, HandleResult(w) PROVE TypeInv'
  BY <1>9 DEF HandleResult
<1>10. ASSUME NEW w \in Sockets, HandlerNotices(w) PROVE TypeInv'
  BY <1>10 DEF HandlerNotices
<1>11. ASSUME NEW w \in Sockets, Disconnect(w) PROVE TypeInv'
  BY <1>11 DEF Disconnect
<1>12. ASSUME NEW w \in Sockets, Drop(w) PROVE TypeInv'
  BY <1>12 DEF Drop
<1>13. ASSUME NEW a \in Admins, Approve(a) PROVE TypeInv'
  <2>1. chores' \in 0..MaxChores
    BY <1>13, ChoreTyped DEF Approve
  <2>2. QED BY <1>13, <2>1 DEF Approve
<1>14. ASSUME NEW a \in Admins, ApproveInsert(a) PROVE TypeInv'
  BY <1>14 DEF ApproveInsert
<1>15. ASSUME NEW a \in Admins, ApproveNotify(a) PROVE TypeInv'
  <2>1. down' \in [Sockets -> Seq(Messages)]
    BY <1>15, MessageTyped, PostTyped DEF ApproveNotify
  <2>2. QED BY <1>15, <2>1 DEF ApproveNotify
<1>16. ASSUME NEW a \in Admins, ApproveClear(a) PROVE TypeInv'
  BY <1>16 DEF ApproveClear
<1>17. ASSUME NEW a \in Admins, Reject(a) PROVE TypeInv'
  <2>1. chores' \in 0..MaxChores
    BY <1>17, ChoreTyped DEF Reject
  <2>2. QED BY <1>17, <2>1 DEF Reject
<1>18. ASSUME NEW a \in Admins, RejectTell(a) PROVE TypeInv'
  <2>1. down' \in [Sockets -> Seq(Messages)]
    BY <1>18, MessageTyped, PostTyped DEF RejectTell
  <2>2. link' \in [Sockets -> {"up", "closed", "dropped"}] /\ up' \in [Sockets -> Seq(Results)]
    BY <1>18, CloseTyped DEF RejectTell
  <2>3. QED BY <1>18, <2>1, <2>2 DEF RejectTell
<1>19. ASSUME NEW a \in Admins, Revoke(a) PROVE TypeInv'
  <2>1. chores' \in 0..MaxChores
    BY <1>19, ChoreTyped DEF Revoke
  <2>2. link' \in [Sockets -> {"up", "closed", "dropped"}] /\ up' \in [Sockets -> Seq(Results)]
    BY <1>19, CloseTyped DEF Revoke
  <2>3. /\ admin' \in [Admins -> AdminPC] /\ target' \in [Admins -> Sockets \cup {None}]
        /\ \A b \in Admins : admin'[b] \in {"insert", "notify", "tell"} => target'[b] \in Sockets
    BY <1>19 DEF Revoke
  <2>4. UNCHANGED <<down, server, daemon, callers, devices, drops>>
    BY <1>19 DEF Revoke
  <2>5. QED BY <2>1, <2>2, <2>3, <2>4
<1>20. ASSUME NEW a \in Admins, RevokePop(a) PROVE TypeInv'
  BY <1>20 DEF RevokePop
<1>21. ASSUME NEW a \in Admins, RevokeDelete(a) PROVE TypeInv'
  BY <1>21 DEF RevokeDelete
<1>22. CASE DaemonOpens BY <1>22 DEF DaemonOpens
<1>23. CASE DaemonOnboarding
  <2>1. CASE DaemonReads("pending") /\ Pop /\ UNCHANGED <<link, dpc, sock, known>>
    <3>1. down' \in [Sockets -> Seq(Messages)]
      BY <1>23, <2>1, PopTyped DEF DaemonOnboarding, DaemonReads, Pop
    <3>2. QED BY <1>23, <2>1, <3>1 DEF DaemonOnboarding
  <2>2. CASE DaemonLeaves /\ known' \in BOOLEAN
    <3>1. /\ link' \in [Sockets -> {"up", "closed", "dropped"}]
          /\ down' \in [Sockets -> Seq(Messages)] /\ dpc' = "idle" /\ sock' = None
      BY <1>23, <2>2, LeaveTyped DEF DaemonOnboarding
    <3>2. QED BY <1>23, <2>2, <3>1 DEF DaemonOnboarding
  <2>3. QED BY <1>23, <2>1, <2>2 DEF DaemonOnboarding
<1>24. CASE DaemonJoining
  <2>1. CASE DaemonReads("connected") /\ Pop /\ dpc' = "loop" /\ UNCHANGED <<link, sock, known>>
    <3>1. down' \in [Sockets -> Seq(Messages)]
      BY <1>24, <2>1, PopTyped DEF DaemonJoining, DaemonReads, Pop
    <3>2. QED BY <1>24, <2>1, <3>1 DEF DaemonJoining
  <2>2. CASE DaemonLeaves /\ known' \in BOOLEAN
    <3>1. /\ link' \in [Sockets -> {"up", "closed", "dropped"}]
          /\ down' \in [Sockets -> Seq(Messages)] /\ dpc' = "idle" /\ sock' = None
      BY <1>24, <2>2, LeaveTyped DEF DaemonJoining
    <3>2. QED BY <1>24, <2>2, <3>1 DEF DaemonJoining
  <2>3. QED BY <1>24, <2>1, <2>2 DEF DaemonJoining
<1>25. CASE DaemonTakes
  <2>1. down' \in [Sockets -> Seq(Messages)] /\ Head(down[sock]) \in Messages
    BY <1>25, PopTyped DEF DaemonTakes, DaemonReads, Pop
  <2>2. Head(down[sock]).cmd \in Commands
    BY <1>25, <2>1 DEF DaemonTakes, DaemonReads, Messages
  <2>3. QED BY <1>25, <2>1, <2>2 DEF DaemonTakes
<1>26. CASE DaemonDoes
  <2>1. doing \in Commands BY <1>26 DEF DaemonDoes
  <2>2. executed' \in Seq(Commands) /\ strayed' \subseteq Commands
    <3>1. Append(executed, doing) \in Seq(Commands) BY <2>1
    <3>2. strayed \cup {doing} \subseteq Commands BY <2>1
    <3>3. /\ executed' \in {executed, Append(executed, doing)}
          /\ strayed' \in {strayed, strayed \cup {doing}}
      BY <1>26 DEF DaemonDoes
    <3>4. QED BY <3>1, <3>2, <3>3
  <2>3. PICK ok \in BOOLEAN :
          up' = IF link[sock] = "up"
                THEN [up EXCEPT ![sock] = Append(@, [cmd |-> doing, ok |-> ok])] ELSE up
    BY <1>26 DEF DaemonDoes
  <2>4. [cmd |-> doing, ok |-> ok] \in Results BY <2>1 DEF Results
  <2>5. up' \in [Sockets -> Seq(Results)]
    <3> DEFINE q == Append(up[sock], [cmd |-> doing, ok |-> ok])
    <3>1. sock \in Sockets BY <1>26 DEF DaemonDoes
    <3>2. q \in Seq(Results) BY <2>4, <3>1
    <3>3. up' = IF link[sock] = "up" THEN [up EXCEPT ![sock] = q] ELSE up BY <2>3
    <3>4. QED BY <3>1, <3>2, <3>3
  <2>6. QED BY <1>26, <2>1, <2>2, <2>5 DEF DaemonDoes
<1>27. CASE DaemonNotices BY <1>27 DEF DaemonNotices
<1>28. ASSUME NEW c \in Commands, NotConnected(c) PROVE TypeInv'
  BY <1>28 DEF NotConnected, Complete
<1>29. ASSUME NEW c \in Commands, Look(c) PROVE TypeInv'
  BY <1>29 DEF Look
<1>30. ASSUME NEW c \in Commands, Send(c) PROVE TypeInv'
  <2>1. [kind |-> "command", cmd |-> c] \in Messages BY DEF Messages
  <2>2. down' \in [Sockets -> Seq(Messages)] BY <1>30, <2>1, PostTyped DEF Send
  <2>3. sent' \in Seq(Commands) BY <1>30 DEF Send
  <2>4. future' \in [Commands -> {"none", "ok", "failed"}] BY <1>30 DEF Send, Complete
  <2>5. QED BY <1>30, <2>2, <2>3, <2>4 DEF Send
<1>31. ASSUME NEW c \in Commands, Timeout(c) PROVE TypeInv'
  BY <1>31 DEF Timeout, Complete
<1>32. ASSUME NEW c \in Commands, Return(c) PROVE TypeInv'
  BY <1>32 DEF Return
<1>33. CASE UNCHANGED vars BY <1>33 DEF vars
<1>34. ASSUME NEW a \in Admins, ApproveSearch(a) PROVE TypeInv'
  <2>1. chores' \in 0..MaxChores
    BY <1>34, ChoreTyped DEF ApproveSearch
  <2>2. QED BY <1>34, <2>1 DEF ApproveSearch
<1>35. ASSUME NEW a \in Admins, ApproveNothing(a) PROVE TypeInv'
  BY <1>35 DEF ApproveNothing
<1>36. ASSUME NEW c \in Commands, StrayEnds(c) PROVE TypeInv'
  BY <1>36 DEF StrayEnds
<1>37. QED
  BY <1>1, <1>2, <1>3, <1>4, <1>5, <1>6, <1>7, <1>8, <1>9, <1>10, <1>11, <1>12, <1>13, <1>14, <1>15, <1>16, <1>17, <1>18, <1>19, <1>20, <1>21, <1>22, <1>23, <1>24, <1>25, <1>26, <1>27, <1>28, <1>29, <1>30, <1>31, <1>32, <1>33, <1>34, <1>35, <1>36
  DEF Next, HandlerStep, AdminStep, DaemonStep, CallerStep

(* Every state is well typed, for any number of sockets, commands and      *)
(* administrators.                                                         *)
THEOREM TypeCorrect == Spec => []TypeOK
<1>1. TypeInv => TypeOK BY DEF TypeInv
<1>2. QED BY <1>1, TypeInit, TypeStep, PTL DEF Spec

-----------------------------------------------------------------------------
(* A connection leaves the books with its handler, whoever else connects,  *)
(* disconnects or revokes at the same time (satellite_main's finally).     *)
THEOREM NoDanglingConnectionCorrect == Spec => []NoDanglingConnection
<1>1. Init => NoDanglingConnection
  BY DEF Init, NoDanglingConnection
<1>2. TypeInv /\ NoDanglingConnection /\ [Next]_vars => NoDanglingConnection'
  <2> SUFFICES ASSUME TypeInv, NoDanglingConnection, [Next]_vars PROVE NoDanglingConnection'
    OBVIOUS
  <2>1. handler \in [Sockets -> HandlerPC] /\ connections \in Sockets \cup {None}
    BY DEF TypeInv, TypeOK
  <2> USE SatelliteAssumption, <2>1 DEF NoDanglingConnection, Goto, server
  <2>2. ASSUME NEW w \in Sockets, HandlerStep(w) PROVE NoDanglingConnection'
    <3>1. CASE Hello(w) BY <3>1 DEF Hello
    <3>2. CASE Pend(w) BY <3>2 DEF Pend
    <3>3. CASE Announce(w) BY <3>3 DEF Announce
    <3>4. CASE HandlerGone(w) BY <3>4 DEF HandlerGone
    <3>5. CASE Auth(w) BY <3>5 DEF Auth
    <3>6. CASE Connect(w) BY <3>6 DEF Connect
    <3>7. CASE Replace(w) BY <3>7 DEF Replace
    <3>8. CASE Confirm(w) BY <3>8 DEF Confirm
    <3>9. CASE HandleResult(w) BY <3>9 DEF HandleResult
    <3>10. CASE HandlerNotices(w) BY <3>10 DEF HandlerNotices
    <3>11. CASE Disconnect(w) BY <3>11 DEF Disconnect
    <3>12. QED
      BY <2>2, <3>1, <3>2, <3>3, <3>4, <3>5, <3>6, <3>7, <3>8, <3>9, <3>10, <3>11
      DEF HandlerStep
  <2>3. ASSUME NEW a \in Admins, RevokePop(a) PROVE NoDanglingConnection'
    BY <2>3 DEF RevokePop
  <2>4. CASE DaemonOpens
    BY <2>4 DEF DaemonOpens, Unused
  <2>5. CASE UNCHANGED <<handler, connections>> BY <2>5
  <2>6. QED
    BY <2>2, <2>3, <2>4, <2>5
    DEF Next, AdminStep, DaemonStep, CallerStep, Drop, Approve, ApproveSearch,
        ApproveNothing, StrayEnds, ApproveInsert, ApproveNotify, ApproveClear, Reject, RejectTell, Revoke, RevokeDelete,
        DaemonOnboarding, DaemonJoining, DaemonTakes, DaemonDoes, DaemonNotices,
        NotConnected, Look, Send, Timeout, Return, vars
<1>3. QED BY <1>1, <1>2, TypeInit, TypeStep, PTL DEF Spec

-----------------------------------------------------------------------------
(* Every result that says OK, on its way or used, is of an executed command. *)
ResultsTrue ==
  \A w \in Sockets : \A r \in ToSet(up[w]) : r.ok => r.cmd \in ToSet(executed)

LEMMA TrueResults == Spec => [](ResultsTrue /\ SuccessWasExecuted)
<1>1. Init => ResultsTrue /\ SuccessWasExecuted
  BY EmptyFacts DEF Init, ResultsTrue, SuccessWasExecuted
<1>2. TypeInv /\ ResultsTrue /\ SuccessWasExecuted /\ [Next]_vars
        => (ResultsTrue /\ SuccessWasExecuted)'
  <2> SUFFICES ASSUME TypeInv, ResultsTrue, SuccessWasExecuted, [Next]_vars
               PROVE  (ResultsTrue /\ SuccessWasExecuted)'
    OBVIOUS
  <2>1. /\ up \in [Sockets -> Seq(Results)] /\ executed \in Seq(Commands)
        /\ future \in [Commands -> {"none", "ok", "failed"}]
        /\ connections \in Sockets \cup {None}
    BY DEF TypeInv, TypeOK
  <2> USE <2>1, EmptyFacts DEF ResultsTrue, SuccessWasExecuted, sockets, callers, devices
  <2>2. ASSUME NEW w \in Sockets, HandleResult(w) PROVE (ResultsTrue /\ SuccessWasExecuted)'
    <3> DEFINE r == Head(up[w])
    <3>1. /\ r \in Results /\ r \in ToSet(up[w])
          /\ ToSet(Tail(up[w])) \subseteq ToSet(up[w])
      BY <2>2, TailFacts DEF HandleResult
    <3>2. ResultsTrue' BY <2>2, <3>1 DEF HandleResult
    <3>3. SuccessWasExecuted'
      <4>1. r.ok \in BOOLEAN /\ (r.ok => r.cmd \in ToSet(executed)) BY <3>1 DEF Results
      <4>2. executed' = executed BY <2>2 DEF HandleResult
      <4>3. QED BY <2>2, <4>1, <4>2 DEF HandleResult
    <3>4. QED BY <3>2, <3>3
  <2>3. CASE DaemonDoes
    <3>1. sock \in Sockets /\ doing \in Commands
      BY <2>3 DEF DaemonDoes, TypeInv, TypeOK, Pointers
    <3>2. PICK ok \in BOOLEAN :
            /\ executed' = Append(executed, doing) \/ (~ok /\ executed' = executed)
            /\ up' = IF link[sock] = "up"
                     THEN [up EXCEPT ![sock] = Append(@, [cmd |-> doing, ok |-> ok])] ELSE up
      BY <2>3 DEF DaemonDoes, devices
    <3> DEFINE r == [cmd |-> doing, ok |-> ok]
    <3>3. r \in Results /\ r.ok = ok /\ r.cmd = doing BY <3>1 DEF Results
    <3>4. ToSet(Append(up[sock], r)) = ToSet(up[sock]) \cup {r}
      BY <3>1, <3>3, AppendFacts
    <3>5. ToSet(Append(executed, doing)) = ToSet(executed) \cup {doing}
      BY <3>1, AppendFacts
    <3>6. ToSet(executed) \subseteq ToSet(executed') /\ (ok => doing \in ToSet(executed'))
      BY <3>2, <3>5
    <3>7. ASSUME NEW w \in Sockets, NEW q \in ToSet(up'[w]), q.ok PROVE q.cmd \in ToSet(executed')
      <4>1. CASE q \in ToSet(up[w]) BY <3>6, <3>7, <4>1
      <4>2. CASE q \notin ToSet(up[w])
        <5>1. q = r
          <6>1. w = sock /\ up'[w] = Append(up[sock], r) BY <3>1, <3>2, <3>7, <4>2
          <6>2. QED BY <3>4, <3>7, <4>2, <6>1
        <5>2. QED BY <3>3, <3>6, <3>7, <5>1
      <4>3. QED BY <4>1, <4>2
    <3>8. future' = future BY <2>3 DEF DaemonDoes
    <3>9. QED BY <3>6, <3>7, <3>8
  <2>4. ASSUME NEW w \in Sockets, Close(w), UNCHANGED <<executed, future>>
        PROVE (ResultsTrue /\ SuccessWasExecuted)'
    BY <2>4 DEF Close
  <2>5. CASE UNCHANGED <<up, executed, future>> BY <2>5
  <2>6. CASE DaemonOpens BY <2>6 DEF DaemonOpens
  <2>7. ASSUME NEW w \in Sockets, Drop(w) PROVE (ResultsTrue /\ SuccessWasExecuted)'
    BY <2>7 DEF Drop
  <2>8. ASSUME NEW c \in Commands, NotConnected(c) \/ Send(c) \/ Timeout(c)
        PROVE (ResultsTrue /\ SuccessWasExecuted)'
    BY <2>8 DEF NotConnected, Send, Timeout, Complete
  <2>9. ASSUME NEW w \in Sockets, HandlerStep(w) PROVE (ResultsTrue /\ SuccessWasExecuted)'
    BY <2>2, <2>4, <2>5, <2>9
    DEF HandlerStep, Hello, Pend, Announce, HandlerGone, Auth, Connect, Replace, Confirm,
        HandlerNotices, Disconnect
  <2>10. ASSUME NEW a \in Admins, Approve(a) \/ ApproveSearch(a) \/ Reject(a) \/ Revoke(a) \/ AdminStep(a)
         PROVE (ResultsTrue /\ SuccessWasExecuted)'
    <3>1. CASE RejectTell(a)
      <4>1. target[a] \in Sockets BY <3>1 DEF RejectTell, TypeInv, Pointers
      <4>2. QED BY <2>4, <3>1, <4>1 DEF RejectTell
    <3>2. QED
      BY <2>4, <2>5, <2>10, <3>1
      DEF AdminStep, Approve, ApproveSearch, ApproveNothing, Reject, Revoke, ApproveInsert, ApproveNotify, ApproveClear,
          RevokePop, RevokeDelete
  <2>11. CASE DaemonStep
    BY <2>3, <2>5, <2>6, <2>11
    DEF DaemonStep, DaemonOnboarding, DaemonJoining, DaemonTakes, DaemonNotices
  <2>12. ASSUME NEW c \in Commands, NotConnected(c) \/ Look(c) \/ CallerStep(c)
         PROVE (ResultsTrue /\ SuccessWasExecuted)'
    BY <2>5, <2>8, <2>12 DEF CallerStep, Look, Return
  <2>13. ASSUME NEW c \in Commands, StrayEnds(c) PROVE (ResultsTrue /\ SuccessWasExecuted)'
    <3>1. ToSet(executed) \subseteq ToSet(executed') BY <2>13, AppendFacts DEF StrayEnds
    <3>2. QED BY <2>13, <3>1 DEF StrayEnds
  <2>14. QED BY <2>5, <2>7, <2>9, <2>10, <2>11, <2>12, <2>13 DEF Next, vars
<1>3. QED BY <1>1, <1>2, TypeInit, TypeStep, PTL DEF Spec

(* A future is completed with OK only after the device obeyed, for any     *)
(* number of commands in flight, late results and lost connections         *)
(* (satellite_manager.py, handle_result).                                  *)
THEOREM SuccessWasExecutedCorrect == Spec => []SuccessWasExecuted
BY TrueResults, PTL

-----------------------------------------------------------------------------
LEMMA BeforeMembers ==
  ASSUME NEW s, NEW x, NEW y, Before(s, x, y)
  PROVE  x \in ToSet(s) /\ y \in ToSet(s)
BY DEF Before, ToSet

LEMMA BeforeCycle ==
  ASSUME NEW S, NEW s \in Seq(S), NEW x, NEW y, Before(s, x, y), Before(s, y, x)
  PROVE  Before(s, x, x) \/ Before(s, y, y)
<1>1. PICK i, j \in DOMAIN s : i < j /\ s[i] = x /\ s[j] = y BY DEF Before
<1>2. PICK k, l \in DOMAIN s : k < l /\ s[k] = y /\ s[l] = x BY DEF Before
<1>3. i < l \/ k < j
  <2>1. DOMAIN s \subseteq Nat OBVIOUS
  <2>2. QED BY <1>1, <1>2, <2>1
<1>4. QED BY <1>1, <1>2, <1>3 DEF Before

\* The commands that had their turn.
Handled == ToSet(executed) \cup strayed

(* Commands that wait for the daemon were sent in the order of the queue,  *)
(* and after the one it executes and all that had their turn.              *)
QueueKept(w) ==
  /\ \A m \in ToSet(down[w]) : m.kind = "command" =>
       /\ m.cmd \in ToSet(sent)
       /\ \A x \in Handled : Before(sent, x, m.cmd)
       /\ doing # None => Before(sent, doing, m.cmd)
  /\ \A m, n \in ToSet(down[w]) :
       Before(down[w], m, n) /\ m.kind = "command" /\ n.kind = "command"
         => Before(sent, m.cmd, n.cmd)

(* No command is sent twice, and those that had their turn had it in the   *)
(* order of sending.  Only the queue of the daemon's socket is executed.   *)
KeepsOrder ==
  /\ \A c \in Commands : caller[c] \in {"new", "queued"} => c \notin ToSet(sent)
  /\ \A c \in Commands : ~Before(sent, c, c)
  /\ Handled \subseteq ToSet(sent)
  /\ doing # None => doing \in ToSet(sent) /\ \A x \in Handled : Before(sent, x, doing)
  /\ sock # None => QueueKept(sock)
  /\ \A c, d \in Commands : Before(executed, d, c) => Before(sent, d, c) \/ c \in strayed

\* Messages that are no commands do not disturb a queue.
LEMMA PostKeeps ==
  ASSUME TypeInv, KeepsOrder, NEW w \in Sockets, NEW m \in Messages, m.kind # "command",
         Post(w, m), UNCHANGED <<sock, doing, caller, sent, devices>>
  PROVE  KeepsOrder'
<1> DEFINE q == Append(down[w], m)
<1>1. down \in [Sockets -> Seq(Messages)] BY DEF TypeInv, TypeOK
<1>2. /\ ToSet(q) = ToSet(down[w]) \cup {m}
      /\ \A x, y : Before(q, x, y) => Before(down[w], x, y) \/ (y = m /\ x \in ToSet(down[w]))
  BY <1>1, AppendFacts
<1>3. down' = IF link[w] = "up" THEN [down EXCEPT ![w] = q] ELSE down BY DEF Post
<1> HIDE DEF q
<1>4. ASSUME sock # None PROVE QueueKept(sock)'
  <2>1. sock \in Sockets BY <1>4 DEF TypeInv, TypeOK
  <2>2. CASE UNCHANGED down BY <1>4, <2>2 DEF KeepsOrder, Handled, devices, QueueKept, Handled, devices
  <2>3. CASE w # sock BY <1>1, <1>3, <1>4, <2>1, <2>3 DEF KeepsOrder, Handled, devices, QueueKept, Handled, devices
  <2>4. CASE w = sock /\ down' = [down EXCEPT ![w] = q]
    <3>1. down'[sock] = q BY <1>1, <2>4
    <3>2. QED BY <1>2, <1>4, <2>4, <3>1 DEF KeepsOrder, Handled, devices, QueueKept, Handled, devices
  <2>5. QED BY <1>3, <2>2, <2>3, <2>4
<1>5. QED BY <1>4 DEF KeepsOrder, Handled, devices

\* Commands and other messages that are lost do not either.
LEMMA LossKeeps ==
  ASSUME TypeInv, KeepsOrder, UNCHANGED <<doing, caller, sent, devices>>,
         sock' # None => sock' \in Sockets /\ ToSet(down'[sock']) = {}
  PROVE  KeepsOrder'
BY DEF KeepsOrder, Handled, devices, QueueKept, Handled, devices

\* The daemon's own queue loses its head, or nothing.
LEMMA PopKeeps ==
  ASSUME TypeInv, KeepsOrder, sock \in Sockets, down[sock] # <<>>, Pop,
         UNCHANGED <<sock, doing, caller, sent, devices>>
  PROVE  KeepsOrder'
<1>1. down \in [Sockets -> Seq(Messages)] BY DEF TypeInv, TypeOK
<1>2. down'[sock] = Tail(down[sock]) BY <1>1 DEF Pop
<1>3. /\ ToSet(Tail(down[sock])) \subseteq ToSet(down[sock])
      /\ \A x, y : Before(Tail(down[sock]), x, y) => Before(down[sock], x, y)
  BY <1>1, TailFacts
<1>4. QED BY <1>2, <1>3 DEF KeepsOrder, Handled, devices, QueueKept, Handled, devices

LEMMA TakesKeeps ==
  ASSUME TypeInv, KeepsOrder, DaemonTakes PROVE KeepsOrder'
<1> DEFINE m == Head(down[sock])
<1>1. down \in [Sockets -> Seq(Messages)] /\ sock \in Sockets /\ down[sock] # <<>>
      /\ m.kind = "command" /\ doing = None /\ sock # None
  BY SatelliteAssumption DEF TypeInv, TypeOK, Pointers, DaemonTakes, DaemonReads
<1>2. down'[sock] = Tail(down[sock]) /\ doing' = m.cmd
      /\ UNCHANGED <<sock, caller, sent, devices>>
  BY <1>1 DEF DaemonTakes, Pop, callers
<1>3. /\ m \in ToSet(down[sock]) /\ ToSet(Tail(down[sock])) \subseteq ToSet(down[sock])
      /\ \A x, y : Before(Tail(down[sock]), x, y) => Before(down[sock], x, y)
      /\ \A y \in ToSet(Tail(down[sock])) : Before(down[sock], m, y)
  BY <1>1, TailFacts
<1> HIDE DEF m
<1>4. m.cmd \in ToSet(sent) /\ \A x \in Handled : Before(sent, x, m.cmd)
  BY <1>1, <1>3 DEF KeepsOrder, Handled, devices, QueueKept, Handled, devices
<1>5. QueueKept(sock)'
  BY <1>1, <1>2, <1>3 DEF KeepsOrder, Handled, devices, QueueKept, Handled, devices
<1>6. QED BY <1>2, <1>4, <1>5 DEF KeepsOrder, Handled, devices

\* A command in its turn, done or given up.
LEMMA DoesKeeps ==
  ASSUME TypeInv, KeepsOrder, DaemonDoes PROVE KeepsOrder'
<1>1. /\ sock \in Sockets /\ sock # None /\ doing \in Commands /\ doing # None
      /\ executed \in Seq(Commands)
  BY SatelliteAssumption DEF TypeInv, TypeOK, Pointers, DaemonDoes
<1>2. /\ doing' = None /\ UNCHANGED <<sock, down, caller, sent>>
      /\ \/ executed' = executed /\ strayed' = strayed
         \/ executed' = executed /\ strayed' = strayed \cup {doing}
         \/ executed' = Append(executed, doing) /\ strayed' = strayed
  BY DEF DaemonDoes, callers, devices
<1>3. /\ ToSet(Append(executed, doing)) = ToSet(executed) \cup {doing}
      /\ \A x, y : Before(Append(executed, doing), x, y) =>
           Before(executed, x, y) \/ (y = doing /\ x \in ToSet(executed))
  BY <1>1, AppendFacts
<1>4. Handled' \subseteq Handled \cup {doing} BY <1>2, <1>3 DEF Handled
<1>5. QueueKept(sock)' BY <1>1, <1>2, <1>4 DEF KeepsOrder, QueueKept
<1>6. ASSUME NEW c \in Commands, NEW d \in Commands, Before(executed', d, c)
      PROVE  Before(sent, d, c) \/ c \in strayed'
  <2>1. CASE Before(executed, d, c) BY <1>2, <2>1 DEF KeepsOrder
  <2>2. CASE c = doing /\ d \in ToSet(executed) BY <1>1, <2>2 DEF KeepsOrder, Handled
  <2>3. CASE executed' = Append(executed, doing) BY <1>3, <1>6, <2>1, <2>2, <2>3
  <2>4. QED BY <1>2, <1>6, <2>1, <2>3
<1>7. Handled' \subseteq ToSet(sent) BY <1>1, <1>4 DEF KeepsOrder
<1>8. QED BY <1>2, <1>5, <1>6, <1>7 DEF KeepsOrder

\* A process that was left running.
LEMMA StrayKeeps ==
  ASSUME TypeInv, KeepsOrder, NEW c \in Commands, StrayEnds(c) PROVE KeepsOrder'
<1>1. /\ executed \in Seq(Commands) /\ c \in strayed /\ executed' = Append(executed, c)
      /\ UNCHANGED <<sock, doing, down, caller, sent, strayed>>
  BY DEF TypeInv, TypeOK, StrayEnds, sockets, daemon, callers
<1>2. /\ ToSet(executed') = ToSet(executed) \cup {c}
      /\ \A x, y : Before(executed', x, y) =>
           Before(executed, x, y) \/ (y = c /\ x \in ToSet(executed))
  BY <1>1, AppendFacts
<1>3. Handled' = Handled BY <1>1, <1>2 DEF Handled
<1>4. \A a, d \in Commands : Before(executed', d, a) => Before(sent, d, a) \/ a \in strayed
  BY <1>1, <1>2 DEF KeepsOrder
<1>5. QED BY <1>1, <1>3, <1>4 DEF KeepsOrder, QueueKept

LEMMA SendKeeps ==
  ASSUME TypeInv, KeepsOrder, NEW c \in Commands, Send(c) PROVE KeepsOrder'
<1> DEFINE m == [kind |-> "command", cmd |-> c]
           w == via[c]
           q == Append(down[w], m)
<1>1. /\ w \in Sockets /\ m \in Messages /\ m.kind = "command" /\ m.cmd = c
      /\ down \in [Sockets -> Seq(Messages)] /\ sent \in Seq(Commands)
      /\ caller \in [Commands -> {"new", "queued", "wait", "done"}]
  BY DEF Send, TypeInv, TypeOK, Pointers, Messages
<1>2. /\ c \notin ToSet(sent) /\ sent' = Append(sent, c)
      /\ caller' = [caller EXCEPT ![c] = "wait"]
      /\ UNCHANGED <<sock, doing, devices>>
      /\ down' = IF link[w] = "up" THEN [down EXCEPT ![w] = q] ELSE down
  BY DEF Send, KeepsOrder, Post, daemon
<1>3. /\ ToSet(sent') = ToSet(sent) \cup {c}
      /\ \A x, y : Before(sent', x, y) => Before(sent, x, y) \/ (y = c /\ x \in ToSet(sent))
  BY <1>1, <1>2, AppendFacts
<1>4. /\ ToSet(q) = ToSet(down[w]) \cup {m}
      /\ \A x, y : Before(q, x, y) => Before(down[w], x, y) \/ (y = m /\ x \in ToSet(down[w]))
  BY <1>1, AppendFacts
<1> HIDE DEF m, w, q
<1>5. ASSUME NEW x, NEW y, Before(sent, x, y) PROVE Before(sent', x, y)
  BY <1>1, <1>2, <1>5, AppendFacts
<1>6. \A x \in ToSet(sent) : Before(sent', x, c)
  BY <1>1, <1>2, AppendFacts
<1>7. ASSUME sock # None PROVE QueueKept(sock)'
  <2>1. QueueKept(sock) /\ Handled \subseteq ToSet(sent)
        /\ (doing # None => doing \in ToSet(sent))
    BY <1>7 DEF KeepsOrder, Handled, devices
  <2>2. sock \in Sockets BY <1>7 DEF TypeInv, TypeOK
  <2>3. CASE down'[sock] = down[sock]
    BY <1>2, <1>3, <1>5, <2>1, <2>3 DEF QueueKept, Handled, devices
  <2>4. CASE sock = w /\ down'[sock] = q
    <3>1. ASSUME NEW n \in ToSet(q), n.kind = "command"
          PROVE  /\ n.cmd \in ToSet(sent')
                 /\ \A x \in Handled : Before(sent', x, n.cmd)
                 /\ doing # None => Before(sent', doing, n.cmd)
      <4>1. CASE n = m BY <1>1, <1>3, <1>6, <2>1, <4>1
      <4>2. CASE n \in ToSet(down[w])
        BY <1>3, <1>5, <2>1, <2>4, <3>1, <4>2 DEF QueueKept, Handled, devices
      <4>3. QED BY <1>4, <4>1, <4>2
    <3>2. ASSUME NEW n \in ToSet(q), NEW p \in ToSet(q), Before(q, n, p),
                 n.kind = "command", p.kind = "command"
          PROVE  Before(sent', n.cmd, p.cmd)
      <4>1. CASE p = m /\ n \in ToSet(down[w])
        BY <1>1, <1>6, <2>1, <2>4, <3>2, <4>1 DEF QueueKept, Handled, devices
      <4>2. CASE Before(down[w], n, p)
        <5>1. n \in ToSet(down[w]) /\ p \in ToSet(down[w]) BY <4>2, BeforeMembers
        <5>2. Before(sent, n.cmd, p.cmd)
          BY <2>1, <2>4, <3>2, <4>2, <5>1 DEF QueueKept, Handled, devices
        <5>3. QED BY <1>5, <5>2
      <4>3. QED BY <1>4, <3>2, <4>1, <4>2
    <3>3. QED BY <1>2, <2>4, <3>1, <3>2 DEF QueueKept, Handled, devices
  <2>5. QED BY <1>1, <1>2, <2>2, <2>3, <2>4
<1>8. \A a, d \in Commands : Before(executed, d, a) => Before(sent', d, a) \/ a \in strayed
  BY <1>5 DEF KeepsOrder, Handled, devices
<1>9. \A e \in Commands : caller'[e] \in {"new", "queued"} => e \notin ToSet(sent')
  BY <1>1, <1>2, <1>3 DEF KeepsOrder, Handled, devices
<1>10. doing # None => doing \in ToSet(sent') /\ \A x \in Handled : Before(sent', x, doing)
  BY <1>3, <1>5 DEF KeepsOrder, Handled, devices
<1>11. Handled \subseteq ToSet(sent') BY <1>3 DEF KeepsOrder, Handled, devices
<1>12. \A d \in Commands : ~Before(sent', d, d) BY <1>2, <1>3 DEF KeepsOrder, Handled, devices
<1>13. QED BY <1>2, <1>7, <1>8, <1>9, <1>10, <1>11, <1>12 DEF KeepsOrder, Handled, devices

LEMMA InOrder == Spec => []KeepsOrder
<1>1. Init => KeepsOrder
  BY EmptyFacts DEF Init, KeepsOrder, Handled
<1>2. TypeInv /\ TypeInv' /\ KeepsOrder /\ [Next]_vars => KeepsOrder'
  <2> SUFFICES ASSUME TypeInv, TypeInv', KeepsOrder, [Next]_vars PROVE KeepsOrder'
    OBVIOUS
  <2> USE DEF sockets, server, admins, daemon, callers, devices, bounds
  <2>1. CASE UNCHANGED <<down, sock, doing, caller, sent, devices>>
    BY <2>1 DEF KeepsOrder, Handled, devices, QueueKept, Handled, devices
  <2>2. ASSUME NEW w \in Sockets, HandlerStep(w) PROVE KeepsOrder'
    <3>1. CASE UNCHANGED down
      BY <2>1, <2>2, <3>1
      DEF HandlerStep, Hello, Pend, Announce, HandlerGone, Auth, Connect, Replace, Confirm,
          HandleResult, HandlerNotices, Disconnect
    <3>2. CASE Hello(w) BY <3>1, <3>2, MessageTyped, PostKeeps DEF Hello, Message
    <3>3. CASE Announce(w) BY <3>3, MessageTyped, PostKeeps DEF Announce, Message
    <3>4. CASE Auth(w) BY <3>1, <3>4, MessageTyped, PostKeeps DEF Auth, Message
    <3>5. CASE Confirm(w) BY <3>5, MessageTyped, PostKeeps DEF Confirm, Message
    <3>6. QED
      BY <2>2, <3>1, <3>2, <3>3, <3>4, <3>5
      DEF HandlerStep, Pend, HandlerGone, Connect, Replace, HandleResult, HandlerNotices,
          Disconnect
  <2>3. ASSUME NEW a \in Admins, Approve(a) \/ ApproveSearch(a) \/ Reject(a) \/ Revoke(a) \/ AdminStep(a)
        PROVE  KeepsOrder'
    <3>1. CASE ApproveNotify(a)
      <4>1. target[a] \in Sockets BY <3>1 DEF ApproveNotify, TypeInv, Pointers
      <4>2. QED BY <3>1, <4>1, MessageTyped, PostKeeps DEF ApproveNotify, Message
    <3>2. CASE RejectTell(a)
      <4>1. target[a] \in Sockets BY <3>2 DEF RejectTell, TypeInv, Pointers
      <4>2. QED BY <3>2, <4>1, MessageTyped, PostKeeps DEF RejectTell, Message
    <3>3. QED
      BY <2>1, <2>3, <3>1, <3>2
      DEF AdminStep, Approve, ApproveSearch, ApproveNothing, Reject, Revoke, ApproveInsert, ApproveClear, RevokePop,
          RevokeDelete
  <2>4. CASE DaemonStep
    <3>1. CASE DaemonOpens
      <4>1. sock' \in Sockets /\ down' = [down EXCEPT ![sock'] = <<>>]
        BY <3>1 DEF DaemonOpens, TypeInv, Pointers
      <4>2. ToSet(down'[sock']) = {}
        BY <4>1, EmptyFacts DEF TypeInv, TypeOK
      <4>3. QED BY <3>1, <4>1, <4>2, LossKeeps DEF DaemonOpens
    <3>2. ASSUME DaemonLeaves, UNCHANGED <<doing, caller, sent, devices>> PROVE KeepsOrder'
      BY <3>2, LossKeeps DEF DaemonLeaves
    <3>3. ASSUME NEW k, DaemonReads(k), Pop, dpc # "idle",
                 UNCHANGED <<sock, doing, caller, sent, devices>>
          PROVE  KeepsOrder'
      BY <3>3, PopKeeps DEF DaemonReads, TypeInv, Pointers
    <3>4. CASE DaemonOnboarding BY <3>2, <3>3, <3>4 DEF DaemonOnboarding
    <3>5. CASE DaemonJoining BY <3>2, <3>3, <3>5 DEF DaemonJoining
    <3>6. CASE DaemonTakes BY <3>6, TakesKeeps
    <3>7. CASE DaemonDoes BY <3>7, DoesKeeps
    <3>8. CASE DaemonNotices BY <3>8, LossKeeps DEF DaemonNotices
    <3>9. QED BY <2>4, <3>1, <3>4, <3>5, <3>6, <3>7, <3>8 DEF DaemonStep
  <2>5. ASSUME NEW w \in Sockets, Drop(w) PROVE KeepsOrder'
    <3>1. CASE w = sock
      <4>1. ToSet(down'[sock]) = {}
        BY <2>5, <3>1, EmptyFacts DEF Drop, TypeInv, TypeOK
      <4>2. QED BY <2>5, <3>1, <4>1, LossKeeps DEF Drop
    <3>2. CASE w # sock
      <4>1. sock # None => down'[sock] = down[sock]
        BY <2>5, <3>2 DEF Drop, TypeInv, TypeOK
      <4>2. UNCHANGED <<sock, doing, caller, sent, devices>> BY <2>5 DEF Drop
      <4>3. QED BY <4>1, <4>2 DEF KeepsOrder, Handled, devices, QueueKept, Handled, devices
    <3>3. QED BY <3>1, <3>2
  <2>6. ASSUME NEW c \in Commands, NotConnected(c) \/ Look(c) \/ Timeout(c) \/ Return(c)
        PROVE  KeepsOrder'
    <3>1. UNCHANGED <<down, sock, doing, sent, devices>>
      BY <2>6 DEF NotConnected, Look, Timeout, Return
    <3>2. \A d \in Commands : caller'[d] \in {"new", "queued"} => caller[d] \in {"new", "queued"}
      BY <2>6 DEF NotConnected, Look, Timeout, Return, TypeInv, TypeOK
    <3>3. QED BY <3>1, <3>2 DEF KeepsOrder, Handled, devices, QueueKept, Handled, devices
  <2>7. ASSUME NEW c \in Commands, Send(c) PROVE KeepsOrder'
    BY <2>7, SendKeeps
  <2>8. ASSUME NEW c \in Commands, StrayEnds(c) PROVE KeepsOrder'
    BY <2>8, StrayKeeps
  <2>9. QED BY <2>1, <2>2, <2>3, <2>4, <2>5, <2>6, <2>7, <2>8 DEF Next, CallerStep, vars
<1>3. QED BY <1>1, <1>2, TypeInit, TypeStep, PTL DEF Spec

(* No relay starts commands in another order than they were sent, over any  *)
(* number of reconnections, timeouts and lost messages, for a late queue     *)
(* dies with its socket; only what the daemon gave up while it was under way *)
(* takes effect out of order (ws_client.py, _run_main; shell.py).            *)
THEOREM OrderKeptCorrect == Spec => []OrderKept
<1>1. TypeInv /\ KeepsOrder => OrderKept
  <2> SUFFICES ASSUME TypeInv, KeepsOrder, NEW c \in Commands, NEW d \in Commands,
                      Before(executed, d, c), Before(sent, c, d), c \notin strayed
               PROVE  FALSE
    BY DEF OrderKept
  <2>1. /\ sent \in Seq(Commands) /\ Before(sent, d, c)
        /\ ~Before(sent, c, c) /\ ~Before(sent, d, d)
    BY DEF KeepsOrder, TypeInv, TypeOK
  <2>2. QED BY <2>1, BeforeCycle
<1>2. QED BY <1>1, InOrder, TypeInit, TypeStep, PTL DEF Spec

\* A success on its way is not of a command that was given up: none has two turns.
SureResults ==
  \A w \in Sockets : \A r \in ToSet(up[w]) : r.ok => r.cmd \notin strayed

LEMMA Sure == Spec => []SureResults
<1>1. Init => SureResults
  BY EmptyFacts DEF Init, SureResults
<1>2. TypeInv /\ KeepsOrder /\ ResultsTrue /\ SureResults /\ [Next]_vars => SureResults'
  <2> SUFFICES ASSUME TypeInv, KeepsOrder, ResultsTrue, SureResults, [Next]_vars
               PROVE  SureResults'
    OBVIOUS
  <2>1. up \in [Sockets -> Seq(Results)] /\ connections \in Sockets \cup {None}
    BY DEF TypeInv, TypeOK
  <2> USE <2>1, EmptyFacts DEF SureResults, sockets, callers, devices
  <2>2. ASSUME NEW w \in Sockets, HandleResult(w) PROVE SureResults'
    <3>1. ToSet(Tail(up[w])) \subseteq ToSet(up[w]) BY <2>2, TailFacts DEF HandleResult
    <3>2. QED BY <2>2, <3>1 DEF HandleResult
  <2>3. CASE DaemonDoes
    <3>1. sock \in Sockets /\ doing \in Commands /\ doing # None
      BY <2>3, SatelliteAssumption DEF DaemonDoes, TypeInv, TypeOK, Pointers
    <3>2. PICK ok \in BOOLEAN :
            /\ strayed' = strayed \/ (~ok /\ strayed' = strayed \cup {doing})
            /\ up' = IF link[sock] = "up"
                     THEN [up EXCEPT ![sock] = Append(@, [cmd |-> doing, ok |-> ok])] ELSE up
      BY <2>3 DEF DaemonDoes
    <3> DEFINE r == [cmd |-> doing, ok |-> ok]
    <3>3. r \in Results /\ r.ok = ok /\ r.cmd = doing BY <3>1 DEF Results
    <3>4. ToSet(Append(up[sock], r)) = ToSet(up[sock]) \cup {r}
      BY <3>1, <3>3, AppendFacts
    <3>5. doing \notin Handled BY <3>1 DEF KeepsOrder
    <3>6. ASSUME NEW w \in Sockets, NEW q \in ToSet(up'[w]), q.ok PROVE q.cmd \notin strayed'
      <4>1. CASE q \in ToSet(up[w])
        <5>1. q.cmd \in ToSet(executed) /\ q.cmd \notin strayed
          BY <3>6, <4>1 DEF ResultsTrue
        <5>2. QED BY <3>2, <3>5, <5>1 DEF Handled
      <4>2. CASE q \notin ToSet(up[w])
        <5>1. w = sock /\ up'[w] = Append(up[sock], r) BY <3>1, <3>2, <3>6, <4>2
        <5>2. q = r BY <3>4, <3>6, <4>2, <5>1
        <5>3. QED BY <3>2, <3>3, <3>5, <3>6, <5>2 DEF Handled
      <4>3. QED BY <4>1, <4>2
    <3>7. QED BY <3>6
  <2>4. ASSUME NEW w \in Sockets, Close(w), UNCHANGED strayed PROVE SureResults'
    BY <2>4 DEF Close
  <2>5. CASE UNCHANGED <<up, strayed>> BY <2>5
  <2>6. CASE DaemonOpens BY <2>6 DEF DaemonOpens
  <2>7. ASSUME NEW w \in Sockets, Drop(w) PROVE SureResults'
    BY <2>7 DEF Drop
  <2>8. ASSUME NEW w \in Sockets, HandlerStep(w) PROVE SureResults'
    BY <2>2, <2>4, <2>5, <2>8
    DEF HandlerStep, Hello, Pend, Announce, HandlerGone, Auth, Connect, Replace, Confirm,
        HandlerNotices, Disconnect
  <2>9. ASSUME NEW a \in Admins,
               Approve(a) \/ ApproveSearch(a) \/ Reject(a) \/ Revoke(a) \/ AdminStep(a)
        PROVE  SureResults'
    <3>1. CASE RejectTell(a)
      <4>1. target[a] \in Sockets BY <3>1 DEF RejectTell, TypeInv, Pointers
      <4>2. QED BY <2>4, <3>1, <4>1 DEF RejectTell
    <3>2. QED
      BY <2>4, <2>5, <2>9, <3>1
      DEF AdminStep, Approve, ApproveSearch, ApproveNothing, Reject, Revoke, ApproveInsert,
          ApproveNotify, ApproveClear, RevokePop, RevokeDelete
  <2>10. CASE DaemonStep
    BY <2>3, <2>5, <2>6, <2>10
    DEF DaemonStep, DaemonOnboarding, DaemonJoining, DaemonTakes, DaemonNotices
  <2>11. ASSUME NEW c \in Commands,
                NotConnected(c) \/ Look(c) \/ CallerStep(c) \/ StrayEnds(c)
         PROVE  SureResults'
    BY <2>5, <2>11 DEF NotConnected, Look, CallerStep, Send, Timeout, Return, StrayEnds
  <2>12. QED BY <2>5, <2>7, <2>8, <2>9, <2>10, <2>11 DEF Next, vars
<1>3. QED BY <1>1, <1>2, TypeInit, TypeStep, InOrder, TrueResults, PTL DEF Spec

-----------------------------------------------------------------------------
(* The implementation of RelayService                                      *)

(* A command is on the books while its caller waits, and none is answered  *)
(* before it was sent or refused.                                          *)
BooksKept ==
  /\ registered = {c \in Commands : caller[c] = "wait"}
  /\ \A c \in Commands : caller[c] \in {"new", "queued"} => future[c] = "none"

LEMMA Books == Spec => []BooksKept
<1>1. Init => BooksKept BY DEF Init, BooksKept
<1>2. TypeInv /\ BooksKept /\ [Next]_vars => BooksKept'
  <2> SUFFICES ASSUME TypeInv, BooksKept, [Next]_vars PROVE BooksKept'
    OBVIOUS
  <2>1. /\ caller \in [Commands -> {"new", "queued", "wait", "done"}]
        /\ future \in [Commands -> {"none", "ok", "failed"}]
    BY DEF TypeInv, TypeOK
  <2> USE <2>1 DEF BooksKept
  <2>2. CASE UNCHANGED <<caller, future, registered>> BY <2>2
  <2>3. ASSUME NEW w \in Sockets, HandleResult(w) PROVE BooksKept'
    BY <2>3 DEF HandleResult
  <2>4. ASSUME NEW c \in Commands, NotConnected(c) PROVE BooksKept'
    BY <2>4 DEF NotConnected, Complete
  <2>5. ASSUME NEW c \in Commands, Look(c) PROVE BooksKept'
    BY <2>5 DEF Look
  <2>6. ASSUME NEW c \in Commands, Send(c) PROVE BooksKept'
    BY <2>6 DEF Send, Complete
  <2>7. ASSUME NEW c \in Commands, Timeout(c) PROVE BooksKept'
    BY <2>7 DEF Timeout, Complete
  <2>8. ASSUME NEW c \in Commands, Return(c) PROVE BooksKept'
    BY <2>8 DEF Return
  <2>9. ASSUME NEW w \in Sockets, HandlerStep(w) PROVE BooksKept'
    BY <2>2, <2>3, <2>9
    DEF HandlerStep, Hello, Pend, Announce, HandlerGone, Auth, Connect, Replace, Confirm,
        HandlerNotices, Disconnect, callers
  <2>10. ASSUME NEW a \in Admins, Approve(a) \/ ApproveSearch(a) \/ Reject(a) \/ Revoke(a) \/ AdminStep(a)
         PROVE  BooksKept'
    BY <2>2, <2>10
    DEF AdminStep, Approve, ApproveSearch, ApproveNothing, Reject, Revoke, ApproveInsert, ApproveNotify, ApproveClear,
        RejectTell, RevokePop, RevokeDelete, callers
  <2>11. CASE DaemonStep
    BY <2>2, <2>11
    DEF DaemonStep, DaemonOpens, DaemonOnboarding, DaemonJoining, DaemonTakes, DaemonDoes,
        DaemonNotices, callers
  <2>12. QED
    BY <2>2, <2>4, <2>5, <2>6, <2>7, <2>8, <2>9, <2>10, <2>11
    DEF Next, CallerStep, Drop, StrayEnds, callers, vars
<1>3. QED BY <1>1, <1>2, TypeInit, TypeStep, PTL DEF Spec

LEMMA StatusStill ==
  ASSUME UNCHANGED <<sent, executed, strayed>>, \A c \in Commands : StatusOf(c)' = StatusOf(c)
  PROVE  UNCHANGED Relay!rvars
BY DEF Relay!rvars

LEMMA Still ==
  ASSUME UNCHANGED <<caller, future, sent, executed, strayed>>
  PROVE  UNCHANGED Relay!rvars
BY DEF Relay!rvars, StatusOf

\* One command is answered, or goes out.
LEMMA Answers ==
  ASSUME NEW c \in Commands, NEW s, StatusOf(c)' = s,
         \A d \in Commands \ {c} : caller'[d] = caller[d] /\ future'[d] = future[d]
  PROVE  Relay!Answer(c, s)
BY DEF Relay!Answer, StatusOf

LEMMA RefuseServes ==
  ASSUME TypeInv, BooksKept, NEW c \in Commands, NotConnected(c) PROVE Relay!Refuse(c)
<1>1. /\ caller \in [Commands -> {"new", "queued", "wait", "done"}]
      /\ future \in [Commands -> {"none", "ok", "failed"}]
  BY DEF TypeInv, TypeOK
<1>2. caller[c] = "new" /\ future[c] = "none" BY DEF NotConnected, BooksKept
<1>3. /\ caller' = [caller EXCEPT ![c] = "done"] /\ future' = [future EXCEPT ![c] = "failed"]
      /\ UNCHANGED <<sent, executed, strayed>>
  BY <1>1, <1>2 DEF NotConnected, Complete, devices
<1>4. StatusOf(c) = "new" /\ StatusOf(c)' = "failed" BY <1>1, <1>2, <1>3 DEF StatusOf
<1>5. Relay!Answer(c, "failed") BY <1>1, <1>3, <1>4, Answers
<1>6. QED BY <1>3, <1>4, <1>5 DEF Relay!Refuse

LEMMA SubmitServes ==
  ASSUME TypeInv, BooksKept, NEW c \in Commands, Send(c) PROVE Relay!Submit(c)
<1>1. /\ caller \in [Commands -> {"new", "queued", "wait", "done"}]
      /\ future \in [Commands -> {"none", "ok", "failed"}]
  BY DEF TypeInv, TypeOK
<1>2. caller[c] = "queued" /\ future[c] = "none" BY DEF Send, BooksKept
<1>3. /\ caller' = [caller EXCEPT ![c] = "wait"]
      /\ future' = future \/ future' = [future EXCEPT ![c] = "failed"]
      /\ sent' = Append(sent, c) /\ UNCHANGED <<executed, strayed>>
  BY <1>1, <1>2 DEF Send, Complete, devices
<1>4. StatusOf(c) = "new" /\ StatusOf(c)' \in {"open", "failed"}
  BY <1>1, <1>2, <1>3 DEF StatusOf
<1>5. \A d \in Commands \ {c} : caller'[d] = caller[d] /\ future'[d] = future[d]
  BY <1>1, <1>3
<1>6. Relay!Answer(c, "open") \/ Relay!Answer(c, "failed") BY <1>4, <1>5, Answers
<1>7. QED BY <1>3, <1>4, <1>6 DEF Relay!Submit

LEMMA FailServes ==
  ASSUME TypeInv, NEW c \in Commands, Timeout(c) PROVE Relay!Fail(c)
<1>1. /\ caller \in [Commands -> {"new", "queued", "wait", "done"}]
      /\ future \in [Commands -> {"none", "ok", "failed"}]
  BY DEF TypeInv, TypeOK
<1>2. /\ caller[c] = "wait" /\ future[c] = "none" /\ UNCHANGED <<caller, sent, executed, strayed>>
      /\ future' = [future EXCEPT ![c] = "failed"]
  BY <1>1 DEF Timeout, Complete, devices
<1>3. StatusOf(c) = "open" /\ StatusOf(c)' = "failed" BY <1>1, <1>2 DEF StatusOf
<1>4. Relay!Answer(c, "failed") BY <1>1, <1>2, <1>3, Answers
<1>5. QED BY <1>2, <1>3, <1>4 DEF Relay!Fail

\* A result counts for the command it names, while its caller waits.
LEMMA ResultServes ==
  ASSUME TypeInv, BooksKept, ResultsTrue, SureResults, NEW w \in Sockets, HandleResult(w)
  PROVE  [Relay!Next]_(Relay!rvars)
<1> DEFINE r == Head(up[w])
<1>1. /\ caller \in [Commands -> {"new", "queued", "wait", "done"}]
      /\ future \in [Commands -> {"none", "ok", "failed"}]
      /\ up \in [Sockets -> Seq(Results)] /\ executed \in Seq(Commands)
  BY DEF TypeInv, TypeOK
<1>2. r \in Results /\ r \in ToSet(up[w]) BY <1>1, TailFacts DEF HandleResult
<1>3. PICK c \in Commands, s \in {"ok", "failed"} : c = r.cmd /\ s = (IF r.ok THEN "ok" ELSE "failed")
  BY <1>2 DEF Results
<1>4. s = "ok" => c \in Relay!Range(executed) \ strayed
  BY <1>2, <1>3 DEF ResultsTrue, SureResults, ToSet, Relay!Range
<1>5. /\ UNCHANGED <<caller, sent, executed, strayed>>
      /\ future' = IF c \in registered /\ future[c] = "none"
                   THEN [future EXCEPT ![c] = s] ELSE future
  BY <1>3 DEF HandleResult, devices
<1> HIDE DEF r
<1>6. CASE c \in registered /\ future[c] = "none"
  <2>1. caller[c] = "wait" /\ future' = [future EXCEPT ![c] = s] BY <1>5, <1>6 DEF BooksKept
  <2>2. StatusOf(c) = "open" BY <1>6, <2>1 DEF StatusOf
  <2>3. StatusOf(c)' = s BY <1>1, <1>3, <2>1 DEF StatusOf
  <2>4. Relay!Answer(c, s) BY <1>1, <1>3, <1>5, <2>1, <2>3, Answers
  <2>5. Relay!Succeed(c) \/ Relay!Fail(c)
    BY <1>3, <1>4, <1>5, <2>2, <2>4 DEF Relay!Succeed, Relay!Fail
  <2>6. QED BY <1>3, <2>5 DEF Relay!Next
<1>7. CASE ~(c \in registered /\ future[c] = "none") BY <1>5, <1>7, Still
<1>8. QED BY <1>6, <1>7

\* A command has one turn, after all that had theirs.
LEMMA TurnComes ==
  ASSUME TypeInv, KeepsOrder, doing # None PROVE doing \in Commands /\ Relay!Turn(doing)
<1>1. /\ doing \in Commands /\ executed \in Seq(Commands) /\ sent \in Seq(Commands)
      /\ DOMAIN sent \subseteq Nat
  BY DEF TypeInv, TypeOK
<1>2. PICK n \in DOMAIN sent : sent[n] = doing BY DEF KeepsOrder, ToSet
<1>3. \A k \in DOMAIN sent : sent[k] = doing => k = n
  BY <1>1, <1>2 DEF KeepsOrder, Before
<1>4. doing \notin Relay!Earlier(n) BY <1>1, <1>3 DEF Relay!Earlier
<1>5. ASSUME NEW x \in Handled PROVE x \in Relay!Earlier(n)
  <2>1. Before(sent, x, doing) BY <1>5 DEF KeepsOrder
  <2>2. PICK k \in DOMAIN sent : k < n /\ sent[k] = x BY <1>3, <2>1 DEF Before
  <2>3. QED BY <2>2 DEF Relay!Earlier
<1>6. Relay!Range(executed) \cup strayed \subseteq Relay!Earlier(n)
  BY <1>5 DEF Handled, Relay!Range, ToSet
<1>7. QED BY <1>1, <1>2, <1>4, <1>6 DEF Relay!Turn

LEMMA ExecuteServes ==
  ASSUME TypeInv, KeepsOrder, DaemonDoes PROVE [Relay!Next]_(Relay!rvars)
<1>1. doing \in Commands /\ Relay!Turn(doing)
  BY TurnComes, SatelliteAssumption DEF TypeInv, TypeOK, Pointers, DaemonDoes
<1>2. /\ UNCHANGED <<caller, future, sent>>
      /\ \/ executed' = executed /\ strayed' = strayed
         \/ executed' = executed /\ strayed' = strayed \cup {doing}
         \/ executed' = Append(executed, doing) /\ strayed' = strayed
  BY DEF DaemonDoes, callers, devices
<1>3. CASE executed' = executed /\ strayed' = strayed BY <1>2, <1>3, Still
<1>4. CASE executed' = Append(executed, doing) /\ strayed' = strayed
  <2>1. Relay!Execute(doing) BY <1>1, <1>2, <1>4 DEF Relay!Execute, StatusOf
  <2>2. QED BY <1>1, <2>1 DEF Relay!Next
<1>5. CASE executed' = executed /\ strayed' = strayed \cup {doing}
  <2>1. Relay!GiveUp(doing) BY <1>1, <1>2, <1>5 DEF Relay!GiveUp, StatusOf
  <2>2. QED BY <1>1, <2>1 DEF Relay!Next
<1>6. QED BY <1>2, <1>3, <1>4, <1>5

LEMMA StrayServes ==
  ASSUME NEW c \in Commands, StrayEnds(c) PROVE [Relay!Next]_(Relay!rvars)
<1>1. Relay!TakeEffect(c)
  BY DEF StrayEnds, callers, Relay!TakeEffect, Relay!Range, ToSet, StatusOf
<1>2. QED BY <1>1 DEF Relay!Next

LEMMA StepServes ==
  ASSUME TypeInv, BooksKept, ResultsTrue, SureResults, KeepsOrder, [Next]_vars
  PROVE  [Relay!Next]_(Relay!rvars)
<1> USE DEF callers, devices
<1>1. CASE UNCHANGED <<caller, future, sent, executed, strayed>> BY <1>1, Still
<1>2. ASSUME NEW w \in Sockets, HandlerStep(w) PROVE [Relay!Next]_(Relay!rvars)
  BY <1>1, <1>2, ResultServes
  DEF HandlerStep, Hello, Pend, Announce, HandlerGone, Auth, Connect, Replace, Confirm,
      HandlerNotices, Disconnect
<1>3. ASSUME NEW a \in Admins, Approve(a) \/ ApproveSearch(a) \/ Reject(a) \/ Revoke(a) \/ AdminStep(a)
      PROVE  [Relay!Next]_(Relay!rvars)
  BY <1>1, <1>3
  DEF AdminStep, Approve, ApproveSearch, ApproveNothing, Reject, Revoke, ApproveInsert, ApproveNotify, ApproveClear,
      RejectTell, RevokePop, RevokeDelete
<1>4. CASE DaemonStep
  BY <1>1, <1>4, ExecuteServes
  DEF DaemonStep, DaemonOpens, DaemonOnboarding, DaemonJoining, DaemonTakes, DaemonNotices
<1>5. ASSUME NEW c \in Commands, NotConnected(c) \/ Send(c) \/ Timeout(c)
      PROVE  [Relay!Next]_(Relay!rvars)
  BY <1>5, RefuseServes, SubmitServes, FailServes DEF Relay!Next
<1>6. ASSUME NEW c \in Commands, Look(c) \/ Return(c) PROVE [Relay!Next]_(Relay!rvars)
  <2>1. /\ UNCHANGED <<future, sent, executed, strayed>>
        /\ \A d \in Commands : caller'[d] = caller[d] \/ future[d] # "none"
                                 \/ (caller[d] = "new" /\ caller'[d] = "queued")
    BY <1>6 DEF Look, Return, TypeInv, TypeOK
  <2>2. \A d \in Commands : StatusOf(d)' = StatusOf(d) BY <2>1 DEF StatusOf
  <2>3. QED BY <2>1, <2>2, StatusStill
<1>7. QED
  BY <1>1, <1>2, <1>3, <1>4, <1>5, <1>6, StrayServes DEF Next, CallerStep, Drop, vars

(* The relay, with its lock, its two endpoints and the daemon that comes and *)
(* goes, is a service that answers every command once, lets none take effect *)
(* twice, starts none before an older one, and reports success only of what  *)
(* took effect in its turn (satellite_manager.py, ws_client.py, shell.py).   *)
THEOREM RelaysCorrect == Spec => Relays
<1>1. Init => Relay!Init
  BY DEF Init, Relay!Init, StatusOf
<1>2. ASSUME TypeInv, BooksKept, ResultsTrue, SureResults, KeepsOrder, [Next]_vars
      PROVE  [Relay!Next]_(Relay!rvars)
  BY <1>2, StepServes
<1>3. QED
  BY <1>1, <1>2, TypeInit, TypeStep, Books, TrueResults, Sure, InOrder, PTL
  DEF Spec, Relays, Relay!Spec

-----------------------------------------------------------------------------
(* Who waits for whom                                                      *)

Onboards == {"hello", "pend", "announce", "waiting"}
Joins == {"auth", "checked", "replacing", "confirm"}

(* An onboarding socket is never registered, and only its endpoint and the *)
(* administrators who took it from the pending list write to it.           *)
OnboardServed ==
  dpc = "onboarding" =>
    /\ connections # sock /\ \A c \in Commands : via[c] # sock
    /\ handler[sock] \in Onboards \cup {"none"}
    /\ link[sock] = "up" => handler[sock] # "none"
    /\ \A m \in ToSet(down[sock]) : m.kind \in {"approved", "rejected", "pending"}

(* The socket of a known daemon is never pending.                          *)
MainServed ==
  dpc \in {"joining", "loop", "busy"} =>
    /\ pending # sock /\ \A a \in Admins : target[a] # sock
    /\ handler[sock] \notin Onboards
    /\ link[sock] = "up" => handler[sock] \notin {"none", "cleanup"}

(* Commands may overtake the confirmation, but not push it out.            *)
JoinServed ==
  dpc = "joining" =>
    /\ \A m \in ToSet(down[sock]) : m.kind \in {"connected", "error", "command"}
    /\ handler[sock] \in Joins => \A m \in ToSet(down[sock]) : m.kind = "command"
    /\ \A m, n \in ToSet(down[sock]) :
         Before(down[sock], m, n) /\ m.kind = "connected" => n.kind = "command"
    /\ link[sock] = "up" /\ handler[sock] = "loop" =>
         \E m \in ToSet(down[sock]) : m.kind = "connected"

LoopServed ==
  dpc \in {"loop", "busy"} =>
    /\ \A m \in ToSet(down[sock]) : m.kind = "command"
    /\ handler[sock] \notin Joins

Served == OnboardServed /\ MainServed /\ JoinServed /\ LoopServed

LEMMA ServedFacts ==
  ASSUME TypeInv, Served PROVE DaemonServed
<1>1. dpc # "idle" => down[sock] \in Seq(Messages) /\ handler[sock] \in HandlerPC
  BY DEF TypeInv, TypeOK, Pointers
<1>2. dpc # "idle" /\ down[sock] # <<>> => Head(down[sock]) \in ToSet(down[sock])
  BY <1>1, TailFacts
<1>3. dpc = "onboarding" => WaitsFor({"approved", "rejected", "pending"}, Onboards)
  BY <1>1, <1>2 DEF Served, OnboardServed, WaitsFor
<1>4. dpc = "joining" => WaitsFor({"connected", "error", "command"}, Joins)
  BY <1>1, <1>2, EmptyFacts
  DEF Served, MainServed, JoinServed, WaitsFor, HandlerPC, Onboards, Joins
<1>5. dpc \in {"loop", "busy"} => WaitsFor({"command"}, {"loop"})
  BY <1>1, <1>2
  DEF Served, MainServed, LoopServed, WaitsFor, HandlerPC, Onboards, Joins
<1>6. QED BY <1>3, <1>4, <1>5 DEF DaemonServed, Onboards, Joins

\* A queue grows at its end, and not at all when the link is broken.
LEMMA PostFacts ==
  ASSUME TypeInv, NEW w \in Sockets, NEW m \in Messages, Post(w, m), NEW v \in Sockets
  PROVE  /\ v # w => down'[v] = down[v]
         /\ link[w] # "up" => down'[v] = down[v]
         /\ link[w] = "up" => ToSet(down'[w]) = ToSet(down[w]) \cup {m}
         /\ \A x, y : Before(down'[v], x, y) =>
              Before(down[v], x, y) \/ (v = w /\ y = m /\ x \in ToSet(down[v]))
<1> DEFINE q == Append(down[w], m)
<1>1. down \in [Sockets -> Seq(Messages)] BY DEF TypeInv, TypeOK
<1>2. /\ ToSet(q) = ToSet(down[w]) \cup {m}
      /\ \A x, y : Before(q, x, y) => Before(down[w], x, y) \/ (y = m /\ x \in ToSet(down[w]))
  BY <1>1, AppendFacts
<1>3. down' = IF link[w] = "up" THEN [down EXCEPT ![w] = q] ELSE down BY DEF Post
<1> HIDE DEF q
<1>4. QED BY <1>1, <1>2, <1>3

\* What touches neither the daemon's socket nor what may reach it.
LEMMA ServedStill ==
  ASSUME Served, dpc # "idle" => sock \in Sockets,
         UNCHANGED <<dpc, sock>>,
         dpc # "idle" => UNCHANGED <<down[sock], handler[sock]>>,
         dpc # "idle" /\ link'[sock] = "up" => link[sock] = "up",
         connections' = connections \/ connections' = None \/ handler[connections'] \in Joins,
         \A c \in Commands : via'[c] = via[c] \/ via'[c] = None \/ via'[c] = connections,
         pending' = pending \/ pending' = None \/ handler[pending'] \in Onboards,
         \A a \in Admins : target'[a] = target[a] \/ target'[a] = None \/ target'[a] = pending
  PROVE  Served'
<1>1. OnboardServed'
  BY SatelliteAssumption DEF Served, OnboardServed, Onboards, Joins
<1>2. MainServed'
  BY SatelliteAssumption DEF Served, MainServed
<1>3. JoinServed' BY DEF Served, JoinServed
<1>4. LoopServed' BY DEF Served, LoopServed
<1>5. QED BY <1>1, <1>2, <1>3, <1>4 DEF Served

LEMMA HandlerServes ==
  ASSUME TypeInv, Served, NEW w \in Sockets, HandlerStep(w) PROVE Served'
<1>1. /\ link \in [Sockets -> {"up", "closed", "dropped"}] /\ handler \in [Sockets -> HandlerPC]
      /\ dpc \in DaemonPC /\ sock \in Sockets \cup {None} /\ (dpc # "idle" => sock \in Sockets)
  BY DEF TypeInv, TypeOK, Pointers
<1>2. UNCHANGED <<dpc, sock, via, target>>
  BY DEF HandlerStep, Hello, Pend, Announce, HandlerGone, Auth, Connect, Replace, Confirm,
         HandleResult, HandlerNotices, Disconnect, admins, daemon, callers
<1>3. \A k \in {"pending", "approved", "error", "connected"} :
        Message(k) \in Messages /\ Message(k).kind = k
  BY MessageTyped DEF Message
<1>4. CASE w # sock \/ dpc = "idle"
  <2>1. handler' = handler \/ \E p \in HandlerPC : Goto(w, p)
    BY DEF HandlerStep, Hello, Pend, Announce, HandlerGone, Auth, Connect, Replace, Confirm,
           HandleResult, HandlerNotices, Disconnect, server, HandlerPC
  <2>2. down' = down \/ \E m \in Messages : Post(w, m)
    BY <1>3
    DEF HandlerStep, Hello, Pend, Announce, HandlerGone, Auth, Connect, Replace, Confirm,
        HandleResult, HandlerNotices, Disconnect, sockets
  <2>3. link' = link \/ \E v \in Sockets : Close(v)
    BY DEF HandlerStep, Hello, Pend, Announce, HandlerGone, Auth, Connect, Replace, Confirm,
           HandleResult, HandlerNotices, Disconnect, sockets, TypeInv, TypeOK
  <2>4. connections' = connections \/ connections' = None
          \/ (connections' = w /\ handler[w] \in Joins)
    BY DEF HandlerStep, Hello, Pend, Announce, HandlerGone, Auth, Connect, Replace, Confirm,
           HandleResult, HandlerNotices, Disconnect, server, Joins
  <2>5. pending' = pending \/ (pending' = w /\ handler[w] \in Onboards)
    BY DEF HandlerStep, Hello, Pend, Announce, HandlerGone, Auth, Connect, Replace, Confirm,
           HandleResult, HandlerNotices, Disconnect, server, Onboards
  <2>6. dpc # "idle" => handler'[sock] = handler[sock] /\ down'[sock] = down[sock]
                          /\ (link'[sock] = "up" => link[sock] = "up")
    <3>1. dpc # "idle" => handler'[sock] = handler[sock] BY <1>1, <1>4, <2>1 DEF Goto
    <3>2. dpc # "idle" => down'[sock] = down[sock] BY <1>1, <1>4, <2>2, PostFacts
    <3>3. link'[sock] = "up" /\ dpc # "idle" => link[sock] = "up" BY <1>1, <2>3 DEF Close
    <3>4. QED BY <3>1, <3>2, <3>3
  <2>7. QED BY <1>1, <1>2, <2>4, <2>5, <2>6, ServedStill
<1>5. CASE w = sock /\ dpc # "idle"
  <2> USE <1>1, <1>2, <1>5
      DEF Served, OnboardServed, MainServed, JoinServed, LoopServed, Onboards, Joins, Goto,
          DaemonPC, HandlerPC
  <2>1. CASE Hello(w)
    <3>1. CASE record
      <4>1. Post(w, Message("approved")) /\ Close(w) /\ Goto(w, "none")
            /\ UNCHANGED <<connections, pending>>
        BY <2>1, <3>1 DEF Hello
      <4>2. ToSet(down'[w]) \subseteq ToSet(down[w]) \cup {Message("approved")}
        BY <1>3, <4>1, PostFacts
      <4>3. link'[w] # "up" BY <4>1 DEF Close
      <4>4. QED BY <1>3, <2>1, <4>1, <4>2, <4>3 DEF Hello
    <3>2. CASE ~record BY <2>1, <3>2 DEF Hello, sockets
    <3>3. QED BY <3>1, <3>2
  <2>2. CASE Pend(w) BY <2>2 DEF Pend, sockets
  <2>3. CASE Announce(w)
    <3>1. ToSet(down'[w]) \subseteq ToSet(down[w]) \cup {Message("pending")}
      BY <1>3, <2>3, PostFacts DEF Announce
    <3>2. QED BY <1>3, <2>3, <3>1 DEF Announce
  <2>4. CASE HandlerGone(w) BY <2>4 DEF HandlerGone, sockets
  <2>5. CASE Auth(w)
    <3>1. CASE record BY <2>5, <3>1 DEF Auth, sockets
    <3>2. CASE ~record
      <4>1. Post(w, Message("error")) /\ Close(w) /\ Goto(w, "none")
            /\ UNCHANGED <<connections, pending>>
        BY <2>5, <3>2 DEF Auth
      <4>2. /\ ToSet(down'[w]) \subseteq ToSet(down[w]) \cup {Message("error")}
            /\ \A x, y : Before(down'[w], x, y) =>
                 Before(down[w], x, y) \/ (y = Message("error") /\ x \in ToSet(down[w]))
        BY <1>3, <4>1, PostFacts
      <4>3. link'[w] # "up" BY <4>1 DEF Close
      <4>4. QED BY <1>3, <2>5, <4>1, <4>2, <4>3 DEF Auth
    <3>3. QED BY <3>1, <3>2
  <2>6. CASE Connect(w)
    <3>1. link'[w] = "up" => link[w] = "up" BY <2>6 DEF Connect, Close, TypeInv, TypeOK
    <3>2. QED BY <2>6, <3>1 DEF Connect
  <2>7. CASE Replace(w) BY <2>7 DEF Replace, sockets
  <2>8. CASE Confirm(w)
    <3>1. /\ ToSet(down'[w]) \subseteq ToSet(down[w]) \cup {Message("connected")}
          /\ link[w] = "up" => Message("connected") \in ToSet(down'[w])
          /\ \A x, y : Before(down'[w], x, y) =>
               Before(down[w], x, y) \/ (y = Message("connected") /\ x \in ToSet(down[w]))
      BY <1>3, <2>8, PostFacts DEF Confirm
    <3>2. /\ handler[w] = "confirm" /\ UNCHANGED <<link, connections, pending>>
          /\ handler'[w] \in {"cleanup", "loop"} /\ (link[w] = "up" => handler'[w] = "loop")
      BY <2>8 DEF Confirm
    <3>3. dpc = "joining" BY <3>2
    <3>4. \A m, n \in ToSet(down'[w]) :
            Before(down'[w], m, n) /\ m.kind = "connected" => n.kind = "command"
      BY <1>3, <3>1, <3>2, <3>3, BeforeMembers
    <3>5. QED BY <1>3, <3>1, <3>2, <3>3, <3>4
  <2>9. CASE HandleResult(w) BY <2>9 DEF HandleResult, server
  <2>10. CASE HandlerNotices(w) BY <2>10 DEF HandlerNotices, sockets
  <2>11. CASE Disconnect(w) BY SatelliteAssumption, <2>11 DEF Disconnect, sockets
  <2>12. QED
    BY <2>1, <2>2, <2>3, <2>4, <2>5, <2>6, <2>7, <2>8, <2>9, <2>10, <2>11 DEF HandlerStep
<1>6. QED BY <1>4, <1>5

LEMMA AdminServes ==
  ASSUME TypeInv, Served, NEW a \in Admins, Approve(a) \/ ApproveSearch(a) \/ Reject(a) \/ Revoke(a) \/ AdminStep(a)
  PROVE  Served'
<1>1. /\ link \in [Sockets -> {"up", "closed", "dropped"}]
      /\ admin \in [Admins -> AdminPC] /\ target \in [Admins -> Sockets \cup {None}]
      /\ connections \in Sockets \cup {None} /\ (dpc # "idle" => sock \in Sockets)
      /\ admin[a] \in {"insert", "notify", "tell"} => target[a] \in Sockets
  BY DEF TypeInv, TypeOK, Pointers
<1>2. \A k \in {"approved", "rejected"} : Message(k) \in Messages /\ Message(k).kind = k
  BY MessageTyped DEF Message
<1>3. /\ UNCHANGED <<dpc, sock, handler, via>>
      /\ connections' = connections \/ connections' = None
      /\ pending' = pending \/ pending' = None
      /\ \A b \in Admins : target'[b] = target[b] \/ target'[b] = None \/ target'[b] = pending
  BY <1>1
  DEF AdminStep, Approve, ApproveSearch, ApproveNothing, Reject, Revoke, ApproveInsert, ApproveNotify, ApproveClear,
      RejectTell, RevokePop, RevokeDelete, AdminGoto, server, daemon, callers
<1>4. link' = link \/ \E v \in Sockets : Close(v)
  BY <1>1
  DEF AdminStep, Approve, ApproveSearch, ApproveNothing, Reject, Revoke, ApproveInsert, ApproveNotify, ApproveClear,
      RejectTell, RevokePop, RevokeDelete, sockets
<1>5. dpc # "idle" /\ link'[sock] = "up" => link[sock] = "up" BY <1>1, <1>4 DEF Close
<1>6. CASE dpc # "idle" => down'[sock] = down[sock] BY <1>1, <1>3, <1>5, <1>6, ServedStill
<1>7. ASSUME NEW k \in {"approved", "rejected"}, target[a] \in Sockets, Post(target[a], Message(k)),
             dpc # "idle"
      PROVE  Served'
  <2>1. CASE target[a] # sock
    <3>1. down'[sock] = down[sock] BY <1>1, <1>2, <1>7, <2>1, PostFacts
    <3>2. QED BY <1>6, <3>1
  <2>2. CASE target[a] = sock
    <3>1. dpc = "onboarding" BY <1>7, <2>2 DEF Served, MainServed, TypeInv, TypeOK, DaemonPC
    <3>2. ToSet(down'[sock]) \subseteq ToSet(down[sock]) \cup {Message(k)}
      BY <1>2, <1>7, <2>2, PostFacts
    <3>3. OnboardServed'
      BY SatelliteAssumption, <1>1, <1>2, <1>3, <1>5, <3>1, <3>2 DEF Served, OnboardServed
    <3>4. QED BY <1>3, <3>1, <3>3 DEF Served, MainServed, JoinServed, LoopServed
  <2>3. QED BY <2>1, <2>2
<1>8. CASE ApproveNotify(a) BY <1>1, <1>6, <1>7, <1>8 DEF ApproveNotify
<1>9. CASE RejectTell(a) BY <1>1, <1>6, <1>7, <1>9 DEF RejectTell
<1>10. QED
  BY <1>6, <1>8, <1>9
  DEF AdminStep, Approve, ApproveSearch, ApproveNothing, Reject, Revoke, ApproveInsert, ApproveClear, RevokePop,
      RevokeDelete, sockets

LEMMA DaemonServes ==
  ASSUME TypeInv, Served, DaemonStep PROVE Served'
<1>1. /\ link \in [Sockets -> {"up", "closed", "dropped"}] /\ handler \in [Sockets -> HandlerPC]
      /\ down \in [Sockets -> Seq(Messages)] /\ (dpc # "idle" => sock \in Sockets)
  BY DEF TypeInv, TypeOK, Pointers
<1>2. UNCHANGED <<connections, pending, target, via>>
  BY DEF DaemonStep, DaemonOpens, DaemonOnboarding, DaemonJoining, DaemonTakes, DaemonDoes,
         DaemonNotices, server, admins, callers
<1>3. CASE DaemonOpens
  <2>1. PICK w \in Sockets : Unused(w) /\ sock' = w /\ Goto(w, IF known THEN "auth" ELSE "hello")
          /\ down' = [down EXCEPT ![w] = <<>>] /\ dpc' = IF known THEN "joining" ELSE "onboarding"
    BY <1>3 DEF DaemonOpens
  <2>2. ToSet(down'[w]) = {} /\ handler'[w] = IF known THEN "auth" ELSE "hello"
    BY <1>1, <2>1, EmptyFacts DEF Goto
  <2>3. OnboardServed' BY <1>2, <2>1, <2>2 DEF OnboardServed, Unused, Onboards
  <2>4. MainServed' BY <1>2, <2>1, <2>2 DEF MainServed, Unused, Onboards
  <2>5. JoinServed' BY <2>1, <2>2 DEF JoinServed, Unused
  <2>6. LoopServed' BY <2>1 DEF LoopServed
  <2>7. QED BY <2>3, <2>4, <2>5, <2>6 DEF Served
<1>4. ASSUME dpc' = "idle" PROVE Served'
  BY <1>4 DEF Served, OnboardServed, MainServed, JoinServed, LoopServed
<1>5. ASSUME NEW k, dpc # "idle", DaemonReads(k)
      PROVE  /\ Head(down[sock]) \in ToSet(down[sock]) /\ Head(down[sock]).kind = k
             /\ Pop => /\ ToSet(down'[sock]) \subseteq ToSet(down[sock])
                       /\ \A x, y : Before(down'[sock], x, y) => Before(down[sock], x, y)
                       /\ \A y \in ToSet(down'[sock]) : Before(down[sock], Head(down[sock]), y)
  <2>1. down[sock] # <<>> /\ Head(down[sock]).kind = k BY <1>5 DEF DaemonReads
  <2>2. Pop => down'[sock] = Tail(down[sock]) BY <1>1, <1>5 DEF Pop
  <2>3. down[sock] \in Seq(Messages) BY <1>1, <1>5
  <2>4. QED BY <2>1, <2>2, <2>3, TailFacts
<1>6. CASE DaemonOnboarding
  <2>1. CASE DaemonReads("pending") /\ Pop /\ UNCHANGED <<link, dpc, sock, known>>
    <3>1. ToSet(down'[sock]) \subseteq ToSet(down[sock]) /\ dpc = "onboarding"
          /\ UNCHANGED handler
      BY <1>5, <1>6, <2>1 DEF DaemonOnboarding, server
    <3>2. OnboardServed' BY <1>2, <2>1, <3>1 DEF Served, OnboardServed
    <3>3. QED BY <2>1, <3>1, <3>2 DEF Served, MainServed, JoinServed, LoopServed
  <2>2. CASE DaemonLeaves BY <1>4, <2>2 DEF DaemonLeaves
  <2>3. QED BY <1>6, <2>1, <2>2 DEF DaemonOnboarding
<1>7. CASE DaemonJoining
  <2>1. CASE DaemonReads("connected") /\ Pop /\ dpc' = "loop" /\ UNCHANGED <<link, sock, known>>
    <3>1. dpc = "joining" /\ UNCHANGED handler BY <1>7 DEF DaemonJoining, server
    <3>2. \A n \in ToSet(down'[sock]) : n.kind = "command"
      BY <1>5, <2>1, <3>1 DEF Served, JoinServed
    <3>3. handler[sock] \notin Joins BY <1>5, <2>1, <3>1 DEF Served, JoinServed
    <3>4. LoopServed' BY <2>1, <3>1, <3>2, <3>3 DEF LoopServed
    <3>5. MainServed' BY <1>2, <2>1, <3>1 DEF Served, MainServed
    <3>6. QED BY <2>1, <3>4, <3>5 DEF Served, OnboardServed, JoinServed
  <2>2. CASE DaemonLeaves BY <1>4, <2>2 DEF DaemonLeaves
  <2>3. QED BY <1>7, <2>1, <2>2 DEF DaemonJoining
<1>8. CASE DaemonTakes \/ DaemonDoes
  <2>1. /\ dpc \in {"loop", "busy"} /\ dpc' \in {"loop", "busy"}
        /\ UNCHANGED <<link, sock, handler>>
    BY <1>8 DEF DaemonTakes, DaemonDoes, server
  <2>2. ToSet(down'[sock]) \subseteq ToSet(down[sock])
    BY <1>5, <1>8 DEF DaemonTakes, DaemonDoes
  <2>3. LoopServed' BY <2>1, <2>2 DEF Served, LoopServed
  <2>4. MainServed' BY <1>2, <2>1 DEF Served, MainServed
  <2>5. QED BY <2>1, <2>3, <2>4 DEF Served, OnboardServed, JoinServed
<1>9. CASE DaemonNotices BY <1>4, <1>9 DEF DaemonNotices
<1>10. QED BY <1>3, <1>6, <1>7, <1>8, <1>9 DEF DaemonStep

LEMMA DropServes ==
  ASSUME TypeInv, Served, NEW w \in Sockets, Drop(w) PROVE Served'
<1>1. /\ link' = [link EXCEPT ![w] = "dropped"] /\ down' = [down EXCEPT ![w] = <<>>]
      /\ UNCHANGED <<dpc, sock, handler, connections, pending, target, via>>
      /\ link \in [Sockets -> {"up", "closed", "dropped"}]
      /\ down \in [Sockets -> Seq(Messages)] /\ (dpc # "idle" => sock \in Sockets)
  BY DEF Drop, TypeInv, TypeOK, Pointers, server, admins, daemon, callers
<1>2. CASE w # sock \/ dpc = "idle"
  <2>1. dpc # "idle" => down'[sock] = down[sock] /\ link'[sock] = link[sock] BY <1>1, <1>2
  <2>2. QED BY <1>1, <2>1, ServedStill
<1>3. CASE w = sock /\ dpc # "idle"
  <2>1. ToSet(down'[sock]) = {} /\ link'[sock] = "dropped" BY <1>1, <1>3, EmptyFacts
  <2>2. QED
    BY <1>1, <2>1 DEF Served, OnboardServed, MainServed, JoinServed, LoopServed
<1>4. QED BY <1>2, <1>3

LEMMA CallerServes ==
  ASSUME TypeInv, Served, NEW c \in Commands, NotConnected(c) \/ Look(c) \/ CallerStep(c)
  PROVE  Served'
<1>1. /\ dpc # "idle" => sock \in Sockets
      /\ via \in [Commands -> Sockets \cup {None}]
      /\ caller[c] = "queued" => via[c] \in Sockets
  BY DEF TypeInv, TypeOK, Pointers
<1>2. /\ UNCHANGED <<dpc, sock, link, handler, connections, pending, target>>
      /\ \A d \in Commands : via'[d] = via[d] \/ via'[d] = None \/ via'[d] = connections
  BY <1>1
  DEF NotConnected, Look, CallerStep, Send, Timeout, Return, sockets, server, admins, daemon
<1>3. CASE dpc # "idle" => down'[sock] = down[sock] BY <1>1, <1>2, <1>3, ServedStill
<1>4. CASE Send(c) /\ dpc # "idle"
  <2> DEFINE m == [kind |-> "command", cmd |-> c]
  <2>1. via[c] \in Sockets /\ Post(via[c], m) /\ m \in Messages /\ m.kind = "command"
    BY <1>1, <1>4 DEF Send, Messages
  <2> HIDE DEF m
  <2>2. CASE via[c] # sock
    <3>1. down'[sock] = down[sock] BY <1>1, <1>4, <2>1, <2>2, PostFacts
    <3>2. QED BY <1>3, <3>1
  <2>3. CASE via[c] = sock
    <3>1. /\ ToSet(down'[sock]) \subseteq ToSet(down[sock]) \cup {m}
          /\ ToSet(down[sock]) \subseteq ToSet(down'[sock])
          /\ \A x, y : Before(down'[sock], x, y) =>
               Before(down[sock], x, y) \/ (y = m /\ x \in ToSet(down[sock]))
      BY <2>1, <2>3, PostFacts
    <3>2. OnboardServed' BY <1>2, <2>3 DEF Served, OnboardServed
    <3>3. MainServed' BY <1>2 DEF Served, MainServed
    <3>4. JoinServed' BY <1>2, <2>1, <3>1, BeforeMembers DEF Served, JoinServed
    <3>5. LoopServed' BY <1>2, <2>1, <3>1 DEF Served, LoopServed
    <3>6. QED BY <3>2, <3>3, <3>4, <3>5 DEF Served
  <2>4. QED BY <2>2, <2>3
<1>5. QED
  BY <1>3, <1>4 DEF NotConnected, Look, CallerStep, Timeout, Return, sockets

LEMMA LockOwnedStep ==
  ASSUME TypeInv, LockOwned, [Next]_vars PROVE LockOwned'
<1>1. /\ handler \in [Sockets -> HandlerPC] /\ admin \in [Admins -> AdminPC]
      /\ lock \in Sockets \cup Admins \cup {None} /\ Sockets \cap Admins = {}
      /\ \A w \in Sockets \cup Admins : w # None
  BY SatelliteAssumption DEF TypeInv, TypeOK
<1> USE <1>1 DEF LockOwned, Goto, server, admins, AdminGoto
<1>2. CASE UNCHANGED <<handler, lock, admin>> BY <1>2
<1>3. ASSUME NEW w \in Sockets, HandlerStep(w) PROVE LockOwned'
  <2>1. CASE Connect(w) BY <2>1 DEF Connect
  <2>2. CASE Replace(w) BY <2>2 DEF Replace
  <2>3. ASSUME NEW p, handler[w] # "replacing", p # "replacing", Goto(w, p),
               UNCHANGED <<lock, admin>>
        PROVE  LockOwned'
    BY <2>3
  <2>4. CASE Hello(w) \/ Pend(w) \/ Announce(w) \/ HandlerGone(w) \/ Auth(w)
    BY <2>3, <2>4 DEF Hello, Pend, Announce, HandlerGone, Auth
  <2>5. CASE Confirm(w) \/ HandlerNotices(w) \/ Disconnect(w)
    BY <2>3, <2>5 DEF Confirm, HandlerNotices, Disconnect
  <2>6. CASE HandleResult(w) BY <1>2, <2>6 DEF HandleResult
  <2>7. QED BY <1>3, <2>1, <2>2, <2>4, <2>5, <2>6 DEF HandlerStep
<1>4. CASE DaemonOpens
  <2>1. PICK w \in Sockets, p \in {"auth", "hello"} :
          handler[w] = "none" /\ handler' = [handler EXCEPT ![w] = p]
          /\ UNCHANGED <<lock, admin>>
    BY <1>4 DEF DaemonOpens, Unused
  <2>2. QED BY <2>1
<1>5. ASSUME NEW a \in Admins,
             Approve(a) \/ ApproveSearch(a) \/ Reject(a) \/ Revoke(a) \/ AdminStep(a)
      PROVE  LockOwned'
  <2>1. CASE ApproveSearch(a) BY <2>1 DEF ApproveSearch
  <2>2. CASE ApproveNothing(a) BY <2>2 DEF ApproveNothing
  <2>3. ASSUME NEW p \in AdminPC, admin[a] # "search", p # "search",
               admin' = [admin EXCEPT ![a] = p], UNCHANGED <<lock, handler>>
        PROVE  LockOwned'
    BY <2>3
  <2>4. CASE Approve(a) \/ Reject(a) \/ Revoke(a)
    BY <2>3, <2>4 DEF Approve, Reject, Revoke, Chore, AdminPC
  <2>5. CASE ApproveInsert(a) \/ ApproveNotify(a) \/ ApproveClear(a)
    BY <2>3, <2>5 DEF ApproveInsert, ApproveNotify, ApproveClear, AdminPC
  <2>6. CASE RejectTell(a) \/ RevokePop(a) \/ RevokeDelete(a)
    BY <2>3, <2>6 DEF RejectTell, RevokePop, RevokeDelete, AdminPC
  <2>7. QED BY <1>5, <2>1, <2>2, <2>4, <2>5, <2>6 DEF AdminStep
<1>6. QED
  BY <1>2, <1>3, <1>4, <1>5
  DEF Next, DaemonStep, CallerStep, Drop, StrayEnds, DaemonOnboarding, DaemonJoining,
      DaemonTakes, DaemonDoes, DaemonNotices, NotConnected, Look, Send, Timeout, Return, vars

(* Nobody is left waiting: a registered connection has a handler that will   *)
(* take it off the books, a daemon has its answer in its queue or a handler  *)
(* that will give it one, and whoever holds the lock gives it back with its  *)
(* next step (satellite_manager.py, satellite.py, ws_client.py).             *)
THEOREM NobodyStrandedCorrect == Spec => []NobodyStranded
<1>1. Init => Served /\ LockOwned
  BY SatelliteAssumption
  DEF Init, Served, OnboardServed, MainServed, JoinServed, LoopServed, LockOwned
<1>2. TypeInv /\ Served /\ LockOwned /\ [Next]_vars => (Served /\ LockOwned)'
  <2> SUFFICES ASSUME TypeInv, Served, LockOwned, [Next]_vars PROVE Served'
    BY LockOwnedStep
  <2>1. CASE UNCHANGED vars
    BY <2>1
    DEF vars, sockets, server, admins, daemon, callers, Served, OnboardServed, MainServed,
        JoinServed, LoopServed
  <2>2. ASSUME NEW c \in Commands, StrayEnds(c) PROVE Served'
    BY <2>2
    DEF StrayEnds, sockets, server, admins, daemon, callers, Served, OnboardServed,
        MainServed, JoinServed, LoopServed
  <2>3. QED
    BY <2>1, <2>2, HandlerServes, AdminServes, DaemonServes, DropServes, CallerServes
    DEF Next
<1>3. TypeInv /\ NoDanglingConnection /\ Served /\ LockOwned => NobodyStranded
  BY ServedFacts DEF NobodyStranded
<1>4. QED
  BY <1>1, <1>2, <1>3, TypeInit, TypeStep, NoDanglingConnectionCorrect, PTL DEF Spec
=============================================================================
