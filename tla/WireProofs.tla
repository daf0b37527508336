------------------------------ MODULE WireProofs ------------------------------
(***************************************************************************)
(* Proofs about Wire, for any set of connections, any number of permits,   *)
(* any channel capacity and any range of row ids.                          *)
(*                                                                         *)
(* That no more sessions are served than there are permits follows from    *)
(* the permits and the served sessions always adding up (PermitInv), which *)
(* in turn needs that a task in the semaphore's queue is not yet served,   *)
(* and is in it once (WaitInv).  That no wake-up is lost needs that only   *)
(* subscribers are owed one (ChannelInv).                                  *)
(***************************************************************************)
EXTENDS Wire, FiniteSetTheorems, SequenceTheorems, TLAPS

\* The variables of the server and its sessions have their types.
ServerType ==
    /\ config \in [auth : {"off", "cleartext", "scram"}, tls : BOOLEAN]
    /\ waiting \in Seq(Conn) /\ permits \in Nat
    /\ phase \in [Conn -> Phase]
    /\ trust \in [Conn -> [secure : BOOLEAN, proved : BOOLEAN]]

\* A connection is past Startup only over TLS where that is required, and past
\* authentication only with a right proof.
TrustInv ==
    \A c \in Conn :
        /\ phase[c] \in {"challenged", "proving", "ready"} /\ config.tls => trust[c].secure
        /\ phase[c] = "ready" /\ config.auth # "off" => trust[c].proved

\* The tasks in the semaphore's queue are waiting, and each is in it once.
WaitInv ==
    /\ \A i \in 1..Len(waiting) : phase[waiting[i]] = "waiting"
    /\ \A i, j \in 1..Len(waiting) : waiting[i] = waiting[j] => i = j

\* A permit is in the semaphore or with a served session.
PermitInv ==
    /\ IsFiniteSet(Served)
    /\ permits + Cardinality(Served) = MaxSessions

ServerInv == ServerType /\ TrustInv /\ WaitInv /\ PermitInv

\* Receivers lag by no more than the model tells apart, only subscribers are
\* owed a notification, and none of them is forgotten.
ChannelInv ==
    /\ backlog \in [Conn -> 0..NotListening]
    /\ owed \in [Conn -> BOOLEAN]
    /\ \A c \in Conn : owed[c] => backlog[c] # NotListening
    /\ WakeUpKept

\* Ranges are pairs of numbers below the counter, and disjoint.
RangeInv ==
    /\ rowid \in Nat /\ ranges \in SUBSET (Nat \X Nat)
    /\ RangesDisjoint

-----------------------------------------------------------------------------
\* The steps, by what they do to the server and its sessions.

Admit(c, p, shown) ==
    /\ c \in Served /\ p \in {"challenged", "proving", "ready"}
    /\ shown \in [secure : BOOLEAN, proved : BOOLEAN]
    /\ config.tls => shown.secure
    /\ p = "ready" /\ config.auth # "off" => shown.proved
    /\ Goto(c, p, shown)

Statement(c) ==
    \/ Begin(c) \/ Insert(c) \/ Rollback(c) \/ Commit(c) \/ CommitNothing(c)
    \/ Listen(c) \/ Unlisten(c) \/ Notify(c) \/ Drain(c)
    \/ Reserve(c) \/ ReserveFails(c)
    \/ \E n \in Count : ReserveDone(c, n) \/ ReserveInDoubt(c, n)

\* Every step is an accept, an acquire, the end of a served session, a right
\* answer to a challenge, or a statement.
LEMMA StepKinds ==
    ASSUME ServerType, TrustInv, Next
    PROVE  \/ Acquire
           \/ \E c \in Conn : \/ Accept(c)
                              \/ c \in Served /\ End(c)
                              \/ \E p, shown : Admit(c, p, shown)
                              \/ Statement(c)
<1> USE DEF ServerType, Served, Phase
<1>1. ASSUME NEW c \in Conn, Disconnect(c) PROVE c \in Served /\ End(c)
  BY <1>1 DEF Disconnect
<1>2. ASSUME NEW c \in Conn, NEW secure \in BOOLEAN, NEW known \in BOOLEAN,
             Startup(c, secure, known)
      PROVE  c \in Served /\ (End(c) \/ \E p, shown : Admit(c, p, shown))
  <2>1. c \in Served
    BY <1>2 DEF Startup
  <2>2. CASE (config.tls /\ ~secure) \/ (config.auth = "cleartext" /\ ~known)
    BY <1>2, <2>1, <2>2 DEF Startup
  <2>3. CASE ~((config.tls /\ ~secure) \/ (config.auth = "cleartext" /\ ~known))
    <3> DEFINE p == IF config.auth = "off" THEN "ready" ELSE "challenged"
               shown == [Unknown EXCEPT !.secure = secure]
    <3>1. Goto(c, p, shown)
      BY <1>2, <2>3 DEF Startup
    <3>2. Unknown \in [secure : BOOLEAN, proved : BOOLEAN]
      BY Zenon DEF Unknown
    <3>3. shown \in [secure : BOOLEAN, proved : BOOLEAN] /\ shown.secure = secure
      BY <3>2
    <3>4. Admit(c, p, shown)
      BY <2>1, <2>3, <3>1, <3>3 DEF Admit
    <3> QED BY <2>1, <3>4
  <2> QED BY <2>2, <2>3
<1>3. ASSUME NEW c \in Conn, NEW good \in BOOLEAN, Password(c, good) \/ ClientFinal(c, good)
      PROVE  c \in Served /\ (End(c) \/ \E p, shown : Admit(c, p, shown))
  <2>1. c \in Served /\ phase[c] \in {"challenged", "proving"}
    BY <1>3 DEF Password, ClientFinal
  <2>2. CASE ~good
    BY <1>3, <2>1, <2>2 DEF Password, ClientFinal, Proof
  <2>3. CASE good
    <3> DEFINE shown == [trust[c] EXCEPT !.proved = good]
    <3>1. Goto(c, "ready", shown)
      BY <1>3, <2>3 DEF Password, ClientFinal, Proof
    <3>2. /\ shown \in [secure : BOOLEAN, proved : BOOLEAN]
          /\ shown.secure = trust[c].secure /\ shown.proved = good
      OBVIOUS
    <3>3. Admit(c, "ready", shown)
      BY <2>1, <2>3, <3>1, <3>2 DEF Admit, TrustInv
    <3> QED BY <2>1, <3>3
  <2> QED BY <2>2, <2>3
<1>4. ASSUME NEW c \in Conn, NEW good \in BOOLEAN, ClientFirst(c, good)
      PROVE  c \in Served /\ (End(c) \/ \E p, shown : Admit(c, p, shown))
  <2>1. c \in Served /\ phase[c] = "challenged"
    BY <1>4 DEF ClientFirst
  <2>2. CASE good
    BY <1>4, <2>1, <2>2 DEF ClientFirst, Admit, TrustInv
  <2>3. CASE ~good
    BY <1>4, <2>1, <2>3 DEF ClientFirst
  <2> QED BY <2>2, <2>3
<1> QED BY <1>1, <1>2, <1>3, <1>4 DEF Next, Statement

\* A served session comes or goes.
LEMMA ServedChanges ==
    ASSUME ServerType, NEW c \in Conn, NEW p \in Phase, phase' = [phase EXCEPT ![c] = p]
    PROVE  /\ p \notin {"closed", "waiting"} => Served' = Served \cup {c}
           /\ p \in {"closed", "waiting"} => Served' = Served \ {c}
BY DEF ServerType, Served

\* An accepted connection goes to the end of the queue.
LEMMA AcceptStep ==
    ASSUME ServerInv, NEW c \in Conn, Accept(c)
    PROVE  ServerInv'
<1> USE DEF ServerInv
<1>1. /\ phase[c] = "closed" /\ phase' = [phase EXCEPT ![c] = "waiting"]
      /\ waiting' = Append(waiting, c) /\ UNCHANGED <<config, permits, trust>>
  BY DEF Accept
<1>2. /\ waiting' \in Seq(Conn) /\ Len(waiting') = Len(waiting) + 1
      /\ \A i \in 1..Len(waiting) : waiting'[i] = waiting[i]
      /\ waiting'[Len(waiting) + 1] = c
  BY <1>1, AppendProperties DEF ServerType
<1>3. Len(waiting) \in Nat /\ \A i \in 1..Len(waiting) : waiting[i] \in Conn
  BY DEF ServerType
<1>4. ServerType'
  BY <1>1, <1>2 DEF ServerType, Phase
<1>5. TrustInv'
  BY <1>1 DEF TrustInv, ServerType
<1>6. \A i \in 1..Len(waiting) : waiting[i] # c
  BY <1>1 DEF WaitInv
<1>7. WaitInv'
  <2>1. \A i \in 1..Len(waiting') : i \in 1..Len(waiting) \/ i = Len(waiting) + 1
    BY <1>2, <1>3
  <2>2. \A i \in 1..Len(waiting') : phase'[waiting'[i]] = "waiting"
    BY <1>1, <1>2, <1>3, <2>1 DEF WaitInv, ServerType
  <2>3. \A i, j \in 1..Len(waiting') : waiting'[i] = waiting'[j] => i = j
    BY <1>2, <1>6, <2>1 DEF WaitInv
  <2> QED BY <2>2, <2>3 DEF WaitInv
<1>8. Served' = Served
  BY <1>1, ServedChanges DEF Phase, Served
<1>9. PermitInv'
  BY <1>1, <1>8 DEF PermitInv
<1> QED BY <1>4, <1>5, <1>7, <1>9

\* The first of the queue gets a permit.
LEMMA AcquireStep ==
    ASSUME ServerInv, Acquire
    PROVE  ServerInv'
<1> USE DEF ServerInv
<1> DEFINE c == Head(waiting)
<1>1. /\ permits > 0 /\ waiting # <<>> /\ permits' = permits - 1 /\ waiting' = Tail(waiting)
      /\ phase' = [phase EXCEPT ![c] = "startup"] /\ UNCHANGED <<config, trust>>
  BY DEF Acquire
<1>2. /\ c \in Conn /\ waiting' \in Seq(Conn) /\ Len(waiting') = Len(waiting) - 1
      /\ \A i \in 1..Len(waiting') : waiting'[i] = waiting[i + 1]
  BY <1>1, HeadTailProperties DEF ServerType
<1>3. Len(waiting) \in Nat /\ Len(waiting) >= 1 /\ c = waiting[1]
  BY <1>1 DEF ServerType
<1>4. phase[c] = "waiting" /\ \A i \in 2..Len(waiting) : waiting[i] # c
  BY <1>3 DEF WaitInv
<1>5. ServerType'
  BY <1>1, <1>2 DEF ServerType, Phase
<1>6. TrustInv'
  BY <1>1, <1>2 DEF TrustInv, ServerType
<1>7. WaitInv'
  <2>1. \A i \in 1..Len(waiting') : i + 1 \in 2..Len(waiting) /\ i + 1 \in 1..Len(waiting)
    BY <1>2, <1>3
  <2>2. \A i \in 1..Len(waiting') : phase'[waiting'[i]] = "waiting"
    <3> SUFFICES ASSUME NEW i \in 1..Len(waiting') PROVE phase'[waiting'[i]] = "waiting"
      OBVIOUS
    <3>1. waiting'[i] = waiting[i + 1] /\ i + 1 \in 1..Len(waiting) /\ waiting'[i] # c
      BY <1>2, <1>4, <2>1
    <3>2. waiting'[i] \in Conn
      BY <3>1 DEF ServerType
    <3>3. phase[waiting'[i]] = "waiting"
      BY <3>1 DEF WaitInv
    <3> QED BY <1>1, <3>1, <3>2, <3>3 DEF ServerType
  <2>3. ASSUME NEW i \in 1..Len(waiting'), NEW j \in 1..Len(waiting'), waiting'[i] = waiting'[j]
        PROVE  i = j
    <3>1. i + 1 = j + 1
      BY <1>2, <2>1, <2>3 DEF WaitInv
    <3> QED BY <1>2, <3>1
  <2> QED BY <2>2, <2>3 DEF WaitInv
<1>8. Served' = Served \cup {c} /\ c \notin Served
  BY <1>1, <1>2, <1>4, ServedChanges DEF Phase, Served
<1>9. PermitInv'
  <2>1. IsFiniteSet(Served') /\ Cardinality(Served') = Cardinality(Served) + 1
    BY <1>8, FS_AddElement DEF PermitInv
  <2>2. Cardinality(Served) \in Nat
    BY FS_CardinalityType DEF PermitInv
  <2> QED BY <1>1, <2>1, <2>2 DEF PermitInv, ServerType
<1> QED BY <1>5, <1>6, <1>7, <1>9

\* A session that ends gives its permit back.
LEMMA EndStep ==
    ASSUME ServerInv, NEW c \in Served, End(c)
    PROVE  ServerInv'
<1> USE DEF ServerInv
<1>0. c \in Conn /\ phase[c] \notin {"closed", "waiting"}
  BY DEF Served
<1>1. /\ phase' = [phase EXCEPT ![c] = "closed"] /\ trust' = [trust EXCEPT ![c] = Unknown]
      /\ permits' = permits + 1 /\ UNCHANGED <<config, waiting>>
  BY DEF End, PermitDropped
<1>2. Unknown \in [secure : BOOLEAN, proved : BOOLEAN]
  BY Zenon DEF Unknown
<1>3. ServerType'
  BY <1>0, <1>1, <1>2 DEF ServerType, Phase
<1>4. TrustInv'
  BY <1>0, <1>1 DEF TrustInv, ServerType
<1>5. WaitInv'
  BY <1>0, <1>1 DEF WaitInv, ServerType
<1>6. Served' = Served \ {c}
  BY <1>0, <1>1, ServedChanges DEF Phase
<1>7. PermitInv'
  <2>1. IsFiniteSet(Served') /\ Cardinality(Served') = Cardinality(Served) - 1
    BY <1>6, FS_RemoveElement DEF PermitInv
  <2>2. Cardinality(Served) \in Nat
    BY FS_CardinalityType DEF PermitInv
  <2> QED BY <1>1, <2>1, <2>2 DEF PermitInv, ServerType
<1> QED BY <1>3, <1>4, <1>5, <1>7

\* An answer to a challenge changes what the session has shown.
LEMMA AdmitStep ==
    ASSUME ServerInv, NEW c \in Conn, NEW p, NEW shown, Admit(c, p, shown)
    PROVE  ServerInv'
<1> USE DEF ServerInv
<1>1. /\ phase[c] \notin {"closed", "waiting"} /\ p \in {"challenged", "proving", "ready"}
      /\ shown \in [secure : BOOLEAN, proved : BOOLEAN]
      /\ phase' = [phase EXCEPT ![c] = p] /\ trust' = [trust EXCEPT ![c] = shown]
      /\ UNCHANGED <<config, waiting, permits>>
  BY DEF Admit, Goto, Served, server
<1>2. ServerType'
  BY <1>1 DEF ServerType, Phase
<1>3. TrustInv'
  BY <1>1 DEF TrustInv, ServerType, Admit
<1>4. WaitInv'
  BY <1>1 DEF WaitInv, ServerType
<1>5. Served' = Served
  BY <1>1, ServedChanges DEF Phase, Served
<1>6. PermitInv'
  BY <1>1, <1>5 DEF PermitInv
<1> QED BY <1>2, <1>3, <1>4, <1>6

\* Admission is preserved: the queue, the permits and what sessions have shown.
LEMMA ServerStep ==
    ASSUME ServerInv, [Next]_vars
    PROVE  ServerInv'
<1>1. ASSUME UNCHANGED <<config, waiting, permits, phase, trust>> PROVE ServerInv'
  BY <1>1 DEF ServerInv, ServerType, TrustInv, WaitInv, PermitInv, Served
<1>2. ASSUME NEW c \in Conn, Statement(c)
      PROVE  UNCHANGED <<config, waiting, permits, phase, trust>>
  BY <1>2 DEF Statement, Begin, Insert, Rollback, Commit, CommitNothing, Listen, Unlisten,
              Notify, Drain, Reserve, ReserveFails, ReserveDone, ReserveInDoubt, server, session
<1>3. CASE Next
  BY <1>1, <1>2, <1>3, StepKinds, AcceptStep, AcquireStep, EndStep, AdmitStep DEF ServerInv
<1>4. CASE UNCHANGED vars
  BY <1>1, <1>4 DEF vars, server, session
<1> QED BY <1>3, <1>4

-----------------------------------------------------------------------------
\* No wake-up is lost: a commit owes one to subscribers only, and its committer
\* is notifying; the notification reaches every receiver that can take one, and
\* one that has lagged keeps the newest.
LEMMA ChannelStep ==
    ASSUME ChannelInv, [Next]_vars
    PROVE  ChannelInv'
<1> USE WireAssumption DEF ChannelInv, WakeUpKept, Lagged, NotListening
<1>1. ASSUME UNCHANGED channel PROVE ChannelInv'
  BY <1>1 DEF channel
<1>0. ASSUME NEW c \in Conn, NEW b \in 0..NotListening, backlog' = [backlog EXCEPT ![c] = b],
             owed' = [owed EXCEPT ![c] = FALSE], UNCHANGED notifying
      PROVE  ChannelInv'
  <2>1. owed' \in [Conn -> BOOLEAN]
    BY <1>0, Zenon
  <2>2. backlog' \in [Conn -> 0..NotListening]
    BY <1>0
  <2>3. \A d \in Conn : owed'[d] => d # c /\ owed[d] /\ backlog'[d] = backlog[d]
    BY <1>0
  <2> QED BY <1>0, <2>1, <2>2, <2>3
<1>2. ASSUME NEW c \in Conn, End(c) \/ Unlisten(c) PROVE ChannelInv'
  BY <1>0, <1>2 DEF End, Unlisten
<1>3. ASSUME NEW c \in Conn, Commit(c) PROVE ChannelInv'
  <2>1. /\ owed' = [d \in Conn |-> owed[d] \/ backlog[d] # NotListening]
        /\ notifying' # {} /\ backlog' = backlog
    BY <1>3 DEF Commit
  <2>2. owed' \in [Conn -> BOOLEAN]
    BY <2>1, Zenon
  <2> QED BY <2>1, <2>2
<1>4. ASSUME NEW c \in Conn, Listen(c) PROVE ChannelInv'
  BY <1>4 DEF Listen, Receiver
<1>5. ASSUME NEW c \in Conn, Notify(c) PROVE ChannelInv'
  BY <1>5 DEF Notify
<1>6. ASSUME NEW c \in Conn, Drain(c) PROVE ChannelInv'
  <2>1. CASE backlog[c] = Lagged
    BY <1>6, <2>1 DEF Drain
  <2>2. CASE backlog[c] # Lagged
    BY <1>0, <1>6, <2>2 DEF Drain
  <2> QED BY <2>1, <2>2
<1>7. ASSUME NEW c \in Conn, Disconnect(c) \/ \E secure, known \in BOOLEAN : Startup(c, secure, known)
      PROVE  End(c) \/ UNCHANGED channel
  BY <1>7 DEF Disconnect, Startup, Goto
<1>8. ASSUME NEW c \in Conn, NEW good \in BOOLEAN,
             Password(c, good) \/ ClientFirst(c, good) \/ ClientFinal(c, good)
      PROVE  End(c) \/ UNCHANGED channel
  BY <1>8 DEF Password, ClientFirst, ClientFinal, Goto
<1>9. ASSUME NEW c \in Conn,
             \/ Accept(c) \/ Begin(c) \/ Insert(c) \/ Rollback(c) \/ CommitNothing(c)
             \/ Reserve(c) \/ ReserveFails(c)
             \/ \E n \in Count : ReserveDone(c, n) \/ ReserveInDoubt(c, n)
      PROVE  UNCHANGED channel
  BY <1>9 DEF Accept, Begin, Insert, Rollback, CommitNothing, Reserve, ReserveFails,
              ReserveDone, ReserveInDoubt
<1>10. Acquire \/ UNCHANGED vars => UNCHANGED channel
  BY DEF Acquire, vars
<1>11. CASE Next
  <2>1. Acquire \/ \E c \in Conn :
            \/ End(c) \/ Unlisten(c) \/ Commit(c) \/ Listen(c) \/ Notify(c) \/ Drain(c)
            \/ UNCHANGED channel
    BY <1>7, <1>8, <1>9, <1>11 DEF Next
  <2> QED BY <1>1, <1>2, <1>3, <1>4, <1>5, <1>6, <1>10, <2>1
<1> QED BY <1>1, <1>10, <1>11

\* A range is taken at the counter, which moves to its end; a commit in doubt
\* moves the counter only.
LEMMA RangeStep ==
    ASSUME RangeInv, [Next]_vars
    PROVE  RangeInv'
<1> USE WireAssumption DEF RangeInv, RangesDisjoint
<1>1. ASSUME UNCHANGED <<rowid, ranges>> PROVE RangeInv'
  BY <1>1
<1>2. ASSUME NEW c \in Conn, NEW n \in Count, ReserveDone(c, n) PROVE RangeInv'
  <2>1. /\ n \in Nat /\ n > 0 /\ rowid + n <= MaxRowid /\ rowid' = rowid + n
        /\ ranges' = ranges \cup {<<rowid, rowid + n>>}
    BY <1>2 DEF ReserveDone, EndOfRange
  <2>2. ASSUME NEW r \in ranges' PROVE r \in ranges \/ (r[1] = rowid /\ r[2] = rowid + n)
    BY <2>1
  <2>3. ranges' \in SUBSET (Nat \X Nat) /\ rowid' \in Nat
    BY <2>1
  <2>4. \A r \in ranges : r[1] \in Nat /\ r[2] \in Nat
    OBVIOUS
  <2>5. \A r \in ranges' : r[1] < r[2] /\ r[2] <= MaxRowid /\ r[2] <= rowid'
    BY <2>1, <2>2, <2>4
  <2>6. ASSUME NEW r \in ranges', NEW s \in ranges', r # s PROVE r[2] <= s[1] \/ s[2] <= r[1]
    <3>1. CASE r \in ranges /\ s \in ranges
      BY <2>6, <3>1
    <3>2. CASE r \in ranges /\ s \notin ranges
      BY <2>1, <2>2, <2>4, <3>2
    <3>3. CASE r \notin ranges /\ s \in ranges
      BY <2>1, <2>2, <2>4, <3>3
    <3>4. CASE r \notin ranges /\ s \notin ranges
      BY <2>1, <2>6, <3>4
    <3> QED BY <3>1, <3>2, <3>3, <3>4
  <2> QED BY <2>3, <2>5, <2>6
<1>3. ASSUME NEW c \in Conn, NEW n \in Count, ReserveInDoubt(c, n) PROVE RangeInv'
  <2>1. n \in Nat /\ rowid' = rowid + n /\ ranges' = ranges
    BY <1>3 DEF ReserveInDoubt, EndOfRange
  <2>2. \A r \in ranges : r[2] \in Nat
    OBVIOUS
  <2> QED BY <2>1, <2>2
<1>4. ASSUME NEW c \in Conn,
             \/ Disconnect(c) \/ \E secure, known \in BOOLEAN : Startup(c, secure, known)
             \/ \E good \in BOOLEAN :
                   Password(c, good) \/ ClientFirst(c, good) \/ ClientFinal(c, good)
      PROVE  UNCHANGED <<rowid, ranges>>
  BY <1>4 DEF Disconnect, Startup, Password, ClientFirst, ClientFinal, End, Goto, rowids
<1>5. ASSUME NEW c \in Conn,
             \/ Accept(c) \/ Begin(c) \/ Insert(c) \/ Rollback(c) \/ Commit(c)
             \/ CommitNothing(c) \/ Listen(c) \/ Unlisten(c) \/ Notify(c) \/ Drain(c)
             \/ Reserve(c) \/ ReserveFails(c)
      PROVE  UNCHANGED <<rowid, ranges>>
  BY <1>5 DEF Accept, Begin, Insert, Rollback, Commit, CommitNothing, Listen, Unlisten,
              Notify, Drain, Reserve, ReserveFails, rowids
<1>6. Acquire \/ UNCHANGED vars => UNCHANGED <<rowid, ranges>>
  BY DEF Acquire, vars, rowids
<1>7. CASE Next
  <2>1. \/ Acquire
        \/ \E c \in Conn : \/ UNCHANGED <<rowid, ranges>>
                           \/ \E n \in Count : ReserveDone(c, n) \/ ReserveInDoubt(c, n)
    BY <1>4, <1>5, <1>7 DEF Next
  <2> QED BY <1>1, <1>2, <1>3, <1>6, <2>1
<1> QED BY <1>1, <1>6, <1>7

-----------------------------------------------------------------------------
IInv == ServerInv /\ ChannelInv /\ RangeInv

LEMMA InitInv == Init => IInv
<1> SUFFICES ASSUME Init PROVE IInv
  OBVIOUS
<1> USE WireAssumption DEF Init
<1>1. Unknown \in [secure : BOOLEAN, proved : BOOLEAN]
  BY Zenon DEF Unknown
<1>2. ServerType
  BY <1>1 DEF ServerType, Phase
<1>3. TrustInv /\ WaitInv
  BY DEF TrustInv, WaitInv
<1>4. PermitInv
  <2>1. Served = {}
    BY DEF Served
  <2> QED BY <2>1, FS_EmptySet DEF PermitInv
<1>5. ChannelInv
  BY DEF ChannelInv, WakeUpKept, NotListening
<1>6. RangeInv
  BY DEF RangeInv, RangesDisjoint
<1> QED BY <1>2, <1>3, <1>4, <1>5, <1>6 DEF IInv, ServerInv

\* The inductive invariant holds of every reachable state of the server.
THEOREM Invariance == Spec => []IInv
<1>1. IInv /\ [Next]_vars => IInv'
  BY ServerStep, ChannelStep, RangeStep DEF IInv
<1> QED BY <1>1, InitInv, PTL DEF Spec

\* Statements are executed only for sessions that have shown what the server's
\* configuration requires, and no more sessions are served than --max-sessions,
\* whatever way they end (Startup, Password, SASL, Disconnect).
THEOREM AdmissionHolds == Spec => []Admission
<1>1. IInv => Admission
  <2> SUFFICES ASSUME IInv PROVE Admission
    OBVIOUS
  <2>1. Cardinality(Served) \in Nat
    BY FS_CardinalityType DEF IInv, ServerInv, PermitInv
  <2>2. Cardinality(Served) <= MaxSessions
    BY <2>1 DEF IInv, ServerInv, PermitInv, ServerType
  <2> QED BY <2>2 DEF IInv, ServerInv, TrustInv, Admission
<1> QED BY <1>1, Invariance, PTL

\* A subscriber that is owed a notification has one, or its committer is still
\* about to send it, for any capacity of the broadcast channel.
THEOREM WakeUpsAreKept == Spec => []WakeUpKept
<1>1. IInv => WakeUpKept
  BY DEF IInv, ChannelInv
<1> QED BY <1>1, Invariance, PTL

\* next_rowid_range never hands out a row id twice, also after commits in doubt.
THEOREM RangesAreDisjoint == Spec => []RangesDisjoint
<1>1. IInv => RangesDisjoint
  BY DEF IInv, RangeInv
<1> QED BY <1>1, Invariance, PTL
=============================================================================
