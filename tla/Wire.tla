--------------------------------- MODULE Wire ---------------------------------
(***************************************************************************)
(* A RockLake server and its connections: the accept loop and the session  *)
(* semaphore (rocklake-pgwire/src/server.rs), TLS and authentication at    *)
(* startup (handler.rs, scram.rs), LISTEN and NOTIFY (notify.rs), and the  *)
(* allocation of row id ranges (rocklake-catalog/src/writer/mod.rs).       *)
(*                                                                         *)
(* Each connection is a task of its own, spawned when it is accepted.  It  *)
(* waits for a permit, then handles the client's messages in order.  What  *)
(* a transaction does inside the store is PgSession's matter; here it is a *)
(* snapshot with a data file in it, whose committer notifies the           *)
(* subscribers of the table after it has released the store.               *)
(*                                                                         *)
(* Abstractions: one channel, one table name for row ids; a SCRAM proof is *)
(* right or wrong; settings, introspection and COPY are left out.          *)
(***************************************************************************)
EXTENDS Naturals, Sequences, FiniteSets

CONSTANTS
    Conn,           \* connections a client side can have at a time
    MaxSessions,    \* --max-sessions
    Slots,          \* capacity of a broadcast channel (64 in the code)
    MaxRowid,       \* the largest row id (u64::MAX in the code)
    Count           \* counts asked of next_rowid_range

ASSUME WireAssumption ==
    /\ MaxSessions \in Nat \ {0} /\ Slots \in Nat \ {0}
    /\ MaxRowid \in Nat /\ Count \subseteq Nat

VARIABLES
    config,     \* AuthConfig and TlsConfig of the server
    waiting,    \* tasks that wait for a permit, in the order they came
    permits,    \* permits left
    phase,      \* where the task of each connection is
    trust,      \* history: what each connection has shown of itself
    txn,        \* transaction of each session
    backlog,    \* receiver of each session: notifications not yet received
    owed,       \* history: snapshots each subscriber has not heard of
    notifying,  \* sessions that have committed and not yet notified
    lock,       \* the session that holds the store while it allocates
    rowid,      \* the row id counter
    ranges      \* history: the ranges handed out

server == <<config, waiting, permits>>
session == <<phase, trust, txn>>
channel == <<backlog, owed, notifying>>
rowids == <<lock, rowid, ranges>>
vars == <<server, session, channel, rowids>>

-----------------------------------------------------------------------------
Phase == {"closed", "waiting", "startup", "challenged", "proving", "ready"}

Served == {c \in Conn : phase[c] \notin {"closed", "waiting"}}

Nobody == "nobody"
NotListening == Slots + 2

\* One more than the slots: the receiver has lagged, by how much is the same.
Lagged == Slots + 1

Unknown == [secure |-> FALSE, proved |-> FALSE]

Init ==
    /\ config \in [auth : {"off", "cleartext", "scram"}, tls : BOOLEAN]
    /\ waiting = <<>> /\ permits = MaxSessions
    /\ phase = [c \in Conn |-> "closed"]
    /\ trust = [c \in Conn |-> Unknown]
    /\ txn = [c \in Conn |-> "none"]
    /\ backlog = [c \in Conn |-> NotListening]
    /\ owed = [c \in Conn |-> FALSE]
    /\ notifying = {}
    /\ lock = Nobody /\ rowid = 0 /\ ranges = {}

-----------------------------------------------------------------------------
\* The server

\* accept: the task is spawned at once, whatever the number of sessions.
Accept(c) ==
    /\ phase[c] = "closed"
    /\ phase' = [phase EXCEPT ![c] = "waiting"]
    /\ waiting' = Append(waiting, c)
    /\ UNCHANGED <<config, permits, trust, txn, channel, rowids>>

\* semaphore.acquire: tokio's semaphore serves in order of arrival.
Acquire ==
    /\ permits > 0 /\ waiting # <<>>
    /\ permits' = permits - 1
    /\ waiting' = Tail(waiting)
    /\ phase' = [phase EXCEPT ![Head(waiting)] = "startup"]
    /\ UNCHANGED <<config, trust, txn, channel, rowids>>

\* Mutant: the permit is forgotten.
PermitKept == UNCHANGED permits

\* The permit is dropped with the task.
PermitDropped == permits' = permits + 1

\* process_socket returns and the task ends, with all of its session.
End(c) ==
    /\ phase' = [phase EXCEPT ![c] = "closed"]
    /\ trust' = [trust EXCEPT ![c] = Unknown]
    /\ txn' = [txn EXCEPT ![c] = "none"]
    /\ backlog' = [backlog EXCEPT ![c] = NotListening]
    /\ owed' = [owed EXCEPT ![c] = FALSE]
    /\ PermitDropped
    /\ UNCHANGED <<config, waiting, notifying, rowids>>

\* A disconnect is noticed between two messages.
Idle(c) == c \notin notifying /\ lock # c

Disconnect(c) ==
    /\ c \in Served /\ Idle(c)
    /\ End(c)

-----------------------------------------------------------------------------
\* Startup and authentication

Goto(c, p, shown) ==
    /\ phase' = [phase EXCEPT ![c] = p]
    /\ trust' = [trust EXCEPT ![c] = shown]
    /\ UNCHANGED <<txn, server, channel, rowids>>

\* Startup: the user name is looked at for cleartext passwords only.
Startup(c, secure, known) ==
    /\ phase[c] = "startup"
    /\ IF (config.tls /\ ~secure) \/ (config.auth = "cleartext" /\ ~known)
       THEN End(c)
       ELSE Goto(c, IF config.auth = "off" THEN "ready" ELSE "challenged",
                 [Unknown EXCEPT !.secure = secure])

\* Mutant: the exchange goes on whatever the message says.
AnyProof(c, right) == TRUE

\* ct_bytes_eq of the password; validate_client_final: the nonce is that of this
\* exchange and the proof was made with the password.
Proof(c, right) == right

Password(c, right) ==
    /\ phase[c] = "challenged" /\ config.auth = "cleartext"
    /\ IF Proof(c, right) THEN Goto(c, "ready", [trust[c] EXCEPT !.proved = right]) ELSE End(c)

\* SASLInitialResponse: scram_state is None until from_client_first succeeds.
ClientFirst(c, wellFormed) ==
    /\ phase[c] = "challenged" /\ config.auth = "scram"
    /\ IF wellFormed THEN Goto(c, "proving", trust[c]) ELSE End(c)

\* SASLResponse: scram_state is taken, whatever comes of it.
ClientFinal(c, right) ==
    /\ phase[c] = "proving"
    /\ IF Proof(c, right) THEN Goto(c, "ready", [trust[c] EXCEPT !.proved = right]) ELSE End(c)

-----------------------------------------------------------------------------
\* Statements

Ready(c) == phase[c] = "ready" /\ Idle(c)

Begin(c) ==
    /\ Ready(c) /\ txn[c] = "none"
    /\ txn' = [txn EXCEPT ![c] = "open"]
    /\ UNCHANGED <<server, phase, trust, channel, rowids>>

\* An INSERT of a data file, buffered.
Insert(c) ==
    /\ Ready(c) /\ txn[c] = "open"
    /\ txn' = [txn EXCEPT ![c] = "filled"]
    /\ UNCHANGED <<server, phase, trust, channel, rowids>>

Rollback(c) ==
    /\ Ready(c) /\ txn[c] # "none"
    /\ txn' = [txn EXCEPT ![c] = "none"]
    /\ UNCHANGED <<server, phase, trust, channel, rowids>>

\* COMMIT, or an INSERT outside of a transaction.
Commit(c) ==
    /\ Ready(c) /\ lock = Nobody
    /\ txn[c] # "open"
    /\ txn' = [txn EXCEPT ![c] = "none"]
    /\ owed' = [d \in Conn |-> owed[d] \/ backlog[d] # NotListening]
    /\ notifying' = notifying \cup {c}
    /\ UNCHANGED <<server, phase, trust, backlog, rowids>>

\* COMMIT of nothing, of no data file, or one that fails: nobody is notified.
CommitNothing(c) ==
    /\ Ready(c) /\ lock = Nobody
    /\ txn[c] # "none"
    /\ txn' = [txn EXCEPT ![c] = "none"]
    /\ UNCHANGED <<server, phase, trust, channel, rowids>>

-----------------------------------------------------------------------------
\* LISTEN and NOTIFY

\* Mutant: a new receiver each time.
NewReceiver(c) == 0

\* ConnectionSubscriptions::listen leaves a channel that it has alone.
Receiver(c) == IF backlog[c] = NotListening THEN 0 ELSE backlog[c]

Listen(c) ==
    /\ Ready(c)
    /\ backlog' = [backlog EXCEPT ![c] = Receiver(c)]
    /\ UNCHANGED <<server, session, owed, notifying, rowids>>

Unlisten(c) ==
    /\ Ready(c) /\ backlog[c] # NotListening
    /\ backlog' = [backlog EXCEPT ![c] = NotListening]
    /\ owed' = [owed EXCEPT ![c] = FALSE]
    /\ UNCHANGED <<server, session, notifying, rowids>>

\* notify_snapshot_advance, after the store has been released.
Notify(c) ==
    /\ c \in notifying
    /\ notifying' = notifying \ {c}
    /\ backlog' = [d \in Conn |-> IF backlog[d] < Lagged THEN backlog[d] + 1 ELSE backlog[d]]
    /\ UNCHANGED <<server, session, owed, rowids>>

\* drain_notifications: the loop ends at the first error.  Lagged is one, and
\* moves the receiver on to the oldest notification that is still there.
Drain(c) ==
    /\ Ready(c) /\ backlog[c] \in 1..Lagged
    /\ IF backlog[c] = Lagged
       THEN /\ backlog' = [backlog EXCEPT ![c] = Slots]
            /\ UNCHANGED owed
       ELSE /\ backlog' = [backlog EXCEPT ![c] = 0]
            /\ owed' = [owed EXCEPT ![c] = FALSE]
    /\ UNCHANGED <<server, session, notifying, rowids>>

-----------------------------------------------------------------------------
\* next_rowid_range

\* Mutant: the end of a range is part of it.
LastOfRange(start, n) == start + n - 1

\* The new value of the counter: the end of the range, which is not part of it.
EndOfRange(start, n) == start + n

\* The store is locked for all attempts; 0 and overflow are refused.
Reserve(c) ==
    /\ Ready(c) /\ lock = Nobody
    /\ lock' = c
    /\ UNCHANGED <<server, session, channel, rowid, ranges>>

ReserveDone(c, n) ==
    /\ lock = c
    /\ n > 0 /\ rowid + n <= MaxRowid
    /\ rowid' = EndOfRange(rowid, n)
    /\ ranges' = ranges \cup {<<rowid, rowid + n>>}
    /\ lock' = Nobody
    /\ UNCHANGED <<server, session, channel>>

\* The commit reports an error although it may be durable: the next attempt
\* reads the counter again.
ReserveInDoubt(c, n) ==
    /\ lock = c
    /\ n > 0 /\ rowid + n <= MaxRowid
    /\ rowid' = EndOfRange(rowid, n)
    /\ UNCHANGED <<server, session, channel, lock, ranges>>

\* Refused, or the transaction cannot begin.
ReserveFails(c) ==
    /\ lock = c
    /\ lock' = Nobody
    /\ UNCHANGED <<server, session, channel, rowid, ranges>>

-----------------------------------------------------------------------------
Next ==
    \/ Acquire
    \/ \E c \in Conn :
        \/ Accept(c) \/ Disconnect(c)
        \/ \E secure, known \in BOOLEAN : Startup(c, secure, known)
        \/ \E good \in BOOLEAN :
               Password(c, good) \/ ClientFirst(c, good) \/ ClientFinal(c, good)
        \/ Begin(c) \/ Insert(c) \/ Rollback(c) \/ Commit(c) \/ CommitNothing(c)
        \/ Listen(c) \/ Unlisten(c) \/ Notify(c) \/ Drain(c)
        \/ Reserve(c) \/ ReserveFails(c)
        \/ \E n \in Count : ReserveDone(c, n) \/ ReserveInDoubt(c, n)

\* A task that has a permit gets it: tokio polls tasks that are woken.
Spec == Init /\ [][Next]_vars /\ WF_vars(Acquire)

-----------------------------------------------------------------------------
\* Properties

\* Statements are executed only for connections that gave a right proof in this
\* connection's own exchange, over TLS where it is required; and the server never
\* serves more sessions than it has permits.
Admission ==
    /\ \A c \in Conn : phase[c] = "ready" =>
           /\ config.tls => trust[c].secure
           /\ config.auth # "off" => trust[c].proved
    /\ Cardinality(Served) <= MaxSessions

\* No wake-up is lost: a subscriber that has not been told of a snapshot that was
\* committed while it listened has a notification waiting for it, or its
\* committer is still about to send one.  Lagging, repeated LISTENs and drains at
\* any time lose notifications, but never the last one.
WakeUpKept == \A c \in Conn : owed[c] => backlog[c] \in 1..Lagged \/ notifying # {}

\* Row id ranges handed out for one table name are disjoint and in range, also
\* when commits end in doubt and are repeated.
RangesDisjoint ==
    /\ \A r \in ranges : r[1] < r[2] /\ r[2] <= MaxRowid
    /\ \A r, s \in ranges : r # s => r[2] <= s[1] \/ s[2] <= r[1]
    /\ \A r \in ranges : r[2] <= rowid

\* Nobody waits for ever: a connection that waits for a permit gets it, if the
\* server is not full again and again, whatever way the sessions before it ended.
EveryoneServed ==
    []<>(Cardinality(Served) < MaxSessions) =>
        \A c \in Conn : (phase[c] = "waiting") ~> (phase[c] # "waiting")
=============================================================================
