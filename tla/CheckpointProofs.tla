--------------------------- MODULE CheckpointProofs ---------------------------
(***************************************************************************)
(* Proofs about Checkpoint, for any number of snapshots, checkpoints and   *)
(* commands and any wall clock.                                            *)
(*                                                                         *)
(* The argument about restores: a restore runs alone, so that the counter  *)
(* it read is the counter still (RestoreInv); it ends rows at that         *)
(* counter, which is beyond every snapshot a reader can name (RowInv), and *)
(* therefore hides nothing from any of them.                               *)
(***************************************************************************)
EXTENDS Checkpoint, TLAPS

CkptType ==
    /\ rows \in SUBSET Row
    /\ next \in Nat \ {0} /\ nextCkpt \in Nat /\ clock \in Nat
    /\ cmd \in [op : {"none", "create", "restore"}, at : Nat, num : Nat]

\* Rows have proper intervals and begin, like the snapshots, below the counter.
RowInv ==
    /\ \A r \in rows : r.begin < next /\ (r.end = NoEnd \/ r.begin < r.end)
    /\ snaps \subseteq {s \in Nat : s < next}

\* Checkpoint ids are below their counter, and name snapshots there have been.
IdInv == \A c \in DOMAIN ckpts : c \in Nat /\ c < nextCkpt /\ ckpts[c] \in Nat /\ ckpts[c] < next

\* A command that runs has the catalog for itself; the id that one creates is
\* not yet in use.
CreateInv ==
    /\ cmd.op # "none" => server = FALSE
    /\ cmd.op = "create" => cmd.num < nextCkpt /\ cmd.num \notin DOMAIN ckpts /\ cmd.at < next

\* The counter a restore hides from is still the counter.
RestoreInv == cmd.op = "restore" => cmd.num = next /\ cmd.at < next /\ restored = 0

IInv ==
    /\ CkptType /\ RowInv /\ IdInv /\ CreateInv /\ RestoreInv
    /\ DOMAIN seen = snaps
    /\ HistoryReadable /\ RestoreHides

-----------------------------------------------------------------------------
\* Lemmas about the operators

\* What each row still shows, the set of rows still shows.
LEMMA FactsKept ==
    ASSUME NEW R, NEW Q, NEW s,
           \A r \in R : Visible(r, s) => \E q \in Q : Fact(q) = Fact(r) /\ Visible(q, s)
    PROVE  At(R, s) \subseteq At(Q, s)
BY Zenon DEF At

\* The id of a new checkpoint is at least the counter.
LEMMA IdAhead ==
    ASSUME CkptType
    PROVE  CheckpointId \in Nat /\ CheckpointId >= nextCkpt
<1> DEFINE S == {clock, nextCkpt}
<1>1. \E m \in S : \A x \in S : x <= m
  <2>1. CASE clock <= nextCkpt
    BY <2>1 DEF CkptType
  <2>2. CASE ~(clock <= nextCkpt)
    BY <2>2 DEF CkptType
  <2> QED BY <2>1, <2>2
<1>2. CheckpointId \in S /\ \A x \in S : x <= CheckpointId
  BY <1>1 DEF CheckpointId, Max, CkptType
<1> QED BY <1>2 DEF CkptType

\* Ending a row at the counter or later leaves it a row, and as it was for every
\* snapshot so far.
LEMMA EndedAtCounter ==
    ASSUME CkptType, RowInv, NEW r \in rows, NEW e \in Nat, e >= next
    PROVE  LET q == [r EXCEPT !.end = e]
           IN  /\ q \in Row /\ Fact(q) = Fact(r) /\ q.begin = r.begin /\ q.end = e
               /\ q.kind = r.kind /\ q.begin < next /\ q.begin < q.end
               /\ \A s \in snaps : Visible(r, s) => Visible(q, s)
<1> DEFINE q == [r EXCEPT !.end = e]
<1>1. r \in Row /\ r.begin \in Nat /\ r.begin < next
  BY DEF CkptType, RowInv, Row
<1>2. q \in Row /\ q.begin = r.begin /\ q.end = e /\ q.kind = r.kind /\ q.id = r.id
  BY <1>1 DEF Row
<1>3. q.begin < next /\ q.begin < q.end
  BY <1>1, <1>2 DEF CkptType
<1>4. \A s \in snaps : s \in Nat /\ s < e
  BY DEF RowInv, CkptType
<1> QED BY <1>2, <1>3, <1>4 DEF Fact, Visible

\* Rewriting a row that way changes nothing in the history.
LEMMA HistoryKept ==
    ASSUME IInv, NEW r \in rows, NEW e \in Nat, e >= next,
           rows' = (rows \ {r}) \cup {[r EXCEPT !.end = e]}
    PROVE  /\ rows' \in SUBSET Row
           /\ \A x \in rows' : x.begin < next /\ (x.end = NoEnd \/ x.begin < x.end)
           /\ \A s \in snaps : seen[s] \subseteq At(rows', s)
<1> DEFINE q == [r EXCEPT !.end = e]
<1>1. /\ q \in Row /\ Fact(q) = Fact(r) /\ q.begin < next /\ q.begin < q.end
      /\ \A s \in snaps : Visible(r, s) => Visible(q, s)
  BY EndedAtCounter DEF IInv
<1>2. ASSUME NEW s \in snaps PROVE At(rows, s) \subseteq At(rows', s)
  <2>1. ASSUME NEW x \in rows, Visible(x, s)
        PROVE  \E y \in rows' : Fact(y) = Fact(x) /\ Visible(y, s)
    <3>1. CASE x = r
      BY <1>1, <2>1, <3>1
    <3>2. CASE x # r
      BY <2>1, <3>2
    <3> QED BY <3>1, <3>2
  <2> QED BY <2>1, FactsKept
<1>3. rows' \in SUBSET Row /\ \A x \in rows' : x.begin < next /\ (x.end = NoEnd \/ x.begin < x.end)
  BY <1>1 DEF IInv, CkptType, RowInv
<1>4. \A s \in snaps : seen[s] \subseteq At(rows', s)
  BY <1>2 DEF IInv, HistoryReadable
<1> QED BY <1>3, <1>4

-----------------------------------------------------------------------------
\* The steps

\* A commit ends rows and begins them at the counter, beyond all snapshots.
LEMMA CommitStep ==
    ASSUME IInv, Commit
    PROVE  IInv'
<1>1. /\ server /\ next' = next + 1 /\ snaps' = snaps \cup {next} /\ restored' = 0
      /\ seen' = [s \in snaps' |-> IF s = next THEN At(rows', s) ELSE seen[s]]
      /\ UNCHANGED <<ckpts, nextCkpt, clock, server, cmd>>
  BY DEF Commit
<1>2. /\ rows' \in SUBSET Row
      /\ \A r \in rows' : r.begin < next + 1 /\ (r.end = NoEnd \/ r.begin < r.end)
      /\ \A s \in snaps : seen[s] \subseteq At(rows', s)
  <2>1. ASSUME NEW k \in Kind,
               rows' = rows \cup {[kind |-> k, id |-> next, begin |-> next, end |-> NoEnd]}
        PROVE  <1>2!:
    <3>1. \A s : At(rows, s) \subseteq At(rows', s)
      BY <2>1, FactsKept
    <3>2. \A s \in snaps : seen[s] \subseteq At(rows', s)
      BY <3>1 DEF IInv, HistoryReadable
    <3>3. rows' \in SUBSET Row
      BY <2>1 DEF IInv, CkptType, Row, NoEnd
    <3>4. \A r \in rows' : r.begin < next + 1 /\ (r.end = NoEnd \/ r.begin < r.end)
      BY <2>1 DEF IInv, CkptType, RowInv, Row
    <3> QED BY <3>2, <3>3, <3>4
  <2>2. ASSUME NEW r \in rows, rows' = (rows \ {r}) \cup {[r EXCEPT !.end = next]}
        PROVE  <1>2!:
    <3>1. next \in Nat /\ next >= next
      BY DEF IInv, CkptType
    <3>2. /\ rows' \in SUBSET Row
          /\ \A x \in rows' : x.begin < next /\ (x.end = NoEnd \/ x.begin < x.end)
          /\ \A s \in snaps : seen[s] \subseteq At(rows', s)
      BY <2>2, <3>1, HistoryKept
    <3>3. \A x \in rows' : x.begin \in Nat
      BY <3>2 DEF Row
    <3> QED BY <3>1, <3>2, <3>3
  <2> QED BY <2>1, <2>2 DEF Commit
<1>3. CkptType' /\ RowInv'
  BY <1>1, <1>2 DEF IInv, CkptType, RowInv
<1>4. IdInv'
  BY <1>1 DEF IInv, IdInv, CkptType
<1>5. cmd.op = "none"
  BY <1>1 DEF IInv, CreateInv, CkptType
<1>6. CreateInv' /\ RestoreInv' /\ RestoreHides'
  BY <1>1, <1>5 DEF CreateInv, RestoreInv, RestoreHides
<1>7. DOMAIN seen' = snaps' /\ HistoryReadable'
  BY <1>1, <1>2 DEF HistoryReadable
<1> QED BY <1>3, <1>4, <1>6, <1>7 DEF IInv

\* One put of a restore ends a row at the counter.
LEMMA RestoreHideStep ==
    ASSUME IInv, RestoreHide
    PROVE  IInv'
<1>1. /\ cmd.op = "restore"
      /\ UNCHANGED <<next, snaps, ckpts, nextCkpt, clock, server, cmd, restored, seen>>
  BY DEF RestoreHide
<1>2. cmd.num = next /\ restored = 0 /\ next \in Nat /\ next >= next
  BY <1>1 DEF IInv, RestoreInv, CkptType
<1>3. PICK r \in rows : rows' = (rows \ {r}) \cup {[r EXCEPT !.end = next]}
  BY <1>2 DEF RestoreHide, ToHide, Hidden
<1>4. /\ rows' \in SUBSET Row
      /\ \A x \in rows' : x.begin < next /\ (x.end = NoEnd \/ x.begin < x.end)
      /\ \A s \in snaps : seen[s] \subseteq At(rows', s)
  BY <1>2, <1>3, HistoryKept
<1> QED BY <1>1, <1>2, <1>4 DEF IInv, CkptType, RowInv, IdInv, CreateInv, RestoreInv,
                              HistoryReadable, RestoreHides

\* The end of a restore: with nothing left to hide, the new counter is past the
\* ends it has written.
LEMMA RestoreCounterStep ==
    ASSUME IInv, RestoreCounter
    PROVE  IInv'
<1>1. /\ cmd.op = "restore" /\ restored' = cmd.at /\ cmd' = Idle
      /\ UNCHANGED <<rows, snaps, ckpts, nextCkpt, clock, server, seen>>
  BY DEF RestoreCounter
<1>2. cmd.num = next /\ cmd.at < next /\ cmd.at \in Nat /\ next \in Nat \ {0}
  BY <1>1 DEF IInv, RestoreInv, CkptType
<1>3. next' \in Nat \ {0} /\ next' >= next
  BY <1>2 DEF RestoreCounter, AdvancedCounter
<1>4. RestoreHides'
  <2>1. ASSUME NEW r \in rows, r.kind \in DOMAIN HideOrder, Visible(r, next' - 1)
        PROVE  r.begin <= cmd.at
    <3>1. r.begin \in Nat /\ r.end \in Nat /\ (r.end = NoEnd \/ r.begin < r.end)
      BY DEF IInv, CkptType, RowInv, Row
    <3>2. CASE cmd.num > cmd.at + 1
      <4>1. next' - 1 = cmd.num /\ ToHide = {}
        BY <1>2, <3>2 DEF RestoreCounter, AdvancedCounter
      <4>2. SUFFICES ASSUME r.begin > cmd.at PROVE FALSE
        BY <1>2, <3>1
      <4>3. r = Hidden(r)
        BY <1>2, <2>1, <3>1, <4>1, <4>2 DEF ToHide, NoEnd
      <4>4. r.end = cmd.num
        <5>1. r \in Row
          BY DEF IInv, CkptType
        <5>2. Hidden(r).end = cmd.num
          BY <5>1 DEF Hidden, Row
        <5> QED BY <4>3, <5>2
      <4> QED BY <1>2, <2>1, <4>1, <4>4 DEF Visible, NoEnd
    <3>3. CASE ~(cmd.num > cmd.at + 1)
      <4>1. next' - 1 = cmd.at
        BY <1>2, <3>3 DEF RestoreCounter
      <4> QED BY <2>1, <4>1 DEF Visible
    <3> QED BY <3>2, <3>3
  <2>2. ASSUME NEW r \in rows, r.begin <= cmd.at, r.end = NoEnd
        PROVE  Fact(r) \in At(rows, next' - 1)
    <3>1. r.begin \in Nat /\ r.begin <= next' - 1
      BY <1>2, <1>3, <2>2 DEF IInv, CkptType, Row
    <3> QED BY <2>2, <3>1 DEF At, Visible
  <2> QED BY <1>1, <2>1, <2>2 DEF RestoreHides, Latest
<1>5. CkptType'
  BY <1>1, <1>3 DEF IInv, CkptType, Idle
<1>6. RowInv'
  <2>1. \A r \in rows : r.begin \in Nat
    BY DEF IInv, CkptType, Row
  <2> QED BY <1>1, <1>2, <1>3, <2>1 DEF IInv, RowInv
<1>7. IdInv'
  BY <1>1, <1>2, <1>3 DEF IInv, IdInv
<1>8. CreateInv' /\ RestoreInv'
  BY <1>1 DEF CreateInv, RestoreInv, Idle
<1>9. DOMAIN seen' = snaps' /\ HistoryReadable'
  BY <1>1 DEF IInv, HistoryReadable
<1> QED BY <1>4, <1>5, <1>6, <1>7, <1>8, <1>9 DEF IInv

\* The other steps leave the rows and the snapshot counter alone.
LEMMA CommandStep ==
    ASSUME IInv,
           \/ ServerOpen \/ Tick \/ CreateCounter \/ CreatePut \/ RestoreStart \/ CommandFails
           \/ UNCHANGED vars
    PROVE  IInv'
<1>1. UNCHANGED <<rows, next, snaps, seen>> /\ (restored' = restored \/ restored' = 0)
  BY DEF ServerOpen, Tick, CreateCounter, CreatePut, RestoreStart, CommandFails, vars
<1>2. /\ RowInv' /\ HistoryReadable' /\ RestoreHides' /\ DOMAIN seen' = snaps'
      /\ rows' \in SUBSET Row /\ next' \in Nat \ {0}
  BY <1>1 DEF IInv, RowInv, HistoryReadable, RestoreHides, Latest, CkptType
<1> SUFFICES CkptType' /\ IdInv' /\ CreateInv' /\ RestoreInv'
  BY <1>2 DEF IInv
<1>3. Latest \in Nat /\ Latest < next
  BY DEF IInv, CkptType, Latest
<1>4. CASE ServerOpen
  BY <1>2, <1>4 DEF IInv, ServerOpen, CkptType, IdInv, CreateInv, RestoreInv, Idle
<1>5. CASE Tick
  BY <1>2, <1>5, CheckpointAssumption DEF IInv, Tick, CkptType, IdInv, CreateInv, RestoreInv
<1>6. CASE CreateCounter
  <2>1. CheckpointId \in Nat /\ CheckpointId >= nextCkpt
    BY IdAhead DEF IInv
  <2>2. /\ cmd' = [op |-> "create", at |-> Latest, num |-> CheckpointId] /\ server' = FALSE
        /\ nextCkpt' = CheckpointId + 1 /\ UNCHANGED <<ckpts, clock, next>>
    BY <1>6 DEF CreateCounter, Start
  <2>3. CkptType'
    BY <1>2, <1>3, <2>1, <2>2 DEF IInv, CkptType
  <2>4. IdInv'
    BY <2>1, <2>2 DEF IInv, IdInv, CkptType
  <2>5. CreateInv' /\ RestoreInv'
    BY <1>3, <2>1, <2>2 DEF IInv, IdInv, CreateInv, RestoreInv, CkptType
  <2> QED BY <2>3, <2>4, <2>5
<1>7. CASE CreatePut
  <2>1. cmd.num \in Nat /\ cmd.num < nextCkpt /\ cmd.at \in Nat /\ cmd.at < next
    BY <1>7 DEF IInv, CreatePut, CreateInv, CkptType
  <2> QED BY <1>2, <1>7, <2>1 DEF IInv, CreatePut, CkptType, IdInv, CreateInv, RestoreInv, Idle
<1>8. CASE RestoreStart
  <2>1. PICK c \in DOMAIN ckpts : cmd' = [op |-> "restore", at |-> ckpts[c], num |-> next]
    BY <1>8 DEF RestoreStart, Start
  <2>2. ckpts[c] \in Nat /\ ckpts[c] < next
    BY DEF IInv, IdInv
  <2>3. server' = FALSE /\ restored' = 0 /\ UNCHANGED <<next, ckpts, nextCkpt, clock>>
    BY <1>8 DEF RestoreStart, Start
  <2> QED BY <1>2, <2>1, <2>2, <2>3 DEF IInv, CkptType, IdInv, CreateInv, RestoreInv
<1>9. CASE CommandFails
  BY <1>2, <1>9 DEF IInv, CommandFails, CkptType, IdInv, CreateInv, RestoreInv, Idle
<1>10. CASE UNCHANGED vars
  BY <1>2, <1>10 DEF IInv, vars, CkptType, IdInv, CreateInv, RestoreInv
<1> QED BY <1>4, <1>5, <1>6, <1>7, <1>8, <1>9, <1>10

-----------------------------------------------------------------------------
\* The inductive invariant holds of every reachable state.
THEOREM Invariance == Spec => []IInv
<1>1. Init => IInv
  <2> SUFFICES ASSUME Init PROVE IInv
    OBVIOUS
  <2> DEFINE r == [kind |-> "schema", id |-> 1, begin |-> 1, end |-> NoEnd]
  <2>1. rows = {r} /\ r \in Row /\ Visible(r, 1) /\ Fact(r) = <<"schema", 1>>
    BY DEF Init, Row, Kind, HideOrder, NoEnd, Visible, Fact
  <2>2. <<"schema", 1>> \in At(rows, 1)
    BY <2>1 DEF At
  <2>3. DOMAIN seen = snaps /\ HistoryReadable
    BY <2>2 DEF Init, HistoryReadable
  <2>4. CkptType /\ RowInv
    BY <2>1 DEF Init, CkptType, RowInv, Idle
  <2>5. IdInv /\ CreateInv /\ RestoreInv /\ RestoreHides
    BY DEF Init, IdInv, CreateInv, RestoreInv, RestoreHides, Idle
  <2> QED BY <2>3, <2>4, <2>5 DEF IInv
<1>2. IInv /\ [Next]_vars => IInv'
  BY CommitStep, RestoreHideStep, RestoreCounterStep, CommandStep DEF Next
<1> QED BY <1>1, <1>2, PTL DEF Spec

\* What a reader saw at a snapshot stays readable there, through every put of
\* hide_post_checkpoint_facts and every interrupted restore.
THEOREM HistoryStaysReadable == Spec => []HistoryReadable
<1>1. IInv => HistoryReadable
  BY DEF IInv
<1> QED BY <1>1, Invariance, PTL

\* A completed restore_checkpoint hides what it visits and is younger than the
\* checkpoint, and nothing older, also after restores that died half way.
THEOREM RestoreHidesHolds == Spec => []RestoreHides
<1>1. IInv => RestoreHides
  BY DEF IInv
<1> QED BY <1>1, Invariance, PTL

\* create_checkpoint never takes the id of a checkpoint there is, whatever the
\* clock does and wherever an earlier command died.
THEOREM CheckpointsAreKept == Spec => CheckpointsKept
<1> DEFINE Kept == \A c \in DOMAIN ckpts : c \in DOMAIN ckpts' /\ ckpts'[c] = ckpts[c]
<1>1. IInv /\ [Next]_vars => [Kept]_vars
  <2> SUFFICES ASSUME IInv, Next PROVE Kept
    OBVIOUS
  <2>1. CASE CreatePut
    BY <2>1 DEF IInv, CreateInv, CreatePut
  <2>2. CASE ~CreatePut
    BY <2>2 DEF Next, ServerOpen, Commit, Tick, CreateCounter, RestoreStart, RestoreHide,
                RestoreCounter, CommandFails
  <2> QED BY <2>1, <2>2
<1> QED BY <1>1, Invariance, PTL DEF Spec, CheckpointsKept
=============================================================================
