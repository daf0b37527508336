------------------------------ MODULE Checkpoint ------------------------------
(***************************************************************************)
(* Checkpoints (rocklake-catalog/src/checkpoint.rs): naming the current    *)
(* snapshot, and going back to it by ending, one put at a time, the rows   *)
(* that were created since.  The commands open the database themselves and *)
(* so fence the server; a server that opens the catalog again fences the   *)
(* command, wherever it is.                                                *)
(*                                                                         *)
(* Abstractions: a row is a kind, an id and its interval.  "schema",       *)
(* "table" and "inlined" stand for the six kinds a restore visits, in its  *)
(* order; "file" for those it does not visit (data files, delete files,    *)
(* tags, sort and partition info).  A commit creates or retires one row.   *)
(***************************************************************************)
EXTENDS Naturals, FiniteSets, FiniteSetsExt

CONSTANTS
    MaxSnap,    \* bound: snapshot ids
    MaxClock,   \* bound: wall-clock milliseconds
    MaxCkpt,    \* bound: checkpoint ids
    MaxCmds     \* bound: commands run

ASSUME CheckpointAssumption == {MaxSnap, MaxClock, MaxCkpt, MaxCmds} \subseteq Nat

VARIABLES
    rows,       \* versioned rows
    next,       \* COUNTER_NEXT_SNAPSHOT_ID
    snaps,      \* ids of the snapshot rows
    ckpts,      \* checkpoint metadata: checkpoint id -> snapshot id
    nextCkpt,   \* COUNTER_NEXT_CHECKPOINT_ID, 0 when absent
    clock,      \* the wall clock of whoever creates a checkpoint
    server,     \* the server has the catalog open
    cmd,        \* the running command
    cmds,       \* commands started
    restored,   \* history: snapshot of the checkpoint just restored, or 0
    seen        \* history: what readers saw at each snapshot when it was new

vars == <<rows, next, snaps, ckpts, nextCkpt, clock, server, cmd, cmds, restored, seen>>

-----------------------------------------------------------------------------
NoEnd == 0

\* The kinds a restore visits, in the order of hide_post_checkpoint_facts.
HideOrder == [schema |-> 1, table |-> 2, inlined |-> 3]

Kind == DOMAIN HideOrder \cup {"file"}

Row == [kind : Kind, id : Nat, begin : Nat, end : Nat]

Visible(r, s) == r.begin <= s /\ (r.end = NoEnd \/ s < r.end)

Fact(r) == <<r.kind, r.id>>

At(R, s) == {Fact(r) : r \in {x \in R : Visible(x, s)}}

Latest == next - 1

Idle == [op |-> "none", at |-> 0, num |-> 0]

Init ==
    /\ rows = {[kind |-> "schema", id |-> 1, begin |-> 1, end |-> NoEnd]}
    /\ next = 2 /\ snaps = {1}
    /\ ckpts = <<>> /\ nextCkpt = 0
    /\ clock = 1
    /\ server = TRUE
    /\ cmd = Idle /\ cmds = 0
    /\ restored = 0
    /\ seen = [s \in {1} |-> {<<"schema", 1>>}]

-----------------------------------------------------------------------------
\* The server

\* Opening fences the command that is running: its next put fails.
ServerOpen ==
    /\ ~server
    /\ server' = TRUE
    /\ cmd' = Idle
    /\ UNCHANGED <<rows, next, snaps, ckpts, nextCkpt, clock, cmds, restored, seen>>

\* A commit takes snapshot `next`; the new row gets the id `next` too.
Commit ==
    /\ server /\ next <= MaxSnap
    /\ \/ \E k \in Kind :
              rows' = rows \cup {[kind |-> k, id |-> next, begin |-> next, end |-> NoEnd]}
       \/ \E r \in rows :
              /\ Visible(r, Latest) /\ r.end = NoEnd
              /\ rows' = (rows \ {r}) \cup {[r EXCEPT !.end = next]}
    /\ next' = next + 1
    /\ snaps' = snaps \cup {next}
    /\ seen' = [s \in snaps' |-> IF s = next THEN At(rows', s) ELSE seen[s]]
    /\ restored' = 0
    /\ UNCHANGED <<ckpts, nextCkpt, clock, server, cmd, cmds>>

\* Time passes, or the clock is set back.
Tick ==
    /\ clock' \in 1..MaxClock /\ clock' # clock
    /\ cmd.op = "none"
    /\ UNCHANGED <<rows, next, snaps, ckpts, nextCkpt, server, cmd, cmds, restored, seen>>

-----------------------------------------------------------------------------
\* cmd_checkpoint: the command opens the database, which fences the server.
Start(c) ==
    /\ cmd.op = "none" /\ cmds < MaxCmds
    /\ cmd' = c
    /\ cmds' = cmds + 1
    /\ server' = FALSE

ClockId == clock

\* The id of a new checkpoint: the clock, unless the counter is ahead of it.
CheckpointId == Max({clock, nextCkpt})

\* create_checkpoint up to the put of the counter.
CreateCounter ==
    /\ CheckpointId <= MaxCkpt
    /\ Start([op |-> "create", at |-> Latest, num |-> CheckpointId])
    /\ nextCkpt' = CheckpointId + 1
    /\ UNCHANGED <<rows, next, snaps, ckpts, clock, restored, seen>>

\* The put of the metadata.
CreatePut ==
    /\ cmd.op = "create"
    /\ ckpts' = [c \in DOMAIN ckpts \cup {cmd.num} |-> IF c = cmd.num THEN cmd.at ELSE ckpts[c]]
    /\ cmd' = Idle
    /\ UNCHANGED <<rows, next, snaps, nextCkpt, clock, server, cmds, restored, seen>>

\* restore_checkpoint of a checkpoint at snapshot `at`, hiding from `num` on.
RestoreStart ==
    /\ \E c \in DOMAIN ckpts : Start([op |-> "restore", at |-> ckpts[c], num |-> next])
    /\ restored' = 0
    /\ UNCHANGED <<rows, next, snaps, ckpts, nextCkpt, clock, seen>>

\* A row as hide_post_checkpoint_facts leaves it.
HiddenFromCheckpoint(r) == [r EXCEPT !.end = cmd.at + 1]

Hidden(r) == [r EXCEPT !.end = cmd.num]

\* The rows it rewrites: created after the checkpoint, whether or not they have
\* been retired since (a row begun after it cannot have ended before it).
ToHide ==
    {r \in rows :
        /\ r.kind \in DOMAIN HideOrder
        /\ r.begin > cmd.at
        /\ r.end = NoEnd \/ r.end > cmd.at
        /\ r # Hidden(r)}

\* One put of the scans of hide_post_checkpoint_facts.
RestoreHide ==
    /\ cmd.op = "restore" /\ cmd.num > cmd.at + 1
    /\ \E r \in ToHide :
           /\ \A q \in ToHide : HideOrder[r.kind] <= HideOrder[q.kind]
           /\ rows' = (rows \ {r}) \cup {Hidden(r)}
    /\ UNCHANGED <<next, snaps, ckpts, nextCkpt, clock, server, cmd, cmds, restored, seen>>

SameCounter == cmd.num

\* The snapshot counter after a restore that had something to hide.
AdvancedCounter == cmd.num + 1

\* The put of the snapshot counter, which ends the restore.
RestoreCounter ==
    /\ cmd.op = "restore"
    /\ cmd.num > cmd.at + 1 => ToHide = {}
    /\ next' = IF cmd.num > cmd.at + 1 THEN AdvancedCounter ELSE next
    /\ restored' = cmd.at
    /\ cmd' = Idle
    /\ UNCHANGED <<rows, snaps, ckpts, nextCkpt, clock, server, cmds, seen>>

\* The command is killed, or one of its puts fails.
CommandFails ==
    /\ cmd.op # "none"
    /\ cmd' = Idle
    /\ UNCHANGED <<rows, next, snaps, ckpts, nextCkpt, clock, server, cmds, restored, seen>>

Next ==
    \/ ServerOpen \/ Commit \/ Tick
    \/ CreateCounter \/ CreatePut
    \/ RestoreStart \/ RestoreHide \/ RestoreCounter \/ CommandFails

Spec == Init /\ [][Next]_vars

-----------------------------------------------------------------------------
\* Properties

\* Rows have distinct keys and proper intervals, the counters are ahead of what
\* was handed out, and the server serves only while no command runs.
TypeOK ==
    /\ rows \in SUBSET Row
    /\ \A r, q \in rows : Fact(r) = Fact(q) => r = q
    /\ \A r \in rows : r.end = NoEnd \/ r.begin < r.end
    /\ \A s \in snaps : s < next
    /\ \A c \in DOMAIN ckpts : c < nextCkpt /\ ckpts[c] < next
    /\ DOMAIN seen = snaps
    /\ cmd.op # "none" => ~server

\* A checkpoint that exists keeps naming its snapshot: no later checkpoint takes
\* its id, also when the clock stands still or is set back and when commands die
\* between their two puts.
CheckpointsKept ==
    [][\A c \in DOMAIN ckpts : c \in DOMAIN ckpts' /\ ckpts'[c] = ckpts[c]]_vars

\* A completed restore, whatever interrupted restores came before it, shows at
\* the latest snapshot (until another one begins to move the ends) nothing of
\* the kinds it visits that is younger than the checkpoint, and keeps all else
\* that was to be seen at the checkpoint and was not dropped since.
RestoreHides ==
    restored # 0 =>
        /\ \A r \in rows : r.kind \in DOMAIN HideOrder /\ Visible(r, Latest) => r.begin <= restored
        /\ \A r \in rows : r.begin <= restored /\ r.end = NoEnd => Fact(r) \in At(rows, Latest)

\* What was readable at a snapshot remains readable there, through restores that
\* complete, are interrupted or are run again.
HistoryReadable == \A s \in snaps : seen[s] \subseteq At(rows, s)
=============================================================================
