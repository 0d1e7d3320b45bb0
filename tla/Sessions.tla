------------------------------- MODULE Sessions -------------------------------
(***************************************************************************)
(* Several processes of src/cmd/vadadb/main.go on one data directory.      *)
(* Nothing locks it: each opens the database, reading file after file,     *)
(* runs one command or many, and ends, while others do the same.  A step   *)
(* is what a session does between two accesses to the files, and a kill    *)
(* may end it anywhere.                                                    *)
(*                                                                         *)
(* A session that only reads commands shows in no step here but Start to   *)
(* ReadFusion and End.  CRASH and RECOVER touch the session's own memory   *)
(* and are in Database, where appends and files also fail; here they do    *)
(* not, and an append is seen by others as a whole.  A one-shot call is a  *)
(* session that ends after its first command.                              *)
(***************************************************************************)
EXTENDS DatabaseFiles, FiniteSetsExt

CONSTANTS
    Session,      \* the processes
    SnapshotAt,   \* bound: values of committed at which SNAPSHOT is given
    MaxSessions   \* bound: how often a process opens the database

ASSUME SessionsAssumption ==
    SnapshotAt \subseteq 0 .. MaxSequence /\ MaxSessions \in Nat

VARIABLES
    pc,          \* pc[p]: what session p does next
    cursor,      \* cursor[p]: the shard whose file that is about
    read,        \* read[p]: what Open has read of the files so far
    data,        \* data[p][k]: the maps of the shards
    next,        \* next[p], committed[p]: the sequence numbers
    committed,
    marked,      \* marked[p]: checkpoint, NoFile when not hasSnapshot
    pending,     \* pending[p]: the record between its two appends
    overlapped,  \* history: others changed a file since the session started
    clashed,     \* history: two sessions were writing at a time
    written,     \* history: the contents after every committed write
    opened       \* history: how many sessions there were

files == <<wal, fusionWAL, snapshots, current>>
memory == <<data, next, committed, marked>>
local == <<cursor, read, memory, pending>>
history == <<overlapped, clashed, written, opened>>
vars == <<files, pc, local, history>>

Nothing == [wal |-> [s \in Shard |-> <<>>], current |-> NoFile,
            snapshots |-> [q \in 0 .. MaxSequence |-> [s \in Shard |-> NoSnapshot]]]

\* Open's view: what was read until now, and the fusion log, which is read last.
View(p, log) == INSTANCE DatabaseFiles WITH
    wal <- read[p].wal, current <- read[p].current,
    snapshots <- read[p].snapshots, fusionWAL <- log

Init ==
    /\ wal = Nothing.wal
    /\ fusionWAL = <<>>
    /\ snapshots = Nothing.snapshots
    /\ current = NoFile
    /\ pc = [p \in Session |-> "out"]
    /\ cursor = [p \in Session |-> 0]
    /\ read = [p \in Session |-> Nothing]
    /\ data = [p \in Session |-> EmptyMap]
    /\ next = [p \in Session |-> 1]
    /\ committed = [p \in Session |-> 0]
    /\ marked = [p \in Session |-> NoFile]
    /\ pending = [p \in Session |-> NoEntry]
    /\ overlapped = [p \in Session |-> FALSE]
    /\ clashed = FALSE
    /\ written = EmptyMap
    /\ opened = 0

Go(p, from, to) == pc[p] = from /\ pc' = [pc EXCEPT ![p] = to]

-----------------------------------------------------------------------------
(* Open                                                                    *)

\* The checkpoint is read, or its absence noticed.
Start(p) ==
    /\ opened < MaxSessions
    /\ opened' = opened + 1
    /\ Go(p, "out", IF current = NoFile THEN "logs" ELSE "snapshots")
    /\ read' = [read EXCEPT ![p].current = current]
    /\ overlapped' = [overlapped EXCEPT ![p] = FALSE]
    /\ UNCHANGED <<files, cursor, memory, pending, clashed, written>>

NextShard(p) == (cursor[p] + 1) % SourceCount

ReadSnapshot(p) ==
    LET q == read[p].current
        s == cursor[p]
        AfterIt == IF NextShard(p) = 0 THEN "logs" ELSE "snapshots"
    IN  /\ Go(p, "snapshots", IF Loads(snapshots[q][s], q, s) THEN AfterIt ELSE "refused")
        /\ read' = [read EXCEPT ![p].snapshots[q][s] = snapshots[q][s]]
        /\ cursor' = [cursor EXCEPT ![p] = NextShard(p)]
        /\ UNCHANGED <<files, memory, pending, history>>

ReadLog(p) ==
    /\ Go(p, "logs", IF NextShard(p) = 0 THEN "fusion" ELSE "logs")
    /\ read' = [read EXCEPT ![p].wal[cursor[p]] = wal[cursor[p]]]
    /\ cursor' = [cursor EXCEPT ![p] = NextShard(p)]
    /\ UNCHANGED <<files, memory, pending, history>>

\* The last file is read, and Open succeeds.
ReadFusion(p) ==
    /\ Go(p, "fusion", "idle")
    /\ View(p, fusionWAL)!Openable
    /\ data' = [data EXCEPT ![p] = View(p, fusionWAL)!Recovered]
    /\ next' = [next EXCEPT ![p] = Max(View(p, fusionWAL)!Seen) + 1]
    /\ committed' = [committed EXCEPT ![p] = Max(View(p, fusionWAL)!Replayed)]
    /\ marked' = [marked EXCEPT ![p] = read[p].current]
    /\ read' = [read EXCEPT ![p] = Nothing]
    /\ UNCHANGED <<files, cursor, pending, history>>

\* Or it returns an error.
Refuse(p) ==
    /\ Go(p, "fusion", "refused")
    /\ ~View(p, fusionWAL)!Openable
    /\ UNCHANGED <<files, local, history>>

-----------------------------------------------------------------------------
(* Commands                                                                *)

\* A file has changed under the others.
Touch(p) == overlapped' = [q \in Session |-> overlapped[q] \/ q # p]

InMethod == {"commit", "remove", "write", "rename", "again"}

\* A session starts to write although others have written since it started, or
\* are about to.
Clash(p) ==
    overlapped[p] \/ \E q \in Session \ {p} : pc[q] \in InMethod

\* PUT and DELETE, up to the first append.
Write(p, k, v) ==
    /\ Go(p, "idle", "commit")
    /\ v = Absent => data[p][k] # Absent
    /\ next[p] <= MaxSequence
    /\ LET entry == [op |-> IF v = Absent THEN "delete" ELSE "put",
                     sequence |-> next[p], shard |-> Route(k), key |-> k, value |-> v]
       IN  /\ wal' = [wal EXCEPT ![Route(k)] = Append(@, entry)]
           /\ pending' = [pending EXCEPT ![p] = entry]
    /\ next' = [next EXCEPT ![p] = @ + 1]
    /\ Touch(p)
    /\ clashed' = Clash(p)
    /\ UNCHANGED <<fusionWAL, snapshots, current, cursor, read, data, committed,
                   marked, written, opened>>

\* The second append, and the session's memory after it.
Commit(p) ==
    /\ Go(p, "commit", "idle")
    /\ fusionWAL' = Append(fusionWAL, pending[p])
    /\ data' = [data EXCEPT ![p][pending[p].key] = pending[p].value]
    /\ committed' = [committed EXCEPT ![p] = pending[p].sequence]
    /\ pending' = [pending EXCEPT ![p] = NoEntry]
    /\ written' = [written EXCEPT ![pending[p].key] = pending[p].value]
    /\ Touch(p)
    /\ UNCHANGED <<wal, snapshots, current, cursor, read, next, marked, clashed, opened>>

\* SNAPSHOT, up to the removal of an old file.
AheadAlways(p) == TRUE
Ahead(p) == marked[p] # committed[p]

BeginSnapshot(p) ==
    /\ Go(p, "idle", "write")
    /\ Ahead(p)
    /\ committed[p] \in SnapshotAt
    /\ snapshots' = [snapshots EXCEPT ![committed[p]][0] = NoSnapshot]
    /\ Touch(p)
    /\ clashed' = Clash(p)
    /\ UNCHANGED <<wal, fusionWAL, current, local, written, opened>>

RemoveSnapshot(p) ==
    /\ Go(p, "remove", "write")
    /\ snapshots' = [snapshots EXCEPT ![committed[p]][cursor[p]] = NoSnapshot]
    /\ Touch(p)
    /\ UNCHANGED <<wal, fusionWAL, current, local, clashed, written, opened>>

WriteSnapshot(p) ==
    /\ Go(p, "write", IF NextShard(p) = 0 THEN "rename" ELSE "remove")
    /\ snapshots[committed[p]][cursor[p]] = NoSnapshot
    /\ LET s == cursor[p]
           map == [k \in Keys |-> IF Route(k) = s THEN data[p][k] ELSE Absent]
       IN  snapshots' = [snapshots EXCEPT ![committed[p]][s] = Whole(committed[p], map)]
    /\ cursor' = [cursor EXCEPT ![p] = NextShard(p)]
    /\ Touch(p)
    /\ UNCHANGED <<wal, fusionWAL, current, read, memory, pending, clashed, written, opened>>

Rename(p) ==
    /\ \/ Go(p, "rename", "idle")
       \/ Go(p, "again", "idle")
    /\ current' = committed[p]
    /\ marked' = [marked EXCEPT ![p] = committed[p]]
    /\ Touch(p)
    /\ UNCHANGED <<wal, fusionWAL, snapshots, cursor, read, data, next, committed, pending,
                   clashed, written, opened>>

\* The rename has failed, and the old checkpoint is removed before another one.
RemoveCheckpoint(p) ==
    /\ Go(p, "rename", "again")
    /\ current' = NoFile
    /\ Touch(p)
    /\ UNCHANGED <<wal, fusionWAL, snapshots, local, clashed, written, opened>>

\* EXIT, the end of a one-shot call, an error exit, or a kill.
End(p) ==
    /\ pc[p] # "out"
    /\ pc' = [pc EXCEPT ![p] = "out"]
    /\ cursor' = [cursor EXCEPT ![p] = 0]
    /\ read' = [read EXCEPT ![p] = Nothing]
    /\ data' = [data EXCEPT ![p] = EmptyMap]
    /\ next' = [next EXCEPT ![p] = 1]
    /\ committed' = [committed EXCEPT ![p] = 0]
    /\ marked' = [marked EXCEPT ![p] = NoFile]
    /\ pending' = [pending EXCEPT ![p] = NoEntry]
    /\ UNCHANGED <<files, history>>

\* Nothing is claimed any more once sessions have clashed, and the model stops.
Next ==
    /\ ~clashed
    /\ \E p \in Session :
          \/ Start(p)
          \/ ReadSnapshot(p)
          \/ ReadLog(p)
          \/ ReadFusion(p)
          \/ Refuse(p)
          \/ \E k \in Keys, v \in Contents : Write(p, k, v)
          \/ Commit(p)
          \/ BeginSnapshot(p)
          \/ RemoveSnapshot(p)
          \/ WriteSnapshot(p)
          \/ Rename(p)
          \/ RemoveCheckpoint(p)
          \/ End(p)

Spec == Init /\ [][Next]_vars

-----------------------------------------------------------------------------
(* Properties                                                              *)

\* As long as writing sessions take turns, every state of the files can be
\* opened, whoever reads them and wherever a writer was killed, and holds what
\* the sessions wrote, in their order, through each other's snapshots and lost
\* checkpoints.
TurnsKeepWrites == ~clashed => Openable /\ Recovered = written

\* Open returns an error only to a session that others wrote under: alone, or
\* among readers, it always comes up.
RefusedOnlyIfOverlapped == \A p \in Session : pc[p] = "refused" => overlapped[p]

\* A session that others have not written under sees in memory what is on disk.
MemoryMatchesFiles ==
    ~clashed => \A p \in Session : pc[p] = "idle" /\ ~overlapped[p] => data[p] = Recovered

\* A session that comes up while another one writes sees all that was committed
\* when it read the last file, although it read the other files at other times:
\* what it had missed in them makes Open return an error.
OpensWhatIsCommitted ==
    [][\A p \in Session : pc[p] = "fusion" /\ pc'[p] = "idle" => data'[p] = written]_vars
=============================================================================
