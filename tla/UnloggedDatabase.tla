--------------------------- MODULE UnloggedDatabase ---------------------------
(***************************************************************************)
(* A Database that has no logs: one that New made in memory, and one that  *)
(* is used after its Close, whose logs are nil.  commitWAL returns without *)
(* an error then (src/db/database.go:434), so Put and Delete succeed and   *)
(* reach memory only.  A closed database still has its directory, and its  *)
(* Snapshot works.                                                         *)
(***************************************************************************)
EXTENDS Database

VARIABLES
    logs,     \* "open", "closed" by Close, or "none" in a database of New
    promised  \* history: the values of each key that a restart may find

uvars == <<vars, logs, promised>>

\* What the client was told, and what its unanswered writes may have left.
Promise == [k \in Keys |-> {acked[k]} \cup maybe[k]]

UInit == Init /\ logs = "open" /\ promised = Promise

\* A database that no directory belongs to.
New ==
    /\ status = "down"
    /\ status' = "up"
    /\ logs' = "none"
    /\ acked' = EmptyMap
    /\ maybe' = [k \in Keys |-> {}]
    /\ UNCHANGED <<disk, memory, next, marks, running, bounds, promised>>

\* The client reads its keys again, which settles what it is promised.
OpenLogs == Open /\ logs' = "open" /\ promised' = Promise'

\* Close returns, and the process goes on.
CloseLogs ==
    /\ Idle
    /\ logs = "open"
    /\ logs' = "closed"
    /\ UNCHANGED <<vars, promised>>

\* commitWAL without logs, in the place of the two appends.
SkipLogs ==
    /\ pc = "source"
    /\ logs # "open"
    /\ pc' = "apply"
    /\ UNCHANGED <<disk, status, memory, next, marks, pending, cursor, history, bounds, logs, promised>>

\* Everything else is as with logs, except that New's database has no Snapshot.
\* The process may end between any two steps and while Snapshot writes a file;
\* failing system calls and torn records of the logs are left to Database.  A
\* database with logs promises all it tells its client, one without them
\* nothing until a Snapshot returns.
HasDirectoryAlways == TRUE
HasDirectory == logs # "none"

AsWithLogs ==
    /\ \/ logs = "open" /\ AppendSource
       \/ HasDirectory /\ BeginSnapshot
       \/ AppendFusion
       \/ Apply
       \/ RemoveSnapshot
       \/ WriteSnapshot
       \/ WriteTemporary
       \/ Rename
       \/ \E k \in Keys, v \in Values : BeginPut(k, v)
       \/ \E k \in Keys : BeginDelete(k)
       \/ \E k \in Keys : DeleteAbsent(k)
       \/ \E s \in Shard : CrashShard(s)
       \/ \E s \in Shard : RecoverShard(s)
       \/ Close
       \/ Crash
       \/ CrashInSnapshot
       \/ OpenRefused
    /\ UNCHANGED logs
    /\ promised' = IF logs = "open" \/ Rename THEN Promise' ELSE promised

UNext == New \/ OpenLogs \/ CloseLogs \/ SkipLogs \/ AsWithLogs

USpec == UInit /\ [][UNext]_uvars

-----------------------------------------------------------------------------
(* Properties                                                              *)

\* When Snapshot has nothing to do, or has just returned, the files hold all the
\* client was told, the writes that no log has too.
SnapshotSavesAll ==
    Idle /\ HasDirectory /\ Healthy /\ ~Ahead => Recovered = acked

\* Without logs the files change what a restart finds in one way: a finished
\* Snapshot of a closed database puts everything there at once.  Its writes
\* otherwise leave no trace, and New's never do.
OnlySnapshotsSave ==
    [][logs # "open" /\ logs' = logs =>
          Recovered' = Recovered \/ (logs = "closed" /\ Recovered' = acked)]_uvars

\* At any moment, while a database without logs runs and after it ended too, a
\* restart finds of every key what databases with logs, and Snapshots that
\* returned, promised, or the write that is being logged; and Open accepts the
\* files.  Writes without logs use sequence numbers that logged records have or
\* get later, and snapshots take the checkpoint past such numbers.
LoggedSurvives ==
    /\ NeverRefused
    /\ \A k \in Keys :
          Recovered[k] \in promised[k] \cup (IF logs = "open" THEN Possible(k) ELSE {})
=============================================================================
