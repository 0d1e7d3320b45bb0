----------------------------- MODULE DatabaseFiles -----------------------------
(***************************************************************************)
(* The files of a database directory and what Open of src/db/database.go   *)
(* makes of them: one write-ahead log per shard, one for the fused backup, *)
(* the snapshot files and the checkpoint that names the current ones       *)
(* (src/storage).  Database reads its own files, Sessions what a session   *)
(* has read while others write.                                            *)
(***************************************************************************)
EXTENDS MachineWords

CONSTANTS
    Keys, Values,
    Absent,       \* the value of a key that a map does not hold
    NoFile,       \* the contents of a checkpoint file that does not exist
    Torn,         \* the contents of a checkpoint file that was partly written
    MaxSequence   \* bound: sequence numbers handed out

\* Keys and values are machine words, of which there are finitely many.
ASSUME FilesAssumption ==
    /\ Keys \subseteq Word /\ Values \subseteq Word
    /\ IsFiniteSet(Keys)
    /\ Absent \notin Values
    /\ NoFile \notin Nat /\ Torn \notin Nat /\ NoFile # Torn
    /\ MaxSequence \in Nat

Shard == Source
Route(key) == key % SourceCount
Sequence == 1 .. MaxSequence

VARIABLES
    wal,          \* wal[s]: the log of shard s
    fusionWAL,    \* the log of the backup; a record in it is committed
    snapshots,    \* snapshots[sequence][s]: the snapshot files
    current       \* snapshot.current: the sequence of the usable snapshot

-----------------------------------------------------------------------------
(* Records, files and maps                                                 *)

Contents == Values \cup {Absent}
Map == [Keys -> Contents]
EmptyMap == [k \in Keys |-> Absent]

\* A WALRecord.  A delete carries no value; it leaves the key absent.
Entry == [op : {"put", "delete"}, sequence : Sequence, shard : Shard,
          key : Keys, value : Contents]

\* What is left of a record that was partly written.
TornEntry == [op |-> "torn", sequence |-> 0, shard |-> 0, key |-> 0, value |-> Absent]

NoEntry == [op |-> "none", sequence |-> 0, shard |-> 0, key |-> 0, value |-> Absent]

SnapshotFile(state, q, map) == [state |-> state, sequence |-> q, records |-> map]
Whole(q, map) == SnapshotFile("whole", q, map)
NoSnapshot == SnapshotFile("none", 0, EmptyMap)
TornSnapshot == SnapshotFile("torn", 0, EmptyMap)

Entries(log) == {log[i] : i \in DOMAIN log}

-----------------------------------------------------------------------------
(* What Open makes of the files                                            *)

Checkpoint == IF current = NoFile THEN 0 ELSE current

BaseForgotten(s) == EmptyMap
Base(s) == IF current = NoFile THEN EmptyMap ELSE snapshots[current][s].records

CommittedIn(log) == {e \in Entries(log) : \E c \in Entries(fusionWAL) : c.sequence = e.sequence}

\* The records of shard s that Open applies to the snapshot, in log order.
AppliedTooLate(s) == {e \in CommittedIn(wal[s]) : e.sequence > Checkpoint + 1}
Applied(s) == {e \in CommittedIn(wal[s]) : e.sequence > Checkpoint}

\* Open's committed is the largest of these.
ReplayedOnly == {0} \cup UNION {{e.sequence : e \in Applied(s)} : s \in Shard}
Replayed == {Checkpoint} \cup UNION {{e.sequence : e \in Applied(s)} : s \in Shard}

\* Where the last record about key among those in S is in a log: one position,
\* or none.
LastAt(log, S, key) ==
    LET about == {i \in DOMAIN log : log[i] \in S /\ log[i].key = key}
    IN  {i \in about : \A j \in about : j <= i}

\* The map of a shard after the records in S have been applied to it.
ApplyTo(map, log, S) ==
    [k \in Keys |-> LET last == LastAt(log, S, k)
                    IN  IF last = {} THEN map[k]
                        ELSE log[CHOOSE i \in last : TRUE].value]

Replay(s) == ApplyTo(Base(s), wal[s], Applied(s))

\* What a client finds after a restart.
Recovered == [k \in Keys |-> Replay(Route(k))[k]]

\* A snapshot file of shard s that passes for the one taken at q.
Loads(file, q, s) ==
    /\ file.state = "whole"
    /\ file.sequence = q
    /\ \A k \in Keys : file.records[k] # Absent => Route(k) = s

SnapshotsLoad ==
    current # NoFile =>
        current # Torn /\ \A s \in Shard : Loads(snapshots[current][s], current, s)

LogsLoad ==
    /\ \A s \in Shard : \A e \in Entries(wal[s]) :
          e.op # "torn" /\ e.shard = s /\ Route(e.key) = s
    /\ \A e \in Entries(fusionWAL) : e.op # "torn"

UniqueCommits ==
    \A i, j \in DOMAIN fusionWAL :
        i # j => fusionWAL[i].sequence # fusionWAL[j].sequence

CommitsMatchRecords ==
    \A s \in Shard : \A e \in Applied(s) : e \in Entries(fusionWAL)
CommitsMatch ==
    /\ \A s \in Shard : \A e \in Applied(s) : e \in Entries(fusionWAL)
    /\ \A c \in Entries(fusionWAL) :
          c.sequence > Checkpoint =>
              \E s \in Shard : \E e \in Entries(wal[s]) : e.sequence = c.sequence

Openable == SnapshotsLoad /\ LogsLoad /\ UniqueCommits /\ CommitsMatch

\* The sequence numbers that Open meets, those of uncommitted records too.
SeenCommitted ==
    {Checkpoint} \cup {e.sequence : e \in Entries(fusionWAL)}
SeenLogged ==
    {0} \cup {e.sequence : e \in Entries(fusionWAL)}
        \cup UNION {{e.sequence : e \in Entries(wal[s])} : s \in Shard}
Seen == SeenCommitted \cup UNION {{e.sequence : e \in Entries(wal[s])} : s \in Shard}

Largest(n, S) == n \in S /\ \A m \in S : m <= n
=============================================================================
