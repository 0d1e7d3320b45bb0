------------------------------- MODULE Database -------------------------------
(***************************************************************************)
(* The sharded store of src/db/database.go with its files: one write-ahead *)
(* log per shard, one for the fused backup, the snapshot files and the     *)
(* checkpoint that names the current ones (src/storage).                   *)
(*                                                                         *)
(* Every method holds the one mutex, so methods do not interleave with     *)
(* each other; they are cut into steps where a process can die or a system *)
(* call can fail.  What a step does to memory alone is one step with its   *)
(* neighbour.  A file holds what was written to it: the process is lost in *)
(* a crash, the operating system is not.                                   *)
(***************************************************************************)
EXTENDS DatabaseFiles, FusedKVOps

CONSTANTS
    Faults,       \* the failures of system calls that may happen, see FaultKind
    SnapshotAt,   \* bound: values of committed at which Snapshot is called
    MaxRestarts,  \* bound: how often the process ends
    MaxFaults     \* bound: how many system calls fail

\* "clean": an append fails and writes nothing; "short": it fails after a part
\* of the record; "sync": the record is written and then Sync fails; "torn": the
\* process dies when a part of the record is written; "snapshot": writing a
\* snapshot or checkpoint file fails; "rename": renaming the checkpoint fails.
FaultKind == {"clean", "short", "sync", "torn", "snapshot", "rename"}

ASSUME DatabaseAssumption ==
    /\ Faults \subseteq FaultKind
    /\ SnapshotAt \subseteq 0 .. MaxSequence
    /\ MaxRestarts \in Nat /\ MaxFaults \in Nat

VARIABLES
    temporary,    \* snapshot.current.tmp
    status,       \* the process: "down", "up", or "refused" by Open
    data,         \* data[s]: the map of shard s
    failed,       \* the shards whose memory is lost
    fusion,       \* the fused backup of the shards
    next,         \* the next sequence number
    committed,    \* the last applied sequence number
    checkpoint,   \* the sequence of the snapshot, when hasSnapshot
    hasSnapshot,
    pc,           \* what the running method does next, "idle" without one
    pending,      \* the record of the running Put or Delete
    cursor,       \* the shard whose snapshot is written next
    acked,        \* history: what the client was last told about each key
    maybe,        \* history: what unanswered writes may have left there
    restarts,     \* history: how often the process ended
    faults        \* history: how many system calls failed

disk == <<wal, fusionWAL, snapshots, current, temporary>>
memory == <<data, failed, fusion, committed>>
marks == <<checkpoint, hasSnapshot>>
running == <<pc, pending, cursor>>
history == <<acked, maybe>>
bounds == <<restarts, faults>>
vars == <<disk, status, memory, next, marks, running, history, bounds>>

-----------------------------------------------------------------------------
\* The records of a map, as the fused backup knows them.
RecordsOf(map) == {[key |-> k, value |-> map[k]] : k \in {j \in Keys : map[j] # Absent}}

\* bucketIndex: the rank of key among the shard's keys of its bucket.
BucketIndex(map, key) ==
    Cardinality({k \in Keys : /\ map[k] # Absent
                              /\ BucketOf(k) = BucketOf(key)
                              /\ k < key})

-----------------------------------------------------------------------------
Init ==
    /\ wal = [s \in Shard |-> <<>>]
    /\ fusionWAL = <<>>
    /\ snapshots = [q \in 0 .. MaxSequence |-> [s \in Shard |-> NoSnapshot]]
    /\ current = NoFile
    /\ temporary = NoFile
    /\ status = "down"
    /\ data = [s \in Shard |-> EmptyMap]
    /\ failed = {}
    /\ fusion = EmptyTable
    /\ next = 1
    /\ committed = 0
    /\ checkpoint = 0
    /\ hasSnapshot = FALSE
    /\ pc = "idle"
    /\ pending = NoEntry
    /\ cursor = 0
    /\ acked = EmptyMap
    /\ maybe = [k \in Keys |-> {}]
    /\ restarts = 0
    /\ faults = 0

Idle == status = "up" /\ pc = "idle"

\* A running method has returned.
Finish ==
    /\ pc' = "idle"
    /\ pending' = NoEntry
    /\ cursor' = 0

\* The client learns that k now has value v.
Acknowledge(k, v) ==
    /\ acked' = [acked EXCEPT ![k] = v]
    /\ maybe' = [maybe EXCEPT ![k] = {}]

\* The client of the pending record, if any, gets no answer or an error.
LeaveOpen ==
    /\ maybe' = IF pending = NoEntry
                THEN maybe
                ELSE [maybe EXCEPT ![pending.key] = @ \cup {pending.value}]
    /\ UNCHANGED acked

Fail(kind) ==
    /\ kind \in Faults
    /\ faults < MaxFaults
    /\ faults' = faults + 1
    /\ UNCHANGED restarts

-----------------------------------------------------------------------------
(* Methods that only read                                                  *)

Get(k) == data[Route(k)][k]

Scan == UNION {RecordsOf(data[s]) : s \in Shard}

Shards == [s \in Shard |->
    [failed |-> s \in failed,
     records |-> IF s \in failed THEN {} ELSE RecordsOf(data[s])]]

\* A percentage is left out: it follows from the bytes.
StorageMetrics ==
    LET records == SourceRecordCount(fusion)
    IN  [sourceRecords |-> records, fusionNodes |-> NodeCount(fusion),
         sourceStorageBytes |-> records * 16, replicationBackupBytes |-> records * 16,
         fusionBackupBytes |-> LogicalBytes(fusion)]

-----------------------------------------------------------------------------
(* Put and Delete                                                          *)

Begin(op, k, v) ==
    /\ Idle
    /\ Route(k) \notin failed
    /\ next <= MaxSequence
    /\ pending' = [op |-> op, sequence |-> next, shard |-> Route(k),
                   key |-> k, value |-> v]
    /\ next' = next + 1
    /\ pc' = "source"
    /\ UNCHANGED <<disk, status, memory, marks, cursor, history, bounds>>

BeginPut(k, v) == Begin("put", k, v)

BeginDelete(k) ==
    /\ data[Route(k)][k] # Absent
    /\ Begin("delete", k, Absent)

DeleteAbsent(k) ==
    /\ Idle
    /\ Route(k) \notin failed
    /\ data[Route(k)][k] = Absent
    /\ Acknowledge(k, Absent)
    /\ UNCHANGED <<disk, status, memory, next, marks, running, bounds>>

AppendSource ==
    /\ pc = "source"
    /\ wal' = [wal EXCEPT ![pending.shard] = Append(@, pending)]
    /\ pc' = "fusion"
    /\ UNCHANGED <<fusionWAL, snapshots, current, temporary, status, memory, next,
                   marks, pending, cursor, history, bounds>>

AppendFusion ==
    /\ pc = "fusion"
    /\ fusionWAL' = Append(fusionWAL, pending)
    /\ pc' = "apply"
    /\ UNCHANGED <<wal, snapshots, current, temporary, status, memory, next,
                   marks, pending, cursor, history, bounds>>

\* What a failing append leaves in its log.
Partly(log, kind) ==
    IF kind = "clean"
    THEN log
    ELSE Append(log, IF kind = "short" THEN TornEntry ELSE pending)

\* The append returns an error, and so does the method; the process goes on.
AppendFails(kind) ==
    /\ \/ /\ pc = "source"
          /\ wal' = [wal EXCEPT ![pending.shard] = Partly(@, kind)]
          /\ UNCHANGED fusionWAL
       \/ /\ pc = "fusion"
          /\ fusionWAL' = Partly(fusionWAL, kind)
          /\ UNCHANGED wal
    /\ Fail(kind)
    /\ LeaveOpen
    /\ Finish
    /\ UNCHANGED <<snapshots, current, temporary, status, memory, next, marks>>

\* The backup after the pending record: oldValue and index are read before
\* the appends, and nothing changes them until now.
FusionAfter ==
    LET s == pending.shard
        k == pending.key
        old == data[s][k]
        index == BucketIndex(data[s], k)
    IN  CASE pending.op = "delete" -> Delete(fusion, s, index, k, old)
          [] pending.op = "put" /\ old # Absent ->
                Replace(fusion, s, index, k, old, pending.value)
          [] pending.op = "put" /\ old = Absent ->
                Insert(fusion, s, index, k, pending.value)

Apply ==
    /\ pc = "apply"
    /\ fusion' = FusionAfter
    /\ data' = [data EXCEPT ![pending.shard][pending.key] = pending.value]
    /\ committed' = pending.sequence
    /\ Acknowledge(pending.key, pending.value)
    /\ Finish
    /\ UNCHANGED <<disk, status, failed, next, marks, bounds>>

-----------------------------------------------------------------------------
(* Snapshot                                                                *)

HealthyIgnored == TRUE
Healthy == failed = {}

\* Memory is ahead of the last snapshot; otherwise Snapshot returns at once.
AheadAlways == TRUE
AheadOnce == ~hasSnapshot
Ahead == ~(hasSnapshot /\ checkpoint = committed)

BeginSnapshot ==
    /\ Idle
    /\ Healthy
    /\ Ahead
    /\ committed \in SnapshotAt
    /\ pc' = "remove"
    /\ cursor' = 0
    /\ UNCHANGED <<disk, status, memory, next, marks, pending, history, bounds>>

RemoveSnapshot ==
    /\ pc = "remove"
    /\ snapshots' = [snapshots EXCEPT ![committed][cursor] = NoSnapshot]
    /\ pc' = "write"
    /\ UNCHANGED <<wal, fusionWAL, current, temporary, status, memory, next, marks,
                   pending, cursor, history, bounds>>

NextShardStuck == cursor
NextShard == cursor + 1

MoreShardsOffByOne == cursor \in Shard
MoreShards == NextShard \in Shard

WriteSnapshot ==
    /\ pc = "write"
    /\ snapshots[committed][cursor] = NoSnapshot
    /\ snapshots' = [snapshots EXCEPT ![committed][cursor] = Whole(committed, data[cursor])]
    /\ IF MoreShards
       THEN pc' = "remove" /\ cursor' = NextShard
       ELSE pc' = "checkpoint" /\ cursor' = 0
    /\ UNCHANGED <<wal, fusionWAL, current, temporary, status, memory, next, marks,
                   pending, history, bounds>>

WriteTemporary ==
    /\ pc = "checkpoint"
    /\ temporary' = committed
    /\ pc' = "rename"
    /\ UNCHANGED <<wal, fusionWAL, snapshots, current, status, memory, next, marks,
                   pending, cursor, history, bounds>>

\* Rename, and Snapshot returns.  After a failed attempt the old checkpoint is
\* removed and the rename tried once more.
Rename ==
    /\ pc \in {"rename", "again"}
    /\ current' = temporary
    /\ temporary' = NoFile
    /\ checkpoint' = committed
    /\ hasSnapshot' = TRUE
    /\ Finish
    /\ UNCHANGED <<wal, fusionWAL, snapshots, status, memory, next, history, bounds>>

RenameFails ==
    /\ pc \in {"rename", "again"}
    /\ Fail("rename")
    /\ IF pc = "rename"
       THEN pc' = "unlink" /\ UNCHANGED <<pending, cursor>>
       ELSE Finish
    /\ UNCHANGED <<disk, status, memory, next, marks, history>>

RemoveCheckpoint ==
    /\ pc = "unlink"
    /\ current' = NoFile
    /\ pc' = "again"
    /\ UNCHANGED <<wal, fusionWAL, snapshots, temporary, status, memory, next, marks,
                   pending, cursor, history, bounds>>

\* writeFile stops early: the snapshot file, or the temporary file, is left in
\* part, or whole but not synced.
WritesPartly ==
    \/ /\ pc = "write"
       /\ \E file \in {TornSnapshot, Whole(committed, data[cursor])} :
             snapshots' = [snapshots EXCEPT ![committed][cursor] = file]
       /\ UNCHANGED <<wal, fusionWAL, current, temporary>>
    \/ /\ pc = "checkpoint"
       /\ temporary' \in {Torn, committed}
       /\ UNCHANGED <<wal, fusionWAL, snapshots, current>>

\* Removing, opening, writing or syncing a file fails and Snapshot gives up.
SnapshotFails ==
    /\ \/ WritesPartly
       \/ pc \in {"remove", "write", "checkpoint", "unlink"} /\ UNCHANGED disk
    /\ Fail("snapshot")
    /\ Finish
    /\ UNCHANGED <<status, memory, next, marks, history>>

-----------------------------------------------------------------------------
(* Loss and recovery of one shard's memory                                 *)

CrashShard(s) ==
    /\ Idle
    /\ failed = {}
    /\ data' = [data EXCEPT ![s] = EmptyMap]
    /\ failed' = {s}
    /\ UNCHANGED <<disk, status, fusion, committed, next, marks, running, history, bounds>>

Survivors(missing) == [s \in Shard \ {missing} |-> RecordsOf(data[s])]

MapOf(records) ==
    [k \in Keys |-> IF \E r \in records : r.key = k
                    THEN (CHOOSE r \in records : r.key = k).value
                    ELSE Absent]

RecoverShard(s) ==
    /\ Idle
    /\ s \in failed
    /\ SurvivorsMatch(fusion, s, Survivors(s))
    /\ \A r \in Recover(fusion, s, Survivors(s)) : Route(r.key) = s
    /\ data' = [data EXCEPT ![s] = MapOf(Recover(fusion, s, Survivors(s)))]
    /\ failed' = failed \ {s}
    /\ UNCHANGED <<disk, status, fusion, committed, next, marks, running, history, bounds>>

-----------------------------------------------------------------------------
(* The end of a process, and the start of the next one                     *)

\* The process is gone; its variables mean nothing until Open sets them.
End ==
    /\ restarts < MaxRestarts
    /\ status' = "down"
    /\ data' = [s \in Shard |-> EmptyMap]
    /\ failed' = {}
    /\ fusion' = EmptyTable
    /\ committed' = 0
    /\ next' = 1
    /\ checkpoint' = 0
    /\ hasSnapshot' = FALSE
    /\ Finish
    /\ restarts' = restarts + 1

\* Close, or a kill between two calls.
Close ==
    /\ Idle
    /\ End
    /\ UNCHANGED <<disk, history, faults>>

\* A kill in the middle of a method.
Crash ==
    /\ pc # "idle"
    /\ End
    /\ LeaveOpen
    /\ UNCHANGED <<disk, faults>>

CrashInSnapshot ==
    /\ WritesPartly
    /\ End
    /\ UNCHANGED <<history, faults>>

CrashInAppend ==
    /\ "torn" \in Faults
    /\ faults < MaxFaults
    /\ faults' = faults + 1
    /\ \/ /\ pc = "source"
          /\ wal' = [wal EXCEPT ![pending.shard] = Append(@, TornEntry)]
          /\ UNCHANGED fusionWAL
       \/ /\ pc = "fusion"
          /\ fusionWAL' = Append(fusionWAL, TornEntry)
          /\ UNCHANGED wal
    /\ End
    /\ LeaveOpen
    /\ UNCHANGED <<snapshots, current, temporary>>

\* Open replays the logs over the snapshot and rebuilds the backup; the client
\* reads its keys again.
Open ==
    /\ status = "down"
    /\ Openable
    /\ status' = "up"
    /\ data' = [s \in Shard |-> Replay(s)]
    /\ fusion' = Rebuild([s \in Shard |-> RecordsOf(Replay(s))])
    /\ \E n \in 0 .. MaxSequence : Largest(n, Seen) /\ next' = n + 1
    /\ committed' \in 0 .. MaxSequence
    /\ Largest(committed', Replayed)
    /\ checkpoint' = Checkpoint
    /\ hasSnapshot' = (current # NoFile)
    /\ acked' = Recovered
    /\ maybe' = [k \in Keys |-> {}]
    /\ UNCHANGED <<disk, failed, running, bounds>>

\* Open returns an error, and would for ever: it repairs nothing.
OpenRefused ==
    /\ status = "down"
    /\ ~Openable
    /\ status' = "refused"
    /\ UNCHANGED <<disk, memory, next, marks, running, history, bounds>>

Step ==
    \/ AppendSource
    \/ AppendFusion
    \/ Apply
    \/ RemoveSnapshot
    \/ WriteSnapshot
    \/ WriteTemporary
    \/ Rename
    \/ RemoveCheckpoint

Request ==
    \/ \E k \in Keys, v \in Values : BeginPut(k, v)
    \/ \E k \in Keys : BeginDelete(k)
    \/ \E k \in Keys : DeleteAbsent(k)
    \/ BeginSnapshot
    \/ \E s \in Shard : CrashShard(s)
    \/ \E s \in Shard : RecoverShard(s)
    \/ Close

Failure ==
    \/ \E kind \in {"clean", "short", "sync"} : AppendFails(kind)
    \/ RenameFails
    \/ SnapshotFails
    \/ Crash
    \/ CrashInSnapshot
    \/ CrashInAppend

Next == Step \/ Request \/ Failure \/ Open \/ OpenRefused

Spec == Init /\ [][Next]_vars

\* A running method keeps running, and somebody opens the database again.
FairSpec == Spec /\ WF_vars(Step) /\ WF_vars(Open)
-----------------------------------------------------------------------------
(* Properties                                                              *)

\* What the files, the memory and the history are made of.
LogTypeOK ==
    /\ \A s \in Shard : wal[s] \in Seq(Entry \cup {TornEntry})
    /\ fusionWAL \in Seq(Entry \cup {TornEntry})
FileTypeOK ==
    /\ snapshots \in [0 .. MaxSequence -> [Shard ->
                    [state : {"none", "torn", "whole"},
                     sequence : 0 .. MaxSequence, records : Map]]]
    /\ current \in 0 .. MaxSequence \cup {NoFile}
    /\ temporary \in 0 .. MaxSequence \cup {NoFile, Torn}
MemoryTypeOK ==
    /\ status \in {"down", "up", "refused"}
    /\ data \in [Shard -> Map]
    /\ failed \subseteq Shard
    /\ next \in 1 .. MaxSequence + 1
    /\ committed \in 0 .. MaxSequence
    /\ checkpoint \in 0 .. MaxSequence
    /\ hasSnapshot \in BOOLEAN
MethodTypeOK ==
    /\ pc \in {"idle", "source", "fusion", "apply", "remove", "write",
              "checkpoint", "rename", "unlink", "again"}
    /\ pending \in Entry \cup {NoEntry}
    /\ cursor \in Shard
HistoryTypeOK ==
    /\ acked \in Map
    /\ maybe \in [Keys -> SUBSET Contents]
    /\ restarts \in 0 .. MaxRestarts
    /\ faults \in 0 .. MaxFaults
TypeOK ==
    LogTypeOK /\ FileTypeOK /\ MemoryTypeOK /\ MethodTypeOK /\ HistoryTypeOK

\* The values a client must be ready to find for k after a restart: the one it
\* was last told, and those of its writes since then that got no answer.
Possible(k) ==
    {acked[k]} \cup maybe[k] \cup (IF pending.key = k /\ pending # NoEntry
                                  THEN {pending.value} ELSE {})

\* Whenever the process ends, the files hold every acknowledged Put and Delete,
\* and of an unanswered one all or nothing (commitWAL, Snapshot, Open).
AckedSurvives == Openable => \A k \in Keys : Recovered[k] \in Possible(k)

\* What AckedSurvives says of Puts only, which Sync errors in WAL.Append cannot
\* hurt: a key whose last acknowledged write is a Put has that value after a
\* restart, or that of an unanswered write since.
PutSurvives ==
    Openable => \A k \in Keys : acked[k] # Absent => Recovered[k] \in Possible(k)

\* What AckedSurvives says of Deletes only: a key whose last acknowledged write
\* is a Delete is absent after a restart, or has the value of a Put since then
\* that was not answered.  TestWALRestartRecovery expects this of Delete.
DeletedStaysDeleted ==
    Openable => \A k \in Keys : acked[k] = Absent => Recovered[k] \in Possible(k)

\* Get, Scan and Shards return what the client was last told, after failed writes,
\* lost and recovered shards and restarts too.
ReadsSeeAcked ==
    status = "up" =>
        /\ \A k \in Keys : Route(k) \notin failed => Get(k) = acked[k]
        /\ failed = {} => Scan = RecordsOf(acked)
        /\ \A s \in Shard : ~Shards[s].failed =>
              Shards[s].records = {r \in RecordsOf(acked) : Route(r.key) = s}

\* StorageMetrics counts the records the client was told of, those of a lost
\* shard too, and a backup that has no more nodes than records and no fewer than
\* any shard has records: it never keeps a node for nothing, over deletes,
\* merges and restarts.
MetricsCountAcked ==
    status = "up" =>
        LET records == RecordsOf(acked)
            metrics == StorageMetrics
        IN  /\ metrics.sourceRecords = Cardinality(records)
            /\ metrics.fusionNodes <= Cardinality(records)
            /\ \A s \in Shard :
                  Cardinality({r \in records : Route(r.key) = s}) <= metrics.fusionNodes

\* The database can be opened again, wherever a process ended.
NeverRefused == status = "down" => Openable

\* Every shard can be rebuilt from the backup and the other shards when no
\* other shard is lost; the lost one is rebuilt as the client last knew it,
\* with writes to the others since.  So RecoverShard cannot return an error.
FusionRecovers ==
    status = "up" =>
        \A s \in Shard :
            failed \subseteq {s} =>
                /\ SurvivorsMatch(fusion, s, Survivors(s))
                /\ Recover(fusion, s, Survivors(s)) =
                     {r \in RecordsOf(acked) : Route(r.key) = s}

\* The backup accepts the position of a record that both logs hold already, so
\* Put and Delete cannot return an error for a write that a restart would find.
FusionAccepts ==
    pc = "apply" =>
        LET s == pending.shard
            k == pending.key
        IN  ValidPosition(fusion, s, BucketOf(k), BucketIndex(data[s], k),
                          data[s][k] = Absent)

\* The checkpoint names complete snapshots, and they hold what replaying the
\* logs up to it without any snapshot would give: losing the checkpoint, as
\* the second attempt to rename it may, loses no data.
SnapshotMatchesLog ==
    current # NoFile =>
        /\ SnapshotsLoad
        /\ \A s \in Shard :
              snapshots[current][s].records =
                  ApplyTo(EmptyMap, wal[s],
                          {e \in CommittedIn(wal[s]) : e.sequence \in 1 .. current})

\* Open's conditions on the shards' logs, except that they are whole: every
\* record is in the log of its shard, and no sequence number is used twice,
\* although commitWAL leaves records behind that only one log has.
LoggedOnce ==
    /\ \A s \in Shard : \A e \in Entries(wal[s]) \ {TornEntry} :
          e.shard = s /\ Route(e.key) = s
    /\ \A s, t \in Shard : \A i \in DOMAIN wal[s], j \in DOMAIN wal[t] :
          /\ wal[s][i] # TornEntry
          /\ wal[s][i].sequence = wal[t][j].sequence
          => s = t /\ i = j
\* And on the log of the backup: it repeats records that the shards logged
\* before, each once.
CommitsLogged ==
    /\ \A c \in Entries(fusionWAL) \ {TornEntry} : c \in Entries(wal[c.shard])
    /\ \A i, j \in DOMAIN fusionWAL :
          /\ fusionWAL[i] # TornEntry
          /\ fusionWAL[i].sequence = fusionWAL[j].sequence
          => i = j
\* The logs agree: commitWAL keeps source and fusion logs consistent whatever
\* fails between its two appends.
LogsAgree == LoggedOnce /\ CommitsLogged

LogsWhole ==
    /\ \A s \in Shard : TornEntry \notin Entries(wal[s])
    /\ TornEntry \notin Entries(fusionWAL)

\* Open refuses no files but those with a torn record in a log: a crash in
\* Snapshot, a record that only one log has, a failed sync or rename never
\* costs the whole database.
RefusedOnlyIfTorn == LogsWhole => Openable

\* A checkpoint is replaced by a later one only: committed, from which Snapshot
\* takes it, never falls behind the checkpoint on disk over restarts and lost
\* checkpoints.
CheckpointAdvances ==
    [][current' \notin {current, NoFile} =>
            current = NoFile \/ current' > current]_vars

\* A running Put, Delete or Snapshot returns: Snapshot's loop over the shards
\* and WriteCheckpoint's second attempt come to an end.
MethodsEnd == pc # "idle" ~> pc = "idle"

\* A database that is down comes up: wherever the process ended, the files it
\* left are accepted by Open.
Reopens == status = "down" ~> status = "up"

\* The abstract store, found on disk and in the running method.
Store == INSTANCE KVStore WITH
    store <- Recovered,
    call <- IF pending = NoEntry
            THEN [active |-> FALSE, done |-> FALSE, key |-> Absent, value |-> Absent]
            ELSE [active |-> TRUE, done |-> pc = "apply",
                  key |-> pending.key, value |-> pending.value]

\* Through snapshots, crashes and restarts, the database is a durable map: each
\* step of Put, Delete, Snapshot and Open is a step of KVStore or invisible to it,
\* and the append to the fusion log is the moment a write takes effect.
Implements == Store!Spec
=============================================================================
