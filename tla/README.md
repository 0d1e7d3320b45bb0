# A verification of VadaDB

VadaDB (Go) is a small sharded key/value store that protects N shards with *one*
fused backup instead of N replicas: a node of the backup holds the XOR of one
element of several shards, and a lost shard is rebuilt from the backup and the
shards that are left. Shards are made durable by write-ahead logs and snapshots.
This directory holds TLA+ modules translated from the source under `src/`,
the TLC configurations that check them, and proofs checked by TLAPS.

## 1. The system

| Component | Source | State | Operations | Model |
|---|---|---|---|---|
| Database | `db/database.go` | shard maps, `failed`, `next`, `committed`, `checkpoint`, `hasSnapshot`, the backup | New, Open, Put, Get, Delete, Scan, Shards, StorageMetrics, Snapshot, CrashShard, RecoverShard, Close | `Database`, `DatabaseFiles`, `DatabaseCheckpoints`, `UnloggedDatabase`, `KVStore` |
| Write-ahead log | `storage/wal.go` | one append-only file per shard, one for the backup | OpenWAL, Append, Replay, Close | in `DatabaseFiles`, `Database` |
| Snapshot files | `storage/snapshot.go` | a file per sequence and shard, `snapshot.current`, its `.tmp` | WriteSnapshot, LoadSnapshot, WriteCheckpoint, LoadCheckpoint | in `DatabaseFiles`, `Database` |
| Command line | `cmd/vadadb/main.go` | none of its own; several processes share a directory | open, execute one or many commands, close | `Sessions` (not parsing and printing) |
| Fused key/value table | `structures/kvhashtable.go` | buckets of bit-field nodes, sizes per source | Insert, Replace, Delete, Recover, counts | `FusedKVOps`, `FusedKVHashTable` |
| Fused linked list, set, priority queue | `structures/linkedlist.go` | list of bit-field nodes, the sources | Insert, Delete, Add, Remove, Push, PopMin, Recover | `FusedNodes`, `FusedListOps`, `FusedLinkedList` |
| Fused hash table of packed entries | `structures/hashtable.go` | maps and one fused list per bucket | Put, Delete, Recover | `FusedHashTable` |
| Fused list queue | `structures/listqueue.go` | a list of reference-counted nodes, heads, tails | Enqueue, Dequeue, Recover | `FusedPathOps`, `FusedListQueue` |
| Fused deque | `structures/dequeue.go` | the same | PushBack, PushFront, PopFront, PopBack, Recover | `FusedPathOps`, `FusedDeque` |
| Fused array stack, list stack | `structures/stack.go`, `liststack.go` | array or list of XORs, tops | Push, Pop, Recover | `FusedStack`, `FusedListStack` |
| Fused circular queue | `structures/queue.go` | rings, heads, tails, counts | Enqueue, Dequeue, Recover | `FusedQueue`, `SourceQueues` |
| Fused array | `structures/array.go` | arrays, XOR, parity of lengths | Set, Recover | `FusedArray` |
| XOR operators | `core/xor.go` | none | XOR, Replace, Recover, XORSlices | `MachineWords`, `FusedWords` |
| Simulation | `sim/`, `cmd/sim` | one structure at a time | random runs that count nodes | `Simulation` |

**How they interact.** The command line opens a directory and calls the database.
A Put or Delete computes the rank of its key among the shard's keys of the same
bucket (`bucketIndex`), appends its record to the log of the shard and then to the log of the
backup (`commitWAL`), changes the backup at that rank, and then the shard's map.
A record counts as committed when it is in the log of the *backup*. Snapshot
writes the maps into one file per shard and then renames a checkpoint that names
their sequence. Open loads the checkpoint's snapshots, replays the committed
records after it, and rebuilds the backup from the maps. CrashShard drops a
shard's memory; RecoverShard rebuilds it from the backup and the other shards.
The structures other than the key/value table are used by the simulation and
their tests only.

**What is hard.** Methods hold one `RWMutex`, so methods do not interleave.
The hard part is what happens when they do not finish: a crash or an error between
two appends, inside an append, between the files of a snapshot, between the two attempts at
renaming a checkpoint; and what remains true over long histories: the sequence
numbers after orphaned records, the order of nodes against the rank of keys,
writes around a failed shard, the backup after a restart. Processes do interleave: nothing
keeps two command lines from one directory. In the structures the hard part is the
shape that many calls leave: nodes shared and merged by sources whose elements are
at different indices, rings that wrap at different times, arrays that are trimmed,
values that are zero or cancel each other. `PROJECT.json` lists
these hazards with their lines and the properties that watch them.

**What makes it correct.** Database: an acknowledged write survives; an unanswered
one is there or not, as a whole; the files can always be opened again; reads
agree with what was acknowledged; a single failed shard can always be recovered.
Structures: any one source is recovered exactly from the others; nodes are shared as far as the code
means to, and none is left over; counts and pointers agree; each source sees the
plain queue, stack, set or map it asked for. Sessions: as long as writers take turns,
no process harms the files of another.

## 2. Modules

* `MachineWords`: sources, words, XOR with the laws of a group in which every word
  is its own inverse (checked for bitwise XOR by the runs). `FusedWords` has on top of it the
  XOR of sets and slices (XORSlices). `DatabaseFiles` needs words and no XOR of sets; it extends the
  first only, so that `Sessions` and `DatabaseCheckpoints` can instantiate it with parameters that
  change from state to state and still be reasoned about.
* `FusedNodes`: the list of nodes with one bit per source that `linkedlist.go` and
  `kvhashtable.go` each have a copy of: where an element finds or makes its node,
  and how far nodes merge. A structure passes what a node holds.
* `FusedKVOps`: the key/value table as a data type. A bucket is a sequence of
  nodes `[key, value, bits]`; the doubly linked list of the code is that sequence,
  its bit field the set of sources whose bit is set. One operator per method.
  `Rebuild` is what `rebuildFusion` leaves behind, in closed form; `InsertAll` in `FusedKVHashTable`
  is its loop, a fold over the records in the order in which the loop meets them, and property
  RebuildRecovers says that the two are equal.
* `FusedKVHashTable`: the table alone, under every sequence of legal calls.
* `FusedSources`: the values and the bound on elements that lists, queues and stacks share.
* `FusedListOps`: the linked list as a data type, `[nodes, sources]`. `FusedLinkedList`
  has it with three next-state relations, for the list, the set and the priority
  queue; `FusedHashTable` has one list in each bucket.
* `FusedPathOps`: the list of counted nodes, pointers as positions. `FusedListQueue` and
  `FusedDeque` run it; the deque extends the queue with the other two operations.
* `FusedStack` keeps the array of XORs, `FusedListStack` a list with a tail per
  source; the second implements the first (`ImplementsArrayStack`, nodes for the array, tails for
  the tops). `FusedQueue` has the rings; it implements `SourceQueues`, one
  bounded first-in first-out sequence per source. `FusedArray` starts with slices of any
  lengths and replaces elements.
* `Simulation` composes the five structures that `sim.Run` puts under random calls and counts
  their nodes beside those of replicas. `FusedArrays` puts ring, stack and array side by side,
  `FusedTables` the two hash tables. In these three a structure is chosen in the initial
  state and runs alone, as each does in the code: the structures share no state, so a product
  of their states would show nothing more.
* `DatabaseFiles`: the files and what Open makes of them, as definitions over four
  variables. `Database` applies them to its files, `Sessions` to what a session has read
  so far, `DatabaseCheckpoints` to the files with another checkpoint.
* `Database`: the files, the process's memory and the running method (`pc`,
  `pending`, `cursor`), with the backup of `FusedKVOps` inside. A method is cut
  where a crash or a failing call can be seen on disk. Between those points the code changes
  memory only, and the model does it in the same step: Put is `BeginPut`,
  `AppendSource`, `AppendFusion`, `Apply`; Snapshot is `BeginSnapshot`, then
  `RemoveSnapshot` and `WriteSnapshot` for each shard, `WriteTemporary`, `Rename`
  (with `RenameFails`, `RemoveCheckpoint`, `Rename` as the second attempt). `Open`
  is one step: it changes no file, so a crash inside it is no different from one
  before it. It is enabled when every check of the code passes (`Openable`); otherwise
  `OpenRefused`.
* `KVStore`: what the database promises its client, without logs, snapshots, shards
  or backup. `Database` implements it under a refinement mapping: the store is
  what a restart would find on disk (`Recovered`), a call is done when its record
  is in the backup's log.
* `UnloggedDatabase`: `Database` without logs, as New makes it and as Close leaves
  it: `commitWAL` returns nil (`SkipLogs`), everything else is the code of a database with logs,
  and a closed one can still take a snapshot. The process may end between any two steps and while a snapshot file
  is written; torn log records and failing calls are left to `Database`.
* `Sessions`: processes of the command line on one directory. A session reads the
  checkpoint, each snapshot, each log and the fusion log in steps of their own (`Start`,
  `ReadSnapshot`, `ReadLog`, `ReadFusion`), then runs commands that append, replace and
  rename files in steps, and may be killed between any two. The steps of
  other sessions come in between. `overlapped` remembers that others changed a file
  since a session started; `clashed` that a session began to write although it was
  overlapped or another one was in the middle of a write. Nothing is claimed after a
  clash, when sequence numbers are given twice, and the model stops there.
* `MC...`: instances with three-bit words (four for the packed table). Each gives the
  parameters their values and nothing else.
* Theorems and proofs: `FusedListProofs` (lemmas on XOR, sequences, layouts of nodes and the two kinds of fused list)
  and `FusedKVProofs` (the key/value table as a data type) are used by `FusedTablesProofs`, `FusedDequeProofs`,
  `FusedStructuresProofs` (the simulation), `FusedArraysProofs`, `DatabaseProofs` (also `KVStore`,
  `DatabaseCheckpoints` and `UnloggedDatabase`) and `SessionsProofs`.

History variables of `Database`: `acked` is what the client was last told of each
key, `maybe` the values of its unanswered writes since then, `restarts` and `faults` count
towards bounds. After a restart the client reads the store again, so `acked` starts
over from what Open found. `UnloggedDatabase` adds `promised`, which only what is safe changes: while
logs are open it follows `acked` and `maybe`, a Snapshot that returns after Close sets it to `acked`,
and New, writes without logs and the end of such a process leave it alone. So what a
database with logs told is still known when one without them has come and gone, before Open reads
the files.

Some definitions have a defective variant in front of them (`Seen` has `SeenCommitted`,
`Merge` has `MergeKeepsValue`): with the definition replaced by the variant a property
fails, which shows what the property guards against. Every property of a passing run has such a pair, listed
in `PROJECT.json` under "mutants"; nothing else uses the variants.

## 3. Runs

| Run | Asks | Bounds |
|---|---|---|
| `fused_tables` | does the key/value table recover every source, stay compact, and equal its rebuilt form in what it recovers (`EveryTableRecovers`, `Compact`, `RebuildRecovers`); does the packed table delete the right word and recover every map (`BucketsHoldMaps`, `EveryTableRecovers`) | 3 sources, 2 buckets; 4 keys, 5 records; 3 keys, 6 entries |
| `fused_deque` | is every deque, and so every queue, recovered in order, do counts and pointers agree (`RecoversEverySource`, `RunsCounted`) | 4 sources, 6 elements, both ends |
| `simulation` | list stacks, list queues, priority queues, sets, linked lists: is no node wasted (`SavesNodes`, `ListEndsAtTop`), is every source recovered (`EveryStructureRecovers`), does a structure keep its promise (`SetsStaySets`, `PopsMinimum`, `ImplementsArrayStack`) | 3 processes, 7 elements, 2 values, every index |
| `fused_arrays` | rings, stacks, slices: do head, tail and count agree (`WindowsAgree`), is the backup the XOR of what is there (`FusionsAreXor`), is every source recovered, slices with their length (`EveryArrayRecovers`), is a ring a queue (`ImplementsQueues`) | 3 sources; 3 slots; 6 elements; lengths 0 to 3; zero among the values |
| `sessions` | do processes that write in turn keep the files and the writes (`TurnsKeepWrites`, `MemoryMatchesFiles`), what does a session see or report that others write under (`OpensWhatIsCommitted`, `RefusedOnlyIfOverlapped`) | 2 processes, 4 sessions, 2 shards, 2 keys, 3 writes, snapshots at 1 and 2 |
| `database_crash` | do acknowledged writes survive crashes and failed calls (`AckedSurvives`), is the database never refused (`NeverRefused`), do snapshots repeat what the logs say (`SnapshotMatchesLog`), is nothing lost with an older checkpoint or none (`EveryCheckpointWorks`) | 2 shards, 2 keys, 3 writes, 2 restarts, snapshots at 1 and 2, one fault of clean, snapshot, rename |
| `database_shards` | do reads see acknowledged writes, can every shard be recovered, does the backup accept every rank, are its counts right (`ReadsSeeAcked`, `FusionRecovers`, `FusionAccepts`, `MetricsCountAcked`) | 3 shards, 4 keys in one bucket, 4 writes, 1 restart |
| `database_faults` | with torn, short or unsynced appends: `LogsAgree`, `RefusedOnlyIfTorn`, `PutSurvives`, `FusionRecovers` | 2 shards, 2 keys, 3 writes, 2 restarts, one fault |
| `database_implements` | does the database implement `KVStore` (`Implements`), do checkpoints advance (`CheckpointAdvances`) | 2 shards, 2 keys, 3 writes, 1 restart, snapshots at 0 and 2, two faults of clean, rename |
| `database_live` | do methods return, does the database come up again (`MethodsEnd`, `Reopens`) | 2 shards, 2 keys, one value, 2 writes, 2 restarts, two faults of clean, snapshot, rename |
| `database_unlogged` | what do writes without logs leave behind (`SnapshotSavesAll`, `OnlySnapshotsSave`), what do they do to writes that were logged before and after them (`LoggedSurvives`) | 2 shards, 2 keys, one value, 3 writes, 2 restarts, snapshots at 1 and 2 |
| `database_sync_error` | do deleted records stay deleted when Sync may fail (`DeletedStaysDeleted`): **violated** | 3 writes, one fault |

**Bounds.** Two shards are enough for everything in which shards only differ from the one
written to; the third in `database_shards` lets the failed shard share nodes with
two survivors. One bucket is the hard case for the backup, since buckets never interact; the
table's own run has two, so that a confusion of buckets would be seen. In
`fused_tables` keys 0, 2 and 4 share a bucket: a source with three elements there
and two others with one each make nodes split, move and merge in all orders. In
`fused_deque` a fourth source passes over nodes that two others empty and a third
merges. Three sequence numbers allow a committed, an orphaned and a further write of
one key; two restarts let a restart follow work done after a restart; snapshots at
two of the sequences let one snapshot replace another. Where the code retries, in
WriteCheckpoint, two faults let the second attempt fail too (`database_implements`,
`database_live`); elsewhere one is enough, since the code reacts to it by an error or not at
all, and further work, crashes and restarts follow.
In `simulation` three sources and seven elements let a node lie between the neighbours of an
insertion and merge across several nodes to both sides; equal values in two stacks cancel to zero
below both tops. In `fused_arrays` zero is a
value like any other, so that a word that is zero, or becomes zero, lies below, at
and above other tops. For rings three slots are the fewest for which a window can
be inside the ring, wrapped, full, and offset by one or two against another one.
In `sessions` the two processes are interchangeable (`SYMMETRY`); four sessions in all
let a third and a fourth find what two overlapping ones left. Three unlogged or logged
writes with snapshots after two of them let a process without logs come between two
with logs.
`CHECK_DEADLOCK FALSE` is used where a torn log ends the system (`Open` refuses it for
ever), in `sessions`, which stops at a clash and when all sessions are used up, and in
`fused_arrays`, where nothing can be set when all slices are empty.

**Fairness.** `FairSpec` assumes that a running method goes on (`WF(Step)`: the
methods are straight code and loops without waiting for anything but the one lock)
and that somebody opens a database that is down (`WF(Open)`: running the command
again). Nothing is assumed of requests, shard crashes or failures; the number of failures
and crashes is bounded.

**What the sessions show.** A writer that opened after the last write of the others is safe
wherever those were killed. A session that opens while another one writes comes up
only with exactly what is committed when it reads the fusion log, which is last: a commit whose record it had
missed in a shard's log makes Open return an error, as does a snapshot
file that has just been removed under it. The error is spurious, trying again helps, and only
a session that somebody wrote under gets it. A session that writes after others did
gives their sequence numbers again; Open then finds duplicates or mismatches, and
the model claims nothing.

**What was found.** `database_sync_error`: `WAL.Append` writes the record and then
syncs. When the last Sync of a Put fails, both logs hold the record, Put returns
the error, and memory does not have the value. A Delete of that key then finds
nothing in memory (`database.go:245`), logs nothing, and answers success; a
restart replays the Put and the deleted record is back. `durability_test.go:33`
states the opposite for a Delete that returned. All other properties of the same
failures hold, Puts included.

Three behaviours were met that are *not* claimed to be wrong: a torn record makes Open
refuse the directory for good, which `wal_test.go` expects of Replay (hence `RefusedOnlyIfTorn`);
and a Dequeue that takes the last element of its source merges nothing (`listqueue.go:91` looks at a
new head only), so two neighbours with one element each may stay apart: recovery is not affected, but the
queue has no property like `Compact`; and when the rename of a *closed* database's second snapshot fails,
WriteCheckpoint's removal of the old checkpoint takes the writes with it that only
the first snapshot held, which is why `UnloggedDatabase` has no failing rename.

## 4. Proofs

The theorems hold for every number of shards (or sources), every finite set of keys and values, all capacities
and bounds, and every XOR with the laws of `XorAssumption`. They rest on the named assumptions about constants (`SourceAssumption`,
`XorAssumption`, `TableAssumption`, `FilesAssumption`, `DatabaseAssumption`, `KeysAssumption`, `QueueAssumption`,
`ValuesAssumption`, `ArraysAssumption`, `TablesAssumption`, `SessionsAssumption`), which TLC evaluates in the runs, and on nothing else.
Every safety property of the passing runs is proved, action properties and refinements too, for a few under a hypothesis on `Faults` that is named below.

### The database (`DatabaseProofs`)

**Logs and files**, for all faults:

* `LogsAlwaysAgree`: `Spec => []LogsAgree`. The logs by themselves are not inductive: why
  is the next sequence number unused? `LogInv` adds what the process knows
  (`Fresh`): all numbers in all logs are below `next` while the process is up; the pending record is
  in no log before its first append, in its shard's log between the two, and not in the backup's log
  before the second. `Open` re-establishes it from `Seen`, which includes orphaned
  records; with committed ones only, the invariant and the property fail.
* `OnlyTornLogsAreRefused`: `Spec => []RefusedOnlyIfTorn`. `FileInv` says that the
  files the checkpoint names are whole and of the right sequence and shard, that the process knows
  which checkpoint that is unless it has been lost (`CheckpointKnown`), and that
  Snapshot never works on the files the checkpoint names, because of its early
  return (`SnapshotUsable`). With `LogInv` and no torn record every check of Open passes.
  `NeverRefusedWithoutTorn`: if `Faults` has neither "torn" nor "short", `Spec => []NeverRefused`.
* `CheckpointsOnlyAdvance`: the action property `CheckpointAdvances`, from `OrderInv`: sequence
  numbers grow along each log, and with them `committed` and the checkpoint.

**Memory and backup**, for all faults (`BaseInv`):

* `ReadsAlwaysSeeAcked`: `MemoryInv` says that a healthy shard's map is what the client was told, that at
  most one shard is lost, and none while a method needs it.
* `FusionAlwaysRecovers`, `FusionAlwaysAccepts`, `MetricsAlwaysCount`: `BackupInv` says that the backup carries,
  bucket by bucket, the acknowledged records of *every* shard, also those of the lost one, and is
  merged as far as possible (`TableInv`, `TableDense` of `FusedKVProofs`). That is why RecoverShard gives the
  client's own values back, and why Put and Delete of other shards may go on
  meanwhile. The number of records is a sum over disjoint finite sets; the bounds on
  nodes are injections between the records of a bucket and the bits of its nodes.
* `DatabaseTyped`: the full `TypeOK`; the map that comes out of Recover is a map of keys and values only
  because it is the lost one.

**Durability** (`DurableInv`):

* `AckedAlwaysSurvives` (if `Faults` does not have "sync"): after a restart each key has what the client was
  last told, or one of its unanswered writes. Replay goes by position, and orphaned records lie between
  the committed ones; the proof sees a log as the set of its committed records, of
  which the one with the largest number decides (`ValueIn`, `Newest`), which `OrderInv` justifies. `WrittenInv`
  follows Snapshot file by file; `BeyondInv` bounds what the logs have and the memory does not; `FoundInv`
  is the promise; `LoggedInv` says that the records up to `committed` alone give what the client was told,
  and those up to the checkpoint what its snapshots hold. With `LoggedInv` a checkpoint
  can be renamed, or lost, without changing what a restart finds.
* `SnapshotsAlwaysMatch` (without "sync"): `SnapshotMatchesLog`, from the same.
* `PutsAlwaysSurvive` (unless `Faults` has both "sync" and "rename"): a Put that was acknowledged is found even though Sync fails.
  With both faults it can fail (TLC shows it with 3 faults and 4 writes): a Delete whose Sync failed is in the logs and not in memory; a Snapshot
  takes memory as it is; a restart from it shows the client the old value; when both renames of the next Snapshot fail,
  the checkpoint is gone, the whole log is replayed, and the Delete takes effect after all.
* `DatabaseImplementsStore` (without "sync"): `Spec => Implements`, the refinement of
  `KVStore`. Step by step: Begin is Invoke; the append to the backup's log is Commit; Apply is Return; an error or
  a crash before that append is Abort; Open is Restart; snapshots, shard crashes and
  recoveries, the first append and everything else that touches only files are stutters,
  because none changes `Recovered`. `StoreIsDurable` proves of the store that it never loses an acknowledged write (`StoreInv`), so the two
  together are the promise of the database, for every number of shards and keys.

**An older checkpoint, or none**: `OldCheckpointsWork` (if `Faults` has none of "torn", "short" and "sync"). The files
are looked at as if `snapshot.current` named another sequence (`With(q)`). `HoldInv`: every whole snapshot file with the
number it is filed under holds what replaying its shard's log up to that number gives, since Snapshot writes
what is in memory and `LoggedInv` says what that is. So an older checkpoint whose files are all there, or the
empty one, followed by the rest of the log, gives the same maps; that it passes every check of Open follows as for the newest.

**Databases without logs** (`UnloggedInv`), whose system calls do not fail:

* `SnapshotsSaveAll`, `LoggedAlwaysSurvives`, `OnlySnapshotsEverSave`. A database of New touches no file; of its memory
  only types are known, of the files what Open needs (`NewInv`). A database with a directory keeps `BaseInv`, open or closed
  (`DirectoryInv`). `FoundByLogs` says when the files have what the client was told: with open logs always, up to the commit
  of the running method; after Close while nothing was written since the snapshot. A closed database numbers its
  writes on although it logs none of them, so its snapshot then has a sequence that no record has. `AllApplied` says that no
  committed record is beyond `committed` but the one that is being applied; so such a snapshot has the effect of all
  committed records, and a restart replays none after it.
* `LoggedAlwaysSurvives` adds `PromiseInv`: with open logs `promised` is what `acked` and `maybe` say, so what is found is in it by
  `FoundByLogs` and `FoundAfter`; without logs what a restart finds of a key is in `promised` as it stands, because only a Snapshot that
  returns changes what is found (`DirectorySteps`, `RenameFinds`), and it changes `promised` with it. Open itself changes no
  file: what it sets `promised` to was in `promised` before. That it accepts the files follows from `InvOpenable`
  in every state where the process is down, whatever kind of database ended.

### Sessions (`SessionsProofs`)

Everything is claimed up to the first clash (`Inv`). The directory: the logs are in order, every number is used
once, and each commit is in its shard's log (`LogsInv`); each file that passes for a snapshot at a known number holds what
the log up to it says, and those the checkpoint names are there (`FilesInv`); what is committed is
`written` (`ContentInv`). A session (`SessionInv`): at most one writes (`OneWriter`), and not on files of the
checkpoint (`MethodInv`); one that others have not written under has in memory what is committed, and numbers that are
not used (`MemoryInv`); what one has read so far is a prefix of each log, and snapshots that loaded hold what `FilesInv`
says for good, even when the files are replaced afterwards (`ReadInv`).

* `SessionsKeepWrites`: the files can be opened at every moment, wherever writers were killed, and hold every committed write.
* `SessionsMatchFiles`: a session that nobody wrote under agrees with the files.
* `OthersRefuseNone`: a session that nobody wrote under has read every file as it is, so Open's checks pass.
* `SessionsOpenCommitted`: a session that comes up has exactly what is committed when it reads the fusion log. Here
  nothing says that nobody wrote: a commit that is in the fusion log and not in the prefix that was read fails a
  check, so all committed records have been read, and the snapshots, however old, agree with the log up to their number.

### XOR, sequences and fused lists (`FusedListProofs`)

XOR over a set of sources is a fold. That it is well defined, splits off any one member, and cancels what
occurs twice is proved from the four laws by taking a smallest counterexample among the finite subsets;
everything that recovers an element is `XorOver` with one member split off. `XORSlices` and
columns of slices of different lengths follow, and what appending to, cutting and deleting from a sequence does by position.

*Lists of nodes with a bit per source.* A layout says which element of which source lies on which node. The layout
lemmas are about bits only (`Placed`): the elements of a source lie on the nodes with its bit, one each and in order, so
the number of elements before one is the number of bits before its node. Adding a node, setting a bit in one that is free,
deleting the last bit and merging neighbours are a renumbering of nodes under which every source keeps its
order. The linked list, whose elements are keyed by their position, and the buckets of the key/value table, keyed by
the key's rank, both use them. `ListInv` says of a linked list that its nodes are the XORs of what is placed there and that no
two neighbours could share a node (`Dense`). Insert keeps that because it adds a node only between two nodes of
the same source, and merging goes as far as it can both ways: what it leaves is dense but for one node before it, and dense after it.

*Lists of counted nodes.* `PathInv`: each node holds the XOR of the elements that lie on it, the run of a source is as
long as the source (`Backs`), and the reference count of a node is the number of runs over it and not zero (`Counted`). An operation at
either end is a new node or a next one that has it joined, or one that is parted and then dropped or merged; of
two neighbours with one element each the code may merge only those of which one is the popped source's and the other is not
(`SingleApart`), since two of one source would be lost.

### The hash tables (`FusedKVProofs`, `FusedTablesProofs`)

* `TableRecovers`: any one source is recovered exactly. A bucket *carries* the records of every
  source in the order of their keys, and each node is the XOR of its records. The rank that the caller passes (`Rank`: how many smaller
  keys) is then the number of nodes before, so the table finds the node although it cannot read keys.
* `TableCompact`: no node is empty and no two neighbours could be merged.
* `RebuildAlwaysRecovers`: the loop of `rebuildFusion` makes the aligned table `Rebuild`, which recovers every source. What the loop has
  made of a set of records is shown for all subsets by taking a smallest one for which it fails: its last pair has the largest key
  in its source and bucket, that source lies on the first `c` nodes of the bucket, and Insert puts the record on node `c + 1`, which
  is where the closed form has it. `Database` uses the closed form in place of the loop.
* `PackedBucketsHoldMaps`: the lists of the packed table hold, in ascending order, the packed words of the entries of the maps
  (`Sorted`). The word of a key that is there is therefore where the search for the key ends, and Put and Delete take out that
  word and no other. Values stay below `ValueSpan` (`TablesAssumption`), so words are ordered as their keys are.
* `BothTablesRecover`: `EveryTableRecovers`, from the two invariants.

### The list queue and the deque (`FusedDequeProofs`)

* `RunsAlwaysCounted`: reference counts are the number of runs over a node, no node is without one.
* `DequesRecover`: any one deque is recovered in its order.
* `QueuesRecover`: both for the list queue, whose specification implies the deque's.

### Rings, stacks and slices (`FusedArraysProofs`)

* `WindowsAlwaysAgree`: with the types of the fields the property is
  inductive; the work is in `%` (`OffsetValue`, `AfterValue`): an offset up to the capacity
  wraps at most once, so advancing the tail, and advancing the head while the count
  shrinks, lead to the same slot.
* `RingsAreQueues`: the refinement `ImplementsQueues`. Different offsets below
  the count are different slots (`SlotsDiffer`), so Enqueue writes no slot of an element
  (`EnqueuePuts`: an Append) and Dequeue clears only the first (`DequeueTakes`: a Tail);
  other sources' rings do not change (`OthersKeep`).
* `RingsRecover`, `ArraysFusionsAreXor`, `ArraysRecover`: the arrays of XORs hold in each place the XOR of what is there and are as
  long as the longest, after trimming; so any one ring, stack or slice is recovered, a slice with its length from the parity of lengths.

### The simulation's structures (`FusedStructuresProofs`)

The list stack by itself:

* `ListAlwaysEndsAtTop`: that the list is as long as the longest stack is
  not inductive in this form, since it is about a maximum; `StackInv` says that no tail
  is above the list and that some tail is at its last node. Pop keeps that: the popped
  tail goes to the node before, so when the last node is removed there is a tail at the new last one.
  `ListStackTyped`: its type invariant, from the same.
* `ListStackRecovers`: any one stack is recovered from the list.
* `ListImplementsArray`: the refinement `ImplementsArrayStack`, nodes for the array, tails for the tops, the removed
  last nodes for the trimming.

All five (`SimulationInv`): the stack's nodes are the XOR of the stacks (`StackXors`), the queue's list keeps `PathInv` and the
others' keep `ListInv`; the sources of a priority queue are in order, those of a set without repetition.

* `SimulationRecoversAll`: `EveryStructureRecovers`.
* `SimulationSavesNodes`: `SavesNodes`. There are no more nodes than elements, since each node has one; no fewer than the
  longest source has elements, since its elements are on different nodes.
* `RecoveredSetsAreSets`: `SetsStaySets`; Add looks for the value before it inserts it.
* `PopsTakeMinimum`: the action property `PopsMinimum`. The binary search of Push in a sequence in order ends where the value
  belongs, so the sequence stays in order and its first element is a minimum.

### Only model-checked

* Liveness under fairness (`MethodsEnd`, `Reopens`): the prover does not do ENABLED.
* `DeletedStaysDeleted` is violated; there is nothing to prove.

## 5. Not modelled

* Loss of files in a power failure: the process is lost, the operating system keeps what was
  written. `EveryCheckpointWorks` covers a rename that is undone; a new log or snapshot file that
  disappears, whose directory entry the code never syncs, is not covered.
* What happens after two sessions have clashed, and what a session reads of a record that
  another one has half appended.
* A second fault in the middle of a torn log; failing calls in `Sessions` and `UnloggedDatabase`,
  except the failing rename of a session.
* Bytes of the file formats (a record or file is absent, in part or whole), formatting and
  parsing; wrap-around of the 64-bit sequence number.
* Calls with arguments that a check refuses at once (a source or index out of range, a full or
  empty ring or stack): they return an error and change nothing.
* The list's own Insert and Delete called on a set or a priority queue, which Go's
  embedding allows and no caller does.
* In the simulation the percentage of insertions, the seed and the number of operations (every
  sequence is explored, and any state may be the last), the paper's reference table, and printing.

## 6. Extensions

1. Lost directory entries as a fault of `Database`: a log or snapshot file that was created and written, and is not there
   after a power failure. `HoldInv` says what the files that are left hold; what is new is a log that is gone.
2. Failing calls in `UnloggedDatabase` and `Sessions`. With a failing rename the promises of the first do not hold
   (section 3); which weaker ones do is open.
3. What is left of the files after a clash of sessions: no promise of the code is about it, but how much a restart still
   finds could be measured by a model that goes on.
