---------------------------- MODULE SessionsProofs -----------------------------
(***************************************************************************)
(* Sessions for all shards, keys, values, numbers of processes and bounds: *)
(* as long as no two of them write at a time, what they read one file      *)
(* after another is what was written.                                      *)
(*                                                                         *)
(* As in DatabaseProofs, a log is seen as the set of its committed         *)
(* records, of which the one with the largest number decides.  There are   *)
(* no torn records here, which makes these facts simpler.                  *)
(***************************************************************************)
EXTENDS Sessions, FusedListProofs

-----------------------------------------------------------------------------
(* A set of records as a map                                               *)

LEMMA RouteInShard == \A k \in Keys : Route(k) \in Shard
BY SourceAssumption, FilesAssumption, XorAssumption DEF Route, Shard, Source

LEMMA EntryFacts ==
    \A e \in Entry :
        /\ e.sequence \in Nat /\ e.sequence >= 1 /\ e.sequence <= MaxSequence
        /\ e.key \in Keys /\ e.shard \in Shard
BY FilesAssumption DEF Entry, Sequence

About(S, k) == {e \in S : e.key = k}

IsNewest(e, S, k) == e \in About(S, k) /\ \A f \in About(S, k) : f.sequence <= e.sequence

NewestOf(A) == CHOOSE e \in A : \A f \in A : f.sequence <= e.sequence
Newest(S, k) == NewestOf(About(S, k))

\* What k is after the records in S, when it was v before.
ValueIn(S, k, v) == IF About(S, k) = {} THEN v ELSE Newest(S, k).value

\* Records of which no two have the same sequence number.
Numbered(S) ==
    /\ \A e \in S : e \in Entry
    /\ \A e, f \in S : e.sequence = f.sequence => e = f

InOrder(log) ==
    \A i, j \in DOMAIN log : i < j => log[i].sequence < log[j].sequence

\* Of some records about k one is the newest.
LEMMA NewestIs ==
    ASSUME NEW S, NEW k, Numbered(S), About(S, k) # {}
    PROVE  IsNewest(Newest(S, k), S, k)
<1>. DEFINE A == About(S, k)
            N == {MaxSequence - e.sequence : e \in A}
<1>1. \A e \in A : /\ e.sequence \in Nat /\ e.sequence <= MaxSequence
                   /\ MaxSequence - e.sequence \in Nat
  BY EntryFacts, FilesAssumption DEF Numbered, About
<1>2. N \in SUBSET Nat /\ N # {}
  BY <1>1
<1>3. PICK n \in N : \A m \in N : n <= m
  <2>. HIDE DEF N
  <2>. QED BY <1>2, SmallestNumber
<1>4. PICK e \in A : n = MaxSequence - e.sequence
  OBVIOUS
<1>5. ASSUME NEW f \in A PROVE f.sequence <= e.sequence
  <2>1. MaxSequence - e.sequence <= MaxSequence - f.sequence
    BY <1>3, <1>4
  <2>. QED BY <1>1, <2>1, FilesAssumption
<1>6. IsNewest(e, S, k)
  BY <1>5 DEF IsNewest
<1>. QED BY <1>6 DEF Newest, NewestOf, IsNewest

\* There is only one.
LEMMA NewestUnique ==
    ASSUME NEW S, NEW k, Numbered(S), NEW e, IsNewest(e, S, k)
    PROVE  About(S, k) # {} /\ Newest(S, k) = e
<1>1. About(S, k) # {}
  BY DEF IsNewest
<1>. DEFINE n == Newest(S, k)
<1>2. n \in About(S, k) /\ e.sequence <= n.sequence /\ n.sequence <= e.sequence
  BY <1>1, NewestIs DEF IsNewest
<1>. HIDE DEF n
<1>3. e \in S /\ n \in S
  BY <1>2 DEF IsNewest, About
<1>4. e.sequence \in Nat /\ n.sequence \in Nat
  BY <1>3, EntryFacts DEF Numbered
<1>5. e.sequence = n.sequence
  BY <1>2, <1>4
<1>6. e = n
  BY <1>3, <1>5 DEF Numbered
<1>. QED BY <1>1, <1>6 DEF n

\* The record of a new number is the newest of its key.
LEMMA ValueAdd ==
    ASSUME NEW S, NEW e \in Entry, Numbered(S), \A f \in S : f.sequence < e.sequence,
           NEW k, NEW v
    PROVE  /\ Numbered(S \cup {e})
           /\ k = e.key => ValueIn(S \cup {e}, k, v) = e.value
           /\ k # e.key => ValueIn(S \cup {e}, k, v) = ValueIn(S, k, v)
<1>1. Numbered(S \cup {e})
  <2>1. \A f \in S \cup {e} : f.sequence \in Nat
    BY EntryFacts DEF Numbered
  <2>2. \A f \in S : f.sequence # e.sequence
    BY <2>1
  <2>. QED BY <2>2 DEF Numbered
<1>2. CASE k = e.key
  <2>1. \A f \in S \cup {e} : f.sequence <= e.sequence
    BY EntryFacts DEF Numbered
  <2>2. IsNewest(e, S \cup {e}, k)
    BY <1>2, <2>1 DEF IsNewest, About
  <2>. QED BY <1>1, <1>2, <2>2, NewestUnique DEF ValueIn
<1>3. CASE k # e.key
  <2>1. About(S \cup {e}, k) = About(S, k)
    BY <1>3 DEF About
  <2>. QED BY <1>1, <1>3, <2>1 DEF ValueIn, Newest
<1>. QED BY <1>2, <1>3

\* Records may be applied in two parts, the older ones first.
LEMMA ValueSplit ==
    ASSUME NEW A, NEW B, Numbered(A \cup B),
           \A a \in A : \A b \in B : a.sequence < b.sequence,
           NEW k, NEW v
    PROVE  ValueIn(A \cup B, k, v) = ValueIn(B, k, ValueIn(A, k, v))
<1>1. Numbered(B) /\ Numbered(A)
  BY DEF Numbered
<1>2. CASE About(B, k) = {}
  <2>1. About(A \cup B, k) = About(A, k)
    BY <1>2 DEF About
  <2>. QED BY <1>2, <2>1 DEF ValueIn, Newest
<1>3. CASE About(B, k) # {}
  <2>. DEFINE n == Newest(B, k)
  <2>1. IsNewest(n, B, k)
    BY <1>1, <1>3, NewestIs
  <2>. HIDE DEF n
  <2>2. \A f \in About(A, k) : f.sequence <= n.sequence
    <3>1. n \in B /\ \A f \in About(A, k) : f \in A
      BY <2>1 DEF IsNewest, About
    <3>2. n.sequence \in Nat /\ \A f \in About(A, k) : f.sequence \in Nat
      BY <3>1, <1>1, EntryFacts DEF Numbered
    <3>. QED BY <3>1, <3>2
  <2>3. IsNewest(n, A \cup B, k)
    BY <2>1, <2>2 DEF IsNewest, About
  <2>4. Newest(A \cup B, k) = n /\ About(A \cup B, k) # {}
    BY <2>3, NewestUnique
  <2>. QED BY <1>3, <2>4 DEF ValueIn, n
<1>. QED BY <1>2, <1>3

\* The records in S that an ordered log applies to a map, by their numbers.
LEMMA AppliedValue ==
    ASSUME NEW log, InOrder(log), DOMAIN log \subseteq Nat,
           NEW S, Numbered(S), \A e \in S : e \in Entries(log),
           NEW map, NEW k \in Keys
    PROVE  ApplyTo(map, log, S)[k] = ValueIn(S, k, map[k])
<1>. DEFINE about == {i \in DOMAIN log : log[i] \in S /\ log[i].key = k}
<1>1. ApplyTo(map, log, S)[k] =
        IF LastAt(log, S, k) = {} THEN map[k]
        ELSE log[CHOOSE i \in LastAt(log, S, k) : TRUE].value
  BY Zenon DEF ApplyTo
<1>2. CASE About(S, k) = {}
  <2>1. LastAt(log, S, k) = {}
    BY <1>2 DEF LastAt, About
  <2>. QED BY <1>1, <1>2, <2>1 DEF ValueIn
<1>3. CASE About(S, k) # {}
  <2>1. PICK e \in S : e = Newest(S, k) /\ e.key = k /\ \A f \in About(S, k) : f.sequence <= e.sequence
    BY <1>3, NewestIs DEF IsNewest, About
  <2>2. PICK i \in DOMAIN log : log[i] = e
    BY <2>1 DEF Entries
  <2>3. ASSUME NEW j \in about PROVE j <= i
    <3>1. /\ log[j] \in About(S, k) /\ log[j].sequence <= log[i].sequence
      BY <2>1, <2>2, <2>3 DEF About
    <3>2. log[i].sequence \in Nat /\ log[j].sequence \in Nat
      BY <2>1, <2>2, <2>3, EntryFacts DEF Numbered
    <3>3. i \in Nat /\ j \in Nat
      BY <2>3
    <3>. QED BY <3>1, <3>2, <3>3 DEF InOrder
  <2>4. LastAt(log, S, k) = {i}
    <3>1. i \in about
      BY <2>1, <2>2
    <3>2. \A j \in DOMAIN log : j \in Nat
      OBVIOUS
    <3>3. \A j \in about : i <= j => j = i
      BY <2>3, <3>1, <3>2
    <3>. QED BY <2>3, <3>1, <3>3 DEF LastAt
  <2>5. (CHOOSE j \in LastAt(log, S, k) : TRUE) = i
    BY <2>4
  <2>. QED BY <1>1, <1>3, <2>1, <2>2, <2>4, <2>5 DEF ValueIn
<1>. QED BY <1>2, <1>3

-----------------------------------------------------------------------------
(* The inductive invariant                                                 *)

Live(p) == pc[p] = "idle" \/ pc[p] \in InMethod
Reading(p) == pc[p] \in {"snapshots", "logs", "fusion"}

\* A session that others have not written under.
Alone(p) == Live(p) /\ ~overlapped[p]

\* The committed records of a shard.
Recs(s) == CommittedIn(wal[s])
UpTo(s, q) == {e \in Recs(s) : e.sequence <= q}
Content(k) == ValueIn(Recs(Route(k)), k, Absent)

\* The logs are in order, each number is used once, and a number is committed
\* by the record that has it.
LogsInv ==
    /\ wal \in [Shard -> Seq(Entry)] /\ fusionWAL \in Seq(Entry)
    /\ \A s \in Shard : InOrder(wal[s])
    /\ \A s \in Shard : \A e \in Entries(wal[s]) : e.shard = s /\ Route(e.key) = s
    /\ \A s, t \in Shard : \A e \in Entries(wal[s]), f \in Entries(wal[t]) :
          e.sequence = f.sequence => e = f
    /\ \A c \in Entries(fusionWAL) : c \in Entries(wal[c.shard])
    /\ UniqueCommits

\* A number that may be a checkpoint's.
Known(q) == q = 0 \/ \E s \in Shard : \E e \in Recs(s) : e.sequence = q

\* A file that passes for the snapshot at q of shard s holds what the log says.
FileHolds(file, q, s) ==
    file.state = "whole" /\ file.sequence = q =>
        /\ Known(q)
        /\ \A k \in Keys : file.records[k] = ValueIn(UpTo(s, q), k, Absent)

Usable(q, s) == Loads(snapshots[q][s], q, s)

IsTable(f) == DOMAIN f = 0 .. MaxSequence /\ \A q \in 0 .. MaxSequence : DOMAIN f[q] = Shard

FilesInv ==
    /\ IsTable(snapshots)
    /\ current \in 0 .. MaxSequence \cup {NoFile}
    /\ current # NoFile => \A s \in Shard : Usable(current, s)
    /\ \A q \in 0 .. MaxSequence, s \in Shard : FileHolds(snapshots[q][s], q, s)

\* Of the sessions, at most one is writing.
OneWriter == \A p, q \in Session : pc[p] \in InMethod /\ pc[q] \in InMethod => p = q

Committed == [k \in Keys |-> Content(k)]
ContentInv == written = Committed

\* What a session that others have not written under has in memory.
MemoryInv(p) ==
    Alone(p) =>
        /\ data[p] = Committed
        /\ \A s \in Shard : \A e \in Entries(wal[s]) : e.sequence < next[p]
        /\ \A s \in Shard : \A e \in Recs(s) : e.sequence <= committed[p]
        /\ Known(committed[p])
        /\ current = IF pc[p] = "again" THEN NoFile ELSE marked[p]

\* What a writing session is about to do.
MethodInv(p) ==
    /\ pc[p] \in InMethod => ~overlapped[p]
    /\ pc[p] = "commit" =>
          /\ pending[p] \in Entry
          /\ pending[p] \in Entries(wal[pending[p].shard])
          /\ next[p] = pending[p].sequence + 1
          /\ committed[p] < pending[p].sequence
    /\ pc[p] \in {"remove", "write", "rename"} => committed[p] # marked[p]
    /\ pc[p] \in {"remove", "write"} => \A s \in Shard : s < cursor[p] => Usable(committed[p], s)
    /\ pc[p] \in {"rename", "again"} => \A s \in Shard : Usable(committed[p], s)

\* What has been read of a file holds still; if nobody has written since, it is
\* what the file holds.
Prefix(log, whole) ==
    Len(log) <= Len(whole) /\ \A i \in 1 .. Len(log) : log[i] = whole[i]

FileRead(p, s) ==
    LET q == read[p].current
        file == read[p].snapshots[q][s]
    IN  Loads(file, q, s) /\ FileHolds(file, q, s)

ReadInv(p) ==
    /\ IsTable(read[p].snapshots)
    /\ read[p].wal \in [Shard -> Seq(Entry)]
    /\ DOMAIN read[p] = {"wal", "current", "snapshots"}
    /\ pc[p] = "out" => \A s \in Shard : read[p].wal[s] = <<>>
    /\ Reading(p) =>
          /\ read[p].current \in 0 .. MaxSequence \cup {NoFile}
          /\ \A s \in Shard : Prefix(read[p].wal[s], wal[s])
          /\ pc[p] = "snapshots" =>
                read[p].current # NoFile /\ \A s \in Shard : s < cursor[p] => FileRead(p, s)
          /\ pc[p] # "snapshots" /\ read[p].current # NoFile => \A s \in Shard : FileRead(p, s)
          /\ ~overlapped[p] =>
                /\ read[p].current = current
                /\ pc[p] = "logs" => \A s \in Shard : s < cursor[p] => read[p].wal[s] = wal[s]
                /\ pc[p] = "fusion" => \A s \in Shard : read[p].wal[s] = wal[s]

Typed(p) ==
    /\ pc[p] \in {"out", "snapshots", "logs", "fusion", "idle", "refused",
                  "commit", "remove", "write", "rename", "again"}
    /\ cursor[p] \in Shard
    /\ pc[p] \notin {"snapshots", "logs", "remove", "write", "refused"} => cursor[p] = 0
    /\ next[p] \in 1 .. MaxSequence + 1
    /\ committed[p] \in 0 .. MaxSequence
    /\ overlapped[p] \in BOOLEAN
    /\ pc[p] = "refused" => overlapped[p]

SessionInv(p) == Typed(p) /\ MemoryInv(p) /\ MethodInv(p) /\ ReadInv(p)

DomainsInv ==
    /\ DOMAIN pc = Session /\ DOMAIN cursor = Session /\ DOMAIN read = Session
    /\ DOMAIN data = Session /\ DOMAIN next = Session /\ DOMAIN committed = Session
    /\ DOMAIN marked = Session /\ DOMAIN pending = Session /\ DOMAIN overlapped = Session

DirectoryInv == LogsInv /\ FilesInv /\ ContentInv

Inv ==
    /\ DomainsInv
    /\ \A p \in Session : pc[p] = "refused" => overlapped[p]
    /\ ~clashed => DirectoryInv /\ OneWriter /\ \A p \in Session : SessionInv(p)
-----------------------------------------------------------------------------
(* The logs                                                                *)

LEMMA RecsFacts ==
    ASSUME LogsInv, NEW s \in Shard
    PROVE  /\ Numbered(Recs(s)) /\ InOrder(wal[s]) /\ DOMAIN wal[s] \subseteq Nat
           /\ \A e \in Entries(wal[s]) :
                 e \in Entry /\ e.sequence \in Nat /\ e.sequence >= 1 /\ e.sequence <= MaxSequence
           /\ \A e \in Recs(s) : e \in Entries(wal[s]) /\ e.shard = s /\ Route(e.key) = s
<1>1. wal[s] \in Seq(Entry)
  BY DEF LogsInv
<1>2. \A e \in Entries(wal[s]) : e \in Entry
  BY <1>1 DEF Entries
<1>3. \A e \in Entries(wal[s]) : e.sequence \in Nat /\ e.sequence >= 1 /\ e.sequence <= MaxSequence
  BY <1>2, EntryFacts
<1>4. \A e \in Recs(s) : e \in Entries(wal[s])
  BY DEF Recs, CommittedIn
<1>5. Numbered(Recs(s))
  BY <1>2, <1>4 DEF Numbered, LogsInv
<1>6. DOMAIN wal[s] \subseteq Nat
  BY <1>1
<1>. QED BY <1>2, <1>3, <1>4, <1>5, <1>6 DEF LogsInv

\* A number in the backup's log is a committed record's.
LEMMA CommitFacts ==
    ASSUME LogsInv, NEW c \in Entries(fusionWAL)
    PROVE  c \in Entry /\ c.shard \in Shard /\ c \in Recs(c.shard)
<1>1. c \in Entry
  BY DEF LogsInv, Entries
<1>2. c.shard \in Shard
  BY <1>1, EntryFacts
<1>3. c \in Entries(wal[c.shard])
  BY DEF LogsInv
<1>. QED BY <1>1, <1>2, <1>3 DEF Recs, CommittedIn

LEMMA KnownFacts ==
    ASSUME LogsInv, NEW q, Known(q)
    PROVE  q \in Nat
BY RecsFacts DEF Known

-----------------------------------------------------------------------------
(* What Open makes of files that were read at different times              *)

CheckpointAt(q) == IF q = NoFile THEN 0 ELSE q
BaseAt(table, q, s) == IF q = NoFile THEN EmptyMap ELSE table[q][s].records
AppliedAt(logs, q, s) == {e \in CommittedIn(logs[s]) : e.sequence > CheckpointAt(q)}
ReplayAt(logs, table, q, s) == ApplyTo(BaseAt(table, q, s), logs[s], AppliedAt(logs, q, s))
ReplayedAt(logs, q) ==
    {CheckpointAt(q)} \cup UNION {{e.sequence : e \in AppliedAt(logs, q, s)} : s \in Shard}
SeenAt(logs, q) ==
    {CheckpointAt(q)} \cup {e.sequence : e \in Entries(fusionWAL)}
        \cup UNION {{e.sequence : e \in Entries(logs[s])} : s \in Shard}
LoadAt(table, q) == q # NoFile => q # Torn /\ \A s \in Shard : Loads(table[q][s], q, s)
LogsLoadAt(logs) ==
    /\ \A s \in Shard : \A e \in Entries(logs[s]) :
          e.op # "torn" /\ e.shard = s /\ Route(e.key) = s
    /\ \A e \in Entries(fusionWAL) : e.op # "torn"
AppliedCommitted(logs, q) ==
    \A s \in Shard : \A e \in AppliedAt(logs, q, s) : e \in Entries(fusionWAL)
CommitsSeen(logs, q) ==
    \A c \in Entries(fusionWAL) :
        c.sequence > CheckpointAt(q) =>
            \E s \in Shard : \E e \in Entries(logs[s]) : e.sequence = c.sequence

LEMMA ViewShards ==
    ASSUME NEW p
    PROVE  /\ View(p, fusionWAL)!Shard = Shard
           /\ \A k : View(p, fusionWAL)!Route(k) = Route(k)
           /\ \A log : View(p, fusionWAL)!Entries(log) = Entries(log)
           /\ View(p, fusionWAL)!Checkpoint = CheckpointAt(read[p].current)
           /\ \A s : View(p, fusionWAL)!Base(s) = BaseAt(read[p].snapshots, read[p].current, s)
BY DEF View!Shard, View!Source, Shard, Source, View!Route, Route, View!Entries, Entries,
       View!Checkpoint, CheckpointAt, View!Base, BaseAt, View!EmptyMap, EmptyMap

LEMMA ViewApplied ==
    ASSUME NEW p
    PROVE  \A s : View(p, fusionWAL)!Applied(s) = AppliedAt(read[p].wal, read[p].current, s)
<1>1. \A log : View(p, fusionWAL)!CommittedIn(log) = CommittedIn(log)
  BY ViewShards DEF View!CommittedIn, CommittedIn
<1>. QED BY <1>1, ViewShards DEF View!Applied, AppliedAt

LEMMA ViewNumbers ==
    ASSUME NEW p
    PROVE  /\ View(p, fusionWAL)!Replayed = ReplayedAt(read[p].wal, read[p].current)
           /\ View(p, fusionWAL)!Seen = SeenAt(read[p].wal, read[p].current)
<1>1. View(p, fusionWAL)!Replayed = ReplayedAt(read[p].wal, read[p].current)
  BY ViewApplied, ViewShards DEF View!Replayed, ReplayedAt
<1>2. View(p, fusionWAL)!Seen = SeenAt(read[p].wal, read[p].current)
  BY ViewShards DEF View!Seen, View!SeenCommitted, SeenAt
<1>. QED BY <1>1, <1>2

LEMMA ViewRecovered ==
    ASSUME NEW p
    PROVE  View(p, fusionWAL)!Recovered =
             [k \in Keys |-> ReplayAt(read[p].wal, read[p].snapshots, read[p].current, Route(k))[k]]
<1>1. \A map, log, S : View(p, fusionWAL)!ApplyTo(map, log, S) = ApplyTo(map, log, S)
  BY Zenon DEF View!ApplyTo, View!LastAt, ApplyTo, LastAt
<1>2. \A s : View(p, fusionWAL)!Replay(s) =
               ReplayAt(read[p].wal, read[p].snapshots, read[p].current, s)
  BY <1>1, ViewApplied, ViewShards DEF View!Replay, ReplayAt
<1>. QED BY <1>2, ViewShards DEF View!Recovered

LEMMA ViewOpenable ==
    ASSUME NEW p
    PROVE  View(p, fusionWAL)!Openable <=>
              /\ LoadAt(read[p].snapshots, read[p].current)
              /\ LogsLoadAt(read[p].wal)
              /\ UniqueCommits
              /\ AppliedCommitted(read[p].wal, read[p].current)
              /\ CommitsSeen(read[p].wal, read[p].current)
<1>1. View(p, fusionWAL)!LogsLoad <=> LogsLoadAt(read[p].wal)
  BY ViewShards DEF View!LogsLoad, LogsLoadAt
<1>2. View(p, fusionWAL)!UniqueCommits <=> UniqueCommits
  BY DEF View!UniqueCommits, UniqueCommits
<1>3. View(p, fusionWAL)!CommitsMatch <=>
        /\ AppliedCommitted(read[p].wal, read[p].current)
        /\ CommitsSeen(read[p].wal, read[p].current)
  BY ViewShards, ViewApplied DEF View!CommitsMatch, AppliedCommitted, CommitsSeen
<1>4. \A file, q, s : View(p, fusionWAL)!Loads(file, q, s) <=> Loads(file, q, s)
  BY ViewShards DEF View!Loads, Loads
<1>5. View(p, fusionWAL)!SnapshotsLoad <=> LoadAt(read[p].snapshots, read[p].current)
  BY <1>4, ViewShards DEF View!SnapshotsLoad, LoadAt
<1>. QED BY <1>1, <1>2, <1>3, <1>5 DEF View!Openable

\* The files themselves, read at one time.
LEMMA FilesAre ==
    /\ Openable <=>
          /\ LoadAt(snapshots, current) /\ LogsLoadAt(wal) /\ UniqueCommits
          /\ AppliedCommitted(wal, current) /\ CommitsSeen(wal, current)
    /\ Recovered = [k \in Keys |-> ReplayAt(wal, snapshots, current, Route(k))[k]]
<1>1. Checkpoint = CheckpointAt(current) /\ \A s : Base(s) = BaseAt(snapshots, current, s)
  BY DEF Checkpoint, CheckpointAt, Base, BaseAt
<1>2. \A s : Applied(s) = AppliedAt(wal, current, s)
  BY <1>1 DEF Applied, AppliedAt
<1>3. \A s : Replay(s) = ReplayAt(wal, snapshots, current, s)
  BY <1>1, <1>2 DEF Replay, ReplayAt
<1>4. CommitsMatch <=> AppliedCommitted(wal, current) /\ CommitsSeen(wal, current)
  BY <1>1, <1>2 DEF CommitsMatch, AppliedCommitted, CommitsSeen
<1>. QED BY <1>3, <1>4 DEF Openable, SnapshotsLoad, LoadAt, LogsLoad, LogsLoadAt, Recovered

\* Files of which the logs were read up to some record each, and the checkpoint
\* and its snapshots at any time.
Partial(logs, table, q) ==
    /\ logs \in [Shard -> Seq(Entry)]
    /\ \A s \in Shard : Prefix(logs[s], wal[s])
    /\ q \in 0 .. MaxSequence \cup {NoFile}
    /\ q # NoFile => \A s \in Shard : Loads(table[q][s], q, s) /\ FileHolds(table[q][s], q, s)

LEMMA PartialFacts ==
    ASSUME LogsInv, NEW logs, NEW table, NEW q, Partial(logs, table, q), NEW s \in Shard
    PROVE  /\ InOrder(logs[s]) /\ DOMAIN logs[s] \subseteq Nat
           /\ \A e \in Entries(logs[s]) :
                 e \in Entries(wal[s]) /\ e \in Entry /\ e.sequence \in Nat
           /\ \A e \in AppliedAt(logs, q, s) : e \in Recs(s) /\ e \in Entries(logs[s])
<1>1. logs[s] \in Seq(Entry) /\ wal[s] \in Seq(Entry) /\ Prefix(logs[s], wal[s])
  BY DEF Partial, LogsInv
<1>2. DOMAIN logs[s] \subseteq Nat /\ DOMAIN logs[s] \subseteq DOMAIN wal[s]
  BY <1>1 DEF Prefix
<1>3. \A i \in DOMAIN logs[s] : logs[s][i] = wal[s][i]
  BY <1>1 DEF Prefix
<1>4. InOrder(logs[s])
  BY <1>2, <1>3, RecsFacts DEF InOrder
<1>5. \A e \in Entries(logs[s]) : e \in Entries(wal[s])
  BY <1>2, <1>3 DEF Entries
<1>6. \A e \in Entries(logs[s]) : e \in Entry /\ e.sequence \in Nat
  BY <1>5, RecsFacts
<1>7. \A e \in AppliedAt(logs, q, s) : e \in Recs(s) /\ e \in Entries(logs[s])
  BY <1>5 DEF AppliedAt, Recs, CommittedIn
<1>. QED BY <1>2, <1>4, <1>5, <1>6, <1>7

LEMMA PartialCheckpoint ==
    ASSUME LogsInv, NEW logs, NEW table, NEW q, Partial(logs, table, q)
    PROVE  /\ CheckpointAt(q) \in 0 .. MaxSequence /\ Known(CheckpointAt(q))
           /\ LoadAt(table, q)
           /\ \A s \in Shard, k \in Keys :
                 BaseAt(table, q, s)[k] = ValueIn(UpTo(s, CheckpointAt(q)), k, Absent)
<1>1. CheckpointAt(q) \in 0 .. MaxSequence
  BY FilesAssumption DEF CheckpointAt, Partial
<1>2. CASE q = NoFile
  <2>1. ASSUME NEW s \in Shard, NEW k \in Keys PROVE ValueIn(UpTo(s, 0), k, Absent) = Absent
    <3>1. \A e \in Recs(s) : e.sequence \in Nat /\ e.sequence >= 1
      BY RecsFacts
    <3>2. About(UpTo(s, 0), k) = {}
      BY <3>1 DEF UpTo, About
    <3>. QED BY <3>2 DEF ValueIn
  <2>. QED BY <1>1, <1>2, <2>1 DEF CheckpointAt, Known, BaseAt, EmptyMap, LoadAt
<1>3. CASE q # NoFile
  <2>1. CheckpointAt(q) = q /\ q # Torn
    BY <1>3, FilesAssumption DEF CheckpointAt, Partial
  <2>2. \A s \in Shard : Loads(table[q][s], q, s) /\ FileHolds(table[q][s], q, s)
    BY <1>3 DEF Partial
  <2>3. \A s \in Shard : Known(q) /\ \A k \in Keys :
           table[q][s].records[k] = ValueIn(UpTo(s, q), k, Absent)
    BY <2>2 DEF FileHolds, Loads
  <2>4. Known(q)
    BY <2>3, SourceAssumption DEF Shard, Source
  <2>. QED BY <1>1, <1>3, <2>1, <2>2, <2>3, <2>4 DEF BaseAt, LoadAt
<1>. QED BY <1>2, <1>3

\* Only a commit whose record was not read makes Open refuse.
LEMMA PartialOpens ==
    ASSUME LogsInv, NEW logs, NEW table, NEW q, Partial(logs, table, q)
    PROVE  LoadAt(table, q) /\ LogsLoadAt(logs) /\ UniqueCommits /\ AppliedCommitted(logs, q)
<1>1. LoadAt(table, q)
  BY PartialCheckpoint
<1>2. LogsLoadAt(logs)
  <2>1. ASSUME NEW s \in Shard, NEW e \in Entries(logs[s])
        PROVE  e.op # "torn" /\ e.shard = s /\ Route(e.key) = s
    <3>1. e \in Entries(wal[s]) /\ e \in Entry
      BY PartialFacts
    <3>. QED BY <3>1 DEF LogsInv, Entry
  <2>2. ASSUME NEW e \in Entries(fusionWAL) PROVE e.op # "torn"
    BY CommitFacts DEF Entry
  <2>. QED BY <2>1, <2>2 DEF LogsLoadAt
<1>3. ASSUME NEW s \in Shard, NEW e \in AppliedAt(logs, q, s) PROVE e \in Entries(fusionWAL)
  <2>1. e \in Recs(s) /\ e \in Entries(wal[s])
    BY PartialFacts
  <2>2. PICK c \in Entries(fusionWAL) : c.sequence = e.sequence
    BY <2>1 DEF Recs, CommittedIn
  <2>3. c.shard \in Shard /\ c \in Entries(wal[c.shard])
    BY CommitFacts, RecsFacts
  <2>4. c = e
    BY <2>1, <2>2, <2>3 DEF LogsInv
  <2>. QED BY <2>4
<1>. QED BY <1>1, <1>2, <1>3 DEF LogsInv, AppliedCommitted

\* If there is no such commit, the records after the checkpoint are all there.
LEMMA PartialApplied ==
    ASSUME LogsInv, NEW logs, NEW table, NEW q, Partial(logs, table, q), CommitsSeen(logs, q),
           NEW s \in Shard
    PROVE  AppliedAt(logs, q, s) = {e \in Recs(s) : e.sequence > CheckpointAt(q)}
<1>1. ASSUME NEW e \in Recs(s), e.sequence > CheckpointAt(q) PROVE e \in AppliedAt(logs, q, s)
  <2>1. PICK c \in Entries(fusionWAL) : c.sequence = e.sequence
    BY DEF Recs, CommittedIn
  <2>2. PICK t \in Shard : \E f \in Entries(logs[t]) : f.sequence = c.sequence
    BY <1>1, <2>1 DEF CommitsSeen
  <2>3. PICK f \in Entries(logs[t]) : f.sequence = c.sequence
    BY <2>2
  <2>4. f \in Entries(wal[t]) /\ e \in Entries(wal[s])
    BY PartialFacts, RecsFacts
  <2>5. f = e
    BY <2>1, <2>3, <2>4 DEF LogsInv
  <2>6. t = s
    BY <2>4, <2>5 DEF LogsInv
  <2>. QED BY <1>1, <2>1, <2>3, <2>5, <2>6 DEF AppliedAt, CommittedIn
<1>2. ASSUME NEW e \in AppliedAt(logs, q, s) PROVE e \in Recs(s) /\ e.sequence > CheckpointAt(q)
  BY PartialFacts DEF AppliedAt
<1>. QED BY <1>1, <1>2

LEMMA PartialHolds ==
    ASSUME LogsInv, NEW logs, NEW table, NEW q, Partial(logs, table, q), CommitsSeen(logs, q),
           NEW k \in Keys
    PROVE  ReplayAt(logs, table, q, Route(k))[k] = Content(k)
<1>. DEFINE c == CheckpointAt(q)
            s == Route(k)
            A == UpTo(s, c)
            B == AppliedAt(logs, q, s)
<1>1. s \in Shard /\ c \in Nat
  BY RouteInShard, PartialCheckpoint
<1>2. /\ Numbered(Recs(s)) /\ InOrder(logs[s]) /\ DOMAIN logs[s] \subseteq Nat
      /\ \A e \in Recs(s) : e.sequence \in Nat
      /\ \A e \in B : e \in Entries(logs[s])
  BY <1>1, RecsFacts, PartialFacts
<1>3. B = {e \in Recs(s) : e.sequence > c}
  BY <1>1, PartialApplied
<1>4. A \cup B = Recs(s) /\ \A a \in A : \A b \in B : a.sequence < b.sequence
  BY <1>1, <1>2, <1>3 DEF UpTo
<1>5. Numbered(B)
  BY <1>2, <1>3 DEF Numbered
<1>6. BaseAt(table, q, s)[k] = ValueIn(A, k, Absent)
  BY <1>1, PartialCheckpoint
<1>7. ReplayAt(logs, table, q, s) = ApplyTo(BaseAt(table, q, s), logs[s], B)
  BY DEF ReplayAt
<1>. HIDE DEF s, A, B
<1>8. ApplyTo(BaseAt(table, q, s), logs[s], B)[k] = ValueIn(B, k, BaseAt(table, q, s)[k])
  BY <1>2, <1>5, AppliedValue
<1>9. ValueIn(A \cup B, k, Absent) = ValueIn(B, k, ValueIn(A, k, Absent))
  BY <1>2, <1>4, ValueSplit
<1>. QED BY <1>4, <1>6, <1>7, <1>8, <1>9 DEF s, Content

\* A set of numbers up to the bound has a largest one.
LEMMA LargestIs ==
    ASSUME NEW N, N # {}, N \subseteq 0 .. MaxSequence
    PROVE  Max(N) \in N /\ Max(N) \in 0 .. MaxSequence /\ \A n \in N : n <= Max(N)
<1>1. IsFiniteSet(N)
  <2>1. IsFiniteSet(0 .. MaxSequence)
    BY FilesAssumption, FS_Interval
  <2>. QED BY <2>1, FS_Subset
<1>2. \A n \in N : n \in Nat
  BY FilesAssumption
<1>. QED BY <1>1, <1>2, LargestNumber

LEMMA PartialReplayed ==
    ASSUME LogsInv, NEW logs, NEW table, NEW q, Partial(logs, table, q), CommitsSeen(logs, q)
    PROVE  /\ Max(ReplayedAt(logs, q)) \in 0 .. MaxSequence
           /\ Known(Max(ReplayedAt(logs, q)))
           /\ \A s \in Shard : \A e \in Recs(s) : e.sequence <= Max(ReplayedAt(logs, q))
<1>. DEFINE R == ReplayedAt(logs, q)
            c == CheckpointAt(q)
<1>1. c \in R /\ c \in 0 .. MaxSequence /\ Known(c)
  BY PartialCheckpoint DEF ReplayedAt
<1>2. \A n \in R : n = c \/ \E s \in Shard : \E e \in Recs(s) : n = e.sequence
  BY PartialFacts DEF ReplayedAt
<1>3. \A s \in Shard : \A e \in Recs(s) : e.sequence \in Nat /\ e.sequence <= MaxSequence
  BY RecsFacts
<1>4. \A n \in R : n \in 0 .. MaxSequence /\ Known(n)
  BY <1>1, <1>2, <1>3 DEF Known
<1>5. \A s \in Shard : \A e \in Recs(s) : e.sequence > c => e.sequence \in R
  <2>1. ASSUME NEW s \in Shard, NEW e \in Recs(s), e.sequence > c PROVE e \in AppliedAt(logs, q, s)
    BY <2>1, PartialApplied
  <2>. QED BY <2>1 DEF ReplayedAt
<1>. HIDE DEF R, c
<1>6. Max(R) \in R /\ Max(R) \in 0 .. MaxSequence /\ \A n \in R : n <= Max(R)
  BY <1>1, <1>4, LargestIs
<1>7. ASSUME NEW s \in Shard, NEW e \in Recs(s) PROVE e.sequence <= Max(R)
  <2>1. e.sequence > c => e.sequence <= Max(R)
    BY <1>5, <1>6
  <2>2. c <= Max(R)
    BY <1>1, <1>6
  <2>. QED BY <1>1, <1>3, <1>6, <2>1, <2>2
<1>. QED BY <1>4, <1>6, <1>7 DEF R

LEMMA PartialSeen ==
    ASSUME LogsInv, NEW logs, NEW table, NEW q, Partial(logs, table, q)
    PROVE  /\ Max(SeenAt(logs, q)) \in 0 .. MaxSequence
           /\ \A s \in Shard : \A e \in Entries(logs[s]) : e.sequence <= Max(SeenAt(logs, q))
<1>. DEFINE S == SeenAt(logs, q)
<1>1. CheckpointAt(q) \in S /\ CheckpointAt(q) \in 0 .. MaxSequence
  BY PartialCheckpoint DEF SeenAt
<1>2. ASSUME NEW s \in Shard, NEW e \in Entries(logs[s])
      PROVE  e.sequence \in S /\ e.sequence \in 0 .. MaxSequence
  BY PartialFacts, RecsFacts, FilesAssumption DEF SeenAt
<1>3. ASSUME NEW e \in Entries(fusionWAL) PROVE e.sequence \in 0 .. MaxSequence
  BY CommitFacts, RecsFacts, FilesAssumption
<1>4. \A n \in S : n \in 0 .. MaxSequence
  BY <1>1, <1>2, <1>3 DEF SeenAt
<1>. HIDE DEF S
<1>5. Max(S) \in 0 .. MaxSequence /\ \A n \in S : n <= Max(S)
  BY <1>1, <1>4, LargestIs
<1>. QED BY <1>2, <1>5 DEF S

\* The files read at one time.
LEMMA WholePartial ==
    ASSUME LogsInv, FilesInv
    PROVE  Partial(wal, snapshots, current) /\ CommitsSeen(wal, current)
<1>1. \A s \in Shard : Prefix(wal[s], wal[s])
  BY DEF LogsInv, Prefix
<1>2. \A s \in Shard : current # NoFile =>
         Loads(snapshots[current][s], current, s) /\ FileHolds(snapshots[current][s], current, s)
  BY DEF FilesInv, Usable
<1>3. CommitsSeen(wal, current)
  BY CommitFacts, RecsFacts DEF CommitsSeen
<1>. QED BY <1>1, <1>2, <1>3 DEF Partial, LogsInv, FilesInv

\* They can be opened, and hold the records that are committed.
LEMMA FilesHold ==
    ASSUME LogsInv, FilesInv
    PROVE  Openable /\ Recovered = Committed
BY WholePartial, PartialOpens, PartialHolds, FilesAre DEF Committed

-----------------------------------------------------------------------------
(* What a step of one session leaves of the others                         *)

LEMMA NextShardIs ==
    ASSUME NEW p, cursor[p] \in Shard
    PROVE  /\ NextShard(p) \in Shard
           /\ \A s \in Shard :
                 NextShard(p) = 0 \/ s < NextShard(p) => s < cursor[p] \/ s = cursor[p]
<1>1. PICK c \in Nat : c = cursor[p] /\ c < SourceCount
  BY SourceAssumption DEF Shard, Source
<1>2. (c + 1) % SourceCount = IF c + 1 = SourceCount THEN 0 ELSE c + 1
  BY <1>1, SourceAssumption
<1>3. NextShard(p) = IF c + 1 = SourceCount THEN 0 ELSE c + 1
  BY <1>1, <1>2 DEF NextShard
<1>. QED BY <1>1, <1>3, SourceAssumption DEF Shard, Source

LEMMA ZeroIsShard == 0 \in Shard /\ \A s \in Shard : s \in Nat /\ ~(s < 0)
BY SourceAssumption DEF Shard, Source

SameMemory(q) ==
    /\ data'[q] = data[q] /\ next'[q] = next[q]
    /\ committed'[q] = committed[q] /\ marked'[q] = marked[q]

SameAt(q) ==
    /\ pc'[q] = pc[q] /\ cursor'[q] = cursor[q] /\ read'[q] = read[q]
    /\ pending'[q] = pending[q] /\ SameMemory(q)

\* Files only grow, and committed records stay.
FilesGrow ==
    /\ \A s \in Shard : \A log \in Seq(Entry) : Prefix(log, wal[s]) => Prefix(log, wal[s])'
    /\ \A file : \A q \in 0 .. MaxSequence, s \in Shard : FileHolds(file, q, s) => FileHolds(file, q, s)'

LEMMA SameFilesHold ==
    ASSUME UNCHANGED <<wal, fusionWAL>>
    PROVE  /\ \A s : Recs(s)' = Recs(s)
           /\ \A q : Known(q)' = Known(q)
           /\ \A s, q : UpTo(s, q)' = UpTo(s, q)
           /\ \A k : Content(k)' = Content(k)
           /\ Committed' = Committed
           /\ \A file, q, s : FileHolds(file, q, s)' = FileHolds(file, q, s)
<1>1. \A s : Recs(s)' = Recs(s)
  BY DEF Recs, CommittedIn
<1>2. \A q : Known(q)' = Known(q)
  BY <1>1 DEF Known
<1>3. \A s, q : UpTo(s, q)' = UpTo(s, q)
  BY <1>1 DEF UpTo
<1>4. \A k : Content(k)' = Content(k)
  BY <1>1 DEF Content
<1>5. \A file, q, s : FileHolds(file, q, s)' = FileHolds(file, q, s)
  BY <1>2, <1>3 DEF FileHolds
<1>6. Committed' = Committed
  BY <1>4 DEF Committed
<1>. QED BY <1>1, <1>2, <1>3, <1>4, <1>5, <1>6

\* A session that neither it nor another's file access touches.
LEMMA QuietKeeps ==
    ASSUME NEW q, SessionInv(q), SameAt(q), overlapped'[q] = overlapped[q], UNCHANGED files
    PROVE  SessionInv(q)'
<1>1. UNCHANGED <<wal, fusionWAL, snapshots, current>>
  BY DEF files
<1>2. \A file, c, s : FileHolds(file, c, s)' = FileHolds(file, c, s)
  BY <1>1, SameFilesHold
<1>3. Typed(q)'
  BY DEF SessionInv, Typed, SameAt, SameMemory
<1>4. MemoryInv(q)'
  BY <1>1, SameFilesHold DEF SessionInv, MemoryInv, Alone, Live, SameAt, SameMemory
<1>5. MethodInv(q)'
  BY <1>1 DEF SessionInv, MethodInv, Usable, SameAt, SameMemory
<1>6. \A s : FileRead(q, s)' = FileRead(q, s)
  BY <1>2 DEF FileRead, SameAt
<1>7. ReadInv(q)'
  <2>1. ReadInv(q)
    BY DEF SessionInv
  <2>2. pc'[q] = pc[q] /\ cursor'[q] = cursor[q] /\ read'[q] = read[q]
    BY DEF SameAt
  <2>. QED BY <1>1, <1>6, <2>1, <2>2 DEF ReadInv, Reading
<1>. QED BY <1>3, <1>4, <1>5, <1>7 DEF SessionInv

\* A session that another one has written under, or does so now.
LEMMA TouchedKeeps ==
    ASSUME NEW q, SessionInv(q), SameAt(q), overlapped'[q] = TRUE, pc[q] \notin InMethod,
           FilesGrow
    PROVE  SessionInv(q)'
<1>0. pc'[q] = pc[q] /\ cursor'[q] = cursor[q] /\ read'[q] = read[q]
  BY DEF SameAt
<1>1. Typed(q)'
  BY DEF SessionInv, Typed, SameAt, SameMemory
<1>2. MemoryInv(q)'
  BY DEF MemoryInv, Alone
<1>3. MethodInv(q)'
  BY <1>0 DEF MethodInv, InMethod
<1>4. ReadInv(q)
  BY DEF SessionInv
<1>5. Reading(q) => \A s \in Shard : Prefix(read[q].wal[s], wal[s])'
  BY <1>0, <1>4 DEF ReadInv, FilesGrow
<1>6. Reading(q) /\ read[q].current # NoFile => \A s \in Shard : FileRead(q, s) => FileRead(q, s)'
  <2>1. Reading(q) /\ read[q].current # NoFile => read[q].current \in 0 .. MaxSequence
    BY <1>4 DEF ReadInv
  <2>. QED BY <1>0, <2>1 DEF FileRead, FilesGrow
<1>7. ReadInv(q)'
  BY <1>0, <1>4, <1>5, <1>6 DEF ReadInv, Reading
<1>. QED BY <1>1, <1>2, <1>3, <1>7 DEF SessionInv

\* All sessions but p.
OthersKeep(p) == \A q \in Session \ {p} : SessionInv(q)'

LEMMA QuietOthers ==
    ASSUME Inv, ~clashed, NEW p \in Session, \A q \in Session \ {p} : SameAt(q),
           UNCHANGED files, \A q \in Session \ {p} : overlapped'[q] = overlapped[q]
    PROVE  OthersKeep(p)
BY QuietKeeps DEF OthersKeep, Inv

LEMMA TouchedOthers ==
    ASSUME Inv, ~clashed, NEW p \in Session, \A q \in Session \ {p} : SameAt(q),
           \A q \in Session \ {p} : pc[q] \notin InMethod, Touch(p), FilesGrow
    PROVE  OthersKeep(p)
<1>1. \A q \in Session \ {p} : overlapped'[q] = TRUE
  BY DEF Touch
<1>. QED BY <1>1, TouchedKeeps DEF OthersKeep, Inv

\* If the logs stay, they have grown as well.
LEMMA SameLogsGrow ==
    ASSUME UNCHANGED <<wal, fusionWAL>>
    PROVE  FilesGrow
BY SameFilesHold DEF FilesGrow, Prefix

-----------------------------------------------------------------------------
(* Sessions that open, read and end                                        *)

\* What a step of p has to establish.
StepKeeps(p) == DirectoryInv' /\ OneWriter' /\ SessionInv(p)' /\ OthersKeep(p)

LEMMA QuietDirectory ==
    ASSUME DirectoryInv, UNCHANGED <<files, written>>
    PROVE  DirectoryInv'
<1>1. UNCHANGED <<wal, fusionWAL, snapshots, current, written>>
  BY DEF files
<1>2. LogsInv'
  BY <1>1 DEF DirectoryInv, LogsInv, InOrder, Entries, UniqueCommits
<1>3. FilesInv'
  BY <1>1, SameFilesHold DEF DirectoryInv, FilesInv, Usable
<1>4. ContentInv'
  BY <1>1, SameFilesHold DEF DirectoryInv, ContentInv
<1>. QED BY <1>2, <1>3, <1>4 DEF DirectoryInv

\* A step of p that is not part of a method and touches no file.
Quiet(p) ==
    /\ \A q \in Session \ {p} : SameAt(q) /\ overlapped'[q] = overlapped[q]
    /\ pc'[p] \notin InMethod
    /\ UNCHANGED <<files, written>>

LEMMA QuietStep ==
    ASSUME Inv, ~clashed, NEW p \in Session, Quiet(p), SessionInv(p)'
    PROVE  StepKeeps(p)
<1>1. DirectoryInv /\ OneWriter
  BY DEF Inv
<1>2. DirectoryInv'
  BY <1>1, QuietDirectory DEF Quiet
<1>3. OneWriter'
  <2>1. \A q \in Session : pc'[q] \in InMethod => pc[q] \in InMethod /\ q # p
    BY DEF Quiet, SameAt
  <2>. QED BY <1>1, <2>1 DEF OneWriter
<1>4. OthersKeep(p)
  BY QuietOthers DEF Quiet
<1>. QED BY <1>2, <1>3, <1>4 DEF StepKeeps

\* The parts of the invariant that a step of p starts from.
LEMMA InvParts ==
    ASSUME Inv, ~clashed, NEW p \in Session
    PROVE  /\ DomainsInv /\ LogsInv /\ FilesInv /\ ContentInv /\ OneWriter
           /\ SessionInv(p) /\ Typed(p) /\ MemoryInv(p) /\ MethodInv(p) /\ ReadInv(p)
BY DEF Inv, DirectoryInv, SessionInv

LEMMA StartKeeps ==
    ASSUME Inv, ~clashed, NEW p \in Session, Start(p)
    PROVE  StepKeeps(p)
<1>. USE InvParts DEF DomainsInv
<1>1. /\ pc[p] = "out" /\ pc'[p] = (IF current = NoFile THEN "logs" ELSE "snapshots")
      /\ overlapped'[p] = FALSE /\ cursor' = cursor
      /\ read'[p] = [read[p] EXCEPT !.current = current]
      /\ UNCHANGED <<memory, pending>>
  BY DEF Start, Go
<1>2. Quiet(p)
  BY DEF Start, Go, Quiet, SameAt, SameMemory, memory, InMethod
<1>3. Typed(p)'
  <2>1. Typed(p) /\ cursor[p] = 0
    BY <1>1 DEF Typed
  <2>2. UNCHANGED <<data, next, committed>>
    BY <1>1 DEF memory
  <2>. QED BY <1>1, <2>1, <2>2 DEF Typed
<1>4. MemoryInv(p)' /\ MethodInv(p)'
  BY <1>1 DEF MemoryInv, MethodInv, Alone, Live, InMethod
<1>5. /\ DOMAIN read[p] = {"wal", "current", "snapshots"}
      /\ read'[p].current = current /\ read'[p].wal = read[p].wal
      /\ read'[p].snapshots = read[p].snapshots
      /\ DOMAIN read'[p] = DOMAIN read[p]
  BY <1>1 DEF ReadInv
<1>6. ReadInv(p)'
  <2>1. \A s \in Shard : read[p].wal[s] = <<>> /\ wal'[s] \in Seq(Entry)
    BY <1>1 DEF ReadInv, LogsInv, Start, files
  <2>2. \A s \in Shard : Prefix(read'[p].wal[s], wal'[s])
    BY <1>5, <2>1 DEF Prefix
  <2>3. cursor'[p] = 0
    BY <1>1 DEF Typed
  <2>4. current' = current /\ current \in 0 .. MaxSequence \cup {NoFile}
    BY DEF Start, files, FilesInv
  <2>. QED BY <1>1, <1>5, <2>2, <2>3, <2>4, ZeroIsShard DEF ReadInv, Reading
<1>7. SessionInv(p)'
  BY <1>3, <1>4, <1>6 DEF SessionInv
<1>. QED BY <1>2, <1>7, QuietStep

LEMMA RefuseKeeps ==
    ASSUME Inv, ~clashed, NEW p \in Session, Refuse(p)
    PROVE  StepKeeps(p) /\ overlapped[p]
<1>. USE InvParts DEF DomainsInv
<1>1. /\ pc[p] = "fusion" /\ pc'[p] = "refused" /\ UNCHANGED <<files, local, history>>
  BY DEF Refuse, Go
<1>2. Quiet(p)
  BY DEF Refuse, Go, Quiet, SameAt, SameMemory, memory, local, history, InMethod
<1>3. overlapped[p]
  <2>1. SUFFICES ASSUME ~overlapped[p] PROVE View(p, fusionWAL)!Openable
    BY DEF Refuse, Typed
  <2>2. /\ \A s \in Shard : read[p].wal[s] = wal[s]
        /\ read[p].current = current
        /\ read[p].current # NoFile => \A s \in Shard : FileRead(p, s)
        /\ read[p].wal \in [Shard -> Seq(Entry)]
    BY <1>1, <2>1 DEF ReadInv, Reading
  <2>3. read[p].wal = wal
    BY <2>2 DEF LogsInv
  <2>4. Partial(read[p].wal, read[p].snapshots, read[p].current) /\ CommitsSeen(read[p].wal, current)
    BY <2>2, <2>3, WholePartial DEF Partial, FileRead
  <2>. QED BY <2>2, <2>4, PartialOpens, ViewOpenable
<1>4. SessionInv(p)'
  <2>1. UNCHANGED <<cursor, read, data, next, committed, marked, pending, overlapped>>
    BY <1>1 DEF local, memory, history
  <2>2. Typed(p)'
    BY <1>1, <1>3, <2>1 DEF Typed
  <2>3. MemoryInv(p)' /\ MethodInv(p)'
    BY <1>1 DEF MemoryInv, MethodInv, Alone, Live, InMethod
  <2>4. ReadInv(p)'
    BY <1>1, <2>1 DEF ReadInv, Reading
  <2>. QED BY <2>2, <2>3, <2>4 DEF SessionInv
<1>. QED BY <1>2, <1>3, <1>4, QuietStep

LEMMA EndKeeps ==
    ASSUME Inv, ~clashed, NEW p \in Session, End(p)
    PROVE  StepKeeps(p)
<1>. USE InvParts DEF DomainsInv
<1>1. /\ pc'[p] = "out" /\ cursor'[p] = 0 /\ read'[p] = Nothing /\ data'[p] = EmptyMap
      /\ next'[p] = 1 /\ committed'[p] = 0 /\ overlapped' = overlapped
  BY DEF End, history
<1>2. Quiet(p)
  BY DEF End, Quiet, SameAt, SameMemory, history, InMethod
<1>3. Typed(p)'
  BY <1>1, ZeroIsShard, FilesAssumption DEF Typed, EmptyMap
<1>4. MemoryInv(p)' /\ MethodInv(p)'
  BY <1>1 DEF MemoryInv, MethodInv, Alone, Live, InMethod
<1>5. ReadInv(p)'
  BY <1>1 DEF ReadInv, Reading, Nothing, IsTable
<1>. QED BY <1>2, <1>3, <1>4, <1>5, QuietStep DEF SessionInv

\* What is read holds what the log says.
LEMMA FileReadIs ==
    ASSUME NEW p, NEW q, NEW s, NEW file, UNCHANGED <<wal, fusionWAL>>,
           read'[p].current = q, read'[p].snapshots[q][s] = file,
           Loads(file, q, s), FileHolds(file, q, s)
    PROVE  FileRead(p, s)'
<1>1. \A f, n, t : FileHolds(f, n, t)' = FileHolds(f, n, t)
  BY SameFilesHold
<1>. QED BY <1>1 DEF FileRead

LEMMA ReadSnapshotKeeps ==
    ASSUME Inv, ~clashed, NEW p \in Session, ReadSnapshot(p)
    PROVE  StepKeeps(p)
<1>. USE InvParts DEF DomainsInv
<1>. DEFINE q == read[p].current
            c == cursor[p]
            file == snapshots[q][c]
<1>1. /\ pc[p] = "snapshots"
      /\ pc'[p] = IF Loads(file, q, c) THEN IF NextShard(p) = 0 THEN "logs" ELSE "snapshots"
                  ELSE "refused"
      /\ cursor'[p] = NextShard(p)
      /\ read'[p] = [read[p] EXCEPT !.snapshots[q][c] = file]
      /\ UNCHANGED <<files, memory, pending, history>>
  BY DEF ReadSnapshot, Go
<1>2. Quiet(p)
  <2>1. UNCHANGED <<files, data, next, committed, marked, pending, overlapped, written>>
    BY <1>1 DEF memory, history
  <2>2. \A r \in Session \ {p} : pc'[r] = pc[r] /\ cursor'[r] = cursor[r] /\ read'[r] = read[r]
    BY DEF ReadSnapshot, Go
  <2>. QED BY <1>1, <2>1, <2>2 DEF Quiet, SameAt, SameMemory, InMethod
<1>3. /\ q \in 0 .. MaxSequence /\ c \in Shard /\ IsTable(read[p].snapshots)
      /\ DOMAIN read[p] = {"wal", "current", "snapshots"}
      /\ \A s \in Shard : s < c => FileRead(p, s)
  BY <1>1 DEF ReadInv, Reading, Typed
<1>4. /\ NextShard(p) \in Shard
      /\ \A s \in Shard : NextShard(p) = 0 \/ s < NextShard(p) => s < c \/ s = c
  BY <1>3, NextShardIs
<1>5. /\ read'[p].wal = read[p].wal /\ read'[p].current = q
      /\ DOMAIN read'[p] = DOMAIN read[p]
      /\ read'[p].snapshots = [read[p].snapshots EXCEPT ![q][c] = file]
  BY <1>1, <1>3
<1>6. /\ IsTable(read'[p].snapshots)
      /\ \A s \in Shard : s # c => read'[p].snapshots[q][s] = read[p].snapshots[q][s]
      /\ read'[p].snapshots[q][c] = file
  BY <1>3, <1>5 DEF IsTable
<1>7. UNCHANGED <<wal, fusionWAL, snapshots, current, data, next, committed, overlapped>>
  BY <1>1 DEF files, memory, history
<1>8. ~overlapped[p] => Loads(file, q, c)
  <2>1. ~overlapped[p] => q = current
    BY <1>1 DEF ReadInv, Reading
  <2>. QED BY <1>3, <2>1, FilesAssumption DEF FilesInv, Usable
<1>9. pc'[p] # "refused" => \A s \in Shard : s < c \/ s = c => FileRead(p, s)'
  <2>1. ASSUME NEW s \in Shard, s < c PROVE FileRead(p, s)'
    <3>1. s # c /\ FileRead(p, s)
      BY <1>3, <2>1, ZeroIsShard
    <3>2. read'[p].snapshots[q][s] = read[p].snapshots[q][s]
      BY <1>6, <3>1
    <3>3. FileHolds(read[p].snapshots[q][s], q, s) /\ Loads(read[p].snapshots[q][s], q, s)
      BY <3>1 DEF FileRead
    <3>. QED BY <1>5, <1>7, <3>2, <3>3, FileReadIs
  <2>2. ASSUME NEW s \in Shard, s = c, pc'[p] # "refused" PROVE FileRead(p, s)'
    <3>1. Loads(file, q, s) /\ FileHolds(file, q, s)
      BY <1>1, <1>3, <2>2 DEF FilesInv
    <3>2. read'[p].snapshots[q][s] = file
      BY <1>6, <2>2
    <3>. QED BY <1>5, <1>7, <3>1, <3>2, FileReadIs
  <2>. QED BY <2>1, <2>2
<1>10. Typed(p)'
  <2>1. pc'[p] = "logs" => cursor'[p] = 0
    BY <1>1
  <2>. QED BY <1>1, <1>4, <1>7, <1>8 DEF Typed
<1>11. MemoryInv(p)' /\ MethodInv(p)'
  BY <1>1 DEF MemoryInv, MethodInv, Alone, Live, InMethod
<1>12. ReadInv(p)'
  <2>1. /\ \A s \in Shard : Prefix(read'[p].wal[s], wal'[s])
        /\ ~overlapped'[p] => read'[p].current = current'
        /\ q # NoFile
    BY <1>1, <1>5, <1>7 DEF ReadInv, Reading
  <2>2. pc'[p] = "snapshots" => \A s \in Shard : s < cursor'[p] => FileRead(p, s)'
    BY <1>1, <1>4, <1>9
  <2>3. pc'[p] = "logs" => \A s \in Shard : FileRead(p, s)'
    BY <1>1, <1>4, <1>9
  <2>4. pc'[p] = "logs" => cursor'[p] = 0
    BY <1>1
  <2>5. pc'[p] \in {"snapshots", "logs", "refused"}
    BY <1>1
  <2>6. read'[p].wal \in [Shard -> Seq(Entry)]
    BY <1>5 DEF ReadInv
  <2>7. DOMAIN read'[p] = {"wal", "current", "snapshots"} /\ pc'[p] # "out" /\ pc'[p] # "fusion"
    BY <1>3, <1>5, <2>5
  <2>8. /\ ~overlapped'[p] /\ pc'[p] = "logs" => \A s \in Shard : s < cursor'[p] => FALSE
    BY <2>4, ZeroIsShard
  <2>9. /\ read'[p].current \in 0 .. MaxSequence \cup {NoFile}
        /\ pc'[p] = "snapshots" => read'[p].current # NoFile
    BY <1>3, <1>5, <2>1
  <2>10. ~overlapped'[p] =>
           /\ read'[p].current = current'
           /\ pc'[p] = "logs" => \A s \in Shard : s < cursor'[p] => read'[p].wal[s] = wal'[s]
    BY <2>1, <2>8
  <2>. HIDE DEF q, c, file
  <2>. QED BY SMTT(30), <1>6, <2>1, <2>2, <2>3, <2>6, <2>7, <2>9, <2>10 DEF ReadInv, Reading
<1>. QED BY <1>2, <1>10, <1>11, <1>12, QuietStep DEF SessionInv

LEMMA ReadLogKeeps ==
    ASSUME Inv, ~clashed, NEW p \in Session, ReadLog(p)
    PROVE  StepKeeps(p)
<1>. USE InvParts DEF DomainsInv
<1>. DEFINE q == read[p].current
            c == cursor[p]
<1>1. /\ pc[p] = "logs" /\ pc'[p] = IF NextShard(p) = 0 THEN "fusion" ELSE "logs"
      /\ cursor'[p] = NextShard(p)
      /\ read'[p] = [read[p] EXCEPT !.wal[c] = wal[c]]
      /\ UNCHANGED <<files, memory, pending, history>>
  BY DEF ReadLog, Go
<1>2. Quiet(p)
  <2>1. UNCHANGED <<files, data, next, committed, marked, pending, overlapped, written>>
    BY <1>1 DEF memory, history
  <2>2. \A r \in Session \ {p} : pc'[r] = pc[r] /\ cursor'[r] = cursor[r] /\ read'[r] = read[r]
    BY DEF ReadLog, Go
  <2>. QED BY <1>1, <2>1, <2>2 DEF Quiet, SameAt, SameMemory, InMethod
<1>3. /\ c \in Shard /\ DOMAIN read[p] = {"wal", "current", "snapshots"}
      /\ read[p].wal \in [Shard -> Seq(Entry)] /\ wal[c] \in Seq(Entry)
  BY <1>1 DEF ReadInv, Typed, LogsInv
<1>4. /\ NextShard(p) \in Shard
      /\ \A s \in Shard : NextShard(p) = 0 \/ s < NextShard(p) => s < c \/ s = c
  BY <1>3, NextShardIs
<1>5. /\ read'[p].wal = [read[p].wal EXCEPT ![c] = wal[c]] /\ read'[p].current = q
      /\ DOMAIN read'[p] = DOMAIN read[p] /\ read'[p].snapshots = read[p].snapshots
  BY <1>1, <1>3
<1>6. /\ read'[p].wal \in [Shard -> Seq(Entry)]
      /\ \A s \in Shard : read'[p].wal[s] = IF s = c THEN wal[c] ELSE read[p].wal[s]
  BY <1>3, <1>5
<1>7. UNCHANGED <<wal, fusionWAL, snapshots, current, data, next, committed, overlapped>>
  BY <1>1 DEF files, memory, history
<1>8. Typed(p)'
  <2>1. pc'[p] = "fusion" => cursor'[p] = 0
    BY <1>1
  <2>. QED BY <1>1, <1>4, <1>7, <2>1 DEF Typed
<1>9. MemoryInv(p)' /\ MethodInv(p)'
  BY <1>1 DEF MemoryInv, MethodInv, Alone, Live, InMethod
<1>10. ReadInv(p)'
  <2>1. /\ q \in 0 .. MaxSequence \cup {NoFile}
        /\ ~overlapped'[p] => q = current'
    BY <1>1, <1>7 DEF ReadInv, Reading
  <2>2. \A s \in Shard : Prefix(read'[p].wal[s], wal'[s])
    <3>1. \A s \in Shard : Prefix(read[p].wal[s], wal[s])
      BY <1>1 DEF ReadInv, Reading
    <3>2. Prefix(wal[c], wal[c])
      BY <1>3 DEF Prefix
    <3>. QED BY <1>6, <1>7, <3>1, <3>2
  <2>3. q # NoFile => \A s \in Shard : FileRead(p, s)'
    <3>1. q # NoFile => \A s \in Shard : FileRead(p, s)
      BY <1>1 DEF ReadInv, Reading
    <3>. QED BY <1>5, <1>7, <3>1, SameFilesHold DEF FileRead
  <2>4. ~overlapped[p] => \A s \in Shard : s < c \/ s = c => read'[p].wal[s] = wal[s]
    BY <1>1, <1>6 DEF ReadInv, Reading
  <2>5. pc'[p] \in {"logs", "fusion"}
    BY <1>1
  <2>6. ~overlapped'[p] =>
           /\ pc'[p] = "logs" => \A s \in Shard : s < cursor'[p] => read'[p].wal[s] = wal'[s]
           /\ pc'[p] = "fusion" => \A s \in Shard : read'[p].wal[s] = wal'[s]
    BY <1>1, <1>4, <1>7, <2>4
  <2>7. IsTable(read'[p].snapshots)
    BY <1>5 DEF ReadInv
  <2>. QED BY <1>3, <1>5, <1>6, <2>1, <2>2, <2>3, <2>5, <2>6, <2>7 DEF ReadInv, Reading
<1>. QED BY <1>2, <1>8, <1>9, <1>10, QuietStep DEF SessionInv

\* What Open is about to make of what it has read.
LEMMA ViewIsPartial ==
    ASSUME Inv, ~clashed, NEW p \in Session, pc[p] = "fusion"
    PROVE  Partial(read[p].wal, read[p].snapshots, read[p].current)
<1>. USE InvParts
<1>1. read[p].current # NoFile => \A s \in Shard : FileRead(p, s)
  BY DEF ReadInv, Reading
<1>. QED BY <1>1 DEF ReadInv, Reading, Partial, FileRead

LEMMA OpensWhatIsWritten ==
    ASSUME Inv, ~clashed, NEW p \in Session, pc[p] = "fusion", View(p, fusionWAL)!Openable
    PROVE  View(p, fusionWAL)!Recovered = Committed
<1>. USE InvParts
<1>1. CommitsSeen(read[p].wal, read[p].current)
  BY ViewOpenable
<1>2. \A k \in Keys : ReplayAt(read[p].wal, read[p].snapshots, read[p].current, Route(k))[k] = Content(k)
  BY <1>1, ViewIsPartial, PartialHolds
<1>. QED BY <1>2, ViewRecovered DEF Committed

LEMMA ReadFusionKeeps ==
    ASSUME Inv, ~clashed, NEW p \in Session, ReadFusion(p)
    PROVE  StepKeeps(p)
<1>. USE InvParts DEF DomainsInv
<1>. DEFINE V == View(p, fusionWAL)!Recovered
            logs == read[p].wal
            q == read[p].current
<1>1. /\ pc[p] = "fusion" /\ pc'[p] = "idle" /\ View(p, fusionWAL)!Openable
      /\ data'[p] = View(p, fusionWAL)!Recovered
      /\ next'[p] = Max(SeenAt(logs, q)) + 1
      /\ committed'[p] = Max(ReplayedAt(logs, q))
      /\ marked'[p] = q /\ read'[p] = Nothing
      /\ UNCHANGED <<files, cursor, pending, history>>
  BY ViewNumbers DEF ReadFusion, Go
<1>2. Quiet(p)
  <2>1. UNCHANGED <<files, cursor, pending, overlapped, written>>
    BY <1>1 DEF history
  <2>2. \A r \in Session \ {p} :
           pc'[r] = pc[r] /\ cursor'[r] = cursor[r] /\ read'[r] = read[r] /\ SameMemory(r)
    BY DEF ReadFusion, Go, SameMemory
  <2>. QED BY <1>1, <2>1, <2>2 DEF Quiet, SameAt, InMethod
<1>3. Partial(logs, read[p].snapshots, q) /\ CommitsSeen(logs, q)
  BY <1>1, ViewIsPartial, ViewOpenable
<1>4. data'[p] = Committed
  BY <1>1, OpensWhatIsWritten
<1>5. /\ committed'[p] \in 0 .. MaxSequence /\ Known(committed'[p])
      /\ \A s \in Shard : \A e \in Recs(s) : e.sequence <= committed'[p]
  BY <1>1, <1>3, PartialReplayed
<1>6. /\ next'[p] \in 1 .. MaxSequence + 1
      /\ \A s \in Shard : \A e \in Entries(logs[s]) : e.sequence < next'[p]
  <2>1. PICK m : m = Max(SeenAt(logs, q))
    OBVIOUS
  <2>2. m \in 0 .. MaxSequence /\ \A s \in Shard : \A e \in Entries(logs[s]) : e.sequence <= m
    BY <1>3, <2>1, PartialSeen
  <2>3. \A s \in Shard : \A e \in Entries(logs[s]) : e.sequence \in Nat
    BY <1>3, PartialFacts
  <2>4. next'[p] = m + 1
    BY <1>1, <2>1
  <2>. QED BY <2>2, <2>3, <2>4, FilesAssumption
<1>7. UNCHANGED <<wal, fusionWAL, snapshots, current, cursor, overlapped>>
  BY <1>1 DEF files, history
<1>8. Typed(p)'
  BY <1>1, <1>4, <1>5, <1>6, <1>7 DEF Typed
<1>9. MemoryInv(p)'
  <2>1. ASSUME ~overlapped[p] PROVE logs = wal /\ q = current
    <3>1. q = current /\ \A s \in Shard : logs[s] = wal[s]
      BY <1>1, <2>1 DEF ReadInv, Reading
    <3>2. logs \in [Shard -> Seq(Entry)]
      BY DEF ReadInv
    <3>. QED BY <3>1, <3>2 DEF LogsInv
  <2>2. Known(committed'[p]) <=> Known(committed[p])'
    BY <1>7, SameFilesHold DEF Known
  <2>3. Committed' = Committed
    BY <1>7, SameFilesHold DEF Committed
  <2>. QED BY <1>1, <1>4, <1>5, <1>6, <1>7, <2>1, <2>2, <2>3, SameFilesHold
           DEF MemoryInv, Alone, Entries
<1>10. MethodInv(p)'
  BY <1>1 DEF MethodInv, InMethod
<1>11. ReadInv(p)'
  BY <1>1 DEF ReadInv, Reading, Nothing, IsTable
<1>. QED BY <1>2, <1>8, <1>9, <1>10, <1>11, QuietStep DEF SessionInv

-----------------------------------------------------------------------------
(* Sessions that write                                                     *)

\* A session in a method, or about to begin one without a clash, has seen all
\* that others wrote, and no other is in a method.
LEMMA WriterIsAlone ==
    ASSUME Inv, ~clashed, NEW p \in Session,
           pc[p] \in InMethod \/ (pc[p] = "idle" /\ ~Clash(p))
    PROVE  Alone(p) /\ \A q \in Session \ {p} : pc[q] \notin InMethod
<1>. USE InvParts
<1>1. CASE pc[p] \in InMethod
  BY <1>1 DEF MethodInv, Alone, Live, OneWriter
<1>2. CASE pc[p] = "idle" /\ ~Clash(p)
  BY <1>2 DEF Clash, Alone, Live
<1>. QED BY <1>1, <1>2

\* A step of p that changes files.
Touching(p) ==
    /\ \A q \in Session \ {p} : SameAt(q) /\ pc[q] \notin InMethod
    /\ Touch(p) /\ FilesGrow

LEMMA TouchingStep ==
    ASSUME Inv, ~clashed, NEW p \in Session, Touching(p), DirectoryInv', SessionInv(p)'
    PROVE  StepKeeps(p)
<1>1. OthersKeep(p)
  BY TouchedOthers DEF Touching
<1>2. \A q \in Session : pc'[q] \in InMethod => q = p
  BY DEF Touching, SameAt
<1>. QED BY <1>1, <1>2 DEF StepKeeps, OneWriter

\* A log and a later record.
LEMMA AppendedIs ==
    ASSUME NEW log \in Seq(Entry), NEW e \in Entry, NEW longer, longer = Append(log, e)
    PROVE  /\ longer \in Seq(Entry)
           /\ Entries(longer) = Entries(log) \cup {e}
           /\ InOrder(log) /\ (\A f \in Entries(log) : f.sequence < e.sequence) => InOrder(longer)
           /\ \A part \in Seq(Entry) : Prefix(part, log) => Prefix(part, longer)
<1>1. /\ longer \in Seq(Entry) /\ Len(longer) = Len(log) + 1 /\ longer[Len(log) + 1] = e
      /\ \A i \in 1 .. Len(log) : longer[i] = log[i]
      /\ DOMAIN log = 1 .. Len(log) /\ DOMAIN longer = 1 .. Len(log) + 1 /\ Len(log) \in Nat
  OBVIOUS
<1>2. Entries(longer) = Entries(log) \cup {e}
  <2>1. ASSUME NEW f \in Entries(longer) PROVE f \in Entries(log) \cup {e}
    BY <1>1 DEF Entries
  <2>2. ASSUME NEW f \in Entries(log) \cup {e} PROVE f \in Entries(longer)
    <3>1. CASE f = e
      BY <1>1, <3>1 DEF Entries
    <3>2. CASE f \in Entries(log)
      BY <1>1, <3>2 DEF Entries
    <3>. QED BY <3>1, <3>2
  <2>. QED BY <2>1, <2>2
<1>3. InOrder(log) /\ (\A f \in Entries(log) : f.sequence < e.sequence) => InOrder(longer)
  <2>1. SUFFICES ASSUME InOrder(log), \A f \in Entries(log) : f.sequence < e.sequence,
                        NEW i \in DOMAIN longer, NEW j \in DOMAIN longer, i < j
                 PROVE  longer[i].sequence < longer[j].sequence
    BY DEF InOrder
  <2>2. i \in DOMAIN log /\ longer[i] = log[i]
    BY <1>1, <2>1
  <2>3. CASE j \in DOMAIN log
    BY <1>1, <2>1, <2>2, <2>3 DEF InOrder
  <2>4. CASE j \notin DOMAIN log
    <3>1. longer[j] = e
      BY <1>1, <2>4
    <3>. QED BY <2>1, <2>2, <3>1 DEF Entries
  <2>. QED BY <2>3, <2>4
<1>4. ASSUME NEW part \in Seq(Entry), Prefix(part, log) PROVE Prefix(part, longer)
  BY <1>1, <1>4 DEF Prefix
<1>. QED BY <1>1, <1>2, <1>3, <1>4

\* As long as no record is committed, nothing changes in what the logs say.
LEMMA SameRecsHold ==
    ASSUME \A s \in Shard : Recs(s)' = Recs(s)
    PROVE  /\ \A q : Known(q)' = Known(q)
           /\ \A s \in Shard : \A file, q : FileHolds(file, q, s)' = FileHolds(file, q, s)
           /\ Committed' = Committed
<1>1. \A q : Known(q)' = Known(q)
  BY DEF Known
<1>2. \A s \in Shard : \A q : UpTo(s, q)' = UpTo(s, q)
  BY DEF UpTo
<1>3. \A s \in Shard : \A file, q : FileHolds(file, q, s)' = FileHolds(file, q, s)
  BY <1>1, <1>2 DEF FileHolds
<1>4. \A k \in Keys : Content(k)' = Content(k)
  BY RouteInShard DEF Content
<1>. QED BY <1>1, <1>3, <1>4 DEF Committed

\* A record with a new number is appended to its shard's log.
Logs(e) ==
    /\ e \in Entry /\ e.shard \in Shard /\ Route(e.key) = e.shard
    /\ \A s \in Shard : \A f \in Entries(wal[s]) : f.sequence < e.sequence
    /\ wal' = [wal EXCEPT ![e.shard] = Append(@, e)]
    /\ UNCHANGED <<fusionWAL, snapshots, current, written>>

LEMMA LoggedEntries ==
    ASSUME LogsInv, NEW e, Logs(e), NEW s \in Shard
    PROVE  /\ wal'[s] \in Seq(Entry) /\ InOrder(wal'[s])
           /\ \A f : f \in Entries(wal'[s]) <=> f \in Entries(wal[s]) \/ (s = e.shard /\ f = e)
           /\ \A part \in Seq(Entry) : Prefix(part, wal[s]) => Prefix(part, wal'[s])
<1>1. wal[s] \in Seq(Entry) /\ InOrder(wal[s])
  BY DEF LogsInv
<1>2. CASE s = e.shard
  <2>1. wal'[s] = Append(wal[s], e)
    BY <1>2 DEF LogsInv, Logs
  <2>2. \A f \in Entries(wal[s]) : f.sequence < e.sequence
    BY DEF Logs
  <2>3. e \in Entry
    BY DEF Logs
  <2>4. /\ wal'[s] \in Seq(Entry)
        /\ Entries(wal'[s]) = Entries(wal[s]) \cup {e}
        /\ InOrder(wal[s]) /\ (\A f \in Entries(wal[s]) : f.sequence < e.sequence) => InOrder(wal'[s])
        /\ \A part \in Seq(Entry) : Prefix(part, wal[s]) => Prefix(part, wal'[s])
    BY <1>1, <2>1, <2>3, AppendedIs
  <2>. QED BY <1>1, <1>2, <2>2, <2>4
<1>3. CASE s # e.shard
  <2>1. wal'[s] = wal[s]
    BY <1>3 DEF LogsInv, Logs
  <2>. QED BY <1>1, <1>3, <2>1
<1>. QED BY <1>2, <1>3

LEMMA LogsKeep ==
    ASSUME LogsInv, FilesInv, ContentInv, NEW e, Logs(e)
    PROVE  /\ DirectoryInv' /\ FilesGrow /\ \A s \in Shard : Recs(s)' = Recs(s)
           /\ Committed' = Committed
<1>0. fusionWAL' = fusionWAL /\ snapshots' = snapshots /\ current' = current /\ written' = written
  BY DEF Logs
<1>1. \A s \in Shard : Recs(s)' = Recs(s)
  <2>1. ASSUME NEW s \in Shard PROVE Recs(s)' = Recs(s)
    <3>1. \A c \in Entries(fusionWAL) : c.sequence # e.sequence
      <4>1. e.sequence \in Nat
        BY EntryFacts DEF Logs
      <4>2. \A c \in Entries(fusionWAL) : c.sequence \in Nat /\ c.sequence < e.sequence
        BY CommitFacts, RecsFacts DEF Logs
      <4>. QED BY <4>1, <4>2
    <3>2. \A f : f \in Entries(wal'[s]) <=> f \in Entries(wal[s]) \/ (s = e.shard /\ f = e)
      BY LoggedEntries
    <3>3. Recs(s)' = {f \in Entries(wal'[s]) : \E c \in Entries(fusionWAL) : c.sequence = f.sequence}
      BY <1>0 DEF Recs, CommittedIn, Entries
    <3>. QED BY <3>1, <3>2, <3>3 DEF Recs, CommittedIn
  <2>. QED BY <2>1
<1>2. LogsInv'
  <2>1. wal' \in [Shard -> Seq(Entry)] /\ fusionWAL' \in Seq(Entry)
    <3>1. DOMAIN wal' = Shard /\ wal' = [s \in Shard |-> wal'[s]]
      BY DEF Logs, LogsInv
    <3>. QED BY <1>0, <3>1, LoggedEntries DEF LogsInv
  <2>2. \A s \in Shard : InOrder(wal[s])'
    BY LoggedEntries DEF InOrder
  <2>3. ASSUME NEW s \in Shard, NEW f \in Entries(wal'[s]) PROVE f.shard = s /\ Route(f.key) = s
    <3>1. CASE f \in Entries(wal[s])
      BY <3>1 DEF LogsInv
    <3>2. CASE s = e.shard /\ f = e
      BY <3>2 DEF Logs
    <3>. QED BY <3>1, <3>2, LoggedEntries
  <2>4. ASSUME NEW s \in Shard, NEW t \in Shard, NEW f \in Entries(wal'[s]), NEW g \in Entries(wal'[t]),
               f.sequence = g.sequence
        PROVE  f = g
    <3>1. f \in Entries(wal[s]) \/ f = e
      BY LoggedEntries
    <3>2. g \in Entries(wal[t]) \/ g = e
      BY LoggedEntries
    <3>3. CASE f \in Entries(wal[s]) /\ g \in Entries(wal[t])
      BY <2>4, <3>3 DEF LogsInv
    <3>4. e.sequence \in Nat /\ \A u \in Shard : \A h \in Entries(wal[u]) :
             h.sequence \in Nat /\ h.sequence < e.sequence
      BY EntryFacts, RecsFacts DEF Logs
    <3>. QED BY <2>4, <3>1, <3>2, <3>3, <3>4
  <2>5. \A c \in Entries(fusionWAL') : c \in Entries(wal'[c.shard])
    BY <1>0, CommitFacts, RecsFacts, LoggedEntries
  <2>6. UniqueCommits'
    BY <1>0 DEF LogsInv, UniqueCommits
  <2>. QED BY <2>1, <2>2, <2>3, <2>4, <2>5, <2>6 DEF LogsInv, Entries
<1>3. FilesInv'
  BY <1>0, <1>1, SameRecsHold DEF FilesInv, Usable
<1>4. ContentInv'
  BY <1>0, <1>1, SameRecsHold DEF ContentInv
<1>5. FilesGrow
  BY <1>1, SameRecsHold, LoggedEntries DEF FilesGrow, Prefix
<1>. QED BY <1>1, <1>2, <1>3, <1>4, <1>5, SameRecsHold DEF DirectoryInv

\* The record that PUT or DELETE appends first.
Record(p, k, v) ==
    [op |-> IF v = Absent THEN "delete" ELSE "put",
     sequence |-> next[p], shard |-> Route(k), key |-> k, value |-> v]

LEMMA WriteKeeps ==
    ASSUME Inv, ~clashed, ~clashed', NEW p \in Session, NEW k \in Keys, NEW v \in Contents,
           Write(p, k, v)
    PROVE  StepKeeps(p)
<1>. USE InvParts DEF DomainsInv
<1>. DEFINE e == Record(p, k, v)
<1>1. /\ pc[p] = "idle" /\ pc'[p] = "commit" /\ next[p] <= MaxSequence
      /\ wal' = [wal EXCEPT ![Route(k)] = Append(@, e)]
      /\ pending'[p] = e /\ next'[p] = next[p] + 1
      /\ Touch(p) /\ ~Clash(p)
      /\ UNCHANGED <<fusionWAL, snapshots, current, cursor, read, data, committed, marked, written>>
  BY DEF Write, Go, Record
<1>2. /\ ~overlapped[p] /\ Alone(p) /\ \A q \in Session \ {p} : pc[q] \notin InMethod
  BY <1>1, WriterIsAlone DEF Alone
<1>3. /\ data[p] = Committed /\ Known(committed[p]) /\ current = marked[p]
      /\ \A s \in Shard : \A f \in Entries(wal[s]) : f.sequence < next[p]
      /\ \A s \in Shard : \A f \in Recs(s) : f.sequence <= committed[p]
  BY <1>1, <1>2 DEF MemoryInv
<1>4. next[p] \in 1 .. MaxSequence /\ next[p] \in Nat /\ next'[p] \in 1 .. MaxSequence + 1
  BY <1>1, FilesAssumption DEF Typed
<1>5. e \in Entry /\ e.shard = Route(k) /\ e.key = k /\ e.sequence = next[p] /\ Route(k) \in Shard
  <2>1. Route(k) \in Shard
    BY RouteInShard
  <2>. QED BY <1>4, <2>1 DEF Record, Entry, Sequence
<1>. HIDE DEF e
<1>6. Logs(e)
  BY <1>1, <1>3, <1>5 DEF Logs
<1>7. /\ DirectoryInv' /\ FilesGrow /\ \A s \in Shard : Recs(s)' = Recs(s)
      /\ Committed' = Committed
  BY <1>6, LogsKeep
<1>8. Touching(p)
  <2>1. \A q \in Session \ {p} : SameAt(q)
    BY DEF Write, Go, SameAt, SameMemory
  <2>. QED BY <1>1, <1>2, <1>7, <2>1 DEF Touching
<1>9. overlapped'[p] = overlapped[p]
  BY <1>1, <1>2 DEF Touch, Typed
<1>10. Typed(p)'
  BY <1>1, <1>4, <1>9 DEF Typed
<1>11. committed[p] \in Nat /\ committed[p] < next[p]
  <2>1. CASE committed[p] = 0
    BY <1>4, <2>1
  <2>2. ASSUME NEW s \in Shard, NEW f \in Recs(s), f.sequence = committed[p]
        PROVE  committed[p] \in Nat /\ committed[p] < next[p]
    BY <1>3, <2>2, RecsFacts
  <2>. QED BY <1>3, <2>1, <2>2 DEF Known
<1>12. MemoryInv(p)'
  <2>1. data'[p] = Committed'
    BY <1>1, <1>3, <1>7
  <2>2. ASSUME NEW s \in Shard, NEW f \in Entries(wal'[s]) PROVE f.sequence < next'[p]
    <3>1. f \in Entries(wal[s]) \/ f = e
      BY <1>6, LoggedEntries
    <3>2. f.sequence \in Nat /\ f.sequence <= next[p]
      BY <1>3, <1>4, <1>5, <3>1, RecsFacts
    <3>. QED BY <1>1, <1>4, <3>2
  <2>3. \A s \in Shard : \A f \in Recs(s)' : f.sequence <= committed'[p]
    BY <1>1, <1>3, <1>7
  <2>4. Known(committed[p])'
    BY <1>1, <1>3, <1>7 DEF Known
  <2>5. current' = marked'[p] /\ pc'[p] = "commit"
    BY <1>1, <1>3
  <2>. QED BY <2>1, <2>2, <2>3, <2>4, <2>5 DEF MemoryInv, Entries
<1>13. MethodInv(p)'
  <2>1. e \in Entries(wal'[e.shard])
    BY <1>5, <1>6, LoggedEntries
  <2>. QED BY <1>1, <1>2, <1>5, <1>9, <1>11, <2>1 DEF MethodInv, InMethod, Entries
<1>14. ReadInv(p)'
  BY <1>1 DEF ReadInv, Reading
<1>. QED BY <1>7, <1>8, <1>10, <1>12, <1>13, <1>14, TouchingStep DEF SessionInv

\* A record that its shard has logged, later than all that are committed, is
\* appended to the backup's log.
Commits(e) ==
    /\ e \in Entry /\ e.shard \in Shard /\ e \in Entries(wal[e.shard])
    /\ \A s \in Shard : \A f \in Recs(s) : f.sequence < e.sequence
    /\ fusionWAL' = Append(fusionWAL, e)
    /\ UNCHANGED <<wal, snapshots, current>>

LEMMA CommittedRecs ==
    ASSUME LogsInv, NEW e, Commits(e)
    PROVE  /\ fusionWAL' \in Seq(Entry)
           /\ \A c : c \in Entries(fusionWAL') <=> c \in Entries(fusionWAL) \/ c = e
           /\ UniqueCommits'
           /\ \A s \in Shard : \A f : f \in Recs(s)' <=> f \in Recs(s) \/ (s = e.shard /\ f = e)
<1>1. fusionWAL \in Seq(Entry) /\ e \in Entry
  BY DEF LogsInv, Commits
<1>2. fusionWAL' \in Seq(Entry) /\ Entries(fusionWAL') = Entries(fusionWAL) \cup {e}
  BY <1>1, AppendedIs DEF Commits
<1>3. \A c \in Entries(fusionWAL) : c.sequence # e.sequence
  <2>1. e.sequence \in Nat
    BY <1>1, EntryFacts
  <2>2. \A c \in Entries(fusionWAL) : c.sequence \in Nat /\ c.sequence < e.sequence
    BY CommitFacts, RecsFacts DEF Commits
  <2>. QED BY <2>1, <2>2
<1>4. UniqueCommits'
  <2>1. /\ Len(fusionWAL) \in Nat /\ DOMAIN fusionWAL = 1 .. Len(fusionWAL)
        /\ DOMAIN fusionWAL' = 1 .. Len(fusionWAL) + 1
        /\ fusionWAL'[Len(fusionWAL) + 1] = e
        /\ \A i \in 1 .. Len(fusionWAL) : fusionWAL'[i] = fusionWAL[i]
    BY <1>1 DEF Commits
  <2>2. \A i \in DOMAIN fusionWAL : fusionWAL[i].sequence # e.sequence
    BY <1>3 DEF Entries
  <2>3. \A i, j \in DOMAIN fusionWAL : i # j => fusionWAL[i].sequence # fusionWAL[j].sequence
    BY DEF LogsInv, UniqueCommits
  <2>4. ASSUME NEW i \in DOMAIN fusionWAL', NEW j \in DOMAIN fusionWAL', i # j
        PROVE  fusionWAL'[i].sequence # fusionWAL'[j].sequence
    <3>1. CASE i \in DOMAIN fusionWAL /\ j \in DOMAIN fusionWAL
      BY <2>1, <2>3, <2>4, <3>1
    <3>2. CASE i \notin DOMAIN fusionWAL
      <4>1. fusionWAL'[i] = e /\ j \in DOMAIN fusionWAL
        BY <2>1, <2>4, <3>2
      <4>. QED BY <2>1, <2>2, <4>1
    <3>3. CASE j \notin DOMAIN fusionWAL
      <4>1. fusionWAL'[j] = e /\ i \in DOMAIN fusionWAL
        BY <2>1, <2>4, <3>3
      <4>. QED BY <2>1, <2>2, <4>1
    <3>. QED BY <3>1, <3>2, <3>3
  <2>. QED BY <2>4 DEF UniqueCommits
<1>5. ASSUME NEW s \in Shard, NEW f
      PROVE  f \in Recs(s)' <=> f \in Recs(s) \/ (s = e.shard /\ f = e)
  <2>1. Recs(s)' = {g \in Entries(wal[s]) : \E c \in Entries(fusionWAL') : c.sequence = g.sequence}
    BY DEF Recs, CommittedIn, Commits, Entries
  <2>2. f \in Entries(wal[s]) /\ f.sequence = e.sequence => s = e.shard /\ f = e
    <3>1. e \in Entries(wal[e.shard]) /\ e.shard \in Shard
      BY DEF Commits
    <3>2. ASSUME f \in Entries(wal[s]), f.sequence = e.sequence PROVE f = e
      BY <3>1, <3>2 DEF LogsInv
    <3>3. ASSUME f \in Entries(wal[s]), f = e PROVE s = e.shard
      BY <3>1, <3>3 DEF LogsInv
    <3>. QED BY <3>2, <3>3
  <2>3. f = e /\ s = e.shard => f \in Entries(wal[s])
    BY DEF Commits
  <2>. QED BY <1>2, <2>1, <2>2, <2>3 DEF Recs, CommittedIn
<1>. QED BY <1>2, <1>4, <1>5

LEMMA CommitsKeep ==
    ASSUME LogsInv, FilesInv, NEW e, Commits(e)
    PROVE  /\ LogsInv' /\ FilesInv' /\ FilesGrow
           /\ \A k \in Keys : Content(k)' = IF k = e.key THEN e.value ELSE Content(k)
<1>0. /\ UNCHANGED <<wal, snapshots, current>> /\ e \in Entry /\ e.shard \in Shard
      /\ e \in Entries(wal[e.shard]) /\ e.sequence \in Nat /\ e.sequence >= 1
      /\ Route(e.key) = e.shard
  <2>1. e \in Entry /\ e.shard \in Shard /\ e \in Entries(wal[e.shard])
    BY DEF Commits
  <2>2. e.sequence \in Nat /\ e.sequence >= 1
    BY <2>1, EntryFacts
  <2>. QED BY <2>1, <2>2 DEF Commits, LogsInv
<1>1. LogsInv'
  <2>1. \A c \in Entries(fusionWAL') : c \in Entries(wal[c.shard])
    BY <1>0, CommittedRecs, CommitFacts, RecsFacts
  <2>2. \A c \in Entries(fusionWAL)' : c \in Entries(wal[c.shard])'
    BY <1>0, <2>1 DEF Entries
  <2>3. \A s \in Shard : InOrder(wal[s])' /\ Entries(wal[s])' = Entries(wal[s])
    BY <1>0 DEF LogsInv, InOrder, Entries
  <2>4. fusionWAL' \in Seq(Entry) /\ UniqueCommits'
    BY CommittedRecs
  <2>. QED BY <1>0, <2>2, <2>3, <2>4 DEF LogsInv
<1>2. ASSUME NEW q, Known(q) PROVE Known(q)' /\ q < e.sequence /\ q \in Nat
  <2>1. CASE q = 0
    BY <1>0, <2>1 DEF Known
  <2>2. ASSUME NEW s \in Shard, NEW f \in Recs(s), f.sequence = q
        PROVE  Known(q)' /\ q < e.sequence /\ q \in Nat
    <3>1. f \in Recs(s)'
      BY CommittedRecs
    <3>2. f.sequence \in Nat /\ f.sequence < e.sequence
      BY RecsFacts DEF Commits
    <3>. QED BY <2>2, <3>1, <3>2 DEF Known
  <2>. QED BY <1>2, <2>1, <2>2 DEF Known
<1>3. ASSUME NEW q, Known(q), NEW s \in Shard PROVE UpTo(s, q)' = UpTo(s, q)
  <2>1. q < e.sequence /\ q \in Nat
    BY <1>2, <1>3
  <2>2. \A f : f \in Recs(s)' /\ f.sequence <= q <=> f \in Recs(s) /\ f.sequence <= q
    BY <1>0, <2>1, CommittedRecs
  <2>. QED BY <2>2 DEF UpTo
<1>4. \A file : \A q, s : s \in Shard /\ FileHolds(file, q, s) => FileHolds(file, q, s)'
  BY <1>2, <1>3 DEF FileHolds
<1>5. FilesInv'
  BY <1>0, <1>4 DEF FilesInv, Usable
<1>6. FilesGrow
  BY <1>0, <1>4 DEF FilesGrow, Prefix
<1>7. ASSUME NEW k \in Keys PROVE Content(k)' = IF k = e.key THEN e.value ELSE Content(k)
  <2>. DEFINE s == Route(k)
  <2>1. s \in Shard
    BY RouteInShard
  <2>. HIDE DEF s
  <2>2. CASE s = e.shard
    <3>1. Recs(s)' = Recs(s) \cup {e}
      BY <2>1, <2>2, CommittedRecs
    <3>2. Numbered(Recs(s)) /\ \A f \in Recs(s) : f.sequence < e.sequence
      BY <2>1, RecsFacts DEF Commits
    <3>3. /\ k = e.key => ValueIn(Recs(s) \cup {e}, k, Absent) = e.value
          /\ k # e.key => ValueIn(Recs(s) \cup {e}, k, Absent) = ValueIn(Recs(s), k, Absent)
      <4>1. \A S, v : \A f \in Entry :
               Numbered(S) /\ (\A g \in S : g.sequence < f.sequence) =>
                  /\ k = f.key => ValueIn(S \cup {f}, k, v) = f.value
                  /\ k # f.key => ValueIn(S \cup {f}, k, v) = ValueIn(S, k, v)
        BY SMTT(30), ValueAdd
      <4>. QED BY <1>0, <3>2, <4>1
    <3>. QED BY <3>1, <3>3 DEF Content, s
  <2>3. CASE s # e.shard
    <3>1. Recs(s)' = Recs(s)
      BY <2>1, <2>3, CommittedRecs
    <3>2. k # e.key
      BY <1>0, <2>3 DEF s
    <3>. QED BY <3>1, <3>2 DEF Content, s
  <2>. QED BY <2>2, <2>3
<1>. QED BY <1>1, <1>5, <1>6, <1>7

LEMMA CommitKeeps ==
    ASSUME Inv, ~clashed, NEW p \in Session, Commit(p)
    PROVE  StepKeeps(p)
<1>. USE InvParts DEF DomainsInv
<1>. DEFINE e == pending[p]
<1>1. /\ pc[p] = "commit" /\ pc'[p] = "idle" /\ fusionWAL' = Append(fusionWAL, e)
      /\ data'[p] = [data[p] EXCEPT ![e.key] = e.value]
      /\ committed'[p] = e.sequence
      /\ written' = [written EXCEPT ![e.key] = e.value]
      /\ Touch(p)
      /\ UNCHANGED <<wal, snapshots, current, cursor, read, next, marked>>
  BY DEF Commit, Go
<1>2. /\ ~overlapped[p] /\ Alone(p) /\ \A q \in Session \ {p} : pc[q] \notin InMethod
  BY <1>1, WriterIsAlone DEF Alone, InMethod
<1>3. /\ data[p] = Committed /\ Known(committed[p]) /\ current = marked[p]
      /\ \A s \in Shard : \A f \in Entries(wal[s]) : f.sequence < next[p]
      /\ \A s \in Shard : \A f \in Recs(s) : f.sequence <= committed[p]
  BY <1>1, <1>2 DEF MemoryInv
<1>4. /\ e \in Entry /\ e \in Entries(wal[e.shard]) /\ next[p] = e.sequence + 1
      /\ committed[p] < e.sequence
  BY <1>1 DEF MethodInv
<1>. HIDE DEF e
<1>5. /\ e.shard \in Shard /\ e.sequence \in 1 .. MaxSequence /\ e.sequence \in Nat
      /\ e.key \in Keys /\ committed[p] \in Nat
  BY <1>4, EntryFacts, FilesAssumption DEF Typed
<1>6. Commits(e)
  <2>1. \A s \in Shard : \A f \in Recs(s) : f.sequence < e.sequence
    <3>1. \A s \in Shard : \A f \in Recs(s) : f.sequence \in Nat
      BY RecsFacts
    <3>. QED BY <1>3, <1>4, <1>5, <3>1
  <2>. QED BY <1>1, <1>4, <1>5, <2>1 DEF Commits
<1>7. /\ LogsInv' /\ FilesInv' /\ FilesGrow
      /\ \A k \in Keys : Content(k)' = IF k = e.key THEN e.value ELSE Content(k)
  BY <1>6, CommitsKeep
<1>8. Committed' = [Committed EXCEPT ![e.key] = e.value]
  BY <1>7 DEF Committed
<1>9. DirectoryInv'
  BY <1>1, <1>7, <1>8 DEF ContentInv, DirectoryInv
<1>10. Touching(p)
  <2>1. \A q \in Session \ {p} : SameAt(q)
    BY DEF Commit, Go, SameAt, SameMemory
  <2>. QED BY <1>1, <1>2, <1>7, <2>1 DEF Touching
<1>11. overlapped'[p] = overlapped[p]
  BY <1>1, <1>2 DEF Touch, Typed
<1>12. Typed(p)'
  <2>1. committed'[p] \in 0 .. MaxSequence
    BY <1>1, <1>5
  <2>2. cursor'[p] = 0 /\ cursor'[p] \in Shard /\ next'[p] \in 1 .. MaxSequence + 1
    BY <1>1 DEF Typed
  <2>3. overlapped'[p] \in BOOLEAN
    BY <1>11 DEF Typed
  <2>. QED BY <1>1, <2>1, <2>2, <2>3 DEF Typed
<1>13. MemoryInv(p)'
  <2>1. data'[p] = Committed'
    BY <1>1, <1>3, <1>8
  <2>2. \A s \in Shard : \A f \in Recs(s)' : f.sequence <= committed'[p]
    <3>1. \A s \in Shard : \A f \in Recs(s) : f.sequence < e.sequence
      BY <1>6 DEF Commits
    <3>2. \A s \in Shard : \A f \in Recs(s) : f.sequence \in Nat
      BY RecsFacts
    <3>3. \A s \in Shard : \A f \in Recs(s)' : f \in Recs(s) \/ f = e
      BY <1>6, CommittedRecs
    <3>. QED BY <1>1, <1>5, <3>1, <3>2, <3>3
  <2>3. \E s \in Shard : \E f \in Recs(s)' : f.sequence = committed'[p]
    BY <1>1, <1>5, <1>6, CommittedRecs
  <2>4. current' = marked'[p] /\ pc'[p] = "idle"
    BY <1>1, <1>3
  <2>5. \A s \in Shard : \A f \in Entries(wal'[s]) : f.sequence < next'[p]
    BY <1>1, <1>3
  <2>. QED BY <2>1, <2>2, <2>3, <2>4, <2>5 DEF MemoryInv, Known, Entries
<1>14. MethodInv(p)'
  BY <1>1 DEF MethodInv, InMethod
<1>15. ReadInv(p)'
  BY <1>1 DEF ReadInv, Reading
<1>. QED BY <1>9, <1>10, <1>12, <1>13, <1>14, <1>15, TouchingStep DEF SessionInv

-----------------------------------------------------------------------------
(* Sessions that take snapshots                                            *)

\* A file of a snapshot that is not the checkpoint's is replaced.
Replaces(q, s, file) ==
    /\ q \in 0 .. MaxSequence /\ s \in Shard /\ q # current
    /\ FileHolds(file, q, s)
    /\ snapshots' = [snapshots EXCEPT ![q][s] = file]
    /\ UNCHANGED <<wal, fusionWAL, current, written>>

LEMMA ReplacedIs ==
    ASSUME FilesInv, NEW q, NEW s, NEW file, Replaces(q, s, file)
    PROVE  /\ IsTable(snapshots') /\ snapshots'[q][s] = file
           /\ \A n \in 0 .. MaxSequence, t \in Shard :
                 n # q \/ t # s => snapshots'[n][t] = snapshots[n][t]
BY DEF FilesInv, IsTable, Replaces

LEMMA ReplacesKeeps ==
    ASSUME DirectoryInv, NEW q, NEW s, NEW file, Replaces(q, s, file)
    PROVE  DirectoryInv' /\ FilesGrow
<1>0. /\ LogsInv /\ FilesInv /\ ContentInv
      /\ wal' = wal /\ fusionWAL' = fusionWAL /\ current' = current /\ written' = written
      /\ q # current /\ FileHolds(file, q, s)
  BY DEF DirectoryInv, Replaces
<1>1. LogsInv'
  BY <1>0 DEF LogsInv, InOrder, Entries, UniqueCommits
<1>2. \A f, n, t : FileHolds(f, n, t)' = FileHolds(f, n, t)
  BY <1>0, SameFilesHold
<1>3. ASSUME NEW n \in 0 .. MaxSequence, NEW t \in Shard PROVE FileHolds(snapshots[n][t], n, t)'
  <2>1. FileHolds(snapshots'[n][t], n, t)
    <3>1. CASE n = q /\ t = s
      BY <1>0, <3>1, ReplacedIs
    <3>2. CASE n # q \/ t # s
      <4>1. snapshots'[n][t] = snapshots[n][t]
        BY <1>0, <3>2, ReplacedIs
      <4>. QED BY <1>0, <4>1 DEF FilesInv
    <3>. QED BY <3>1, <3>2
  <2>. QED BY <1>2, <2>1
<1>4. ASSUME current # NoFile, NEW t \in Shard PROVE Loads(snapshots'[current][t], current, t)
  <2>1. current \in 0 .. MaxSequence /\ Loads(snapshots[current][t], current, t)
    BY <1>0, <1>4 DEF FilesInv, Usable
  <2>2. snapshots'[current][t] = snapshots[current][t]
    BY <1>0, <2>1, ReplacedIs
  <2>. QED BY <2>1, <2>2
<1>5. FilesInv'
  <2>1. IsTable(snapshots)'
    BY <1>0, ReplacedIs DEF IsTable
  <2>. QED BY <1>0, <1>3, <1>4, <2>1 DEF FilesInv, Usable
<1>6. ContentInv'
  BY <1>0, SameFilesHold DEF ContentInv
<1>. QED BY <1>0, <1>1, <1>5, <1>6, SameLogsGrow DEF DirectoryInv

\* A session whose memory and logs stay.
LEMMA MemoryStays ==
    ASSUME NEW p, MemoryInv(p), Alone(p), UNCHANGED <<wal, fusionWAL>>, SameMemory(p),
           current' = (IF pc'[p] = "again" THEN NoFile ELSE marked[p])
    PROVE  MemoryInv(p)'
<1>1. /\ \A s : Recs(s)' = Recs(s)
      /\ Known(committed[p]) <=> Known(committed'[p])
      /\ Known(committed[p])' <=> Known(committed'[p])
      /\ Committed' = Committed
  <2>1. Known(committed[p])' <=> Known(committed'[p])
    BY SameFilesHold DEF Known
  <2>. QED BY <2>1, SameFilesHold DEF SameMemory
<1>. QED BY <1>1 DEF MemoryInv, SameMemory, Entries

\* Where the marked checkpoint is not the last write, it and the snapshot to be
\* taken are different files.
LEMMA NotCurrent ==
    ASSUME Inv, ~clashed, NEW p \in Session, Alone(p), committed[p] # marked[p]
    PROVE  committed[p] \in 0 .. MaxSequence /\ committed[p] # current
<1>1. committed[p] \in 0 .. MaxSequence /\ committed[p] # NoFile
  BY InvParts, FilesAssumption DEF Typed
<1>. QED BY <1>1, InvParts DEF MemoryInv

LEMMA NoSnapshotHolds == \A q, s : FileHolds(NoSnapshot, q, s)
BY DEF FileHolds, NoSnapshot, SnapshotFile

\* A step of p within SNAPSHOT that replaces the file of shard s.
Snapshots(p, s, file) ==
    /\ Alone(p) /\ committed[p] # marked[p]
    /\ s \in Shard /\ FileHolds(file, committed[p], s)
    /\ pc[p] # "again" /\ pc'[p] \in {"write", "remove", "rename"}
    /\ pc'[p] = "rename" => cursor'[p] = 0
    /\ cursor'[p] \in Shard
    /\ snapshots' = [snapshots EXCEPT ![committed[p]][s] = file]
    /\ \A q \in Session \ {p} : SameAt(q) /\ pc[q] \notin InMethod
    /\ Touch(p)
    /\ UNCHANGED <<wal, fusionWAL, current, written, read, pending>>
    /\ SameMemory(p)

LEMMA SnapshotsKeeps ==
    ASSUME Inv, ~clashed, NEW p \in Session, NEW s, NEW file, Snapshots(p, s, file),
           pc'[p] # "rename" => \A t \in Shard : t < cursor'[p] => Usable(committed[p], t)',
           pc'[p] = "rename" => \A t \in Shard : Usable(committed[p], t)'
    PROVE  StepKeeps(p)
<1>. USE InvParts DEF DomainsInv
<1>1. /\ Alone(p) /\ committed[p] # marked[p] /\ pc'[p] \in {"write", "remove", "rename"}
      /\ pc[p] # "again" /\ Touch(p) /\ SameMemory(p) /\ cursor'[p] \in Shard
      /\ pc'[p] = "rename" => cursor'[p] = 0
      /\ UNCHANGED <<wal, fusionWAL, current, written, read, pending>>
  BY DEF Snapshots
<1>2. Replaces(committed[p], s, file)
  BY NotCurrent DEF Snapshots, Replaces
<1>3. DirectoryInv' /\ FilesGrow
  BY <1>2, ReplacesKeeps DEF DirectoryInv
<1>4. Touching(p)
  BY <1>3 DEF Touching, Snapshots
<1>5. overlapped'[p] = overlapped[p] /\ ~overlapped[p]
  BY <1>1 DEF Touch, Typed, Alone
<1>6. Typed(p)'
  BY <1>1, <1>5 DEF Typed, SameMemory
<1>7. MemoryInv(p)'
  <2>1. current' = marked[p]
    BY <1>1 DEF MemoryInv
  <2>. QED BY <1>1, <2>1, MemoryStays
<1>8. MethodInv(p)'
  BY <1>1, <1>5 DEF MethodInv, SameMemory, Usable
<1>9. ReadInv(p)'
  BY <1>1 DEF ReadInv, Reading
<1>. QED BY <1>3, <1>4, <1>6, <1>7, <1>8, <1>9, TouchingStep DEF SessionInv

LEMMA BeginSnapshotKeeps ==
    ASSUME Inv, ~clashed, ~clashed', NEW p \in Session, BeginSnapshot(p)
    PROVE  StepKeeps(p)
<1>. USE InvParts DEF DomainsInv
<1>1. /\ pc[p] = "idle" /\ pc'[p] = "write" /\ marked[p] # committed[p] /\ ~Clash(p)
      /\ snapshots' = [snapshots EXCEPT ![committed[p]][0] = NoSnapshot] /\ Touch(p)
      /\ UNCHANGED <<wal, fusionWAL, current, local, written>>
  BY DEF BeginSnapshot, Go, Ahead
<1>2. Alone(p) /\ \A q \in Session \ {p} : pc[q] \notin InMethod
  BY <1>1, WriterIsAlone
<1>3. UNCHANGED <<cursor, read, data, next, committed, marked, pending>>
  BY <1>1 DEF local, memory
<1>4. cursor'[p] = 0
  BY <1>1, <1>3 DEF Typed
<1>5. \A q \in Session \ {p} : SameAt(q)
  BY <1>3 DEF BeginSnapshot, Go, SameAt, SameMemory
<1>6. Snapshots(p, 0, NoSnapshot)
  BY <1>1, <1>2, <1>3, <1>4, <1>5, NoSnapshotHolds, ZeroIsShard DEF Snapshots, SameMemory
<1>. QED BY <1>1, <1>4, <1>6, SnapshotsKeeps, ZeroIsShard

LEMMA RemoveSnapshotKeeps ==
    ASSUME Inv, ~clashed, NEW p \in Session, RemoveSnapshot(p)
    PROVE  StepKeeps(p)
<1>. USE InvParts DEF DomainsInv
<1>. DEFINE c == cursor[p]
            q == committed[p]
<1>1. /\ pc[p] = "remove" /\ pc'[p] = "write"
      /\ snapshots' = [snapshots EXCEPT ![q][c] = NoSnapshot] /\ Touch(p)
      /\ UNCHANGED <<wal, fusionWAL, current, local, written>>
  BY DEF RemoveSnapshot, Go
<1>2. Alone(p) /\ \A r \in Session \ {p} : pc[r] \notin InMethod
  BY <1>1, WriterIsAlone DEF InMethod
<1>3. UNCHANGED <<cursor, read, data, next, committed, marked, pending>>
  BY <1>1 DEF local, memory
<1>4. /\ committed[p] # marked[p] /\ c \in Shard
      /\ \A s \in Shard : s < c => Usable(q, s)
  BY <1>1 DEF MethodInv, Typed
<1>5. \A r \in Session \ {p} : SameAt(r)
  BY <1>3 DEF RemoveSnapshot, Go, SameAt, SameMemory
<1>6. Snapshots(p, c, NoSnapshot)
  BY <1>1, <1>2, <1>3, <1>4, <1>5, NoSnapshotHolds DEF Snapshots, SameMemory
<1>7. Replaces(q, c, NoSnapshot)
  BY <1>1, <1>2, <1>4, NotCurrent, NoSnapshotHolds DEF Replaces
<1>8. \A t \in Shard : t < c => t # c /\ Usable(q, t)
  BY <1>4, ZeroIsShard
<1>9. \A t \in Shard : t < cursor'[p] => Usable(committed[p], t)'
  <2>1. ASSUME NEW t \in Shard, t < c PROVE snapshots'[q][t] = snapshots[q][t]
    BY <1>4, <1>7, <1>8, <2>1, ReplacedIs DEF Replaces
  <2>. QED BY <1>3, <1>8, <2>1 DEF Usable
<1>. QED BY <1>1, <1>6, <1>9, SnapshotsKeeps


\* The part of the memory that belongs to a shard.
HeldBy(p, s) == [k \in Keys |-> IF Route(k) = s THEN data[p][k] ELSE Absent]

LEMMA WholeFileHolds ==
    ASSUME Inv, ~clashed, NEW p \in Session, Alone(p), NEW s \in Shard
    PROVE  /\ Loads(Whole(committed[p], HeldBy(p, s)), committed[p], s)
           /\ FileHolds(Whole(committed[p], HeldBy(p, s)), committed[p], s)
<1>. DEFINE q == committed[p]
            file == Whole(q, HeldBy(p, s))
<1>. USE InvParts
<1>1. /\ file.state = "whole" /\ file.sequence = q
      /\ \A k \in Keys : file.records[k] = IF Route(k) = s THEN data[p][k] ELSE Absent
  BY DEF Whole, SnapshotFile, HeldBy
<1>2. data[p] = Committed /\ Known(q) /\ \A e \in Recs(s) : e.sequence <= q
  BY DEF MemoryInv
<1>. HIDE DEF file
<1>3. UpTo(s, q) = Recs(s)
  BY <1>2 DEF UpTo
<1>4. ASSUME NEW k \in Keys PROVE file.records[k] = ValueIn(Recs(s), k, Absent)
  <2>1. CASE Route(k) = s
    BY <1>1, <1>2, <2>1 DEF Committed, Content
  <2>2. CASE Route(k) # s
    <3>1. About(Recs(s), k) = {}
      BY <2>2, RecsFacts DEF About
    <3>. QED BY <1>1, <2>2, <3>1 DEF ValueIn
  <2>. QED BY <2>1, <2>2
<1>5. FileHolds(file, q, s)
  BY <1>2, <1>3, <1>4 DEF FileHolds
<1>6. Loads(file, q, s)
  BY <1>1 DEF Loads
<1>. QED BY <1>5, <1>6 DEF file

LEMMA WriteSnapshotKeeps ==
    ASSUME Inv, ~clashed, NEW p \in Session, WriteSnapshot(p)
    PROVE  StepKeeps(p)
<1>. USE InvParts DEF DomainsInv
<1>. DEFINE c == cursor[p]
            q == committed[p]
            file == Whole(q, HeldBy(p, c))
<1>1. /\ pc[p] = "write" /\ pc'[p] = (IF NextShard(p) = 0 THEN "rename" ELSE "remove")
      /\ snapshots' = [snapshots EXCEPT ![q][c] = file] /\ Touch(p)
      /\ cursor'[p] = NextShard(p)
      /\ UNCHANGED <<wal, fusionWAL, current, read, memory, pending, written>>
  BY DEF WriteSnapshot, Go, HeldBy
<1>2. Alone(p) /\ \A r \in Session \ {p} : pc[r] \notin InMethod
  BY <1>1, WriterIsAlone DEF InMethod
<1>3. UNCHANGED <<data, next, committed, marked>>
  BY <1>1 DEF memory
<1>4. /\ committed[p] # marked[p] /\ c \in Shard
      /\ \A s \in Shard : s < c => Usable(q, s)
  BY <1>1 DEF MethodInv, Typed
<1>5. /\ NextShard(p) \in Shard
      /\ \A s \in Shard : NextShard(p) = 0 \/ s < NextShard(p) => s < c \/ s = c
  BY <1>4, NextShardIs
<1>6. \A r \in Session \ {p} : SameAt(r)
  BY <1>3, <1>1 DEF WriteSnapshot, Go, SameAt, SameMemory
<1>7. Loads(file, q, c) /\ FileHolds(file, q, c)
  BY <1>2, <1>4, WholeFileHolds
<1>. HIDE DEF file
<1>8. Snapshots(p, c, file)
  BY <1>1, <1>2, <1>3, <1>4, <1>5, <1>6, <1>7 DEF Snapshots, SameMemory
<1>9. Replaces(q, c, file)
  BY <1>1, <1>2, <1>4, <1>7, NotCurrent DEF Replaces
<1>10. ASSUME NEW t \in Shard, NextShard(p) = 0 \/ t < NextShard(p) PROVE Usable(committed[p], t)'
  <2>1. CASE t = c
    <3>1. snapshots'[q][t] = file
      BY <1>9, <2>1, ReplacedIs
    <3>. QED BY <1>3, <1>7, <2>1, <3>1 DEF Usable
  <2>2. CASE t # c
    <3>1. snapshots'[q][t] = snapshots[q][t]
      BY <1>9, <2>2, ReplacedIs DEF Replaces
    <3>2. Usable(q, t)
      BY <1>4, <1>5, <1>10, <2>2
    <3>. QED BY <1>3, <3>1, <3>2 DEF Usable
  <2>. QED BY <2>1, <2>2
<1>11. pc'[p] = "rename" => NextShard(p) = 0
  BY <1>1
<1>. QED BY <1>1, <1>8, <1>10, <1>11, SnapshotsKeeps

\* The checkpoint is renamed to a snapshot all of whose files are usable, or is
\* removed.
PointsTo(q) ==
    /\ q = NoFile \/ (q \in 0 .. MaxSequence /\ \A s \in Shard : Usable(q, s))
    /\ current' = q
    /\ UNCHANGED <<wal, fusionWAL, snapshots, written>>

LEMMA PointsToKeeps ==
    ASSUME DirectoryInv, NEW q, PointsTo(q)
    PROVE  DirectoryInv' /\ FilesGrow
<1>0. /\ LogsInv /\ FilesInv /\ ContentInv
      /\ wal' = wal /\ fusionWAL' = fusionWAL /\ snapshots' = snapshots /\ written' = written
      /\ current' = q
  BY DEF DirectoryInv, PointsTo
<1>1. LogsInv'
  BY <1>0 DEF LogsInv, InOrder, Entries, UniqueCommits
<1>2. FilesInv'
  <2>1. \A f, n, t : FileHolds(f, n, t)' = FileHolds(f, n, t)
    BY <1>0, SameFilesHold
  <2>2. \A n \in 0 .. MaxSequence, t \in Shard : FileHolds(snapshots'[n][t], n, t)
    BY <1>0 DEF FilesInv
  <2>3. q \in 0 .. MaxSequence \cup {NoFile} /\ (q # NoFile => \A s \in Shard : Usable(q, s))
    BY DEF PointsTo
  <2>. QED BY <1>0, <2>1, <2>2, <2>3 DEF FilesInv, IsTable, Usable
<1>3. ContentInv'
  BY <1>0, SameFilesHold DEF ContentInv
<1>. QED BY <1>0, <1>1, <1>2, <1>3, SameLogsGrow DEF DirectoryInv

LEMMA RenameKeeps ==
    ASSUME Inv, ~clashed, NEW p \in Session, Rename(p)
    PROVE  StepKeeps(p)
<1>. USE InvParts DEF DomainsInv
<1>. DEFINE q == committed[p]
<1>1. /\ pc[p] \in {"rename", "again"} /\ pc'[p] = "idle"
      /\ current' = q /\ marked'[p] = q /\ Touch(p)
      /\ UNCHANGED <<wal, fusionWAL, snapshots, cursor, read, data, next, committed, pending, written>>
  BY DEF Rename, Go
<1>2. Alone(p) /\ ~overlapped[p] /\ \A r \in Session \ {p} : pc[r] \notin InMethod
  BY <1>1, WriterIsAlone DEF InMethod, Alone
<1>3. q \in 0 .. MaxSequence /\ \A s \in Shard : Usable(q, s)
  BY <1>1 DEF MethodInv, Typed
<1>4. DirectoryInv' /\ FilesGrow
  <2>1. PointsTo(q)
    BY <1>1, <1>3 DEF PointsTo
  <2>. QED BY <2>1, PointsToKeeps DEF DirectoryInv
<1>5. Touching(p)
  <2>1. \A r \in Session \ {p} : SameAt(r)
    BY <1>1 DEF Rename, Go, SameAt, SameMemory
  <2>. QED BY <1>1, <1>2, <1>4, <2>1 DEF Touching
<1>6. overlapped'[p] = overlapped[p]
  BY <1>1, <1>2 DEF Touch, Typed
<1>7. Typed(p)'
  BY <1>1, <1>6 DEF Typed
<1>8. MemoryInv(p)'
  <2>1. Known(committed[p])' <=> Known(committed[p])
    BY <1>1, SameFilesHold DEF Known
  <2>. QED BY <1>1, <1>2, <2>1, SameFilesHold DEF MemoryInv, Entries
<1>9. MethodInv(p)'
  BY <1>1 DEF MethodInv, InMethod
<1>10. ReadInv(p)'
  BY <1>1 DEF ReadInv, Reading
<1>. QED BY <1>4, <1>5, <1>7, <1>8, <1>9, <1>10, TouchingStep DEF SessionInv

LEMMA RemoveCheckpointKeeps ==
    ASSUME Inv, ~clashed, NEW p \in Session, RemoveCheckpoint(p)
    PROVE  StepKeeps(p)
<1>. USE InvParts DEF DomainsInv
<1>1. /\ pc[p] = "rename" /\ pc'[p] = "again" /\ current' = NoFile /\ Touch(p)
      /\ UNCHANGED <<wal, fusionWAL, snapshots, local, written>>
  BY DEF RemoveCheckpoint, Go
<1>2. Alone(p) /\ ~overlapped[p] /\ \A r \in Session \ {p} : pc[r] \notin InMethod
  BY <1>1, WriterIsAlone DEF InMethod, Alone
<1>3. UNCHANGED <<cursor, read, data, next, committed, marked, pending>>
  BY <1>1 DEF local, memory
<1>4. DirectoryInv' /\ FilesGrow
  <2>1. PointsTo(NoFile)
    BY <1>1 DEF PointsTo
  <2>. QED BY <2>1, PointsToKeeps DEF DirectoryInv
<1>5. Touching(p)
  <2>1. \A r \in Session \ {p} : SameAt(r)
    BY <1>3 DEF RemoveCheckpoint, Go, SameAt, SameMemory
  <2>. QED BY <1>1, <1>2, <1>4, <2>1 DEF Touching
<1>6. overlapped'[p] = overlapped[p]
  BY <1>1, <1>2 DEF Touch, Typed
<1>7. Typed(p)'
  BY <1>1, <1>3, <1>6 DEF Typed
<1>8. MemoryInv(p)'
  <2>1. SameMemory(p) /\ current' = (IF pc'[p] = "again" THEN NoFile ELSE marked[p])
    BY <1>1, <1>3 DEF SameMemory
  <2>. QED BY <1>1, <1>2, <2>1, MemoryStays
<1>9. MethodInv(p)'
  <2>1. \A s \in Shard : Usable(committed[p], s)
    BY <1>1 DEF MethodInv
  <2>2. \A s \in Shard : Usable(committed[p], s)'
    BY <1>1, <1>3, <2>1 DEF Usable
  <2>. QED BY <1>1, <1>2, <1>6, <2>2 DEF MethodInv
<1>10. ReadInv(p)'
  BY <1>1, <1>3 DEF ReadInv, Reading
<1>. QED BY <1>4, <1>5, <1>7, <1>8, <1>9, <1>10, TouchingStep DEF SessionInv

-----------------------------------------------------------------------------
(* The invariant and what follows from it                                  *)

LEMMA InitInv ==
    ASSUME Init
    PROVE  Inv
<1>. USE DEF Init, Nothing
<1>1. DomainsInv
  BY DEF DomainsInv
<1>2. LogsInv
  BY DEF LogsInv, InOrder, Entries, UniqueCommits
<1>3. \A k \in Keys : Content(k) = Absent
  BY RouteInShard DEF Content, Recs, CommittedIn, Entries, ValueIn, About
<1>4. ContentInv
  BY <1>3 DEF ContentInv, Committed, EmptyMap
<1>5. FilesInv
  BY NoSnapshotHolds DEF FilesInv, IsTable
<1>6. OneWriter
  BY DEF OneWriter, InMethod
<1>7. ASSUME NEW p \in Session PROVE SessionInv(p)
  <2>1. Typed(p)
    <3>1. /\ pc[p] = "out" /\ cursor[p] = 0 /\ next[p] = 1 /\ committed[p] = 0
          /\ overlapped[p] = FALSE
      OBVIOUS
    <3>2. 1 \in 1 .. MaxSequence + 1 /\ 0 \in 0 .. MaxSequence
      BY FilesAssumption
    <3>. HIDE DEF Init, Nothing
    <3>3. /\ pc[p] \in {"out", "snapshots", "logs", "fusion", "idle", "refused",
                       "commit", "remove", "write", "rename", "again"}
          /\ pc[p] # "refused"
      BY <3>1
    <3>4. cursor[p] \in Shard /\ overlapped[p] \in BOOLEAN
      BY <3>1, ZeroIsShard
    <3>5. next[p] \in 1 .. MaxSequence + 1 /\ committed[p] \in 0 .. MaxSequence
      BY <3>1, <3>2
    <3>. QED BY <3>1, <3>3, <3>4, <3>5 DEF Typed
  <2>2. MemoryInv(p) /\ MethodInv(p)
    BY DEF MemoryInv, MethodInv, Alone, Live, InMethod
  <2>3. ReadInv(p)
    <3>1. pc[p] = "out" /\ read[p] = Nothing
      OBVIOUS
    <3>. HIDE DEF Init
    <3>2. IsTable(Nothing.snapshots)
      BY DEF IsTable
    <3>3. /\ Nothing.wal \in [Shard -> Seq(Entry)]
          /\ \A s \in Shard : Nothing.wal[s] = <<>>
          /\ DOMAIN Nothing = {"wal", "current", "snapshots"}
      OBVIOUS
    <3>. QED BY <3>1, <3>2, <3>3 DEF ReadInv, Reading
  <2>. QED BY <2>1, <2>2, <2>3 DEF SessionInv
<1>8. \A p \in Session : pc[p] # "refused"
  OBVIOUS
<1>. QED BY <1>1, <1>2, <1>4, <1>5, <1>6, <1>7, <1>8 DEF Inv, DirectoryInv

LEMMA DomainsKeep ==
    ASSUME DomainsInv, NEW p \in Session,
           \/ Start(p) \/ ReadSnapshot(p) \/ ReadLog(p) \/ ReadFusion(p) \/ Refuse(p)
           \/ (\E k \in Keys, v \in Contents : Write(p, k, v))
           \/ Commit(p) \/ BeginSnapshot(p) \/ RemoveSnapshot(p) \/ WriteSnapshot(p)
           \/ Rename(p) \/ RemoveCheckpoint(p) \/ End(p)
    PROVE  DomainsInv'
<1>. USE DEF DomainsInv, memory, local, history, Go, Touch
<1>1. CASE Start(p) BY <1>1 DEF Start
<1>2. CASE ReadSnapshot(p) BY <1>2 DEF ReadSnapshot
<1>3. CASE ReadLog(p) BY <1>3 DEF ReadLog
<1>4. CASE ReadFusion(p) BY <1>4 DEF ReadFusion
<1>5. CASE Refuse(p) BY <1>5 DEF Refuse
<1>6. CASE \E k \in Keys, v \in Contents : Write(p, k, v) BY <1>6 DEF Write
<1>7. CASE Commit(p) BY <1>7 DEF Commit
<1>8. CASE BeginSnapshot(p) BY <1>8 DEF BeginSnapshot
<1>9. CASE RemoveSnapshot(p) BY <1>9 DEF RemoveSnapshot
<1>10. CASE WriteSnapshot(p) BY <1>10 DEF WriteSnapshot
<1>11. CASE Rename(p) BY <1>11 DEF Rename
<1>12. CASE RemoveCheckpoint(p) BY <1>12 DEF RemoveCheckpoint
<1>13. CASE End(p) BY <1>13 DEF End
<1>. QED BY <1>1, <1>2, <1>3, <1>4, <1>5, <1>6, <1>7, <1>8, <1>9, <1>10, <1>11, <1>12, <1>13

\* Unless sessions clash, a step of one keeps the invariant.
LEMMA StepInv ==
    ASSUME Inv, ~clashed, ~clashed', NEW p \in Session, StepKeeps(p), DomainsInv'
    PROVE  Inv'
<1>1. \A q \in Session : SessionInv(q)'
  BY DEF StepKeeps, OthersKeep
<1>2. \A q \in Session : pc'[q] = "refused" => overlapped'[q]
  BY <1>1 DEF SessionInv, Typed
<1>. QED BY <1>1, <1>2 DEF StepKeeps, Inv

\* With the first step of a clash, only writing methods begin.
LEMMA ClashInv ==
    ASSUME Inv, clashed', NEW p \in Session, DomainsInv',
           (\E k \in Keys, v \in Contents : Write(p, k, v)) \/ BeginSnapshot(p)
    PROVE  Inv'
<1>1. /\ pc'[p] # "refused" /\ \A q \in Session \ {p} : pc'[q] = pc[q]
      /\ Touch(p)
  <2>1. CASE \E k \in Keys, v \in Contents : Write(p, k, v)
    BY <2>1 DEF Write, Go, Inv, DomainsInv
  <2>2. CASE BeginSnapshot(p)
    BY <2>2 DEF BeginSnapshot, Go, Inv, DomainsInv
  <2>. QED BY <2>1, <2>2
<1>2. ASSUME NEW q \in Session, pc'[q] = "refused" PROVE overlapped'[q]
  BY <1>1, <1>2 DEF Touch, Inv
<1>. QED BY <1>2 DEF Inv

LEMMA NextInv ==
    ASSUME Inv, Next
    PROVE  Inv'
<1>0. ~clashed
  BY DEF Next
<1>1. PICK p \in Session :
         \/ Start(p) \/ ReadSnapshot(p) \/ ReadLog(p) \/ ReadFusion(p) \/ Refuse(p)
         \/ (\E k \in Keys, v \in Contents : Write(p, k, v))
         \/ Commit(p) \/ BeginSnapshot(p) \/ RemoveSnapshot(p) \/ WriteSnapshot(p)
         \/ Rename(p) \/ RemoveCheckpoint(p) \/ End(p)
  BY DEF Next
<1>2. DomainsInv'
  BY <1>1, DomainsKeep DEF Inv
<1>. USE <1>0, <1>2
<1>3. CASE Start(p) \/ ReadSnapshot(p) \/ ReadLog(p) \/ ReadFusion(p) \/ Refuse(p) \/ End(p)
  <2>1. clashed' = clashed
    BY <1>3 DEF Start, ReadSnapshot, ReadLog, ReadFusion, Refuse, End, history
  <2>2. StepKeeps(p)
    BY <1>3, StartKeeps, ReadSnapshotKeeps, ReadLogKeeps, ReadFusionKeeps, RefuseKeeps, EndKeeps
  <2>. QED BY <2>1, <2>2, StepInv
<1>4. CASE (\E k \in Keys, v \in Contents : Write(p, k, v)) \/ BeginSnapshot(p)
  <2>1. CASE clashed'
    BY <1>4, <2>1, ClashInv
  <2>2. CASE ~clashed'
    BY <1>4, <2>2, WriteKeeps, BeginSnapshotKeeps, StepInv
  <2>. QED BY <2>1, <2>2
<1>5. CASE Commit(p) \/ RemoveSnapshot(p) \/ WriteSnapshot(p) \/ Rename(p) \/ RemoveCheckpoint(p)
  <2>1. clashed' = clashed
    BY <1>5 DEF Commit, RemoveSnapshot, WriteSnapshot, Rename, RemoveCheckpoint
  <2>2. StepKeeps(p)
    BY <1>5, CommitKeeps, RemoveSnapshotKeeps, WriteSnapshotKeeps, RenameKeeps,
       RemoveCheckpointKeeps
  <2>. QED BY <2>1, <2>2, StepInv
<1>. QED BY <1>1, <1>3, <1>4, <1>5

LEMMA StutterInv ==
    ASSUME Inv, UNCHANGED vars
    PROVE  Inv'
<1>. USE DEF vars, files, local, memory, history
<1>1. DomainsInv' /\ \A p \in Session : pc'[p] = "refused" => overlapped'[p]
  BY DEF Inv, DomainsInv
<1>2. CASE clashed
  BY <1>1, <1>2 DEF Inv
<1>3. CASE ~clashed
  <2>1. DirectoryInv'
    BY <1>3, QuietDirectory DEF Inv
  <2>2. OneWriter'
    BY <1>3 DEF Inv, OneWriter
  <2>3. \A p \in Session : SameAt(p) /\ overlapped'[p] = overlapped[p] /\ UNCHANGED files
    BY DEF SameAt, SameMemory
  <2>4. \A p \in Session : SessionInv(p)'
    BY <1>3, <2>3, QuietKeeps DEF Inv
  <2>. QED BY <1>1, <2>1, <2>2, <2>4 DEF Inv
<1>. QED BY <1>2, <1>3

LEMMA InvAlways == Spec => []Inv
<1>1. Init => Inv
  BY InitInv
<1>2. Inv /\ [Next]_vars => Inv'
  BY NextInv, StutterInv
<1>. QED BY <1>1, <1>2, PTL DEF Spec

\* As long as writing sessions take turns (main.go's callers see to that, for
\* nothing in it does), the files can be opened at every moment and hold what was
\* written, whatever was snapshot, renamed or half read when a session was killed.
THEOREM SessionsKeepWrites == Spec => []TurnsKeepWrites
<1>1. Inv => TurnsKeepWrites
  BY FilesHold DEF Inv, DirectoryInv, ContentInv, TurnsKeepWrites
<1>. QED BY <1>1, InvAlways, PTL

\* Database.Open turns away only a session that another one wrote under.
THEOREM OthersRefuseNone == Spec => []RefusedOnlyIfOverlapped
<1>1. Inv => RefusedOnlyIfOverlapped
  BY DEF Inv, RefusedOnlyIfOverlapped
<1>. QED BY <1>1, InvAlways, PTL

\* What GET answers from memory in a session that no other wrote under is what
\* a restart would find on disk.
THEOREM SessionsMatchFiles == Spec => []MemoryMatchesFiles
<1>1. ASSUME Inv PROVE MemoryMatchesFiles
  <2>1. SUFFICES ASSUME ~clashed, NEW p \in Session, pc[p] = "idle", ~overlapped[p]
                 PROVE  data[p] = Recovered
    BY DEF MemoryMatchesFiles
  <2>2. Recovered = Committed
    BY <1>1, <2>1, FilesHold DEF Inv, DirectoryInv
  <2>3. data[p] = Committed
    BY <1>1, <2>1 DEF Inv, SessionInv, MemoryInv, Alone, Live
  <2>. QED BY <2>2, <2>3
<1>. QED BY <1>1, InvAlways, PTL

\* Open either fails or gives the contents as of its last read, however the
\* files changed between its reads.
THEOREM SessionsOpenCommitted == Spec => OpensWhatIsCommitted
<1>. DEFINE Opens == \A p \in Session : pc[p] = "fusion" /\ pc'[p] = "idle" => data'[p] = written
<1>1. ASSUME Inv, Next PROVE Opens
  <2>1. SUFFICES ASSUME NEW p \in Session, pc[p] = "fusion", pc'[p] = "idle"
                 PROVE  data'[p] = written
    OBVIOUS
  <2>2. ~clashed /\ ContentInv
    BY <1>1 DEF Next, Inv, DirectoryInv
  <2>3. ReadFusion(p)
    <3>. DEFINE Sets(q, to) == pc' = [pc EXCEPT ![q] = to]
                Passes(q) == \E to : Sets(q, to) /\ (pc[q] = "fusion" => to # "idle")
    <3>1. PICK q \in Session :
             \/ Start(q) \/ ReadSnapshot(q) \/ ReadLog(q) \/ ReadFusion(q) \/ Refuse(q)
             \/ (\E k \in Keys, v \in Contents : Write(q, k, v))
             \/ Commit(q) \/ BeginSnapshot(q) \/ RemoveSnapshot(q) \/ WriteSnapshot(q)
             \/ Rename(q) \/ RemoveCheckpoint(q) \/ End(q)
      BY <1>1 DEF Next
    <3>2. DOMAIN pc = Session
      BY <1>1 DEF Inv, DomainsInv
    <3>3. ~Passes(q)
      BY <2>1, <3>2
    <3>4. CASE ReadFusion(q)
      <4>1. Sets(q, "idle")
        BY <3>4 DEF ReadFusion, Go
      <4>2. q = p
        BY <2>1, <3>2, <4>1
      <4>. QED BY <3>4, <4>2
    <3>5. CASE Start(q) \/ Refuse(q) \/ End(q)
      BY <3>3, <3>5 DEF Start, Refuse, End, Go
    <3>6. CASE ReadSnapshot(q) \/ ReadLog(q)
      BY <3>3, <3>6 DEF ReadSnapshot, ReadLog, Go
    <3>7. CASE \E k \in Keys, v \in Contents : Write(q, k, v)
      BY <3>3, <3>7 DEF Write, Go
    <3>8. CASE Commit(q) \/ BeginSnapshot(q)
      BY <3>3, <3>8 DEF Commit, BeginSnapshot, Go
    <3>9. CASE RemoveSnapshot(q) \/ WriteSnapshot(q)
      BY <3>3, <3>9 DEF RemoveSnapshot, WriteSnapshot, Go
    <3>10. CASE Rename(q) \/ RemoveCheckpoint(q)
      BY <3>3, <3>10 DEF Rename, RemoveCheckpoint, Go
    <3>. QED BY <3>1, <3>4, <3>5, <3>6, <3>7, <3>8, <3>9, <3>10
  <2>4. View(p, fusionWAL)!Openable /\ data'[p] = View(p, fusionWAL)!Recovered
    BY <1>1, <2>3 DEF ReadFusion, Inv, DomainsInv
  <2>5. data'[p] = Committed
    BY <1>1, <2>1, <2>2, <2>4, OpensWhatIsWritten
  <2>. QED BY <2>2, <2>5 DEF ContentInv
<1>2. Inv /\ [Next]_vars => [Opens]_vars
  BY <1>1
<1>. HIDE DEF Opens
<1>3. Spec => [][Opens]_vars
  BY <1>2, InvAlways, PTL DEF Spec
<1>. QED BY <1>3 DEF OpensWhatIsCommitted, Opens
=============================================================================
