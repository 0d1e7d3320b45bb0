---------------------------- MODULE DatabaseProofs ----------------------------
(***************************************************************************)
(* Database for all shards, keys, values, faults and bounds.  Its logs and *)
(* snapshots are always fit to be opened; what they hold is what the       *)
(* client was told; the backup carries the records of every shard.  The    *)
(* sections after those are about the abstract store that Database         *)
(* implements, about opening with an older checkpoint or none, and about   *)
(* databases without logs.                                                 *)
(*                                                                         *)
(* A log is replayed by position.  The proofs see it as the set of its     *)
(* committed records, of which the one with the largest sequence number    *)
(* decides; that is the same because the logs are in order.                *)
(***************************************************************************)
EXTENDS UnloggedDatabase, DatabaseCheckpoints, FusedKVProofs

-----------------------------------------------------------------------------
(* Logs and snapshots are fit to be opened                                 *)

AnyEntry == Entry \cup {TornEntry}

Writing == pc \in {"source", "fusion", "apply"}
Snapshotting == pc \in {"remove", "write"}
Pointing == pc \in {"checkpoint", "rename", "unlink", "again"}

LogsTyped ==
    /\ wal \in [Shard -> Seq(AnyEntry)]
    /\ fusionWAL \in Seq(AnyEntry)

\* The numbers and the running method.
MethodTyped ==
    /\ next \in 1 .. MaxSequence + 1
    /\ committed \in 0 .. MaxSequence
    /\ cursor \in Shard
    /\ pc = "idle" \/ Writing \/ Snapshotting \/ Pointing
    /\ pc # "idle" => status = "up"
    /\ Writing => pending \in Entry /\ pending.shard = Route(pending.key)

\* A number handed out is used once: the pending record's is in a log only
\* after its append, and every number in a log is below next.
Fresh ==
    /\ status = "up" =>
          /\ \A s \in Shard : \A e \in Entries(wal[s]) : e.sequence < next
          /\ \A e \in Entries(fusionWAL) : e.sequence < next
    /\ Writing => pending.sequence < next
    /\ pc = "source" =>
          \A s \in Shard : \A e \in Entries(wal[s]) : e.sequence # pending.sequence
    /\ pc = "fusion" => pending \in Entries(wal[pending.shard])
    /\ pc \in {"source", "fusion"} =>
          \A e \in Entries(fusionWAL) : e.sequence # pending.sequence

LogInv == LogsTyped /\ MethodTyped /\ Fresh /\ LogsAgree

-----------------------------------------------------------------------------
(* Facts about the data                                                    *)

\* Every key has a shard.
LEMMA RouteInShard == \A k \in Keys : Route(k) \in Shard
BY SourceAssumption, XorAssumption, FilesAssumption, DatabaseAssumption DEF Route, Shard, Source

\* A record that was partly written is no record, and has no number of one.
LEMMA TornIsNoEntry ==
    /\ TornEntry \notin Entry /\ NoEntry \notin Entry
    /\ TornEntry.sequence = 0
    /\ \A e \in Entry : e.sequence \in Nat /\ e.sequence >= 1 /\ e.sequence <= MaxSequence
BY FilesAssumption, DatabaseAssumption DEF TornEntry, NoEntry, Entry, Sequence

\* What Append does to the positions and the records of a log.
LEMMA AppendLog ==
    ASSUME NEW T, NEW log \in Seq(T), NEW e \in T
    PROVE  /\ Append(log, e) \in Seq(T)
           /\ DOMAIN Append(log, e) = DOMAIN log \cup {Len(log) + 1}
           /\ Len(log) + 1 \notin DOMAIN log
           /\ \A i \in DOMAIN log : Append(log, e)[i] = log[i]
           /\ Append(log, e)[Len(log) + 1] = e
           /\ Entries(Append(log, e)) = Entries(log) \cup {e}
<1>1. /\ Append(log, e) \in Seq(T)
      /\ DOMAIN Append(log, e) = DOMAIN log \cup {Len(log) + 1}
      /\ Len(log) + 1 \notin DOMAIN log
      /\ \A i \in DOMAIN log : Append(log, e)[i] = log[i]
      /\ Append(log, e)[Len(log) + 1] = e
  OBVIOUS
<1>2. Entries(Append(log, e)) = Entries(log) \cup {e}
  BY <1>1, Zenon DEF Entries
<1>. QED BY <1>1, <1>2

-----------------------------------------------------------------------------
(* How the logs may grow                                                   *)

\* The running method appends its record, or a part of it, to its shard's log.
LEMMA SourceGrows ==
    ASSUME LogInv, pc = "source",
           NEW e \in {pending, TornEntry},
           wal' = [wal EXCEPT ![pending.shard] = Append(@, e)],
           UNCHANGED fusionWAL
    PROVE  /\ LogsTyped'
           /\ \A s \in Shard : Entries(wal'[s]) \subseteq Entries(wal[s]) \cup {e}
           /\ e \in Entries(wal'[pending.shard])
           /\ LogsAgree'
<1>. DEFINE s0 == pending.shard
            new == Len(wal[s0]) + 1
<1>1. /\ s0 \in Shard /\ s0 = Route(pending.key)
      /\ pending \in Entry /\ e \in AnyEntry
  BY RouteInShard DEF LogInv, MethodTyped, Writing, AnyEntry, Entry
<1>2. /\ wal'[s0] = Append(wal[s0], e)
      /\ \A s \in Shard : s # s0 => wal'[s] = wal[s]
      /\ DOMAIN wal' = Shard
  BY <1>1 DEF LogInv, LogsTyped
<1>3. /\ wal'[s0] \in Seq(AnyEntry)
      /\ DOMAIN wal'[s0] = DOMAIN wal[s0] \cup {new}
      /\ new \notin DOMAIN wal[s0]
      /\ \A i \in DOMAIN wal[s0] : wal'[s0][i] = wal[s0][i]
      /\ wal'[s0][new] = e
      /\ Entries(wal'[s0]) = Entries(wal[s0]) \cup {e}
  BY <1>1, <1>2, AppendLog DEF LogInv, LogsTyped
<1>4. LogsTyped'
  BY <1>2, <1>3 DEF LogInv, LogsTyped
<1>5. \A s \in Shard : /\ Entries(wal[s]) \subseteq Entries(wal'[s])
                       /\ Entries(wal'[s]) \subseteq Entries(wal[s]) \cup {e}
  BY <1>2, <1>3
<1>6. e \in Entries(wal'[s0])
  BY <1>3
<1>7. LoggedOnce'
  <2>1. \A s \in Shard : \A x \in Entries(wal'[s]) \ {TornEntry} :
           x.shard = s /\ Route(x.key) = s
    <3>1. SUFFICES ASSUME NEW s \in Shard, NEW x \in Entries(wal'[s]), x # TornEntry
                   PROVE  x.shard = s /\ Route(x.key) = s
      BY Zenon
    <3>2. CASE x \in Entries(wal[s])
      BY <3>1, <3>2 DEF LogInv, LogsAgree, LoggedOnce
    <3>3. CASE x \notin Entries(wal[s])
      <4>1. s = s0 /\ x = pending
        BY <1>2, <1>3, <3>1, <3>3
      <4>. QED BY <4>1, <1>1
    <3>. QED BY <3>2, <3>3
  <2>2. ASSUME NEW s \in Shard, NEW t \in Shard,
               NEW i \in DOMAIN wal'[s], NEW j \in DOMAIN wal'[t],
               wal'[s][i] # TornEntry, wal'[s][i].sequence = wal'[t][j].sequence
        PROVE  s = t /\ i = j
    <3>. DEFINE IsNew(u, n) == u = s0 /\ n = new
    <3>1. \A u \in Shard : \A n \in DOMAIN wal'[u] :
             IF IsNew(u, n) THEN wal'[u][n] = e
             ELSE n \in DOMAIN wal[u] /\ wal'[u][n] = wal[u][n]
      BY <1>2, <1>3
    <3>2. \A u \in Shard : \A n \in DOMAIN wal[u] :
             /\ wal[u][n] \in Entries(wal[u])
             /\ wal[u][n] \in AnyEntry
             /\ wal[u][n].sequence # pending.sequence
      <4>1. \A u \in Shard : \A n \in DOMAIN wal[u] : wal[u][n] \in AnyEntry
        BY DEF LogInv, LogsTyped
      <4>. QED BY <4>1 DEF LogInv, Fresh, Entries
    <3>3. CASE IsNew(s, i) /\ IsNew(t, j)
      BY <3>3
    <3>4. CASE IsNew(s, i) /\ ~IsNew(t, j)
      BY <2>2, <3>1, <3>2, <3>4
    <3>5. CASE ~IsNew(s, i) /\ IsNew(t, j)
      <4>1. wal[s][i] \in Entry
        BY <2>2, <3>1, <3>2, <3>5 DEF AnyEntry
      <4>2. e = TornEntry => wal[s][i].sequence = 0
        BY <2>2, <3>1, <3>5, TornIsNoEntry
      <4>3. e = pending => wal[s][i].sequence = pending.sequence
        BY <2>2, <3>1, <3>5
      <4>. QED BY <4>1, <4>2, <4>3, <3>1, <3>2, <3>5, TornIsNoEntry
    <3>6. CASE ~IsNew(s, i) /\ ~IsNew(t, j)
      BY <2>2, <3>1, <3>6 DEF LogInv, LogsAgree, LoggedOnce
    <3>. QED BY <3>3, <3>4, <3>5, <3>6
  <2>. QED BY <2>1, <2>2 DEF LoggedOnce
<1>8. CommitsLogged'
  <2>1. \A c \in Entries(fusionWAL) \ {TornEntry} : c.shard \in Shard
    BY DEF LogInv, LogsTyped, Entries, AnyEntry, Entry
  <2>. QED BY <1>5, <2>1 DEF LogInv, LogsAgree, CommitsLogged
<1>. QED BY <1>4, <1>5, <1>6, <1>7, <1>8 DEF LogsAgree

\* The running method appends its record, or a part of it, to the backup's log.
LEMMA FusionGrows ==
    ASSUME LogInv, pc = "fusion",
           NEW e \in {pending, TornEntry},
           fusionWAL' = Append(fusionWAL, e),
           UNCHANGED wal
    PROVE  /\ LogsTyped'
           /\ Entries(fusionWAL') = Entries(fusionWAL) \cup {e}
           /\ LogsAgree'
<1>. DEFINE new == Len(fusionWAL) + 1
<1>1. pending \in Entry /\ e \in AnyEntry
  BY DEF LogInv, MethodTyped, Writing, AnyEntry
<1>2. /\ fusionWAL' \in Seq(AnyEntry)
      /\ DOMAIN fusionWAL' = DOMAIN fusionWAL \cup {new}
      /\ new \notin DOMAIN fusionWAL
      /\ \A i \in DOMAIN fusionWAL : fusionWAL'[i] = fusionWAL[i]
      /\ fusionWAL'[new] = e
      /\ Entries(fusionWAL') = Entries(fusionWAL) \cup {e}
  BY <1>1, AppendLog DEF LogInv, LogsTyped
<1>3. LogsTyped'
  BY <1>2 DEF LogInv, LogsTyped
<1>4. LoggedOnce'
  BY DEF LogInv, LogsAgree, LoggedOnce
<1>5. CommitsLogged'
  <2>1. \A c \in Entries(fusionWAL') \ {TornEntry} : c \in Entries(wal'[c.shard])
    BY <1>2 DEF LogInv, LogsAgree, CommitsLogged, Fresh
  <2>2. ASSUME NEW i \in DOMAIN fusionWAL', NEW j \in DOMAIN fusionWAL',
               fusionWAL'[i] # TornEntry,
               fusionWAL'[i].sequence = fusionWAL'[j].sequence
        PROVE  i = j
    <3>1. \A n \in DOMAIN fusionWAL :
             fusionWAL[n] \in AnyEntry /\ fusionWAL[n].sequence # pending.sequence
      <4>1. \A n \in DOMAIN fusionWAL : fusionWAL[n] \in AnyEntry
        BY DEF LogInv, LogsTyped
      <4>. QED BY <4>1 DEF LogInv, Fresh, Entries
    <3>2. CASE i # new /\ j # new
      BY <1>2, <2>2, <3>2 DEF LogInv, LogsAgree, CommitsLogged
    <3>3. CASE i = new /\ j # new
      BY <1>2, <2>2, <3>1, <3>3
    <3>4. CASE i # new /\ j = new
      <4>1. fusionWAL[i] \in Entry
        BY <1>2, <2>2, <3>1, <3>4 DEF AnyEntry
      <4>2. e = TornEntry => fusionWAL[i].sequence = 0
        BY <1>2, <2>2, <3>4, TornIsNoEntry
      <4>3. e = pending => fusionWAL[i].sequence = pending.sequence
        BY <1>2, <2>2, <3>4
      <4>. QED BY <1>2, <3>1, <3>4, <4>1, <4>2, <4>3, TornIsNoEntry
    <3>. QED BY <3>2, <3>3, <3>4
  <2>. QED BY <2>1, <2>2 DEF CommitsLogged
<1>. QED BY <1>2, <1>3, <1>4, <1>5 DEF LogsAgree
-----------------------------------------------------------------------------
(* The inductive step                                                      *)

\* A step that leaves the logs alone keeps what is said of the logs alone.
LEMMA LogsStay ==
    ASSUME LogInv, UNCHANGED <<wal, fusionWAL>>
    PROVE  LogsTyped' /\ LogsAgree'
BY DEF LogInv, LogsTyped, LogsAgree, LoggedOnce, CommitsLogged

\* When a process ends, no number is promised to be fresh any more.
LEMMA EndKeeps ==
    ASSUME LogInv, End, LogsTyped', LogsAgree'
    PROVE  LogInv'
<1>1. 0 \in Shard /\ 1 \in 1 .. MaxSequence + 1 /\ 0 \in 0 .. MaxSequence
  BY SourceAssumption, FilesAssumption, DatabaseAssumption DEF Shard, Source
<1>. QED BY <1>1 DEF End, Finish, LogInv, MethodTyped, Fresh, Writing

\* A method that ends, and a method that keeps its numbers.
LEMMA FinishKeeps ==
    ASSUME LogInv, Finish, LogsTyped', LogsAgree',
           UNCHANGED <<status, next>>, committed' \in 0 .. MaxSequence,
           status = "up" =>
              /\ \A s \in Shard : \A e \in Entries(wal'[s]) : e.sequence < next
              /\ \A e \in Entries(fusionWAL') : e.sequence < next
    PROVE  LogInv'
<1>1. 0 \in Shard
  BY SourceAssumption DEF Shard, Source
<1>. QED BY <1>1 DEF Finish, LogInv, MethodTyped, Fresh, Writing

LEMMA LogInvInit == Init => LogInv
<1>. SUFFICES ASSUME Init PROVE LogInv
  OBVIOUS
<1>1. LogsTyped
  BY DEF Init, LogsTyped
<1>2. 0 \in Shard /\ 1 \in 1 .. MaxSequence + 1 /\ 0 \in 0 .. MaxSequence
  BY SourceAssumption, FilesAssumption, DatabaseAssumption DEF Shard, Source
<1>3. MethodTyped
  BY <1>2 DEF Init, MethodTyped, Writing
<1>4. Fresh
  BY DEF Init, Fresh, Writing
<1>5. LogsAgree
  BY DEF Init, LogsAgree, LoggedOnce, CommitsLogged, Entries
<1>. QED BY <1>1, <1>3, <1>4, <1>5 DEF LogInv

LEMMA LogInvNext == LogInv /\ [Next]_vars => LogInv'
<1>. SUFFICES ASSUME LogInv, [Next]_vars PROVE LogInv'
  OBVIOUS
<1>. USE SourceAssumption, FilesAssumption, DatabaseAssumption
<1>1. ASSUME NEW op \in {"put", "delete"}, NEW k \in Keys, NEW v \in Contents,
             Begin(op, k, v)
      PROVE  LogInv'
  <2>1. pending' \in Entry /\ pending'.shard = Route(pending'.key)
    BY <1>1, RouteInShard DEF Begin, Entry, Sequence, LogInv, MethodTyped
  <2>2. LogsTyped' /\ LogsAgree'
    BY <1>1, LogsStay DEF Begin, disk
  <2>3. MethodTyped'
    BY <1>1, <2>1 DEF Begin, Idle, LogInv, MethodTyped, Writing, memory
  <2>4. Fresh'
    <3>1. \A s \in Shard : \A e \in Entries(wal[s]) : e.sequence \in Nat
      BY TornIsNoEntry DEF LogInv, LogsTyped, Entries, AnyEntry
    <3>2. \A e \in Entries(fusionWAL) : e.sequence \in Nat
      BY TornIsNoEntry DEF LogInv, LogsTyped, Entries, AnyEntry
    <3>. QED BY <1>1, <3>1, <3>2
             DEF Begin, Idle, LogInv, MethodTyped, Fresh, Writing, disk
  <2>. QED BY <2>2, <2>3, <2>4 DEF LogInv
<1>2. CASE AppendSource
  <2>1. /\ LogsTyped' /\ LogsAgree'
        /\ \A s \in Shard : Entries(wal'[s]) \subseteq Entries(wal[s]) \cup {pending}
        /\ pending \in Entries(wal'[pending.shard])
    BY <1>2, SourceGrows DEF AppendSource
  <2>2. MethodTyped'
    BY <1>2 DEF AppendSource, LogInv, MethodTyped, Writing, memory
  <2>3. Fresh'
    BY <1>2, <2>1 DEF AppendSource, LogInv, MethodTyped, Fresh, Writing
  <2>. QED BY <2>1, <2>2, <2>3 DEF LogInv
<1>3. CASE AppendFusion
  <2>1. /\ LogsTyped' /\ LogsAgree'
        /\ Entries(fusionWAL') = Entries(fusionWAL) \cup {pending}
    BY <1>3, FusionGrows DEF AppendFusion
  <2>2. MethodTyped'
    BY <1>3 DEF AppendFusion, LogInv, MethodTyped, Writing, memory
  <2>3. Fresh'
    BY <1>3, <2>1 DEF AppendFusion, LogInv, MethodTyped, Fresh, Writing
  <2>. QED BY <2>1, <2>2, <2>3 DEF LogInv
<1>4. ASSUME NEW kind \in {"clean", "short", "sync"}, AppendFails(kind)
      PROVE  LogInv'
  <2>1. /\ pending.sequence < next
        /\ TornEntry.sequence < next
    BY <1>4, TornIsNoEntry DEF AppendFails, LogInv, MethodTyped, Fresh, Writing
  <2>2. /\ LogsTyped' /\ LogsAgree'
        /\ \A s \in Shard :
              Entries(wal'[s]) \subseteq Entries(wal[s]) \cup {pending, TornEntry}
        /\ Entries(fusionWAL') \subseteq Entries(fusionWAL) \cup {pending, TornEntry}
    <3>. DEFINE e == IF kind = "short" THEN TornEntry ELSE pending
    <3>1. CASE kind = "clean"
      <4>1. UNCHANGED <<wal, fusionWAL>>
        BY <1>4, <3>1 DEF AppendFails, Partly, LogInv, LogsTyped
      <4>. QED BY <4>1, LogsStay
    <3>2. CASE kind # "clean" /\ pc = "source"
      <4>1. /\ wal' = [wal EXCEPT ![pending.shard] = Append(@, e)]
            /\ UNCHANGED fusionWAL
        BY <1>4, <3>2 DEF AppendFails, Partly
      <4>. QED BY <3>2, <4>1, SourceGrows
    <3>3. CASE kind # "clean" /\ pc = "fusion"
      <4>1. fusionWAL' = Append(fusionWAL, e) /\ UNCHANGED wal
        BY <1>4, <3>3 DEF AppendFails, Partly
      <4>. QED BY <3>3, <4>1, FusionGrows
    <3>. QED BY <1>4, <3>1, <3>2, <3>3 DEF AppendFails
  <2>3. /\ UNCHANGED <<status, next, committed>> /\ Finish
        /\ pc # "idle"
    BY <1>4 DEF AppendFails, memory
  <2>4. status = "up" =>
              /\ \A s \in Shard : \A e \in Entries(wal'[s]) : e.sequence < next
              /\ \A e \in Entries(fusionWAL') : e.sequence < next
    BY <2>1, <2>2 DEF LogInv, Fresh
  <2>. QED BY <2>2, <2>3, <2>4, FinishKeeps DEF LogInv, MethodTyped
<1>5. CASE Apply
  <2>1. committed' \in 0 .. MaxSequence
    BY <1>5, TornIsNoEntry DEF Apply, LogInv, MethodTyped, Writing
  <2>. QED BY <1>5, <2>1, LogsStay, FinishKeeps DEF Apply, disk, LogInv, Fresh
<1>6. ASSUME UNCHANGED <<wal, fusionWAL, status, next, committed>>,
             ~Writing, ~Writing',
             cursor' \in Shard,
             pc' = "idle" \/ (status = "up" /\ (Snapshotting' \/ Pointing'))
      PROVE  LogInv'
  <2>1. LogsTyped' /\ LogsAgree'
    BY <1>6, LogsStay
  <2>2. MethodTyped'
    BY <1>6 DEF LogInv, MethodTyped
  <2>3. Fresh'
    BY <1>6 DEF LogInv, Fresh, Writing
  <2>. QED BY <2>1, <2>2, <2>3 DEF LogInv
<1>7. 0 \in Shard
  BY DEF Shard, Source
<1>8. ASSUME UNCHANGED <<wal, fusionWAL, status, next, committed, running>>
      PROVE  LogInv'
  <2>1. LogsTyped' /\ LogsAgree'
    BY <1>8, LogsStay
  <2>2. MethodTyped'
    BY <1>8 DEF LogInv, MethodTyped, Writing, Snapshotting, Pointing, running
  <2>3. Fresh'
    BY <1>8 DEF LogInv, Fresh, Writing, running
  <2>. QED BY <2>1, <2>2, <2>3 DEF LogInv
<1>9. ASSUME \/ \E k \in Keys : DeleteAbsent(k)
             \/ \E s \in Shard : CrashShard(s)
             \/ \E s \in Shard : RecoverShard(s)
             \/ UNCHANGED vars
      PROVE  LogInv'
  BY <1>8, <1>9 DEF DeleteAbsent, CrashShard, RecoverShard, vars, disk, memory, bounds
<1>10. CASE BeginSnapshot
  BY <1>6, <1>7, <1>10
     DEF BeginSnapshot, Idle, Writing, Snapshotting, disk, memory
<1>11. CASE RemoveSnapshot
  BY <1>6, <1>11
     DEF RemoveSnapshot, Writing, Snapshotting, memory, LogInv, MethodTyped
<1>12. CASE WriteSnapshot
  BY <1>6, <1>7, <1>12
     DEF WriteSnapshot, NextShard, MoreShards, Writing, Snapshotting, Pointing, memory, LogInv, MethodTyped
<1>13. CASE WriteTemporary
  BY <1>6, <1>13
     DEF WriteTemporary, Writing, Pointing, memory, LogInv, MethodTyped
<1>14. CASE Rename
  BY <1>6, <1>7, <1>14 DEF Rename, Finish, Writing, memory
<1>15. CASE RenameFails
  BY <1>6, <1>7, <1>15
     DEF RenameFails, Finish, Writing, Pointing, disk, memory, LogInv, MethodTyped
<1>16. CASE RemoveCheckpoint
  BY <1>6, <1>16
     DEF RemoveCheckpoint, Writing, Pointing, memory, LogInv, MethodTyped
<1>17. CASE SnapshotFails
  BY <1>6, <1>7, <1>17
     DEF SnapshotFails, WritesPartly, Finish, Writing, disk, memory
<1>18. CASE Close \/ Crash \/ CrashInSnapshot
  <2>1. End /\ UNCHANGED <<wal, fusionWAL>>
    BY <1>18 DEF Close, Crash, CrashInSnapshot, WritesPartly, disk
  <2>. QED BY <2>1, LogsStay, EndKeeps
<1>19. CASE CrashInAppend
  <2>1. LogsTyped' /\ LogsAgree'
    BY <1>19, SourceGrows, FusionGrows DEF CrashInAppend
  <2>. QED BY <1>19, <2>1, EndKeeps DEF CrashInAppend
<1>20. CASE Open
  <2>1. LogsTyped' /\ LogsAgree'
    BY <1>20, LogsStay DEF Open, disk
  <2>2. PICK n \in 0 .. MaxSequence : Largest(n, Seen) /\ next' = n + 1
    BY <1>20 DEF Open
  <2>3. pc = "idle" /\ UNCHANGED <<wal, fusionWAL, pc, pending, cursor>>
    BY <1>20 DEF Open, LogInv, MethodTyped, disk, running
  <2>4. MethodTyped'
    BY <1>20, <2>2, <2>3
       DEF Open, LogInv, MethodTyped, Writing, Snapshotting, Pointing
  <2>5. /\ \A s \in Shard : \A e \in Entries(wal[s]) : e.sequence \in Seen
        /\ \A e \in Entries(fusionWAL) : e.sequence \in Seen
    BY DEF Seen, SeenCommitted
  <2>6. /\ \A s \in Shard : \A e \in Entries(wal[s]) : e.sequence \in Nat
        /\ \A e \in Entries(fusionWAL) : e.sequence \in Nat
    BY TornIsNoEntry DEF LogInv, LogsTyped, Entries, AnyEntry
  <2>7. Fresh'
    BY <2>2, <2>3, <2>5, <2>6 DEF Fresh, Writing, Largest
  <2>. QED BY <2>1, <2>4, <2>7 DEF LogInv
<1>21. CASE OpenRefused
  <2>1. LogsTyped' /\ LogsAgree'
    BY <1>21, LogsStay DEF OpenRefused, disk
  <2>2. MethodTyped'
    BY <1>21
       DEF OpenRefused, LogInv, MethodTyped, Writing, Snapshotting, Pointing, memory, running
  <2>3. Fresh'
    BY <1>21 DEF OpenRefused, LogInv, Fresh, Writing, MethodTyped, disk, running
  <2>. QED BY <2>1, <2>2, <2>3 DEF LogInv
<1>22. CASE \/ \E k \in Keys, v \in Values : BeginPut(k, v)
            \/ \E k \in Keys : BeginDelete(k)
  BY <1>1, <1>22 DEF BeginPut, BeginDelete, Contents
<1>. QED
  BY <1>2, <1>3, <1>4, <1>5, <1>9, <1>10, <1>11, <1>12, <1>13, <1>14, <1>15, <1>16,
     <1>18, <1>17, <1>19, <1>20, <1>21, <1>22
     DEF Next, Step, Request, Failure

\* The records of the logs are consistent in every state: whatever crashes and
\* failing appends left behind, Open finds every record in the right log, every
\* number once, and every committed record logged by its shard.
THEOREM LogsAlwaysAgree == Spec => []LogsAgree
<1>1. Spec => []LogInv
  BY LogInvInit, LogInvNext, PTL DEF Spec
<1>2. LogInv => LogsAgree
  BY DEF LogInv
<1>. QED BY <1>1, <1>2, PTL
-----------------------------------------------------------------------------
(* The snapshot files                                                      *)

\* A function of two arguments; nothing is said of its values.
IsTable(f, A, B) == DOMAIN f = A /\ \A a \in A : DOMAIN f[a] = B

FilesTyped ==
    /\ IsTable(snapshots, 0 .. MaxSequence, Shard)
    /\ IsTable(data, Shard, Keys)
    /\ current \in 0 .. MaxSequence \cup {NoFile}

MapsRouted == \A s \in Shard, k \in Keys : data[s][k] # Absent => Route(k) = s

\* The file of shard s of the snapshot at q.
Usable(q, s) == Loads(snapshots[q][s], q, s)

\* The checkpoint names usable files, and Snapshot never touches them: it only
\* starts when memory is ahead of the checkpoint, and a process that is up
\* knows the checkpoint on disk.
CheckpointUsable == current # NoFile => \A s \in Shard : Usable(current, s)
CheckpointKnown == status = "up" /\ current # NoFile => hasSnapshot /\ checkpoint = current
SnapshotUsable ==
    /\ Snapshotting => /\ current # committed
                       /\ \A s \in Shard : s < cursor => Usable(committed, s)
    /\ Pointing => \A s \in Shard : Usable(committed, s)
    /\ pc \in {"rename", "unlink", "again"} => temporary = committed

FileInv ==
    FilesTyped /\ MapsRouted /\ CheckpointUsable /\ CheckpointKnown /\ SnapshotUsable

\* A map that the logs of Open were applied to holds keys of its shard only.
LEMMA ReplayRouted ==
    ASSUME Openable, NEW s \in Shard, NEW k \in Keys, Replay(s)[k] # Absent
    PROVE  Route(k) = s
<1>. DEFINE last == LastAt(wal[s], Applied(s), k)
<1>1. CASE last = {}
  <2>1. Base(s)[k] # Absent
    BY <1>1 DEF Replay, ApplyTo
  <2>. QED BY <2>1 DEF Base, EmptyMap, Openable, SnapshotsLoad, Loads
<1>2. CASE last # {}
  <2>1. PICK i \in DOMAIN wal[s] : wal[s][i].key = k
    BY <1>2 DEF LastAt
  <2>. QED BY <2>1 DEF Openable, LogsLoad, Entries
<1>. QED BY <1>1, <1>2

LEMMA FileInvInit == Init => FileInv
<1>. SUFFICES ASSUME Init PROVE FileInv
  OBVIOUS
<1>1. FilesTyped /\ MapsRouted
  BY DEF Init, FilesTyped, MapsRouted, EmptyMap, IsTable
<1>. QED BY <1>1 DEF Init, FileInv, CheckpointUsable, CheckpointKnown, SnapshotUsable,
                    Snapshotting, Pointing

\* A step that changes neither files nor maps and starts or ends no snapshot.
LEMMA FilesStay ==
    ASSUME FileInv, UNCHANGED <<snapshots, current, temporary, data, status, marks>>,
           \/ UNCHANGED <<pc, cursor, committed>>
           \/ ~Snapshotting' /\ ~Pointing'
    PROVE  FileInv'
<1>1. FilesTyped' /\ MapsRouted'
  BY DEF FileInv, FilesTyped, MapsRouted
<1>2. CheckpointUsable' /\ CheckpointKnown'
  BY DEF FileInv, CheckpointUsable, CheckpointKnown, Usable, marks
<1>3. SnapshotUsable'
  BY DEF FileInv, SnapshotUsable, Usable, Snapshotting, Pointing
<1>. QED BY <1>1, <1>2, <1>3 DEF FileInv

\* The end of a process leaves the checkpoint's files usable.
LEMMA EndKeepsFiles ==
    ASSUME FileInv, End, UNCHANGED current, CheckpointUsable',
           IsTable(snapshots', 0 .. MaxSequence, Shard)
    PROVE  FileInv'
<1>1. FilesTyped' /\ MapsRouted'
  BY DEF End, FileInv, FilesTyped, MapsRouted, EmptyMap, IsTable
<1>. QED BY <1>1 DEF End, Finish, FileInv, CheckpointKnown, SnapshotUsable,
                    Snapshotting, Pointing

\* Writing into the files of the snapshot being taken spares the checkpoint's.
LEMMA OneFileWritten ==
    ASSUME LogInv, FileInv, Snapshotting, UNCHANGED current, NEW file,
           snapshots' = [snapshots EXCEPT ![committed][cursor] = file]
    PROVE  /\ IsTable(snapshots', 0 .. MaxSequence, Shard)
           /\ \A s \in Shard : s # cursor => snapshots'[committed][s] = snapshots[committed][s]
           /\ snapshots'[committed][cursor] = file
           /\ CheckpointUsable'
<1>1. committed \in 0 .. MaxSequence /\ cursor \in Shard
  BY DEF LogInv, MethodTyped
<1>2. /\ IsTable(snapshots', 0 .. MaxSequence, Shard)
      /\ \A q \in 0 .. MaxSequence, s \in Shard :
            snapshots'[q][s] = IF q = committed /\ s = cursor THEN file ELSE snapshots[q][s]
  BY <1>1 DEF FileInv, FilesTyped, IsTable
<1>3. CheckpointUsable'
  BY <1>2 DEF FileInv, FilesTyped, CheckpointUsable, SnapshotUsable, Usable
<1>. QED BY <1>1, <1>2, <1>3

LEMMA FileInvNext == LogInv /\ FileInv /\ [Next]_vars => FileInv'
<1>. SUFFICES ASSUME LogInv, FileInv, [Next]_vars PROVE FileInv'
  OBVIOUS
<1>. USE SourceAssumption, FilesAssumption, DatabaseAssumption
<1>1. CASE \/ \E op \in {"put", "delete"}, k \in Keys, v \in Contents : Begin(op, k, v)
           \/ \E k \in Keys : DeleteAbsent(k)
           \/ AppendSource
           \/ AppendFusion
           \/ \E kind \in {"clean", "short", "sync"} : AppendFails(kind)
           \/ OpenRefused
           \/ UNCHANGED vars
  <2>1. ASSUME NEW op \in {"put", "delete"}, NEW k \in Keys, NEW v \in Contents,
               Begin(op, k, v)
        PROVE  FileInv'
    BY <2>1, FilesStay DEF Begin, disk, memory, Snapshotting, Pointing
  <2>2. ASSUME NEW k \in Keys, DeleteAbsent(k) PROVE FileInv'
    BY <2>2, FilesStay DEF DeleteAbsent, disk, memory, running
  <2>3. CASE AppendSource \/ AppendFusion
    BY <2>3, FilesStay DEF AppendSource, AppendFusion, memory, Snapshotting, Pointing
  <2>4. ASSUME NEW kind \in {"clean", "short", "sync"}, AppendFails(kind) PROVE FileInv'
    BY <2>4, FilesStay DEF AppendFails, Finish, memory, Snapshotting, Pointing
  <2>5. CASE UNCHANGED vars
    BY <2>5, FilesStay DEF vars, disk, memory, running
  <2>6. CASE OpenRefused
    <3>1. FilesTyped' /\ MapsRouted'
      BY <2>6 DEF OpenRefused, FileInv, FilesTyped, MapsRouted, disk, memory
    <3>. QED BY <2>6, <3>1
             DEF OpenRefused, FileInv, CheckpointUsable, CheckpointKnown, SnapshotUsable,
                 Usable, Snapshotting, Pointing, disk, memory, running
  <2>. QED BY <1>1, <2>1, <2>2, <2>3, <2>4, <2>5, <2>6
<1>2. CASE Apply
  <2>. DEFINE s0 == pending.shard
              k0 == pending.key
  <2>1. s0 \in Shard /\ k0 \in Keys /\ Route(k0) = s0
    BY <1>2, RouteInShard DEF Apply, LogInv, MethodTyped, Writing, Entry
  <2>2. /\ IsTable(data', Shard, Keys)
        /\ \A s \in Shard, k \in Keys :
              data'[s][k] = IF s = s0 /\ k = k0 THEN pending.value ELSE data[s][k]
    BY <1>2, <2>1 DEF Apply, FileInv, FilesTyped, IsTable
  <2>3. FilesTyped' /\ MapsRouted'
    BY <1>2, <2>1, <2>2 DEF Apply, FileInv, FilesTyped, MapsRouted, disk
  <2>. QED BY <1>2, <2>3
           DEF Apply, Finish, FileInv, CheckpointUsable, CheckpointKnown, SnapshotUsable,
               Usable, Snapshotting, Pointing, disk, marks
<1>3. ASSUME NEW s0 \in Shard, CrashShard(s0) \/ RecoverShard(s0) PROVE FileInv'
  <2>1. PICK map \in {EmptyMap, MapOf(Recover(fusion, s0, Survivors(s0)))} :
           /\ data' = [data EXCEPT ![s0] = map]
           /\ \A k \in Keys : map[k] # Absent => Route(k) = s0
           /\ DOMAIN map = Keys
    BY <1>3 DEF CrashShard, RecoverShard, EmptyMap, MapOf
  <2>2. FilesTyped' /\ MapsRouted'
    <3>1. /\ IsTable(data', Shard, Keys)
          /\ \A s \in Shard, k \in Keys :
                data'[s][k] = IF s = s0 THEN map[k] ELSE data[s][k]
      BY <2>1 DEF FileInv, FilesTyped, IsTable
    <3>2. UNCHANGED <<snapshots, current>>
      BY <1>3 DEF CrashShard, RecoverShard, disk
    <3>. QED BY <2>1, <3>1, <3>2 DEF FileInv, FilesTyped, MapsRouted
  <2>. QED BY <1>3, <2>2
           DEF CrashShard, RecoverShard, FileInv, CheckpointUsable, CheckpointKnown,
               SnapshotUsable, Usable, Snapshotting, Pointing, Idle, disk, marks, running
<1>4. CASE BeginSnapshot
  <2>1. FilesTyped' /\ MapsRouted' /\ CheckpointUsable' /\ CheckpointKnown'
    BY <1>4 DEF BeginSnapshot, FileInv, FilesTyped, MapsRouted, CheckpointUsable,
                CheckpointKnown, Usable, disk, memory, marks
  <2>2. current # committed
    BY <1>4 DEF BeginSnapshot, Idle, Ahead, FileInv, CheckpointKnown, LogInv, MethodTyped
  <2>3. SnapshotUsable'
    BY <1>4, <2>2 DEF BeginSnapshot, SnapshotUsable, Snapshotting, Pointing, disk, memory,
                      Shard, Source
  <2>. QED BY <2>1, <2>3 DEF FileInv
<1>5. CASE RemoveSnapshot
  <2>1. /\ Snapshotting /\ UNCHANGED <<current, committed, cursor, data, status, marks>>
        /\ snapshots' = [snapshots EXCEPT ![committed][cursor] = NoSnapshot]
    BY <1>5 DEF RemoveSnapshot, Snapshotting, memory
  <2>2. FilesTyped' /\ MapsRouted' /\ CheckpointUsable' /\ CheckpointKnown'
    BY <2>1, OneFileWritten DEF FileInv, FilesTyped, MapsRouted, CheckpointKnown, marks
  <2>3. SnapshotUsable'
    <3>1. \A s \in Shard : s < cursor => s # cursor
      BY DEF Shard, Source
    <3>. QED BY <1>5, <2>1, <3>1, OneFileWritten
             DEF RemoveSnapshot, FileInv, SnapshotUsable, Usable, Snapshotting, Pointing
  <2>. QED BY <2>2, <2>3 DEF FileInv
<1>6. CASE WriteSnapshot
  <2>1. /\ Snapshotting /\ UNCHANGED <<current, committed, data, status, marks>>
        /\ snapshots' = [snapshots EXCEPT ![committed][cursor] = Whole(committed, data[cursor])]
        /\ cursor \in Shard
    BY <1>6 DEF WriteSnapshot, NextShard, MoreShards, Snapshotting, memory, LogInv, MethodTyped
  <2>2. FilesTyped' /\ MapsRouted' /\ CheckpointUsable' /\ CheckpointKnown'
    BY <2>1, OneFileWritten DEF FileInv, FilesTyped, MapsRouted, CheckpointKnown, marks
  <2>3. Loads(snapshots'[committed][cursor], committed, cursor)
    <3>1. snapshots'[committed][cursor] = Whole(committed, data[cursor])
      BY <2>1, OneFileWritten
    <3>2. \A k \in Keys : data[cursor][k] # Absent => Route(k) = cursor
      BY <2>1 DEF FileInv, MapsRouted
    <3>3. Loads(Whole(committed, data[cursor]), committed, cursor)
      BY <3>2 DEF Loads, Whole, SnapshotFile
    <3>. QED BY <3>1, <3>3
  <2>4. \A s \in Shard : s < cursor => snapshots'[committed][s] = snapshots[committed][s]
    BY <2>1, OneFileWritten DEF Shard, Source
  <2>5. SnapshotUsable'
    BY <1>6, <2>1, <2>3, <2>4
       DEF WriteSnapshot, NextShard, MoreShards, FileInv, SnapshotUsable, Usable, Snapshotting, Pointing,
           Shard, Source
  <2>. QED BY <2>2, <2>5 DEF FileInv
<1>7. CASE WriteTemporary \/ RemoveCheckpoint
  <2>1. FilesTyped' /\ MapsRouted'
    BY <1>7 DEF WriteTemporary, RemoveCheckpoint, FileInv, FilesTyped, MapsRouted, memory
  <2>. QED BY <1>7, <2>1
           DEF WriteTemporary, RemoveCheckpoint, FileInv, CheckpointUsable, CheckpointKnown,
               SnapshotUsable, Usable, Snapshotting, Pointing, memory, marks
<1>8. CASE Rename
  <2>1. Pointing /\ temporary = committed /\ committed \in 0 .. MaxSequence
    BY <1>8 DEF Rename, Pointing, FileInv, SnapshotUsable, LogInv, MethodTyped
  <2>2. FilesTyped' /\ MapsRouted'
    BY <1>8, <2>1 DEF Rename, FileInv, FilesTyped, MapsRouted, memory
  <2>. QED BY <1>8, <2>1, <2>2
           DEF Rename, Finish, FileInv, CheckpointUsable, CheckpointKnown, SnapshotUsable,
               Usable, Snapshotting, Pointing
<1>9. CASE RenameFails
  <2>1. FilesTyped' /\ MapsRouted'
    BY <1>9 DEF RenameFails, FileInv, FilesTyped, MapsRouted, disk, memory
  <2>. QED BY <1>9, <2>1
           DEF RenameFails, Finish, FileInv, CheckpointUsable, CheckpointKnown,
               SnapshotUsable, Usable, Snapshotting, Pointing, disk, memory, marks
<1>10. ASSUME WritesPartly
       PROVE  /\ IsTable(snapshots', 0 .. MaxSequence, Shard)
              /\ CheckpointUsable'
              /\ UNCHANGED current
  <2>1. CASE pc = "write"
    BY <1>10, <2>1, OneFileWritten DEF WritesPartly, Snapshotting
  <2>2. CASE pc = "checkpoint"
    BY <1>10, <2>2 DEF WritesPartly, FileInv, FilesTyped, CheckpointUsable, Usable
  <2>. QED BY <1>10, <2>1, <2>2 DEF WritesPartly
<1>11. CASE SnapshotFails
  <2>1. /\ UNCHANGED <<data, status, marks>> /\ Finish
    BY <1>11 DEF SnapshotFails, memory
  <2>2. /\ IsTable(snapshots', 0 .. MaxSequence, Shard)
        /\ CheckpointUsable'
        /\ UNCHANGED current
    <3>1. CASE UNCHANGED disk
      BY <3>1 DEF FileInv, FilesTyped, CheckpointUsable, Usable, disk
    <3>. QED BY <1>10, <1>11, <3>1 DEF SnapshotFails
  <2>3. FilesTyped' /\ MapsRouted'
    BY <2>1, <2>2 DEF FileInv, FilesTyped, MapsRouted
  <2>. QED BY <2>1, <2>2, <2>3
           DEF Finish, FileInv, CheckpointKnown, SnapshotUsable, Snapshotting, Pointing, marks
<1>12. CASE Close \/ Crash \/ CrashInSnapshot \/ CrashInAppend
  <2>1. CASE CrashInSnapshot
    BY <1>10, <2>1, EndKeepsFiles DEF CrashInSnapshot
  <2>2. CASE Close \/ Crash \/ CrashInAppend
    <3>1. End /\ UNCHANGED <<snapshots, current>>
      BY <2>2 DEF Close, Crash, CrashInAppend, disk
    <3>. QED BY <3>1, EndKeepsFiles DEF FileInv, FilesTyped, CheckpointUsable, Usable
  <2>. QED BY <1>12, <2>1, <2>2
<1>13. CASE Open
  <2>1. /\ Openable /\ UNCHANGED <<snapshots, current, pc>> /\ pc = "idle"
        /\ data' = [s \in Shard |-> Replay(s)]
    BY <1>13 DEF Open, LogInv, MethodTyped, disk, running
  <2>2. \A s \in Shard : DOMAIN Replay(s) = Keys
    BY DEF Replay, ApplyTo
  <2>3. FilesTyped' /\ MapsRouted'
    BY <2>1, <2>2, ReplayRouted DEF FileInv, FilesTyped, MapsRouted, IsTable
  <2>4. CheckpointUsable' /\ CheckpointKnown'
    BY <1>13, <2>1 DEF Open, FileInv, CheckpointUsable, CheckpointKnown, Usable, Checkpoint
  <2>5. SnapshotUsable'
    BY <2>1 DEF SnapshotUsable, Snapshotting, Pointing
  <2>. QED BY <2>3, <2>4, <2>5 DEF FileInv
<1>. QED
  BY <1>1, <1>2, <1>3, <1>4, <1>5, <1>6, <1>7, <1>8, <1>9, <1>11, <1>12, <1>13
     DEF Next, Step, Request, Failure, BeginPut, BeginDelete, Contents

-----------------------------------------------------------------------------
(* What Open finds                                                         *)

LEMMA InvOpenable == LogInv /\ FileInv /\ LogsWhole => Openable
<1>. SUFFICES ASSUME LogInv, FileInv, LogsWhole PROVE Openable
  OBVIOUS
<1>1. /\ \A s \in Shard : \A e \in Entries(wal[s]) : e \in Entry
      /\ \A c \in Entries(fusionWAL) : c \in Entry
  BY DEF LogInv, LogsTyped, AnyEntry, Entries, LogsWhole
<1>2. SnapshotsLoad
  BY FilesAssumption, DatabaseAssumption DEF FileInv, FilesTyped, CheckpointUsable, Usable, SnapshotsLoad
<1>3. LogsLoad
  BY <1>1 DEF LogInv, LogsAgree, LoggedOnce, LogsLoad, LogsWhole, Entry
<1>4. UniqueCommits
  <2>1. \A i \in DOMAIN fusionWAL : fusionWAL[i] # TornEntry
    BY DEF LogsWhole, Entries
  <2>. QED BY <2>1 DEF LogInv, LogsAgree, CommitsLogged, UniqueCommits
<1>5. \A c \in Entries(fusionWAL) : c.shard \in Shard /\ c \in Entries(wal[c.shard])
  BY <1>1 DEF LogInv, LogsAgree, CommitsLogged, LogsWhole, Entry
<1>6. CommitsMatch
  <2>1. ASSUME NEW s \in Shard, NEW e \in Applied(s)
        PROVE  e \in Entries(fusionWAL)
    <3>1. PICK c \in Entries(fusionWAL) : c.sequence = e.sequence
      BY <2>1 DEF Applied, CommittedIn
    <3>2. PICK i \in DOMAIN wal[s] : wal[s][i] = e
      BY <2>1 DEF Applied, CommittedIn, Entries
    <3>3. PICK j \in DOMAIN wal[c.shard] : wal[c.shard][j] = c
      BY <1>5 DEF Entries
    <3>4. c # TornEntry
      BY DEF LogsWhole
    <3>5. c.shard = s /\ j = i
      BY <1>5, <3>1, <3>2, <3>3, <3>4 DEF LogInv, LogsAgree, LoggedOnce
    <3>. QED BY <3>2, <3>3, <3>5
  <2>. QED BY <1>5, <2>1 DEF CommitsMatch
<1>. QED BY <1>2, <1>3, <1>4, <1>6 DEF Openable

LEMMA InvAlways == Spec => [](LogInv /\ FileInv)
BY LogInvInit, LogInvNext, FileInvInit, FileInvNext, PTL DEF Spec

\* Open accepts whatever any run of the database leaves on disk, unless a
\* record was torn: with no torn record in a log, no crash at any step, failed
\* system call or order of calls makes the files unusable.
THEOREM OnlyTornLogsAreRefused == Spec => []RefusedOnlyIfTorn
<1>1. LogInv /\ FileInv => RefusedOnlyIfTorn
  BY InvOpenable DEF RefusedOnlyIfTorn
<1>. QED BY <1>1, InvAlways, PTL
-----------------------------------------------------------------------------
(* Databases whose records are written whole or not at all                 *)

LEMMA LogsStayWhole ==
    ASSUME Faults \cap {"torn", "short"} = {}, LogInv, LogsWhole, [Next]_vars
    PROVE  LogsWhole'
<1>1. CASE UNCHANGED <<wal, fusionWAL>>
  BY <1>1 DEF LogsWhole
<1>2. CASE \/ AppendSource
           \/ pc = "source" /\ \E kind \in {"clean", "short", "sync"} : AppendFails(kind)
  <2>1. pc = "source" /\ pending.shard \in Shard /\ pending # TornEntry
    BY <1>2, RouteInShard, TornIsNoEntry
       DEF AppendSource, LogInv, MethodTyped, Writing, Entry
  <2>2. UNCHANGED fusionWAL
    BY <1>2, <2>1 DEF AppendSource, AppendFails
  <2>3. CASE wal' = [wal EXCEPT ![pending.shard] = Append(@, pending)]
    BY <2>1, <2>2, <2>3, SourceGrows DEF LogsWhole
  <2>4. CASE wal' = [wal EXCEPT ![pending.shard] = @]
    BY <2>2, <2>4 DEF LogsWhole
  <2>. QED BY <1>2, <2>1, <2>3, <2>4 DEF AppendSource, AppendFails, Partly, Fail
<1>3. CASE \/ AppendFusion
           \/ pc = "fusion" /\ \E kind \in {"clean", "short", "sync"} : AppendFails(kind)
  <2>1. pc = "fusion" /\ pending # TornEntry
    BY <1>3, TornIsNoEntry DEF AppendFusion, LogInv, MethodTyped, Writing
  <2>2. UNCHANGED wal
    BY <1>3, <2>1 DEF AppendFusion, AppendFails
  <2>3. CASE fusionWAL' = Append(fusionWAL, pending)
    BY <2>1, <2>2, <2>3, FusionGrows DEF LogsWhole
  <2>4. CASE UNCHANGED fusionWAL
    BY <2>2, <2>4 DEF LogsWhole
  <2>. QED BY <1>3, <2>1, <2>3, <2>4 DEF AppendFusion, AppendFails, Partly, Fail
<1>4. UNCHANGED <<wal, fusionWAL>> \/ AppendSource \/ AppendFusion
        \/ \E kind \in {"clean", "short", "sync"} : AppendFails(kind)
  BY DEF Next, Step, Request, Failure, vars, disk, Begin, BeginPut, BeginDelete,
         DeleteAbsent, Apply, BeginSnapshot, RemoveSnapshot, WriteSnapshot,
         WriteTemporary, Rename, RenameFails, RemoveCheckpoint, WritesPartly,
         SnapshotFails, CrashShard, RecoverShard, Close, Crash, CrashInSnapshot,
         CrashInAppend, Open, OpenRefused
<1>. QED BY <1>1, <1>2, <1>3, <1>4 DEF AppendFails

\* When no append is cut short, by a crash or by an error, the database can
\* always be opened again: the steps of Put, Delete and Snapshot are ordered so
\* that every prefix of them leaves files that Open accepts.
THEOREM NeverRefusedWithoutTorn ==
    ASSUME Faults \cap {"torn", "short"} = {}
    PROVE  Spec => []NeverRefused
<1>1. Init => LogsWhole
  BY DEF Init, LogsWhole, Entries
<1>2. LogInv /\ LogsWhole /\ [Next]_vars => LogsWhole'
  BY LogsStayWhole
<1>3. LogInv /\ FileInv /\ LogsWhole => NeverRefused
  BY InvOpenable DEF NeverRefused
<1>. QED BY <1>1, <1>2, <1>3, LogInvInit, LogInvNext, FileInvInit, FileInvNext, PTL DEF Spec

-----------------------------------------------------------------------------
(* A set of records as a map                                               *)

About(S, k) == {e \in S : e.key = k}

IsNewest(e, S, k) == e \in About(S, k) /\ \A f \in About(S, k) : f.sequence <= e.sequence

NewestOf(A) == CHOOSE e \in A : \A f \in A : f.sequence <= e.sequence
Newest(S, k) == NewestOf(About(S, k))

\* What k is after the records in S, when it was v before.
ValueIn(S, k, v) == IF About(S, k) = {} THEN v ELSE Newest(S, k).value

\* Records of which no two have the same sequence number.
Numbered(S) ==
    /\ \A e \in S : e \in Entry
    /\ \A e, f \in S : e.sequence = f.sequence => e = f

InOrder(log) ==
    \A i, j \in DOMAIN log :
        i < j /\ log[i] # TornEntry /\ log[j] # TornEntry
        => log[i].sequence < log[j].sequence

\* Of some records about k one is the newest.
LEMMA NewestIs ==
    ASSUME NEW S, NEW k, Numbered(S), About(S, k) # {}
    PROVE  IsNewest(Newest(S, k), S, k)
<1>. DEFINE A == About(S, k)
            N == {MaxSequence - e.sequence : e \in A}
<1>1. \A e \in A : /\ e.sequence \in Nat /\ e.sequence <= MaxSequence
                   /\ MaxSequence - e.sequence \in Nat
  BY TornIsNoEntry, FilesAssumption DEF Numbered, About
<1>2. N \in SUBSET Nat /\ N # {}
  BY <1>1
<1>3. PICK n \in N : \A m \in N : n <= m
  <2>. HIDE DEF N
  <2>. QED BY <1>2, SmallestNumber
<1>4. PICK e \in A : n = MaxSequence - e.sequence
  OBVIOUS
<1>5. ASSUME NEW f \in A PROVE f.sequence <= e.sequence
  <2>1. MaxSequence - e.sequence <= MaxSequence - f.sequence
    BY <1>3, <1>4
  <2>. QED BY <1>1, <2>1, FilesAssumption
<1>6. IsNewest(e, S, k)
  BY <1>5 DEF IsNewest
<1>. QED BY <1>6 DEF Newest, NewestOf, IsNewest

\* There is only one.
LEMMA NewestUnique ==
    ASSUME NEW S, NEW k, Numbered(S), NEW e, IsNewest(e, S, k)
    PROVE  About(S, k) # {} /\ Newest(S, k) = e
<1>1. About(S, k) # {}
  BY DEF IsNewest
<1>. DEFINE n == Newest(S, k)
<1>2. n \in About(S, k) /\ e.sequence <= n.sequence /\ n.sequence <= e.sequence
  BY <1>1, NewestIs DEF IsNewest
<1>. HIDE DEF n
<1>3. e \in S /\ n \in S
  BY <1>2 DEF IsNewest, About
<1>4. e.sequence \in Nat /\ n.sequence \in Nat
  BY <1>3, TornIsNoEntry DEF Numbered
<1>5. e.sequence = n.sequence
  BY <1>2, <1>4
<1>6. e = n
  BY <1>3, <1>5 DEF Numbered
<1>. QED BY <1>1, <1>6 DEF n

\* The record of a new number is the newest of its key.
LEMMA ValueAdd ==
    ASSUME NEW S, NEW e \in Entry, Numbered(S), \A f \in S : f.sequence < e.sequence,
           NEW k, NEW v
    PROVE  /\ Numbered(S \cup {e})
           /\ ValueIn(S \cup {e}, k, v) = IF k = e.key THEN e.value ELSE ValueIn(S, k, v)
<1>1. Numbered(S \cup {e})
  <2>1. \A f \in S \cup {e} : f.sequence \in Nat
    BY TornIsNoEntry DEF Numbered
  <2>2. \A f \in S : f.sequence # e.sequence
    BY <2>1
  <2>. QED BY <2>2 DEF Numbered
<1>2. CASE k = e.key
  <2>1. \A f \in S \cup {e} : f.sequence <= e.sequence
    BY TornIsNoEntry DEF Numbered
  <2>2. IsNewest(e, S \cup {e}, k)
    BY <1>2, <2>1 DEF IsNewest, About
  <2>. QED BY <1>1, <1>2, <2>2, NewestUnique DEF ValueIn
<1>3. CASE k # e.key
  <2>1. About(S \cup {e}, k) = About(S, k)
    BY <1>3 DEF About
  <2>. QED BY <1>1, <1>3, <2>1 DEF ValueIn, Newest
<1>. QED BY <1>2, <1>3

\* Records may be applied in two parts, the older ones first.
LEMMA ValueSplit ==
    ASSUME NEW A, NEW B, Numbered(A \cup B),
           \A a \in A : \A b \in B : a.sequence < b.sequence,
           NEW k, NEW v
    PROVE  ValueIn(A \cup B, k, v) = ValueIn(B, k, ValueIn(A, k, v))
<1>1. Numbered(B) /\ Numbered(A)
  BY DEF Numbered
<1>2. CASE About(B, k) = {}
  <2>1. About(A \cup B, k) = About(A, k)
    BY <1>2 DEF About
  <2>. QED BY <1>2, <2>1 DEF ValueIn, Newest
<1>3. CASE About(B, k) # {}
  <2>. DEFINE n == Newest(B, k)
  <2>1. IsNewest(n, B, k)
    BY <1>1, <1>3, NewestIs
  <2>. HIDE DEF n
  <2>2. \A f \in About(A, k) : f.sequence <= n.sequence
    <3>1. n \in B /\ \A f \in About(A, k) : f \in A
      BY <2>1 DEF IsNewest, About
    <3>2. n.sequence \in Nat /\ \A f \in About(A, k) : f.sequence \in Nat
      BY <3>1, <1>1, TornIsNoEntry DEF Numbered
    <3>. QED BY <3>1, <3>2
  <2>3. IsNewest(n, A \cup B, k)
    BY <2>1, <2>2 DEF IsNewest, About
  <2>4. Newest(A \cup B, k) = n /\ About(A \cup B, k) # {}
    BY <2>3, NewestUnique
  <2>. QED BY <1>3, <2>4 DEF ValueIn, n
<1>. QED BY <1>2, <1>3

\* The records in S that an ordered log applies to a map, by their numbers.
LEMMA AppliedValue ==
    ASSUME NEW log, InOrder(log), DOMAIN log \subseteq Nat,
           NEW S, Numbered(S), \A e \in S : e \in Entries(log),
           NEW map, NEW k \in Keys
    PROVE  ApplyTo(map, log, S)[k] = ValueIn(S, k, map[k])
<1>. DEFINE about == {i \in DOMAIN log : log[i] \in S /\ log[i].key = k}
<1>1. ApplyTo(map, log, S)[k] =
        IF LastAt(log, S, k) = {} THEN map[k]
        ELSE log[CHOOSE i \in LastAt(log, S, k) : TRUE].value
  BY Zenon DEF ApplyTo
<1>2. CASE About(S, k) = {}
  <2>1. LastAt(log, S, k) = {}
    BY <1>2 DEF LastAt, About
  <2>. QED BY <1>1, <1>2, <2>1 DEF ValueIn
<1>3. CASE About(S, k) # {}
  <2>1. PICK e \in S : e = Newest(S, k) /\ e.key = k /\ \A f \in About(S, k) : f.sequence <= e.sequence
    BY <1>3, NewestIs DEF IsNewest, About
  <2>2. PICK i \in DOMAIN log : log[i] = e
    BY <2>1 DEF Entries
  <2>3. ASSUME NEW j \in about PROVE j <= i
    <3>1. /\ log[j] \in About(S, k) /\ log[j].sequence <= log[i].sequence
      BY <2>1, <2>2, <2>3 DEF About
    <3>2. /\ log[i] # TornEntry /\ log[j] # TornEntry
          /\ log[i].sequence \in Nat /\ log[j].sequence \in Nat
      BY <2>1, <2>2, <2>3, TornIsNoEntry DEF Numbered
    <3>3. i \in Nat /\ j \in Nat
      BY <2>3
    <3>. QED BY <3>1, <3>2, <3>3 DEF InOrder
  <2>4. LastAt(log, S, k) = {i}
    <3>1. i \in about
      BY <2>1, <2>2
    <3>2. \A j \in DOMAIN log : j \in Nat
      OBVIOUS
    <3>3. \A j \in about : i <= j => j = i
      BY <2>3, <3>1, <3>2
    <3>. QED BY <2>3, <3>1, <3>3 DEF LastAt
  <2>5. (CHOOSE j \in LastAt(log, S, k) : TRUE) = i
    BY <2>4
  <2>. QED BY <1>1, <1>3, <2>1, <2>2, <2>4, <2>5 DEF ValueIn
<1>. QED BY <1>2, <1>3

-----------------------------------------------------------------------------
(* The inductive invariant                                                 *)

\* The committed records of a shard, with a torn record left out.
Recs(s) == CommittedIn(wal[s]) \ {TornEntry}
Later(s, q) == {e \in Recs(s) : e.sequence > q}
UpTo(s, q) == {e \in Recs(s) : e.sequence <= q}

\* Sequence numbers grow along every log, and with them committed and the
\* checkpoint; a running Put or Delete has the largest.
OrderInv ==
    /\ \A s \in Shard : InOrder(wal[s])
    /\ IF Writing THEN next = pending.sequence + 1 ELSE pending = NoEntry
    /\ status = "up" => committed < IF Writing THEN pending.sequence ELSE next
    /\ status = "up" /\ current # NoFile => current <= committed

\* Memory holds what the client was told, but for a lost shard; at most one is
\* lost, and none while Put, Delete or Snapshot need it.
MemoryInv ==
    /\ status = "up" =>
          \A k \in Keys : Route(k) \notin failed => data[Route(k)][k] = acked[k]
    /\ \A s, t \in failed : s = t
    /\ Writing => pending.shard \notin failed
    /\ Snapshotting \/ Pointing => failed = {}

\* The files of the snapshot being taken hold the maps in memory.
WrittenInv ==
    /\ Snapshotting =>
          \A s \in Shard : s < cursor => snapshots[committed][s].records = data[s]
    /\ Pointing => \A s \in Shard : snapshots[committed][s].records = data[s]

\* Committed records that memory does not have: the one about to be applied,
\* and those whose append to the backup's log returned an error of Sync.
BeyondInv ==
    status = "up" =>
        \A s \in Shard : \A e \in Later(s, committed) :
            \/ pc = "apply" /\ e = pending
            \/ "sync" \in Faults /\ (e.value \in maybe[e.key] \/ acked[e.key] = Absent)

\* The files hold what the client was told or must be ready to find.
FoundInv ==
    /\ pc = "apply" => pending \in Recs(pending.shard)
    /\ pc = "apply" => Recovered[pending.key] = pending.value
    /\ \A k \in Keys :
          "sync" \notin Faults \/ acked[k] # Absent => Recovered[k] \in Possible(k)

\* Without errors of Sync, the committed records alone say what the client was
\* told, and what the snapshot holds.
LoggedInv ==
    "sync" \notin Faults =>
        /\ status = "up" =>
              \A k \in Keys : ValueIn(UpTo(Route(k), committed), k, Absent) = acked[k]
        /\ current # NoFile =>
              \A s \in Shard, k \in Keys :
                  snapshots[current][s].records[k] = ValueIn(UpTo(s, current), k, Absent)

\* A checkpoint is removed only after its rename failed.
UnlinkInv == pc \in {"unlink", "again"} => "rename" \in Faults

DurableInv == WrittenInv /\ BeyondInv /\ FoundInv /\ LoggedInv /\ UnlinkInv

-----------------------------------------------------------------------------
(* The logs                                                                *)

\* What is true of the committed records of a shard.
LEMMA RecsFacts ==
    ASSUME LogInv, NEW s \in Shard
    PROVE  /\ Numbered(Recs(s))
           /\ DOMAIN wal[s] \subseteq Nat
           /\ \A e \in Recs(s) :
                 /\ e \in Entry /\ e \in Entries(wal[s])
                 /\ e.sequence \in Nat /\ e.sequence >= 1
                 /\ e.key \in Keys /\ Route(e.key) = s /\ e.shard = s
                 /\ status = "up" => e.sequence < next
                 /\ pc \in {"source", "fusion"} => e.sequence # pending.sequence
<1>1. \A e \in Recs(s) : e \in Entries(wal[s]) /\ e # TornEntry
  BY DEF Recs, CommittedIn
<1>2. wal[s] \in Seq(AnyEntry)
  BY DEF LogInv, LogsTyped
<1>3. \A e \in Recs(s) : e \in Entry
  BY <1>1, <1>2 DEF Entries, AnyEntry
<1>4. \A e \in Recs(s) : e.sequence \in Nat /\ e.sequence >= 1 /\ e.key \in Keys
  BY <1>3, TornIsNoEntry DEF Entry
<1>5. \A e \in Recs(s) : e.shard = s /\ Route(e.key) = s
  BY <1>1 DEF LogInv, LogsAgree, LoggedOnce
<1>6. \A e \in Recs(s) : status = "up" => e.sequence < next
  BY <1>1 DEF LogInv, Fresh
<1>7. \A e \in Recs(s) : pc \in {"source", "fusion"} => e.sequence # pending.sequence
  BY DEF LogInv, Fresh, Recs, CommittedIn
<1>8. Numbered(Recs(s))
  <2>1. ASSUME NEW e \in Recs(s), NEW f \in Recs(s), e.sequence = f.sequence
        PROVE  e = f
    <3>1. PICK i \in DOMAIN wal[s] : wal[s][i] = e
      BY <1>1 DEF Entries
    <3>2. PICK j \in DOMAIN wal[s] : wal[s][j] = f
      BY <1>1 DEF Entries
    <3>3. i = j
      BY <1>1, <2>1, <3>1, <3>2 DEF LogInv, LogsAgree, LoggedOnce
    <3>. QED BY <3>1, <3>2, <3>3
  <2>. QED BY <1>3, <2>1 DEF Numbered
<1>9. DOMAIN wal[s] \subseteq Nat
  BY <1>2
<1>. QED BY <1>1, <1>3, <1>4, <1>5, <1>6, <1>7, <1>8, <1>9

\* A log changes by an append of the running method.
ShardAppends(e) ==
    /\ pc = "source" /\ e \in {pending, TornEntry}
    /\ wal' = [wal EXCEPT ![pending.shard] = Append(@, e)]
    /\ UNCHANGED fusionWAL
BackupAppends(e) ==
    /\ pc = "fusion" /\ e \in {pending, TornEntry}
    /\ fusionWAL' = Append(fusionWAL, e)
    /\ UNCHANGED wal

LEMMA FailedAppend ==
    ASSUME LogInv, NEW kind \in {"clean", "short", "sync"}, AppendFails(kind)
    PROVE  \/ UNCHANGED <<wal, fusionWAL>>
           \/ \E e \in {pending, TornEntry} :
                 (ShardAppends(e) \/ BackupAppends(e)) /\ (e = pending => "sync" \in Faults)
<1>1. CASE kind = "clean"
  <2>1. wal = [wal EXCEPT ![pending.shard] = @]
    BY DEF LogInv, LogsTyped
  <2>. QED BY <1>1, <2>1 DEF AppendFails, Partly
<1>2. CASE kind = "short"
  BY <1>2, TornIsNoEntry
     DEF AppendFails, Partly, ShardAppends, BackupAppends, LogInv, MethodTyped, Writing
<1>3. CASE kind = "sync"
  BY <1>3 DEF AppendFails, Partly, Fail, ShardAppends, BackupAppends
<1>. QED BY <1>1, <1>2, <1>3

LEMMA LogStep ==
    ASSUME LogInv, [Next]_vars
    PROVE  \/ UNCHANGED <<wal, fusionWAL>>
           \/ \E e \in {pending, TornEntry} : ShardAppends(e) \/ BackupAppends(e)
<1>1. CASE AppendSource \/ AppendFusion \/ CrashInAppend
  BY <1>1 DEF AppendSource, AppendFusion, CrashInAppend, ShardAppends, BackupAppends
<1>2. CASE \E kind \in {"clean", "short", "sync"} : AppendFails(kind)
  BY <1>2, FailedAppend
<1>3. \/ UNCHANGED <<wal, fusionWAL>>
      \/ AppendSource \/ AppendFusion \/ CrashInAppend
      \/ \E kind \in {"clean", "short", "sync"} : AppendFails(kind)
  BY DEF Next, Step, Request, Failure, vars, disk, Begin, BeginPut, BeginDelete,
         DeleteAbsent, Apply, BeginSnapshot, RemoveSnapshot, WriteSnapshot,
         WriteTemporary, Rename, RenameFails, RemoveCheckpoint, WritesPartly,
         SnapshotFails, CrashShard, RecoverShard, Close, Crash, CrashInSnapshot,
         Open, OpenRefused
<1>. QED BY <1>1, <1>2, <1>3

\* An append to a shard's log commits nothing; one to the backup's log commits
\* the pending record.
LEMMA AppendsCommit ==
    ASSUME LogInv, NEW e, ShardAppends(e) \/ BackupAppends(e), NEW s \in Shard
    PROVE  Recs(s)' = IF BackupAppends(e) /\ e = pending /\ s = pending.shard
                      THEN Recs(s) \cup {pending}
                      ELSE Recs(s)
<1>. DEFINE s0 == pending.shard
<1>1. /\ s0 \in Shard /\ pending \in Entry /\ e \in AnyEntry
      /\ pending.sequence \in Nat /\ pending.sequence >= 1 /\ pending # TornEntry
      /\ TornEntry.sequence = 0
  BY RouteInShard, TornIsNoEntry
     DEF ShardAppends, BackupAppends, LogInv, MethodTyped, Writing, AnyEntry, Entry
<1>2. \A c \in Entries(fusionWAL) : c = TornEntry \/ c \in Entry
  BY DEF LogInv, LogsTyped, Entries, AnyEntry
<1>3. \A f \in Entries(wal[s]) : f = TornEntry \/ f \in Entry
  BY DEF LogInv, LogsTyped, Entries, AnyEntry
<1>4. CASE ShardAppends(e)
  <2>1. Entries(wal'[s]) = IF s = s0 THEN Entries(wal[s]) \cup {e} ELSE Entries(wal[s])
    <3>1. wal'[s] = IF s = s0 THEN Append(wal[s], e) ELSE wal[s]
      BY <1>1, <1>4 DEF ShardAppends, LogInv, LogsTyped
    <3>2. wal[s] \in Seq(AnyEntry)
      BY DEF LogInv, LogsTyped
    <3>3. Entries(Append(wal[s], e)) = Entries(wal[s]) \cup {e}
      BY <1>1, <3>2, AppendLog
    <3>4. CASE s = s0
      BY <3>1, <3>3, <3>4
    <3>5. CASE s # s0
      BY <3>1, <3>5
    <3>. QED BY <3>4, <3>5
  <2>2. fusionWAL' = fusionWAL /\ pc = "source" /\ e \in {pending, TornEntry}
    BY <1>4 DEF ShardAppends
  <2>3. \A c \in Entries(fusionWAL) : c.sequence # pending.sequence
    BY <2>2 DEF LogInv, Fresh
  <2>4. Recs(s)' = Recs(s)
    BY <2>1, <2>2, <2>3 DEF Recs, CommittedIn
  <2>. QED BY <2>2, <2>4 DEF BackupAppends
<1>5. CASE BackupAppends(e)
  <2>1. /\ pc = "fusion" /\ e \in {pending, TornEntry} /\ wal' = wal
        /\ Entries(fusionWAL') = Entries(fusionWAL) \cup {e}
    BY <1>1, <1>5, AppendLog DEF BackupAppends, LogInv, LogsTyped
  <2>2. pending \in Entries(wal[s0])
    BY <2>1 DEF LogInv, Fresh
  <2>3. CASE e = TornEntry
    <3>1. \A f \in Entries(wal[s]) : f # TornEntry => f.sequence # e.sequence
      BY <1>1, <1>3, <2>3, TornIsNoEntry
    <3>2. Recs(s)' = Recs(s)
      BY <2>1, <3>1 DEF Recs, CommittedIn
    <3>. QED BY <1>1, <2>3, <3>2
  <2>4. CASE e = pending
    <3>1. \A f \in Entries(wal[s]) : f.sequence = e.sequence => s = s0 /\ f = e
      <4>1. SUFFICES ASSUME NEW f \in Entries(wal[s]), f.sequence = e.sequence
                     PROVE  s = s0 /\ f = e
        BY Zenon
      <4>2. PICK i \in DOMAIN wal[s] : wal[s][i] = f
        BY DEF Entries
      <4>3. PICK j \in DOMAIN wal[s0] : wal[s0][j] = e
        BY <2>2, <2>4 DEF Entries
      <4>4. e # TornEntry
        BY <1>1, <2>4
      <4>5. s0 = s /\ j = i
        BY <1>1, <4>1, <4>2, <4>3, <4>4 DEF LogInv, LogsAgree, LoggedOnce
      <4>. QED BY <4>2, <4>3, <4>5
    <3>2. Recs(s)' = IF s = s0 THEN Recs(s) \cup {e} ELSE Recs(s)
      BY <1>1, <2>1, <2>2, <2>4, <3>1 DEF Recs, CommittedIn
    <3>. QED BY <1>5, <2>4, <3>2
  <2>. QED BY <2>1, <2>3, <2>4
<1>. QED BY <1>4, <1>5

\* The logs stay in order: the running method's number is the largest.
LEMMA LogsStayInOrder ==
    ASSUME LogInv, OrderInv, [Next]_vars, NEW s \in Shard
    PROVE  InOrder(wal'[s])
<1>1. CASE wal'[s] = wal[s]
  BY <1>1 DEF OrderInv
<1>2. ASSUME NEW e, ShardAppends(e) PROVE InOrder(wal'[s])
  <2>. DEFINE log == wal[s]
              new == Len(log) + 1
  <2>1. /\ pending.shard \in Shard /\ pending \in Entry /\ e \in AnyEntry
        /\ pc = "source" /\ e \in {pending, TornEntry} /\ Writing
    BY <1>2, RouteInShard
       DEF ShardAppends, LogInv, MethodTyped, Writing, AnyEntry, Entry
  <2>2. wal'[s] = IF s = pending.shard THEN Append(log, e) ELSE log
    BY <1>2, <2>1 DEF ShardAppends, LogInv, LogsTyped
  <2>3. log \in Seq(AnyEntry)
    BY DEF LogInv, LogsTyped
  <2>4. ASSUME NEW i \in DOMAIN log PROVE log[i].sequence < pending.sequence
    <3>1. log[i] \in Entries(log) /\ log[i] \in AnyEntry
      BY <2>3 DEF Entries
    <3>2. status = "up"
      BY <2>1 DEF LogInv, MethodTyped
    <3>3. log[i].sequence < next /\ log[i].sequence # pending.sequence
      BY <2>1, <3>1, <3>2 DEF LogInv, Fresh
    <3>4. next = pending.sequence + 1
      BY <2>1 DEF OrderInv
    <3>5. log[i].sequence \in Nat /\ pending.sequence \in Nat
      BY <2>1, <3>1, TornIsNoEntry DEF AnyEntry
    <3>. QED BY <3>3, <3>4, <3>5
  <2>5. InOrder(log)
    BY DEF OrderInv
  <2>6. /\ DOMAIN Append(log, e) = DOMAIN log \cup {new} /\ new \notin DOMAIN log
        /\ \A i \in DOMAIN log : Append(log, e)[i] = log[i]
        /\ Append(log, e)[new] = e
        /\ \A i \in DOMAIN log : i < new
    BY <2>1, <2>3, AppendLog
  <2>7. new \in Nat /\ DOMAIN log \subseteq Nat
    BY <2>3
  <2>. HIDE DEF log, new
  <2>8. InOrder(Append(log, e))
    <3>1. SUFFICES ASSUME NEW i \in DOMAIN Append(log, e), NEW j \in DOMAIN Append(log, e),
                          i < j, Append(log, e)[i] # TornEntry, Append(log, e)[j] # TornEntry
                   PROVE  Append(log, e)[i].sequence < Append(log, e)[j].sequence
      BY Zenon DEF InOrder
    <3>2. i # new
      BY <2>6, <2>7, <3>1
    <3>3. CASE j = new
      BY <2>1, <2>4, <2>6, <3>1, <3>2, <3>3
    <3>4. CASE j # new
      BY <2>5, <2>6, <3>1, <3>2, <3>4 DEF InOrder
    <3>. QED BY <3>3, <3>4
  <2>. QED BY <2>2, <2>5, <2>8
<1>. QED BY <1>1, <1>2, LogStep DEF BackupAppends
-----------------------------------------------------------------------------
(* The numbers                                                             *)

LEMMA OrderInvInit == Init => OrderInv
BY DEF Init, OrderInv, InOrder, Writing

LEMMA NumbersTyped ==
    LogInv => /\ next \in Nat /\ committed \in Nat
              /\ Writing => pending.sequence \in Nat /\ pending.sequence < next
BY FilesAssumption, TornIsNoEntry DEF LogInv, MethodTyped, Fresh

LEMMA OrderInvNext == LogInv /\ FileInv /\ OrderInv /\ [Next]_vars => OrderInv'
<1>. SUFFICES ASSUME LogInv, FileInv, OrderInv, [Next]_vars PROVE OrderInv'
  OBVIOUS
<1>. DEFINE Sorted == \A s \in Shard : InOrder(wal[s])
            Running == IF Writing THEN next = pending.sequence + 1 ELSE pending = NoEntry
            Behind == status = "up" => committed < IF Writing THEN pending.sequence ELSE next
            Reaches == status = "up" /\ current # NoFile => current <= committed
<1>1. Sorted'
  BY LogsStayInOrder
<1>2. /\ Running /\ Behind /\ Reaches
      /\ next \in Nat /\ committed \in Nat
      /\ Writing => pending.sequence \in Nat /\ pending.sequence < next
  BY NumbersTyped DEF OrderInv
<1>3. Running' /\ Behind' /\ Reaches' => OrderInv'
  BY <1>1 DEF OrderInv
<1>. HIDE DEF Sorted
<1>4. ASSUME NEW op, NEW k, NEW v, Begin(op, k, v) PROVE OrderInv'
  <2>1. /\ ~Writing /\ Writing' /\ pending'.sequence = next /\ next' = next + 1
        /\ UNCHANGED <<status, committed, current>>
    BY <1>4 DEF Begin, Idle, Writing, disk, memory
  <2>. QED BY <1>2, <1>3, <2>1
<1>5. CASE AppendSource \/ AppendFusion
  <2>1. Writing /\ Writing' /\ UNCHANGED <<pending, next, status, committed, current>>
    BY <1>5 DEF AppendSource, AppendFusion, Writing, memory
  <2>. QED BY <1>2, <1>3, <2>1
<1>6. ASSUME NEW kind, AppendFails(kind) PROVE OrderInv'
  <2>1. /\ Writing /\ ~Writing' /\ pending' = NoEntry
        /\ UNCHANGED <<next, status, committed, current>>
    BY <1>6 DEF AppendFails, Finish, Writing, memory
  <2>. QED BY <1>2, <1>3, <2>1
<1>7. CASE Apply
  <2>1. /\ Writing /\ ~Writing' /\ pending' = NoEntry /\ committed' = pending.sequence
        /\ UNCHANGED <<next, status, current>>
    BY <1>7 DEF Apply, Finish, Writing, disk
  <2>2. Reaches'
    <3>1. current \in Nat \cup {NoFile}
      BY DEF FileInv, FilesTyped
    <3>. QED BY <1>2, <2>1, <3>1
  <2>. QED BY <1>2, <1>3, <2>1, <2>2
<1>8. ASSUME ~Writing, ~Writing', UNCHANGED <<next, status, committed>>, pending' \in {pending, NoEntry},
             current' \in {current, NoFile, committed}
      PROVE  OrderInv'
  BY <1>2, <1>3, <1>8
<1>9. CASE \/ \E k \in Keys : DeleteAbsent(k)
           \/ BeginSnapshot
           \/ \E s \in Shard : CrashShard(s) \/ RecoverShard(s)
  <2>1. /\ ~Writing /\ ~Writing'
        /\ UNCHANGED <<next, status, committed, pending, current>>
    BY <1>9 DEF DeleteAbsent, BeginSnapshot, CrashShard, RecoverShard, Idle, Writing,
                disk, memory, running
  <2>. QED BY <1>8, <2>1
<1>10. CASE RemoveSnapshot \/ WriteSnapshot \/ WriteTemporary \/ RemoveCheckpoint
  <2>1. /\ ~Writing /\ ~Writing' /\ current' \in {current, NoFile}
        /\ UNCHANGED <<next, status, committed, pending>>
    BY <1>10 DEF RemoveSnapshot, WriteSnapshot, WriteTemporary, RemoveCheckpoint, Writing, memory
  <2>. QED BY <1>8, <2>1
<1>11. CASE Rename \/ RenameFails \/ SnapshotFails
  <2>1. /\ ~Writing /\ ~Writing' /\ current' \in {current, committed}
        /\ UNCHANGED <<next, status, committed>> /\ pending' \in {pending, NoEntry}
    BY <1>11 DEF Rename, RenameFails, SnapshotFails, WritesPartly, Finish, Writing, memory,
                 disk, FileInv, SnapshotUsable
  <2>. QED BY <1>8, <2>1
<1>12. CASE Close \/ Crash \/ CrashInSnapshot \/ CrashInAppend
  <2>1. status' = "down" /\ ~Writing' /\ pending' = NoEntry
    BY <1>12 DEF Close, Crash, CrashInSnapshot, CrashInAppend, End, Finish, Writing
  <2>. QED BY <1>3, <2>1
<1>13. CASE Open
  <2>1. PICK n \in 0 .. MaxSequence : Largest(n, Seen) /\ next' = n + 1
    BY <1>13 DEF Open
  <2>2. /\ ~Writing /\ ~Writing' /\ pending' = pending /\ current' = current
    BY <1>13 DEF Open, LogInv, MethodTyped, Writing, running, disk
  <2>3. committed' \in Replayed /\ committed' \in Nat /\ Checkpoint <= committed'
    <3>1. committed' \in 0 .. MaxSequence /\ Largest(committed', Replayed)
      BY <1>13 DEF Open
    <3>2. Checkpoint \in Replayed
      BY DEF Replayed
    <3>. QED BY <3>1, <3>2 DEF Largest
  <2>4. committed' < next'
    <3>1. Replayed \subseteq Seen
      BY DEF Replayed, Seen, SeenCommitted, Applied, CommittedIn
    <3>. QED BY <2>1, <2>3, <3>1 DEF Largest
  <2>5. Reaches'
    BY <2>2, <2>3 DEF Checkpoint
  <2>. QED BY <1>2, <1>3, <2>2, <2>4, <2>5
<1>14. CASE OpenRefused
  <2>1. status' = "refused" /\ UNCHANGED <<pc, pending, next>>
    BY <1>14 DEF OpenRefused, running
  <2>2. Running'
    BY <1>2, <2>1 DEF Writing
  <2>. QED BY <1>3, <2>1, <2>2
<1>15. CASE UNCHANGED vars
  <2>1. UNCHANGED <<pc, pending, next, status, committed, current>>
    BY <1>15 DEF vars, disk, memory, running
  <2>2. Running' /\ Behind' /\ Reaches'
    BY <1>2, <2>1 DEF Writing
  <2>. QED BY <1>3, <2>2
<1>. HIDE DEF Running, Behind, Reaches
<1>. QED
  BY <1>4, <1>5, <1>6, <1>7, <1>9, <1>10, <1>11, <1>12, <1>13, <1>14, <1>15
     DEF Next, Step, Request, Failure, BeginPut, BeginDelete

LEMMA OrderAlways == Spec => [](LogInv /\ FileInv /\ OrderInv)
BY LogInvInit, LogInvNext, FileInvInit, FileInvNext, OrderInvInit, OrderInvNext, PTL DEF Spec

\* A checkpoint is replaced by a later one only, over any number of snapshots,
\* failed renames, crashes and restarts: Snapshot names committed, which starts
\* at the checkpoint or beyond it and only grows.
THEOREM CheckpointsOnlyAdvance == Spec => CheckpointAdvances
<1>1. LogInv /\ FileInv /\ OrderInv /\ [Next]_vars =>
        [current' \notin {current, NoFile} => current = NoFile \/ current' > current]_vars
  <2>. SUFFICES ASSUME LogInv, FileInv, OrderInv, [Next]_vars, current' \notin {current, NoFile},
                       current # NoFile
                PROVE  current' > current
    OBVIOUS
  <2>1. Rename
    BY DEF Next, Step, Request, Failure, vars, disk, Begin, BeginPut, BeginDelete,
           DeleteAbsent, AppendSource, AppendFusion, AppendFails, Apply, BeginSnapshot,
           RemoveSnapshot, WriteSnapshot, WriteTemporary, RenameFails, RemoveCheckpoint,
           WritesPartly, SnapshotFails, CrashShard, RecoverShard, Close, Crash,
           CrashInSnapshot, CrashInAppend, Open, OpenRefused
  <2>2. current' = committed /\ status = "up"
    BY <2>1 DEF Rename, FileInv, SnapshotUsable, LogInv, MethodTyped
  <2>3. current <= committed /\ current \in Nat /\ committed \in Nat
    BY <2>2, NumbersTyped DEF OrderInv, FileInv, FilesTyped
  <2>. QED BY <2>2, <2>3
<1>. QED BY <1>1, OrderAlways, PTL DEF Spec, CheckpointAdvances
-----------------------------------------------------------------------------
(* Types                                                                   *)

SnapshotFiles == [state : {"none", "torn", "whole"}, sequence : 0 .. MaxSequence, records : Map]

\* What TypeOK says of the variables that LogInv and OrderInv do not type.
RestTyped ==
    /\ FileTypeOK
    /\ status \in {"down", "up", "refused"}
    /\ data \in [Shard -> Map]
    /\ failed \subseteq Shard
    /\ checkpoint \in 0 .. MaxSequence
    /\ hasSnapshot \in BOOLEAN
    /\ HistoryTypeOK

LEMMA TypesTogether == LogInv /\ OrderInv /\ RestTyped => TypeOK
<1>. SUFFICES ASSUME LogInv, OrderInv, RestTyped PROVE TypeOK
  OBVIOUS
<1>1. LogTypeOK
  BY DEF LogInv, LogsTyped, LogTypeOK, AnyEntry
<1>2. MemoryTypeOK
  BY DEF LogInv, MethodTyped, RestTyped, MemoryTypeOK
<1>3. MethodTypeOK
  BY DEF LogInv, MethodTyped, OrderInv, MethodTypeOK, Writing, Snapshotting, Pointing
<1>. QED BY <1>1, <1>2, <1>3 DEF RestTyped, TypeOK

\* Replaying files gives maps of keys to values.
LEMMA ReplayTyped ==
    ASSUME LogInv, FileTypeOK
    PROVE  /\ \A s \in Shard : Replay(s) \in Map
           /\ Recovered \in Map
<1>1. ASSUME NEW s \in Shard PROVE Replay(s) \in Map
  <2>1. Base(s) \in Map
    BY FilesAssumption DEF Base, FileTypeOK, EmptyMap, Map, Contents
  <2>2. wal[s] \in Seq(AnyEntry)
    BY DEF LogInv, LogsTyped
  <2>3. \A e \in AnyEntry : e.value \in Contents
    BY DEF AnyEntry, Entry, TornEntry, Contents
  <2>4. ASSUME NEW k \in Keys PROVE Replay(s)[k] \in Contents
    <3>. DEFINE last == LastAt(wal[s], Applied(s), k)
    <3>1. Replay(s)[k] = IF last = {} THEN Base(s)[k]
                         ELSE wal[s][CHOOSE i \in last : TRUE].value
      BY Zenon DEF Replay, ApplyTo
    <3>2. CASE last = {}
      BY <2>1, <3>1, <3>2 DEF Map
    <3>3. CASE last # {}
      <4>1. PICK i \in DOMAIN wal[s] : i = CHOOSE j \in last : TRUE
        BY <3>3 DEF LastAt
      <4>2. wal[s][i] \in AnyEntry
        BY <2>2
      <4>. QED BY <2>3, <3>1, <3>3, <4>1, <4>2
    <3>. QED BY <3>2, <3>3
  <2>5. Replay(s) = [k \in Keys |-> Replay(s)[k]]
    BY DEF Replay, ApplyTo
  <2>. QED BY <2>4, <2>5 DEF Map
<1>2. Recovered \in Map
  BY <1>1, RouteInShard DEF Recovered, Map
<1>. QED BY <1>1, <1>2

LEMMA RestTypedInit == Init => RestTyped
<1>1. EmptyMap \in Map /\ 0 \in 0 .. MaxSequence
  BY FilesAssumption DEF EmptyMap, Map, Contents
<1>2. NoSnapshot \in SnapshotFiles
  BY <1>1 DEF NoSnapshot, SnapshotFile, SnapshotFiles
<1>. SUFFICES ASSUME Init PROVE RestTyped
  OBVIOUS
<1>3. FileTypeOK
  <2>1. snapshots \in [0 .. MaxSequence -> [Shard -> SnapshotFiles]]
    BY <1>2 DEF Init
  <2>. QED BY <2>1 DEF Init, FileTypeOK, SnapshotFiles
<1>4. HistoryTypeOK
  BY <1>1, DatabaseAssumption DEF Init, HistoryTypeOK
<1>. QED BY <1>1, <1>3, <1>4 DEF Init, RestTyped

\* The records of one shard, as the client was told of them.
AckedRecords(s) == {r \in RecordsOf(acked) : Route(r.key) = s}

\* What RecoverShard rebuilds, when the backup is right.
LEMMA RebuiltMap ==
    ASSUME NEW s, acked \in Map
    PROVE  /\ MapOf(AckedRecords(s)) \in Map
           /\ \A k \in Keys : Route(k) = s => MapOf(AckedRecords(s))[k] = acked[k]
<1>. DEFINE R == AckedRecords(s)
<1>1. \A r \in R : r.key \in Keys /\ r.value = acked[r.key] /\ Route(r.key) = s
  BY DEF AckedRecords, RecordsOf
<1>2. ASSUME NEW k \in Keys, Route(k) = s, acked[k] # Absent PROVE \E r \in R : r.key = k
  <2>1. [key |-> k, value |-> acked[k]] \in R
    BY <1>2 DEF AckedRecords, RecordsOf
  <2>. QED BY <2>1
<1>. HIDE DEF R
<1>3. ASSUME NEW k \in Keys
      PROVE  MapOf(R)[k] = IF \E r \in R : r.key = k THEN acked[k] ELSE Absent
  BY <1>1 DEF MapOf
<1>4. MapOf(R) \in Map
  <2>1. MapOf(R) = [k \in Keys |-> MapOf(R)[k]]
    BY DEF MapOf
  <2>2. \A k \in Keys : MapOf(R)[k] \in Contents
    BY <1>3 DEF Map, Contents
  <2>. QED BY <2>1, <2>2 DEF Map
<1>5. \A k \in Keys : Route(k) = s => MapOf(R)[k] = acked[k]
  BY <1>2, <1>3
<1>. QED BY <1>4, <1>5 DEF R

\* A step that recovers shard s puts there what the client was told.
LEMMA RecoverStep ==
    ASSUME LogInv, MemoryInv, FusionRecovers, NEW s \in Shard, RecoverShard(s)
    PROVE  data' = [data EXCEPT ![s] = MapOf(AckedRecords(s))] /\ failed' = {}
<1>1. status = "up" /\ s \in failed
  BY DEF RecoverShard, Idle
<1>2. failed = {s}
  BY <1>1 DEF MemoryInv
<1>3. Recover(fusion, s, Survivors(s)) = AckedRecords(s)
  BY <1>1, <1>2 DEF FusionRecovers, AckedRecords
<1>. QED BY <1>2, <1>3 DEF RecoverShard

LEMMA RestTypedNext ==
    LogInv /\ FileInv /\ OrderInv /\ MemoryInv /\ RestTyped /\ FusionRecovers /\ [Next]_vars => RestTyped'
<1>. SUFFICES ASSUME LogInv, FileInv, OrderInv, MemoryInv, RestTyped, FusionRecovers, [Next]_vars
              PROVE RestTyped'
  OBVIOUS
<1>. DEFINE Files == UNCHANGED <<snapshots, current, temporary>>
            Memory == UNCHANGED <<status, data, failed, marks>>
<1>1. /\ committed \in 0 .. MaxSequence /\ cursor \in Shard /\ EmptyMap \in Map
      /\ 0 \in 0 .. MaxSequence
      /\ Writing => pending.key \in Keys /\ pending.value \in Contents /\ pending.shard \in Shard
  BY FilesAssumption, RouteInShard DEF LogInv, MethodTyped, EmptyMap, Map, Contents, Entry
<1>2. ASSUME Files PROVE FileTypeOK'
  BY <1>2 DEF RestTyped, FileTypeOK
<1>3. ASSUME Memory
      PROVE  /\ status' \in {"down", "up", "refused"} /\ data' \in [Shard -> Map]
             /\ failed' \subseteq Shard /\ checkpoint' \in 0 .. MaxSequence
             /\ hasSnapshot' \in BOOLEAN
  BY <1>3 DEF RestTyped, marks
<1>4. ASSUME UNCHANGED <<history, bounds>> PROVE HistoryTypeOK'
  BY <1>4 DEF RestTyped, HistoryTypeOK, history, bounds
<1>5. ASSUME NEW kind, Fail(kind), UNCHANGED history PROVE HistoryTypeOK'
  BY <1>5, DatabaseAssumption DEF RestTyped, HistoryTypeOK, Fail, history
<1>6. ASSUME LeaveOpen, Writing
      PROVE  /\ acked' \in Map /\ maybe' \in [Keys -> SUBSET Contents]
  BY <1>1, <1>6 DEF RestTyped, HistoryTypeOK, LeaveOpen
<1>7. ASSUME NEW k \in Keys, NEW v \in Contents, Acknowledge(k, v), UNCHANGED bounds
      PROVE  HistoryTypeOK'
  <2>1. acked' \in Map
    BY <1>7 DEF RestTyped, HistoryTypeOK, Acknowledge, Map
  <2>2. maybe' \in [Keys -> SUBSET Contents]
    BY <1>7 DEF RestTyped, HistoryTypeOK, Acknowledge
  <2>. QED BY <1>7, <2>1, <2>2 DEF RestTyped, HistoryTypeOK, bounds
<1>8. ASSUME NEW file \in SnapshotFiles,
             snapshots' = [snapshots EXCEPT ![committed][cursor] = file],
             UNCHANGED <<current, temporary>>
      PROVE  FileTypeOK'
  <2>1. snapshots \in [0 .. MaxSequence -> [Shard -> SnapshotFiles]]
    BY DEF RestTyped, FileTypeOK, SnapshotFiles
  <2>2. snapshots' \in [0 .. MaxSequence -> [Shard -> SnapshotFiles]]
    <3>. HIDE DEF SnapshotFiles
    <3>. QED BY <1>1, <1>8, <2>1
  <2>. QED BY <1>8, <2>2 DEF RestTyped, FileTypeOK, SnapshotFiles
<1>9. /\ NoSnapshot \in SnapshotFiles /\ TornSnapshot \in SnapshotFiles
      /\ Whole(committed, data[cursor]) \in SnapshotFiles
  <2>1. data[cursor] \in Map
    BY <1>1 DEF RestTyped
  <2>. QED BY <1>1, <2>1 DEF NoSnapshot, TornSnapshot, Whole, SnapshotFile, SnapshotFiles
<1>10. ASSUME WritesPartly PROVE FileTypeOK'
  <2>1. CASE pc = "write"
    <3>1. PICK file \in {TornSnapshot, Whole(committed, data[cursor])} :
             snapshots' = [snapshots EXCEPT ![committed][cursor] = file]
      BY <1>10, <2>1 DEF WritesPartly
    <3>. QED BY <1>8, <1>9, <1>10, <2>1, <3>1 DEF WritesPartly
  <2>2. CASE pc = "checkpoint"
    BY <1>1, <1>10, <2>2 DEF WritesPartly, RestTyped, FileTypeOK
  <2>. QED BY <1>10, <2>1, <2>2 DEF WritesPartly
<1>11. ASSUME End
       PROVE  /\ status' \in {"down", "up", "refused"} /\ data' \in [Shard -> Map]
              /\ failed' \subseteq Shard /\ checkpoint' \in 0 .. MaxSequence
              /\ hasSnapshot' \in BOOLEAN
              /\ restarts' \in 0 .. MaxRestarts
  <2>1. data' \in [Shard -> Map]
    BY <1>1, <1>11 DEF End
  <2>2. restarts' \in 0 .. MaxRestarts
    BY <1>11, DatabaseAssumption DEF End, RestTyped, HistoryTypeOK
  <2>. QED BY <1>1, <1>11, <2>1, <2>2 DEF End
<1>. HIDE DEF Files, Memory
<1>12. ASSUME NEW op, NEW k, NEW v, Begin(op, k, v) PROVE RestTyped'
  <2>1. Files /\ Memory /\ UNCHANGED <<history, bounds>>
    BY <1>12 DEF Begin, Files, Memory, disk, memory
  <2>. QED BY <1>2, <1>3, <1>4, <2>1 DEF RestTyped
<1>13. CASE AppendSource \/ AppendFusion \/ BeginSnapshot \/ UNCHANGED vars
  <2>1. Files /\ Memory /\ UNCHANGED <<history, bounds>>
    BY <1>13 DEF AppendSource, AppendFusion, BeginSnapshot, vars, Files, Memory, disk, memory
  <2>. QED BY <1>2, <1>3, <1>4, <2>1 DEF RestTyped
<1>14. ASSUME NEW k \in Keys, DeleteAbsent(k) PROVE RestTyped'
  <2>1. Files /\ Memory /\ Acknowledge(k, Absent) /\ UNCHANGED bounds
    BY <1>14 DEF DeleteAbsent, Files, Memory, disk, memory
  <2>2. Absent \in Contents
    BY DEF Contents
  <2>. QED BY <1>2, <1>3, <1>7, <2>1, <2>2 DEF RestTyped
<1>15. ASSUME NEW kind, AppendFails(kind) PROVE RestTyped'
  <2>1. Files /\ Memory /\ LeaveOpen /\ Writing /\ Fail(kind)
    BY <1>15 DEF AppendFails, Files, Memory, memory, Writing
  <2>2. HistoryTypeOK'
    <3>1. restarts' \in 0 .. MaxRestarts /\ faults' \in 0 .. MaxFaults
      BY <2>1, DatabaseAssumption DEF RestTyped, HistoryTypeOK, Fail
    <3>. QED BY <1>6, <2>1, <3>1 DEF HistoryTypeOK
  <2>. QED BY <1>2, <1>3, <2>1, <2>2 DEF RestTyped
<1>16. CASE Apply
  <2>1. Files /\ UNCHANGED <<status, failed, marks, bounds>> /\ Writing
        /\ Acknowledge(pending.key, pending.value)
        /\ data' = [data EXCEPT ![pending.shard][pending.key] = pending.value]
    BY <1>16 DEF Apply, Files, disk, Writing
  <2>2. data' \in [Shard -> Map]
    BY <1>1, <2>1 DEF RestTyped, Map
  <2>. QED BY <1>1, <1>2, <1>7, <2>1, <2>2 DEF RestTyped, marks
<1>17. CASE RemoveSnapshot \/ WriteSnapshot
  <2>1. Memory /\ UNCHANGED <<current, temporary, history, bounds>>
    BY <1>17 DEF RemoveSnapshot, WriteSnapshot, Memory, memory
  <2>2. FileTypeOK'
    BY <1>8, <1>9, <1>17, <2>1 DEF RemoveSnapshot, WriteSnapshot
  <2>. QED BY <1>3, <1>4, <2>1, <2>2 DEF RestTyped
<1>18. CASE WriteTemporary \/ RemoveCheckpoint
  <2>1. Memory /\ UNCHANGED <<history, bounds>>
    BY <1>18 DEF WriteTemporary, RemoveCheckpoint, Memory, memory
  <2>2. FileTypeOK'
    BY <1>1, <1>18 DEF WriteTemporary, RemoveCheckpoint, RestTyped, FileTypeOK
  <2>. QED BY <1>3, <1>4, <2>1, <2>2 DEF RestTyped
<1>19. CASE Rename
  <2>1. temporary = committed
    BY <1>19 DEF Rename, FileInv, SnapshotUsable
  <2>2. FileTypeOK'
    BY <1>1, <1>19, <2>1 DEF Rename, RestTyped, FileTypeOK
  <2>. QED BY <1>1, <1>4, <1>19, <2>2 DEF Rename, RestTyped, memory
<1>20. CASE RenameFails
  <2>1. Files /\ Memory /\ Fail("rename") /\ UNCHANGED history
    BY <1>20 DEF RenameFails, Files, Memory, disk, memory
  <2>. QED BY <1>2, <1>3, <1>5, <2>1 DEF RestTyped
<1>21. CASE SnapshotFails
  <2>1. Memory /\ Fail("snapshot") /\ UNCHANGED history
    BY <1>21 DEF SnapshotFails, Memory, memory
  <2>2. FileTypeOK'
    BY <1>2, <1>10, <1>21 DEF SnapshotFails, Files, disk
  <2>. QED BY <1>3, <1>5, <2>1, <2>2 DEF RestTyped
<1>22. ASSUME NEW s \in Shard, CrashShard(s) PROVE RestTyped'
  <2>1. Files /\ UNCHANGED <<status, marks, history, bounds>> /\ failed' = {s}
        /\ data' = [data EXCEPT ![s] = EmptyMap]
    BY <1>22 DEF CrashShard, Files, disk
  <2>2. data' \in [Shard -> Map]
    BY <1>1, <2>1 DEF RestTyped
  <2>. QED BY <1>2, <1>4, <2>1, <2>2 DEF RestTyped, marks
<1>23. ASSUME NEW s \in Shard, RecoverShard(s) PROVE RestTyped'
  <2>1. Files /\ UNCHANGED <<status, marks, history, bounds>>
    BY <1>23 DEF RecoverShard, Files, disk
  <2>2. data' = [data EXCEPT ![s] = MapOf(AckedRecords(s))] /\ failed' = {}
    BY <1>23, RecoverStep
  <2>3. MapOf(AckedRecords(s)) \in Map
    BY RebuiltMap DEF RestTyped, HistoryTypeOK
  <2>4. data' \in [Shard -> Map]
    BY <2>2, <2>3 DEF RestTyped
  <2>. QED BY <1>2, <1>4, <2>1, <2>2, <2>4 DEF RestTyped, marks
<1>24. CASE Close
  <2>1. Files /\ End /\ UNCHANGED <<history, faults>>
    BY <1>24 DEF Close, Files, disk
  <2>. QED BY <1>2, <1>11, <2>1 DEF RestTyped, HistoryTypeOK, history
<1>25. CASE Crash \/ CrashInAppend
  <2>1. Files /\ End /\ LeaveOpen /\ faults' \in 0 .. MaxFaults
    BY <1>25, DatabaseAssumption
       DEF Crash, CrashInAppend, Files, disk, RestTyped, HistoryTypeOK
  <2>2. acked' \in Map /\ maybe' \in [Keys -> SUBSET Contents]
    <3>1. CASE Writing
      BY <1>6, <2>1, <3>1
    <3>2. CASE ~Writing
      BY <2>1, <3>2 DEF OrderInv, LeaveOpen, RestTyped, HistoryTypeOK
    <3>. QED BY <3>1, <3>2
  <2>. QED BY <1>2, <1>11, <2>1, <2>2 DEF RestTyped, HistoryTypeOK
<1>26. CASE CrashInSnapshot
  <2>1. End /\ FileTypeOK' /\ UNCHANGED <<history, faults>>
    BY <1>10, <1>26 DEF CrashInSnapshot
  <2>. QED BY <1>11, <2>1 DEF RestTyped, HistoryTypeOK, history
<1>27. CASE Open
  <2>1. Files /\ UNCHANGED <<failed, bounds>> /\ status' = "up"
        /\ data' = [s \in Shard |-> Replay(s)] /\ acked' = Recovered
        /\ maybe' = [k \in Keys |-> {}] /\ checkpoint' = Checkpoint
        /\ hasSnapshot' = (current # NoFile)
    BY <1>27 DEF Open, Files, disk
  <2>2. data' \in [Shard -> Map] /\ acked' \in Map
    BY <2>1, ReplayTyped DEF RestTyped
  <2>3. Checkpoint \in 0 .. MaxSequence
    BY <1>1 DEF Checkpoint, RestTyped, FileTypeOK
  <2>. QED BY <1>2, <2>1, <2>2, <2>3 DEF RestTyped, HistoryTypeOK, bounds
<1>28. CASE OpenRefused
  <2>1. Files /\ UNCHANGED <<data, failed, marks, history, bounds>> /\ status' = "refused"
    BY <1>28 DEF OpenRefused, Files, disk, memory
  <2>. QED BY <1>2, <1>4, <2>1 DEF RestTyped, marks
<1>. QED
  BY <1>12, <1>13, <1>14, <1>15, <1>16, <1>18, <1>17, <1>19, <1>20, <1>21, <1>22, <1>23,
     <1>24, <1>25, <1>26, <1>27, <1>28
     DEF Next, Step, Request, Failure, BeginPut, BeginDelete
-----------------------------------------------------------------------------
(* Memory                                                                  *)

LEMMA MemoryInvInit == Init => MemoryInv
BY DEF Init, MemoryInv, Writing, Snapshotting, Pointing

LEMMA MemoryInvNext ==
    LogInv /\ FileInv /\ MemoryInv /\ RestTyped /\ FusionRecovers /\ [Next]_vars => MemoryInv'
<1>. SUFFICES ASSUME LogInv, FileInv, MemoryInv, RestTyped, FusionRecovers, [Next]_vars
              PROVE MemoryInv'
  OBVIOUS
<1>. DEFINE Told == status = "up" =>
                       \A k \in Keys : Route(k) \notin failed => data[Route(k)][k] = acked[k]
            OneLost == \A s, t \in failed : s = t
            Needed == /\ Writing => pending.shard \notin failed
                      /\ Snapshotting \/ Pointing => failed = {}
<1>1. Told /\ OneLost /\ Needed
  BY DEF MemoryInv
<1>2. Told' /\ OneLost' /\ Needed' => MemoryInv'
  BY DEF MemoryInv
<1>3. acked \in Map /\ data \in [Shard -> Map]
  BY DEF RestTyped, HistoryTypeOK
<1>4. \A k \in Keys : Route(k) \in Shard
  BY RouteInShard
<1>5. ASSUME UNCHANGED <<status, data, failed, acked>> PROVE Told' /\ OneLost'
  BY <1>1, <1>5
<1>. HIDE DEF Told, OneLost
<1>6. ASSUME NEW op, NEW k, NEW v, Begin(op, k, v) PROVE MemoryInv'
  <2>1. UNCHANGED <<status, data, failed, acked>>
    BY <1>6 DEF Begin, memory, history
  <2>2. Needed'
    BY <1>6, <2>1 DEF Begin, Writing, Snapshotting, Pointing
  <2>. QED BY <1>2, <1>5, <2>1, <2>2
<1>7. CASE \/ AppendSource \/ AppendFusion
           \/ \E kind \in {"clean", "short", "sync"} : AppendFails(kind)
           \/ RemoveSnapshot \/ WriteSnapshot \/ WriteTemporary \/ Rename \/ RenameFails
           \/ RemoveCheckpoint \/ SnapshotFails \/ BeginSnapshot \/ UNCHANGED vars
  <2>1. UNCHANGED <<status, data, failed, acked>>
    BY <1>7 DEF AppendSource, AppendFusion, AppendFails, LeaveOpen, RemoveSnapshot,
                WriteSnapshot, WriteTemporary, Rename, RenameFails, RemoveCheckpoint,
                SnapshotFails, BeginSnapshot, vars, memory, history
  <2>2. Needed'
    BY <1>1, <1>7, <2>1
       DEF AppendSource, AppendFusion, AppendFails, RemoveSnapshot, WriteSnapshot,
           WriteTemporary, Rename, RenameFails, RemoveCheckpoint, SnapshotFails, BeginSnapshot,
           Healthy, Finish, Writing, Snapshotting, Pointing, vars, running
  <2>. QED BY <1>2, <1>5, <2>1, <2>2
<1>8. ASSUME NEW k0 \in Keys, DeleteAbsent(k0) PROVE MemoryInv'
  <2>1. /\ UNCHANGED <<status, data, failed, pc, pending>> /\ status = "up"
        /\ acked' = [acked EXCEPT ![k0] = Absent]
        /\ data[Route(k0)][k0] = Absent
    BY <1>8 DEF DeleteAbsent, Idle, Acknowledge, memory, running
  <2>2. \A k \in Keys : acked'[k] = IF k = k0 THEN Absent ELSE acked[k]
    BY <1>3, <2>1 DEF Map
  <2>3. Told'
    BY <1>1, <2>1, <2>2 DEF Told
  <2>4. OneLost' /\ Needed'
    BY <1>1, <2>1 DEF OneLost, Writing, Snapshotting, Pointing
  <2>. QED BY <1>2, <2>3, <2>4
<1>9. CASE Apply
  <2>. DEFINE s0 == pending.shard
              k0 == pending.key
  <2>1. /\ status = "up" /\ UNCHANGED <<status, failed>>
        /\ data' = [data EXCEPT ![s0][k0] = pending.value]
        /\ acked' = [acked EXCEPT ![k0] = pending.value]
        /\ k0 \in Keys /\ s0 = Route(k0) /\ s0 \in Shard
    BY <1>9, <1>4 DEF Apply, Acknowledge, LogInv, MethodTyped, Writing, Entry
  <2>2. \A k \in Keys : acked'[k] = IF k = k0 THEN pending.value ELSE acked[k]
    BY <1>3, <2>1 DEF Map
  <2>3. \A k \in Keys : data'[Route(k)][k] = IF k = k0 THEN pending.value ELSE data[Route(k)][k]
    BY <1>3, <1>4, <2>1 DEF Map
  <2>4. Told'
    BY <1>1, <2>1, <2>2, <2>3 DEF Told
  <2>5. OneLost' /\ Needed'
    BY <1>1, <1>9, <2>1 DEF Apply, Finish, OneLost, Writing, Snapshotting, Pointing
  <2>. QED BY <1>2, <2>4, <2>5
<1>10. ASSUME NEW s0 \in Shard, CrashShard(s0) PROVE MemoryInv'
  <2>1. /\ status = "up" /\ pc = "idle" /\ UNCHANGED <<status, acked, pc>>
        /\ failed = {} /\ failed' = {s0} /\ data' = [data EXCEPT ![s0] = EmptyMap]
    BY <1>10 DEF CrashShard, Idle, running, history
  <2>2. \A k \in Keys : Route(k) # s0 => data'[Route(k)][k] = data[Route(k)][k]
    BY <1>3, <1>4, <2>1
  <2>3. Told'
    BY <1>1, <2>1, <2>2 DEF Told
  <2>4. OneLost' /\ Needed'
    BY <2>1 DEF OneLost, Writing, Snapshotting, Pointing
  <2>. QED BY <1>2, <2>3, <2>4
<1>11. ASSUME NEW s0 \in Shard, RecoverShard(s0) PROVE MemoryInv'
  <2>1. /\ status = "up" /\ pc = "idle" /\ UNCHANGED <<status, acked, pc>> /\ s0 \in failed
    BY <1>11 DEF RecoverShard, Idle, running, history
  <2>2. data' = [data EXCEPT ![s0] = MapOf(AckedRecords(s0))] /\ failed' = {}
    BY <1>11, RecoverStep
  <2>3. \A k \in Keys : Route(k) # s0 => Route(k) \notin failed
    BY <1>1, <2>1 DEF OneLost
  <2>4. \A k \in Keys : data'[Route(k)][k] =
           IF Route(k) = s0 THEN MapOf(AckedRecords(s0))[k] ELSE data[Route(k)][k]
    BY <1>3, <1>4, <2>2
  <2>5. \A k \in Keys : Route(k) = s0 => MapOf(AckedRecords(s0))[k] = acked[k]
    BY <1>3, RebuiltMap
  <2>6. Told'
    BY <1>1, <2>1, <2>3, <2>4, <2>5 DEF Told
  <2>7. OneLost' /\ Needed'
    BY <2>1, <2>2 DEF OneLost, Writing, Snapshotting, Pointing
  <2>. QED BY <1>2, <2>6, <2>7
<1>12. CASE Close \/ Crash \/ CrashInSnapshot \/ CrashInAppend
  <2>1. status' = "down" /\ failed' = {} /\ pc' = "idle"
    BY <1>12 DEF Close, Crash, CrashInSnapshot, CrashInAppend, End, Finish
  <2>2. Told' /\ OneLost' /\ Needed'
    BY <2>1 DEF Told, OneLost, Writing, Snapshotting, Pointing
  <2>. QED BY <1>2, <2>2
<1>13. CASE Open
  <2>1. /\ pc' = "idle" /\ UNCHANGED failed
        /\ data' = [s \in Shard |-> Replay(s)] /\ acked' = Recovered
    BY <1>13 DEF Open, running, LogInv, MethodTyped
  <2>2. \A k \in Keys : data'[Route(k)][k] = acked'[k]
    BY <1>4, <2>1 DEF Recovered
  <2>3. Told' /\ OneLost' /\ Needed'
    BY <1>1, <2>1, <2>2 DEF Told, OneLost, Writing, Snapshotting, Pointing
  <2>. QED BY <1>2, <2>3
<1>14. CASE OpenRefused
  <2>1. status' = "refused" /\ UNCHANGED <<failed, pc, pending>>
    BY <1>14 DEF OpenRefused, memory, running
  <2>2. Told' /\ OneLost' /\ Needed'
    BY <1>1, <2>1 DEF Told, OneLost, Writing, Snapshotting, Pointing
  <2>. QED BY <1>2, <2>2
<1>. HIDE DEF Needed
<1>. QED
  BY <1>6, <1>7, <1>8, <1>9, <1>10, <1>11, <1>12, <1>13, <1>14
     DEF Next, Step, Request, Failure, BeginPut, BeginDelete

LEMMA MemoryReads == FileInv /\ RestTyped /\ MemoryInv => ReadsSeeAcked
<1>. SUFFICES ASSUME FileInv, RestTyped, MemoryInv, status = "up" PROVE ReadsSeeAcked
  BY DEF ReadsSeeAcked
<1>1. \A k \in Keys : Route(k) \in Shard
  BY RouteInShard
<1>2. \A k \in Keys : Route(k) \notin failed => Get(k) = acked[k]
  BY DEF MemoryInv, Get
<1>3. ASSUME NEW s \in Shard, s \notin failed PROVE RecordsOf(data[s]) = AckedRecords(s)
  <2>1. ASSUME NEW k \in Keys
        PROVE  /\ data[s][k] # Absent => Route(k) = s /\ acked[k] = data[s][k]
               /\ Route(k) = s => acked[k] = data[s][k]
    BY <1>3 DEF MemoryInv, FileInv, MapsRouted
  <2>2. ASSUME NEW r PROVE r \in RecordsOf(data[s]) <=> r \in AckedRecords(s)
    BY <2>1 DEF RecordsOf, AckedRecords
  <2>. QED BY <2>2
<1>4. failed = {} => Scan = RecordsOf(acked)
  <2>. SUFFICES ASSUME failed = {} PROVE Scan = RecordsOf(acked)
    OBVIOUS
  <2>1. \A r \in RecordsOf(acked) : r.key \in Keys
    BY DEF RecordsOf
  <2>2. RecordsOf(acked) = UNION {AckedRecords(s) : s \in Shard}
    BY <1>1, <2>1 DEF AckedRecords
  <2>3. {RecordsOf(data[s]) : s \in Shard} = {AckedRecords(s) : s \in Shard}
    BY <1>3
  <2>. QED BY <2>2, <2>3 DEF Scan
<1>5. ASSUME NEW s \in Shard, ~Shards[s].failed
      PROVE  Shards[s].records = {r \in RecordsOf(acked) : Route(r.key) = s}
  <2>1. s \notin failed /\ Shards[s].records = RecordsOf(data[s])
    BY <1>5 DEF Shards
  <2>. QED BY <1>3, <2>1 DEF AckedRecords
<1>. QED BY <1>2, <1>4, <1>5 DEF ReadsSeeAcked
-----------------------------------------------------------------------------
(* What a restart finds                                                    *)

\* The later records over the snapshot.
RecoveredByNumber ==
    \A k \in Keys : Recovered[k] = ValueIn(Later(Route(k), Checkpoint), k, Base(Route(k))[k])

LEMMA RecoveredIs == LogInv /\ FileInv /\ OrderInv => RecoveredByNumber
<1>. SUFFICES ASSUME LogInv, FileInv, OrderInv, NEW k \in Keys
              PROVE  Recovered[k] = ValueIn(Later(Route(k), Checkpoint), k, Base(Route(k))[k])
  BY DEF RecoveredByNumber
<1>. DEFINE s == Route(k)
            S == Later(s, Checkpoint)
<1>1. s \in Shard
  BY RouteInShard
<1>2. Checkpoint \in Nat
  BY FilesAssumption DEF Checkpoint, FileInv, FilesTyped
<1>3. Applied(s) = S
  BY <1>2, TornIsNoEntry DEF Applied, Later, Recs
<1>4. /\ Numbered(S) /\ \A e \in S : e \in Entries(wal[s])
      /\ DOMAIN wal[s] \subseteq Nat
  BY <1>1, RecsFacts DEF Numbered, Later
<1>5. InOrder(wal[s])
  BY <1>1 DEF OrderInv
<1>. HIDE DEF S
<1>6. ApplyTo(Base(s), wal[s], S)[k] = ValueIn(S, k, Base(s)[k])
  BY <1>4, <1>5, AppliedValue
<1>. QED BY <1>3, <1>6 DEF Recovered, Replay, S

\* A step that leaves the committed records and the current snapshot alone.
LEMMA RecoveredStays ==
    ASSUME LogInv, FileInv, OrderInv, LogInv', FileInv', OrderInv',
           \A s \in Shard : Recs(s)' = Recs(s),
           UNCHANGED current,
           current # NoFile =>
              \A s \in Shard : snapshots'[current][s] = snapshots[current][s]
    PROVE  \A k \in Keys : Recovered'[k] = Recovered[k]
<1>. SUFFICES ASSUME NEW k \in Keys PROVE Recovered'[k] = Recovered[k]
  OBVIOUS
<1>1. RecoveredByNumber /\ RecoveredByNumber'
  BY RecoveredIs, PTL
<1>2. Route(k) \in Shard
  BY RouteInShard
<1>3. Checkpoint' = Checkpoint
  BY DEF Checkpoint
<1>4. Later(Route(k), Checkpoint)' = Later(Route(k), Checkpoint)
  BY <1>2, <1>3 DEF Later
<1>5. Base(Route(k))'[k] = Base(Route(k))[k]
  BY <1>2 DEF Base
<1>6. Recovered'[k] = ValueIn(Later(Route(k), Checkpoint)', k, Base(Route(k))'[k])
  BY <1>1 DEF RecoveredByNumber
<1>7. Recovered[k] = ValueIn(Later(Route(k), Checkpoint), k, Base(Route(k))[k])
  BY <1>1 DEF RecoveredByNumber
<1>. QED BY <1>4, <1>5, <1>6, <1>7

\* Without errors of Sync, what a restart finds does not depend on the snapshot.
RecoveredFromLogs ==
    "sync" \notin Faults =>
        \A k \in Keys : Recovered[k] = ValueIn(Recs(Route(k)), k, Absent)

LEMMA FullRecovered == LogInv /\ FileInv /\ OrderInv /\ LoggedInv => RecoveredFromLogs
<1>. SUFFICES ASSUME LogInv, FileInv, OrderInv, LoggedInv, "sync" \notin Faults, NEW k \in Keys
              PROVE  Recovered[k] = ValueIn(Recs(Route(k)), k, Absent)
  BY DEF RecoveredFromLogs
<1>. DEFINE s == Route(k)
<1>1. s \in Shard
  BY RouteInShard
<1>2. Recovered[k] = ValueIn(Later(s, Checkpoint), k, Base(s)[k])
  BY RecoveredIs DEF RecoveredByNumber
<1>3. /\ Numbered(Recs(s))
      /\ \A e \in Recs(s) : e.sequence \in Nat /\ e.sequence >= 1
  BY <1>1, RecsFacts
<1>4. CASE current = NoFile
  <2>1. Later(s, Checkpoint) = Recs(s)
    BY <1>3, <1>4 DEF Checkpoint, Later
  <2>2. Base(s)[k] = Absent
    BY <1>4 DEF Base, EmptyMap
  <2>. QED BY <1>2, <2>1, <2>2
<1>5. CASE current # NoFile
  <2>1. current \in Nat /\ Checkpoint = current
    BY <1>5 DEF Checkpoint, FileInv, FilesTyped
  <2>2. Base(s)[k] = ValueIn(UpTo(s, current), k, Absent)
    BY <1>1, <1>5 DEF Base, LoggedInv
  <2>3. UpTo(s, current) \cup Later(s, current) = Recs(s)
    BY <1>3, <2>1 DEF UpTo, Later
  <2>4. \A a \in UpTo(s, current) : \A b \in Later(s, current) : a.sequence < b.sequence
    BY <1>3, <2>1 DEF UpTo, Later
  <2>5. ValueIn(UpTo(s, current) \cup Later(s, current), k, Absent)
          = ValueIn(Later(s, current), k, ValueIn(UpTo(s, current), k, Absent))
    BY <1>3, <2>3, <2>4, ValueSplit
  <2>. QED BY <1>2, <2>1, <2>2, <2>3, <2>5
<1>. QED BY <1>4, <1>5

\* While no committed write waits to be applied, that is what the client was told.
LEMMA IdleRecovered ==
    ASSUME LogInv, FileInv, OrderInv, DurableInv, "sync" \notin Faults,
           status = "up", pc # "apply", NEW k \in Keys
    PROVE  Recovered[k] = acked[k]
<1>1. Route(k) \in Shard
  BY RouteInShard
<1>2. Recs(Route(k)) = UpTo(Route(k), committed)
  <2>1. Later(Route(k), committed) = {}
    BY <1>1 DEF DurableInv, BeyondInv
  <2>2. \A e \in Recs(Route(k)) : e.sequence \in Nat
    BY <1>1, RecsFacts
  <2>3. committed \in Nat
    BY NumbersTyped
  <2>. QED BY <2>1, <2>2, <2>3 DEF Later, UpTo
<1>. QED BY <1>2, FullRecovered DEF RecoveredFromLogs, DurableInv, LoggedInv

\* The append of the pending record to the backup's log commits it.
LEMMA Commits ==
    ASSUME LogInv, FileInv, OrderInv, LogInv', FileInv', OrderInv',
           BackupAppends(pending), UNCHANGED <<snapshots, current>>
    PROVE  /\ \A k \in Keys :
                 Recovered'[k] = IF k = pending.key THEN pending.value ELSE Recovered[k]
           /\ \A s \in Shard : Recs(s)' = IF s = pending.shard THEN Recs(s) \cup {pending}
                                          ELSE Recs(s)
           /\ \A s \in Shard, q \in Nat : q < pending.sequence => UpTo(s, q)' = UpTo(s, q)
           /\ pending \in Entry /\ committed < pending.sequence
           /\ current # NoFile => current \in Nat /\ current < pending.sequence
<1>. DEFINE s0 == pending.shard
<1>1. /\ pending \in Entry /\ s0 = Route(pending.key) /\ s0 \in Shard /\ pending.key \in Keys
      /\ Writing /\ status = "up" /\ pc = "fusion"
  BY RouteInShard DEF BackupAppends, LogInv, MethodTyped, Writing, Entry
<1>2. /\ committed < pending.sequence /\ committed \in Nat /\ pending.sequence \in Nat
      /\ next = pending.sequence + 1
      /\ current # NoFile => current \in Nat /\ current < pending.sequence
  <2>1. /\ committed < pending.sequence /\ next = pending.sequence + 1
        /\ committed \in Nat /\ pending.sequence \in Nat
    BY <1>1, NumbersTyped DEF OrderInv
  <2>2. current # NoFile => current \in Nat /\ current <= committed
    BY <1>1 DEF OrderInv, FileInv, FilesTyped
  <2>. QED BY <2>1, <2>2
<1>3. \A s \in Shard : Recs(s)' = IF s = s0 THEN Recs(s) \cup {pending} ELSE Recs(s)
  BY AppendsCommit
<1>4. \A s \in Shard : \A f \in Recs(s) : f.sequence \in Nat /\ f.sequence < pending.sequence
  BY <1>1, <1>2, RecsFacts
<1>5. ASSUME NEW s \in Shard, NEW q \in Nat, q < pending.sequence
      PROVE  /\ UpTo(s, q)' = UpTo(s, q)
             /\ Later(s, q)' = IF s = s0 THEN Later(s, q) \cup {pending} ELSE Later(s, q)
  BY <1>2, <1>3, <1>4, <1>5 DEF UpTo, Later
<1>6. ASSUME NEW k \in Keys
      PROVE  Recovered'[k] = IF k = pending.key THEN pending.value ELSE Recovered[k]
  <2>. DEFINE s == Route(k)
              S == Later(s, Checkpoint)
              v == Base(s)[k]
  <2>1. s \in Shard
    BY RouteInShard
  <2>2. RecoveredByNumber /\ RecoveredByNumber'
    BY RecoveredIs, PTL
  <2>3. Checkpoint' = Checkpoint /\ Base(s)' = Base(s)
    BY DEF Checkpoint, Base
  <2>4. Checkpoint \in Nat /\ Checkpoint < pending.sequence
    BY <1>2 DEF Checkpoint
  <2>5. Later(s, Checkpoint)' = IF s = s0 THEN S \cup {pending} ELSE S
    <3>1. PICK q \in Nat : q = Checkpoint
      BY <2>4
    <3>2. Later(s, q)' = IF s = s0 THEN Later(s, q) \cup {pending} ELSE Later(s, q)
      BY <1>5, <2>1, <2>4, <3>1
    <3>. QED BY <2>3, <3>1, <3>2 DEF Later
  <2>6. /\ Recovered'[k] = ValueIn(Later(s, Checkpoint)', k, v)
        /\ Recovered[k] = ValueIn(S, k, v)
    BY <2>2, <2>3 DEF RecoveredByNumber
  <2>7. CASE s = s0
    <3>1. Numbered(S) /\ \A f \in S : f.sequence < pending.sequence
      BY <1>4, <2>1, RecsFacts DEF Later, Numbered
    <3>. HIDE DEF S, v
    <3>2. ValueIn(S \cup {pending}, k, v) = IF k = pending.key THEN pending.value ELSE ValueIn(S, k, v)
      <4>1. \A T, w : \A p \in Entry :
               Numbered(T) /\ (\A f \in T : f.sequence < p.sequence)
               => ValueIn(T \cup {p}, k, w) = IF k = p.key THEN p.value ELSE ValueIn(T, k, w)
        BY SMTT(30), ValueAdd
      <4>. QED BY <1>1, <3>1, <4>1
    <3>3. Recovered'[k] = ValueIn(S \cup {pending}, k, v)
      BY <2>5, <2>6, <2>7
    <3>. QED BY <2>6, <3>2, <3>3
  <2>8. CASE s # s0
    BY <1>1, <2>5, <2>6, <2>8
  <2>. QED BY <2>7, <2>8
<1>. QED BY <1>1, <1>2, <1>3, <1>5, <1>6
-----------------------------------------------------------------------------
(* The files in every state                                                *)

\* A step of which neither the files nor the client tell anything new.
QuietStep ==
    /\ \A s \in Shard : Recs(s)' = Recs(s)
    /\ UNCHANGED <<current, acked>>
    /\ current # NoFile =>
          \A s \in Shard : snapshots'[current][s] = snapshots[current][s]
    /\ \A k \in Keys : Possible(k) \subseteq Possible(k)' /\ maybe[k] \subseteq maybe'[k]
    /\ status' = "up" => /\ status = "up" /\ committed' = committed
                         /\ pc = "apply" => pc' = "apply" /\ UNCHANGED pending
    /\ pc' = "apply" => pc = "apply" /\ UNCHANGED pending

LEMMA QuietKeeps ==
    ASSUME LogInv, FileInv, OrderInv, LogInv', FileInv', OrderInv',
           BeyondInv, FoundInv, LoggedInv, QuietStep
    PROVE  BeyondInv' /\ FoundInv' /\ LoggedInv'
<1>1. \A k \in Keys : Recovered'[k] = Recovered[k]
  BY RecoveredStays DEF QuietStep
<1>2. BeyondInv'
  <2>1. SUFFICES ASSUME status' = "up", NEW s \in Shard, NEW e \in Later(s, committed)'
                 PROVE  \/ pc' = "apply" /\ e = pending'
                        \/ "sync" \in Faults /\ (e.value \in maybe'[e.key] \/ acked'[e.key] = Absent)
    BY DEF BeyondInv
  <2>2. e \in Later(s, committed) /\ e.key \in Keys
    <3>1. e \in Recs(s) /\ e.sequence > committed
      BY <2>1 DEF QuietStep, Later
    <3>. QED BY <3>1, RecsFacts DEF Later
  <2>. QED BY <2>1, <2>2 DEF QuietStep, BeyondInv
<1>3. FoundInv'
  <2>1. pc' = "apply" => pending' \in Recs(pending.shard)' /\ Recovered'[pending'.key] = pending'.value
    <3>1. SUFFICES ASSUME pc' = "apply"
                   PROVE  pending' \in Recs(pending.shard)' /\ Recovered'[pending'.key] = pending'.value
      BY Zenon
    <3>2. /\ pc = "apply" /\ pending' = pending /\ pending.key \in Keys /\ pending.shard \in Shard
      BY <3>1, RouteInShard DEF QuietStep, LogInv, MethodTyped, Writing, Entry
    <3>. QED BY <1>1, <3>2 DEF FoundInv, QuietStep
  <2>2. \A k \in Keys : "sync" \notin Faults \/ acked'[k] # Absent => Recovered'[k] \in Possible(k)'
    BY <1>1 DEF FoundInv, QuietStep
  <2>. QED BY <2>1, <2>2 DEF FoundInv
<1>4. LoggedInv'
  <2>1. \A s \in Shard : UpTo(s, current)' = UpTo(s, current)
    BY DEF QuietStep, UpTo
  <2>2. status' = "up" => \A s \in Shard : UpTo(s, committed)' = UpTo(s, committed)
    BY DEF QuietStep, UpTo
  <2>3. \A k \in Keys : Route(k) \in Shard
    BY RouteInShard
  <2>. QED BY <2>1, <2>2, <2>3 DEF LoggedInv, QuietStep
<1>. QED BY <1>2, <1>3, <1>4

\* Only the append of the pending record to the backup's log changes what is
\* committed.
LEMMA SameRecs ==
    ASSUME LogInv,
           \/ UNCHANGED <<wal, fusionWAL>>
           \/ \E e : ShardAppends(e)
           \/ BackupAppends(TornEntry)
    PROVE  \A s \in Shard : Recs(s)' = Recs(s)
<1>1. CASE UNCHANGED <<wal, fusionWAL>>
  BY <1>1 DEF Recs, CommittedIn
<1>2. ASSUME NEW e, ShardAppends(e) PROVE \A s \in Shard : Recs(s)' = Recs(s)
  <2>1. ~BackupAppends(e)
    BY <1>2 DEF ShardAppends, BackupAppends
  <2>. QED BY <1>2, <2>1, AppendsCommit
<1>3. CASE BackupAppends(TornEntry)
  <2>1. pending # TornEntry
    BY <1>3, TornIsNoEntry DEF BackupAppends, LogInv, MethodTyped, Writing
  <2>. QED BY <1>3, <2>1, AppendsCommit
<1>. QED BY <1>1, <1>2, <1>3

\* The client of a cut-off write must be ready to find its value.
LEMMA LeftOpen ==
    ASSUME LogInv, OrderInv, RestTyped, LeaveOpen, pending' = NoEntry, NEW k \in Keys
    PROVE  /\ Possible(k) \subseteq Possible(k)' /\ maybe[k] \subseteq maybe'[k]
           /\ acked' = acked
           /\ Writing /\ k = pending.key => pending.value \in maybe'[k]
<1>1. Writing <=> pending # NoEntry
  BY TornIsNoEntry DEF OrderInv, LogInv, MethodTyped
<1>2. maybe \in [Keys -> SUBSET Contents]
  BY DEF RestTyped, HistoryTypeOK
<1>3. CASE Writing
  <2>1. maybe' = [maybe EXCEPT ![pending.key] = @ \cup {pending.value}] /\ acked' = acked
    BY <1>1, <1>3 DEF LeaveOpen
  <2>2. maybe'[k] = IF k = pending.key THEN maybe[k] \cup {pending.value} ELSE maybe[k]
    BY <1>2, <2>1
  <2>. QED BY <2>1, <2>2 DEF Possible
<1>4. CASE ~Writing
  BY <1>1, <1>4 DEF LeaveOpen, Possible
<1>. QED BY <1>3, <1>4

LEMMA DurableInvInit == Init => DurableInv
<1>. SUFFICES ASSUME Init PROVE DurableInv
  OBVIOUS
<1>1. WrittenInv /\ UnlinkInv
  BY DEF Init, WrittenInv, UnlinkInv, Snapshotting, Pointing
<1>2. \A s \in Shard : Recs(s) = {}
  BY DEF Init, Recs, CommittedIn, Entries
<1>3. BeyondInv /\ LoggedInv
  BY DEF Init, BeyondInv, LoggedInv
<1>4. FoundInv
  <2>1. \A k \in Keys : Recovered[k] = Absent
    <3>1. \A k \in Keys : Route(k) \in Shard
      BY RouteInShard
    <3>2. ASSUME NEW s \in Shard, NEW k \in Keys PROVE Replay(s)[k] = Absent
      <4>1. LastAt(wal[s], Applied(s), k) = {} /\ Base(s)[k] = Absent
        BY DEF Init, LastAt, Base, EmptyMap
      <4>. QED BY <4>1, Zenon DEF Replay, ApplyTo
    <3>. QED BY <3>1, <3>2 DEF Recovered
  <2>2. \A k \in Keys : acked[k] = Absent
    BY DEF Init, EmptyMap
  <2>. QED BY <2>1, <2>2 DEF Init, FoundInv, Possible
<1>. QED BY <1>1, <1>3, <1>4 DEF DurableInv

LEMMA UnlinkInvNext == UnlinkInv /\ [Next]_vars => UnlinkInv'
<1>. SUFFICES ASSUME UnlinkInv, [Next]_vars PROVE UnlinkInv'
  OBVIOUS
<1>1. CASE RenameFails
  BY <1>1 DEF RenameFails, Fail, UnlinkInv
<1>2. CASE RemoveCheckpoint
  BY <1>2 DEF RemoveCheckpoint, UnlinkInv
<1>3. CASE UNCHANGED pc
  BY <1>3 DEF UnlinkInv
<1>4. CASE pc' \notin {"unlink", "again"}
  BY <1>4 DEF UnlinkInv
<1>5. RenameFails \/ RemoveCheckpoint \/ UNCHANGED pc \/ pc' \notin {"unlink", "again"}
  BY DEF Next, Step, Request, Failure, vars, running, Finish, End, Begin, BeginPut, BeginDelete,
         DeleteAbsent, AppendSource, AppendFusion, AppendFails, Apply, BeginSnapshot,
         RemoveSnapshot, WriteSnapshot, WriteTemporary, Rename, SnapshotFails, CrashShard,
         RecoverShard, Close, Crash, CrashInSnapshot, CrashInAppend, Open, OpenRefused
<1>. QED BY <1>1, <1>2, <1>3, <1>4, <1>5

LEMMA WrittenInvNext == LogInv /\ FileInv /\ WrittenInv /\ [Next]_vars => WrittenInv'
<1>. SUFFICES ASSUME LogInv, FileInv, WrittenInv, [Next]_vars PROVE WrittenInv'
  OBVIOUS
<1>1. CASE ~Snapshotting' /\ ~Pointing'
  BY <1>1 DEF WrittenInv
<1>2. CASE BeginSnapshot
  <2>1. ~Pointing' /\ \A s \in Shard : ~(s < cursor')
    BY <1>2 DEF BeginSnapshot, Pointing, Shard, Source
  <2>. QED BY <2>1 DEF WrittenInv
<1>3. CASE RemoveSnapshot
  <2>1. /\ Snapshotting /\ ~Pointing' /\ UNCHANGED <<current, committed, cursor, data>>
        /\ snapshots' = [snapshots EXCEPT ![committed][cursor] = NoSnapshot]
    BY <1>3 DEF RemoveSnapshot, Snapshotting, Pointing, memory
  <2>2. \A s \in Shard : s < cursor => snapshots'[committed][s] = snapshots[committed][s]
    <3>1. \A s \in Shard : s < cursor => s # cursor
      BY DEF Shard, Source
    <3>. QED BY <2>1, <3>1, OneFileWritten
  <2>. QED BY <2>1, <2>2 DEF WrittenInv
<1>4. CASE WriteSnapshot
  <2>1. /\ Snapshotting /\ UNCHANGED <<current, committed, data>> /\ cursor \in Shard
        /\ snapshots' = [snapshots EXCEPT ![committed][cursor] = Whole(committed, data[cursor])]
    BY <1>4 DEF WriteSnapshot, Snapshotting, memory, LogInv, MethodTyped
  <2>2. /\ \A s \in Shard : s # cursor => snapshots'[committed][s] = snapshots[committed][s]
        /\ snapshots'[committed][cursor].records = data[cursor]
    BY <2>1, OneFileWritten DEF Whole, SnapshotFile
  <2>3. \A s \in Shard : s <= cursor => snapshots'[committed][s].records = data[s]
    <3>1. \A s \in Shard : s <= cursor => s < cursor \/ s = cursor
      BY <2>1 DEF Shard, Source
    <3>. QED BY <2>1, <2>2, <3>1 DEF WrittenInv
  <2>4. IF cursor + 1 \in Shard
        THEN pc' = "remove" /\ cursor' = cursor + 1
        ELSE pc' = "checkpoint" /\ cursor' = 0
    BY <1>4 DEF WriteSnapshot, MoreShards, NextShard
  <2>5. CASE cursor + 1 \in Shard
    <3>1. \A s \in Shard : s < cursor + 1 => s <= cursor
      BY <2>1 DEF Shard, Source
    <3>. QED BY <2>1, <2>3, <2>4, <2>5, <3>1 DEF WrittenInv, Snapshotting, Pointing
  <2>6. CASE cursor + 1 \notin Shard
    <3>1. \A s \in Shard : s <= cursor
      BY <2>1, <2>6, SourceAssumption DEF Shard, Source
    <3>. QED BY <2>1, <2>3, <2>4, <2>6, <3>1 DEF WrittenInv, Snapshotting, Pointing
  <2>. QED BY <2>5, <2>6
<1>5. CASE \/ WriteTemporary \/ RenameFails \/ RemoveCheckpoint
           \/ UNCHANGED <<snapshots, committed, data, cursor, pc>>
  <2>1. /\ UNCHANGED <<snapshots, committed, data>>
        /\ Snapshotting' => Snapshotting /\ cursor' = cursor
        /\ Pointing' => Pointing
    BY <1>5 DEF WriteTemporary, RenameFails, RemoveCheckpoint, Finish, Snapshotting, Pointing,
                memory, disk
  <2>. QED BY <2>1 DEF WrittenInv
<1>6. \/ ~Snapshotting' /\ ~Pointing'
      \/ BeginSnapshot \/ RemoveSnapshot \/ WriteSnapshot
      \/ WriteTemporary \/ RenameFails \/ RemoveCheckpoint
      \/ UNCHANGED <<snapshots, committed, data, cursor, pc>>
  <2>1. CASE \/ \E k \in Keys : DeleteAbsent(k)
             \/ UNCHANGED vars
             \/ OpenRefused
    BY <2>1 DEF DeleteAbsent, OpenRefused, vars, disk, memory, running
  <2>2. CASE \/ \E k \in Keys, v \in Values : BeginPut(k, v)
             \/ \E k \in Keys : BeginDelete(k)
             \/ AppendSource \/ AppendFusion \/ Apply \/ Rename \/ SnapshotFails
             \/ \E kind \in {"clean", "short", "sync"} : AppendFails(kind)
             \/ Close \/ Crash \/ CrashInSnapshot \/ CrashInAppend
    BY <2>2 DEF BeginPut, BeginDelete, Begin, AppendSource, AppendFusion, AppendFails, Apply,
                Rename, SnapshotFails, Close, Crash, CrashInSnapshot, CrashInAppend, End, Finish,
                Snapshotting, Pointing
  <2>3. CASE \/ \E s \in Shard : CrashShard(s)
             \/ \E s \in Shard : RecoverShard(s)
             \/ Open
    <3>1. pc = "idle"
      BY <2>3 DEF CrashShard, RecoverShard, Open, Idle, LogInv, MethodTyped
    <3>2. pc' = "idle"
      BY <2>3, <3>1 DEF CrashShard, RecoverShard, Open, running
    <3>. QED BY <3>2 DEF Snapshotting, Pointing
  <2>. QED BY <2>1, <2>2, <2>3 DEF Next, Step, Request, Failure
<1>. QED BY <1>1, <1>2, <1>3, <1>4, <1>5, <1>6

AllInv == LogInv /\ FileInv /\ OrderInv /\ MemoryInv /\ RestTyped

\* Everything but a commit, an answer to the client, a change of the checkpoint
\* and Open is quiet.
LEMMA QuietSteps ==
    ASSUME AllInv, [Next]_vars
    PROVE  \/ QuietStep
           \/ BackupAppends(pending) /\ AppendFusion
           \/ /\ BackupAppends(pending)
              /\ "sync" \in Faults
              /\ \E kind \in {"clean", "short", "sync"} : AppendFails(kind)
           \/ Apply
           \/ \E k \in Keys : DeleteAbsent(k)
           \/ Rename
           \/ RemoveCheckpoint
           \/ Open
<1>. USE DEF AllInv
<1>1. \A k \in Keys : Possible(k) \subseteq {acked[k]} \cup maybe[k] \cup {pending.value}
  BY DEF Possible
<1>2. ~Writing => pending = NoEntry /\ \A k \in Keys : Possible(k) = {acked[k]} \cup maybe[k]
  BY DEF OrderInv, Possible
<1>3. current # NoFile /\ Snapshotting => current # committed
  BY DEF FileInv, SnapshotUsable
<1>4. ASSUME LeaveOpen, pending' = NoEntry
      PROVE  /\ \A k \in Keys : Possible(k) \subseteq Possible(k)' /\ maybe[k] \subseteq maybe'[k]
             /\ acked' = acked
  <2>1. acked' = acked
    BY <1>4 DEF LeaveOpen
  <2>. QED BY <1>4, <2>1, LeftOpen
<1>5. ASSUME UNCHANGED <<history, pending>> \/ (UNCHANGED history /\ ~Writing)
      PROVE  /\ \A k \in Keys : Possible(k) \subseteq Possible(k)' /\ maybe[k] \subseteq maybe'[k]
             /\ acked' = acked
  BY <1>2, <1>5 DEF history, Possible
<1>6. CASE \/ \E k \in Keys, v \in Values : BeginPut(k, v)
           \/ \E k \in Keys : BeginDelete(k)
  <2>1. /\ UNCHANGED <<wal, fusionWAL, snapshots, current, status, committed, history>>
        /\ ~Writing /\ pc' = "source" /\ pc = "idle"
    BY <1>6 DEF BeginPut, BeginDelete, Begin, Idle, Writing, disk, memory
  <2>. QED BY <1>5, <2>1, SameRecs DEF QuietStep
<1>7. CASE AppendSource
  <2>1. /\ ShardAppends(pending) /\ pc' = "fusion" /\ pc = "source"
        /\ UNCHANGED <<snapshots, current, status, committed, history, pending>>
    BY <1>7 DEF AppendSource, ShardAppends, memory
  <2>. QED BY <1>5, <2>1, SameRecs DEF QuietStep
<1>8. CASE AppendFusion
  BY <1>8 DEF AppendFusion, BackupAppends
<1>9. ASSUME NEW kind \in {"clean", "short", "sync"}, AppendFails(kind)
      PROVE  \/ QuietStep
             \/ BackupAppends(pending) /\ "sync" \in Faults
  <2>1. /\ UNCHANGED <<snapshots, current, status, committed>>
        /\ LeaveOpen /\ pending' = NoEntry /\ pc # "apply" /\ pc' = "idle"
    BY <1>9 DEF AppendFails, Finish, memory
  <2>2. \/ UNCHANGED <<wal, fusionWAL>>
        \/ \E e : ShardAppends(e)
        \/ BackupAppends(TornEntry)
        \/ BackupAppends(pending) /\ "sync" \in Faults
    BY <1>9, FailedAppend
  <2>. QED BY <1>4, <2>1, <2>2, SameRecs DEF QuietStep
<1>10. CASE RemoveSnapshot \/ WriteSnapshot
  <2>1. /\ UNCHANGED <<wal, fusionWAL, current, status, committed, history, pending>>
        /\ Snapshotting /\ pc' # "apply" /\ pc # "apply"
        /\ \E file : snapshots' = [snapshots EXCEPT ![committed][cursor] = file]
    BY <1>10 DEF RemoveSnapshot, WriteSnapshot, Snapshotting, memory
  <2>2. current # NoFile =>
          \A s \in Shard : snapshots'[current][s] = snapshots[current][s]
    BY <1>3, <2>1 DEF FileInv, FilesTyped, IsTable
  <2>. QED BY <1>5, <2>1, <2>2, SameRecs DEF QuietStep
<1>11. ASSUME WritesPartly
       PROVE  current # NoFile =>
                 \A s \in Shard : snapshots'[current][s] = snapshots[current][s]
  <2>1. CASE pc = "write"
    <3>1. \E file : snapshots' = [snapshots EXCEPT ![committed][cursor] = file]
      BY <1>11, <2>1 DEF WritesPartly
    <3>. QED BY <1>3, <2>1, <3>1 DEF Snapshotting, FileInv, FilesTyped, IsTable
  <2>. QED BY <1>11, <2>1 DEF WritesPartly
<1>12. CASE WriteTemporary \/ RenameFails \/ SnapshotFails \/ BeginSnapshot
  <2>1. /\ UNCHANGED <<wal, fusionWAL, current, status, committed, history>>
        /\ ~Writing /\ pc' # "apply" /\ pc # "apply"
    BY <1>12 DEF WriteTemporary, RenameFails, SnapshotFails, BeginSnapshot, Idle, WritesPartly,
                 Finish, Writing, disk, memory
  <2>2. current # NoFile =>
          \A s \in Shard : snapshots'[current][s] = snapshots[current][s]
    BY <1>11, <1>12 DEF WriteTemporary, RenameFails, SnapshotFails, BeginSnapshot, disk
  <2>. QED BY <1>5, <2>1, <2>2, SameRecs DEF QuietStep
<1>13. CASE \E s \in Shard : CrashShard(s) \/ RecoverShard(s)
  <2>1. /\ UNCHANGED <<wal, fusionWAL, snapshots, current, status, committed, history, pending, pc>>
        /\ pc = "idle"
    BY <1>13 DEF CrashShard, RecoverShard, Idle, disk, running
  <2>. QED BY <1>5, <2>1, SameRecs DEF QuietStep
<1>14. CASE Close \/ CrashInSnapshot
  <2>1. /\ UNCHANGED <<wal, fusionWAL, current, history>> /\ status' = "down"
        /\ ~Writing /\ pc' # "apply"
    BY <1>14 DEF Close, CrashInSnapshot, Idle, WritesPartly, End, Finish, Writing, disk
  <2>2. current # NoFile =>
          \A s \in Shard : snapshots'[current][s] = snapshots[current][s]
    BY <1>11, <1>14 DEF Close, CrashInSnapshot, disk
  <2>. QED BY <1>5, <2>1, <2>2, SameRecs DEF QuietStep
<1>15. CASE Crash \/ CrashInAppend
  <2>1. /\ UNCHANGED <<snapshots, current>> /\ status' = "down"
        /\ LeaveOpen /\ pending' = NoEntry /\ pc' # "apply"
    BY <1>15 DEF Crash, CrashInAppend, End, Finish, disk
  <2>2. \/ UNCHANGED <<wal, fusionWAL>>
        \/ \E e : ShardAppends(e)
        \/ BackupAppends(TornEntry)
    BY <1>15 DEF Crash, CrashInAppend, ShardAppends, BackupAppends, disk
  <2>. QED BY <1>4, <2>1, <2>2, SameRecs DEF QuietStep
<1>16. CASE OpenRefused \/ UNCHANGED vars
  <2>1. /\ UNCHANGED <<wal, fusionWAL, snapshots, current, committed, history, pending, pc>>
        /\ status' = "up" => status = "up"
    BY <1>16 DEF OpenRefused, vars, disk, memory, running
  <2>. QED BY <1>5, <2>1, SameRecs DEF QuietStep
<1>. QED
  BY <1>6, <1>7, <1>8, <1>9, <1>10, <1>12, <1>13, <1>14, <1>15, <1>16
     DEF Next, Step, Request, Failure

\* The remaining steps, one by one.
LEMMA CommitKeeps ==
    ASSUME AllInv, DurableInv, LogInv', FileInv', OrderInv', BackupAppends(pending),
           \/ AppendFusion
           \/ /\ "sync" \in Faults
              /\ \E kind \in {"clean", "short", "sync"} : AppendFails(kind)
    PROVE  BeyondInv' /\ FoundInv' /\ LoggedInv'
<1>. USE DEF AllInv
<1>1. /\ UNCHANGED <<snapshots, current, status, committed, acked>>
      /\ pc = "fusion" /\ Writing /\ status = "up"
  BY DEF AppendFusion, AppendFails, LeaveOpen, BackupAppends, Writing, memory, history,
         LogInv, MethodTyped
<1>2. /\ \A k \in Keys :
            Recovered'[k] = IF k = pending.key THEN pending.value ELSE Recovered[k]
      /\ \A s \in Shard : Recs(s)' = IF s = pending.shard THEN Recs(s) \cup {pending} ELSE Recs(s)
      /\ \A s \in Shard, q \in Nat : q < pending.sequence => UpTo(s, q)' = UpTo(s, q)
      /\ pending \in Entry /\ committed < pending.sequence
      /\ current # NoFile => current \in Nat /\ current < pending.sequence
  BY <1>1, Commits
<1>3. pending.shard = Route(pending.key) /\ pending.key \in Keys /\ pending.shard \in Shard
  BY <1>1, <1>2, RouteInShard DEF LogInv, MethodTyped, Entry
<1>4. \A s \in Shard : \A e \in Recs(s) : e.key \in Keys
  BY RecsFacts
<1>5. ASSUME AppendFusion PROVE BeyondInv' /\ FoundInv' /\ LoggedInv'
  <2>1. pc' = "apply" /\ UNCHANGED <<pending, maybe>>
    BY <1>5 DEF AppendFusion, history
  <2>2. BeyondInv'
    <3>1. SUFFICES ASSUME NEW s \in Shard, NEW e \in Later(s, committed)'
                   PROVE  \/ pc' = "apply" /\ e = pending'
                          \/ "sync" \in Faults /\ (e.value \in maybe'[e.key] \/ acked'[e.key] = Absent)
      BY DEF BeyondInv
    <3>2. e = pending \/ e \in Later(s, committed)
      BY <1>1, <1>2, <3>1 DEF Later
    <3>. QED BY <1>1, <2>1, <3>2 DEF DurableInv, BeyondInv
  <2>3. FoundInv'
    <3>1. Recovered'[pending'.key] = pending'.value
      BY <1>2, <1>3, <2>1
    <3>2. (pending \in Recs(pending.shard))'
      BY <1>2, <1>3, <2>1
    <3>3. ASSUME NEW k \in Keys, "sync" \notin Faults \/ acked'[k] # Absent
          PROVE  Recovered'[k] \in Possible(k)'
      <4>1. pending # NoEntry
        BY <1>2, TornIsNoEntry
      <4>2. CASE k = pending.key
        BY <1>2, <2>1, <4>1, <4>2 DEF Possible
      <4>3. CASE k # pending.key
        BY <1>1, <1>2, <2>1, <3>3, <4>3 DEF Possible, DurableInv, FoundInv
      <4>. QED BY <4>2, <4>3
    <3>. QED BY <3>1, <3>2, <3>3 DEF FoundInv
  <2>4. LoggedInv'
    <3>1. \A s \in Shard : UpTo(s, committed)' = UpTo(s, committed)
      <4>1. committed \in Nat
        BY NumbersTyped
      <4>2. PICK q \in Nat : q = committed
        BY <4>1
      <4>3. \A s \in Shard : UpTo(s, q)' = UpTo(s, q)
        BY <1>2, <4>2
      <4>. QED BY <1>1, <4>2, <4>3 DEF UpTo
    <3>2. current # NoFile => \A s \in Shard : UpTo(s, current)' = UpTo(s, current)
      <4>1. SUFFICES ASSUME current # NoFile
                     PROVE \A s \in Shard : UpTo(s, current)' = UpTo(s, current)
        OBVIOUS
      <4>2. PICK q \in Nat : q = current
        BY <1>2, <4>1
      <4>3. \A s \in Shard : UpTo(s, q)' = UpTo(s, q)
        BY <1>2, <4>1, <4>2
      <4>. QED BY <1>1, <4>2, <4>3 DEF UpTo
    <3>3. \A k \in Keys : Route(k) \in Shard
      BY RouteInShard
    <3>. QED BY <1>1, <3>1, <3>2, <3>3 DEF DurableInv, LoggedInv
  <2>. QED BY <2>2, <2>3, <2>4
<1>6. ASSUME "sync" \in Faults, NEW kind \in {"clean", "short", "sync"}, AppendFails(kind)
      PROVE  BeyondInv' /\ FoundInv' /\ LoggedInv'
  <2>1. LeaveOpen /\ pending' = NoEntry /\ pc' = "idle"
    BY <1>6 DEF AppendFails, Finish
  <2>2. /\ \A k \in Keys : Possible(k) \subseteq Possible(k)' /\ maybe[k] \subseteq maybe'[k]
        /\ pending.value \in maybe'[pending.key]
    BY <1>1, <1>3, <2>1, LeftOpen
  <2>3. BeyondInv'
    <3>1. SUFFICES ASSUME NEW s \in Shard, NEW e \in Later(s, committed)'
                   PROVE  e.value \in maybe'[e.key] \/ acked'[e.key] = Absent
      BY <1>6 DEF BeyondInv
    <3>2. e = pending \/ e \in Later(s, committed)
      BY <1>1, <1>2, <3>1 DEF Later
    <3>3. CASE e = pending
      BY <2>2, <3>3
    <3>4. CASE e \in Later(s, committed)
      <4>1. e.value \in maybe[e.key] \/ acked[e.key] = Absent
        BY <1>1, <3>4 DEF DurableInv, BeyondInv
      <4>2. e.key \in Keys
        BY <1>4, <3>4 DEF Later
      <4>. QED BY <1>1, <2>2, <4>1, <4>2
    <3>. QED BY <3>2, <3>3, <3>4
  <2>4. FoundInv'
    <3>1. ASSUME NEW k \in Keys, acked'[k] # Absent
          PROVE  Recovered'[k] \in Possible(k)'
      <4>1. CASE k = pending.key
        BY <1>2, <2>2, <4>1 DEF Possible
      <4>2. CASE k # pending.key
        BY <1>1, <1>2, <2>2, <3>1, <4>2 DEF DurableInv, FoundInv
      <4>. QED BY <4>1, <4>2
    <3>. QED BY <1>6, <2>1, <3>1 DEF FoundInv
  <2>. QED BY <1>6, <2>3, <2>4 DEF LoggedInv
<1>. QED BY <1>5, <1>6

LEMMA ApplyKeeps ==
    ASSUME AllInv, DurableInv, LogInv', FileInv', OrderInv', Apply
    PROVE  BeyondInv' /\ FoundInv' /\ LoggedInv'
<1>. USE DEF AllInv
<1>. DEFINE s0 == pending.shard
            k0 == pending.key
<1>1. /\ UNCHANGED <<wal, fusionWAL, snapshots, current, status>>
      /\ committed' = pending.sequence /\ pc' = "idle" /\ pending' = NoEntry
      /\ acked' = [acked EXCEPT ![k0] = pending.value]
      /\ maybe' = [maybe EXCEPT ![k0] = {}]
      /\ pc = "apply" /\ Writing /\ status = "up"
  BY DEF Apply, Finish, Acknowledge, Writing, disk, LogInv, MethodTyped
<1>2. /\ pending \in Entry /\ s0 = Route(k0) /\ k0 \in Keys /\ s0 \in Shard /\ pending # NoEntry
      /\ next = pending.sequence + 1 /\ committed < pending.sequence
      /\ committed \in Nat /\ pending.sequence \in Nat
  BY <1>1, RouteInShard, TornIsNoEntry, NumbersTyped DEF LogInv, MethodTyped, Entry, OrderInv
<1>3. \A s \in Shard : Recs(s)' = Recs(s)
  BY <1>1, SameRecs
<1>4. \A k \in Keys : Recovered'[k] = Recovered[k]
  BY <1>1, <1>3, RecoveredStays
<1>5. \A k \in Keys : /\ acked'[k] = IF k = k0 THEN pending.value ELSE acked[k]
                      /\ k # k0 => maybe'[k] = maybe[k]
  BY <1>1 DEF RestTyped, HistoryTypeOK, Map
<1>6. \A s \in Shard : \A e \in Recs(s) :
         e.sequence \in Nat /\ e.sequence <= pending.sequence /\ e.shard = s
  BY <1>1, <1>2, RecsFacts
<1>7. BeyondInv'
  <2>1. \A s \in Shard : Later(s, committed)' = {}
    BY <1>1, <1>2, <1>3, <1>6 DEF Later
  <2>. QED BY <2>1 DEF BeyondInv
<1>8. FoundInv'
  <2>1. ASSUME NEW k \in Keys, "sync" \notin Faults \/ acked'[k] # Absent
        PROVE  Recovered'[k] \in Possible(k)'
    <3>1. CASE k = k0
      BY <1>1, <1>4, <1>5, <3>1 DEF Possible, DurableInv, FoundInv
    <3>2. CASE k # k0
      BY <1>1, <1>4, <1>5, <2>1, <3>2 DEF Possible, DurableInv, FoundInv
    <3>. QED BY <3>1, <3>2
  <2>. QED BY <1>1, <2>1 DEF FoundInv
<1>9. LoggedInv'
  <2>. SUFFICES ASSUME "sync" \notin Faults PROVE LoggedInv'
    BY DEF LoggedInv
  <2>1. ASSUME NEW k \in Keys PROVE ValueIn(UpTo(Route(k), committed)', k, Absent) = acked'[k]
    <3>. DEFINE s == Route(k)
    <3>1. s \in Shard
      BY RouteInShard
    <3>2. UpTo(s, committed)' = Recs(s)
      BY <1>1, <1>3, <1>6, <3>1 DEF UpTo
    <3>3. ValueIn(Recs(s), k, Absent) = Recovered[k]
      BY FullRecovered DEF RecoveredFromLogs, DurableInv
    <3>4. CASE k = k0
      BY <1>1, <1>5, <3>2, <3>3, <3>4 DEF DurableInv, FoundInv
    <3>5. CASE k # k0
      <4>1. \A e \in Recs(s) : e.key = k => e \in UpTo(s, committed)
        <5>1. \A e \in Later(s, committed) : e = pending
          BY <1>1, <3>1 DEF DurableInv, BeyondInv
        <5>. QED BY <1>2, <1>6, <3>1, <3>5, <5>1 DEF Later, UpTo
      <4>2. About(Recs(s), k) = About(UpTo(s, committed), k)
        BY <4>1 DEF About, UpTo
      <4>3. ValueIn(UpTo(s, committed), k, Absent) = acked[k]
        BY <1>1 DEF DurableInv, LoggedInv
      <4>4. ValueIn(Recs(s), k, Absent) = ValueIn(UpTo(s, committed), k, Absent)
        BY <4>2 DEF ValueIn, Newest
      <4>. QED BY <1>5, <3>2, <3>5, <4>3, <4>4
    <3>. QED BY <3>4, <3>5
  <2>2. \A s \in Shard : UpTo(s, current)' = UpTo(s, current)
    BY <1>1, <1>3 DEF UpTo
  <2>. QED BY <1>1, <2>1, <2>2 DEF DurableInv, LoggedInv
<1>. QED BY <1>7, <1>8, <1>9

LEMMA DeleteAbsentKeeps ==
    ASSUME AllInv, DurableInv, LogInv', FileInv', OrderInv', NEW k0 \in Keys, DeleteAbsent(k0)
    PROVE  BeyondInv' /\ FoundInv' /\ LoggedInv'
<1>. USE DEF AllInv
<1>1. /\ UNCHANGED <<wal, fusionWAL, snapshots, current, status, committed, pc, pending>>
      /\ acked' = [acked EXCEPT ![k0] = Absent]
      /\ maybe' = [maybe EXCEPT ![k0] = {}]
      /\ pc = "idle" /\ status = "up" /\ data[Route(k0)][k0] = Absent /\ Route(k0) \notin failed
  BY DEF DeleteAbsent, Idle, Acknowledge, disk, memory, running
<1>2. acked[k0] = Absent
  BY <1>1 DEF MemoryInv
<1>3. \A k \in Keys : acked'[k] = acked[k] /\ (k # k0 => maybe'[k] = maybe[k])
  BY <1>1, <1>2 DEF RestTyped, HistoryTypeOK, Map
<1>4. \A s \in Shard : Recs(s)' = Recs(s)
  BY <1>1, SameRecs
<1>5. \A k \in Keys : Recovered'[k] = Recovered[k]
  BY <1>1, <1>4, RecoveredStays
<1>6. BeyondInv'
  <2>1. SUFFICES ASSUME NEW s \in Shard, NEW e \in Later(s, committed)'
                 PROVE  "sync" \in Faults /\ (e.value \in maybe'[e.key] \/ acked'[e.key] = Absent)
    BY DEF BeyondInv
  <2>2. e \in Later(s, committed) /\ e.key \in Keys
    <3>1. e \in Recs(s) /\ e.sequence > committed
      BY <1>1, <1>4, <2>1 DEF Later
    <3>. QED BY <3>1, RecsFacts DEF Later
  <2>3. "sync" \in Faults /\ (e.value \in maybe[e.key] \/ acked[e.key] = Absent)
    BY <1>1, <2>2 DEF DurableInv, BeyondInv
  <2>. QED BY <1>2, <1>3, <2>2, <2>3
<1>7. FoundInv'
  <2>1. ASSUME NEW k \in Keys, "sync" \notin Faults \/ acked'[k] # Absent
        PROVE  Recovered'[k] \in Possible(k)'
    <3>1. CASE k = k0
      <4>1. Recovered[k] = acked[k]
        BY <1>1, <1>2, <1>3, <2>1, <3>1, IdleRecovered
      <4>. QED BY <1>3, <1>5, <4>1 DEF Possible
    <3>2. CASE k # k0
      BY <1>1, <1>3, <1>5, <2>1, <3>2 DEF Possible, DurableInv, FoundInv
    <3>. QED BY <3>1, <3>2
  <2>. QED BY <1>1, <2>1 DEF FoundInv
<1>8. LoggedInv'
  <2>1. \A s \in Shard : UpTo(s, current)' = UpTo(s, current)
                         /\ UpTo(s, committed)' = UpTo(s, committed)
    BY <1>1, <1>4 DEF UpTo
  <2>2. \A k \in Keys : Route(k) \in Shard
    BY RouteInShard
  <2>. QED BY <1>1, <1>3, <2>1, <2>2 DEF DurableInv, LoggedInv
<1>. QED BY <1>6, <1>7, <1>8

LEMMA RenameKeeps ==
    ASSUME AllInv, DurableInv, LogInv', FileInv', OrderInv', Rename
    PROVE  BeyondInv' /\ FoundInv' /\ LoggedInv'
<1>. USE DEF AllInv
<1>1. /\ UNCHANGED <<wal, fusionWAL, snapshots, status, committed, acked, maybe>>
      /\ current' = committed /\ pc' = "idle" /\ pending' = NoEntry
      /\ pc # "apply" /\ ~Writing /\ pending = NoEntry /\ status = "up" /\ failed = {}
  <2>1. /\ UNCHANGED <<wal, fusionWAL, snapshots, status, committed, acked, maybe>>
        /\ current' = temporary /\ pc' = "idle" /\ pending' = NoEntry
        /\ pc \in {"rename", "again"}
    BY DEF Rename, Finish, history, memory
  <2>2. Pointing /\ ~Writing /\ pc # "apply"
    BY <2>1 DEF Pointing, Writing
  <2>3. temporary = committed
    BY <2>1 DEF FileInv, SnapshotUsable
  <2>4. pending = NoEntry /\ failed = {} /\ status = "up"
    BY <2>1, <2>2 DEF OrderInv, MemoryInv, LogInv, MethodTyped
  <2>. QED BY <2>1, <2>2, <2>3, <2>4
<1>2. /\ \A s \in Shard : snapshots[committed][s].records = data[s]
      /\ \A k \in Keys : data[Route(k)][k] = acked[k]
      /\ \A s \in Shard, k \in Keys : data[s][k] # Absent => Route(k) = s
      /\ committed \in Nat
  BY <1>1, NumbersTyped
     DEF Rename, Pointing, DurableInv, WrittenInv, MemoryInv, FileInv, MapsRouted
<1>3. \A s \in Shard : Recs(s)' = Recs(s)
  BY <1>1, SameRecs
<1>4. \A s \in Shard : Later(s, committed)' = Later(s, committed)
                       /\ UpTo(s, committed)' = UpTo(s, committed)
  BY <1>1, <1>3 DEF Later, UpTo
<1>5. BeyondInv'
  BY <1>1, <1>4 DEF DurableInv, BeyondInv
<1>6. FoundInv'
  <2>1. ASSUME NEW k \in Keys, "sync" \notin Faults \/ acked'[k] # Absent
        PROVE  Recovered'[k] \in Possible(k)'
    <3>. DEFINE s == Route(k)
                S == Later(s, committed)
    <3>1. s \in Shard
      BY RouteInShard
    <3>2. RecoveredByNumber'
      BY RecoveredIs, PTL
    <3>3. current' # NoFile /\ Checkpoint' = committed
      BY <1>1, <1>2, FilesAssumption DEF Checkpoint
    <3>4. Base(s)'[k] = acked[k]
      BY <1>1, <1>2, <3>1, <3>3 DEF Base
    <3>5. Recovered'[k] = ValueIn(Later(s, Checkpoint)', k, Base(s)'[k])
      BY <3>2 DEF RecoveredByNumber
    <3>6. Later(s, Checkpoint)' = S
      BY <1>4, <3>1, <3>3, <1>1 DEF Later
    <3>7. Recovered'[k] = ValueIn(S, k, acked[k])
      BY <3>4, <3>5, <3>6
    <3>8. CASE About(S, k) = {}
      BY <1>1, <3>7, <3>8 DEF ValueIn, Possible
    <3>9. CASE About(S, k) # {}
      <4>1. Numbered(S)
        BY <3>1, RecsFacts DEF Later, Numbered
      <4>2. PICK e \in S : e.key = k /\ e = Newest(S, k)
        BY <3>9, <4>1, NewestIs DEF IsNewest, About
      <4>3. "sync" \in Faults /\ (e.value \in maybe[k] \/ acked[k] = Absent)
        BY <1>1, <3>1, <4>2 DEF DurableInv, BeyondInv
      <4>4. Recovered'[k] = e.value
        BY <3>7, <3>9, <4>2 DEF ValueIn
      <4>. QED BY <1>1, <2>1, <4>3, <4>4 DEF Possible
    <3>. QED BY <3>8, <3>9
  <2>. QED BY <1>1, <2>1 DEF FoundInv
<1>7. LoggedInv'
  <2>. SUFFICES ASSUME "sync" \notin Faults PROVE LoggedInv'
    BY DEF LoggedInv
  <2>1. \A k \in Keys : ValueIn(UpTo(Route(k), committed)', k, Absent) = acked'[k]
    <3>1. \A k \in Keys : Route(k) \in Shard
      BY RouteInShard
    <3>. QED BY <1>1, <1>4, <3>1 DEF DurableInv, LoggedInv
  <2>2. ASSUME NEW s \in Shard, NEW k \in Keys
        PROVE  snapshots'[current'][s].records[k] = ValueIn(UpTo(s, current)', k, Absent)
    <3>1. UpTo(s, current)' = UpTo(s, committed)
      BY <1>1, <1>3 DEF UpTo
    <3>2. snapshots'[current'][s].records[k] = data[s][k]
      BY <1>1, <1>2
    <3>3. CASE Route(k) = s
      BY <1>1, <1>2, <3>1, <3>2, <3>3 DEF DurableInv, LoggedInv
    <3>4. CASE Route(k) # s
      <4>1. data[s][k] = Absent
        BY <1>2, <3>4
      <4>2. About(UpTo(s, committed), k) = {}
        BY <3>4, RecsFacts DEF About, UpTo
      <4>. QED BY <3>1, <3>2, <4>1, <4>2 DEF ValueIn
    <3>. QED BY <3>3, <3>4
  <2>. QED BY <2>1, <2>2 DEF LoggedInv
<1>. QED BY <1>5, <1>6, <1>7

LEMMA RemoveCheckpointKeeps ==
    ASSUME ~({"sync", "rename"} \subseteq Faults),
           AllInv, DurableInv, LogInv', FileInv', OrderInv', RemoveCheckpoint
    PROVE  BeyondInv' /\ FoundInv' /\ LoggedInv'
<1>. USE DEF AllInv
<1>1. /\ UNCHANGED <<wal, fusionWAL, snapshots, status, committed, acked, maybe, pending>>
      /\ current' = NoFile /\ pc' = "again" /\ pc = "unlink" /\ "sync" \notin Faults
  BY DEF RemoveCheckpoint, memory, history, DurableInv, UnlinkInv
<1>2. \A s \in Shard : Recs(s)' = Recs(s)
  BY <1>1, SameRecs
<1>3. \A s \in Shard : Later(s, committed)' = Later(s, committed)
                       /\ UpTo(s, committed)' = UpTo(s, committed)
  BY <1>1, <1>2 DEF Later, UpTo
<1>4. BeyondInv'
  BY <1>1, <1>3 DEF DurableInv, BeyondInv
<1>5. LoggedInv'
  <2>1. \A k \in Keys : Route(k) \in Shard
    BY RouteInShard
  <2>. QED BY <1>1, <1>3, <2>1 DEF DurableInv, LoggedInv
<1>6. FoundInv'
  <2>1. ASSUME NEW k \in Keys PROVE Recovered'[k] = Recovered[k]
    <3>1. Recovered[k] = ValueIn(Recs(Route(k)), k, Absent)
      BY <1>1, FullRecovered DEF RecoveredFromLogs, DurableInv
    <3>2. RecoveredFromLogs'
      BY <1>5, FullRecovered, PTL
    <3>3. Recovered'[k] = ValueIn(Recs(Route(k))', k, Absent)
      BY <1>1, <3>2 DEF RecoveredFromLogs
    <3>4. Route(k) \in Shard
      BY RouteInShard
    <3>. QED BY <1>2, <3>1, <3>3, <3>4
  <2>. QED BY <1>1, <2>1 DEF DurableInv, FoundInv, Possible
<1>. QED BY <1>4, <1>5, <1>6

LEMMA OpenKeeps ==
    ASSUME AllInv, DurableInv, LogInv', FileInv', OrderInv', Open
    PROVE  BeyondInv' /\ FoundInv' /\ LoggedInv'
<1>. USE DEF AllInv
<1>1. /\ UNCHANGED <<wal, fusionWAL, snapshots, current, pc, pending>>
      /\ acked' = Recovered /\ pc = "idle" /\ pending = NoEntry
      /\ committed' \in 0 .. MaxSequence /\ Largest(committed', Replayed)
  BY DEF Open, disk, running, LogInv, MethodTyped, OrderInv, Writing
<1>2. \A s \in Shard : Recs(s)' = Recs(s)
  BY <1>1, SameRecs
<1>3. \A k \in Keys : Recovered'[k] = Recovered[k]
  BY <1>1, <1>2, RecoveredStays
<1>4. /\ Checkpoint \in Nat /\ committed' \in Nat
      /\ Checkpoint <= committed'
      /\ \A s \in Shard : \A e \in Applied(s) : e.sequence <= committed'
  <2>1. Checkpoint \in Replayed /\ \A s \in Shard : \A e \in Applied(s) : e.sequence \in Replayed
    BY DEF Replayed
  <2>2. Checkpoint \in Nat
    BY FilesAssumption DEF Checkpoint, FileInv, FilesTyped
  <2>3. \A n \in Replayed : n <= committed'
    BY <1>1 DEF Largest
  <2>4. committed' \in Nat
    BY <1>1
  <2>5. Checkpoint <= committed'
    BY <2>1, <2>3
  <2>6. \A s \in Shard : \A e \in Applied(s) : e.sequence <= committed'
    BY <2>1, <2>3
  <2>. QED BY <2>2, <2>4, <2>5, <2>6
<1>5. \A s \in Shard : \A e \in Recs(s) : e.sequence \in Nat /\ e.sequence <= committed'
  <2>1. ASSUME NEW s \in Shard, NEW e \in Recs(s)
        PROVE  e.sequence \in Nat /\ e.sequence <= committed'
    <3>1. e.sequence \in Nat /\ (e.sequence > Checkpoint => e \in Applied(s))
      BY RecsFacts DEF Recs, Applied
    <3>. QED BY <1>4, <3>1
  <2>. QED BY <2>1
<1>6. \A s \in Shard : Later(s, committed)' = {} /\ UpTo(s, committed)' = Recs(s)
  BY <1>2, <1>4, <1>5 DEF Later, UpTo
<1>7. BeyondInv'
  BY <1>6 DEF BeyondInv
<1>8. FoundInv'
  BY <1>1, <1>3 DEF FoundInv, Possible
<1>9. LoggedInv'
  <2>. SUFFICES ASSUME "sync" \notin Faults PROVE LoggedInv'
    BY DEF LoggedInv
  <2>1. \A k \in Keys : ValueIn(UpTo(Route(k), committed)', k, Absent) = acked'[k]
    <3>1. \A k \in Keys : Route(k) \in Shard
      BY RouteInShard
    <3>. QED BY <1>1, <1>6, <3>1, FullRecovered DEF RecoveredFromLogs, DurableInv
  <2>2. \A s \in Shard : UpTo(s, current)' = UpTo(s, current)
    BY <1>1, <1>2 DEF UpTo
  <2>. QED BY <1>1, <2>1, <2>2 DEF DurableInv, LoggedInv
<1>. QED BY <1>7, <1>8, <1>9

LEMMA DurableInvNext ==
    ~({"sync", "rename"} \subseteq Faults) =>
        (AllInv /\ DurableInv /\ LogInv' /\ FileInv' /\ OrderInv' /\ [Next]_vars => DurableInv')
<1>. SUFFICES ASSUME ~({"sync", "rename"} \subseteq Faults),
                     AllInv, DurableInv, LogInv', FileInv', OrderInv', [Next]_vars
              PROVE  DurableInv'
  OBVIOUS
<1>1. WrittenInv' /\ UnlinkInv'
  BY WrittenInvNext, UnlinkInvNext DEF AllInv, DurableInv
<1>2. BeyondInv' /\ FoundInv' /\ LoggedInv'
  <2>1. CASE QuietStep
    BY <2>1, QuietKeeps DEF AllInv, DurableInv
  <2>. QED BY <2>1, QuietSteps, CommitKeeps, ApplyKeeps, DeleteAbsentKeeps, RenameKeeps,
              RemoveCheckpointKeeps, OpenKeeps
<1>. QED BY <1>1, <1>2 DEF DurableInv
-----------------------------------------------------------------------------
(* The backup                                                              *)

AckedShares == [s \in Source |-> AckedRecords(s)]

\* The backup of a process that is up carries the records the client was told
\* of, those of a lost shard too, in buckets as short as merging makes them.
BackupInv == status = "up" => TableInv(fusion, AckedShares) /\ TableDense(fusion)

\* A running Put has a value; a running Delete found its key, and nothing
\* changed that since.
PendingInv ==
    Writing =>
        /\ pending.op = "put" => pending.value \in Values
        /\ pending.op = "delete" => /\ pending.value = Absent
                                    /\ data[pending.shard][pending.key] # Absent

\* The records of a map are a set the table can carry.
LEMMA RecordsKeyed ==
    ASSUME NEW map \in Map
    PROVE  /\ Keyed(RecordsOf(map))
           /\ \A r \in RecordsOf(map) : r.key \in Keys /\ r.value = map[r.key] /\ map[r.key] # Absent
           /\ \A k \in Keys : map[k] # Absent => [key |-> k, value |-> map[k]] \in RecordsOf(map)
<1>. DEFINE K == {j \in Keys : map[j] # Absent}
            R == RecordsOf(map)
            f == [k \in K |-> [key |-> k, value |-> map[k]]]
<1>1. \A r \in R : r \in Element /\ r.key \in Keys /\ r.value = map[r.key] /\ map[r.key] # Absent
  BY FilesAssumption DEF RecordsOf, Element, Map, Contents
<1>2. \A q \in R : \A r \in R : q.key = r.key => q = r
  BY DEF RecordsOf
<1>3. IsFiniteSet(K)
  BY FS_Subset, FilesAssumption
<1>4. f \in Surjection(K, R)
  BY DEF Surjection, RecordsOf
<1>5. IsFiniteSet(R)
  <2>. HIDE DEF f, K, R
  <2>. QED BY <1>3, <1>4, FS_Surjection
<1>6. \A k \in Keys : map[k] # Absent => [key |-> k, value |-> map[k]] \in R
  BY DEF RecordsOf
<1>. QED BY <1>1, <1>2, <1>5, <1>6 DEF Keyed

LEMMA AckedKeyed ==
    ASSUME acked \in Map
    PROVE  Shares(AckedShares) /\ \A s \in Source : AckedShares[s] = AckedRecords(s)
<1>1. Keyed(RecordsOf(acked))
  BY RecordsKeyed
<1>2. ASSUME NEW s \in Source PROVE Keyed(AckedRecords(s))
  <2>1. AckedRecords(s) \in SUBSET RecordsOf(acked)
    BY DEF AckedRecords
  <2>2. IsFiniteSet(AckedRecords(s))
    BY <1>1, <2>1, FS_Subset DEF Keyed
  <2>. QED BY <1>1, <2>1, <2>2 DEF Keyed
<1>. QED BY <1>2 DEF Shares, AckedShares

\* A shard in memory holds the records the client was told of.
LEMMA ShardRecords ==
    ASSUME FileInv, MemoryInv, status = "up", NEW s \in Shard, s \notin failed
    PROVE  RecordsOf(data[s]) = AckedRecords(s)
<1>1. ASSUME NEW k \in Keys
      PROVE  /\ data[s][k] # Absent => Route(k) = s /\ acked[k] = data[s][k]
             /\ Route(k) = s => acked[k] = data[s][k]
  BY DEF MemoryInv, FileInv, MapsRouted
<1>2. ASSUME NEW r PROVE r \in RecordsOf(data[s]) <=> r \in AckedRecords(s)
  BY <1>1 DEF RecordsOf, AckedRecords
<1>. QED BY <1>2

\* bucketIndex is the rank of the key.
LEMMA IndexIsRank ==
    ASSUME NEW map \in Map, NEW k \in Keys
    PROVE  BucketIndex(map, k) = Rank(InBucket(RecordsOf(map), BucketOf(k)), k)
<1>. DEFINE b == BucketOf(k)
            K == {j \in Keys : map[j] # Absent /\ BucketOf(j) = b /\ j < k}
            B == Below(InBucket(RecordsOf(map), b), k)
            f == [j \in K |-> [key |-> j, value |-> map[j]]]
<1>1. IsFiniteSet(K)
  BY FS_Subset, FilesAssumption
<1>2. f \in Bijection(K, B)
  <2>1. f \in [K -> B] /\ \A r \in B : r.key \in K /\ r = f[r.key]
    BY DEF Below, InBucket, RecordsOf
  <2>2. \A i, j \in K : f[i] = f[j] => i = j
    OBVIOUS
  <2>3. DOMAIN f = K
    OBVIOUS
  <2>. HIDE DEF f, K, B
  <2>4. f \in Surjection(K, B)
    BY <2>1 DEF Surjection
  <2>5. f \in Injection(K, B)
    BY <2>1, <2>2, <2>3 DEF Injection, IsInjective
  <2>. QED BY <2>4, <2>5 DEF Bijection
<1>3. Cardinality(B) = Cardinality(K)
  <2>. HIDE DEF f, K, B
  <2>1. ExistsBijection(K, B)
    BY <1>2 DEF ExistsBijection
  <2>. QED BY <1>1, <2>1, FS_Bijection
<1>. QED BY <1>3 DEF BucketIndex, Rank

-----------------------------------------------------------------------------
(* What the backup gives                                                   *)

LEMMA BackupRecovers ==
    FileInv /\ RestTyped /\ MemoryInv /\ BackupInv => FusionRecovers
<1>. SUFFICES ASSUME FileInv, RestTyped, MemoryInv, BackupInv, status = "up",
                     NEW s \in Shard, failed \subseteq {s}
              PROVE  /\ SurvivorsMatch(fusion, s, Survivors(s))
                     /\ Recover(fusion, s, Survivors(s)) = AckedRecords(s)
  BY DEF FusionRecovers, AckedRecords
<1>1. acked \in Map
  BY DEF RestTyped, HistoryTypeOK
<1>2. Shares(AckedShares) /\ \A t \in Source : AckedShares[t] = AckedRecords(t)
  BY <1>1, AckedKeyed
<1>3. TableInv(fusion, AckedShares)
  BY DEF BackupInv
<1>4. DOMAIN Survivors(s) = Source \ {s}
  BY DEF Survivors, Shard
<1>5. \A t \in Source \ {s} : Survivors(s)[t] = AckedShares[t]
  BY <1>2, ShardRecords DEF Survivors, Shard
<1>6. s \in Source
  BY DEF Shard
<1>7. SurvivorsMatch(fusion, s, Survivors(s)) /\ Recover(fusion, s, Survivors(s)) = AckedShares[s]
  BY <1>2, <1>3, <1>4, <1>5, <1>6, RecoverTable
<1>. QED BY <1>2, <1>6, <1>7

\* The write that is about to be applied, as a change of the backup.
Applying ==
    LET s == pending.shard
        k == pending.key
        own == AckedShares[s]
        index == BucketIndex(data[s], k)
        old == data[s][k]
    IN  /\ s \in Source /\ k \in Word /\ k \in Keys /\ Route(k) = s
        /\ index = Rank(InBucket(own, BucketOf(k)), k)
        /\ old = acked[k]
        /\ old = Absent => \A q \in own : q.key # k
        /\ old # Absent => [key |-> k, value |-> old] \in own
        /\ pending.op = "put" => pending.value \in Word /\ pending.value # Absent
        /\ pending.op = "delete" => pending.value = Absent /\ old # Absent
        /\ pending.op \in {"put", "delete"}

LEMMA ApplyFacts ==
    LogInv /\ FileInv /\ RestTyped /\ MemoryInv /\ PendingInv /\ pc = "apply" => Applying
<1>. SUFFICES ASSUME LogInv, FileInv, RestTyped, MemoryInv, PendingInv, pc = "apply" PROVE Applying
  OBVIOUS
<1>. DEFINE s == pending.shard
            k == pending.key
            own == AckedShares[s]
<1>1. /\ Writing /\ status = "up" /\ pending \in Entry /\ s = Route(k)
  BY DEF Writing, LogInv, MethodTyped
<1>2. k \in Keys /\ s \in Shard /\ s \in Source /\ k \in Word /\ pending.op \in {"put", "delete"}
  BY <1>1, FilesAssumption DEF Entry, Shard
<1>3. s \notin failed
  BY <1>1 DEF MemoryInv
<1>4. acked \in Map /\ data[s] \in Map
  BY <1>2 DEF RestTyped, HistoryTypeOK
<1>5. own = AckedRecords(s)
  BY <1>2, <1>4, AckedKeyed
<1>6. RecordsOf(data[s]) = own
  BY <1>1, <1>2, <1>3, <1>5, ShardRecords
<1>7. BucketIndex(data[s], k) = Rank(InBucket(own, BucketOf(k)), k)
  <2>1. BucketIndex(data[s], k) = Rank(InBucket(RecordsOf(data[s]), BucketOf(k)), k)
    BY <1>2, <1>4, IndexIsRank
  <2>. QED BY <1>6, <2>1
<1>8. data[s][k] = acked[k]
  BY <1>1, <1>2, <1>3 DEF MemoryInv
<1>9. data[s][k] = Absent => \A q \in own : q.key # k
  BY <1>4, <1>6, RecordsKeyed
<1>10. data[s][k] # Absent => [key |-> k, value |-> data[s][k]] \in own
  BY <1>2, <1>4, <1>6, RecordsKeyed
<1>11. /\ pending.op = "put" => pending.value \in Word /\ pending.value # Absent
       /\ pending.op = "delete" => pending.value = Absent /\ data[s][k] # Absent
  BY <1>1, FilesAssumption DEF PendingInv
<1>. QED BY <1>1, <1>2, <1>7, <1>8, <1>9, <1>10, <1>11 DEF Applying

\* The records after the write: those of its shard change, and no others.
ApplyShares ==
    LET s == pending.shard
        k == pending.key
        old == acked[k]
        F == AckedShares'
    IN  CASE pending.op = "delete" -> Drops(F, AckedShares, s, [key |-> k, value |-> old])
          [] pending.op = "put" /\ old # Absent ->
                Changes(F, AckedShares, s, [key |-> k, value |-> old], pending.value)
          [] pending.op = "put" /\ old = Absent ->
                Adds(F, AckedShares, s, [key |-> k, value |-> pending.value])

\* What becomes of the records when the client is told that key k has value v.
RecordsTold(k, v) ==
    /\ \A s \in Source : AckedShares'[s] = AckedRecords(s)'
    /\ \A s \in Source : \A r :
          r \in AckedRecords(s)' <=>
             IF r.key = k
             THEN s = Route(k) /\ v # Absent /\ r = [key |-> k, value |-> v]
             ELSE r \in AckedRecords(s)
    /\ \A s \in Source \ {Route(k)} : AckedRecords(s)' = AckedRecords(s)

LEMMA AckedChange ==
    ASSUME acked \in Map, NEW k \in Keys, NEW v, acked' = [acked EXCEPT ![k] = v]
    PROVE  RecordsTold(k, v)
<1>1. \A j \in Keys : acked'[j] = IF j = k THEN v ELSE acked[j]
  BY DEF Map
<1>2. ASSUME NEW s \in Source, NEW r
      PROVE  r \in AckedRecords(s) <=>
                \E j \in Keys : /\ acked[j] # Absent /\ Route(j) = s
                                /\ r = [key |-> j, value |-> acked[j]]
  BY DEF AckedRecords, RecordsOf
<1>3. ASSUME NEW s \in Source, NEW r
      PROVE  r \in AckedRecords(s)' <=>
                \E j \in Keys : /\ acked'[j] # Absent /\ Route(j) = s
                                /\ r = [key |-> j, value |-> acked'[j]]
  BY DEF AckedRecords, RecordsOf
<1>4. ASSUME NEW s \in Source, NEW r
      PROVE  r \in AckedRecords(s)' <=>
                    IF r.key = k
                    THEN s = Route(k) /\ v # Absent /\ r = [key |-> k, value |-> v]
                    ELSE r \in AckedRecords(s)
  <2>1. CASE r.key = k
    BY <1>1, <1>3, <2>1
  <2>2. CASE r.key # k
    BY <1>1, <1>2, <1>3, <2>2
  <2>. QED BY <2>1, <2>2
<1>5. ASSUME NEW s \in Source \ {Route(k)} PROVE AckedRecords(s)' = AckedRecords(s)
  <2>1. \A r \in AckedRecords(s) : r.key # k
    BY DEF AckedRecords
  <2>. QED BY <1>4, <2>1
<1>6. \A s \in Source : AckedShares'[s] = AckedRecords(s)'
  BY DEF AckedShares
<1>. QED BY <1>4, <1>5, <1>6 DEF RecordsTold

LEMMA ApplyIsChange ==
    LogInv /\ FileInv /\ RestTyped /\ MemoryInv /\ PendingInv /\ Apply => ApplyShares
<1>. SUFFICES ASSUME LogInv, FileInv, RestTyped, MemoryInv, PendingInv, Apply PROVE ApplyShares
  OBVIOUS
<1>. PICK s, k, v, old : s = pending.shard /\ k = pending.key /\ v = pending.value /\ old = acked[k]
  OBVIOUS
<1>1. Applying
  BY ApplyFacts DEF Apply
<1>2. acked \in Map /\ acked' = [acked EXCEPT ![k] = v]
  BY DEF RestTyped, HistoryTypeOK, Apply, Acknowledge
<1>3. k \in Keys /\ s \in Source /\ s = Route(k)
  BY <1>1 DEF Applying
<1>. RecordsTold(k, v)
  BY <1>2, <1>3, AckedChange
<1>4. \A t \in Source : AckedShares[t] = AckedRecords(t) /\ AckedShares'[t] = AckedRecords(t)'
  <2>1. \A t \in Source : AckedShares[t] = AckedRecords(t)
    BY <1>2, AckedKeyed
  <2>. QED BY <2>1 DEF RecordsTold
<1>5. \A t \in Source \ {s} : AckedShares'[t] = AckedShares[t]
  BY <1>3, <1>4 DEF RecordsTold
<1>6. \A r : r \in AckedRecords(s)' <=>
                IF r.key = k THEN v # Absent /\ r = [key |-> k, value |-> v]
                ELSE r \in AckedRecords(s)
  BY <1>3 DEF RecordsTold
<1>7. \A r : r \in AckedRecords(s) /\ r.key = k => old # Absent /\ r = [key |-> k, value |-> old]
  BY DEF AckedRecords, RecordsOf
<1>8. old # Absent => [key |-> k, value |-> old] \in AckedRecords(s)
  BY <1>1, <1>3, <1>4 DEF Applying
<1>9. ASSUME v # Absent
      PROVE  AckedRecords(s)' = (AckedRecords(s) \ {[key |-> k, value |-> old]}) \cup {[key |-> k, value |-> v]}
  BY <1>6, <1>7, <1>8, <1>9
<1>10. ASSUME v # Absent, old = Absent
       PROVE  AckedRecords(s)' = AckedRecords(s) \cup {[key |-> k, value |-> v]}
  BY <1>6, <1>7, <1>8, <1>10
<1>11. ASSUME v = Absent
       PROVE  AckedRecords(s)' = AckedRecords(s) \ {[key |-> k, value |-> old]}
  BY <1>6, <1>7, <1>8, <1>11
<1>12. /\ pending.op = "put" => v # Absent
       /\ pending.op = "delete" => v = Absent
       /\ pending.op = "put" \/ pending.op = "delete"
  BY <1>1, FilesAssumption DEF Applying
<1>13. CASE pending.op = "delete"
  <2>1. Drops(AckedShares', AckedShares, s, [key |-> k, value |-> old])
    BY <1>3, <1>4, <1>5, <1>11, <1>12, <1>13 DEF Drops
  <2>. QED BY <1>13, <2>1 DEF ApplyShares
<1>14. CASE pending.op = "put" /\ old # Absent
  <2>1. Changes(AckedShares', AckedShares, s, [key |-> k, value |-> old], v)
    BY <1>3, <1>4, <1>5, <1>9, <1>12, <1>14 DEF Changes
  <2>. QED BY <1>14, <2>1 DEF ApplyShares
<1>15. CASE pending.op = "put" /\ old = Absent
  <2>1. Adds(AckedShares', AckedShares, s, [key |-> k, value |-> v])
    BY <1>3, <1>4, <1>5, <1>10, <1>12, <1>15 DEF Adds
  <2>. QED BY <1>15, <2>1 DEF ApplyShares
<1>. QED BY <1>12, <1>13, <1>14, <1>15

\* The backup takes the write.
LEMMA ApplyKeepsBackup ==
    ASSUME LogInv, FileInv, RestTyped, MemoryInv, PendingInv, BackupInv, Apply
    PROVE  TableInv(fusion', AckedShares') /\ TableDense(fusion')
<1>. PICK s, k, v, old : s = pending.shard /\ k = pending.key /\ v = pending.value /\ old = acked[k]
  OBVIOUS
<1>. PICK own, F, table, index :
        own = AckedShares /\ F = AckedShares' /\ table = fusion /\ index = BucketIndex(data[s], k)
  OBVIOUS
<1>1. Applying /\ ApplyShares /\ pc = "apply" /\ status = "up"
  BY ApplyFacts, ApplyIsChange DEF Apply, LogInv, MethodTyped
<1>2. Shares(own) /\ TableInv(table, own) /\ TableDense(table)
  BY <1>1, AckedKeyed DEF RestTyped, HistoryTypeOK, BackupInv
<1>3. /\ s \in Source /\ k \in Word
      /\ index = Rank(InBucket(own[s], BucketOf(k)), k)
      /\ old = Absent => \A q \in own[s] : q.key # k
      /\ old # Absent => [key |-> k, value |-> old] \in own[s]
      /\ pending.op = "put" => v \in Word
      /\ pending.op = "delete" => old # Absent
      /\ pending.op = "put" \/ pending.op = "delete"
      /\ data[s][k] = old
  BY <1>1 DEF Applying
<1>. DEFINE r == [key |-> k, value |-> old]
<1>4. r.key = k /\ r.value = old
  OBVIOUS
<1>5. CASE pending.op = "delete"
  <2>1. Drops(F, own, s, r)
    BY <1>1, <1>5 DEF ApplyShares
  <2>2. fusion' = Delete(table, s, index, k, old)
    BY <1>3, <1>5 DEF Apply, FusionAfter
  <2>3. r \in own[s]
    BY <1>3, <1>5
  <2>. HIDE DEF r
  <2>4. TableInv(Delete(table, s, Rank(InBucket(own[s], BucketOf(r.key)), r.key), r.key, r.value), F)
    BY <1>2, <1>3, <2>1, <2>3, DeleteTable
  <2>5. TableDense(Delete(table, s, Rank(InBucket(own[s], BucketOf(r.key)), r.key), r.key, r.value))
    BY <1>2, <1>3, <2>3, DeleteTableDense
  <2>. QED BY <1>3, <1>4, <2>2, <2>4, <2>5
<1>6. CASE pending.op = "put" /\ old # Absent
  <2>1. Changes(F, own, s, r, v)
    BY <1>1, <1>6 DEF ApplyShares
  <2>2. fusion' = Replace(table, s, index, k, old, v)
    BY <1>3, <1>6 DEF Apply, FusionAfter
  <2>3. r \in own[s]
    BY <1>3, <1>6
  <2>. HIDE DEF r
  <2>4. TableInv(Replace(table, s, Rank(InBucket(own[s], BucketOf(r.key)), r.key), r.key, r.value, v), F)
    BY <1>2, <1>3, <1>6, <2>1, <2>3, ReplaceTable
  <2>5. TableDense(Replace(table, s, Rank(InBucket(own[s], BucketOf(r.key)), r.key), r.key, r.value, v))
    BY <1>2, <1>3, <1>6, <2>3, ReplaceTableDense
  <2>. QED BY <1>3, <1>4, <2>2, <2>4, <2>5
<1>7. CASE pending.op = "put" /\ old = Absent
  <2>1. Adds(F, own, s, [key |-> k, value |-> v])
    BY <1>1, <1>7 DEF ApplyShares
  <2>2. fusion' = Insert(table, s, index, k, v)
    BY <1>3, <1>7 DEF Apply, FusionAfter
  <2>3. \A q \in own[s] : q.key # k
    BY <1>3, <1>7
  <2>4. TableInv(Insert(table, s, Rank(InBucket(own[s], BucketOf(k)), k), k, v), F)
    BY <1>2, <1>3, <1>7, <2>1, <2>3, InsertTable
  <2>5. TableDense(Insert(table, s, Rank(InBucket(own[s], BucketOf(k)), k), k, v))
    BY <1>2, <1>3, <1>7, <2>3, InsertTableDense
  <2>. QED BY <1>3, <2>2, <2>4, <2>5
<1>. QED BY <1>3, <1>5, <1>6, <1>7

\* Open builds the backup from the maps it replayed.
LEMMA OpenBuildsBackup ==
    ASSUME LogInv, FileInv, RestTyped, Open
    PROVE  TableInv(fusion', AckedShares') /\ TableDense(fusion')
<1>. PICK own : own = [s \in Shard |-> RecordsOf(Replay(s))]
  OBVIOUS
<1>1. /\ fusion' = Rebuild(own) /\ acked' = Recovered /\ Openable
  BY DEF Open
<1>2. Recovered \in Map /\ \A s \in Shard : Replay(s) \in Map
  BY ReplayTyped DEF RestTyped
<1>3. ASSUME NEW s \in Shard PROVE Keyed(own[s])
  BY <1>2, <1>3, RecordsKeyed
<1>4. ASSUME NEW s \in Source PROVE AckedRecords(s)' = own[s]
  <2>1. own[s] = RecordsOf(Replay(s)) /\ s \in Shard
    BY DEF Shard
  <2>2. AckedRecords(s)' = {r \in RecordsOf(Recovered) : Route(r.key) = s}
    BY <1>1 DEF AckedRecords
  <2>3. ASSUME NEW k \in Keys
        PROVE  /\ Replay(s)[k] # Absent => Route(k) = s
               /\ Route(k) = s => Recovered[k] = Replay(s)[k]
    BY <1>1, <2>1, ReplayRouted DEF Recovered
  <2>4. ASSUME NEW r
        PROVE  r \in RecordsOf(Replay(s)) <=> r \in RecordsOf(Recovered) /\ Route(r.key) = s
    BY <2>3 DEF RecordsOf
  <2>. QED BY <2>1, <2>2, <2>4
<1>5. AckedShares' = own
  BY <1>4 DEF AckedShares, Shard
<1>6. Shares(own)
  BY <1>3 DEF Shares, Shard
<1>7. TableInv(Rebuild(own), own) /\ TableDense(Rebuild(own))
  BY <1>6, RebuildTable, RebuildTableDense
<1>. QED BY <1>1, <1>5, <1>7

LEMMA BackupInvInit == Init => BackupInv /\ PendingInv
BY DEF Init, BackupInv, PendingInv, Writing

LEMMA BackupInvNext ==
    LogInv /\ FileInv /\ RestTyped /\ MemoryInv /\ PendingInv /\ BackupInv /\ [Next]_vars => BackupInv'
<1>. SUFFICES ASSUME LogInv, FileInv, RestTyped, MemoryInv, PendingInv, BackupInv, [Next]_vars
              PROVE BackupInv'
  OBVIOUS
<1>1. ASSUME UNCHANGED <<status, fusion, acked>> PROVE BackupInv'
  <2>1. AckedShares' = AckedShares
    BY <1>1 DEF AckedShares, AckedRecords
  <2>. QED BY <1>1, <2>1 DEF BackupInv
<1>2. ASSUME NEW op, NEW k, NEW v, Begin(op, k, v) PROVE BackupInv'
  BY <1>1, <1>2 DEF Begin, memory, history
<1>3. CASE \/ AppendSource \/ AppendFusion
           \/ \E kind \in {"clean", "short", "sync"} : AppendFails(kind)
           \/ RemoveSnapshot \/ WriteSnapshot \/ WriteTemporary \/ Rename \/ RenameFails
           \/ RemoveCheckpoint \/ SnapshotFails \/ BeginSnapshot \/ UNCHANGED vars
           \/ (\E s \in Shard : CrashShard(s)) \/ (\E s \in Shard : RecoverShard(s))
  <2>1. UNCHANGED <<status, fusion, acked>>
    BY <1>3 DEF AppendSource, AppendFusion, AppendFails, LeaveOpen, RemoveSnapshot,
                WriteSnapshot, WriteTemporary, Rename, RenameFails, RemoveCheckpoint,
                SnapshotFails, BeginSnapshot, CrashShard, RecoverShard, vars, memory, history
  <2>. QED BY <1>1, <2>1
<1>4. CASE Apply
  BY <1>4, ApplyKeepsBackup DEF BackupInv
<1>5. ASSUME NEW k \in Keys, DeleteAbsent(k) PROVE BackupInv'
  <2>1. /\ Route(k) \notin failed /\ data[Route(k)][k] = Absent /\ status = "up"
        /\ UNCHANGED <<status, fusion>> /\ acked' = [acked EXCEPT ![k] = Absent]
    BY <1>5 DEF DeleteAbsent, Idle, Acknowledge, memory
  <2>2. acked[k] = Absent /\ acked \in Map
    BY <2>1 DEF MemoryInv, RestTyped, HistoryTypeOK
  <2>3. acked' = acked
    BY <2>1, <2>2 DEF Map
  <2>. QED BY <1>1, <2>1, <2>3
<1>6. CASE Close \/ Crash \/ CrashInSnapshot \/ CrashInAppend
  <2>1. status' = "down"
    BY <1>6 DEF Close, Crash, CrashInSnapshot, CrashInAppend, End
  <2>. QED BY <2>1 DEF BackupInv
<1>7. CASE Open
  BY <1>7, OpenBuildsBackup DEF BackupInv
<1>8. CASE OpenRefused
  BY <1>8 DEF OpenRefused, BackupInv
<1>. QED
  BY <1>2, <1>3, <1>4, <1>5, <1>6, <1>7, <1>8
     DEF Next, Step, Request, Failure, BeginPut, BeginDelete

LEMMA PendingInvNext ==
    LogInv /\ PendingInv /\ [Next]_vars => PendingInv'
<1>. SUFFICES ASSUME LogInv, PendingInv, [Next]_vars PROVE PendingInv'
  OBVIOUS
<1>1. ASSUME pc' \notin {"source", "fusion", "apply"} PROVE PendingInv'
  BY <1>1 DEF PendingInv, Writing
<1>2. ASSUME NEW k \in Keys, NEW v \in Values, BeginPut(k, v) PROVE PendingInv'
  <2>1. pending' = [op |-> "put", sequence |-> next, shard |-> Route(k), key |-> k, value |-> v]
    BY <1>2 DEF BeginPut, Begin
  <2>. QED BY <2>1 DEF PendingInv
<1>3. ASSUME NEW k \in Keys, BeginDelete(k) PROVE PendingInv'
  <2>1. /\ pending' = [op |-> "delete", sequence |-> next, shard |-> Route(k),
                       key |-> k, value |-> Absent]
        /\ data[Route(k)][k] # Absent /\ UNCHANGED data
    BY <1>3 DEF BeginDelete, Begin, memory
  <2>. QED BY <2>1 DEF PendingInv
<1>4. CASE AppendSource \/ AppendFusion \/ UNCHANGED vars
  <2>1. UNCHANGED <<pending, data>> /\ (Writing' => Writing)
    BY <1>4 DEF AppendSource, AppendFusion, vars, memory, running, Writing
  <2>. QED BY <2>1 DEF PendingInv
<1>5. CASE \/ Apply \/ (\E kind \in {"clean", "short", "sync"} : AppendFails(kind))
           \/ RemoveSnapshot \/ WriteSnapshot \/ WriteTemporary \/ Rename \/ RenameFails
           \/ RemoveCheckpoint \/ SnapshotFails \/ BeginSnapshot
           \/ Close \/ Crash \/ CrashInSnapshot \/ CrashInAppend
  BY <1>1, <1>5
     DEF Apply, AppendFails, RemoveSnapshot, WriteSnapshot, WriteTemporary, Rename, RenameFails,
         RemoveCheckpoint, SnapshotFails, BeginSnapshot, Close, Crash, CrashInSnapshot,
         CrashInAppend, End, Finish
<1>6. CASE \/ (\E k \in Keys : DeleteAbsent(k)) \/ (\E s \in Shard : CrashShard(s))
           \/ (\E s \in Shard : RecoverShard(s)) \/ Open \/ OpenRefused
  <2>1. pc' = "idle"
    BY <1>6 DEF DeleteAbsent, CrashShard, RecoverShard, Open, OpenRefused, Idle, running,
                LogInv, MethodTyped
  <2>. QED BY <1>1, <2>1
<1>. QED
  BY <1>2, <1>3, <1>4, <1>5, <1>6 DEF Next, Step, Request, Failure

LEMMA BackupAccepts ==
    LogInv /\ FileInv /\ RestTyped /\ MemoryInv /\ PendingInv /\ BackupInv => FusionAccepts
<1>. SUFFICES ASSUME LogInv, FileInv, RestTyped, MemoryInv, PendingInv, BackupInv, pc = "apply"
              PROVE  ValidPosition(fusion, pending.shard, BucketOf(pending.key),
                                   BucketIndex(data[pending.shard], pending.key),
                                   data[pending.shard][pending.key] = Absent)
  BY DEF FusionAccepts
<1>. PICK s, k, v, old : s = pending.shard /\ k = pending.key /\ v = pending.value /\ old = acked[k]
  OBVIOUS
<1>. PICK own, table, index :
        own = AckedShares /\ table = fusion /\ index = BucketIndex(data[s], k)
  OBVIOUS
<1>1. Applying /\ status = "up"
  BY ApplyFacts DEF LogInv, MethodTyped
<1>2. Shares(own) /\ TableInv(table, own) /\ DOMAIN own = Source
  BY <1>1, AckedKeyed DEF RestTyped, HistoryTypeOK, BackupInv, AckedShares
<1>3. /\ s \in Source /\ k \in Word
      /\ index = Rank(InBucket(own[s], BucketOf(k)), k)
      /\ old = Absent => v \in Word /\ \A q \in own[s] : q.key # k
      /\ old # Absent => [key |-> k, value |-> old] \in own[s]
      /\ data[s][k] = old
  BY <1>1 DEF Applying
<1>4. CASE old = Absent
  <2>. DEFINE F == [own EXCEPT ![s] = @ \cup {[key |-> k, value |-> v]}]
  <2>1. Adds(F, own, s, [key |-> k, value |-> v])
    BY <1>2, <1>3 DEF Adds
  <2>. HIDE DEF F
  <2>2. ValidPosition(table, s, BucketOf(k), Rank(InBucket(own[s], BucketOf(k)), k), TRUE)
    BY <1>2, <1>3, <1>4, <2>1, InsertTable
  <2>. QED BY <1>3, <1>4, <2>2
<1>5. CASE old # Absent
  <2>. PICK r \in own[s] : r = [key |-> k, value |-> old]
    BY <1>3, <1>5
  <2>. DEFINE F == [own EXCEPT ![s] = @ \ {r}]
  <2>1. Drops(F, own, s, r)
    BY <1>2, <1>3 DEF Drops
  <2>2. r.key = k
    OBVIOUS
  <2>. HIDE DEF F
  <2>3. ValidPosition(table, s, BucketOf(r.key), Rank(InBucket(own[s], BucketOf(r.key)), r.key), FALSE)
    BY <1>2, <1>3, <2>1, DeleteTable
  <2>. QED BY <1>3, <1>5, <2>2, <2>3
<1>. QED BY <1>4, <1>5

-----------------------------------------------------------------------------
(* What the metrics say                                                    *)

\* A record the client was told of belongs to one shard.
LEMMA AckedApart ==
    ASSUME acked \in Map
    PROVE  Apart(AckedShares) /\ Everything(AckedShares) = RecordsOf(acked)
<1>1. \A s \in Source : AckedShares[s] = {r \in RecordsOf(acked) : Route(r.key) = s}
  BY AckedKeyed DEF AckedRecords
<1>2. \A r \in RecordsOf(acked) : Route(r.key) \in Source
  BY RecordsKeyed, RouteInShard DEF Shard
<1>3. Apart(AckedShares)
  BY <1>1 DEF Apart
<1>4. ASSUME NEW r
      PROVE  r \in Everything(AckedShares) <=> r \in RecordsOf(acked)
  <2>1. ASSUME r \in RecordsOf(acked) PROVE r \in Everything(AckedShares)
    BY <1>1, <1>2, <2>1 DEF Everything, Members
  <2>2. ASSUME r \in Everything(AckedShares) PROVE r \in RecordsOf(acked)
    BY <1>1, <2>2 DEF Everything, Members
  <2>. QED BY <2>1, <2>2
<1>. QED BY <1>3, <1>4

LEMMA BackupCounts == RestTyped /\ BackupInv => MetricsCountAcked
<1>. SUFFICES ASSUME RestTyped, BackupInv, status = "up" PROVE MetricsCountAcked
  BY DEF MetricsCountAcked
<1>. PICK own, table : own = AckedShares /\ table = fusion
  OBVIOUS
<1>1. acked \in Map
  BY DEF RestTyped, HistoryTypeOK
<1>2. /\ Shares(own) /\ Apart(own) /\ Everything(own) = RecordsOf(acked)
      /\ \A s \in Source : own[s] = AckedRecords(s)
  BY <1>1, AckedKeyed, AckedApart
<1>3. TableInv(table, own) /\ TableDense(table)
  BY DEF BackupInv
<1>4. SourceRecordCount(table) = Cardinality(RecordsOf(acked))
  BY <1>2, <1>3, CountsRecords
<1>5. NodeCount(table) <= Cardinality(RecordsOf(acked))
  BY <1>2, <1>3, NodesHaveRecords
<1>6. ASSUME NEW s \in Shard PROVE Cardinality(AckedRecords(s)) <= NodeCount(table)
  BY <1>2, <1>3, NodesHoldSource DEF Shard
<1>7. StorageMetrics.sourceRecords = SourceRecordCount(table) /\ StorageMetrics.fusionNodes = NodeCount(table)
  BY DEF StorageMetrics
<1>. QED BY <1>4, <1>5, <1>6, <1>7 DEF MetricsCountAcked, AckedRecords

-----------------------------------------------------------------------------
(* The theorems                                                            *)

\* Everything that holds whatever fails.
BaseInv == AllInv /\ PendingInv /\ BackupInv

LEMMA BaseInvAlways == Spec => []BaseInv
<1>1. Init => RestTyped /\ MemoryInv /\ PendingInv /\ BackupInv
  BY RestTypedInit, MemoryInvInit, BackupInvInit
<1>. DEFINE Logs == LogInv /\ FileInv /\ OrderInv
            Memory == RestTyped /\ MemoryInv /\ PendingInv /\ BackupInv
<1>2. Logs /\ Memory /\ [Next]_vars => Memory'
  BY RestTypedNext, MemoryInvNext, PendingInvNext, BackupInvNext, BackupRecovers
<1>3. Logs /\ Memory <=> BaseInv
  BY DEF BaseInv, AllInv
<1>. HIDE DEF Logs, Memory
<1>4. Spec => []Logs
  BY OrderAlways DEF Logs
<1>5. Init => Memory
  BY <1>1 DEF Memory
<1>. QED BY <1>2, <1>3, <1>4, <1>5, PTL DEF Spec

\* Every variable has its type, over all failures, losses and restarts.
THEOREM DatabaseTyped == Spec => []TypeOK
<1>1. BaseInv => TypeOK
  BY TypesTogether DEF BaseInv, AllInv
<1>. QED BY <1>1, BaseInvAlways, PTL

\* Get, Scan and Shards answer with what the client was last told.
THEOREM ReadsAlwaysSeeAcked == Spec => []ReadsSeeAcked
<1>1. BaseInv => ReadsSeeAcked
  BY MemoryReads DEF BaseInv, AllInv
<1>. QED BY <1>1, BaseInvAlways, PTL

\* RecoverShard finds the lost shard again, whatever the number of shards.
THEOREM FusionAlwaysRecovers == Spec => []FusionRecovers
<1>1. BaseInv => FusionRecovers
  BY BackupRecovers DEF BaseInv, AllInv
<1>. QED BY <1>1, BaseInvAlways, PTL

\* The backup accepts every write that both logs hold.
THEOREM FusionAlwaysAccepts == Spec => []FusionAccepts
<1>1. BaseInv => FusionAccepts
  BY BackupAccepts DEF BaseInv, AllInv
<1>. QED BY <1>1, BaseInvAlways, PTL

\* StorageMetrics counts exactly the records the client was told of, and the
\* backup never has more nodes than records, nor fewer than a shard has records.
THEOREM MetricsAlwaysCount == Spec => []MetricsCountAcked
<1>1. BaseInv => MetricsCountAcked
  BY BackupCounts DEF BaseInv, AllInv
<1>. QED BY <1>1, BaseInvAlways, PTL

LEMMA DurableAlways ==
    ~({"sync", "rename"} \subseteq Faults) => (Spec => [](BaseInv /\ DurableInv))
<1>. SUFFICES ASSUME ~({"sync", "rename"} \subseteq Faults) PROVE Spec => [](BaseInv /\ DurableInv)
  OBVIOUS
<1>1. BaseInv => AllInv /\ LogInv /\ FileInv /\ OrderInv
  BY DEF BaseInv, AllInv
<1>2. AllInv /\ DurableInv /\ LogInv' /\ FileInv' /\ OrderInv' /\ [Next]_vars => DurableInv'
  BY DurableInvNext
<1>. QED BY <1>1, <1>2, BaseInvAlways, DurableInvInit, PTL DEF Spec

\* The conditions on what fails.
NoSync == "sync" \notin Faults
NoSyncAndRename == ~({"sync", "rename"} \subseteq Faults)

\* Without errors of Sync, the files hold every acknowledged Put and Delete and
\* of an unanswered one all or nothing, wherever the process ends.
THEOREM AckedAlwaysSurvives == NoSync => (Spec => []AckedSurvives)
<1>. SUFFICES ASSUME NoSync PROVE Spec => []AckedSurvives
  OBVIOUS
<1>1. BaseInv /\ DurableInv => AckedSurvives
  BY DEF NoSync, DurableInv, FoundInv, AckedSurvives
<1>2. Spec => [](BaseInv /\ DurableInv)
  BY DurableAlways DEF NoSync
<1>. QED BY <1>1, <1>2, PTL

\* With errors of Sync, as long as no rename fails too, Puts survive.
THEOREM PutsAlwaysSurvive == NoSyncAndRename => (Spec => []PutSurvives)
<1>. SUFFICES ASSUME NoSyncAndRename PROVE Spec => []PutSurvives
  OBVIOUS
<1>1. BaseInv /\ DurableInv => PutSurvives
  BY DEF DurableInv, FoundInv, PutSurvives
<1>2. Spec => [](BaseInv /\ DurableInv)
  BY DurableAlways DEF NoSyncAndRename
<1>. QED BY <1>1, <1>2, PTL

\* The snapshots of the checkpoint hold what replaying the logs up to it would
\* give, so that a checkpoint can be lost.
THEOREM SnapshotsAlwaysMatch == NoSync => (Spec => []SnapshotMatchesLog)
<1>. SUFFICES ASSUME NoSync PROVE Spec => []SnapshotMatchesLog
  OBVIOUS
<1>1. BaseInv /\ DurableInv => SnapshotMatchesLog
  <2>. SUFFICES ASSUME BaseInv, DurableInv, current # NoFile
                PROVE  /\ SnapshotsLoad
                       /\ \A s \in Shard :
                              snapshots[current][s].records =
                                  ApplyTo(EmptyMap, wal[s],
                                          {e \in CommittedIn(wal[s]) : e.sequence \in 1 .. current})
    BY DEF SnapshotMatchesLog
  <2>1. LogInv /\ FileInv /\ OrderInv /\ RestTyped
    BY DEF BaseInv, AllInv
  <2>2. current \in 0 .. MaxSequence /\ current # Torn
    BY <2>1, FilesAssumption DEF FileInv, FilesTyped
  <2>3. SnapshotsLoad
    BY <2>1, <2>2 DEF SnapshotsLoad, FileInv, CheckpointUsable, Usable
  <2>4. ASSUME NEW s \in Shard
        PROVE snapshots[current][s].records =
                  ApplyTo(EmptyMap, wal[s],
                          {e \in CommittedIn(wal[s]) : e.sequence \in 1 .. current})
    <3>. DEFINE S == {e \in CommittedIn(wal[s]) : e.sequence \in 1 .. current}
                found == snapshots[current][s].records
    <3>1. /\ Numbered(Recs(s)) /\ \A e \in Recs(s) : e \in Entries(wal[s])
          /\ DOMAIN wal[s] \subseteq Nat
          /\ \A e \in Recs(s) : e.sequence \in Nat /\ e.sequence >= 1
      BY <2>1, RecsFacts
    <3>2. S = UpTo(s, current)
      BY <2>2, <3>1, TornIsNoEntry DEF UpTo, Recs, TornEntry
    <3>3. InOrder(wal[s])
      BY <2>1 DEF OrderInv
    <3>4. Numbered(UpTo(s, current)) /\ \A e \in UpTo(s, current) : e \in Entries(wal[s])
      BY <3>1 DEF Numbered, UpTo
    <3>5. ASSUME NEW k \in Keys PROVE found[k] = ApplyTo(EmptyMap, wal[s], S)[k]
      <4>1. found[k] = ValueIn(UpTo(s, current), k, Absent)
        BY DEF NoSync, DurableInv, LoggedInv
      <4>2. ApplyTo(EmptyMap, wal[s], UpTo(s, current))[k]
              = ValueIn(UpTo(s, current), k, EmptyMap[k])
        BY <3>1, <3>3, <3>4, AppliedValue
      <4>3. EmptyMap[k] = Absent
        BY DEF EmptyMap
      <4>. QED BY <3>2, <4>1, <4>2, <4>3
    <3>6. found \in Map
      BY <2>1, <2>2 DEF RestTyped, FileTypeOK
    <3>7. found = [k \in Keys |-> found[k]]
      BY <3>6 DEF Map
    <3>8. ApplyTo(EmptyMap, wal[s], S) = [k \in Keys |-> ApplyTo(EmptyMap, wal[s], S)[k]]
      BY DEF ApplyTo
    <3>. HIDE DEF S, found
    <3>9. found = ApplyTo(EmptyMap, wal[s], S)
      BY <3>5, <3>7, <3>8
    <3>. QED BY <3>9 DEF S, found
  <2>. QED BY <2>3, <2>4
<1>2. Spec => [](BaseInv /\ DurableInv)
  BY DurableAlways DEF NoSync
<1>. QED BY <1>1, <1>2, PTL

-----------------------------------------------------------------------------
(* The database implements the abstract store                              *)

Durably == BaseInv /\ DurableInv

\* The running call as the abstract store knows it.
StoreCall ==
    IF pending = NoEntry
    THEN [active |-> FALSE, done |-> FALSE, key |-> Absent, value |-> Absent]
    ELSE [active |-> TRUE, done |-> pc = "apply", key |-> pending.key, value |-> pending.value]

\* The running call is that of a Put or Delete between its first and last step.
CallKnown ==
    /\ Writing => /\ StoreCall = [active |-> TRUE, done |-> pc = "apply",
                                  key |-> pending.key, value |-> pending.value]
                  /\ pending # NoEntry /\ pending.key \in Keys /\ pending.value \in Contents
    /\ ~Writing => /\ StoreCall = [active |-> FALSE, done |-> FALSE,
                                   key |-> Absent, value |-> Absent]
                   /\ pending = NoEntry

LEMMA CallIs == BaseInv => CallKnown
<1>. SUFFICES ASSUME BaseInv PROVE CallKnown
  OBVIOUS
<1>1. LogInv /\ OrderInv
  BY DEF BaseInv, AllInv
<1>2. Writing => pending \in Entry /\ pending # NoEntry
  BY <1>1, TornIsNoEntry DEF LogInv, MethodTyped
<1>3. ~Writing => pending = NoEntry
  BY <1>1 DEF OrderInv
<1>. QED BY <1>2, <1>3 DEF StoreCall, Entry, CallKnown

\* Without errors of Sync, only a commit changes what a restart finds.
LEMMA RecoveredKept ==
    ASSUME NoSync, Durably, Durably', \A s \in Shard : Recs(s)' = Recs(s)
    PROVE  Recovered' = Recovered
<1>1. RecoveredFromLogs /\ RecoveredFromLogs'
  <2>1. Durably => RecoveredFromLogs
    BY FullRecovered DEF Durably, BaseInv, AllInv, DurableInv
  <2>. QED BY <2>1, FullRecovered, PTL DEF Durably, BaseInv, AllInv, DurableInv
<1>2. ASSUME NEW k \in Keys PROVE Recovered'[k] = Recovered[k]
  <2>1. Route(k) \in Shard
    BY RouteInShard
  <2>. QED BY <1>1, <2>1 DEF RecoveredFromLogs, NoSync
<1>3. Recovered = [k \in Keys |-> Recovered[k]] /\ Recovered' = [k \in Keys |-> Recovered'[k]]
  BY DEF Recovered
<1>. QED BY <1>2, <1>3

\* A step of the abstract store, or none.
StoreStep == Store!Next \/ UNCHANGED <<Recovered, StoreCall, acked, maybe>>

\* A Put or Delete begins.
LEMMA BeginSteps ==
    ASSUME NoSync, Durably, Durably', NEW op, NEW k \in Keys, NEW v \in Contents, Begin(op, k, v)
    PROVE  StoreStep
<1>1. BaseInv /\ BaseInv'
  BY DEF Durably
<1>2. /\ ~Writing /\ Writing' /\ pc' = "source" /\ pending'.key = k /\ pending'.value = v
      /\ UNCHANGED <<wal, fusionWAL, acked, maybe>>
  BY DEF Begin, Idle, Writing, disk, history
<1>3. Recovered' = Recovered
  BY <1>2, SameRecs, RecoveredKept DEF Durably, BaseInv, AllInv
<1>4. /\ StoreCall = [active |-> FALSE, done |-> FALSE, key |-> Absent, value |-> Absent]
      /\ StoreCall' = [active |-> TRUE, done |-> FALSE, key |-> k, value |-> v]
  <2>1. CallKnown /\ CallKnown'
    BY <1>1, CallIs, PTL
  <2>. QED BY <1>2, <2>1 DEF CallKnown
<1>5. Store!Invoke(k, v)
  BY <1>2, <1>3, <1>4 DEF Store!Invoke, Store!Call, StoreCall
<1>. QED BY <1>5 DEF StoreStep, Store!Next, Store!Contents, Contents

\* It is committed by the append to the log of the backup.
LEMMA CommitSteps ==
    ASSUME NoSync, Durably, Durably', AppendFusion
    PROVE  StoreStep
<1>1. CallKnown /\ CallKnown'
  BY CallIs, PTL DEF Durably
<1>2. /\ Writing /\ Writing' /\ pc = "fusion" /\ pc' = "apply" /\ BackupAppends(pending)
      /\ UNCHANGED <<pending, acked, maybe, snapshots, current>>
  BY DEF AppendFusion, BackupAppends, Writing, history
<1>3. \A k \in Keys : Recovered'[k] = IF k = pending.key THEN pending.value ELSE Recovered[k]
  BY <1>2, Commits DEF Durably, BaseInv, AllInv
<1>4. Recovered = [k \in Keys |-> Recovered[k]] /\ Recovered' = [k \in Keys |-> Recovered'[k]]
  BY DEF Recovered
<1>5. Recovered' = [Recovered EXCEPT ![pending.key] = pending.value]
  BY <1>3, <1>4
<1>6. /\ StoreCall = [active |-> TRUE, done |-> FALSE, key |-> pending.key, value |-> pending.value]
      /\ StoreCall' = [active |-> TRUE, done |-> TRUE, key |-> pending.key, value |-> pending.value]
  BY <1>1, <1>2 DEF CallKnown
<1>7. /\ StoreCall.active /\ ~StoreCall.done
      /\ StoreCall.key = pending.key /\ StoreCall.value = pending.value
  BY <1>6, Zenon
<1>8. Store!Commit
  <2>1. Recovered' = [Recovered EXCEPT ![StoreCall.key] = StoreCall.value]
    BY <1>5, <1>7
  <2>2. StoreCall' = [active |-> TRUE, done |-> TRUE, key |-> StoreCall.key, value |-> StoreCall.value]
    BY <1>6, <1>7
  <2>. QED BY <1>2, <1>7, <2>1, <2>2, Zenon DEF Store!Commit, Store!Call, StoreCall
<1>. QED BY <1>8 DEF StoreStep, Store!Next

\* It returns when memory has it.
LEMMA ReturnSteps ==
    ASSUME NoSync, Durably, Durably', Apply
    PROVE  StoreStep
<1>1. CallKnown /\ CallKnown'
  BY CallIs, PTL DEF Durably
<1>2. /\ Writing /\ ~Writing' /\ pc = "apply" /\ UNCHANGED <<wal, fusionWAL>>
      /\ acked' = [acked EXCEPT ![pending.key] = pending.value]
      /\ maybe' = [maybe EXCEPT ![pending.key] = {}]
  BY DEF Apply, Finish, Acknowledge, Writing, disk
<1>3. Recovered' = Recovered
  BY <1>2, SameRecs, RecoveredKept DEF Durably, BaseInv, AllInv
<1>4. /\ StoreCall = [active |-> TRUE, done |-> TRUE, key |-> pending.key, value |-> pending.value]
      /\ StoreCall' = [active |-> FALSE, done |-> FALSE, key |-> Absent, value |-> Absent]
  BY <1>1, <1>2 DEF CallKnown
<1>5. Store!Return
  BY <1>2, <1>3, <1>4 DEF Store!Return, Store!NoCall, StoreCall
<1>. QED BY <1>5 DEF StoreStep, Store!Next

\* It is aborted by an error or a crash, which commits nothing.
LEMMA AbortSteps ==
    ASSUME NoSync, Durably, Durably', Writing, ~Writing', LeaveOpen,
           \A s \in Shard : Recs(s)' = Recs(s)
    PROVE  StoreStep
<1>1. CallKnown /\ CallKnown'
  BY CallIs, PTL DEF Durably
<1>2. Recovered' = Recovered
  BY RecoveredKept
<1>3. /\ acked' = acked
      /\ maybe' = [maybe EXCEPT ![pending.key] = @ \cup {pending.value}]
  BY <1>1 DEF CallKnown, LeaveOpen
<1>4. /\ StoreCall.active /\ StoreCall.key = pending.key /\ StoreCall.value = pending.value
      /\ StoreCall' = [active |-> FALSE, done |-> FALSE, key |-> Absent, value |-> Absent]
  BY <1>1 DEF CallKnown
<1>5. Store!Abort
  BY <1>2, <1>3, <1>4 DEF Store!Abort, Store!NoCall, StoreCall
<1>. QED BY <1>5 DEF StoreStep, Store!Next

\* The other steps of a running Put or Delete, and those of Snapshot, of losing
\* and recovering a shard and of the end of an idle process are invisible.
LEMMA InvisibleSteps ==
    ASSUME NoSync, Durably, Durably', \A s \in Shard : Recs(s)' = Recs(s),
           UNCHANGED <<acked, maybe>>,
           \/ ~Writing /\ ~Writing'
           \/ Writing /\ Writing' /\ pc # "apply" /\ pc' # "apply" /\ UNCHANGED pending
    PROVE  StoreStep
<1>1. CallKnown /\ CallKnown'
  BY CallIs, PTL DEF Durably
<1>2. Recovered' = Recovered
  BY RecoveredKept
<1>3. StoreCall' = StoreCall
  BY <1>1 DEF CallKnown
<1>. QED BY <1>2, <1>3 DEF StoreStep

\* A Delete of an absent key reads memory, and a restart finds the same.
LEMMA DeleteAbsentSteps ==
    ASSUME NoSync, Durably, Durably', NEW k \in Keys, DeleteAbsent(k)
    PROVE  StoreStep
<1>1. CallKnown /\ CallKnown'
  BY CallIs, PTL DEF Durably
<1>2. /\ ~Writing /\ pc = "idle" /\ status = "up" /\ UNCHANGED <<wal, fusionWAL, pending>>
      /\ Route(k) \notin failed /\ data[Route(k)][k] = Absent
      /\ acked' = [acked EXCEPT ![k] = Absent]
      /\ maybe' = [maybe EXCEPT ![k] = {}]
  BY DEF DeleteAbsent, Idle, Acknowledge, Writing, disk, running
<1>3. Recovered' = Recovered
  BY <1>2, SameRecs, RecoveredKept DEF Durably, BaseInv, AllInv
<1>4. acked[k] = Absent
  BY <1>2 DEF Durably, BaseInv, AllInv, MemoryInv
<1>5. Recovered[k] = Absent
  BY <1>2, <1>4, IdleRecovered DEF Durably, BaseInv, AllInv, NoSync
<1>6. StoreCall' = StoreCall /\ ~StoreCall.active
  BY <1>1, <1>2 DEF CallKnown, StoreCall
<1>7. Store!DeleteAbsent(k)
  BY <1>2, <1>3, <1>5, <1>6 DEF Store!DeleteAbsent, StoreCall
<1>. QED BY <1>7 DEF StoreStep, Store!Next

\* Open is a restart.
LEMMA RestartSteps ==
    ASSUME NoSync, Durably, Durably', Open
    PROVE  StoreStep
<1>1. CallKnown /\ CallKnown'
  BY CallIs, PTL DEF Durably
<1>2. /\ ~Writing /\ ~Writing' /\ UNCHANGED <<wal, fusionWAL, pending>>
      /\ acked' = Recovered /\ maybe' = [k \in Keys |-> {}]
  <2>1. pc = "idle" /\ UNCHANGED <<wal, fusionWAL, pc, pending>>
    BY DEF Open, disk, running, Durably, BaseInv, AllInv, LogInv, MethodTyped
  <2>. QED BY <2>1 DEF Open, Writing
<1>3. Recovered' = Recovered
  BY <1>2, SameRecs, RecoveredKept DEF Durably, BaseInv, AllInv
<1>4. StoreCall' = StoreCall /\ ~StoreCall.active
  <2>1. /\ StoreCall = [active |-> FALSE, done |-> FALSE, key |-> Absent, value |-> Absent]
        /\ StoreCall' = [active |-> FALSE, done |-> FALSE, key |-> Absent, value |-> Absent]
    BY <1>1, <1>2 DEF CallKnown
  <2>. QED BY <2>1, Zenon
<1>5. Store!Restart
  BY <1>2, <1>3, <1>4 DEF Store!Restart, StoreCall
<1>. QED BY <1>5 DEF StoreStep, Store!Next

LEMMA StoreSteps ==
    ASSUME NoSync, Durably, Durably', [Next]_vars
    PROVE  StoreStep
<1>1. LogInv
  BY DEF Durably, BaseInv, AllInv
<1>2. ASSUME UNCHANGED <<wal, fusionWAL>> PROVE \A s \in Shard : Recs(s)' = Recs(s)
  BY <1>1, <1>2, SameRecs
<1>3. CASE \/ \E k \in Keys, v \in Values : BeginPut(k, v)
           \/ \E k \in Keys : BeginDelete(k)
  BY <1>3, BeginSteps DEF BeginPut, BeginDelete, Contents
<1>4. CASE AppendSource
  <2>1. /\ ShardAppends(pending) /\ UNCHANGED <<acked, maybe, pending>>
        /\ pc = "source" /\ pc' = "fusion" /\ Writing /\ Writing'
    BY <1>4 DEF AppendSource, ShardAppends, history, Writing
  <2>. QED BY <1>1, <2>1, SameRecs, InvisibleSteps
<1>5. CASE AppendFusion
  BY <1>5, CommitSteps
<1>6. ASSUME NEW kind \in {"clean", "short", "sync"}, AppendFails(kind) PROVE StoreStep
  <2>1. Writing /\ ~Writing' /\ LeaveOpen
    BY <1>6 DEF AppendFails, Finish, Writing
  <2>2. \A s \in Shard : Recs(s)' = Recs(s)
    BY <1>1, <1>6, FailedAppend, SameRecs DEF NoSync
  <2>. QED BY <2>1, <2>2, AbortSteps
<1>7. CASE Apply
  BY <1>7, ReturnSteps
<1>8. CASE \/ RemoveSnapshot \/ WriteSnapshot \/ WriteTemporary \/ Rename \/ RenameFails
           \/ RemoveCheckpoint \/ SnapshotFails \/ BeginSnapshot
  <2>1. /\ UNCHANGED <<wal, fusionWAL, acked, maybe>> /\ ~Writing /\ ~Writing'
    BY <1>8 DEF RemoveSnapshot, WriteSnapshot, WriteTemporary, Rename, RenameFails, Finish, Idle,
                RemoveCheckpoint, SnapshotFails, WritesPartly, BeginSnapshot, disk, history, Writing
  <2>. QED BY <1>2, <2>1, InvisibleSteps
<1>9. ASSUME NEW k \in Keys, DeleteAbsent(k) PROVE StoreStep
  BY <1>9, DeleteAbsentSteps
<1>10. CASE \/ (\E s \in Shard : CrashShard(s)) \/ (\E s \in Shard : RecoverShard(s)) \/ Close
            \/ OpenRefused
  <2>1. /\ UNCHANGED <<wal, fusionWAL, acked, maybe>> /\ ~Writing /\ ~Writing'
    BY <1>1, <1>10 DEF CrashShard, RecoverShard, Close, OpenRefused, End, Finish, Idle, disk, history,
                       running, Writing, LogInv, MethodTyped
  <2>. QED BY <1>2, <2>1, InvisibleSteps
<1>11. CASE CrashInSnapshot
  <2>1. /\ UNCHANGED <<wal, fusionWAL, acked, maybe>> /\ ~Writing /\ ~Writing'
    BY <1>11 DEF CrashInSnapshot, WritesPartly, End, Finish, history, Writing
  <2>. QED BY <1>2, <2>1, InvisibleSteps
<1>12. CASE Crash
  <2>1. /\ UNCHANGED <<wal, fusionWAL>> /\ LeaveOpen /\ ~Writing'
    BY <1>12 DEF Crash, End, Finish, disk, Writing
  <2>2. CASE Writing
    BY <1>2, <2>1, <2>2, AbortSteps
  <2>3. CASE ~Writing
    <3>1. pending = NoEntry
      BY <2>3, CallIs DEF Durably, CallKnown
    <3>2. UNCHANGED <<acked, maybe>>
      BY <2>1, <3>1 DEF LeaveOpen
    <3>. QED BY <1>2, <2>1, <2>3, <3>2, InvisibleSteps
  <2>. QED BY <2>2, <2>3
<1>13. CASE CrashInAppend
  <2>1. Writing /\ ~Writing' /\ LeaveOpen
    BY <1>13 DEF CrashInAppend, End, Finish, Writing
  <2>2. ShardAppends(TornEntry) \/ BackupAppends(TornEntry)
    BY <1>13 DEF CrashInAppend, ShardAppends, BackupAppends
  <2>. QED BY <1>1, <2>1, <2>2, SameRecs, AbortSteps
<1>14. CASE Open
  BY <1>14, RestartSteps
<1>15. CASE UNCHANGED vars
  <2>1. /\ UNCHANGED <<wal, fusionWAL, acked, maybe, pc, pending>>
    BY <1>15 DEF vars, disk, history, running
  <2>2. StoreCall' = StoreCall
    BY <2>1 DEF StoreCall
  <2>3. Recovered' = Recovered
    BY <1>2, <2>1, RecoveredKept
  <2>. QED BY <2>1, <2>2, <2>3 DEF StoreStep
<1>. QED
  BY <1>3, <1>4, <1>5, <1>6, <1>7, <1>8, <1>9, <1>10, <1>11, <1>12, <1>13, <1>14, <1>15
     DEF Next, Step, Request, Failure

\* Without errors of Sync, every step of the database is a step of the abstract
\* store on what a restart would find, or invisible to it.
THEOREM DatabaseImplementsStore == NoSync => (Spec => Implements)
<1>. SUFFICES ASSUME NoSync PROVE Spec => Implements
  OBVIOUS
<1>1. Init => Store!Init
  <2>. SUFFICES ASSUME Init PROVE Store!Init
    OBVIOUS
  <2>1. \A k \in Keys : Recovered[k] = Absent
    BY RouteInShard DEF Init, Recovered, Replay, ApplyTo, Base, EmptyMap, LastAt
  <2>2. Recovered = [k \in Keys |-> Absent]
    BY <2>1 DEF Recovered
  <2>. QED BY <2>2 DEF Init, Store!Init, Store!NoCall, EmptyMap
<1>2. Durably /\ Durably' /\ [Next]_vars => [Store!Next]_(Store!vars)
  BY StoreSteps DEF StoreStep, Store!vars, StoreCall
<1>3. Spec => []Durably
  BY DurableAlways DEF NoSync, Durably
<1>. QED BY <1>1, <1>2, <1>3, PTL DEF Spec, Implements, Store!Spec

-----------------------------------------------------------------------------
(* What the abstract store promises, in itself                             *)

\* A committed write is in the store until it returns.
DoneInStore == StoreCall.active /\ StoreCall.done => Recovered[StoreCall.key] = StoreCall.value

StoreInv == Store!TypeOK /\ Store!Durable /\ DoneInStore

\* The parts of StoreInv, over the call without its definition.
StoreTyped ==
    /\ Recovered \in [Keys -> Contents]
    /\ acked \in [Keys -> Contents]
    /\ maybe \in [Keys -> SUBSET Contents]
    /\ StoreCall \in [active : BOOLEAN, done : BOOLEAN, key : Keys \cup {Absent}, value : Contents]
    /\ StoreCall.active => StoreCall.key \in Keys
StorePossible(k) ==
    {acked[k]} \cup maybe[k]
        \cup (IF StoreCall.active /\ StoreCall.key = k THEN {StoreCall.value} ELSE {})
StoreKeeps == \A k \in Keys : Recovered[k] \in StorePossible(k)

LEMMA StoreInvParts == StoreInv <=> StoreTyped /\ StoreKeeps /\ DoneInStore
<1>1. Store!TypeOK <=> StoreTyped
  BY Zenon DEF Store!TypeOK, Store!Contents, Contents, StoreTyped, StoreCall
<1>2. Store!Durable <=> StoreKeeps
  BY Zenon DEF Store!Durable, Store!Possible, StoreKeeps, StorePossible, StoreCall
<1>. QED BY <1>1, <1>2 DEF StoreInv

LEMMA StoreInvNextParts == StoreInv' <=> (StoreTyped /\ StoreKeeps /\ DoneInStore)'
BY StoreInvParts, PTL

LEMMA StoreInvInit == Store!Init => StoreInv
<1>. SUFFICES ASSUME Store!Init PROVE StoreTyped /\ StoreKeeps /\ DoneInStore
  BY StoreInvParts
<1>1. /\ Recovered = [k \in Keys |-> Absent] /\ acked = Recovered
      /\ maybe = [k \in Keys |-> {}]
      /\ StoreCall = [active |-> FALSE, done |-> FALSE, key |-> Absent, value |-> Absent]
  BY Zenon DEF Store!Init, Store!NoCall, StoreCall
<1>. QED BY <1>1 DEF StoreTyped, StoreKeeps, StorePossible, DoneInStore, Contents

LEMMA StoreInvNext == StoreInv /\ [Store!Next]_(Store!vars) => StoreInv'
<1>. SUFFICES ASSUME StoreInv, [Store!Next]_(Store!vars) PROVE (StoreTyped /\ StoreKeeps /\ DoneInStore)'
  BY StoreInvNextParts
<1>0. StoreTyped /\ StoreKeeps /\ DoneInStore
  BY StoreInvParts
<1>1. ASSUME NEW k \in Keys, NEW v \in Contents, Store!Invoke(k, v)
      PROVE  (StoreTyped /\ StoreKeeps /\ DoneInStore)'
  <2>1. /\ ~StoreCall.active /\ UNCHANGED <<Recovered, acked, maybe>>
        /\ StoreCall' = [active |-> TRUE, done |-> FALSE, key |-> k, value |-> v]
    BY <1>1, Zenon DEF Store!Invoke, Store!Call, StoreCall
  <2>. QED BY <1>0, <2>1 DEF StoreTyped, StoreKeeps, StorePossible, DoneInStore
<1>2. CASE Store!Commit
  <2>1. /\ StoreCall.active /\ ~StoreCall.done /\ UNCHANGED <<acked, maybe>>
        /\ Recovered' = [Recovered EXCEPT ![StoreCall.key] = StoreCall.value]
        /\ StoreCall' = [active |-> TRUE, done |-> TRUE, key |-> StoreCall.key,
                         value |-> StoreCall.value]
    BY <1>2, Zenon DEF Store!Commit, Store!Call, StoreCall
  <2>2. StoreTyped'
    BY <1>0, <2>1 DEF StoreTyped
  <2>. QED BY <1>0, <2>1, <2>2 DEF StoreTyped, StoreKeeps, StorePossible, DoneInStore
<1>3. CASE Store!Return
  <2>1. /\ StoreCall.active /\ StoreCall.done /\ UNCHANGED Recovered
        /\ acked' = [acked EXCEPT ![StoreCall.key] = StoreCall.value]
        /\ maybe' = [maybe EXCEPT ![StoreCall.key] = {}]
        /\ StoreCall' = [active |-> FALSE, done |-> FALSE, key |-> Absent, value |-> Absent]
    BY <1>3, Zenon DEF Store!Return, Store!NoCall, StoreCall
  <2>. QED BY <1>0, <2>1 DEF StoreTyped, StoreKeeps, StorePossible, DoneInStore, Contents
<1>4. CASE Store!Abort
  <2>1. /\ StoreCall.active /\ UNCHANGED <<Recovered, acked>>
        /\ maybe' = [maybe EXCEPT ![StoreCall.key] = @ \cup {StoreCall.value}]
        /\ StoreCall' = [active |-> FALSE, done |-> FALSE, key |-> Absent, value |-> Absent]
    BY <1>4, Zenon DEF Store!Abort, Store!NoCall, StoreCall
  <2>. QED BY <1>0, <2>1 DEF StoreTyped, StoreKeeps, StorePossible, DoneInStore, Contents
<1>5. ASSUME NEW k \in Keys, Store!DeleteAbsent(k)
      PROVE  (StoreTyped /\ StoreKeeps /\ DoneInStore)'
  <2>1. /\ ~StoreCall.active /\ Recovered[k] = Absent /\ UNCHANGED <<Recovered, StoreCall>>
        /\ acked' = [acked EXCEPT ![k] = Absent]
        /\ maybe' = [maybe EXCEPT ![k] = {}]
    BY <1>5, Zenon DEF Store!DeleteAbsent, StoreCall
  <2>. QED BY <1>0, <2>1 DEF StoreTyped, StoreKeeps, StorePossible, DoneInStore, Contents
<1>6. CASE Store!Restart
  <2>1. /\ ~StoreCall.active /\ acked' = Recovered /\ UNCHANGED <<Recovered, StoreCall>>
        /\ maybe' = [k \in Keys |-> {}]
    BY <1>6, Zenon DEF Store!Restart, StoreCall
  <2>. QED BY <1>0, <2>1 DEF StoreTyped, StoreKeeps, StorePossible, DoneInStore, Contents
<1>7. CASE UNCHANGED Store!vars
  <2>1. UNCHANGED <<Recovered, StoreCall, acked, maybe>>
    BY <1>7, Zenon DEF Store!vars, StoreCall
  <2>. QED BY <1>0, <2>1 DEF StoreTyped, StoreKeeps, StorePossible, DoneInStore
<1>. QED BY <1>1, <1>2, <1>3, <1>4, <1>5, <1>6, <1>7 DEF Store!Next, Store!Contents, Contents

\* In the abstract store a restart finds the last acknowledged value of a key,
\* or one that a write without an answer since then asked for.
THEOREM StoreIsDurable == Store!Spec => []Store!Durable
<1>1. StoreInv => Store!Durable
  BY DEF StoreInv
<1>. QED BY <1>1, StoreInvInit, StoreInvNext, PTL DEF Store!Spec
-----------------------------------------------------------------------------
(* Other checkpoints                                                       *)

CheckpointAt(q) == IF q = NoFile THEN 0 ELSE q
BaseAt(q, s) == IF q = NoFile THEN EmptyMap ELSE snapshots[q][s].records
AppliedAt(q, s) == {e \in CommittedIn(wal[s]) : e.sequence > CheckpointAt(q)}
ReplayedAt(q) == {CheckpointAt(q)} \cup UNION {{e.sequence : e \in AppliedAt(q, s)} : s \in Shard}
LoadAt(q) == q # NoFile => q # Torn /\ \A s \in Shard : Loads(snapshots[q][s], q, s)
MatchAt(q) ==
    /\ \A s \in Shard : \A e \in AppliedAt(q, s) : e \in Entries(fusionWAL)
    /\ \A c \in Entries(fusionWAL) :
          c.sequence > CheckpointAt(q) =>
              \E s \in Shard : \E e \in Entries(wal[s]) : e.sequence = c.sequence
SeenAt(q) ==
    {CheckpointAt(q)} \cup {e.sequence : e \in Entries(fusionWAL)}
        \cup UNION {{e.sequence : e \in Entries(wal[s])} : s \in Shard}

LEMMA WithShards ==
    ASSUME NEW q
    PROVE  /\ With(q)!Shard = Shard
           /\ \A k : With(q)!Route(k) = Route(k)
           /\ \A log : With(q)!Entries(log) = Entries(log)
           /\ With(q)!Checkpoint = CheckpointAt(q)
           /\ \A s : With(q)!Base(s) = BaseAt(q, s)
BY DEF With!Shard, With!Source, Shard, Source, With!Route, Route, With!Entries, Entries,
       With!Checkpoint, CheckpointAt, With!Base, BaseAt, With!EmptyMap, EmptyMap

LEMMA WithCommitted ==
    ASSUME NEW q
    PROVE  \A log : With(q)!CommittedIn(log) = CommittedIn(log)
BY WithShards DEF With!CommittedIn, CommittedIn

LEMMA WithLoad ==
    ASSUME NEW q
    PROVE  With(q)!SnapshotsLoad <=> LoadAt(q)
<1>1. \A file, s : With(q)!Loads(file, q, s) <=> Loads(file, q, s)
  BY WithShards DEF With!Loads, Loads
<1>. QED BY <1>1, WithShards DEF With!SnapshotsLoad, LoadAt

LEMMA WithApplied ==
    ASSUME NEW q
    PROVE  \A s : With(q)!Applied(s) = AppliedAt(q, s)
BY WithShards, WithCommitted DEF With!Applied, AppliedAt

LEMMA WithReplayed ==
    ASSUME NEW q
    PROVE  With(q)!Replayed = ReplayedAt(q) /\ With(q)!Seen = SeenAt(q)
<1>1. With(q)!Replayed = ReplayedAt(q)
  BY WithApplied, WithShards DEF With!Replayed, ReplayedAt
<1>2. With(q)!Seen = SeenAt(q)
  BY WithShards DEF With!Seen, With!SeenCommitted, SeenAt
<1>. QED BY <1>1, <1>2

LEMMA WithReplay ==
    ASSUME NEW q, NEW s
    PROVE  With(q)!Replay(s) = ApplyTo(BaseAt(q, s), wal[s], AppliedAt(q, s))
<1>1. \A map, log, S : With(q)!ApplyTo(map, log, S) = ApplyTo(map, log, S)
  BY Zenon DEF With!ApplyTo, With!LastAt, ApplyTo, LastAt
<1>. QED BY <1>1, WithApplied, WithShards DEF With!Replay

LEMMA WithRecovered ==
    ASSUME NEW q, NEW k \in Keys
    PROVE  With(q)!Recovered[k] = ApplyTo(BaseAt(q, Route(k)), wal[Route(k)], AppliedAt(q, Route(k)))[k]
BY WithReplay, WithShards DEF With!Recovered

LEMMA WithOpenable ==
    ASSUME NEW q
    PROVE  With(q)!Openable <=> LoadAt(q) /\ LogsLoad /\ UniqueCommits /\ MatchAt(q)
<1>1. With(q)!LogsLoad <=> LogsLoad
  BY WithShards DEF With!LogsLoad, LogsLoad
<1>2. With(q)!UniqueCommits <=> UniqueCommits
  BY DEF With!UniqueCommits, UniqueCommits
<1>3. With(q)!CommitsMatch <=> MatchAt(q)
  BY WithShards, WithApplied DEF With!CommitsMatch, MatchAt
<1>. QED BY <1>1, <1>2, <1>3, WithLoad DEF With!Openable

\* A number that may be a checkpoint's: that of a committed record, or none.
Known(q) == q = 0 \/ \E s \in Shard : \E e \in Recs(s) : e.sequence = q

\* A file that passes for the snapshot at q of shard s was written there, and
\* holds what the log says.
FileHolds(file, q, s) ==
    file.state = "whole" /\ file.sequence = q =>
        /\ Known(q)
        /\ \A k \in Keys : file.records[k] = ValueIn(UpTo(s, q), k, Absent)

HoldInv ==
    /\ status = "up" => Known(committed)
    /\ \A q \in 0 .. MaxSequence, s \in Shard : FileHolds(snapshots[q][s], q, s)

\* How a snapshot file changes.
FileChanges(q, s) ==
    \/ snapshots'[q][s] \in {snapshots[q][s], NoSnapshot, TornSnapshot}
    \/ /\ Snapshotting
       /\ q = committed
       /\ snapshots'[q][s] = Whole(committed, data[s])

LEMMA FilesChange ==
    ASSUME LogInv, FileInv, [Next]_vars, NEW q \in 0 .. MaxSequence, NEW s \in Shard
    PROVE  FileChanges(q, s)
<1>1. ASSUME Snapshotting, NEW file, file \in {NoSnapshot, TornSnapshot, Whole(committed, data[cursor])},
             snapshots' = [snapshots EXCEPT ![committed][cursor] = file]
      PROVE  FileChanges(q, s)
  <2>1. committed \in 0 .. MaxSequence /\ cursor \in Shard
    BY DEF LogInv, MethodTyped
  <2>2. snapshots'[q][s] = IF q = committed /\ s = cursor THEN file ELSE snapshots[q][s]
    BY <1>1, <2>1 DEF FileInv, FilesTyped, IsTable
  <2>. QED BY <1>1, <2>2 DEF FileChanges
<1>2. CASE UNCHANGED snapshots
  BY <1>2 DEF FileChanges
<1>3. CASE RemoveSnapshot \/ WriteSnapshot
  BY <1>1, <1>3 DEF RemoveSnapshot, WriteSnapshot, Snapshotting
<1>4. CASE WritesPartly
  BY <1>1, <1>2, <1>4 DEF WritesPartly, Snapshotting
<1>. QED
  BY <1>2, <1>3, <1>4
     DEF Next, Step, Request, Failure, vars, disk, Begin, BeginPut, BeginDelete,
         DeleteAbsent, AppendSource, AppendFusion, AppendFails, Apply, BeginSnapshot,
         WriteTemporary, Rename, RenameFails, RemoveCheckpoint,
         SnapshotFails, CrashShard, RecoverShard, Close, Crash, CrashInSnapshot,
         CrashInAppend, Open, OpenRefused

\* How the last applied number changes.
LEMMA CommittedChanges ==
    ASSUME [Next]_vars, status' = "up"
    PROVE  Apply \/ Open \/ (status = "up" /\ committed' = committed)
BY DEF Next, Step, Request, Failure, vars, memory, Begin, BeginPut, BeginDelete,
       DeleteAbsent, AppendSource, AppendFusion, AppendFails, BeginSnapshot, RemoveSnapshot,
       WriteSnapshot, WriteTemporary, Rename, RenameFails, RemoveCheckpoint,
       SnapshotFails, CrashShard, RecoverShard, Close, Crash, CrashInSnapshot,
       CrashInAppend, OpenRefused, End

\* A file written by Snapshot holds what the log says.
LEMMA WrittenHolds ==
    ASSUME "sync" \notin Faults, AllInv, DurableInv, HoldInv, Snapshotting, NEW s \in Shard
    PROVE  FileHolds(Whole(committed, data[s]), committed, s)
<1>. USE DEF AllInv
<1>1. status = "up" /\ failed = {}
  BY DEF Snapshotting, LogInv, MethodTyped, MemoryInv
<1>2. ASSUME NEW k \in Keys PROVE data[s][k] = ValueIn(UpTo(s, committed), k, Absent)
  <2>1. CASE Route(k) = s
    BY <1>1, <2>1 DEF MemoryInv, DurableInv, LoggedInv
  <2>2. CASE Route(k) # s
    <3>1. data[s][k] = Absent
      BY <2>2 DEF FileInv, MapsRouted
    <3>2. About(UpTo(s, committed), k) = {}
      BY <2>2, RecsFacts DEF About, UpTo
    <3>. QED BY <3>1, <3>2 DEF ValueIn
  <2>. QED BY <2>1, <2>2
<1>3. Known(committed)
  BY <1>1 DEF HoldInv
<1>. QED BY <1>2, <1>3 DEF FileHolds, Whole, SnapshotFile

\* A committed record stays; one that is added is later than any file.
LEMMA KnownStays ==
    ASSUME LogInv, FileInv, OrderInv, LogInv', FileInv', OrderInv', [Next]_vars,
           NEW q \in 0 .. MaxSequence, Known(q), NEW s \in Shard
    PROVE  Known(q)' /\ UpTo(s, q)' = UpTo(s, q)
<1>1. CASE \A t \in Shard : Recs(t)' = Recs(t)
  BY <1>1 DEF Known, UpTo
<1>2. CASE BackupAppends(pending)
  <2>1. /\ \A t \in Shard : Recs(t)' = IF t = pending.shard THEN Recs(t) \cup {pending}
                                       ELSE Recs(t)
        /\ pending \in Entry /\ pc = "fusion"
    BY <1>2, AppendsCommit DEF BackupAppends, LogInv, MethodTyped, Writing
  <2>2. pending.sequence \in Nat /\ pending.sequence >= 1
    BY <2>1, TornIsNoEntry
  <2>3. \A t \in Shard : \A e \in Recs(t) : e.sequence \in Nat /\ e.sequence < pending.sequence
    <3>1. status = "up" /\ next = pending.sequence + 1
      BY <2>1 DEF LogInv, MethodTyped, OrderInv, Writing
    <3>. QED BY <2>1, <2>2, <3>1, RecsFacts
  <2>4. q < pending.sequence
    BY <2>2, <2>3 DEF Known
  <2>5. Known(q)'
    BY <2>1 DEF Known
  <2>6. UpTo(s, q)' = UpTo(s, q)
    BY <2>1, <2>2, <2>4, FilesAssumption DEF UpTo
  <2>. QED BY <2>5, <2>6
<1>3. CASE \E e \in {pending, TornEntry} : ShardAppends(e) \/ BackupAppends(e)
  BY <1>1, <1>2, <1>3, SameRecs
<1>. QED BY <1>1, <1>3, LogStep, SameRecs

LEMMA HoldInvNext ==
    ASSUME "sync" \notin Faults, AllInv, DurableInv, LogInv', FileInv', OrderInv',
           HoldInv, [Next]_vars
    PROVE  HoldInv'
<1>. USE DEF AllInv
<1>1. ASSUME NEW q \in 0 .. MaxSequence, NEW s \in Shard PROVE FileHolds(snapshots[q][s], q, s)'
  <2>1. ASSUME NEW file, FileHolds(file, q, s)
        PROVE  file.state = "whole" /\ file.sequence = q =>
                  /\ Known(q)'
                  /\ \A k \in Keys : file.records[k] = ValueIn(UpTo(s, q)', k, Absent)
    BY <2>1, KnownStays DEF FileHolds
  <2>2. CASE snapshots'[q][s] = snapshots[q][s]
    BY <2>1, <2>2 DEF HoldInv, FileHolds
  <2>3. CASE snapshots'[q][s] \in {NoSnapshot, TornSnapshot}
    BY <2>3 DEF FileHolds, NoSnapshot, TornSnapshot, SnapshotFile
  <2>4. CASE Snapshotting /\ q = committed /\ snapshots'[q][s] = Whole(committed, data[s])
    <3>1. FileHolds(Whole(committed, data[s]), q, s)
      BY <2>4, WrittenHolds
    <3>. QED BY <2>1, <2>4, <3>1 DEF FileHolds
  <2>. QED BY <2>2, <2>3, <2>4, FilesChange DEF FileChanges
<1>2. ASSUME status' = "up" PROVE Known(committed)'
  <2>1. CASE status = "up" /\ committed' = committed
    <3>1. committed \in 0 .. MaxSequence /\ Known(committed)
      BY <2>1 DEF HoldInv, LogInv, MethodTyped
    <3>2. PICK s \in Shard : TRUE
      BY SourceAssumption DEF Shard, Source
    <3>3. Known(committed') <=> Known(committed)
      BY <2>1
    <3>. QED BY <2>1, <3>1, <3>2, KnownStays DEF Known
  <2>2. CASE Apply
    <3>1. /\ pc = "apply" /\ committed' = pending.sequence /\ UNCHANGED <<wal, fusionWAL>>
          /\ pending \in Recs(pending.shard) /\ pending.shard \in Shard
      BY <2>2, RouteInShard
         DEF Apply, disk, DurableInv, FoundInv, LogInv, MethodTyped, Writing, Entry
    <3>2. \A s \in Shard : Recs(s)' = Recs(s)
      BY <3>1, SameRecs
    <3>. QED BY <3>1, <3>2 DEF Known
  <2>3. CASE Open
    <3>1. /\ UNCHANGED <<wal, fusionWAL>> /\ committed' \in Replayed
      BY <2>3 DEF Open, disk, Largest
    <3>2. \A s \in Shard : Recs(s)' = Recs(s)
      BY <3>1, SameRecs
    <3>3. CASE committed' = Checkpoint
      <4>1. PICK s \in Shard : TRUE
        BY SourceAssumption DEF Shard, Source
      <4>2. CASE current = NoFile
        BY <3>3, <4>2 DEF Checkpoint, Known
      <4>3. CASE current # NoFile
        <5>1. Loads(snapshots[current][s], current, s) /\ current \in 0 .. MaxSequence
          BY <4>3 DEF FileInv, CheckpointUsable, Usable, FilesTyped
        <5>2. Known(current) /\ committed' = current
          BY <3>3, <4>3, <5>1 DEF HoldInv, FileHolds, Loads, Checkpoint
        <5>. QED BY <3>2, <5>2 DEF Known
      <4>. QED BY <4>2, <4>3
    <3>4. ASSUME NEW s \in Shard, NEW e \in Applied(s), committed' = e.sequence
          PROVE  Known(committed)'
      <4>1. Checkpoint \in Nat
        BY FilesAssumption DEF Checkpoint, FileInv, FilesTyped
      <4>2. e \in Recs(s)
        BY <4>1, TornIsNoEntry DEF Applied, Recs
      <4>. QED BY <3>2, <3>4, <4>2 DEF Known
    <3>. QED BY <3>1, <3>3, <3>4 DEF Replayed
  <2>. QED BY <1>2, <2>1, <2>2, <2>3, CommittedChanges
<1>. QED BY <1>1, <1>2 DEF HoldInv

\* What EveryCheckpointWorks says of one checkpoint.
LEMMA ReplayedMax ==
    ASSUME LogInv, NEW q \in 0 .. MaxSequence \cup {NoFile}, Known(CheckpointAt(q))
    PROVE  Max(ReplayedAt(q)) = Max({0} \cup UNION {{e.sequence : e \in Recs(s)} : s \in Shard})
<1>. DEFINE C == UNION {{e.sequence : e \in Recs(s)} : s \in Shard}
            R == ReplayedAt(q)
            N == {0} \cup C
<1>1. CheckpointAt(q) \in 0 .. MaxSequence
  BY FilesAssumption DEF CheckpointAt
<1>2. \A s \in Shard : \A e \in Recs(s) : e.sequence \in 1 .. MaxSequence
  BY RecsFacts DEF Entry, Sequence, TornEntry
<1>3. \A s \in Shard : AppliedAt(q, s) = {e \in Recs(s) : e.sequence > CheckpointAt(q)}
  BY <1>1, TornIsNoEntry DEF AppliedAt, Recs
<1>4. \A n : n \in R <=> n = CheckpointAt(q) \/ (n \in C /\ n > CheckpointAt(q))
  BY <1>3 DEF ReplayedAt
<1>5. CheckpointAt(q) = 0 \/ CheckpointAt(q) \in C
  BY DEF Known
<1>6. C \subseteq 1 .. MaxSequence
  BY <1>2
<1>. HIDE DEF C, R, N
<1>7. /\ R \subseteq 0 .. MaxSequence /\ N \subseteq 0 .. MaxSequence
      /\ R # {} /\ N # {} /\ R \subseteq N
  <2>1. R \subseteq 0 .. MaxSequence /\ R # {}
    <3>1. C \subseteq 0 .. MaxSequence
      BY <1>6, FilesAssumption
    <3>2. CheckpointAt(q) \in R
      BY <1>4
    <3>. QED BY <1>1, <1>4, <3>1, <3>2
  <2>2. 0 \in 0 .. MaxSequence /\ C \subseteq 0 .. MaxSequence
    BY <1>6, FilesAssumption
  <2>3. N \subseteq 0 .. MaxSequence /\ N # {}
    BY <2>2 DEF N
  <2>4. R \subseteq N
    BY <1>4, <1>5 DEF N
  <2>. QED BY <2>1, <2>3, <2>4
<1>8. IsFiniteSet(R) /\ IsFiniteSet(N)
  <2>1. IsFiniteSet(0 .. MaxSequence)
    BY FS_Interval, FilesAssumption
  <2>. QED BY <1>7, <2>1, FS_Subset
<1>9. \A n \in R \cup N : n \in Nat
  BY <1>7, FilesAssumption
<1>10. /\ Max(R) \in R /\ \A n \in R : n <= Max(R)
       /\ Max(N) \in N /\ \A n \in N : n <= Max(N)
  BY <1>7, <1>8, <1>9, LargestNumber
<1>11. Max(N) \in R
  <2>1. CheckpointAt(q) <= Max(N)
    BY <1>5, <1>10 DEF N
  <2>. QED BY <1>1, <1>4, <1>9, <1>10, <2>1 DEF N
<1>12. Max(R) <= Max(N) /\ Max(N) <= Max(R) /\ Max(R) \in Nat /\ Max(N) \in Nat
  BY <1>7, <1>9, <1>10, <1>11
<1>. QED BY <1>12 DEF R, N, C

\* Open finds the same with every checkpoint whose files load.
LEMMA SameWithIt ==
    ASSUME LogInv, FileInv, OrderInv, HoldInv, NEW q \in 0 .. MaxSequence \cup {NoFile}, LoadAt(q)
    PROVE  /\ Known(CheckpointAt(q))
           /\ \A k \in Keys :
                 ApplyTo(BaseAt(q, Route(k)), wal[Route(k)], AppliedAt(q, Route(k)))[k]
                   = ValueIn(Recs(Route(k)), k, Absent)
<1>. DEFINE c == CheckpointAt(q)
<1>1. c \in 0 .. MaxSequence /\ c \in Nat
  BY FilesAssumption DEF CheckpointAt
<1>2. Known(c) /\ \A s \in Shard, k \in Keys : BaseAt(q, s)[k] = ValueIn(UpTo(s, c), k, Absent)
  <2>1. CASE q = NoFile
    <3>1. ASSUME NEW s \in Shard, NEW k \in Keys PROVE ValueIn(UpTo(s, 0), k, Absent) = Absent
      <4>1. About(UpTo(s, 0), k) = {}
        BY RecsFacts DEF UpTo, About
      <4>. QED BY <4>1 DEF ValueIn
    <3>. QED BY <2>1, <3>1 DEF CheckpointAt, Known, BaseAt, EmptyMap
  <2>2. CASE q # NoFile
    <3>1. c = q /\ \A s \in Shard : Loads(snapshots[q][s], q, s)
      BY <2>2 DEF CheckpointAt, LoadAt
    <3>2. \A s \in Shard : Known(q) /\ \A k \in Keys :
             snapshots[q][s].records[k] = ValueIn(UpTo(s, q), k, Absent)
      BY <1>1, <3>1 DEF HoldInv, FileHolds, Loads
    <3>3. Known(q)
      BY <3>2, SourceAssumption DEF Shard, Source
    <3>. QED BY <2>2, <3>1, <3>2, <3>3 DEF BaseAt
  <2>. QED BY <2>1, <2>2
<1>3. ASSUME NEW k \in Keys
      PROVE  ApplyTo(BaseAt(q, Route(k)), wal[Route(k)], AppliedAt(q, Route(k)))[k]
               = ValueIn(Recs(Route(k)), k, Absent)
  <2>. DEFINE s == Route(k)
              A == UpTo(s, c)
              B == AppliedAt(q, s)
  <2>1. s \in Shard
    BY RouteInShard
  <2>2. /\ Numbered(Recs(s)) /\ DOMAIN wal[s] \subseteq Nat /\ InOrder(wal[s])
        /\ \A e \in Recs(s) : e \in Entries(wal[s]) /\ e.sequence \in Nat
    BY <2>1, RecsFacts DEF OrderInv
  <2>3. B = {e \in Recs(s) : e.sequence > c}
    BY <1>1, TornIsNoEntry DEF AppliedAt, Recs
  <2>4. A \cup B = Recs(s) /\ \A a \in A : \A b \in B : a.sequence < b.sequence
    BY <1>1, <2>2, <2>3 DEF UpTo
  <2>5. Numbered(B) /\ \A e \in B : e \in Entries(wal[s])
    BY <2>2, <2>3 DEF Numbered
  <2>6. BaseAt(q, s)[k] = ValueIn(A, k, Absent)
    BY <1>2, <2>1
  <2>. HIDE DEF s, A, B
  <2>7. ApplyTo(BaseAt(q, s), wal[s], B)[k] = ValueIn(B, k, BaseAt(q, s)[k])
    BY <2>2, <2>5, AppliedValue
  <2>8. ValueIn(A \cup B, k, Absent) = ValueIn(B, k, ValueIn(A, k, Absent))
    BY <2>2, <2>4, ValueSplit
  <2>. QED BY <2>4, <2>6, <2>7, <2>8 DEF s, B
<1>. QED BY <1>2, <1>3

\* And accepts the files with it.
LEMMA OpenableWithIt ==
    ASSUME LogInv, FileInv, LogsWhole, NEW q \in 0 .. MaxSequence \cup {NoFile}, LoadAt(q)
    PROVE  With(q)!Openable
<1>1. LogsLoad /\ UniqueCommits
  BY InvOpenable DEF Openable
<1>2. \A c \in Entries(fusionWAL) : c \in Entry /\ c.shard \in Shard /\ c \in Entries(wal[c.shard])
  <2>1. Entries(fusionWAL) \subseteq AnyEntry /\ TornEntry \notin Entries(fusionWAL)
    BY SMTT(30) DEF LogInv, LogsTyped, Entries, LogsWhole
  <2>2. \A c \in Entries(fusionWAL) \ {TornEntry} : c \in Entries(wal[c.shard])
    BY DEF LogInv, LogsAgree, CommitsLogged
  <2>. QED BY <2>1, <2>2 DEF AnyEntry, Entry
<1>3. ASSUME NEW s \in Shard, NEW e \in AppliedAt(q, s) PROVE e \in Entries(fusionWAL)
  <2>1. PICK c \in Entries(fusionWAL) : c.sequence = e.sequence
    BY <1>3 DEF AppliedAt, CommittedIn
  <2>2. PICK i \in DOMAIN wal[s] : wal[s][i] = e
    BY <1>3 DEF AppliedAt, CommittedIn, Entries
  <2>3. PICK j \in DOMAIN wal[c.shard] : wal[c.shard][j] = c
    BY <1>2 DEF Entries
  <2>4. c # TornEntry
    BY DEF LogsWhole
  <2>5. c.shard = s /\ j = i
    BY <1>2, <2>1, <2>2, <2>3, <2>4 DEF LogInv, LogsAgree, LoggedOnce
  <2>. QED BY <2>2, <2>3, <2>5
<1>4. MatchAt(q)
  BY <1>2, <1>3 DEF MatchAt
<1>. QED BY <1>1, <1>4, WithOpenable

\* Every number that Open meets is at most the largest it meets now.
LEMMA SeenBounds ==
    ASSUME LogInv, FileInv, NEW q \in 0 .. MaxSequence \cup {NoFile}, Known(CheckpointAt(q))
    PROVE  SeenAt(q) \subseteq 0 .. Max(Seen)
<1>. DEFINE All == {e.sequence : e \in Entries(fusionWAL)}
                     \cup UNION {{e.sequence : e \in Entries(wal[s])} : s \in Shard}
            S == Seen
<1>1. CheckpointAt(q) \in Nat /\ Checkpoint \in 0 .. MaxSequence
  BY FilesAssumption DEF CheckpointAt, Checkpoint, FileInv, FilesTyped
<1>2. All \subseteq 0 .. MaxSequence
  <2>1. \A e \in AnyEntry : e.sequence \in 0 .. MaxSequence
    BY FilesAssumption DEF AnyEntry, Entry, Sequence, TornEntry
  <2>2. \A e \in Entries(fusionWAL) : e \in AnyEntry
    BY DEF LogInv, LogsTyped, Entries
  <2>3. \A s \in Shard : \A e \in Entries(wal[s]) : e \in AnyEntry
    BY DEF LogInv, LogsTyped, Entries
  <2>. QED BY <2>1, <2>2, <2>3
<1>3. CheckpointAt(q) = 0 \/ CheckpointAt(q) \in All
  BY DEF Known, Recs, CommittedIn
<1>4. S = {Checkpoint} \cup All /\ SeenAt(q) = {CheckpointAt(q)} \cup All
  BY DEF Seen, SeenCommitted, SeenAt
<1>. HIDE DEF All, S
<1>5. S \subseteq 0 .. MaxSequence /\ S # {}
  BY <1>1, <1>2, <1>4
<1>6. Max(S) \in S /\ \A n \in S : n <= Max(S)
  <2>1. IsFiniteSet(0 .. MaxSequence)
    BY FS_Interval, FilesAssumption
  <2>2. IsFiniteSet(S)
    BY <1>5, <2>1, FS_Subset
  <2>3. \A n \in S : n \in Nat
    BY <1>5, FilesAssumption
  <2>. QED BY <1>5, <2>2, <2>3, LargestNumber
<1>7. \A n \in S : n \in Nat
  BY <1>5, FilesAssumption
<1>8. Max(S) \in Nat
  BY <1>6, <1>7
<1>9. ASSUME NEW n \in All PROVE n \in 0 .. Max(S)
  <2>1. n \in S
    BY <1>4
  <2>. QED BY <1>6, <1>7, <1>8, <2>1
<1>10. 0 \in 0 .. Max(S)
  BY <1>8
<1>. QED BY <1>3, <1>4, <1>9, <1>10 DEF S

LEMMA CheckpointWorks ==
    BaseInv /\ LogsWhole /\ HoldInv => EveryCheckpointWorks
<1>. SUFFICES ASSUME BaseInv, LogsWhole, HoldInv,
                     NEW q \in 0 .. MaxSequence \cup {NoFile}, With(q)!SnapshotsLoad
              PROVE  /\ With(q)!Openable
                     /\ With(q)!Recovered = Recovered
                     /\ With(q)!Seen \subseteq 0 .. Max(Seen)
                     /\ Max(With(q)!Replayed) = Max(Replayed)
  BY DEF EveryCheckpointWorks
<1>. USE DEF BaseInv, AllInv
<1>1. LoadAt(q)
  BY WithLoad
<1>2. current \in 0 .. MaxSequence \cup {NoFile} /\ LoadAt(current)
  BY FilesAssumption DEF FileInv, FilesTyped, CheckpointUsable, Usable, LoadAt
<1>3. /\ CheckpointAt(current) = Checkpoint
      /\ \A s : BaseAt(current, s) = Base(s)
      /\ \A s : AppliedAt(current, s) = Applied(s)
  BY DEF CheckpointAt, Checkpoint, BaseAt, Base, AppliedAt, Applied
<1>4. ReplayedAt(current) = Replayed
  BY <1>3 DEF ReplayedAt, Replayed
<1>5. Known(CheckpointAt(q)) /\ Known(CheckpointAt(current))
  BY <1>1, <1>2, SameWithIt
<1>6. With(q)!Recovered = Recovered
  <2>1. \A k \in Keys : With(q)!Recovered[k] = ValueIn(Recs(Route(k)), k, Absent)
    BY <1>1, SameWithIt, WithRecovered
  <2>2. \A k \in Keys : Recovered[k] = ValueIn(Recs(Route(k)), k, Absent)
    <3>1. \A k \in Keys : Recovered[k] = ApplyTo(Base(Route(k)), wal[Route(k)], Applied(Route(k)))[k]
      BY DEF Recovered, Replay
    <3>2. \A k \in Keys :
             ApplyTo(BaseAt(current, Route(k)), wal[Route(k)], AppliedAt(current, Route(k)))[k]
               = ValueIn(Recs(Route(k)), k, Absent)
      BY <1>2, SameWithIt
    <3>. QED BY <1>3, <3>1, <3>2
  <2>3. With(q)!Recovered = [k \in Keys |-> With(q)!Recovered[k]] /\ Recovered = [k \in Keys |-> Recovered[k]]
    BY DEF With!Recovered, Recovered
  <2>. QED BY <2>1, <2>2, <2>3
<1>7. With(q)!Openable
  BY <1>1, OpenableWithIt
<1>8. With(q)!Seen \subseteq 0 .. Max(Seen)
  BY <1>5, SeenBounds, WithReplayed
<1>9. Max(With(q)!Replayed) = Max(Replayed)
  BY <1>2, <1>4, <1>5, ReplayedMax, WithReplayed
<1>. QED BY <1>6, <1>7, <1>8, <1>9

\* Without torn records and errors of Sync, Open finds the same contents and
\* numbers with every checkpoint whose snapshots are whole, and with none: a
\* loss of power that undoes renames, which are never synced, loses nothing.
WholeAndSynced == Faults \cap {"torn", "short", "sync"} = {}
THEOREM OldCheckpointsWork == WholeAndSynced => (Spec => []EveryCheckpointWorks)
<1>. SUFFICES ASSUME WholeAndSynced PROVE Spec => []EveryCheckpointWorks
  OBVIOUS
<1>. DEFINE Inv == BaseInv /\ DurableInv
<1>1. Spec => []Inv
  BY DurableAlways DEF WholeAndSynced
<1>2. Init => LogsWhole /\ HoldInv
  <2>1. Init => LogsWhole
    BY DEF Init, LogsWhole, Entries
  <2>2. Init => HoldInv
    BY DEF Init, HoldInv, FileHolds, NoSnapshot, SnapshotFile
  <2>. QED BY <2>1, <2>2
<1>3. Inv /\ Inv' /\ LogsWhole /\ HoldInv /\ [Next]_vars => LogsWhole' /\ HoldInv'
  <2>1. Inv /\ LogsWhole /\ [Next]_vars => LogsWhole'
    BY LogsStayWhole DEF WholeAndSynced, BaseInv, AllInv
  <2>2. Inv /\ Inv' /\ HoldInv /\ [Next]_vars => HoldInv'
    BY HoldInvNext DEF WholeAndSynced, BaseInv, AllInv
  <2>. QED BY <2>1, <2>2
<1>4. Inv /\ LogsWhole /\ HoldInv => EveryCheckpointWorks
  BY CheckpointWorks
<1>. HIDE DEF Inv
<1>. QED BY <1>1, <1>2, <1>3, <1>4, PTL DEF Spec

-----------------------------------------------------------------------------
(* Databases without logs                                                  *)

\* What a process finds on disk, whatever it does with it.
DiskInv ==
    /\ LogsTyped /\ LogsAgree /\ LogsWhole
    /\ \A s \in Shard : InOrder(wal[s])
    /\ IsTable(snapshots, 0 .. MaxSequence, Shard)
    /\ CheckpointUsable
    /\ FileTypeOK

\* A database of New writes to no file; of its state only the types matter to
\* those that come after it.
NewInv ==
    /\ DiskInv
    /\ HistoryTypeOK
    /\ next \in 1 .. MaxSequence + 1
    /\ IF pc = "idle" THEN pending = NoEntry ELSE pc \in {"source", "apply"} /\ pending \in Entry

OfNew == logs = "none" /\ status = "up"

\* Nothing is committed that was not applied, but what is being applied now.
AllApplied ==
    \A s \in Shard : \A e \in Later(s, committed) :
        pc = "apply" /\ logs = "open" /\ e = pending

\* What a restart finds is what the client was told.
AllFound == \A k \in Keys : Recovered[k] = acked[k]

\* With logs, up to the commit of the running method; without logs as long as
\* nothing was written after the snapshot.
FoundByLogs ==
    status = "up" =>
        /\ hasSnapshot => checkpoint <= committed
        /\ AllApplied
        /\ logs = "open" /\ pc # "apply" => AllFound
        /\ logs # "open" /\ hasSnapshot /\ checkpoint = committed => AllFound
        /\ logs = "open" /\ pc = "apply" =>
              \A k \in Keys : Recovered[k] = IF k = pending.key THEN pending.value ELSE acked[k]

\* A process with logs that was killed may have left its running write.
FoundAfter ==
    status # "up" /\ logs = "open" => \A k \in Keys : Recovered[k] \in {acked[k]} \cup maybe[k]

DirectoryBase == BaseInv /\ LogsWhole /\ WrittenInv
DirectoryInv ==
    /\ DirectoryBase
    /\ pc = "fusion" => logs = "open"
    /\ FoundByLogs /\ FoundAfter

UnloggedInv == IF OfNew THEN NewInv ELSE DirectoryInv

LEMMA DirectoryDisk == DirectoryInv => DiskInv
BY DEF DirectoryInv, DirectoryBase, BaseInv, AllInv, LogInv, OrderInv, FileInv, FilesTyped,
       RestTyped, DiskInv

LEMMA BaseInvNext == BaseInv /\ [Next]_vars => BaseInv'
BY LogInvNext, FileInvNext, OrderInvNext, RestTypedNext, MemoryInvNext, PendingInvNext,
   BackupInvNext, BackupRecovers DEF BaseInv, AllInv

\* Whatever a process did in memory, when it has ended only the files count.
LEMMA EndsOnDisk ==
    ASSUME DiskInv, UNCHANGED disk, End, HistoryTypeOK'
    PROVE  DirectoryBase'
<1>. USE SourceAssumption, FilesAssumption, DatabaseAssumption
<1>1. /\ status' = "down" /\ pc' = "idle" /\ pending' = NoEntry /\ cursor' = 0 /\ failed' = {}
      /\ next' = 1 /\ committed' = 0 /\ checkpoint' = 0 /\ hasSnapshot' = FALSE
      /\ data' = [s \in Shard |-> EmptyMap]
      /\ UNCHANGED <<wal, fusionWAL, snapshots, current, temporary>>
  BY DEF End, Finish, disk
<1>2. 0 \in Shard /\ 0 \in 0 .. MaxSequence /\ 1 \in 1 .. MaxSequence + 1 /\ EmptyMap \in Map
  BY DEF Shard, Source, EmptyMap, Map, Contents
<1>3. LogInv'
  <2>1. LogsTyped' /\ LogsAgree'
    BY <1>1 DEF DiskInv, LogsTyped, LogsAgree, LoggedOnce, CommitsLogged
  <2>2. MethodTyped' /\ Fresh'
    BY <1>1, <1>2 DEF MethodTyped, Fresh, Writing
  <2>. QED BY <2>1, <2>2 DEF LogInv
<1>4. FileInv'
  <2>1. FilesTyped' /\ MapsRouted'
    BY <1>1 DEF DiskInv, FileTypeOK, FilesTyped, MapsRouted, EmptyMap, IsTable
  <2>2. CheckpointUsable'
    BY <1>1 DEF DiskInv, CheckpointUsable, Usable
  <2>. QED BY <1>1, <2>1, <2>2 DEF FileInv, CheckpointKnown, SnapshotUsable, Snapshotting, Pointing
<1>5. OrderInv' /\ MemoryInv' /\ WrittenInv' /\ PendingInv' /\ BackupInv'
  BY <1>1 DEF DiskInv, OrderInv, MemoryInv, WrittenInv, PendingInv, BackupInv, Writing,
              Snapshotting, Pointing
<1>6. RestTyped'
  BY <1>1, <1>2 DEF DiskInv, RestTyped, FileTypeOK
<1>7. LogsWhole'
  BY <1>1 DEF DiskInv, LogsWhole
<1>. QED BY <1>3, <1>4, <1>5, <1>6, <1>7 DEF DirectoryBase, BaseInv, AllInv

\* The steps of a database of New.
LEMMA NewSteps ==
    ASSUME NewInv, OfNew, SkipLogs \/ AsWithLogs
    PROVE  UnloggedInv'
<1>. USE FilesAssumption, DatabaseAssumption
<1>1. logs' = "none" /\ status = "up" /\ logs = "none"
  BY DEF OfNew, SkipLogs, AsWithLogs
<1>2. ASSUME UNCHANGED <<disk, status>>, HistoryTypeOK', next' \in 1 .. MaxSequence + 1,
             IF pc' = "idle" THEN pending' = NoEntry
             ELSE pc' \in {"source", "apply"} /\ pending' \in Entry
      PROVE  UnloggedInv'
  <2>1. DiskInv'
    BY <1>2 DEF NewInv, DiskInv, LogsTyped, LogsAgree, LoggedOnce, CommitsLogged, LogsWhole,
                CheckpointUsable, Usable, FileTypeOK, disk
  <2>. QED BY <1>1, <1>2, <2>1 DEF UnloggedInv, OfNew, NewInv
<1>3. ASSUME UNCHANGED disk, End, HistoryTypeOK' PROVE UnloggedInv'
  <2>1. DirectoryBase'
    BY <1>3, EndsOnDisk DEF NewInv
  <2>2. status' = "down" /\ pc' = "idle"
    BY <1>3 DEF End, Finish
  <2>. QED BY <1>1, <2>1, <2>2 DEF UnloggedInv, OfNew, DirectoryInv, FoundByLogs, FoundAfter
<1>4. acked \in Map /\ maybe \in [Keys -> SUBSET Contents]
  BY DEF NewInv, HistoryTypeOK
<1>5. ASSUME NEW k \in Keys, NEW v \in Contents, Acknowledge(k, v), UNCHANGED bounds
      PROVE  HistoryTypeOK'
  BY <1>4, <1>5 DEF NewInv, HistoryTypeOK, Acknowledge, Map, bounds
<1>6. ASSUME UNCHANGED <<history, bounds>> PROVE HistoryTypeOK'
  BY <1>6 DEF NewInv, HistoryTypeOK, history, bounds
<1>7. ASSUME NEW op \in {"put", "delete"}, NEW k \in Keys, NEW v \in Contents, Begin(op, k, v)
      PROVE  UnloggedInv'
  <2>1. /\ UNCHANGED <<disk, status, history, bounds>> /\ next' = next + 1 /\ next <= MaxSequence
        /\ pc' = "source"
        /\ pending' = [op |-> op, sequence |-> next, shard |-> Route(k), key |-> k, value |-> v]
    BY <1>7 DEF Begin
  <2>2. next \in 1 .. MaxSequence + 1
    BY DEF NewInv
  <2>3. pending' \in Entry
    BY <2>1, <2>2, RouteInShard DEF Entry, Sequence
  <2>. QED BY <1>2, <1>6, <2>1, <2>2, <2>3
<1>8. CASE SkipLogs
  <2>1. /\ UNCHANGED <<disk, status, history, bounds, next, pending>> /\ pc = "source" /\ pc' = "apply"
    BY <1>8 DEF SkipLogs
  <2>. QED BY <1>2, <1>6, <2>1 DEF NewInv
<1>9. CASE Apply
  <2>1. /\ UNCHANGED <<disk, status, next, bounds>> /\ pc = "apply"
        /\ pc' = "idle" /\ pending' = NoEntry /\ Acknowledge(pending.key, pending.value)
    BY <1>9 DEF Apply, Finish
  <2>2. pending.key \in Keys /\ pending.value \in Contents
    BY <2>1 DEF NewInv, Entry
  <2>. QED BY <1>2, <1>5, <2>1, <2>2 DEF NewInv
<1>10. ASSUME NEW k \in Keys, DeleteAbsent(k) PROVE UnloggedInv'
  <2>1. UNCHANGED <<disk, status, next, bounds, pc, pending>> /\ Acknowledge(k, Absent)
    BY <1>10 DEF DeleteAbsent, running
  <2>2. HistoryTypeOK'
    BY <1>5, <2>1 DEF Contents
  <2>. QED BY <1>2, <2>1, <2>2 DEF NewInv
<1>11. CASE \E s \in Shard : CrashShard(s) \/ RecoverShard(s)
  <2>1. UNCHANGED <<disk, status, next, history, bounds, pc, pending>>
    BY <1>11 DEF CrashShard, RecoverShard, running
  <2>. QED BY <1>2, <1>6, <2>1 DEF NewInv
<1>12. ASSUME End, UNCHANGED faults, acked' \in Map, maybe' \in [Keys -> SUBSET Contents]
       PROVE  HistoryTypeOK'
  BY <1>12 DEF End, NewInv, HistoryTypeOK
<1>13. CASE Close
  <2>1. End /\ UNCHANGED <<disk, acked, maybe, faults>>
    BY <1>13 DEF Close, history
  <2>. QED BY <1>3, <1>4, <1>12, <2>1
<1>14. CASE Crash
  <2>1. End /\ UNCHANGED <<disk, faults>> /\ LeaveOpen /\ pc # "idle"
    BY <1>14 DEF Crash
  <2>2. pending.key \in Keys /\ pending.value \in Contents
    BY <2>1 DEF NewInv, Entry
  <2>3. acked' \in Map /\ maybe' \in [Keys -> SUBSET Contents]
    BY <1>4, <2>1, <2>2 DEF LeaveOpen
  <2>. QED BY <1>3, <1>12, <2>1, <2>3
<1>15. \/ SkipLogs \/ Apply \/ Close \/ Crash
       \/ \E k \in Keys, v \in Values : BeginPut(k, v)
       \/ \E k \in Keys : BeginDelete(k)
       \/ \E k \in Keys : DeleteAbsent(k)
       \/ \E s \in Shard : CrashShard(s)
       \/ \E s \in Shard : RecoverShard(s)
  <2>1. pc \in {"idle", "source", "apply"}
    BY DEF NewInv
  <2>. QED BY <1>1, <2>1 DEF AsWithLogs, HasDirectory, AppendFusion, RemoveSnapshot, WriteSnapshot,
                             WriteTemporary, Rename, CrashInSnapshot, WritesPartly, OpenRefused
<1>. QED BY <1>7, <1>8, <1>9, <1>10, <1>11, <1>13, <1>14, <1>15
         DEF BeginPut, BeginDelete, Contents

\* What a restart finds stays what it was.
SameFound ==
    /\ \A s \in Shard : Recs(s)' = Recs(s)
    /\ \A k \in Keys : Recovered'[k] = Recovered[k]

\* Every step of a database with a directory but three leaves alone what a
\* restart finds: the append that commits, the end of Snapshot, and Open, which
\* tells the client of it.
LEMMA SameFiles ==
    ASSUME DirectoryInv, BaseInv',
           (UNCHANGED <<wal, fusionWAL>>) \/ (\E e : ShardAppends(e)),
           UNCHANGED current,
           current # NoFile => \A s \in Shard : snapshots'[current][s] = snapshots[current][s]
    PROVE  SameFound
<1>1. \A s \in Shard : Recs(s)' = Recs(s)
  BY SameRecs DEF DirectoryInv, DirectoryBase, BaseInv, AllInv
<1>. QED BY <1>1, RecoveredStays DEF SameFound, DirectoryInv, DirectoryBase, BaseInv, AllInv

\* A step that neither the client nor a restart sees.
LEMMA UnseenKeeps ==
    ASSUME DirectoryInv, SameFound, UNCHANGED <<status, committed, checkpoint, hasSnapshot, logs>>,
           \A k \in Keys : acked'[k] = acked[k], status = "up" \/ UNCHANGED maybe,
           pc = "apply" /\ logs = "open" <=> pc' = "apply" /\ logs = "open",
           pc' = "apply" /\ logs = "open" => pending' = pending
    PROVE  FoundByLogs' /\ FoundAfter'
<1>1. AllApplied => AllApplied'
  BY DEF SameFound, AllApplied, Later
<1>2. AllFound => AllFound'
  BY DEF SameFound, AllFound
<1>3. FoundByLogs'
  BY <1>1, <1>2 DEF DirectoryInv, FoundByLogs, SameFound
<1>4. FoundAfter'
  BY DEF DirectoryInv, FoundAfter, SameFound
<1>. QED BY <1>3, <1>4

\* The end of a process.
LEMMA EndLeaves ==
    ASSUME DirectoryInv, SameFound, UNCHANGED logs, status = "up", status' = "down", acked' = acked,
           \A k \in Keys : maybe[k] \subseteq maybe'[k],
           pc = "apply" => pending.value \in maybe'[pending.key]
    PROVE  FoundByLogs' /\ FoundAfter'
<1>1. FoundByLogs'
  BY DEF FoundByLogs
<1>2. ASSUME logs = "open", NEW k \in Keys PROVE Recovered'[k] \in {acked'[k]} \cup maybe'[k]
  <2>1. CASE pc = "apply"
    BY <1>2, <2>1 DEF DirectoryInv, FoundByLogs, SameFound
  <2>2. CASE pc # "apply"
    BY <1>2, <2>2 DEF DirectoryInv, FoundByLogs, AllFound, SameFound
  <2>. QED BY <2>1, <2>2
<1>. QED BY <1>1, <1>2 DEF FoundAfter

\* What DirectoryBase says of the running method.
LEMMA DirectoryFacts ==
    ASSUME DirectoryInv
    PROVE  /\ LogInv /\ FileInv /\ OrderInv /\ MemoryInv /\ RestTyped
           /\ pc # "idle" => status = "up"
           /\ Writing => /\ pending \in Entry /\ pending.key \in Keys /\ pending.shard \in Shard
                         /\ pending.shard = Route(pending.key) /\ pending # TornEntry
                         /\ next = pending.sequence + 1
                         /\ pending.sequence \in Nat
                         /\ committed < pending.sequence
           /\ committed \in Nat /\ checkpoint \in Nat
<1>1. LogInv /\ FileInv /\ OrderInv /\ MemoryInv /\ RestTyped
  BY DEF DirectoryInv, DirectoryBase, BaseInv, AllInv
<1>2. committed \in Nat /\ checkpoint \in Nat
  BY <1>1, NumbersTyped DEF RestTyped
<1>3. Writing => pending \in Entry /\ pending.shard = Route(pending.key) /\ status = "up"
  BY <1>1 DEF LogInv, MethodTyped, Writing
<1>4. Writing => pending.key \in Keys /\ pending.shard \in Shard /\ pending # TornEntry
  BY <1>3, RouteInShard, TornIsNoEntry DEF Entry
<1>5. Writing => /\ next = pending.sequence + 1 /\ pending.sequence \in Nat
                 /\ committed < pending.sequence
  BY <1>1, <1>3, NumbersTyped DEF OrderInv
<1>6. pc # "idle" => status = "up"
  BY <1>1 DEF LogInv, MethodTyped
<1>. QED BY <1>1, <1>2, <1>3, <1>4, <1>5, <1>6

\* The append to the backup's log commits the running write.
LEMMA AppendFusionFinds ==
    ASSUME DirectoryInv, BaseInv', AppendFusion, UNCHANGED logs
    PROVE  FoundByLogs' /\ FoundAfter'
<1>1. /\ pc = "fusion" /\ pc' = "apply" /\ BackupAppends(pending) /\ logs = "open" /\ status = "up"
      /\ UNCHANGED <<snapshots, current, status, committed, acked, maybe, pending, checkpoint, hasSnapshot>>
  BY DirectoryFacts DEF AppendFusion, BackupAppends, memory, marks, history, DirectoryInv
<1>2. /\ \A k \in Keys : Recovered'[k] = IF k = pending.key THEN pending.value ELSE Recovered[k]
      /\ \A s \in Shard : Recs(s)' = IF s = pending.shard THEN Recs(s) \cup {pending} ELSE Recs(s)
  BY <1>1, Commits DEF DirectoryInv, DirectoryBase, BaseInv, AllInv
<1>3. AllApplied /\ AllFound
  BY <1>1 DEF DirectoryInv, FoundByLogs
<1>4. AllApplied'
  BY <1>1, <1>2, <1>3 DEF AllApplied, Later
<1>5. \A k \in Keys : Recovered'[k] = IF k = pending'.key THEN pending'.value ELSE acked'[k]
  BY <1>1, <1>2, <1>3 DEF AllFound
<1>6. hasSnapshot' => checkpoint' <= committed'
  BY <1>1 DEF DirectoryInv, FoundByLogs
<1>. QED BY <1>1, <1>4, <1>5, <1>6 DEF FoundByLogs, FoundAfter

\* Memory takes the write over; without logs it is ahead of the snapshot now.
LEMMA ApplyFinds ==
    ASSUME DirectoryInv, BaseInv', Apply, UNCHANGED logs
    PROVE  FoundByLogs' /\ FoundAfter'
<1>1. /\ pc = "apply" /\ Writing /\ pc' = "idle" /\ status = "up" /\ committed' = pending.sequence
      /\ UNCHANGED <<wal, fusionWAL, snapshots, current, status, checkpoint, hasSnapshot>>
      /\ acked' = [acked EXCEPT ![pending.key] = pending.value]
  BY DirectoryFacts DEF Apply, Finish, Acknowledge, Writing, disk, marks
<1>2. SameFound
  BY <1>1, SameFiles
<1>3. \A k \in Keys : acked'[k] = IF k = pending.key THEN pending.value ELSE acked[k]
  BY <1>1, DirectoryFacts DEF RestTyped, HistoryTypeOK, Map
<1>4. /\ next = pending.sequence + 1 /\ pending.sequence \in Nat /\ committed < pending.sequence
      /\ committed \in Nat /\ checkpoint \in Nat
  BY <1>1, DirectoryFacts
<1>5. \A s \in Shard : \A e \in Recs(s) : e.sequence \in Nat /\ e.sequence < next
  BY <1>1, DirectoryFacts, RecsFacts
<1>6. AllApplied'
  <2>1. \A s \in Shard : Later(s, committed)' = {}
    BY <1>1, <1>2, <1>4, <1>5 DEF SameFound, Later
  <2>. QED BY <2>1 DEF AllApplied
<1>7. hasSnapshot => checkpoint < committed'
  BY <1>1, <1>4 DEF DirectoryInv, FoundByLogs
<1>8. logs = "open" => AllFound'
  BY <1>1, <1>2, <1>3 DEF DirectoryInv, FoundByLogs, AllFound, SameFound
<1>9. (hasSnapshot' => checkpoint' <= committed') /\ ~(hasSnapshot' /\ checkpoint' = committed')
  BY <1>1, <1>4, <1>7
<1>. QED BY <1>1, <1>6, <1>8, <1>9 DEF FoundByLogs, FoundAfter

\* The end of Snapshot puts all of memory on disk.
LEMMA RenameFinds ==
    ASSUME DirectoryInv, BaseInv', Rename, UNCHANGED logs
    PROVE  FoundByLogs' /\ FoundAfter' /\ AllFound'
<1>1. /\ pc \in {"rename", "again"} /\ pc' = "idle" /\ status = "up" /\ ~Writing /\ Pointing
      /\ UNCHANGED <<wal, fusionWAL, snapshots, status, committed, acked>>
      /\ current' = temporary /\ checkpoint' = committed /\ hasSnapshot' = TRUE
  BY DirectoryFacts DEF Rename, Finish, Writing, Pointing, memory, history
<1>2. temporary = committed /\ failed = {} /\ committed \in Nat
  BY <1>1, DirectoryFacts DEF FileInv, SnapshotUsable, MemoryInv
<1>3. \A s \in Shard : Recs(s)' = Recs(s)
  BY <1>1, DirectoryFacts, SameRecs
<1>4. \A s \in Shard : Later(s, committed) = {} /\ Later(s, committed)' = {}
  <2>1. \A s \in Shard : Later(s, committed) = {}
    BY <1>1 DEF DirectoryInv, FoundByLogs, AllApplied
  <2>. QED BY <1>1, <1>3, <2>1 DEF Later
<1>5. ASSUME NEW k \in Keys PROVE Recovered'[k] = acked'[k]
  <2>1. Route(k) \in Shard
    BY RouteInShard
  <2>2. RecoveredByNumber'
    BY RecoveredIs, PTL DEF BaseInv, AllInv
  <2>3. current' # NoFile /\ Checkpoint' = committed
    BY <1>1, <1>2, FilesAssumption DEF Checkpoint
  <2>4. snapshots[committed][Route(k)].records = data[Route(k)] /\ data[Route(k)][k] = acked[k]
    BY <1>1, <1>2, <2>1, DirectoryFacts DEF DirectoryInv, DirectoryBase, WrittenInv, MemoryInv
  <2>5. Base(Route(k))'[k] = acked[k]
    BY <1>1, <1>2, <2>1, <2>3, <2>4 DEF Base
  <2>6. Later(Route(k), Checkpoint)' = {}
    BY <1>1, <1>4, <2>1, <2>3 DEF Later
  <2>7. Recovered'[k] = ValueIn(Later(Route(k), Checkpoint)', k, Base(Route(k))'[k])
    BY <2>2 DEF RecoveredByNumber
  <2>. QED BY <1>1, <2>5, <2>6, <2>7 DEF ValueIn, About
<1>6. AllFound'
  BY <1>5 DEF AllFound
<1>7. AllApplied'
  BY <1>4 DEF AllApplied
<1>. QED BY <1>1, <1>2, <1>6, <1>7 DEF FoundByLogs, FoundAfter

\* The client reads what a restart finds.
LEMMA OpenFinds ==
    ASSUME DirectoryInv, BaseInv', Open, logs' = "open"
    PROVE  FoundByLogs' /\ FoundAfter'
<1>1. /\ UNCHANGED <<wal, fusionWAL, snapshots, current, pc>> /\ acked' = Recovered
      /\ status = "down" /\ status' = "up" /\ pc = "idle"
      /\ committed' \in Nat /\ Largest(committed', Replayed)
      /\ checkpoint' = Checkpoint
  BY DirectoryFacts DEF Open, disk, running
<1>2. SameFound
  BY <1>1, SameFiles
<1>3. AllFound'
  BY <1>1, <1>2 DEF AllFound, SameFound
<1>4. Checkpoint \in Nat
  BY DirectoryFacts, FilesAssumption DEF Checkpoint, FileInv, FilesTyped
<1>5. /\ Checkpoint <= committed'
      /\ \A s \in Shard : \A e \in Applied(s) : e.sequence <= committed'
  <2>1. Checkpoint \in Replayed /\ \A s \in Shard : \A e \in Applied(s) : e.sequence \in Replayed
    BY DEF Replayed
  <2>. QED BY <1>1, <2>1 DEF Largest
<1>6. AllApplied'
  <2>1. ASSUME NEW s \in Shard, NEW e \in Recs(s) PROVE e.sequence \in Nat /\ e.sequence <= committed'
    <3>1. e.sequence \in Nat /\ (e.sequence > Checkpoint => e \in Applied(s))
      BY DirectoryFacts, RecsFacts DEF Recs, Applied
    <3>. QED BY <1>1, <1>4, <1>5, <3>1
  <2>2. \A s \in Shard : Later(s, committed)' = {}
    BY <1>1, <1>2, <2>1 DEF SameFound, Later
  <2>. QED BY <2>2 DEF AllApplied
<1>. QED BY <1>1, <1>3, <1>5, <1>6 DEF FoundByLogs, FoundAfter

\* The steps that are those of a database with logs keep what is true of those.
LEMMA BaseKept ==
    ASSUME DirectoryInv, \/ SkipLogs
                         \/ AsWithLogs
                         \/ Open
                         \/ UNCHANGED vars
    PROVE  DirectoryBase'
<1>. USE DEF DirectoryInv, DirectoryBase
<1>1. CASE [Next]_vars
  <2>1. BaseInv' /\ WrittenInv'
    BY <1>1, BaseInvNext, WrittenInvNext DEF BaseInv, AllInv
  <2>2. CASE UNCHANGED <<wal, fusionWAL>>
    BY <2>1, <2>2 DEF LogsWhole
  <2>3. CASE AppendSource
    <3>1. /\ pc = "source" /\ Writing /\ UNCHANGED fusionWAL
          /\ wal' = [wal EXCEPT ![pending.shard] = Append(@, pending)]
      BY <2>3 DEF AppendSource, Writing
    <3>2. pending.shard \in Shard /\ pending # TornEntry /\ LogInv
      BY <3>1, DirectoryFacts
    <3>. QED BY <2>1, <3>1, <3>2, SourceGrows DEF LogsWhole
  <2>4. CASE AppendFusion
    <3>1. /\ pc = "fusion" /\ Writing /\ UNCHANGED wal /\ fusionWAL' = Append(fusionWAL, pending)
      BY <2>4 DEF AppendFusion, Writing
    <3>2. pending # TornEntry /\ LogInv
      BY <3>1, DirectoryFacts
    <3>. QED BY <2>1, <3>1, <3>2, FusionGrows DEF LogsWhole
  <2>5. UNCHANGED <<wal, fusionWAL>> \/ AppendSource \/ AppendFusion
    <3>1. AsWithLogs \/ Open \/ UNCHANGED vars \/ SkipLogs
      OBVIOUS
    <3>. QED BY <3>1 DEF AsWithLogs, vars, disk, Begin, BeginPut, BeginDelete, DeleteAbsent, Apply,
           BeginSnapshot, RemoveSnapshot, WriteSnapshot, WriteTemporary, Rename, CrashShard,
           RecoverShard, Close, Crash, CrashInSnapshot, WritesPartly, Open, OpenRefused, SkipLogs
  <2>. QED BY <2>2, <2>3, <2>4, <2>5
<1>2. CASE SkipLogs
  <2>1. /\ pc = "source" /\ pc' = "apply" /\ Writing /\ Writing'
        /\ UNCHANGED <<wal, fusionWAL, snapshots, current, temporary, status, memory, next,
                       checkpoint, hasSnapshot, pending, cursor, acked, maybe, restarts, faults>>
    BY <1>2 DEF SkipLogs, Writing, disk, marks, history, bounds
  <2>2. UNCHANGED <<data, failed, fusion, committed>>
    BY <2>1 DEF memory
  <2>3. LogInv'
    <3>1. LogsTyped' /\ LogsAgree'
      BY <2>1, DirectoryFacts, LogsStay
    <3>2. MethodTyped' /\ Fresh'
      BY <2>1, <2>2, DirectoryFacts DEF LogInv, MethodTyped, Fresh, Writing
    <3>. QED BY <3>1, <3>2 DEF LogInv
  <2>4. FileInv'
    BY <2>1, <2>2, DirectoryFacts, FilesStay DEF Snapshotting, Pointing, marks
  <2>5. OrderInv'
    BY <2>1, <2>2, DirectoryFacts DEF OrderInv
  <2>6. MemoryInv'
    BY <2>1, <2>2, DirectoryFacts DEF MemoryInv, Snapshotting, Pointing
  <2>7. RestTyped'
    BY <2>1, <2>2, DirectoryFacts DEF RestTyped, FileTypeOK, HistoryTypeOK
  <2>8. PendingInv' /\ LogsWhole' /\ WrittenInv'
    BY <2>1, <2>2 DEF BaseInv, PendingInv, LogsWhole, WrittenInv, Snapshotting, Pointing
  <2>9. BackupInv'
    <3>1. AckedShares' = AckedShares
      BY <2>1 DEF AckedShares, AckedRecords, RecordsOf
    <3>. QED BY <2>1, <2>2, <3>1 DEF BaseInv, BackupInv, TableInv, TableDense
  <2>. QED BY <2>3, <2>4, <2>5, <2>6, <2>7, <2>8, <2>9 DEF BaseInv, AllInv
<1>3. AsWithLogs \/ Open => Next
  BY DEF AsWithLogs, Next, Step, Request, Failure
<1>. QED BY <1>1, <1>2, <1>3

\* The steps of a database with a directory.  Without logs only the end of
\* Snapshot changes what a restart finds.
LEMMA DirectorySteps ==
    ASSUME DirectoryInv, ~OfNew, SkipLogs \/ AsWithLogs
    PROVE  DirectoryInv' /\ ~OfNew' /\ (logs # "open" => SameFound \/ (Rename /\ AllFound'))
<1>1. DirectoryBase' /\ BaseInv' /\ UNCHANGED logs
  BY BaseKept DEF DirectoryBase, SkipLogs, AsWithLogs
<1>. DEFINE Found == FoundByLogs' /\ FoundAfter'
            Alters == logs # "open" => SameFound \/ (Rename /\ AllFound')
            Method == pc' = "fusion" => logs = "open"
<1>2. ASSUME Found, Method, status' = "up" => status = "up"
      PROVE  DirectoryInv' /\ ~OfNew'
  BY <1>1, <1>2 DEF DirectoryInv, OfNew
<1>3. pc = "fusion" => logs = "open"
  BY DEF DirectoryInv
<1>. HIDE DEF Found
<1>4. ASSUME SameFound, UNCHANGED <<status, committed, marks, acked, maybe>>, Method,
             (pc = "apply" /\ logs = "open") = (pc' = "apply" /\ logs = "open"),
             pc' = "apply" /\ logs = "open" => pending' = pending
      PROVE  DirectoryInv' /\ ~OfNew' /\ Alters
  <2>1. Found
    BY <1>1, <1>4, UnseenKeeps DEF marks, Found
  <2>. QED BY <1>2, <1>4, <2>1
<1>5. ASSUME NEW op, NEW k, NEW v, Begin(op, k, v) PROVE DirectoryInv' /\ ~OfNew' /\ Alters
  <2>1. /\ UNCHANGED <<wal, fusionWAL, snapshots, current, status, committed, marks, acked, maybe>>
        /\ pc = "idle" /\ pc' = "source"
    BY <1>5 DEF Begin, Idle, disk, memory, history
  <2>2. SameFound
    BY <1>1, <2>1, SameFiles
  <2>. QED BY <1>4, <2>1, <2>2
<1>6. CASE SkipLogs
  <2>1. /\ UNCHANGED <<wal, fusionWAL, snapshots, current, status, committed, marks, acked, maybe>>
        /\ logs # "open" /\ pc' = "apply"
    BY <1>6 DEF SkipLogs, disk, memory, history
  <2>2. SameFound
    BY <1>1, <2>1, SameFiles
  <2>. QED BY <1>4, <2>1, <2>2
<1>7. CASE logs = "open" /\ AppendSource
  <2>1. /\ ShardAppends(pending) /\ pc' = "fusion" /\ pc = "source"
        /\ UNCHANGED <<snapshots, current, status, committed, marks, acked, maybe>>
    BY <1>7 DEF AppendSource, ShardAppends, memory, history
  <2>2. SameFound
    BY <1>1, <2>1, SameFiles
  <2>. QED BY <1>4, <1>7, <2>1, <2>2
<1>8. CASE AppendFusion
  <2>1. pc = "fusion" /\ pc' = "apply" /\ UNCHANGED status
    BY <1>8 DEF AppendFusion
  <2>. QED BY <1>1, <1>2, <1>3, <1>8, <2>1, AppendFusionFinds DEF Found
<1>9. CASE Apply
  <2>1. pc' = "idle" /\ UNCHANGED <<wal, fusionWAL, snapshots, current, status>>
    BY <1>9 DEF Apply, Finish, disk
  <2>2. SameFound
    BY <1>1, <2>1, SameFiles
  <2>. QED BY <1>1, <1>2, <1>9, <2>1, <2>2, ApplyFinds DEF Found
<1>10. CASE RemoveSnapshot \/ WriteSnapshot
  <2>1. /\ UNCHANGED <<wal, fusionWAL, current, status, committed, marks, acked, maybe>>
        /\ Snapshotting /\ pc' \notin {"apply", "fusion"} /\ pc # "apply"
        /\ \E file : snapshots' = [snapshots EXCEPT ![committed][cursor] = file]
    BY <1>10 DEF RemoveSnapshot, WriteSnapshot, Snapshotting, memory, history
  <2>2. current # NoFile =>
          \A s \in Shard : snapshots'[current][s] = snapshots[current][s]
    <3>1. current # NoFile => current # committed
      BY <2>1, DirectoryFacts DEF FileInv, SnapshotUsable
    <3>. QED BY <2>1, <3>1, DirectoryFacts DEF FileInv, FilesTyped, IsTable
  <2>3. SameFound
    BY <1>1, <2>1, <2>2, SameFiles
  <2>. QED BY <1>4, <2>1, <2>3
<1>11. CASE WriteTemporary \/ BeginSnapshot
  <2>1. /\ UNCHANGED <<wal, fusionWAL, snapshots, current, status, committed, marks, acked, maybe>>
        /\ pc' \notin {"apply", "fusion"} /\ pc # "apply"
    BY <1>11 DEF WriteTemporary, BeginSnapshot, Idle, disk, memory, history
  <2>2. SameFound
    BY <1>1, <2>1, SameFiles
  <2>. QED BY <1>4, <2>1, <2>2
<1>12. CASE Rename
  <2>1. pc' = "idle" /\ UNCHANGED status
    BY <1>12 DEF Rename, Finish
  <2>. QED BY <1>1, <1>2, <1>12, <2>1, RenameFinds DEF Found
<1>13. ASSUME NEW k0 \in Keys, DeleteAbsent(k0) PROVE DirectoryInv' /\ ~OfNew' /\ Alters
  <2>1. /\ UNCHANGED <<wal, fusionWAL, snapshots, current, status, committed, marks, pc, pending>>
        /\ acked' = [acked EXCEPT ![k0] = Absent]
        /\ pc = "idle" /\ status = "up" /\ data[Route(k0)][k0] = Absent /\ Route(k0) \notin failed
    BY <1>13 DEF DeleteAbsent, Idle, Acknowledge, disk, memory, running
  <2>2. acked[k0] = Absent
    BY <2>1, DirectoryFacts DEF MemoryInv
  <2>3. \A k \in Keys : acked'[k] = acked[k]
    BY <2>1, <2>2, DirectoryFacts DEF RestTyped, HistoryTypeOK, Map
  <2>4. SameFound
    BY <1>1, <2>1, SameFiles
  <2>5. Found
    BY <1>1, <2>1, <2>3, <2>4, UnseenKeeps DEF marks, Found
  <2>. QED BY <1>2, <2>1, <2>4, <2>5
<1>14. CASE \E s \in Shard : CrashShard(s) \/ RecoverShard(s)
  <2>1. /\ UNCHANGED <<wal, fusionWAL, snapshots, current, status, committed, marks, acked, maybe,
                       pc, pending>>
        /\ pc = "idle"
    BY <1>14 DEF CrashShard, RecoverShard, Idle, disk, running, history
  <2>2. SameFound
    BY <1>1, <2>1, SameFiles
  <2>. QED BY <1>4, <2>1, <2>2
<1>15. CASE Close \/ Crash
  <2>1. /\ UNCHANGED <<wal, fusionWAL, snapshots, current>> /\ status' = "down" /\ status = "up"
        /\ pc' = "idle" /\ pending' = NoEntry
        /\ (pc = "idle" /\ UNCHANGED <<acked, maybe>>) \/ LeaveOpen
    BY <1>15, DirectoryFacts DEF Close, Crash, Idle, End, Finish, disk, history
  <2>2. SameFound
    BY <1>1, <2>1, SameFiles
  <2>3. /\ acked' = acked /\ \A k \in Keys : maybe[k] \subseteq maybe'[k]
        /\ pc = "apply" => pending.value \in maybe'[pending.key]
    <3>1. CASE LeaveOpen
      <4>1. acked' = acked
        BY <3>1 DEF LeaveOpen
      <4>2. \A k \in Keys : /\ maybe[k] \subseteq maybe'[k]
                            /\ Writing /\ k = pending.key => pending.value \in maybe'[k]
        BY <2>1, <3>1, DirectoryFacts, LeftOpen
      <4>3. pc = "apply" => Writing /\ pending.key \in Keys
        BY DirectoryFacts DEF Writing
      <4>. QED BY <4>1, <4>2, <4>3
    <3>2. CASE pc = "idle" /\ UNCHANGED <<acked, maybe>>
      BY <3>2
    <3>. QED BY <2>1, <3>1, <3>2
  <2>4. Found
    BY <1>1, <2>1, <2>2, <2>3, EndLeaves DEF Found
  <2>. QED BY <1>2, <2>1, <2>2, <2>4
<1>16. CASE CrashInSnapshot
  <2>1. /\ UNCHANGED <<wal, fusionWAL, current, acked, maybe>> /\ status' = "down" /\ status = "up"
        /\ pc \in {"write", "checkpoint"} /\ pc' = "idle"
        /\ \/ UNCHANGED snapshots
           \/ /\ Snapshotting
              /\ \E file : snapshots' = [snapshots EXCEPT ![committed][cursor] = file]
    BY <1>16, DirectoryFacts DEF CrashInSnapshot, WritesPartly, End, Finish, Snapshotting, history
  <2>2. current # NoFile =>
          \A s \in Shard : snapshots'[current][s] = snapshots[current][s]
    <3>1. CASE Snapshotting
      <4>1. current # NoFile => current # committed
        BY <3>1, DirectoryFacts DEF FileInv, SnapshotUsable
      <4>. QED BY <2>1, <4>1, DirectoryFacts DEF FileInv, FilesTyped, IsTable
    <3>. QED BY <2>1, <3>1
  <2>3. SameFound
    BY <1>1, <2>1, <2>2, SameFiles
  <2>4. Found
    BY <1>1, <2>1, <2>3, EndLeaves DEF Found
  <2>. QED BY <1>2, <2>1, <2>3, <2>4
<1>17. CASE OpenRefused
  <2>1. /\ UNCHANGED <<wal, fusionWAL, snapshots, current, acked, maybe, pc>>
        /\ status = "down" /\ status' = "refused"
    BY <1>17 DEF OpenRefused, disk, running, history
  <2>2. SameFound
    BY <1>1, <2>1, SameFiles
  <2>3. Found
    BY <1>1, <2>1, <2>2 DEF Found, DirectoryInv, FoundByLogs, FoundAfter, SameFound
  <2>. QED BY <1>2, <1>3, <2>1, <2>2, <2>3
<1>18. CASE \/ \E k \in Keys, v \in Values : BeginPut(k, v)
            \/ \E k \in Keys : BeginDelete(k)
  BY <1>5, <1>18 DEF BeginPut, BeginDelete
<1>. QED BY <1>6, <1>7, <1>8, <1>9, <1>10, <1>11, <1>12, <1>13, <1>14, <1>15, <1>16, <1>17, <1>18
         DEF AsWithLogs

LEMMA UnloggedInit == UInit => UnloggedInv
<1>. SUFFICES ASSUME UInit PROVE UnloggedInv
  OBVIOUS
<1>1. BaseInv
  <2>1. LogInv /\ FileInv /\ OrderInv
    BY LogInvInit, FileInvInit, OrderInvInit DEF UInit
  <2>2. RestTyped /\ MemoryInv /\ PendingInv /\ BackupInv
    BY RestTypedInit, MemoryInvInit, BackupInvInit DEF UInit
  <2>. QED BY <2>1, <2>2 DEF BaseInv, AllInv
<1>2. LogsWhole
  BY DEF UInit, Init, LogsWhole, Entries
<1>3. WrittenInv /\ FoundInv
  BY DurableInvInit DEF UInit, DurableInv
<1>4. /\ status = "down" /\ pc = "idle" /\ pending = NoEntry /\ logs = "open"
      /\ acked = EmptyMap
  BY DEF UInit, Init
<1>5. \A k \in Keys : Recovered[k] \in {acked[k]} \cup maybe[k]
  <2>1. \A k \in Keys : Recovered[k] = Absent
    BY RouteInShard DEF UInit, Init, Recovered, Replay, ApplyTo, Base, EmptyMap, LastAt
  <2>. QED BY <1>4, <2>1 DEF EmptyMap
<1>. QED BY <1>1, <1>2, <1>3, <1>4, <1>5
         DEF UnloggedInv, OfNew, DirectoryInv, DirectoryBase, FoundByLogs, FoundAfter

LEMMA UnloggedNext == UnloggedInv /\ [UNext]_uvars => UnloggedInv'
<1>. SUFFICES ASSUME UnloggedInv, [UNext]_uvars PROVE UnloggedInv'
  OBVIOUS
<1>1. CASE New
  <2>1. /\ DirectoryInv /\ status = "down" /\ status' = "up" /\ logs' = "none"
        /\ acked' = EmptyMap /\ maybe' = [k \in Keys |-> {}]
        /\ UNCHANGED <<disk, next, running, bounds>>
    BY <1>1 DEF New, UnloggedInv, OfNew
  <2>2. UNCHANGED <<wal, fusionWAL, snapshots, current, temporary, pc, pending, restarts, faults>>
    BY <2>1 DEF disk, running, bounds
  <2>3. DiskInv'
    BY <2>1, <2>2, DirectoryDisk DEF DiskInv, LogsTyped, LogsAgree, LoggedOnce, CommitsLogged,
       LogsWhole, CheckpointUsable, Usable, FileTypeOK
  <2>4. HistoryTypeOK'
    <3>1. EmptyMap \in Map
      BY DEF EmptyMap, Map, Contents
    <3>. QED BY <2>1, <2>2, <3>1, DirectoryFacts DEF RestTyped, HistoryTypeOK
  <2>5. pc' = "idle" /\ pending' = NoEntry /\ next' \in 1 .. MaxSequence + 1
    BY <2>1, <2>2, DirectoryFacts DEF OrderInv, LogInv, MethodTyped, Writing
  <2>. QED BY <2>1, <2>3, <2>4, <2>5 DEF UnloggedInv, OfNew, NewInv
<1>2. CASE OpenLogs
  <2>1. DirectoryInv /\ Open /\ logs' = "open"
    BY <1>2 DEF OpenLogs, Open, UnloggedInv, OfNew
  <2>2. DirectoryBase' /\ BaseInv'
    BY <2>1, BaseKept DEF DirectoryBase
  <2>3. FoundByLogs' /\ FoundAfter'
    BY <2>1, <2>2, OpenFinds
  <2>. QED BY <2>1, <2>2, <2>3 DEF UnloggedInv, OfNew, DirectoryInv
<1>3. CASE CloseLogs
  <2>1. DirectoryInv /\ UNCHANGED vars /\ logs = "open" /\ logs' = "closed" /\ pc = "idle" /\ status = "up"
    BY <1>3 DEF CloseLogs, Idle, UnloggedInv, OfNew
  <2>2. DirectoryBase' /\ BaseInv'
    BY <2>1, BaseKept DEF DirectoryBase
  <2>3. UNCHANGED <<wal, fusionWAL, snapshots, current, pc, status, committed, checkpoint,
                    hasSnapshot, acked>>
    BY <2>1 DEF vars, disk, memory, marks, running, history
  <2>4. SameFound
    BY <2>1, <2>2, <2>3, SameFiles
  <2>5. AllApplied' /\ AllFound'
    BY <2>1, <2>3, <2>4 DEF DirectoryInv, FoundByLogs, AllApplied, AllFound, SameFound, Later
  <2>. QED BY <2>1, <2>2, <2>3, <2>5
           DEF UnloggedInv, OfNew, DirectoryInv, FoundByLogs, FoundAfter
<1>4. CASE SkipLogs \/ AsWithLogs
  BY <1>4, NewSteps, DirectorySteps DEF UnloggedInv
<1>5. CASE UNCHANGED uvars
  <2>1. UNCHANGED <<vars, logs>>
    BY <1>5 DEF uvars
  <2>2. UNCHANGED <<wal, fusionWAL, snapshots, current, temporary, pc, status, committed, checkpoint,
                    hasSnapshot, acked, maybe, pending, next, restarts, faults, logs>>
    BY <2>1 DEF vars, disk, memory, marks, running, history, bounds
  <2>3. CASE OfNew
    BY <2>2, <2>3 DEF UnloggedInv, OfNew, NewInv, DiskInv, LogsTyped, LogsAgree, LoggedOnce,
       CommitsLogged, LogsWhole, CheckpointUsable, Usable, FileTypeOK, HistoryTypeOK
  <2>4. CASE ~OfNew
    <3>1. DirectoryInv
      BY <2>4 DEF UnloggedInv
    <3>2. DirectoryBase' /\ BaseInv'
      BY <2>1, <3>1, BaseKept DEF DirectoryBase
    <3>3. SameFound
      BY <2>2, <3>1, <3>2, SameFiles
    <3>4. FoundByLogs' /\ FoundAfter'
      BY <2>2, <3>1, <3>3, UnseenKeeps
    <3>. QED BY <2>2, <2>4, <3>1, <3>2, <3>4 DEF UnloggedInv, OfNew, DirectoryInv
  <2>. QED BY <2>3, <2>4
<1>. QED BY <1>1, <1>2, <1>3, <1>4, <1>5 DEF UNext

LEMMA UnloggedAlways == USpec => []UnloggedInv
BY UnloggedInit, UnloggedNext, PTL DEF USpec

LogsKnown == logs \in {"open", "closed", "none"}

LEMMA LogsAlwaysKnown == USpec => []LogsKnown
<1>1. UInit => LogsKnown
  BY DEF UInit, LogsKnown
<1>2. LogsKnown /\ [UNext]_uvars => LogsKnown'
  BY DEF LogsKnown, UNext, New, OpenLogs, CloseLogs, SkipLogs, AsWithLogs, uvars
<1>. QED BY <1>1, <1>2, PTL DEF USpec

\* A Snapshot that has nothing to do, or has just returned, leaves files that
\* hold all the client was told, the writes of a closed database too.
THEOREM SnapshotsSaveAll == USpec => []SnapshotSavesAll
<1>1. UnloggedInv => SnapshotSavesAll
  <2>. SUFFICES ASSUME UnloggedInv, Idle, HasDirectory, ~Ahead PROVE Recovered = acked
    BY DEF SnapshotSavesAll
  <2>1. DirectoryInv /\ status = "up" /\ pc = "idle" /\ hasSnapshot /\ checkpoint = committed
    BY DEF UnloggedInv, OfNew, Idle, HasDirectory, Ahead
  <2>2. AllFound
    BY <2>1 DEF DirectoryInv, FoundByLogs
  <2>3. acked \in Map
    BY <2>1, DirectoryFacts DEF RestTyped, HistoryTypeOK
  <2>. QED BY <2>2, <2>3 DEF AllFound, Recovered, Map
<1>. QED BY <1>1, UnloggedAlways, PTL

\* What a restart may find is what databases with logs, and finished Snapshots,
\* told the client.
PromiseInv ==
    /\ logs = "open" => promised = Promise
    /\ logs # "open" => \A k \in Keys : Recovered[k] \in promised[k]

\* With logs it is so by FoundByLogs and FoundAfter.
LEMMA FoundIsPromised ==
    ASSUME DirectoryInv, logs = "open", NEW k \in Keys
    PROVE  Recovered[k] \in Possible(k) /\ (pc = "idle" => Recovered[k] \in Promise[k])
<1>1. CASE status = "up" /\ pc = "apply"
  <2>1. pending # NoEntry
    BY <1>1, DirectoryFacts, TornIsNoEntry DEF Writing
  <2>. QED BY <1>1, <2>1 DEF DirectoryInv, FoundByLogs, Possible
<1>2. CASE status = "up" /\ pc # "apply"
  BY <1>2 DEF DirectoryInv, FoundByLogs, AllFound, Possible, Promise
<1>3. CASE status # "up"
  BY <1>3 DEF DirectoryInv, FoundAfter, Possible, Promise
<1>. QED BY <1>1, <1>2, <1>3

LEMMA PromiseInit == UInit => PromiseInv
BY DEF UInit, PromiseInv

\* Steps that change no file, as those of New's database.
LEMMA SameDisk ==
    ASSUME UNCHANGED <<wal, fusionWAL, snapshots, current>>
    PROVE  Recovered' = Recovered
<1>1. \A s \in Shard : Replay(s)' = Replay(s)
  BY DEF Replay, Applied, CommittedIn, Base, Checkpoint
<1>. QED BY <1>1, RouteInShard DEF Recovered

\* Who writes to the files.
LEMMA UnloggedWrites ==
    ASSUME SkipLogs \/ AsWithLogs, logs # "open", ~UNCHANGED <<wal, fusionWAL, snapshots, current>>
    PROVE  /\ AsWithLogs /\ UNCHANGED acked
           /\ IF Rename THEN pc \in {"rename", "again"}
              ELSE pc \in {"fusion", "remove", "write", "checkpoint"}
<1>1. AsWithLogs /\ (AppendFusion \/ RemoveSnapshot \/ WriteSnapshot \/ Rename \/ CrashInSnapshot)
  BY DEF SkipLogs, AsWithLogs, disk, Begin, BeginPut, BeginDelete, DeleteAbsent, Apply,
     BeginSnapshot, WriteTemporary, CrashShard, RecoverShard, Close, Crash, OpenRefused
<1>. QED BY <1>1 DEF AppendFusion, RemoveSnapshot, WriteSnapshot, Rename, CrashInSnapshot,
                     WritesPartly, history

LEMMA PromiseNext == UnloggedInv /\ PromiseInv /\ [UNext]_uvars => PromiseInv'
<1>. SUFFICES ASSUME UnloggedInv, PromiseInv, [UNext]_uvars PROVE PromiseInv'
  OBVIOUS
<1>1. ASSUME UNCHANGED <<wal, fusionWAL, snapshots, current, promised>>, logs' # "open",
             logs = "open" => DirectoryInv /\ pc = "idle"
      PROVE  PromiseInv'
  <2>1. Recovered' = Recovered
    BY <1>1, SameDisk
  <2>2. \A k \in Keys : Recovered[k] \in promised[k]
    BY <1>1, FoundIsPromised DEF PromiseInv
  <2>. QED BY <1>1, <2>1, <2>2 DEF PromiseInv
<1>2. CASE New
  <2>1. /\ UNCHANGED <<wal, fusionWAL, snapshots, current, promised>> /\ logs' = "none"
        /\ DirectoryInv /\ status = "down"
    BY <1>2 DEF New, disk, UnloggedInv, OfNew
  <2>2. pc = "idle"
    BY <2>1, DirectoryFacts
  <2>. QED BY <1>1, <2>1, <2>2
<1>3. CASE OpenLogs
  BY <1>3 DEF OpenLogs, PromiseInv
<1>4. CASE CloseLogs
  <2>1. /\ UNCHANGED <<wal, fusionWAL, snapshots, current, promised>> /\ logs' = "closed"
        /\ logs = "open" /\ pc = "idle"
    BY <1>4 DEF CloseLogs, vars, disk, Idle
  <2>2. DirectoryInv
    BY <2>1 DEF UnloggedInv, OfNew
  <2>. QED BY <1>1, <2>1, <2>2
<1>5. CASE SkipLogs
  <2>1. /\ UNCHANGED <<wal, fusionWAL, snapshots, current, promised, logs>> /\ logs # "open"
    BY <1>5 DEF SkipLogs, disk
  <2>. QED BY <1>1, <2>1
<1>6. CASE AsWithLogs /\ (logs = "open" \/ Rename)
  <2>1. logs' = logs /\ promised' = Promise'
    BY <1>6 DEF AsWithLogs
  <2>2. CASE logs = "open"
    BY <2>1, <2>2 DEF PromiseInv
  <2>3. CASE logs # "open" /\ Rename
    <3>1. pc \in {"rename", "again"}
      BY <2>3 DEF Rename
    <3>2. DirectoryInv /\ ~OfNew
      BY <3>1 DEF UnloggedInv, NewInv
    <3>3. AllFound'
      BY <1>6, <2>1, <2>3, <3>2, BaseKept, RenameFinds DEF DirectoryBase
    <3>. QED BY <2>1, <2>3, <3>3 DEF PromiseInv, AllFound, Promise
  <2>. QED BY <1>6, <2>2, <2>3
<1>7. CASE AsWithLogs /\ logs # "open" /\ ~Rename
  <2>1. logs' = logs /\ promised' = promised
    BY <1>7 DEF AsWithLogs
  <2>2. CASE UNCHANGED <<wal, fusionWAL, snapshots, current>>
    BY <1>1, <1>7, <2>1, <2>2
  <2>3. CASE ~UNCHANGED <<wal, fusionWAL, snapshots, current>>
    <3>1. pc \in {"fusion", "remove", "write", "checkpoint"}
      BY <1>7, <2>3, UnloggedWrites
    <3>2. DirectoryInv /\ ~OfNew
      BY <3>1 DEF UnloggedInv, NewInv
    <3>3. SameFound
      BY <1>7, <3>2, DirectorySteps
    <3>. QED BY <1>7, <2>1, <3>3 DEF PromiseInv, SameFound
  <2>. QED BY <2>2, <2>3
<1>8. CASE UNCHANGED uvars
  <2>1. UNCHANGED <<wal, fusionWAL, snapshots, current, promised, logs, acked, maybe>>
    BY <1>8 DEF uvars, vars, disk, history
  <2>2. CASE logs = "open"
    BY <2>1, <2>2 DEF PromiseInv, Promise
  <2>3. CASE logs # "open"
    BY <1>1, <2>1, <2>3
  <2>. QED BY <2>2, <2>3
<1>. QED BY <1>2, <1>3, <1>4, <1>5, <1>6, <1>7, <1>8 DEF UNext

LEMMA PromiseAlways == USpec => []PromiseInv
BY PromiseInit, PromiseNext, UnloggedAlways, PTL DEF USpec

\* Whatever databases without logs do, and whatever remains of them, Open accepts
\* the files, and a restart finds of every key what databases with logs or
\* finished Snapshots promised the client, or the write that is being logged.
THEOREM LoggedAlwaysSurvives == USpec => []LoggedSurvives
<1>1. UnloggedInv /\ PromiseInv => LoggedSurvives
  <2>. SUFFICES ASSUME UnloggedInv, PromiseInv PROVE LoggedSurvives
    OBVIOUS
  <2>1. NeverRefused
    <3>. SUFFICES ASSUME status = "down" PROVE Openable
      BY DEF NeverRefused
    <3>1. DirectoryInv
      BY DEF UnloggedInv, OfNew
    <3>. QED BY <3>1, InvOpenable DEF DirectoryInv, DirectoryBase, BaseInv, AllInv
  <2>2. CASE logs = "open"
    <3>1. DirectoryInv
      BY <2>2 DEF UnloggedInv, OfNew
    <3>2. \A k \in Keys : Recovered[k] \in Possible(k)
      BY <2>2, <3>1, FoundIsPromised
    <3>. QED BY <2>1, <2>2, <3>2 DEF LoggedSurvives
  <2>3. CASE logs # "open"
    <3>1. \A k \in Keys : Recovered[k] \in promised[k]
      BY <2>3 DEF PromiseInv
    <3>. QED BY <2>1, <3>1 DEF LoggedSurvives
  <2>. QED BY <2>2, <2>3
<1>. QED BY <1>1, UnloggedAlways, PromiseAlways, PTL

\* Without logs, what a restart finds changes only when Snapshot returns, and
\* then to all that the client was told.
THEOREM OnlySnapshotsEverSave == USpec => OnlySnapshotsSave
<1>1. UnloggedInv /\ LogsKnown /\ [UNext]_uvars =>
         [logs # "open" /\ logs' = logs =>
            Recovered' = Recovered \/ (logs = "closed" /\ Recovered' = acked)]_uvars
  <2>. SUFFICES ASSUME UnloggedInv, LogsKnown, UNext, logs # "open", logs' = logs
                PROVE  Recovered' = Recovered \/ (logs = "closed" /\ Recovered' = acked)
    OBVIOUS
  <2>1. CASE UNCHANGED <<wal, fusionWAL, snapshots, current>>
    BY <2>1, SameDisk
  <2>2. CASE ~UNCHANGED <<wal, fusionWAL, snapshots, current>>
    <3>1. SkipLogs \/ AsWithLogs
      BY <2>2 DEF UNext, New, OpenLogs, CloseLogs, Open, vars, disk
    <3>2. /\ pc \in {"fusion", "remove", "write", "checkpoint", "rename", "again"}
          /\ acked' = acked
      BY <2>2, <3>1, UnloggedWrites
    <3>3. DirectoryInv /\ ~OfNew
      BY <3>2 DEF UnloggedInv, NewInv
    <3>4. logs = "closed"
      BY <3>2, <3>3, DirectoryFacts DEF OfNew, LogsKnown
    <3>5. SameFound \/ AllFound'
      BY <3>1, <3>3, DirectorySteps
    <3>6. acked \in Map
      BY <3>3, DirectoryFacts DEF RestTyped, HistoryTypeOK
    <3>7. CASE SameFound
      BY <3>7 DEF SameFound, Recovered
    <3>8. CASE AllFound'
      BY <3>2, <3>4, <3>6, <3>8 DEF AllFound, Recovered, Map
    <3>. QED BY <3>5, <3>7, <3>8
  <2>. QED BY <2>1, <2>2
<1>. QED BY <1>1, UnloggedAlways, LogsAlwaysKnown, PTL DEF USpec, OnlySnapshotsSave
===============================================================================
