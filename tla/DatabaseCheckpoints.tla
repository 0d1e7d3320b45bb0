------------------------- MODULE DatabaseCheckpoints -------------------------
(***************************************************************************)
(* What Database would find if its checkpoint file had other contents.     *)
(* WriteCheckpoint of src/storage/snapshot.go renames without syncing the  *)
(* directory, and removes the old name when the rename fails: after a loss *)
(* of power an older checkpoint, or none, may be back.                     *)
(***************************************************************************)
EXTENDS Database

\* The files with that checkpoint.
With(checkpointFile) == INSTANCE DatabaseFiles WITH current <- checkpointFile

\* Whatever the directory still knows of the renames, nothing is lost: with no
\* checkpoint at all, or with that of any sequence whose snapshots are whole, Open
\* accepts the files and finds the same contents and sequence numbers.
EveryCheckpointWorks ==
    \A q \in 0 .. MaxSequence \cup {NoFile} :
        With(q)!SnapshotsLoad =>
            /\ With(q)!Openable
            /\ With(q)!Recovered = Recovered
            /\ With(q)!Seen \subseteq 0 .. Max(Seen)
            /\ Max(With(q)!Replayed) = Max(Replayed)
=============================================================================
