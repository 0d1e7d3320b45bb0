\* The process ends anywhere, system calls fail and the code gives up or
\* retries; two snapshots are taken between three writes.
CONSTANTS
    SourceCount = 2
    BucketCount = 1
    Word <- MCWord
    Xor <- MCXor
    Keys = {0, 1}
    Values = {1, 2}
    Absent = Absent
    NoFile = NoFile
    Torn = Torn
    Faults = {"clean", "snapshot", "rename"}
    MaxSequence = 3
    SnapshotAt = {1, 2}
    MaxRestarts = 2
    MaxFaults = 1
SPECIFICATION Spec
INVARIANTS
    TypeOK
    AckedSurvives
    NeverRefused
    SnapshotMatchesLog
    EveryCheckpointWorks
