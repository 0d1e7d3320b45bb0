\* Sync fails after a record was written.
CONSTANTS
    SourceCount = 2
    BucketCount = 1
    Word <- MCWord
    Xor <- MCXor
    Keys = {0, 1}
    Values = {1, 2}
    Absent = Absent
    NoFile = NoFile
    Torn = Torn
    Faults = {"sync"}
    MaxSequence = 3
    SnapshotAt = {2}
    MaxRestarts = 2
    MaxFaults = 1
SPECIFICATION Spec
CHECK_DEADLOCK FALSE
INVARIANTS
    DeletedStaysDeleted
