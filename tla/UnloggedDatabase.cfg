\* Databases of New and databases used after Close, with three writes in all, by
\* three processes one after the other.
CONSTANTS
    SourceCount = 2
    BucketCount = 1
    Word <- MCWord
    Xor <- MCXor
    Keys = {0, 1}
    Values = {1}
    Absent = Absent
    NoFile = NoFile
    Torn = Torn
    Faults = {}
    MaxSequence = 3
    SnapshotAt = {1, 2}
    MaxRestarts = 2
    MaxFaults = 0
SPECIFICATION USpec
INVARIANTS
    SnapshotSavesAll
    LoggedSurvives
PROPERTY OnlySnapshotsSave
