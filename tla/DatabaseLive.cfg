\* Fairness: a running method runs on, and the database is opened again.
CONSTANTS
    SourceCount = 2
    BucketCount = 1
    Word <- MCWord
    Xor <- MCXor
    Keys = {0, 1}
    Values = {1}
    Absent = Absent
    NoFile = NoFile
    Torn = Torn
    Faults = {"clean", "snapshot", "rename"}
    MaxSequence = 2
    SnapshotAt = {1}
    MaxRestarts = 2
    MaxFaults = 2
SPECIFICATION FairSpec
PROPERTIES
    MethodsEnd
    Reopens
