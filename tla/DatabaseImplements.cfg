\* The abstract store over one crash and two failures: an append that fails and
\* is repeated, and both attempts to rename a checkpoint.
CONSTANTS
    SourceCount = 2
    BucketCount = 1
    Word <- MCWord
    Xor <- MCXor
    Keys = {0, 1}
    Values = {1, 2}
    Absent = Absent
    NoFile = NoFile
    Torn = Torn
    Faults = {"clean", "rename"}
    MaxSequence = 3
    SnapshotAt = {0, 2}
    MaxRestarts = 1
    MaxFaults = 2
SPECIFICATION Spec
PROPERTIES
    Implements
    CheckpointAdvances
