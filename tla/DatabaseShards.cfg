\* Three shards whose four keys share one bucket of the backup; shards are lost
\* and recovered between four writes and over one restart.
CONSTANTS
    SourceCount = 3
    BucketCount = 1
    Word <- MCWord
    Xor <- MCXor
    Keys = {0, 1, 2, 3}
    Values = {1, 2}
    Absent = Absent
    NoFile = NoFile
    Torn = Torn
    Faults = {}
    MaxSequence = 4
    SnapshotAt = {}
    MaxRestarts = 1
    MaxFaults = 0
SPECIFICATION Spec
INVARIANTS
    ReadsSeeAcked
    MetricsCountAcked
    FusionRecovers
    FusionAccepts
