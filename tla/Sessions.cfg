\* Two processes open the directory four times in all and write three records,
\* with snapshots after the first two.
CONSTANTS
    SourceCount = 2
    Word <- MCWord
    Xor <- MCXor
    Keys = {0, 1}
    Values = {1}
    Absent = Absent
    NoFile = NoFile
    Torn = Torn
    MaxSequence = 3
    Session = {p, q}
    SnapshotAt = {1, 2}
    MaxSessions = 4
SYMMETRY Symmetry
SPECIFICATION Spec
CHECK_DEADLOCK FALSE
INVARIANTS
    TurnsKeepWrites
    RefusedOnlyIfOverlapped
    MemoryMatchesFiles
PROPERTIES
    OpensWhatIsCommitted
