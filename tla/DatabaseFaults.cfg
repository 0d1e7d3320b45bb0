\* One append is torn by a crash, cut short, or written and then reported as
\* failed.  A torn log ends the system: Open refuses it.
CONSTANTS
    SourceCount = 2
    BucketCount = 1
    Word <- MCWord
    Xor <- MCXor
    Keys = {0, 1}
    Values = {1, 2}
    Absent = Absent
    NoFile = NoFile
    Torn = Torn
    Faults = {"torn", "short", "sync"}
    MaxSequence = 3
    SnapshotAt = {2}
    MaxRestarts = 2
    MaxFaults = 1
SPECIFICATION Spec
CHECK_DEADLOCK FALSE
INVARIANTS
    LogsAgree
    RefusedOnlyIfTorn
    PutSurvives
    FusionRecovers
