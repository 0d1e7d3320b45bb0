\* Three processes and seven elements in each structure.
CONSTANTS
    SourceCount = 3
    Word <- MCWord
    Xor <- MCXor
    Values = {1, 2}
    MaxElements = 7
SPECIFICATION Simulate
INVARIANTS
    SavesNodes
    EveryStructureRecovers
    SetsStaySets
    ListEndsAtTop
PROPERTIES
    PopsMinimum
    ImplementsArrayStack
