\* Four sources, so that a node can be shared, emptied and merged while a
\* fourth source passes by; six elements, added and removed at both ends.
CONSTANTS
    SourceCount = 4
    Word <- MCWord
    Xor <- MCXor
    Values = {1, 2}
    MaxElements = 6
SPECIFICATION DequeSpec
INVARIANTS
    RecoversEverySource
    RunsCounted
