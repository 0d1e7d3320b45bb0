\* Three rings of three slots at every turn and filling, three stacks of six
\* elements, three slices of every combination of lengths up to three.  There is
\* nothing to update when all slices are empty.
CONSTANTS
    SourceCount = 3
    Word <- MCWord
    Xor <- MCXor
    Capacity = 3
    Values = {1, 2}
    MaxElements = 6
    Given = {1}
    MaxLength = 3
SPECIFICATION SpecOne
CHECK_DEADLOCK FALSE
INVARIANTS
    WindowsAgree
    FusionsAreXor
    EveryArrayRecovers
PROPERTIES
    ImplementsQueues
