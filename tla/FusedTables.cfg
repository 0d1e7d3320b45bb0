\* Three sources over two buckets.  Of the keys of the key/value table three meet
\* in bucket 0, so that a bucket holds up to nine elements; of the packed keys 0
\* and 2 meet there.
CONSTANTS
    SourceCount = 3
    BucketCount = 2
    Word <- MCWord
    Xor <- MCXor
    Keys = {0, 1, 2, 4}
    Values = {1, 2}
    MaxRecords = 5
    PackedKeys = {0, 1, 2}
    PackedValues = {0, 1}
    ValueSpan = 4
    Absent = Absent
    MaxEntries = 6
SPECIFICATION SpecOne
INVARIANTS
    EveryTableRecovers
    Compact
    RebuildRecovers
    BucketsHoldMaps
