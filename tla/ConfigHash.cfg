SPECIFICATION Spec
CONSTANTS
    Documents <- MCDocuments
    Values <- MCValues
    Generic <- MCGeneric
    Depth <- MCDepth
    MaxExact = 12
INVARIANTS
    TypeOK
    Pinned
    Unambiguous
