\* Zero-length replace at position 0.
CONSTANTS
    a = a
    b = b
    c = c
    Values <- MCValues
    InsertRuns <- MCInsertRuns
    Width = 8
    MaxSize = 4
    MinLength = 0
    SpliceDeltas = {0}
SYMMETRY MCSymmetry
SPECIFICATION Spec
INVARIANT NoFailFast
