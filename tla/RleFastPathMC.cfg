\* Single-cell replaces: the fast path against the general splice.
CONSTANTS
    a = a
    b = b
    c = c
    Values <- MCValues
    InsertRuns <- MCInsertRuns
    Width = 8
    MaxSize = 4
    MinLength = 1
    SpliceDeltas = {0}
SYMMETRY MCSymmetry
SPECIFICATION Spec
INVARIANT FastPathMatchesGeneral
