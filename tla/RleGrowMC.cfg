\* Splices whose inserted runs cover more or fewer cells than they replace.
CONSTANTS
    a = a
    b = b
    c = c
    Values <- MCValues
    InsertRuns <- MCInsertRuns
    Width = 8
    MaxSize = 4
    MinLength = 1
    SpliceDeltas <- MCGrowShrink
SYMMETRY MCSymmetry
SPECIFICATION Spec
INVARIANT SizeMatchesRuns
