\* it1 - it2 with it1 before it2: the leftward loop of operator-.
CONSTANTS
    a = a
    b = b
    c = c
    Values <- MCValues
    InsertRuns <- MCInsertRuns
    MaxSize = 5
    Width = 8
    MinLength = 1
    SpliceDeltas = {0}
SYMMETRY MCSymmetry
SPECIFICATION Spec
INVARIANTS
    IteratorDistanceBothWays
