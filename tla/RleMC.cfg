\* Equal-coverage splices, lengths >= 1: the run store's normal use.
CONSTANTS
    a = a
    b = b
    c = c
    Values <- MCValues
    InsertRuns <- MCInsertRuns
    MaxSize = 5
    Width = 8
    MinLength = 1
    SpliceDeltas = {0}
SYMMETRY MCSymmetry
SPECIFICATION Spec
INVARIANTS
    TypeOK
    SizeMatchesRuns
    PositiveRunLengths
    SubstrRoundTrip
    IteratorArithmetic
PROPERTIES
    AbsSpec
