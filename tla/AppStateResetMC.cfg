CONSTANTS
    p1 = p1
    p2 = p2
    k1 = k1
    k2 = k2
    Procs <- MCProcs1
    Keys <- MCKeys
    MaxObjects <- MCMaxObjects
SPECIFICATION Spec
INVARIANTS
    ResetIsFinal
CHECK_DEADLOCK FALSE
