CONSTANTS
    p1 = p1
    p2 = p2
    k1 = k1
    k2 = k2
    Procs <- MCProcs2
    Keys <- MCKeys
    MaxObjects <- MCMaxObjects
SPECIFICATION Spec
INVARIANTS
    CommittedDismissalsPersist
CHECK_DEADLOCK FALSE
