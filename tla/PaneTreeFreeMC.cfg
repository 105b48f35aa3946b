CONSTANTS
    p1 = p1
    p2 = p2
    p3 = p3
    p4 = p4
    p5 = p5
    c1 = c1
    c2 = c2
    c3 = c3
    Nil = Nil
    Panes <- MCPanes
    Controls <- MCControls
    Root = p1
    FirstControl = c1
    CloseOnExit <- MCControls
SYMMETRY MCSymmetry
SPECIFICATION Spec
CONSTRAINT MCConstraint
INVARIANT
    NoUseAfterFree
CHECK_DEADLOCK FALSE
