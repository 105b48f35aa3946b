CONSTANTS
    p1 = p1
    p2 = p2
    p3 = p3
    p4 = p4
    p5 = p5
    ca = ca
    cb = cb
    Nil = Nil
    Panes <- MCPanes
    Root = p1
    Contents <- MCContents
    FirstContent = ca
    MinSize <- MCMinSize
    CellSize <- MCCellSize
    WindowSizes <- MCWindowSizes
    SnapSpan <- MCSnapSpan
SYMMETRY MCSymmetry
VIEW MCView
CONSTRAINT MCConstraint
SPECIFICATION Spec
INVARIANTS
    TypeOK
    ProposedMatchesWalk
PROPERTY
    ResizeMovesSeparator
