----------------------------- MODULE PaneLayout -----------------------------
(***************************************************************************)
(* The pixel layout of the pane tree of src/cascadia/TerminalApp/Pane.cpp: *)
(* the minimum-size and upward-snap algebra (_GetMinSize, _SnapSizeUpwards,*)
(* _GetProposedSnapSizes, _CalcSnappedPaneDimensions, _GetPaneSizes,       *)
(* SnapDimension), the row/column definitions each split pane keeps in its *)
(* XAML grid (ResizeContent, _CreateRowColDefinitions), and the operations *)
(* that change them: a window resize, ResizePane/_Resize with              *)
(* _ClampSplitPosition, Split with CanSplit, and _CloseChild.              *)
(*                                                                         *)
(* Pixel sizes are integers: every content has integer minimum and cell   *)
(* sizes, so every size the algorithm produces is an integer.  The split   *)
(* position, a float in the code, is an exact rational [num, den].         *)
(* A tree is a function from pane identities to records; the operators    *)
(* take it as an argument so that an action can lay out its own result.   *)
(***************************************************************************)
EXTENDS Integers, Sequences, FiniteSets, TLC

CONSTANTS
    Panes,        \* pane identities (model values)
    Root,         \* the tab's root pane
    Contents,     \* terminal controls a leaf can host
    FirstContent, \* the control of the tab's first pane
    MinSize,      \* MinSize[c]  : [w, h], TermControl::MinimumSize
    CellSize,     \* CellSize[c] : [w, h], TermControl::CharacterDimensions
    WindowSizes,  \* sizes [w, h] the host window can be given
    SnapSpan,     \* how far above its minimum a snap query is checked
    Nil

VARIABLES
    tree,    \* tree[p] : [split, first, second, content, pos, defs]
    focus,   \* the leaf whose _lastFocused is set, or Nil
    window   \* the size the host last gave the root pane

vars == <<tree, focus, window>>

PaneSeparatorSize == 4
Axes       == {"W", "H"}           \* snapToWidth = TRUE / FALSE
SplitKinds == {"Vertical", "Horizontal"}
Directions == {"Left", "Right", "Up", "Down"}

-----------------------------------------------------------------------------
(* Rationals for _desiredSplitPosition and _ClampSplitPosition.            *)

RECURSIVE Gcd(_, _)
Gcd(a, b) == IF b = 0 THEN a ELSE Gcd(b, a % b)
AbsVal(a) == IF a < 0 THEN -a ELSE a
Rat(n, d) == LET g == Gcd(AbsVal(n), d) IN [num |-> n \div g, den |-> d \div g]
RLess(a, b) == a.num * b.den < b.num * a.den
Half == Rat(1, 2)

Dim(sz, ax) == IF ax = "W" THEN sz.w ELSE sz.h
Larger(a, b) == IF a >= b THEN a ELSE b
Smaller(a, b) == IF a <= b THEN a ELSE b

EmptyPane == [split |-> "None", first |-> Nil, second |-> Nil,
              content |-> Nil, pos |-> Half, defs |-> <<>>]

IsLeaf(T, p) == T[p].split = "None"

RECURSIVE SubtreeOf(_, _)
SubtreeOf(T, p) == IF IsLeaf(T, p) THEN {p}
                   ELSE {p} \cup SubtreeOf(T, T[p].first) \cup SubtreeOf(T, T[p].second)

(* The axis whose size both children share (Pane.h).                       *)
SnapDirectionIsParallelToSplit(ax, split) ==
    \/ ax = "W" /\ split = "Horizontal"
    \/ ax = "H" /\ split = "Vertical"

(* TermControl::SnapDimensionToGrid: the largest valid size, minimum plus  *)
(* whole cells, not above the proposed one.                                *)
SnapDimensionToGrid(c, ax, d) ==
    Dim(MinSize[c], ax) + ((d - Dim(MinSize[c], ax)) \div Dim(CellSize[c], ax)) * Dim(CellSize[c], ax)

-----------------------------------------------------------------------------
(* Size algebra.                                                           *)

RECURSIVE GetMinSize(_, _, _)
GetMinSize(T, p, ax) ==
    IF IsLeaf(T, p) THEN Dim(MinSize[T[p].content], ax)
    ELSE LET f == GetMinSize(T, T[p].first, ax)
             s == GetMinSize(T, T[p].second, ax)
         IN  IF SnapDirectionIsParallelToSplit(ax, T[p].split) THEN Larger(f, s)
             ELSE f + PaneSeparatorSize + s

(* LayoutSizeNode(minSize): a node at its minimum, with null children and   *)
(* no cached next nodes (Nil).                                             *)
MinSizeNode(minSize) ==
    [size |-> minSize, isMinimumSize |-> TRUE, firstChild |-> Nil, secondChild |-> Nil,
     nextFirstChild |-> Nil, nextSecondChild |-> Nil]

(* _GetMinSizeTree: the node of p with the nodes of its children.          *)
RECURSIVE GetMinSizeTree(_, _, _)
GetMinSizeTree(T, p, ax) ==
    IF IsLeaf(T, p) THEN MinSizeNode(GetMinSize(T, p, ax))
    ELSE [MinSizeNode(GetMinSize(T, p, ax)) EXCEPT
              !.firstChild  = GetMinSizeTree(T, T[p].first, ax),
              !.secondChild = GetMinSizeTree(T, T[p].second, ax)]

(* deviation1 <= deviation2 of _SnapSizeUpwards, multiplied by pos.den.    *)
AdvanceFirstPerpendicular(pos, firstSize, secondSize, nextFirstSize, nextSecondSize) ==
    nextFirstSize * pos.den - (nextFirstSize + secondSize) * pos.num
        <= (firstSize + nextSecondSize) * pos.num - firstSize * pos.den

RECURSIVE GetProposedSnapSizes(_, _, _, _), SnapSizeUpwards(_, _, _, _),
          CalcSnappedPaneDimensions(_, _, _, _), SnapWalk(_, _, _, _, _, _),
          GetProposedSnapSizesNoExact(_, _, _, _)

(* Mutant: a leaf answers one cell higher even when the size is on grid.    *)
GetProposedSnapSizesNoExact(T, p, ax, d) ==
    IF IsLeaf(T, p) THEN
        LET minDim == GetMinSize(T, p, ax)
            lower  == SnapDimensionToGrid(T[p].content, ax, d)
        IN  IF d <= minDim THEN [lower |-> minDim, higher |-> minDim]
            ELSE [lower |-> lower, higher |-> lower + Dim(CellSize[T[p].content], ax)]
    ELSE IF SnapDirectionIsParallelToSplit(ax, T[p].split) THEN
        LET fs == GetProposedSnapSizesNoExact(T, T[p].first, ax, d)
            ss == GetProposedSnapSizesNoExact(T, T[p].second, ax, d)
        IN  [lower |-> Larger(fs.lower, ss.lower), higher |-> Smaller(fs.higher, ss.higher)]
    ELSE
        LET b == CalcSnappedPaneDimensions(T, p, ax, d)
        IN  [lower  |-> b.first.lower + PaneSeparatorSize + b.second.lower,
             higher |-> b.first.higher + PaneSeparatorSize + b.second.higher]

GetProposedSnapSizes(T, p, ax, d) ==
    IF IsLeaf(T, p) THEN
        LET minDim == GetMinSize(T, p, ax)
            lower  == SnapDimensionToGrid(T[p].content, ax, d)
        IN  IF d <= minDim THEN [lower |-> minDim, higher |-> minDim]
            ELSE IF lower = d THEN [lower |-> d, higher |-> d]
            ELSE [lower |-> lower, higher |-> lower + Dim(CellSize[T[p].content], ax)]
    ELSE IF SnapDirectionIsParallelToSplit(ax, T[p].split) THEN
        LET fs == GetProposedSnapSizes(T, T[p].first, ax, d)
            ss == GetProposedSnapSizes(T, T[p].second, ax, d)
        IN  [lower |-> Larger(fs.lower, ss.lower), higher |-> Smaller(fs.higher, ss.higher)]
    ELSE
        LET b == CalcSnappedPaneDimensions(T, p, ax, d)
        IN  [lower  |-> b.first.lower + PaneSeparatorSize + b.second.lower,
             higher |-> b.first.higher + PaneSeparatorSize + b.second.higher]

SnapSizeUpwards(T, p, ax, node) ==
    IF IsLeaf(T, p) THEN
        [node EXCEPT
            !.size = IF node.isMinimumSize
                     THEN GetProposedSnapSizes(T, p, ax, node.size + 1).higher
                     ELSE node.size + Dim(CellSize[T[p].content], ax),
            !.isMinimumSize = FALSE]
    ELSE
        LET nf == IF node.nextFirstChild = Nil
                  THEN SnapSizeUpwards(T, T[p].first, ax, node.firstChild)
                  ELSE node.nextFirstChild
            ns == IF node.nextSecondChild = Nil
                  THEN SnapSizeUpwards(T, T[p].second, ax, node.secondChild)
                  ELSE node.nextSecondChild
            parallel == SnapDirectionIsParallelToSplit(ax, T[p].split)
            advanceFirst ==
                IF parallel THEN nf.size < ns.size
                ELSE AdvanceFirstPerpendicular(T[p].pos, node.firstChild.size,
                         node.secondChild.size, nf.size, ns.size)
            f  == IF advanceFirst THEN nf ELSE node.firstChild
            s  == IF advanceFirst THEN node.secondChild ELSE ns
        IN  [size |-> IF parallel THEN Larger(f.size, s.size)
                      ELSE f.size + PaneSeparatorSize + s.size,
             isMinimumSize |-> FALSE,
             firstChild |-> f, secondChild |-> s,
             nextFirstChild  |-> IF advanceFirst THEN SnapSizeUpwards(T, T[p].first, ax, nf) ELSE nf,
             nextSecondChild |-> IF advanceFirst THEN ns ELSE SnapSizeUpwards(T, T[p].second, ax, ns)]

(* The while loop of _CalcSnappedPaneDimensions, from (last, cur).         *)
SnapWalk(T, p, ax, full, last, cur) ==
    IF cur.size < full THEN
        LET nxt == SnapSizeUpwards(T, p, ax, cur) IN
        IF nxt.size = full
        THEN [first  |-> [lower |-> nxt.firstChild.size, higher |-> nxt.firstChild.size],
              second |-> [lower |-> nxt.secondChild.size, higher |-> nxt.secondChild.size]]
        ELSE SnapWalk(T, p, ax, full, cur, nxt)
    ELSE [first  |-> [lower |-> last.firstChild.size, higher |-> cur.firstChild.size],
          second |-> [lower |-> last.secondChild.size, higher |-> cur.secondChild.size]]

CalcSnappedPaneDimensions(T, p, ax, full) ==
    LET t == GetMinSizeTree(T, p, ax) IN SnapWalk(T, p, ax, full, t, t)

SplitAxis(T, p) == IF T[p].split = "Vertical" THEN "W" ELSE "H"

GetPaneSizes(T, p, full) ==
    LET b == CalcSnappedPaneDimensions(T, p, SplitAxis(T, p), full)
    IN  <<b.first.lower, full - PaneSeparatorSize - b.first.lower>>

SnapDimension(T, p, ax, d) ==
    LET s == GetProposedSnapSizes(T, p, ax, d)
    IN  IF d - s.lower < s.higher - d THEN s.lower ELSE s.higher

-----------------------------------------------------------------------------
(* The grid definitions and the sizes XAML gives the panes.                *)

(* The size a split pane's grid gives its i-th child: its column (row)     *)
(* definition along the split axis, the parent's size across it.           *)
ChildSize(T, p, sz, i) ==
    IF T[p].split = "Vertical" THEN [w |-> T[p].defs[i], h |-> sz.h]
    ELSE [w |-> sz.w, h |-> T[p].defs[i]]

RECURSIVE Layout(_, _, _)
Layout(T, p, sz) ==
    IF IsLeaf(T, p) THEN p :> sz
    ELSE (p :> sz) @@ Layout(T, T[p].first, ChildSize(T, p, sz, 1))
                   @@ Layout(T, T[p].second, ChildSize(T, p, sz, 2))

(* ResizeContent with _CreateRowColDefinitions: the split pane's definitions *)
(* become _GetPaneSizes of its size, then both children are resized.       *)
RECURSIVE ResizeContent(_, _, _)
ResizeContent(T, p, sz) ==
    IF IsLeaf(T, p) THEN T
    ELSE LET T1 == [T EXCEPT ![p].defs = GetPaneSizes(T, p, Dim(sz, SplitAxis(T, p)))]
         IN  ResizeContent(ResizeContent(T1, T[p].first, ChildSize(T1, p, sz, 1)),
                           T[p].second, ChildSize(T1, p, sz, 2))

Tree == SubtreeOf(tree, Root)
Sizes == Layout(tree, Root, window)

-----------------------------------------------------------------------------
(* Operations.                                                             *)

DirectionMatchesSplit(dir, split) ==
    \/ dir \in {"Left", "Right"} /\ split = "Vertical"
    \/ dir \in {"Up", "Down"} /\ split = "Horizontal"

HasFocusedChild(T, p, foc) == foc \in SubtreeOf(T, p)

(* ResizePane: the pane whose _Resize returns true, or Nil.                *)
RECURSIVE ResizeTarget(_, _, _, _)
ResizeTarget(T, p, dir, foc) ==
    IF IsLeaf(T, p) THEN Nil
    ELSE LET f    == T[p].first
             s    == T[p].second
             self == IF DirectionMatchesSplit(dir, T[p].split) THEN p ELSE Nil
             Or(r) == IF r # Nil THEN r ELSE self
         IN  IF (IsLeaf(T, f) /\ foc = f) \/ (IsLeaf(T, s) /\ foc = s) THEN self
             ELSE IF ~IsLeaf(T, f) /\ HasFocusedChild(T, f, foc) THEN Or(ResizeTarget(T, f, dir, foc))
             ELSE IF ~IsLeaf(T, s) /\ HasFocusedChild(T, s, foc) THEN Or(ResizeTarget(T, s, dir, foc))
             ELSE Nil

(* std::clamp(requested, first minimum share, 1 - second minimum share).   *)
ClampSplitPosition(T, p, ax, requested, total) ==
    LET lo == Rat(GetMinSize(T, T[p].first, ax), total - PaneSeparatorSize)
        hi == Rat(total - PaneSeparatorSize - GetMinSize(T, T[p].second, ax),
                  total - PaneSeparatorSize)
    IN  IF RLess(requested, lo) THEN lo ELSE IF RLess(hi, requested) THEN hi ELSE requested

(* Mutant: the .05 is negated for Left and Up instead of Right and Down.   *)
ResizeReversed(T, q, dir, actual) ==
    LET ax    == SplitAxis(T, q)
        pos   == T[q].pos
        delta == IF dir \in {"Right", "Down"} THEN -1 ELSE 1
        req   == Rat(pos.num * 20 + delta * pos.den, pos.den * 20)
    IN  ResizeContent([T EXCEPT ![q].pos = ClampSplitPosition(T, q, ax, req, Dim(actual, ax))],
                      q, actual)

(* _Resize on pane q: move the position by .05, clamp it, lay q out again.  *)
Resize(T, q, dir, actual) ==
    LET ax    == SplitAxis(T, q)
        pos   == T[q].pos
        delta == IF dir \in {"Right", "Down"} THEN 1 ELSE -1
        req   == Rat(pos.num * 20 + delta * pos.den, pos.den * 20)
    IN  ResizeContent([T EXCEPT ![q].pos = ClampSplitPosition(T, q, ax, req, Dim(actual, ax))],
                      q, actual)

ResizePane(dir) ==
    LET q == ResizeTarget(tree, Root, dir, focus) IN
    /\ q # Nil
    /\ tree' = Resize(tree, q, dir, Sizes[q])
    /\ UNCHANGED <<focus, window>>

(* _CanSplit: half of the size less the separator exceeds the pane's own    *)
(* minimum.                                                                *)
CanSplit(T, p, st, sz) ==
    LET ax == IF st = "Vertical" THEN "W" ELSE "H"
    IN  (Dim(sz, ax) - PaneSeparatorSize) > 2 * GetMinSize(T, p, ax)

(* Pane::CanSplit: route to the child with the focused leaf and ask its    *)
(* _CanSplit at its laid-out size; false when no child has the focus.      *)
RECURSIVE CanSplitRouted(_, _, _, _, _)
CanSplitRouted(T, p, st, foc, sizes) ==
    IF IsLeaf(T, p) THEN CanSplit(T, p, st, sizes[p])
    ELSE IF HasFocusedChild(T, T[p].first, foc) THEN CanSplitRouted(T, T[p].first, st, foc, sizes)
    ELSE IF HasFocusedChild(T, T[p].second, foc) THEN CanSplitRouted(T, T[p].second, st, foc, sizes)
    ELSE FALSE

(* Pane::Split: a leaf root splits itself; otherwise the call is routed,   *)
(* as CanSplitRouted routes, to the focused leaf, and to nobody without one.*)
SplitTarget(T, foc) == IF IsLeaf(T, Root) THEN Root ELSE foc

(* Mutant: the split pane keeps its control (no _control = nullptr).      *)
SplitKeepContent(st, n1, n2, c) ==
    LET p  == SplitTarget(tree, focus)
        sz == Sizes[p]
        T1 == [tree EXCEPT
                 ![p]  = [@ EXCEPT !.split = st, !.first = n1, !.second = n2, !.pos = Half],
                 ![n1] = [EmptyPane EXCEPT !.content = tree[p].content],
                 ![n2] = [EmptyPane EXCEPT !.content = c]]
    IN
    /\ p # Nil
    /\ n1 # n2 /\ n1 \notin Tree /\ n2 \notin Tree
    /\ CanSplitRouted(tree, Root, st, focus, Sizes)
    /\ tree' = [T1 EXCEPT ![p].defs = GetPaneSizes(T1, p, Dim(sz, SplitAxis(T1, p)))]
    /\ focus' = Nil
    /\ UNCHANGED window

(* Split of the target leaf (after Pane::CanSplit), with _Split and         *)
(* _CreateSplitContent: the old content moves to a new first child, c to   *)
(* a new second child, the position is reset and the columns are laid out. *)
Split(st, n1, n2, c) ==
    LET p  == SplitTarget(tree, focus)
        sz == Sizes[p]
        T1 == [tree EXCEPT
                 ![p]  = [@ EXCEPT !.split = st, !.first = n1, !.second = n2,
                                   !.content = Nil, !.pos = Half],
                 ![n1] = [EmptyPane EXCEPT !.content = tree[p].content],
                 ![n2] = [EmptyPane EXCEPT !.content = c]]
    IN
    /\ p # Nil
    /\ n1 # n2 /\ n1 \notin Tree /\ n2 \notin Tree
    /\ CanSplitRouted(tree, Root, st, focus, Sizes)
    /\ tree' = [T1 EXCEPT ![p].defs = GetPaneSizes(T1, p, Dim(sz, SplitAxis(T1, p)))]
    /\ focus' = Nil
    /\ UNCHANGED window

(* _CloseChild, remaining child a leaf: q takes its content, loses its     *)
(* grid definitions and takes the focus flag of either child.              *)
CloseChildLeaf(q, closed, remaining) ==
    /\ tree' = [tree EXCEPT ![q] = [@ EXCEPT !.split = "None", !.first = Nil, !.second = Nil,
                                             !.content = tree[remaining].content, !.defs = <<>>]]
    /\ focus' = IF focus \in {closed, remaining} THEN q ELSE focus

(* _CloseChild, remaining child split: q takes its split state, children   *)
(* and row/column definitions, and keeps its own _desiredSplitPosition.    *)
CloseChildSplit(q, closed, remaining) ==
    /\ tree' = [tree EXCEPT ![q] = [@ EXCEPT !.split  = tree[remaining].split,
                                             !.first  = tree[remaining].first,
                                             !.second = tree[remaining].second,
                                             !.defs   = tree[remaining].defs]]
    /\ focus' = IF focus = closed THEN Nil ELSE focus

(* A leaf's Closed event reaches its parent, which runs _CloseChild.       *)
CloseChild(q, closeFirst) ==
    LET closed    == IF closeFirst THEN tree[q].first ELSE tree[q].second
        remaining == IF closeFirst THEN tree[q].second ELSE tree[q].first
    IN
    /\ q \in Tree /\ ~IsLeaf(tree, q)
    /\ IsLeaf(tree, closed)
    /\ IF IsLeaf(tree, remaining) THEN CloseChildLeaf(q, closed, remaining)
       ELSE CloseChildSplit(q, closed, remaining)
    /\ UNCHANGED window

(* UpdateFocus after the user focuses the control of leaf l.               *)
UpdateFocus(l) ==
    /\ l \in Tree /\ IsLeaf(tree, l) /\ focus # l
    /\ focus' = l
    /\ UNCHANGED <<tree, window>>

(* The host gives the root its new size: ResizeContent from the root.      *)
WindowResize(ws) ==
    /\ ws # window
    /\ window' = ws
    /\ tree' = ResizeContent(tree, Root, ws)
    /\ UNCHANGED focus

Init ==
    /\ tree = [p \in Panes |-> IF p = Root THEN [EmptyPane EXCEPT !.content = FirstContent]
                               ELSE EmptyPane]
    /\ focus = Root
    /\ window \in {ws \in WindowSizes : \A ax \in Axes : Dim(ws, ax) >= Dim(MinSize[FirstContent], ax)}

Next ==
    \/ \E dir \in Directions : ResizePane(dir)
    \/ \E st \in SplitKinds, n1, n2 \in Panes, c \in Contents : Split(st, n1, n2, c)
    \/ \E q \in Panes, closeFirst \in BOOLEAN : CloseChild(q, closeFirst)
    \/ \E l \in Panes : UpdateFocus(l)
    \/ \E ws \in WindowSizes : WindowResize(ws)

Spec == Init /\ [][Next]_vars

-----------------------------------------------------------------------------
(* Reference: the sizes the upward-snap walk of pane p passes through,     *)
(* from its minimum size tree until it first exceeds bound.                 *)

RECURSIVE WalkFrom(_, _, _, _, _)
WalkFrom(T, p, ax, node, bound) ==
    IF node.size > bound THEN {node.size}
    ELSE {node.size} \cup WalkFrom(T, p, ax, SnapSizeUpwards(T, p, ax, node), bound)

WalkSizes(T, p, ax, bound) == WalkFrom(T, p, ax, GetMinSizeTree(T, p, ax), bound)

SnapQueries(T, p, ax) == GetMinSize(T, p, ax) .. GetMinSize(T, p, ax) + SnapSpan

-----------------------------------------------------------------------------
(* Properties.                                                             *)

Rationals == [num : Int, den : Nat \ {0}]

TypeOK ==
    /\ tree \in [Panes -> [split : {"None"} \cup SplitKinds, first : Panes \cup {Nil},
                           second : Panes \cup {Nil}, content : Contents \cup {Nil},
                           pos : Rationals, defs : Seq(Int)]]
    /\ focus \in Tree \cup {Nil}
    /\ window \in WindowSizes
    /\ \A p \in Tree : IsLeaf(tree, p) <=> tree[p].content # Nil

(* Every pane, split or leaf, is given at least its _GetMinSize along both *)
(* axes: CanSplit, _GetPaneSizes and the grid definitions copied by       *)
(* _CloseChild together never squeeze a terminal below one cell.          *)
PanesAtLeastMin ==
    \A p \in Tree, ax \in Axes : Dim(Sizes[p], ax) >= GetMinSize(tree, p, ax)

(* _GetProposedSnapSizes, which combines the children's answers along the  *)
(* shared axis and runs the layout walk across it, reports as lower and    *)
(* higher the nearest sizes at or below and at or above the query that the *)
(* _SnapSizeUpwards walk of the pane reaches (the sizes SnapDimension may   *)
(* return).                                                                *)
ProposedMatchesWalk ==
    \A p \in Tree, ax \in Axes :
        LET ws == WalkSizes(tree, p, ax, GetMinSize(tree, p, ax) + SnapSpan) IN
        \A d \in SnapQueries(tree, p, ax) :
            GetProposedSnapSizes(tree, p, ax, d)
                = [lower  |-> CHOOSE x \in ws : x <= d /\ \A y \in ws : y <= d => y <= x,
                   higher |-> CHOOSE x \in ws : x >= d /\ \A y \in ws : y >= d => x <= y]

(* The comment on _Resize: ResizePane right or down increases the first   *)
(* child of the split it moves, left or up decreases it.  Laid out at the  *)
(* same size, the first child is no smaller (no larger) after the step.   *)
ResizeMovesSeparator ==
    [][\A dir \in Directions :
          ResizePane(dir) =>
              LET q    == ResizeTarget(tree, Root, dir, focus)
                  full == Dim(Sizes[q], SplitAxis(tree, q))
                  old  == GetPaneSizes(tree, q, full)[1]
                  new  == GetPaneSizes(tree', q, full)[1]
              IN  IF dir \in {"Right", "Down"} THEN new >= old ELSE new <= old]_vars

(* Spec section 8: _GetPaneSizes is monotonic, the second child never       *)
(* shrinks when its parent grows by a pixel.                               *)
SecondNonDecreasing ==
    \A p \in Tree : ~IsLeaf(tree, p) =>
        \A f \in SnapQueries(tree, p, SplitAxis(tree, p)) :
            GetPaneSizes(tree, p, f)[2] <= GetPaneSizes(tree, p, f + 1)[2]

(* Spec 4.2: SnapDimension breaks a tie between the lower and the higher   *)
(* snap size in favour of the lower one.                                   *)
SnapTieFavorsLower ==
    \A p \in Tree, ax \in Axes : \A d \in SnapQueries(tree, p, ax) :
        LET s == GetProposedSnapSizes(tree, p, ax, d) IN
        d - s.lower = s.higher - d => SnapDimension(tree, p, ax, d) = s.lower

(* Spec section 8: no pixel loss, the definitions of every split pane plus *)
(* the separator add up to the size the pane is given.                     *)
NoPixelLoss ==
    \A p \in Tree : ~IsLeaf(tree, p) =>
        tree[p].defs[1] + PaneSeparatorSize + tree[p].defs[2]
            = Dim(Sizes[p], SplitAxis(tree, p))

(* Spec 4.2: when _CloseChild splices a split survivor one level up, the   *)
(* pane that adopts its children also adopts its split, so the survivor's *)
(* split position is kept.                                                 *)
SurvivorSplitKept ==
    [][\A q \in Tree :
          (/\ ~IsLeaf(tree, q)
           /\ ~IsLeaf(tree', q)
           /\ tree'[q].first \notin {tree[q].first, tree[q].second})
          => \E r \in {tree[q].first, tree[q].second} :
                 tree'[q].first = tree[r].first /\ tree'[q].pos = tree[r].pos]_vars

====
