---------------------------- MODULE PaneLayoutMC ----------------------------
(* Up to five panes (two splits) hosting two kinds of terminal, whose      *)
(* cells differ so that the children's grids interleave.                   *)
EXTENDS PaneLayout

CONSTANTS p1, p2, p3, p4, p5, ca, cb

MCPanes == {p1, p2, p3, p4, p5}
MCContents == {ca, cb}
\* Both kinds have the same minimum size, as profiles sharing padding and
\* scrollbar do; their cells differ.
MCMinSize == [c \in MCContents |-> [w |-> 5, h |-> 3]]
MCCellSize == (ca :> [w |-> 3, h |-> 2]) @@ (cb :> [w |-> 4, h |-> 3])
\* The second kind needs a larger minimum (a wider padding or font).
MCMinSizeUneven == (ca :> [w |-> 5, h |-> 3]) @@ (cb :> [w |-> 9, h |-> 6])
\* Two window sizes: room for two splits along either axis at the larger.
MCWindowSizes == {[w |-> 24, h |-> 14], [w |-> 31, h |-> 19]}
MCSnapSpan == 8

\* ResizePane moves a position by 1/20 a time; explore positions at most
\* MCMaxNudges steps from the middle (clamping bites well inside this for
\* the nested panes, whose minimum shares are large).
MCMaxNudges == 1
MCConstraint ==
    \A p \in Tree : AbsVal(tree[p].pos.num * 20 - 10 * tree[p].pos.den) <= MCMaxNudges * tree[p].pos.den

\* Panes other than the root are interchangeable.
MCSymmetry == Permutations({p2, p3, p4, p5})
\* Split overwrites every field of the panes it takes, and a leaf's split
\* position is never read before Split resets it: states that differ only
\* there have the same futures.
MCView == <<[p \in Panes |-> IF p \notin Tree THEN EmptyPane
                             ELSE IF IsLeaf(tree, p) THEN [tree[p] EXCEPT !.pos = Half]
                             ELSE tree[p]],
            focus, window>>
=============================================================================
