----------------------------- MODULE PaneTreeMC -----------------------------
(* A tab of up to five panes (two splits alive at once) and three controls.*)
EXTENDS PaneTree, TLC

CONSTANTS p1, p2, p3, p4, p5, c1, c2, c3

MCPanes == {p1, p2, p3, p4, p5}
MCControls == {c1, c2, c3}

\* Panes other than the root, and controls other than the first, are
\* interchangeable.
MCSymmetry == Permutations({p2, p3, p4, p5}) \cup Permutations({c2, c3})
\* One split: enough for both children of the root to close together.
MCSmallPanes == {p1, p2, p3}
MCSmallControls == {c1, c2}

\* Close can be asked for again and again before the dispatcher runs; keep
\* at most MCMaxQueue tasks posted at once.
MCMaxQueue == 2
\* A new control normally gets its font before the next split; keep at most
\* MCMaxFontPending controls waiting for their initial FontSizeChanged.
MCMaxFontPending == 1
MCConstraint == Len(queue) <= MCMaxQueue /\ Cardinality(fontPending) <= MCMaxFontPending
\* Two states that differ only in the history variable doomed, or in the
\* fields of panes outside the tree, have the same futures: no action reads
\* doomed, and a pane outside the tree is either unborn (Split overwrites
\* every field it has) or released (a task or handler that reaches it
\* faults whatever its fields hold).  The passing run, whose properties
\* look only at the tree, explores states up to this view.
\* Likewise the FontSizeChanged subscriptions of a control matter only while
\* its initial change can still fire: it is pending and in the tree (a
\* control never comes back once it has left).
LiveFontSubs == [c \in Controls |-> IF c \in fontPending \cap TreeControls THEN fontSubs[c] ELSE {}]
InTree(f, default) == [p \in Panes |-> IF p \in Tree THEN f[p] ELSE default]
MCView == <<InTree(splitState, "None"), InTree(firstChild, Nil), InTree(secondChild, Nil),
            InTree(control, Nil), InTree(lastFocused, FALSE), released,
            ctrlSubs, closedSubs, created, exited, handlers, queue, focus,
            tabClosed, fault, LiveFontSubs>>
=============================================================================
