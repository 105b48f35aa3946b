------------------------------ MODULE PaneTree ------------------------------
(***************************************************************************)
(* The pane tree of a tab (src/src/cascadia/TerminalApp/Pane.cpp): split, *)
(* close, focus navigation and the close notifications that flow from a   *)
(* terminal control up the tree.                                          *)
(*                                                                         *)
(* Three kinds of actor interleave:                                       *)
(*  - the UI thread runs the host's calls (Split, Close, NavigateFocus,   *)
(*    UpdateFocus) and, one at a time, the _CloseChild tasks that a       *)
(*    child's Closed event posts with Dispatcher().RunAsync;              *)
(*  - a control's connection ends on a background thread: ConnectionClosed*)
(*    fires once, to the panes subscribed at that moment, and each        *)
(*    _ControlClosedHandler runs later under that pane's _createCloseLock;*)
(*  - the user moves keyboard focus between controls.                     *)
(* Every method that takes _createCloseLock runs as one atomic step, which*)
(* is what the lock guarantees against the other holders of the same lock.*)
(* Pixel sizes are abstracted away (see PaneLayout): CanSplit refusing a  *)
(* split is a Split that does not happen.                                 *)
(***************************************************************************)
EXTENDS Integers, Sequences, FiniteSets

CONSTANTS
    Panes,        \* pane objects that can ever exist (ids are never reused)
    Root,         \* the tab's root pane
    Controls,     \* TermControl objects that can ever be hosted
    FirstControl, \* the control the tab is created with
    CloseOnExit,  \* controls whose ShouldCloseOnExit() is true
    Nil

ASSUME Root \in Panes /\ FirstControl \in Controls /\ CloseOnExit \subseteq Controls

SplitStates == {"None", "Vertical", "Horizontal"}
Directions  == {"Left", "Right", "Up", "Down"}

VARIABLES
    splitState,   \* _splitState
    firstChild,   \* _firstChild
    secondChild,  \* _secondChild
    control,      \* _control
    lastFocused,  \* _lastFocused
    released,     \* panes whose last shared_ptr has been dropped
    ctrlSubs,     \* ctrlSubs[c]: panes whose _ControlClosedHandler is on c.ConnectionClosed
    closedSubs,   \* closedSubs[p]: <<parent, closeFirst>> lambdas on p.Closed
    created,      \* controls handed to a pane so far
    exited,       \* controls whose ConnectionClosed has fired
    handlers,     \* pending _ControlClosedHandler calls: <<pane, control>>
    queue,        \* dispatcher tasks _CloseChild(closeFirst) on a pane, FIFO
    focus,        \* the control holding keyboard focus, or Nil
    tabClosed,    \* the root's Closed fired: the tab drops the whole tree
    fault,        \* "none", "nullderef", "useafterfree" or "fontfreed"
    doomed,       \* history: controls whose hosting pane fired Closed
    fontSubs,     \* fontSubs[c]: panes whose _FontSizeChangedHandler is on c.FontSizeChanged
    fontPending   \* controls that have not yet raised their initial FontSizeChanged

vars == <<splitState, firstChild, secondChild, control, lastFocused, released,
          ctrlSubs, closedSubs, created, exited, handlers, queue, focus,
          tabClosed, fault, doomed,
                   fontSubs, fontPending>>

-----------------------------------------------------------------------------
(* Tree queries.                                                           *)

\* _IsLeaf
IsLeaf(p) == splitState[p] = "None"

\* The panes reachable from p through _firstChild/_secondChild.
RECURSIVE SubtreeDepth(_, _)
SubtreeDepth(p, d) ==
    IF d = 0 \/ IsLeaf(p) \/ firstChild[p] = Nil THEN {p}
    ELSE {p} \cup SubtreeDepth(firstChild[p], d - 1) \cup SubtreeDepth(secondChild[p], d - 1)
Subtree(p) == SubtreeDepth(p, Cardinality(Panes))

Tree == IF tabClosed THEN {} ELSE Subtree(Root)
TreeControls == {control[p] : p \in {q \in Tree : IsLeaf(q)}}


\* GetFocusedPane (354-367): the first leaf, in tree order, marked _lastFocused.
RECURSIVE FocusedPaneFrom(_)
FocusedPaneFrom(p) ==
    IF IsLeaf(p) THEN IF lastFocused[p] THEN p ELSE Nil
    ELSE IF FocusedPaneFrom(firstChild[p]) # Nil THEN FocusedPaneFrom(firstChild[p])
    ELSE FocusedPaneFrom(secondChild[p])

\* _HasFocusedChild: this pane's control or a descendant's has focus.
HasFocusedChild(p) == \E q \in Subtree(p) : IsLeaf(q) /\ control[q] = focus /\ focus # Nil

\* Mutant of FirstLeafControl: hands on the pane instead of its control.
RECURSIVE FirstLeafPane(_)
FirstLeafPane(p) == IF IsLeaf(p) THEN p ELSE FirstLeafPane(firstChild[p])

\* _FocusFirstChild: the control that receives focus.
RECURSIVE FirstLeafControl(_)
FirstLeafControl(p) == IF IsLeaf(p) THEN control[p] ELSE FirstLeafControl(firstChild[p])

\* UpdateFocus on p: leaves take their control's focus state, parents FALSE.
UpdateFocusOn(p, lf, foc) ==
    [q \in Panes |-> IF q \in Subtree(p)
                     THEN IsLeaf(q) /\ control[q] = foc /\ foc # Nil
                     ELSE lf[q]]

\* DirectionMatchesSplit (Pane.h): Left/Right move a vertical separator.
DirectionMatchesSplit(dir, st) ==
    \/ st = "Vertical" /\ dir \in {"Left", "Right"}
    \/ st = "Horizontal" /\ dir \in {"Up", "Down"}

-----------------------------------------------------------------------------
(* Raising Pane::Closed (_closedHandlers) from pane p: the tab is          *)
(* subscribed to the root; a parent's lambda posts _CloseChild to the UI  *)
(* dispatcher.  Returns the new queue; the root case closes the tab.       *)
ClosedTasks(p) == [i \in 1..Cardinality(closedSubs[p]) |->
                      CHOOSE s \in closedSubs[p] : TRUE]

RaiseClosed(p) ==
    /\ doomed' = doomed \cup {control[p]}
    /\ IF p = Root
       THEN tabClosed' = TRUE /\ UNCHANGED queue
       ELSE queue' = queue \o ClosedTasks(p) /\ UNCHANGED tabClosed

-----------------------------------------------------------------------------
(* UI thread: Pane::Split (823-840) routed to the focused leaf, then       *)
(* _Split (883-923) under the leaf's lock.  n1, n2 are the two new panes, *)
(* c the new control.                                                      *)
\* A pane object not yet created by make_shared: never released, and neither
\* hosting a control nor split (every pane in the tree is one or the other).
Unborn(p) == p # Root /\ p \notin released /\ control[p] = Nil /\ IsLeaf(p)

SplitTarget ==
    IF IsLeaf(Root) THEN Root
    ELSE LET hits == {q \in Tree : IsLeaf(q) /\ control[q] = focus /\ focus # Nil}
         IN  IF hits = {} THEN Nil ELSE CHOOSE q \in hits : TRUE

Split(st, n1, n2, c) ==
    LET p == SplitTarget IN
    /\ ~tabClosed /\ fault = "none"
    /\ c \notin created
    /\ n1 # n2 /\ Unborn(n1) /\ Unborn(n2)
    /\ p # Nil
    /\ splitState'  = [splitState EXCEPT ![p] = st, ![n1] = "None", ![n2] = "None"]
    /\ firstChild'  = [firstChild EXCEPT ![p] = n1]
    /\ secondChild' = [secondChild EXCEPT ![p] = n2]
    /\ control'     = [control EXCEPT ![p] = Nil, ![n1] = control[p], ![n2] = c]
    /\ lastFocused' = [lastFocused EXCEPT ![p] = FALSE, ![n1] = FALSE, ![n2] = FALSE]
    /\ ctrlSubs'    = [ctrlSubs EXCEPT ![control[p]] = (@ \ {p}) \cup {n1}, ![c] = {n2}]
    /\ fontSubs'    = [fontSubs EXCEPT ![control[p]] = (@ \ {p}) \cup {n1}, ![c] = {n2}]
    /\ fontPending' = fontPending \cup {c}
    /\ closedSubs'  = [closedSubs EXCEPT ![n1] = {<<p, TRUE>>}, ![n2] = {<<p, FALSE>>}]
    /\ created'     = created \cup {c}
    /\ UNCHANGED <<released, exited, handlers, queue, focus, tabClosed, fault, doomed>>

(* UI thread: Pane::Close (323-330) on the pane the host closes, the      *)
(* focused one (GetFocusedPane): revoke its FontSizeChanged handler, then  *)
(* raise Closed.                                                           *)
Close(p) ==
    /\ fault = "none"
    /\ ~tabClosed /\ p = FocusedPaneFrom(Root)
    /\ fontSubs' = [fontSubs EXCEPT ![control[p]] = @ \ {p}]
    /\ RaiseClosed(p)
    /\ UNCHANGED <<splitState, firstChild, secondChild, control, lastFocused, released,
                   ctrlSubs, closedSubs, created, exited, handlers, focus, fault,
                   fontPending>>

(* Background thread: the connection of control c ends; ConnectionClosed   *)
(* fires once, to the handlers registered right now.                      *)
ConnectionClosed(c) ==
    /\ ~tabClosed /\ fault = "none"
    /\ c \in created \ exited
    /\ exited' = exited \cup {c}
    /\ handlers' = handlers \cup {<<p, c>> : p \in ctrlSubs[c]}
    /\ UNCHANGED <<splitState, firstChild, secondChild, control, lastFocused, released,
                   ctrlSubs, closedSubs, created, queue, focus, tabClosed, fault, doomed,
                   fontSubs, fontPending>>

(* Background thread: _ControlClosedHandler (275-295) of pane p, under    *)
(* p's lock.  The delegate holds a raw `this`.                            *)
ControlClosedHandler(p, c) ==
    /\ ~tabClosed /\ fault = "none"
    /\ <<p, c>> \in handlers
    /\ handlers' = handlers \ {<<p, c>>}
    /\ IF p \in released
       THEN fault' = "useafterfree" /\ UNCHANGED <<queue, tabClosed, doomed>>
       ELSE IF IsLeaf(p) /\ control[p] \in CloseOnExit
       THEN RaiseClosed(p) /\ UNCHANGED fault
       ELSE UNCHANGED <<queue, tabClosed, fault, doomed>>
    /\ UNCHANGED <<splitState, firstChild, secondChild, control, lastFocused, released,
                   ctrlSubs, closedSubs, created, exited, focus, fontSubs, fontPending>>

(* UI thread: a control of the tab gets its proper font and raises        *)
(* FontSizeChanged with isInitialChange = true, once.  Every subscribed     *)
(* _FontSizeChangedHandler (309-315) runs on its raw `this` and calls      *)
(* _rootPane->ResizeContent, a pixel relayout (PaneLayout) that changes    *)
(* nothing here; on a released pane it reads freed memory.                 *)
InitialFontSize(c) ==
    /\ ~tabClosed /\ fault = "none"
    /\ c \in fontPending \cap TreeControls
    /\ fontPending' = fontPending \ {c}
    /\ fault' = IF fontSubs[c] \cap released # {} THEN "fontfreed" ELSE fault
    /\ UNCHANGED <<splitState, firstChild, secondChild, control, lastFocused, released,
                   ctrlSubs, closedSubs, created, exited, handlers, queue, focus,
                   tabClosed, doomed, fontSubs>>

(* UI thread: the dispatcher runs the oldest posted task, _CloseChild      *)
(* (520-654) of pane p under p's lock.  The lambda captured a raw `this`; *)
(* the child to close is named by its side, not by identity.               *)
CloseChildLeaf(p, closed, remaining) ==
    LET c == control[remaining] IN
    /\ control'     = [control EXCEPT ![p] = c]
    /\ ctrlSubs'    = [d \in Controls |->
                         IF d = c THEN (ctrlSubs[d] \ {remaining}) \cup {p}
                         ELSE IF d = control[closed] THEN ctrlSubs[d] \ {closed}
                         ELSE ctrlSubs[d]]
    /\ closedSubs'  = [closedSubs EXCEPT ![closed] = {}, ![remaining] = {}]
    /\ lastFocused' = [lastFocused EXCEPT ![p] = lastFocused[closed] \/ lastFocused[remaining]]
    /\ focus'       = IF lastFocused' [p] THEN c ELSE focus
    /\ splitState'  = [splitState EXCEPT ![p] = "None"]
    /\ firstChild'  = [firstChild EXCEPT ![p] = Nil]
    /\ secondChild' = [secondChild EXCEPT ![p] = Nil]
    /\ released'    = released \cup {closed, remaining}

\* Mutant of CloseChildSplit: the adopted grandchildren are not given new
\* Closed handlers (no _SetupChildCloseHandlers).
CloseChildSplitNoRewire(p, closed, remaining) ==
    LET f == firstChild[remaining]
        s == secondChild[remaining]
    IN
    /\ splitState'  = [splitState EXCEPT ![p] = splitState[remaining]]
    /\ firstChild'  = [firstChild EXCEPT ![p] = f, ![remaining] = Nil]
    /\ secondChild' = [secondChild EXCEPT ![p] = s, ![remaining] = Nil]
    /\ closedSubs'  = [closedSubs EXCEPT ![closed] = {}, ![remaining] = {}]
    /\ ctrlSubs'    = [ctrlSubs EXCEPT ![control[closed]] = @ \ {closed}]
    /\ focus'       = IF lastFocused[closed] THEN FirstLeafControl(f) ELSE focus
    /\ released'    = released \cup {closed, remaining}
    /\ UNCHANGED <<control, lastFocused>>

CloseChildSplit(p, closed, remaining) ==
    LET f == firstChild[remaining]
        s == secondChild[remaining]
    IN
    /\ splitState'  = [splitState EXCEPT ![p] = splitState[remaining]]
    /\ firstChild'  = [firstChild EXCEPT ![p] = f, ![remaining] = Nil]
    /\ secondChild' = [secondChild EXCEPT ![p] = s, ![remaining] = Nil]
    /\ closedSubs'  = [closedSubs EXCEPT ![f] = {<<p, TRUE>>}, ![s] = {<<p, FALSE>>},
                                         ![closed] = {}, ![remaining] = {}]
    /\ ctrlSubs'    = [ctrlSubs EXCEPT ![control[closed]] = @ \ {closed}]
    /\ focus'       = IF lastFocused[closed] THEN FirstLeafControl(f) ELSE focus
    /\ released'    = released \cup {closed, remaining}
    /\ UNCHANGED <<control, lastFocused>>

CloseChild ==
    /\ ~tabClosed /\ fault = "none"
    /\ queue # <<>>
    /\ queue' = Tail(queue)
    /\ LET p          == Head(queue)[1]
           closeFirst == Head(queue)[2]
           closed     == IF closeFirst THEN firstChild[p] ELSE secondChild[p]
           remaining  == IF closeFirst THEN secondChild[p] ELSE firstChild[p]
       IN
       IF p \in released
       THEN fault' = "useafterfree"
            /\ UNCHANGED <<splitState, firstChild, secondChild, control, lastFocused,
                           released, ctrlSubs, closedSubs, focus>>
       ELSE IF IsLeaf(p)
       THEN UNCHANGED <<splitState, firstChild, secondChild, control, lastFocused,
                        released, ctrlSubs, closedSubs, focus, fault>>
       \* closedChild->_control.ConnectionClosed(token) on a pane that has
       \* since been split: its _control is null.
       ELSE IF ~IsLeaf(closed)
       THEN fault' = "nullderef"
            /\ UNCHANGED <<splitState, firstChild, secondChild, control, lastFocused,
                           released, ctrlSubs, closedSubs, focus>>
       ELSE IF IsLeaf(remaining)
       THEN CloseChildLeaf(p, closed, remaining) /\ UNCHANGED fault
       ELSE CloseChildSplit(p, closed, remaining) /\ UNCHANGED fault
    /\ UNCHANGED <<created, exited, handlers, tabClosed, doomed, fontSubs, fontPending>>

(* UI thread: NavigateFocus (224-263) from the root.  The pane whose       *)
(* _NavigateFocus (185-209) handles the move, or Nil.                     *)
NavigateChild(p, dir) ==
    LET child == IF dir \in {"Right", "Down"} THEN secondChild[p] ELSE firstChild[p]
    IN  IF DirectionMatchesSplit(dir, splitState[p]) /\ ~lastFocused[child]
        THEN child ELSE Nil

RECURSIVE Navigator(_, _)
Navigator(p, dir) ==
    LET f == firstChild[p]
        s == secondChild[p]
        here == IF NavigateChild(p, dir) # Nil THEN p ELSE Nil
        below(q) == IF Navigator(q, dir) # Nil THEN Navigator(q, dir) ELSE here
    IN
    IF IsLeaf(p) THEN Nil
    ELSE IF (IsLeaf(f) /\ lastFocused[f]) \/ (IsLeaf(s) /\ lastFocused[s]) THEN here
    ELSE IF ~IsLeaf(f) /\ HasFocusedChild(f) THEN below(f)
    ELSE IF ~IsLeaf(s) /\ HasFocusedChild(s) THEN below(s)
    ELSE Nil

NavigateFocus(dir) ==
    LET p == Navigator(Root, dir) IN
    /\ ~tabClosed /\ fault = "none"
    /\ p # Nil
    /\ focus' = FirstLeafControl(NavigateChild(p, dir))
    /\ lastFocused' = UpdateFocusOn(p, lastFocused, focus')
    /\ UNCHANGED <<splitState, firstChild, secondChild, control, released, ctrlSubs,
                   closedSubs, created, exited, handlers, queue, tabClosed, fault, doomed,
                   fontSubs, fontPending>>

(* UI thread: the host calls UpdateFocus (450-465) on the root after a     *)
(* control gains focus.                                                    *)
UpdateFocus ==
    /\ ~tabClosed /\ fault = "none"
    /\ lastFocused' = UpdateFocusOn(Root, lastFocused, focus)
    /\ lastFocused' # lastFocused
    /\ UNCHANGED <<splitState, firstChild, secondChild, control, released, ctrlSubs,
                   closedSubs, created, exited, handlers, queue, focus, tabClosed, fault, doomed,
                   fontSubs, fontPending>>

(* The user clicks into a control of the tab, or focus leaves the tab.     *)
FocusControl(c) ==
    /\ ~tabClosed /\ fault = "none"
    /\ c \in TreeControls \cup {Nil}
    /\ focus' = c /\ focus # c
    /\ UNCHANGED <<splitState, firstChild, secondChild, control, lastFocused, released,
                   ctrlSubs, closedSubs, created, exited, handlers, queue, tabClosed, fault, doomed,
                   fontSubs, fontPending>>

-----------------------------------------------------------------------------
(* The tab starts as one leaf hosting FirstControl, focused.               *)
Init ==
    /\ splitState  = [p \in Panes |-> "None"]
    /\ firstChild  = [p \in Panes |-> Nil]
    /\ secondChild = [p \in Panes |-> Nil]
    /\ control     = [p \in Panes |-> IF p = Root THEN FirstControl ELSE Nil]
    /\ lastFocused = [p \in Panes |-> p = Root]
    /\ released    = {}
    /\ ctrlSubs    = [c \in Controls |-> IF c = FirstControl THEN {Root} ELSE {}]
    /\ closedSubs  = [p \in Panes |-> {}]
    /\ created     = {FirstControl}
    /\ exited      = {}
    /\ handlers    = {}
    /\ queue       = <<>>
    /\ focus       = FirstControl
    /\ tabClosed   = FALSE
    /\ fault       = "none"
    /\ doomed      = {}
    /\ fontSubs    = [c \in Controls |-> IF c = FirstControl THEN {Root} ELSE {}]
    /\ fontPending = {FirstControl}

Next ==
    \/ \E st \in SplitStates \ {"None"}, n1, n2 \in Panes, c \in Controls : Split(st, n1, n2, c)
    \/ \E p \in Panes : Close(p)
    \/ \E c \in Controls : ConnectionClosed(c)
    \/ \E h \in handlers : ControlClosedHandler(h[1], h[2])
    \/ CloseChild
    \/ \E dir \in Directions : NavigateFocus(dir)
    \/ UpdateFocus
    \/ \E c \in Controls \cup {Nil} : FocusControl(c)
    \/ \E c \in Controls : InitialFontSize(c)

(* The dispatcher drains its queue and every delivered handler gets its    *)
(* lock eventually; the user's actions carry no fairness.                  *)
Fairness ==
    /\ WF_vars(CloseChild)
    /\ \A p \in Panes, c \in Controls : WF_vars(ControlClosedHandler(p, c))

Spec == Init /\ [][Next]_vars /\ Fairness

-----------------------------------------------------------------------------
TypeOK ==
    /\ splitState \in [Panes -> SplitStates]
    /\ firstChild \in [Panes -> Panes \cup {Nil}]
    /\ secondChild \in [Panes -> Panes \cup {Nil}]
    /\ control \in [Panes -> Controls \cup {Nil}]
    /\ lastFocused \in [Panes -> BOOLEAN]
    /\ released \subseteq Panes
    /\ ctrlSubs \in [Controls -> SUBSET Panes]
    /\ closedSubs \in [Panes -> SUBSET (Panes \X BOOLEAN)]
    /\ created \subseteq Controls /\ exited \subseteq created
    /\ handlers \subseteq Panes \X Controls
    /\ queue \in Seq(Panes \X BOOLEAN)
    /\ focus \in Controls \cup {Nil}
    /\ tabClosed \in BOOLEAN
    /\ fault \in {"none", "nullderef", "useafterfree", "fontfreed"}
    /\ doomed \subseteq Controls
    /\ fontSubs \in [Controls -> SUBSET Panes]
    /\ fontPending \subseteq created

(* The tree that _Split and both branches of _CloseChild rebuild stays a   *)
(* tree, and stays wired for closing: every pane in it except the root has *)
(* exactly one parent, whose lambda is the only one on its Closed event and*)
(* names the side it is on; a leaf hosts a control and is the one pane     *)
(* subscribed to that control's ConnectionClosed; a parent hosts none.     *)
(* A break here is a close that is routed to the wrong pane or to nobody.  *)
TreeWired ==
    LET T == Tree IN
    \A p \in T :
        /\ p \notin released
        /\ IsLeaf(p) =>
              /\ control[p] # Nil
              /\ \A q \in T \ {p} : IsLeaf(q) => control[q] # control[p]
              /\ ctrlSubs[control[p]] = {p}
        /\ ~IsLeaf(p) =>
              /\ control[p] = Nil
              /\ firstChild[p] # secondChild[p]
              /\ closedSubs[firstChild[p]] = {<<p, TRUE>>}
              /\ closedSubs[secondChild[p]] = {<<p, FALSE>>}
        /\ p # Root =>
              Cardinality({q \in T : ~IsLeaf(q) /\ p \in {firstChild[q], secondChild[q]}}) = 1
        /\ p = Root => closedSubs[p] = {}

(* A queued _CloseChild only ever removes a pane that asked to be closed:  *)
(* every control that has left the tab's tree was hosted by a pane that    *)
(* raised Closed.  _CloseChild names its victim by side, so a second task  *)
(* for the same side must not take out the sibling that moved there.       *)
NoInnocentClose ==
    ~tabClosed => (created \ TreeControls) \subseteq doomed

(* _CloseChild never calls ConnectionClosed on the null _control of a      *)
(* child that was split after it raised Closed.                            *)
NoNullControlDeref == fault # "nullderef"

(* No _CloseChild task, _ControlClosedHandler or _FontSizeChangedHandler   *)
(* runs on a pane whose last shared_ptr is gone: all three hold a raw     *)
(* `this`.                                                                 *)
NoUseAfterFree == fault \notin {"useafterfree", "fontfreed"}

(* A control that exits with close-on-exit set eventually leaves the tab.  *)
ExitedControlLeaves ==
    \A c \in CloseOnExit :
        c \in exited ~> (c \notin TreeControls \/ fault # "none")
=============================================================================
