# TLA+ models of the run-length store, the pane tree and the application state

This directory holds TLA+ models of the two components that `spec.md` names as the core of the repository.

- **RunStore** is `til::rle` in `src/src/inc/til/rle.h`, a run-length encoded array of cell attributes.
- **PaneTree** is `Pane` in `src/src/cascadia/TerminalApp/Pane.cpp`, the binary tree of split terminal panes in a tab.

- **ApplicationState** is `src/src/cascadia/TerminalSettingsModel/ApplicationState.cpp`, the "warning dismissed" flags that every window process keeps in one `state.json`. The spec names it only as an excluded collaborator. It is modelled here because its file protocol can lose data across processes and crashes.

The components do not interact. In the product, `til::rle` sits inside the terminal control that a pane hosts. The pane tree only sees that control as an opaque "content" object, so each component is modelled on its own.

Every definition is translated from the source. Each one is mapped to its lines in `PROJECT.json` under `"map"`.

## Inventory

| Part | Source | Model | Status |
|---|---|---|---|
| RunStore: `_merge` (fast paths and general splice), the iterator-range `replace` overloads (`replace(pos, value)`, `replace(pos, length, value)`, `replace(pos, length, first, last)`, and `replace(old, new)`), `fill`, `resize`, `substr`, `_at`, the `(size, value)` constructor, and the run iterator (`rle_const_iterator`: `+=`/`-=`, `++`/`--`, `-`, `<`, `begin`/`end`) | rle.h 14-294, 395-1115 | `Rle`, `CellArray`, `RleMC` | partly: the `replace` overloads taking another `rle` (477-491) and the default constructor are not modelled |
| PaneTree structure: `Split`/`_Split`, `Close`, `_ControlClosedHandler`, `_FontSizeChangedHandler`, `_CloseChild` (both branches), `_SetupChildCloseHandlers` | Pane.cpp 17-43, 275-330, 520-675, 823-923 | `PaneTree`, `PaneTreeMC` | modelled |
| PaneTree focus: `GetFocusedPane`, `_HasFocusedChild`, `UpdateFocus`, `_FocusFirstChild`, `NavigateFocus`/`_NavigateFocus` | Pane.cpp 185-263, 354-484 | `PaneTree` | modelled |
| PaneTree layout: `ResizePane`/`_Resize`, `ResizeContent`, `_CreateRowColDefinitions`, `_CreateSplitContent`, `_ApplySplitDefinitions`, `_GetMinSize`, `_GetMinSizeTree`, `_SnapSizeUpwards`, `_GetProposedSnapSizes`, `SnapDimension`, `_GetPaneSizes`, `_CalcSnappedPaneDimensions`, `_ClampSplitPosition`, `CanSplit`, `_CanSplit`, `Split`, `LayoutSizeNode`, and the layout effect of `_Split` and `_CloseChild` | Pane.cpp 14-25, 55-172, 520-653, 688-785, 793-840, 848-872, 936-1277 | `PaneLayout`, `PaneLayoutMC` | modelled |
| `UpdateSettings` | Pane.cpp 496-510 | none | changes control settings only, no pane state |
| ApplicationState: `GetForCurrentApp`, `_getStaticStorage`, `_load`/`LayerJson`, `Commit`, `Reload`, `Reset`, `_delete` | ApplicationState.cpp 30-157 | `ApplicationState`, `AppStateMC` (cfgs not among the listed runs, see "Further runs") | modelled |
| Monarch, FontInfoBase, XAML controls and hosts, RPC server, sample app, unit tests | the other files under `src/` | none | outside the core (spec section 1): plumbing over the UI and COM |

## How the parts work

### RunStore

The store keeps two pieces of state:
- `_list`, a vector of `(value, length)` runs;
- `_size`, the logical length.

Every mutator ends in `_merge(first, last, startIndex, coverLength)`, which splices a run list over the range `[startIndex, startIndex + coverLength)`. The mutators that reach it are `replace` (all overloads) and `fill`. `resize` and `replace(old, new)` do not use `_merge`; they edit `_list` directly.

`_merge` tries three fast paths before its general copy loop:
1. the whole store is one run of the same value;
2. the single-cell paths: recolour in place, or shift one cell into the previous or next run;
3. the insert covers everything.

### PaneTree

Each `Pane` is one of two kinds:
- a **leaf**, which hosts one `TermControl`;
- an **internal node**, which has `_firstChild`, `_secondChild` and a `_splitState`.

Three actors interleave.

**1. The UI thread.** It runs the host's calls: `Split`, `Close`, `NavigateFocus` and `UpdateFocus`. It also runs the `_CloseChild` tasks posted with `Dispatcher().RunAsync`, one at a time and in order.

**2. Background threads.** When a control's connection ends, `ConnectionClosed` fires once, to the handlers subscribed at that moment. Each pane's `_ControlClosedHandler` then takes that pane's `_createCloseLock`. If the pane is still a leaf and its control should close on exit, the handler raises `Closed`. The parent's lambda turns `Closed` into a posted `_CloseChild(closeFirst)`.

**3. The user.** The user moves keyboard focus between controls. The host then calls `UpdateFocus`.

Each pane's constructor also subscribes `_FontSizeChangedHandler` to its control's `FontSizeChanged`, with a raw `this`. When a control first gets its real font, it raises the event once with `isInitialChange` set, on the UI thread, and the handler lays out the whole tab again from `_rootPane`. `_Split` and `Close` revoke this subscription; `_CloseChild` does not touch it.

### PaneTree layout

Each split pane lays its children out in a XAML grid:
- one pixel column (row) definition per child, and an auto one for the 4-pixel separator;
- `_CreateRowColDefinitions` fills them from `_GetPaneSizes(fullSize)`;
- the first child gets the largest snapped size below `fullSize` and the second child all the rest.

The snapped sizes come from the upward-snap walk:
- `_CalcSnappedPaneDimensions` starts from the tree of minimum sizes (`_GetMinSizeTree`) and calls `_SnapSizeUpwards` until the pane's size reaches `fullSize`.
- A leaf advances one cell of its control.
- A split advances one child. Across the separator it picks the child that keeps the ratio closest to `_desiredSplitPosition`; along it, the smaller child.
- `_GetProposedSnapSizes` and `SnapDimension` answer "the nearest snap sizes around d" with the same algebra.

The operations that change the layout are:
- a host window resize, which calls `ResizeContent` on the root;
- `ResizePane`, which finds the split next to the focused leaf and moves `_desiredSplitPosition` by 5%, clamped by `_ClampSplitPosition`, then lays that split out again;
- `Split`, after `CanSplit`;
- `_CloseChild`.

## Modules

### `Rle.tla`: til::rle

**State.** `list` (a sequence of `[v, n]` records), `size` and `fault`. `fault` becomes `"failfast"` when a `FAIL_FAST_IF` aborts the process.

**Operators.**
- `Merge` is `_merge`: `SingleCellFastPath`, then `GeneralMerge`, branch by branch.
- `GeneralMerge` keeps the code's unsigned `endIndex`: it is computed `% 2^Width`.
- `AtIndex` is `_at`, including its fail-fast exits.
- `Substr` is `substr`.
- The iterator is a record `[run, usage]`: the run `_it` points into (`Len + 1` for `end()`) and the 1-based `_usage`. `IterForward` and `IterBackward` are the two seek loops of `operator+=`, `IterAdd` dispatches on the sign as `+=` does (and as `++`, `--`, `+`, `-=` and `[]` reach it). `IterDistance` is `operator-(right)` with its two walks, and `IterLess` is `operator<`. `At` is `at(position)`: the value of the run `_at` finds. `IterPosition` is the reference: the index an iterator stands for.

**Actions.** `ReplaceValue`, `ReplaceRuns`, `Fill`, `ReplaceEvery` (that is `replace(old, new)`) and `Resize`. `Resize` splits into `ResizeGrow` and `ResizeShrink`.

`Store` applies a `_merge` result. It never touches `size`, because `_merge` does not.

### `CellArray.tla`: the abstract RunStore

This is the array of cells the store stands for: a plain sequence of values with `Splice`, `Resize` and `Recolour`. `RleMC` instantiates it with `cells <- Decode(list)` (the decompressing iterator), and the `rle_core` run checks `AbsSpec`.

### `RleMC.tla`

**Constants.**
- Values are three model values, with symmetry over them.
- Insert run lists have at most two runs of length 1..2, with no equal neighbours.
- `MaxSize = 5` (4 for the violation runs).
- `Width = 8`, the bits of `S`.

**Controls.**
- `MinLength` is the shortest length passed to `replace`/`fill`: 1 excludes zero-length calls.
- `SpliceDeltas` is the allowed `coverage - coverLength` for the iterator `replace`: `{0}` keeps the size fixed, `{-1, 0, 1}` grows and shrinks.

### `PaneTree.tla`: split, close and focus

**State.** The fields of every pane are functions over a fixed set `Panes` of pane objects; ids are never reused, so a released pane stays recognisable. The other variables are:

| Variable | What it holds |
|---|---|
| `ctrlSubs[c]` | the panes whose `_ControlClosedHandler` is on `c.ConnectionClosed` |
| `closedSubs[p]` | the `<<parent, closeFirst>>` lambdas on `p.Closed` |
| `handlers` | delivered, not yet run, close handlers |
| `queue` | the dispatcher's posted `_CloseChild` tasks |
| `focus` | the control with keyboard focus |
| `released` | panes whose last `shared_ptr` is gone |
| `fontSubs[c]` | the panes whose `_FontSizeChangedHandler` is on `c.FontSizeChanged` |
| `fontPending` | controls that have not yet raised their initial `FontSizeChanged` |
| `tabClosed` | the root raised `Closed` |

**Actions.**
- `Split`: `Split` routes to the focused leaf, then `_Split` runs.
- `Close`: the host closes `GetFocusedPane()`.
- `ConnectionClosed(c)`: the control's event fires once and delivers to the current subscribers.
- `ControlClosedHandler(p, c)`.
- `CloseChild`: the head of the dispatcher queue. It has two branches, `CloseChildLeaf` and `CloseChildSplit`, plus two crash exits:
  - `"nullderef"`: the child to close has been split, so its `_control` is null (lines 555 and 611);
  - `"useafterfree"`: the pane the task or handler captured as a raw `this` has been released.
- `NavigateFocus(dir)`: the recursion of `NavigateFocus`/`_NavigateFocus` is the operator `Navigator`, which returns the pane that handles the move.
- `UpdateFocus`.
- `FocusControl`: the user clicks a control, or focus leaves the tab.
- `InitialFontSize(c)`: a control in the tab raises its initial `FontSizeChanged`. The relayout it triggers is pixel work (see `PaneLayout`), so it changes nothing here; on a released subscriber it is the crash `"fontfreed"`.

**Atomicity.** Every method that takes `_createCloseLock` is one step. The only other holders of that lock are the close handler, `_Split` and `_CloseChild`, so the lock makes this sound.

`_CloseChild` subscribes the parent before it revokes the child (547-556). An exit in that window reaches both panes. The child's handler then runs on a pane that either is released (`useafterfree`) or raises a `Closed` that nobody is subscribed to any more. Either way the outcome equals an exit just after the step, so the window adds nothing.

**Environment.**
- `ConnectionClosed` fires at most once per control (spec section 6).
- `DirectionMatchesSplit` is in `Pane.h`, which is not in the repository; it is taken from spec section 4.2.
- `CanSplit` depends on pixel sizes, which this module abstracts away. A refused split is a `Split` that does not happen.

**Fairness.** `Spec` has weak fairness on `CloseChild` (the dispatcher drains its queue) and on each `ControlClosedHandler` (a delivered handler eventually gets its lock). The user's actions carry no fairness.

### `PaneTreeMC.tla`

**Constants.**
- Five panes: the root plus two splits' worth of children.
- Three controls, all closing on exit.
- Symmetry over the non-root panes and the non-initial controls.
- `MCConstraint` bounds the dispatcher queue at `MCMaxQueue = 2`. Repeated `Close` calls before the dispatcher runs would otherwise grow it without end. It also keeps at most `MCMaxFontPending = 1` control waiting for its first font: a new control normally gets its font before the next split, and one waiting control is enough for the use-after-free below.

`MCView` is the passing run's view. It leaves out two things:
- the history variable `doomed`;
- the `FontSizeChanged` subscriptions of controls that can no longer raise their initial change (`LiveFontSubs`);
- the fields of panes outside the tree. An unborn pane gets all of them overwritten by `Split`. A released pane makes any task or handler that reaches it fault, whatever those fields hold.

`MCSmallPanes`/`MCSmallControls` (three panes, two controls) serve the liveness run. That run has no symmetry.

`CHECK_DEADLOCK FALSE` is set because the model really stops in two cases: once the tab has closed, nothing is enabled; and after a crash, the process is gone.

### `PaneLayout.tla`: sizes, snapping and grid definitions

State:
- `tree[p]`, a record per pane: `split`, `first`, `second`, `content`, `pos` (`_desiredSplitPosition`, an exact rational) and `defs` (the two pixel definitions of its grid along the split axis);
- `focus`, the leaf whose `_lastFocused` is set;
- `window`, the size the host last gave the root.

The code only ever sets a pane's definitions across its own split axis: `_Split` starts from a fresh or cleared grid, and `_CloseChild` clears both before it copies. So `defs` stands for both `ColumnDefinitions` and `RowDefinitions`.

The snap algebra consists of pure `RECURSIVE` operators that take the tree as an argument, so an action can lay out its own result. A `LayoutSizeNode` is a record (`MinSizeNode` is its constructor) whose null children and null cached next nodes are `Nil`. `SnapSizeUpwards` keeps the code's caching of `nextFirstChild`/`nextSecondChild`. `Layout` gives each pane the size its parent's grid gives it: the definition along the split axis, the parent's size across it.

| Action | Code |
|---|---|
| `WindowResize(ws)` | the host's resize: `ResizeContent` on the root, for any window size (`_GetPaneSizes` accepts a size that is arbitrarily low, Pane.cpp:932) |
| `ResizePane(dir)` | `ResizePane` → `_Resize` → `_ClampSplitPosition` → `ResizeContent` on that split |
| `Split(st, n1, n2, c)` | `Split`, after `CanSplit`. Both walk down by `_HasFocusedChild` (`CanSplitRouted`, `SplitTarget`); a root that is itself a leaf splits whatever the focus. Then `_Split` and `_CreateSplitContent`; focus is cleared |
| `CloseChild(q, closeFirst)` | `_CloseChild` of a leaf's parent, with both branches (`CloseChildLeaf`, `CloseChildSplit`) |
| `UpdateFocus(l)` | the user focuses leaf `l` |

`_HasFocusedChild` reads the XAML focus state, while `ResizePane` reads `_lastFocused`. `UpdateFocus` runs on every focus change, so the model uses one focused leaf for both.

### `PaneLayoutMC.tla`

**Constants.**
- Five panes: two splits.
- Two terminal kinds with the same minimum size (5×3) and different cells (3×2 and 4×3), so that grids interleave.
- Two window sizes, 24×14 and 31×19.
- `SnapSpan = 8` pixels of snap queries above each pane's minimum.
- `MCMinSizeUneven` gives the second kind a larger minimum (9×6), for `PaneLayoutSplitMinMC.cfg`.

**Constraints and view.**
- `MCConstraint` keeps split positions within `MCMaxNudges = 1` step of one half. `_ClampSplitPosition` still bites: nested panes have minimum shares above 0.45, and both clamp bounds are hit in the passing run.
- Symmetry over the non-root panes.
- `MCView` normalises panes outside the tree and the stale position of leaves, which `Split` overwrites before it is read.


| Run | cfg | Expect | What it shows |
|---|---|---|---|
| `rle_core` | `RleMC.cfg` | pass | With in-bounds, positive-length, size-preserving calls (186 states): the runs cover `_size` with non-empty runs; `replace(pos, len, substr(pos, len))` is the identity; `at` agrees with the decompressed cells; the iterator seeks, orders and subtracts (rightward) as index arithmetic on every reachable run list; every step is a step of `CellArray` |
| `rle_splice_size` | `RleGrowMC.cfg` | violation | A grow/shrink splice leaves `_size` stale: `_merge` never writes it |
| `rle_fast_path` | `RleFastPathMC.cfg` | violation | The single-cell fast path differs from the general splice on `[b1, a1]`: it recolours without fusing |
| `rle_adjacent` | `RleAdjacentMC.cfg` | violation | `[a2] → [b1, a1] → [a1, a1]`: equal neighbours left behind |
| `rle_zero_run` | `RleZeroMC.cfg` | violation | `replace(1, 0, ., b)` on `[a1]` stores `[a1, b0]` |
| `rle_fail_fast` | `RleFailFastMC.cfg` | violation | `replace(0, 0, ., v)` wraps `endIndex` and FAIL_FASTs |
| `pane_tree` | `PaneTreeMC.cfg` | pass | Every interleaving (about 625k distinct states up to `MCView`, under two minutes) keeps a tree wired for closing (`TreeWired`) and every pane it reaches alive. That at most one leaf holds `_lastFocused` is not checked: the case where it fails needs five leaves (see the hazard at Pane.cpp:146), beyond this bound |
| `pane_null_control` | `PaneTreeNullMC.cfg` | violation | Split, exit, handler raises `Closed`, split again, then `_CloseChild` dereferences a null control |
| `pane_use_after_free` | `PaneTreeFreeMC.cfg` | violation | After a split the old control exits; `_CloseChild` moves the new control up and releases its pane, and the control's initial `FontSizeChanged` runs on the freed child (541-585). Two exits together let a close handler in flight do the same |
| `pane_wrong_victim` | `PaneTreeInnocentMC.cfg` | violation | Two `Close` calls of the same leaf: the second task closes the sibling that moved into its side |
| `pane_exit_liveness` | `PaneTreeExitMC.cfg` | violation | Both controls exit; the survivor absorbs an exited control that is never closed |
| `pane_layout` | `PaneLayoutMC.cfg` | pass | Over 15.7k states, covering splits, both close branches, resizes with both clamp bounds hit, and window resizes: `_GetProposedSnapSizes` reports the walk's neighbours of every query; `ResizePane` right or down never shrinks the first child |

### `ApplicationState.tla`: state.json

State:
- `disk`, the file: absent, empty (truncated) or a JSON document, shown as the set of keys it holds as true;
- `objs`, every `ApplicationState` object created, with its process, flags, `_invalidated` and whether its process is still alive;
- `storage[p]`, the object `_getStaticStorage` holds in process `p`;
- `pc[p]`, the Commit `p` has between `CreateFileW` and `WriteFile`;
- two history variables: `durable` (flags a returned Commit wrote since the last Reset) and `sinceReset` (flags dismissed since it).

| Action | Code |
|---|---|
| `GetForCurrentApp(p)` | the mutex-guarded branch that creates, `_load`s and stores a new object when the stored one is missing or invalidated. Handing out the stored object changes nothing |
| `Dismiss(p, o, k)` | a generated flag setter. The header is not under `src/`, so this is modelled from the property name |
| `CommitOpen(p, o)` | `Commit` up to `CreateFileW`: an invalidated object returns; otherwise `ToJson` snapshots the flags and `CREATE_ALWAYS` empties the file |
| `CommitWrite(p)` | `WriteFile` of the snapshot |
| `Reload(p, o)` | `_invalidated = true` |
| `Reset(p, o)` | `_delete` (`Delete(o)`: remove the file, invalidate), then invalidate |

`FaultSpec` adds two faults the code meets but does not handle. `CommitWriteFails(p)`: `WriteFile` fails and `THROW_LAST_ERROR_IF` leaves the file empty. `Crash(p)`: the process dies at any point, and its objects and storage go with it.

Properties:
- `CommittedDismissalsPersist`: whenever no Commit is half done, every flag in `durable` loads from the file.
- `ResetIsFinal`: the file holds only flags dismissed since the last Reset.

`AppStateMC` gives two processes, two keys and at most three objects. Callers may keep any object they were handed, including ones kept across Reload or Reset.

### Further runs

All twelve run slots of `PROJECT.json` were taken before `ApplicationState` was modelled, so its cfgs are not listed there. Each was checked with TLC:

| cfg | Expect | What it shows |
|---|---|---|
| `AppStateMC.cfg` | pass (2,047 states) | In one process, with no fault, `TypeOK` and `CommittedDismissalsPersist` hold through Reload, Reset and kept handles. Three mutants each break `CommittedDismissalsPersist` or `TypeOK`: `GetForCurrentAppNoLoad` (no `_load`), `CommitOpenIgnoresInvalidated` (no early return), `GetForCurrentAppSkipsSlot` (off-by-one store) |
| `AppStateLostUpdateMC.cfg` | violation of `CommittedDismissalsPersist` | Two processes. `p1` starts a Commit of `{k1}`, which empties the file. `p2` then loads the empty file, and its Commit of `{}` lands last, so `k1` is lost (ApplicationState.cpp:49, 140) |
| `AppStateFaultMC.cfg` | violation of `CommittedDismissalsPersist` | `FaultSpec`, one process. A failed `WriteFile` after `CREATE_ALWAYS` (:148), or a crash between the two calls (:140), leaves an empty file that loads as no flags |
| `AppStateResetMC.cfg` | violation of `ResetIsFinal` | One process. Reload, `GetForCurrentApp`, then `Reset` through the kept handle: only that handle is invalidated, and the stored object commits the old flag back. This contradicts "unregistering it globally" (:120, :124) |

### Further disagreements

TLC finds the following properties violated, each with its own cfg over `PaneLayoutMC` or `RleMC`. They are not among the runs listed in `PROJECT.json`; the hazards there point to them.

| Property | cfg | What the code does | Against |
|---|---|---|---|
| `SecondNonDecreasing` | `PaneLayoutMonotoneMC.cfg` | One pixel more for a split shrinks its second child once the first child can snap one cell up (`_GetPaneSizes`, Pane.cpp:944) | spec section 8, monotonicity |
| `SnapTieFavorsLower` | `PaneLayoutTieMC.cfg` | A query halfway between two snap sizes gets the higher one (strict `<`, Pane.cpp:1020); the initial state already shows it | spec 4.2 (its own section 8 example agrees with the code) |
| `NoPixelLoss` | `PaneLayoutPixelLossMC.cfg` | In `[A \| [B \| C]]`, closing `A` copies the column definitions of `B \| C` (16 pixels with the separator) into the 31-pixel root, and nothing lays it out again (Pane.cpp:622) | spec section 8, no pixel loss |
| `SurvivorSplitKept` | `PaneLayoutSurvivorMC.cfg` | The same close keeps the root's moved `_desiredSplitPosition` instead of the survivor's (Pane.cpp:596) | spec 4.2, splice one level out |
| `IteratorDistanceBothWays` | `RleIterDistanceMC.cfg` | `it1 - it2` with `it1` before `it2` subtracts `it1._usage` for every run it walks back, not the used space of the walking copy: `(begin() + 1) - end()` on one run of length 2 gives -2 (rle.h:224); the initial state shows it | the random-access iterator contract, and the comment at rle.h:220 |
| `PanesAtLeastMin` | `PaneLayoutSplitMinMC.cfg` | With a second terminal kind of minimum 9×6, `_CanSplit` allows a vertical split of a 5-pixel-high pane into it (Pane.cpp:860) | spec 4.2, Split must refuse |

`PROJECT.json` lists the outcomes of the runs as findings. Each property of a passing run has a mutant in `PROJECT.json`: a plausible bug in one mapped definition that the run detects.

## Bounds

**RunStore.** The hard cases need only a few cells and a few runs:
- a run split by a splice;
- fusion at either boundary;
- the remainder of a run left past the insert;
- the fast-path branches;
- the wrap of `endIndex`.

Five cells, three values and inserts of up to two runs produce all of them. Each branch of `Merge` is taken in `rle_core`.

**PaneTree.** Every race found needs at most two splits and three controls, with two posted tasks at once. The passing run covers every action, every `CloseChild` branch and both crash exits.

**ApplicationState.** Every violation needs at most two processes, two Commits and three objects. With one process and three objects, every order of Reload, Reset and a kept-handle Commit is reached.

**PaneLayout.** The window sizes leave room for two splits along either axis. The snap queries span more than two cells of either kind, so the walk crosses both grids. Every finding needs at most two splits.

## Not modelled, and the plan

**PaneLayout.**
- Floats are exact: a float split position (`0.5f - 0.05f`) is not, and the deviation comparison in `_SnapSizeUpwards` may break float ties differently.
- The host is outside `src/`. `WindowResize` accepts any size, as `_GetPaneSizes` does, but the window sizes `PaneLayoutMC` enumerates leave room for two splits. Below the tree's minimum, `_GetPaneSizes` can yield negative columns and `_ClampSplitPosition` calls `std::clamp` with crossed bounds. No listed run reaches those cases; `PanesAtLeastMin`, which would catch them, is checked only with `PaneLayoutSplitMinMC.cfg`, where it is violated.
- The layout is modelled apart from the close race of `PaneTree`. `CloseChild` here is the atomic effect of a posted `_CloseChild`.

**Monarch** (Remoting/Monarch.cpp) is a toy cross-process window registry, and the spec places it out of scope.
- Its `AddPeasant` ID bookkeeping and the `-w` routing of `ProposeCommandline` could be modelled.
- However, `Monarch.h`, with the initial values of `_nextPeasantID`, `_mostRecentPeasant` and `_windowingBehavior`, and the `Peasant` side are not under `src/`.
- No run slot is free for it.

Not modelled:
- the unvalidated `substr` with `count = 0`;
- the default constructor of `til::rle`.

`PROJECT.json` explains both under `"hazards"`.
