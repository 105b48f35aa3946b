----------------------------- MODULE CellArray -----------------------------
(***************************************************************************)
(* What til::rle promises its callers, stated without runs: a plain array *)
(* of values that is spliced, resized and recoloured.  Rle refines it     *)
(* under the mapping cells <- Decode(list) (see RleMC).                   *)
(***************************************************************************)
EXTENDS Integers, Sequences, SequencesExt

CONSTANTS
    Values,    \* the element type
    MaxSize,   \* bound on positions and lengths
    Inserts    \* the value sequences a caller may splice in

VARIABLE cells

\* Overwrite [pos, pos + len) with s; positions after it shift by Len(s) - len.
Splice(pos, len, s) ==
    /\ pos + len <= Len(cells)
    /\ cells' = SubSeq(cells, 1, pos) \o s \o SubSeq(cells, pos + len + 1, Len(cells))

\* Grow by repeating the last value, or cut to the first n values.
Resize(n) ==
    /\ n >= 1
    /\ cells' = IF n > Len(cells)
                THEN cells \o [k \in 1..n - Len(cells) |-> cells[Len(cells)]]
                ELSE SubSeq(cells, 1, n)

\* Every position holding old now holds new.
Recolour(old, new) ==
    cells' = [i \in DOMAIN cells |-> IF cells[i] = old THEN new ELSE cells[i]]

Repeat(v, len) == [k \in 1..len |-> v]

Init == \E n \in 1..MaxSize, v \in Values : cells = Repeat(v, n)

Next ==
    \/ \E pos, len \in 0..MaxSize :
          \E s \in Inserts \cup {Repeat(v, l) : v \in Values, l \in 0..MaxSize} :
              Splice(pos, len, s)
    \/ \E n \in 1..MaxSize : Resize(n)
    \/ \E old, new \in Values : Recolour(old, new)

Spec == Init /\ [][Next]_cells
=============================================================================
