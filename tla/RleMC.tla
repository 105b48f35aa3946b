------------------------------- MODULE RleMC -------------------------------
(***************************************************************************)
(* Model-checking instance of Rle: three values, arrays of up to five     *)
(* cells, and splices of one or two normalised runs covering up to three  *)
(* cells.                                                                  *)
(***************************************************************************)
EXTENDS Rle, TLC

CONSTANTS a, b, c

MCValues == {a, b, c}

\* Run lists a caller builds for the iterator overload: one or two runs,
\* neighbours of different value, each run 1 or 2 long.
MCInsertRuns ==
    {r \in BoundedSeq([v : MCValues, n : 1..2], 2) :
        /\ r # <<>>
        /\ \A i \in 1..Len(r) - 1 : r[i].v # r[i + 1].v}

MCSymmetry == Permutations(MCValues)

\* Inserted coverage minus replaced length: shrink by one, equal, grow by one.
MCGrowShrink == {-1, 0, 1}

\* Rle refines CellArray: the decoded array follows the abstract operations.
Abs == INSTANCE CellArray WITH
           cells <- Decode(list),
           Inserts <- {Decode(r) : r \in InsertRuns}

AbsSpec == Abs!Spec
=============================================================================
