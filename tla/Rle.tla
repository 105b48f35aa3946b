-------------------------------- MODULE Rle --------------------------------
(***************************************************************************)
(* til::rle<T, S> (src/src/inc/til/rle.h): a run-length encoded array.    *)
(* The state is the run list _list (a sequence of [v, n] records: a value *)
(* and how many consecutive positions hold it) and the logical length     *)
(* _size.  Every public mutator is one action; the splice they all reduce *)
(* to, _merge, is the operator Merge, translated branch by branch         *)
(* including its fast paths and its FAIL_FAST exits.                      *)
(***************************************************************************)
EXTENDS Integers, Sequences, SequencesExt

CONSTANTS
    Values,       \* the element type T, as model values
    MaxSize,      \* bound on _size and on the positions and lengths passed in
    InsertRuns,   \* the run sequences offered to the iterator overload of replace
    Width,        \* bit width of S (size_t); positions are computed modulo 2^Width
    MinLength,    \* shortest length a caller passes to replace and fill (0 or 1)
    SpliceDeltas  \* allowed coverage(inserted runs) - length in the iterator replace

ASSUME MaxSize \in Nat \ {0}
ASSUME MinLength \in {0, 1} /\ SpliceDeltas \subseteq Int
ASSUME Width \in Nat /\ 2^Width > 2 * MaxSize

VARIABLES
    list,    \* _list
    size,    \* _size
    fault    \* "none", or "failfast" once a FAIL_FAST has aborted the process

vars == <<list, size, fault>>

Modulus == 2^Width

\* The outcome of a _merge: the new run list, or ok = FALSE when the code
\* reaches FAIL_FAST or walks past the end of _list.
Done(runs) == [ok |-> TRUE, runs |-> runs]
FAIL == [ok |-> FALSE, runs |-> <<>>]

-----------------------------------------------------------------------------
(* Helpers over run lists.                                                 *)

\* Total coverage of a run list: std::accumulate over item.second.
Coverage(runs) == FoldLeft(LAMBDA acc, r : acc + r.n, 0, runs)

\* Coverage of the first i runs (the running totalLength / existingCoverage).
CoverTo(runs, i) == Coverage(SubSeq(runs, 1, i))

\* The decompressed array a run list stands for.
Decode(runs) == FlattenSeq([i \in DOMAIN runs |-> [k \in 1..runs[i].n |-> runs[i].v]])

\* _at(position, applies): the index of the run covering position, or 0 where
\* the code fails fast (position >= _size, or the runs end before reaching it).
AtIndex(runs, sz, position) ==
    IF position >= sz \/ runs = <<>> THEN 0
    ELSE LET hits == {i \in 1..Len(runs) : CoverTo(runs, i) > position}
         IN IF hits = {} THEN 0
            ELSE CHOOSE i \in hits : \A j \in hits : i <= j

\* at(position) (436-446): the value of the run _at finds; it throws
\* E_INVALIDARG for position >= _size, which no caller here passes.
At(runs, sz, position) == runs[AtIndex(runs, sz, position)].v

\* The "applies" out-parameter of _at: positions left in that run.
Applies(runs, position, i) == CoverTo(runs, i) - position

SetLen(runs, i, len) == [runs EXCEPT ![i].n = len]

-----------------------------------------------------------------------------
\* "If we just reduced the right half to zero, just erase it out of the
\* list" (874-877, 900-903): run i leaves the list once it is empty.
EraseIfEmpty(runs, i) == IF runs[i].n = 0 THEN RemoveAt(runs, i) ELSE runs

(* _merge, single-cell fast path (rle.h 815-920): only the run containing  *)
(* startIndex is inspected; ok = FALSE means "fall through".               *)
SingleCellFastPath(runs, startIndex, newAttr) ==
    LET i     == AtIndex(runs, Coverage(runs), startIndex)
        lower == CoverTo(runs, i - 1)
        upper == CoverTo(runs, i)
    IN  IF i = 0 THEN FAIL
        ELSE IF runs[i].v = newAttr THEN Done(runs)
        ELSE IF runs[i].n = 1 THEN Done([runs EXCEPT ![i].v = newAttr])
        ELSE IF startIndex = lower /\ i > 1 /\ runs[i - 1].v = newAttr
             THEN Done(EraseIfEmpty([runs EXCEPT ![i - 1].n = @ + 1, ![i].n = @ - 1], i))
        ELSE IF startIndex = upper - 1 /\ i < Len(runs) /\ runs[i + 1].v = newAttr
             THEN Done(EraseIfEmpty([runs EXCEPT ![i].n = @ - 1, ![i + 1].n = @ + 1], i))
        ELSE FAIL

\* Mutant of SkippedPiece: >= for >, so an insert that ends exactly on a
\* run boundary also "recovers" a piece of the run it covered.
SkippedPieceOrBoundary(cov, endIndex) == cov >= endIndex + 1

\* existingCoverage > (endIndex + 1) (1048): the insert ended inside the
\* existing run the skip loop stopped on.
SkippedPiece(cov, endIndex) == cov > endIndex + 1

\* Mutant of Uncovered: counts endIndex itself as not covered by the insert.
UncoveredPlusOne(cov, endIndex) == cov - endIndex

\* The columns of the existing run the insert ended inside that it does not
\* cover, existingCoverage - (endIndex + 1) (1048-1081).
Uncovered(cov, endIndex) == cov - (endIndex + 1)

(* _merge, general splice (rle.h 940-1114).                                *)
GeneralMerge(runs, ins, startIndex, coverLength) ==
    LET newCov == Coverage(ins)
        grow   == IF newCov > coverLength THEN newCov - coverLength ELSE 0
        shrink == IF coverLength > newCov THEN coverLength - newCov ELSE 0
        \* Copy runs while existingCoverage < startIndex (956-966).
        reach  == {j \in 1..Len(runs) : CoverTo(runs, j) >= startIndex}
        copied == IF startIndex = 0 THEN 0
                  ELSE CHOOSE j \in reach : \A k \in reach : j <= k
        cov0   == CoverTo(runs, copied)
        \* Trim the last copied run to stop at startIndex, fuse with ins[1] (985-1011).
        trimmed == runs[copied].n - (cov0 - startIndex)
        fuse    == startIndex # 0 /\ runs[copied].v = ins[1].v
        head    == IF startIndex = 0 THEN <<>>
                   ELSE SetLen(SubSeq(runs, 1, copied), copied,
                               IF fuse THEN trimmed + ins[1].n ELSE trimmed)
        built   == head \o (IF fuse THEN Tail(ins) ELSE ins)
        endIndex == (startIndex + shrink + (newCov - grow) - 1) % Modulus
        \* Skip existing runs while existingCoverage <= endIndex (1024-1029).
        past    == {i \in copied..Len(runs) : CoverTo(runs, i) > endIndex}
        m       == CHOOSE i \in past : \A j \in past : i <= j
        cov     == CoverTo(runs, m)
        rest    == SubSeq(runs, m + 1, Len(runs))
        lastB   == built[Len(built)]
    IN  IF (startIndex # 0 /\ reach = {}) \/ past = {} THEN FAIL
        ELSE IF m = Len(runs) /\ cov = endIndex + 1 THEN Done(built)
        \* The insert ends inside run m: recover its uncovered tail (1048-1081).
        ELSE IF SkippedPiece(cov, endIndex)
             THEN IF lastB.v = runs[m].v
                  THEN Done(SetLen(built, Len(built), lastB.n + Uncovered(cov, endIndex)) \o rest)
                  ELSE Done(built \o <<[v |-> runs[m].v, n |-> Uncovered(cov, endIndex)]>> \o rest)
        \* The insert ends on a boundary: fuse with the next run (1094-1103).
        ELSE IF lastB.v = runs[m + 1].v
             THEN Done(SetLen(built, Len(built), lastB.n + runs[m + 1].n) \o Tail(rest))
        ELSE Done(built \o rest)

(* _merge(first, last, startIndex, givenCoverLength) (rle.h 739-1115).     *)
Merge(runs, sz, ins, startIndex, coverLength) ==
    LET newCov == Coverage(ins)
        single == SingleCellFastPath(runs, startIndex, ins[1].v)
        same   == coverLength = newCov
    IN  IF same /\ Len(ins) = 1 /\ Len(runs) = 1 /\ runs[1].v = ins[1].v THEN Done(runs)
        ELSE IF same /\ Len(ins) = 1 /\ newCov = 1 /\ single.ok THEN single
        ELSE IF same /\ startIndex = 0 /\ newCov = sz THEN Done(ins)
        ELSE GeneralMerge(runs, ins, startIndex, coverLength)

-----------------------------------------------------------------------------
(* Operations.                                                             *)

\* Applies the outcome of a _merge: the new run list, or the FAIL_FAST abort.
\* _merge never writes _size.
Store(result) ==
    IF result.ok
    THEN /\ list' = result.runs /\ UNCHANGED <<size, fault>>
    ELSE /\ fault' = "failfast" /\ UNCHANGED <<list, size>>

\* replace(pos, length, repeat, value) (493-499): one item {value, length}.
ReplaceValue(pos, length, value) ==
    /\ fault = "none"
    /\ pos + length <= size
    /\ Store(Merge(list, size, <<[v |-> value, n |-> length]>>, pos, length))

\* replace(pos, length, first, last) (501-505): splice an arbitrary run list.
ReplaceRuns(pos, length, ins) ==
    /\ fault = "none"
    /\ pos + length <= size
    /\ Store(Merge(list, size, ins, pos, length))

\* fill(value, start) (554-558) = replace(start, _size - start, ., value).
Fill(value, start) ==
    /\ fault = "none"
    /\ start <= size
    /\ Store(Merge(list, size, <<[v |-> value, n |-> size - start]>>, start, size - start))

\* replace(oldValue, newValue) (466-475): recolour every run holding oldValue.
ReplaceEvery(oldValue, newValue) ==
    /\ fault = "none"
    /\ list' = [i \in DOMAIN list |->
                  IF list[i].v = oldValue THEN [list[i] EXCEPT !.v = newValue] ELSE list[i]]
    /\ UNCHANGED <<size, fault>>

\* Mutant of ResizeGrow: the last run is extended by newSize, not by
\* newSize - _size.
ResizeGrowWhole(newSize) ==
    /\ list' = SetLen(list, Len(list), list[Len(list)].n + newSize)
    /\ size' = newSize
    /\ UNCHANGED fault

\* resize, longer (515-525): extend the last run by the added columns.
ResizeGrow(newSize) ==
    /\ list' = SetLen(list, Len(list), list[Len(list)].n + newSize - size)
    /\ size' = newSize
    /\ UNCHANGED fault

\* Mutant of ResizeShrink: the kept run loses `applies` columns, one too many.
ResizeShrinkShort(newSize) ==
    LET i == AtIndex(list, size, newSize - 1)
    IN  IF i = 0
        THEN fault' = "failfast" /\ UNCHANGED <<list, size>>
        ELSE /\ list' = SetLen(SubSeq(list, 1, i), i, list[i].n - Applies(list, newSize - 1, i))
             /\ size' = newSize
             /\ UNCHANGED fault

\* resize, shorter (527-548): cut the run covering newSize - 1, erase the rest.
ResizeShrink(newSize) ==
    LET i == AtIndex(list, size, newSize - 1)
    IN  IF i = 0
        THEN fault' = "failfast" /\ UNCHANGED <<list, size>>
        ELSE /\ list' = SetLen(SubSeq(list, 1, i), i,
                               list[i].n - Applies(list, newSize - 1, i) + 1)
             /\ size' = newSize
             /\ UNCHANGED fault

\* resize(newSize) (510-550); resize(0) throws and changes nothing.
Resize(newSize) ==
    /\ fault = "none"
    /\ newSize # 0
    /\ IF newSize > size THEN ResizeGrow(newSize) ELSE ResizeShrink(newSize)

\* Mutant of Substr: the last run is cut one column short.
SubstrShort(runs, sz, offset, count) ==
    LET endIndex == (IF sz - offset < count THEN sz - offset ELSE count) + offset - 1
        first    == AtIndex(runs, sz, offset)
        last     == AtIndex(runs, sz, endIndex)
        cut      == SetLen(SubSeq(runs, first, last), 1, Applies(runs, offset, first))
        sub      == SetLen(cut, Len(cut), cut[Len(cut)].n - Applies(runs, endIndex, last))
    IN  [list |-> sub, size |-> endIndex - offset + 1]


\* substr(offset, count) (447-462): a new store over [offset, offset+count).
Substr(runs, sz, offset, count) ==
    LET endIndex == (IF sz - offset < count THEN sz - offset ELSE count) + offset - 1
        first    == AtIndex(runs, sz, offset)
        last     == AtIndex(runs, sz, endIndex)
        cut      == SetLen(SubSeq(runs, first, last), 1, Applies(runs, offset, first))
        sub      == SetLen(cut, Len(cut), cut[Len(cut)].n - Applies(runs, endIndex, last) + 1)
    IN  [list |-> sub, size |-> endIndex - offset + 1]

-----------------------------------------------------------------------------
(* rle_const_iterator (14-294): a position is the pair (_it, _usage), the  *)
(* run it points into (Len + 1 for _list.end()) and the 1-based position   *)
(* inside that run.                                                         *)

\* begin() and end() (576-589): the constructor sets _usage = 1.
IterBegin == [run |-> 1, usage |-> 1]
IterEnd(runs) == [run |-> Len(runs) + 1, usage |-> 1]

\* Mutant of IterForward: the jump to the next list item resets _usage to
\* 0, as if it were 0-based, instead of to the first position 1.
RECURSIVE IterForwardZeroUsage(_, _, _)
IterForwardZeroUsage(runs, it, move) ==
    IF move <= 0 THEN it
    ELSE LET space == runs[it.run].n - it.usage
         IN  IF space >= move THEN [it EXCEPT !.usage = @ + move]
             ELSE IterForwardZeroUsage(runs, [run |-> it.run + 1, usage |-> 0], move - (space + 1))

\* operator+=, positive direction (134-173): burn out runs until the
\* remaining move fits in the current one.
RECURSIVE IterForward(_, _, _)
IterForward(runs, it, move) ==
    IF move <= 0 THEN it
    ELSE LET space == runs[it.run].n - it.usage
         IN  IF space >= move THEN [it EXCEPT !.usage = @ + move]
             ELSE IterForward(runs, [run |-> it.run + 1, usage |-> 1], move - (space + 1))

\* operator+=, negative direction (93-133): step back run by run, landing on
\* the last position of the previous run.
RECURSIVE IterBackward(_, _, _)
IterBackward(runs, it, move) ==
    IF move <= 0 THEN it
    ELSE LET space == it.usage - 1
         IN  IF space >= move THEN [it EXCEPT !.usage = @ - move]
             ELSE IterBackward(runs, [run |-> it.run - 1, usage |-> runs[it.run - 1].n],
                               move - it.usage)

\* operator+= (91-175), and through it +, -=, -, ++, -- and [] (177-192,
\* 238-241, 276-290).
IterAdd(runs, it, offset) ==
    IF offset < 0 THEN IterBackward(runs, it, -offset) ELSE IterForward(runs, it, offset)

\* operator-(right) (194-236): walk a copy tmp of right towards this
\* iterator's run, accumulating the positions passed.
IterDistance(runs, this, right) ==
    LET RECURSIVE Right(_, _), Left(_, _)
        \* while (_it > tmp._it): add what is left of tmp's run, plus one.
        Right(tmp, acc) ==
            IF this.run > tmp.run
            THEN Right([run |-> tmp.run + 1, usage |-> 1], acc + runs[tmp.run].n - tmp.usage + 1)
            ELSE Left(tmp, acc)
        \* while (_it < tmp._it): subtract _usage, this iterator's own usage.
        Left(tmp, acc) ==
            IF this.run < tmp.run
            THEN Left([run |-> tmp.run - 1, usage |-> runs[tmp.run - 1].n], acc - this.usage)
            ELSE acc + this.usage - tmp.usage
    IN  Right(right, 0)

\* operator< (254-258), and through it >, <= and >= (260-274).
IterLess(it, right) ==
    it.run < right.run \/ (it.run = right.run /\ it.usage < right.usage)

\* The index an iterator addresses, by its definition: the runs before it
\* plus its usage.
IterPosition(runs, it) == CoverTo(runs, it.run - 1) + it.usage - 1

-----------------------------------------------------------------------------
\* rle(size, value) (421-425): the constructor fills a fresh store.
Init ==
    /\ size \in 1..MaxSize
    /\ \E value \in Values : list = <<[v |-> value, n |-> size]>>
    /\ fault = "none"

Next ==
    \/ \E pos \in 0..MaxSize, length \in MinLength..MaxSize, value \in Values :
          ReplaceValue(pos, length, value)
    \/ \E pos \in 0..MaxSize, ins \in InsertRuns, d \in SpliceDeltas :
          /\ Coverage(ins) - d \in MinLength..MaxSize
          /\ ReplaceRuns(pos, Coverage(ins) - d, ins)
    \/ \E value \in Values, start \in 0..MaxSize :
          /\ start <= size - MinLength
          /\ Fill(value, start)
    \/ \E old, new \in Values : ReplaceEvery(old, new)
    \/ \E newSize \in 1..MaxSize : Resize(newSize)

Spec == Init /\ [][Next]_vars

-----------------------------------------------------------------------------
(* Properties.                                                             *)

TypeOK ==
    /\ list \in Seq([v : Values, n : 0..MaxSize])
    /\ size \in 1..MaxSize
    /\ fault \in {"none", "failfast"}

\* The runs cover exactly _size positions: the sum of run lengths equals
\* size() after every mutator (spec section 8), so that at() and resize(),
\* which trust _size, address real runs.
SizeMatchesRuns == Coverage(list) = size

\* Every run has length at least 1 (spec section 3): no mutator leaves an
\* empty run in _list.
PositiveRunLengths == \A i \in DOMAIN list : list[i].n >= 1

\* No two adjacent runs hold the same value (spec section 3): _merge,
\* including its single-cell fast path, fuses equal neighbours.
NoAdjacentEqualRuns == \A i \in 1..Len(list) - 1 : list[i].v # list[i + 1].v

\* The single-cell fast paths of _merge give the same run list as the
\* general splice would (spec section 4.1: fast paths "must produce results
\* identical to the general algorithm"; equality of stores is structural).
FastPathMatchesGeneral ==
    \A pos \in 0..size - 1, value \in Values :
        LET ins == <<[v |-> value, n |-> 1]>>
        IN  Merge(list, size, ins, pos, 1) = GeneralMerge(list, ins, pos, 1)

\* A call within bounds never aborts the process through FAIL_FAST.
NoFailFast == fault = "none"

\* On a store without equal neighbours, splicing a substring back where it
\* came from leaves the run list structurally unchanged: replace(pos, len,
\* substr(pos, len)) is the identity (spec section 8), through every fast
\* path of _merge and both boundary fusions of the general splice.
SubstrRoundTrip ==
    NoAdjacentEqualRuns =>
    \A pos \in 0..size - 1, len \in 1..MaxSize :
        pos + len <= size =>
            Merge(list, size, Substr(list, size, pos, len).list, pos, len) = Done(list)

\* The run iterator behaves as a random-access iterator over the decoded
\* array, on every store the mutators reach: begin() + p addresses index p
\* and dereferences to at(p), the p-th decoded cell, begin() + size() is end(), moving from p to q
\* by += (q - p) lands where begin() + q does, operator< orders iterators as
\* their indices, and it1 - it2 is the index difference when it2 is not
\* after it1.  The seek loops of operator+= cross run boundaries with the
\* "+ 1" and "_usage = _it->second" adjustments this exercises.
IteratorArithmetic ==
    \A p, q \in 0..size :
        LET ip == IterAdd(list, IterBegin, p)
            iq == IterAdd(list, IterBegin, q)
        IN  /\ IterPosition(list, ip) = p
            /\ p < size => list[ip.run].v = At(list, size, p)
            /\ p < size => At(list, size, p) = Decode(list)[p + 1]
            /\ p = size => ip = IterEnd(list)
            /\ IterAdd(list, ip, q - p) = iq
            /\ IterLess(ip, iq) <=> p < q
            /\ p >= q => IterDistance(list, ip, iq) = p - q

\* it1 - it2 is the index difference in both orders (a random-access
\* iterator's contract; the comment at 220 says the loop subtracts "all used
\* space in tmp").
IteratorDistanceBothWays ==
    \A p, q \in 0..size :
        IterDistance(list, IterAdd(list, IterBegin, p), IterAdd(list, IterBegin, q)) = p - q
=============================================================================
