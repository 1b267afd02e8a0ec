------------------------------ MODULE Interval ------------------------------
(***************************************************************************)
(* Intervals of natural numbers, and how one is divided among the children *)
(* of a block in the reachability tree.  An empty interval ends just       *)
(* before it starts.                                                       *)
(***************************************************************************)
EXTENDS Integers, SequencesExt, FiniteSetsExt

Interval(start, end) == [start |-> start, end |-> end]

\* What the assertions of new demand; an operation on u64 that leaves this set has
\* wrapped around.
IsInterval(i) == i.start > 0 /\ i.end >= i.start - 1

Size(i) == (i.end + 1) - i.start
IsEmpty(i) == Size(i) = 0

ContainsInterval(i, j) == i.start <= j.start /\ j.end <= i.end
StrictlyContainsInterval(i, j) == i.start <= j.start /\ j.end < i.end

Increase(i, offset) == Interval(i.start + offset, i.end + offset)
Decrease(i, offset) == Interval(i.start - offset, i.end - offset)
IncreaseStart(i, offset) == Interval(i.start + offset, i.end)
DecreaseStart(i, offset) == Interval(i.start - offset, i.end)
IncreaseEnd(i, offset) == Interval(i.start, i.end + offset)
DecreaseEnd(i, offset) == Interval(i.start, i.end - offset)

\* The left half of split_half, the larger one.
LeftHalf(i) == Interval(i.start, i.start + (Size(i) + 1) \div 2 - 1)

SumOf(sizes) == FoldLeft(+, 0, sizes)

\* split_exact: part k has sizes[k] numbers; the sizes must add up to the interval.
SplitExact(i, sizes) ==
    [k \in DOMAIN sizes |->
        LET from == i.start + SumOf(SubSeq(sizes, 1, k - 1)) IN Interval(from, from + sizes[k] - 1)]

\* Mutant of SplitExponential: the parts are weighted, and need not hold their subtrees.
SplitExponential_NoMinimum(i, sizes) ==
    LET total == Size(i)
        weight(k) == 2 ^ (sizes[k] - Min(ToSet(sizes)))
        weights == SumOf([k \in DOMAIN sizes |-> weight(k)])
        left[k \in 0..Len(sizes)] ==
            IF k = 0 THEN total
            ELSE IF k = Len(sizes) THEN 0
            ELSE left[k - 1] - Min({left[k - 1], (2 * total * weight(k) + weights) \div (2 * weights)})
    IN  SplitExact(i, [k \in DOMAIN sizes |-> left[k - 1] - left[k]])

\* split_exponential: part k has its size and a share of the rest, weighted by two to the
\* power of the size and rounded; the last one takes what the rounding leaves.
SplitExponential(i, sizes) ==
    LET total == Size(i) - SumOf(sizes)
        weight(k) == 2 ^ (sizes[k] - Min(ToSet(sizes)))
        weights == SumOf([k \in DOMAIN sizes |-> weight(k)])
        left[k \in 0..Len(sizes)] ==
            IF k = 0 THEN total
            ELSE IF k = Len(sizes) THEN 0
            ELSE left[k - 1] - Min({left[k - 1], (2 * total * weight(k) + weights) \div (2 * weights)})
    IN  SplitExact(i, [k \in DOMAIN sizes |-> sizes[k] + left[k - 1] - left[k]])
=============================================================================
