---------------------------- MODULE Reachability ----------------------------
(***************************************************************************)
(* The reachability store: a tree of intervals and future-covering sets    *)
(* that answer whether one block is in the past of another.  A block hangs *)
(* below its selected parent, in an interval inside that of the parent.    *)
(* When an interval is used up, intervals are moved (a reindex), with a    *)
(* reindex root that follows the selected tip and whose subtree is spared. *)
(* Pruning deletes blocks from the tree.                                   *)
(*                                                                         *)
(* Every operation works on a staging store and is committed as a whole:   *)
(* an operator below takes the store and returns it changed.  A store that *)
(* has failed stands for an error or a panic.                              *)
(***************************************************************************)
EXTENDS Interval

CONSTANTS Origin, None,
          Blocks,       \* the blocks in the order in which they arrive
          Worlds        \* [capacity, depth, slack: of the tree;
                        \*  size: how many blocks arrive;
                        \*  maxParents: of a block;
                        \*  deletes: how many blocks pruning deletes]

VARIABLES world, store,
          parents,      \* reachability_relations_store: block -> set of parents
          past,         \* block -> its past and itself in the original DAG
          chain         \* block -> its selected chain and itself

vars == <<world, store, parents, past, chain>>

RECURSIVE PropagateInterval(_, _), PropagateAll(_, _), SubtreeSize(_, _)
RECURSIVE ReindexFrom(_, _), NextRoot(_, _, _), Concentrate(_, _, _)
RECURSIVE CommonTreeAncestor(_, _, _), ReclaimUp(_, _, _, _, _, _, _), ReclaimDown(_, _, _, _, _, _)

Slack == world.slack
Depth == world.depth

(***************************************************************************)
(* The store                                                               *)
(***************************************************************************)
InitStore(capacity) ==
    [parent |-> [b \in {Origin} |-> None], children |-> [b \in {Origin} |-> <<>>],
     interval |-> [b \in {Origin} |-> capacity], height |-> [b \in {Origin} |-> 0],
     fcs |-> [b \in {Origin} |-> <<>>], root |-> Origin, failed |-> FALSE]

Fail(s) == [s EXCEPT !.failed = TRUE]

SetInterval(s, b, i) == [s EXCEPT !.interval[b] = i, !.failed = @ \/ ~IsInterval(i)]

Insert(s, b, parent, i) ==
    LET with(f, v) == [c \in DOMAIN f \cup {b} |-> IF c = b THEN v ELSE f[c]] IN
    [s EXCEPT !.parent = with(@, parent), !.children = [with(@, <<>>) EXCEPT ![parent] = Append(@, b)],
              !.interval = with(@, i), !.height = with(@, s.height[parent] + 1),
              !.fcs = with(@, <<>>), !.failed = @ \/ ~IsInterval(i)]

ChildrenCapacity(s, b) == DecreaseEnd(s.interval[b], 1)

RemainingBefore(s, b) ==
    IF s.children[b] = <<>> THEN ChildrenCapacity(s, b)
    ELSE Interval(s.interval[b].start, s.interval[Head(s.children[b])].start - 1)

RemainingAfter(s, b) ==
    IF s.children[b] = <<>> THEN ChildrenCapacity(s, b)
    ELSE Interval(s.interval[Last(s.children[b])].end + 1, ChildrenCapacity(s, b).end)

(***************************************************************************)
(* Queries                                                                 *)
(***************************************************************************)
IsChainAncestorOf(s, b, c) == ContainsInterval(s.interval[b], s.interval[c])
IsStrictChainAncestorOf(s, b, c) == StrictlyContainsInterval(s.interval[b], s.interval[c])

\* binary_search_descendant over hashes in the order of their intervals: the last one
\* that starts at or before the number of d, and whether it holds d.
LastStartingBefore(s, hashes, d) ==
    Cardinality({k \in DOMAIN hashes : s.interval[hashes[k]].start <= s.interval[d].end})
Found(s, hashes, d) ==
    LET k == LastStartingBefore(s, hashes, d) IN
    /\ k > 0
    /\ \/ s.interval[hashes[k]].start = s.interval[d].end
       \/ IsChainAncestorOf(s, hashes[k], d)

IsDagAncestorOf(s, b, c) == IsChainAncestorOf(s, b, c) \/ Found(s, s.fcs[b], c)

\* get_next_chain_ancestor_unchecked: the child of b on the chain to d.
HasNextChainAncestor(s, d, b) == Found(s, s.children[b], d)
NextChainAncestor(s, d, b) == s.children[b][LastStartingBefore(s, s.children[b], d)]

(***************************************************************************)
(* Moving intervals                                                        *)
(***************************************************************************)
SubtreeSize(s, b) == 1 + SumOf([k \in DOMAIN s.children[b] |-> SubtreeSize(s, s.children[b][k])])

SizesOf(s, blocks) == [k \in DOMAIN blocks |-> SubtreeSize(s, blocks[k])]

\* Gives each block its part, and then its subtree.
SetAndPropagate(s, blocks, parts) ==
    LET set(t, k) == SetInterval(t, blocks[k], parts[k])
    IN  PropagateAll(FoldLeft(set, s, [k \in DOMAIN blocks |-> k]), blocks)

PropagateAll(s, blocks) == FoldLeft(PropagateInterval, s, blocks)

PropagateInterval(s, b) ==
    LET sizes == SizesOf(s, s.children[b])
        room == ChildrenCapacity(s, b)
    IN  IF sizes = <<>> \/ s.failed THEN s
        ELSE IF Size(room) < SumOf(sizes) THEN Fail(s)
        ELSE SetAndPropagate(s, s.children[b], SplitExponential(room, sizes))

(***************************************************************************)
(* A reindex below the reindex root, or on its side                        *)
(***************************************************************************)
SlackOf(side, s, b) == Size(IF side = "before" THEN RemainingBefore(s, b) ELSE RemainingAfter(s, b))

\* increase_start or decrease_end: room is made on this side of b.
Shrink(side, s, b, offset) ==
    SetInterval(s, b, IF side = "before" THEN IncreaseStart(s.interval[b], offset)
                                         ELSE DecreaseEnd(s.interval[b], offset))

\* The siblings on this side of b, nearest first.
SiblingsOf(side, s, b) ==
    LET all == s.children[s.parent[b]]
        at == CHOOSE k \in DOMAIN all : all[k] = b
    IN  IF side = "before" THEN Reverse(SubSeq(all, 1, at - 1)) ELSE SubSeq(all, at + 1, Len(all))

\* The siblings of b move by offset, up to the block that is to have the room, which
\* grows by it.
OffsetSiblings(side, s, allocation, b, offset) ==
    LET siblings == SiblingsOf(side, s, b)
        at == {k \in DOMAIN siblings : siblings[k] = allocation}
        moved == IF at = {} THEN siblings ELSE SubSeq(siblings, 1, Min(at))
        part(c) == LET i == s.interval[c] IN
            IF c = allocation THEN IF side = "before" THEN IncreaseEnd(i, offset) ELSE DecreaseStart(i, offset)
            ELSE IF side = "before" THEN Increase(i, offset) ELSE Decrease(i, offset)
    IN  SetAndPropagate(s, moved, [k \in DOMAIN moved |-> part(moved[k])])

\* Up from the chosen child, until the slack on the way is enough or the root is reached.
ReclaimUp(side, s, allocation, common, b, required, path) ==
    LET sum == path.slack + SlackOf(side, s, b)
        atRoot == required + Slack * path.len - path.slack
        enough == SlackOf(side, s, b) - (sum - required)
    IN  IF b = s.root
        THEN LET t == PropagateInterval(Shrink(side, s, b, atRoot), b)
             IN  ReclaimDown(side, OffsetSiblings(side, t, allocation, b, atRoot),
                             allocation, common, s.parent[b], Slack)
        ELSE IF sum >= required
        THEN LET t == Shrink(side, s, b, enough)
             IN  ReclaimDown(side, OffsetSiblings(side, t, allocation, b, enough),
                             allocation, common, s.parent[b], 0)
        ELSE IF ~HasNextChainAncestor(s, s.root, b) THEN Fail(s)
        ELSE ReclaimUp(side, s, allocation, common, NextChainAncestor(s, s.root, b), required,
                       [slack |-> sum, len |-> path.len + 1])

\* And down again: every block on the way gives the room on, less the slack it keeps.
ReclaimDown(side, s, allocation, common, b, keep) ==
    LET offset == SlackOf(side, s, b) - keep IN
    IF b = common \/ s.failed THEN s
    ELSE IF offset < 0 THEN Fail(s)
    ELSE ReclaimDown(side, OffsetSiblings(side, Shrink(side, s, b, offset), allocation, b, offset),
                     allocation, common, s.parent[b], keep)

ReindexEarlierThanRoot(s, allocation, common, required) ==
    LET chosen == NextChainAncestor(s, s.root, common)
        side == IF s.interval[allocation].start < s.interval[chosen].start THEN "before" ELSE "after"
    IN  IF HasNextChainAncestor(s, s.root, common)
        THEN ReclaimUp(side, s, allocation, common, chosen, required, [slack |-> 0, len |-> 0])
        ELSE Fail(s)

\* reindex_intervals: the first ancestor that has room for its subtree shares it out;
\* above the reindex root the room comes from the slack on the chain to the root.
ReindexFrom(s, b) ==
    IF Size(s.interval[b]) >= SubtreeSize(s, b) THEN PropagateInterval(s, b)
    ELSE IF s.parent[b] = None \/ b = s.root THEN Fail(s)
    ELSE IF IsStrictChainAncestorOf(s, s.parent[b], s.root)
         THEN ReindexEarlierThanRoot(s, b, s.parent[b], SubtreeSize(s, b))
    ELSE ReindexFrom(s, s.parent[b])

(***************************************************************************)
(* The reindex root follows the selected tip                               *)
(***************************************************************************)
CommonTreeAncestor(s, b, root) ==
    IF IsChainAncestorOf(s, b, root) THEN b ELSE CommonTreeAncestor(s, s.parent[b], root)

\* From b towards the hint, as long as the child is at least Depth below it.
NextRoot(s, b, hint) ==
    LET child == NextChainAncestor(s, hint, b) IN
    IF ~HasNextChainAncestor(s, hint, b) THEN b
    ELSE IF s.height[hint] - s.height[child] < Depth THEN b
    ELSE NextRoot(s, child, hint)

\* The loop above ends at a child with less than Depth to go, never below the hint.
RootWalkFails(s, b, hint) == ~HasNextChainAncestor(s, hint, NextRoot(s, b, hint))

SplitAround(s, child) ==
    [before |-> Reverse(SiblingsOf("before", s, child)), after |-> SiblingsOf("after", s, child)]

\* The siblings of the chosen child get what their subtrees need, at both ends of the
\* parent's interval, with slack outside.
Tighten(s, parent, siblings) ==
    LET before == SumOf(SizesOf(s, siblings.before))
        after == SumOf(SizesOf(s, siblings.after))
        i == s.interval[parent]
        left == SetAndPropagate(s, siblings.before,
                    SplitExact(Interval(i.start + Slack, i.start + Slack + before - 1), SizesOf(s, siblings.before)))
    IN  SetAndPropagate(left, siblings.after,
            SplitExact(Interval(i.end - Slack - after, i.end - Slack - 1), SizesOf(s, siblings.after)))

\* The chosen child gets the rest; its subtree is moved only if it is the new root and
\* does not fit as it lies, and then with slack at both sides.
ExpandToChosen(s, parent, child, siblings, isFinal) ==
    LET i == s.interval[parent]
        allocation == Interval(i.start + SumOf(SizesOf(s, siblings.before)) + Slack,
                               i.end - SumOf(SizesOf(s, siblings.after)) - Slack - 1)
        narrowed == Interval(allocation.start + Slack, allocation.end - Slack)
        t == IF isFinal /\ ~ContainsInterval(allocation, s.interval[child])
             THEN PropagateInterval(SetInterval(s, child, narrowed), child) ELSE s
    IN  SetInterval(t, child, allocation)

\* concentrate_interval for every block on the chain from b to the new root.
Concentrate(s, b, next) ==
    LET child == NextChainAncestor(s, next, b)
        siblings == SplitAround(s, child)
    IN  IF b = next \/ s.failed THEN s
        ELSE IF ~HasNextChainAncestor(s, next, b) THEN Fail(s)
        ELSE Concentrate(ExpandToChosen(Tighten(s, b, siblings), b, child, siblings, child = next), child, next)

\* Mutant of TryAdvancingReindexRoot: the root moves and no interval does.
TryAdvancingReindexRoot_NoConcentration(s, hint) ==
    LET reorg == ~IsChainAncestorOf(s, s.root, hint)
        stays == reorg /\ s.height[hint] - s.height[s.root] < Slack
        ancestor == IF reorg THEN CommonTreeAncestor(s, hint, s.root) ELSE s.root
        next == NextRoot(s, ancestor, hint)
    IN  IF s.failed \/ stays \/ next = s.root THEN s ELSE [s EXCEPT !.root = next]

\* A reorganisation must lead by Slack blocks before the root changes chains.
TryAdvancingReindexRoot(s, hint) ==
    LET reorg == ~IsChainAncestorOf(s, s.root, hint)
        stays == reorg /\ s.height[hint] - s.height[s.root] < Slack
        ancestor == IF reorg THEN CommonTreeAncestor(s, hint, s.root) ELSE s.root
        next == NextRoot(s, ancestor, hint)
    IN  IF s.failed \/ stays THEN s
        ELSE IF RootWalkFails(s, ancestor, hint) THEN Fail(s)
        ELSE IF next = s.root THEN s
        ELSE [Concentrate(s, ancestor, next) EXCEPT !.root = next]

(***************************************************************************)
(* A new header                                                            *)
(***************************************************************************)

\* The first half of what is left behind the other children, or, with nothing left, the
\* empty interval at the end and a reindex.
AddTreeBlock(s, b, parent) ==
    LET remaining == RemainingAfter(s, parent) IN
    IF IsEmpty(remaining) THEN ReindexFrom(Insert(s, b, parent, remaining), b)
    ELSE Insert(s, b, parent, LeftHalf(remaining))

\* Mutant of InsertToFutureCoveringSet: at the end instead of in its place.
InsertToFutureCoveringSet_AtTheEnd(s, merged, b) == [s EXCEPT !.fcs[merged] = Append(@, b)]

InsertToFutureCoveringSet(s, merged, b) ==
    IF Found(s, s.fcs[merged], b) THEN Fail(s)
    ELSE [s EXCEPT !.fcs[merged] = InsertAt(@, LastStartingBefore(s, @, b) + 1, b)]

\* unordered_mergeset_without_selected_parent
Mergeset(s, sp, ps) ==
    LET found[n \in 0..Cardinality(DOMAIN parents)] ==
            IF n = 0 THEN ps \ {sp}
            ELSE found[n - 1] \cup
                 {q \in UNION {parents[b] : b \in found[n - 1]} : ~IsDagAncestorOf(s, q, sp)}
    IN  found[Cardinality(DOMAIN parents)]

AddToStore(s, b, sp, mergeset) ==
    LET cover(t, merged) == InsertToFutureCoveringSet(t, merged, b)
    IN  FoldLeft(cover, AddTreeBlock(s, b, sp), SetToSeq(mergeset))

Init ==
    /\ world \in Worlds
    /\ store = InitStore(Interval(1, world.capacity))
    /\ parents = [b \in {Origin} |-> {}]
    /\ past = [b \in {Origin} |-> {Origin}]
    /\ chain = [b \in {Origin} |-> {Origin}]

Arrived == DOMAIN past \ {Origin}
NextBlock == IF Cardinality(Arrived) < world.size THEN {Blocks[Cardinality(Arrived) + 1]} ELSE {}

\* No parent is in the past of another (check_parents_incest).
ParentSets ==
    {ps \in UNION {kSubset(n, DOMAIN parents) : n \in 1..world.maxParents} :
        \A p, q \in ps : p # q => ~IsDagAncestorOf(store, p, q)}

\* Part of commit_header: the selected parent sp and whether the block becomes the
\* headers selected tip are decided by weight, which the store does not know.
AddBlock(b, ps, sp, isTip) ==
    LET with(f, v) == [c \in DOMAIN f \cup {b} |-> IF c = b THEN v ELSE f[c]]
    IN  /\ ~store.failed
        /\ \E added \in {AddToStore(store, b, sp, Mergeset(store, sp, ps))} :
              store' = IF isTip THEN TryAdvancingReindexRoot(added, b) ELSE added
        /\ parents' = with(parents, ps)
        /\ past' = with(past, {b} \cup UNION {past[p] : p \in ps})
        /\ chain' = with(chain, {b} \cup chain[sp])
        /\ UNCHANGED world

(***************************************************************************)
(* Pruning deletes a block                                                 *)
(***************************************************************************)
Splice(seq, k, with) == SubSeq(seq, 1, k - 1) \o with \o SubSeq(seq, k + 1, Len(seq))

\* The children of b take its place among the blocks that cover the future of merged.
ReplaceInFcs(s, merged, b) ==
    LET k == LastStartingBefore(s, s.fcs[merged], b) IN
    IF ~Found(s, s.fcs[merged], b) \/ s.fcs[merged][k] # b THEN Fail(s)
    ELSE [s EXCEPT !.fcs[merged] = Splice(@, k, s.children[b])]

\* The capacity of b goes to its only child, to its outermost children, or to the sibling
\* on its left.
InheritInterval(s, b, k) ==
    LET i == s.interval[b]
        children == s.children[b]
        from(c) == s.interval[c]
        first == SetInterval(s, Head(children), Interval(i.start, from(Head(children)).end))
        left == s.children[s.parent[b]][k - 1]
    IN  IF Len(children) = 1 THEN SetInterval(s, Head(children), i)
        ELSE IF Len(children) > 1
        THEN SetInterval(first, Last(children), Interval(first.interval[Last(children)].start, i.end))
        ELSE IF k > 1 THEN SetInterval(s, left, Interval(from(left).start, i.end)) ELSE s

DeleteFromStore(s, b, mergeset) ==
    LET parent == s.parent[b]
        children == s.children[b]
        k == LastStartingBefore(s, s.children[parent], b)
        without(f) == [c \in DOMAIN f \ {b} |-> f[c]]
        replace(t, merged) == ReplaceInFcs(t, merged, b)
        t == FoldLeft(replace, s, SetToSeq(mergeset))
        u == [InheritInterval(t, b, k) EXCEPT
                 !.children[parent] = Splice(@, k, children),
                 !.parent = [c \in DOMAIN @ |-> IF c \in ToSet(children) THEN parent ELSE @[c]]]
    IN  IF s.children[parent][k] # b THEN Fail(s)
        ELSE [u EXCEPT !.parent = without(@), !.children = without(@), !.interval = without(@),
                       !.height = without(@), !.fcs = without(@)]

\* Mutant of RewiredParents: the grandparents are dropped.
RewiredParents_Dropped(s, child, b) == parents[child] \ {b}

\* delete_reachability_relations: a child keeps the parents of b that none of its other
\* parents has in its past.
RewiredParents(s, child, b) ==
    LET others == parents[child] \ {b}
    IN  others \cup {g \in parents[b] : ~\E p \in others : IsDagAncestorOf(s, g, p)}

\* Blocks near the selected tip, where the reindex root is, are never pruned.
DeleteBlock(b) ==
    /\ b \in DOMAIN store.parent \ {Origin, store.root}
    /\ ~store.failed
    /\ Cardinality(DOMAIN past) - Cardinality(DOMAIN store.parent) < world.deletes
    /\ store' = DeleteFromStore(store, b, Mergeset(store, store.parent[b], parents[b]))
    /\ parents' = [c \in DOMAIN parents \ {b} |->
                      IF b \in parents[c] THEN RewiredParents(store, c, b) ELSE parents[c]]
    /\ UNCHANGED <<world, past, chain>>

Next ==
    \/ \E b \in NextBlock, ps \in ParentSets :
          \E sp \in ps, isTip \in BOOLEAN : AddBlock(b, ps, sp, isTip)
    \/ \E b \in DOMAIN parents : DeleteBlock(b)

Spec == Init /\ [][Next]_vars

(***************************************************************************)
(* Properties                                                              *)
(***************************************************************************)
Present == DOMAIN store.parent

\* is_chain_ancestor_of answers for every two blocks whether one is on the selected
\* chain of the other, after any insertions, reindexes, moves of the root and deletions.
ChainQueriesAreExact ==
    \A b, c \in Present : IsChainAncestorOf(store, b, c) <=> b \in chain[c]

\* is_dag_ancestor_of answers for every two blocks whether one is in the past of the
\* other in the DAG as it was built, also when blocks between them have been deleted.
DagQueriesAreExact ==
    \A b, c \in Present : IsDagAncestorOf(store, b, c) <=> b \in past[c]

\* No operation runs out of capacity, meets an inconsistency or computes an interval that
\* wraps around: the header processor and the pruning processor unwrap the result.
NeverFails == ~store.failed

\* The relations that deletions leave behind still lead from every block to exactly the
\* rest of its past.
RelationsKeepThePast ==
    \A c \in Present :
        LET reached[n \in 0..Cardinality(Present)] ==
                IF n = 0 THEN {c} ELSE reached[n - 1] \cup UNION {parents[b] : b \in reached[n - 1]}
        IN  reached[Cardinality(Present)] = past[c] \cap Present
=============================================================================
