------------------------------ MODULE Ghostdag ------------------------------
(***************************************************************************)
(* GHOSTDAG: which blocks of the past of a new block are blue, and their   *)
(* order.  The header processor runs it for every header and stores the    *)
(* result; the colouring of a block builds on the data stored for its      *)
(* selected chain.  Blocks are added in any DAG whose blocks have          *)
(* antichains of parents; ancestry is what the reachability service        *)
(* answers.                                                                *)
(***************************************************************************)
EXTENDS Integers, FiniteSetsExt, SequencesExt

CONSTANTS Genesis, Origin,
          Order,        \* the other blocks, in the order in which they arrive
          Worlds        \* the inputs: [k, hash: block -> its rank by hash,
                        \*   works: block -> the work of its difficulty bits]

VARIABLES world,        \* the inputs of this behaviour
          parents,      \* relations_store: block -> set of direct parents
          past,         \* what the reachability store answers: block -> its past and itself
          data,         \* ghostdag_store: block -> GhostdagData, and whether the
                        \*   computation of it panicked
          headersSelectedTip

vars == <<world, parents, past, data, headersSelectedTip>>

K == world.k
Hash == world.hash
Works == world.works

Added == DOMAIN parents

Init ==
    /\ world \in Worlds
    /\ parents = [b \in {Genesis} |-> {}]
    /\ past = [b \in {Genesis} |-> {Genesis}]
    /\ data = [b \in {Genesis} |-> [score |-> 0, work |-> 0, selectedParent |-> Origin,
                                    blues |-> <<>>, reds |-> <<>>,
                                    sizes |-> [c \in {} |-> 0], panicked |-> FALSE]]
    /\ headersSelectedTip = Genesis

(***************************************************************************)
(* Ancestry                                                                *)
(***************************************************************************)
PastWithin(ps) == UNION {past[p] : p \in ps}

\* b is in the past of c, or c itself.
IsDagAncestorOf(b, c) == b \in past[c]

Anticone(b, S) == {c \in S : ~IsDagAncestorOf(b, c) /\ ~IsDagAncestorOf(c, b)}

(***************************************************************************)
(* SortableBlock: blue work, then hash                                     *)
(***************************************************************************)
Lighter(b, c) ==
    \/ data[b].work < data[c].work
    \/ data[b].work = data[c].work /\ Hash[b] < Hash[c]

FindSelectedParent(ps) == CHOOSE p \in ps : \A q \in ps \ {p} : Lighter(q, p)

\* The blocks merged: a search from the other parents that stops at the past of the
\* selected one.
Mergeset(sp, ps) ==
    LET found[n \in 0..Cardinality(Added)] ==
            IF n = 0 THEN ps \ {sp}
            ELSE found[n - 1] \cup {q \in UNION {parents[b] : b \in found[n - 1]} : ~IsDagAncestorOf(q, sp)}
    IN  found[Cardinality(Added)]

(***************************************************************************)
(* Colouring of one candidate                                              *)
(***************************************************************************)
NewWithSelectedParent(sp) ==
    [score |-> 0, work |-> 0, selectedParent |-> sp,
     blues |-> <<sp>>, reds |-> <<>>, sizes |-> [c \in {sp} |-> 0], panicked |-> FALSE]

\* The selected chain of the new block: its own data, then what is stored.
ChainOf(new) ==
    LET from[n \in 0..Cardinality(Added)] ==
            IF n = 0 THEN <<>>
            ELSE LET below == from[n - 1]
                     next == IF below = <<>> THEN new.selectedParent ELSE Last(below).data.selectedParent
                 IN  IF next = Origin THEN below ELSE Append(below, [hash |-> next, data |-> data[next]])
    IN  <<[hash |-> Origin, data |-> new]>> \o from[Cardinality(Added)]

Missing == -1

\* Sizes are kept where they last changed along the chain; the genesis keeps none.
BlueAnticoneSize(b, new) ==
    LET chain == ChainOf(new)
        known == {i \in 1..Len(chain) : b \in DOMAIN chain[i].data.sizes}
    IN  IF known = {} THEN Missing ELSE chain[Min(known)].data.sizes[b]

\* Mutant of CheckPeer: the limit of the candidate only.
CheckPeer_NotThePeersLimit(run, peer, candidate, new) ==
    LET size == BlueAnticoneSize(peer, new) IN
    IF run.color # "pending" \/ IsDagAncestorOf(peer, candidate) THEN run
    ELSE [run EXCEPT !.sizes = [p \in DOMAIN @ \cup {peer} |-> IF p = peer THEN size ELSE @[p]],
                     !.size = @ + 1,
                     !.color = IF run.size + 1 > K THEN "red" ELSE "pending"]

\* A peer in the anticone of the candidate; run.color is "pending", "blue", "red" or
\* "panic" (a size that is missing or larger than k).
CheckPeer(run, peer, candidate, new) ==
    LET size == BlueAnticoneSize(peer, new) IN
    IF run.color # "pending" \/ IsDagAncestorOf(peer, candidate) THEN run
    ELSE [run EXCEPT !.sizes = [p \in DOMAIN @ \cup {peer} |-> IF p = peer THEN size ELSE @[p]],
                     !.size = @ + 1,
                     !.color = IF size = Missing THEN "panic"
                               ELSE IF run.size + 1 > K \/ size = K THEN "red"
                               ELSE IF size > K THEN "panic" ELSE "pending"]

\* One block of the chain: below a block that the candidate builds on, nothing is left
\* to check.
CheckChainBlock(run, entry, candidate, new) ==
    LET peer(r, p) == CheckPeer(r, p, candidate, new) IN
    IF run.color # "pending" THEN run
    ELSE IF entry.hash # Origin /\ IsDagAncestorOf(entry.hash, candidate)
         THEN [run EXCEPT !.color = "blue"]
    ELSE FoldLeft(peer, run, entry.data.blues)

\* Mutant of CheckBlueCandidate: the selected parent is not allowed for in the limit.
CheckBlueCandidate_LimitOneEarly(candidate, new) ==
    LET start == [color |-> "pending", size |-> 0, sizes |-> [p \in {} |-> 0]]
        step(run, entry) == CheckChainBlock(run, entry, candidate, new)
    IN  IF Len(new.blues) = K THEN [start EXCEPT !.color = "red"]
        ELSE FoldLeft(step, start, ChainOf(new))

\* The chain is walked from the new block down; K + 1 blues, the selected parent among
\* them, are the most there can be.
CheckBlueCandidate(candidate, new) ==
    LET start == [color |-> "pending", size |-> 0, sizes |-> [p \in {} |-> 0]]
        step(run, entry) == CheckChainBlock(run, entry, candidate, new)
    IN  IF Len(new.blues) = K + 1 THEN [start EXCEPT !.color = "red"]
        ELSE FoldLeft(step, start, ChainOf(new))

\* Mutant of AddBlue: the peers keep their sizes.
AddBlue_OwnSizeOnly(new, b, run) ==
    [new EXCEPT !.blues = Append(@, b),
                !.sizes = [c \in DOMAIN @ \cup {b} |-> IF c = b THEN run.size ELSE @[c]]]

\* The new blue block, and one more blue in the anticone of each of its peers.
AddBlue(new, b, run) ==
    [new EXCEPT !.blues = Append(@, b),
                !.sizes = [c \in DOMAIN @ \cup DOMAIN run.sizes \cup {b} |->
                              IF c \in DOMAIN run.sizes THEN run.sizes[c] + 1
                              ELSE IF c = b THEN run.size ELSE @[c]]]

Color(new, candidate) ==
    LET run == CheckBlueCandidate(candidate, new) IN
    IF run.color = "blue" THEN AddBlue(new, candidate, run)
    ELSE [new EXCEPT !.reds = Append(@, candidate), !.panicked = @ \/ run.color # "red"]

(***************************************************************************)
(* The data of a new block, and its commit with the header                 *)
(***************************************************************************)

GhostdagOf(ps) ==
    LET sp == FindSelectedParent(ps)
        colored == FoldLeft(Color, NewWithSelectedParent(sp), SetToSortSeq(Mergeset(sp, ps), Lighter))
        workOf(b) == Works[b]
    IN  [colored EXCEPT !.score = data[sp].score + Len(colored.blues),
                        !.work = data[sp].work + MapThenSumSet(workOf, Range(colored.blues))]

\* check_parents_incest: no parent is an ancestor of another.
NoIncest(ps) == \A p, q \in ps : p # q => ~IsDagAncestorOf(p, q)

\* The heaviest header seen; without pruning every block is above the pruning point.
HeadersSelectedTipAfter(b, d) ==
    LET tip == headersSelectedTip IN
    IF d.work > data[tip].work \/ (d.work = data[tip].work /\ Hash[b] > Hash[tip]) THEN b ELSE tip

AddHeader(b, ps) ==
    /\ Cardinality(Added) \in DOMAIN Order /\ b = Order[Cardinality(Added)]
    /\ ~\E c \in Added : data[c].panicked
    /\ ps # {} /\ NoIncest(ps)
    /\ data' = [c \in Added \cup {b} |-> IF c = b THEN GhostdagOf(ps) ELSE data[c]]
    /\ parents' = [c \in Added \cup {b} |-> IF c = b THEN ps ELSE parents[c]]
    /\ past' = [c \in Added \cup {b} |-> IF c = b THEN {b} \cup PastWithin(ps) ELSE past[c]]
    /\ headersSelectedTip' = HeadersSelectedTipAfter(b, GhostdagOf(ps))
    /\ UNCHANGED world

Next == \E b \in Range(Order), ps \in SUBSET Added : AddHeader(b, ps)

Spec == Init /\ [][Next]_vars

\* Mutant of ConsensusOrderedMergeset: the two parts one after the other.
ConsensusOrderedMergeset_BluesFirst(d) == d.blues \o d.reds

\* What the virtual processor executes: the selected parent, then the blues and the reds
\* merged by weight, each of the two as it is stored.
ConsensusOrderedMergeset(d) ==
    LET blues == Tail(d.blues)
        merged[i \in 1..Len(blues) + 1, j \in 1..Len(d.reds) + 1] ==
            IF i > Len(blues) THEN SubSeq(d.reds, j, Len(d.reds))
            ELSE IF j > Len(d.reds) THEN SubSeq(blues, i, Len(blues))
            ELSE IF Lighter(blues[i], d.reds[j]) THEN <<blues[i]>> \o merged[i + 1, j]
            ELSE <<d.reds[j]>> \o merged[i, j + 1]
    IN  <<d.selectedParent>> \o merged[1, 1]

(***************************************************************************)
(* Properties                                                              *)
(***************************************************************************)
\* The blue set of a block: the blues of its selected chain.
BlueSet(b) == UNION {Range(entry.data.blues) : entry \in Range(ChainOf(data[b]))}

\* Scores, works and mergesets have their shapes, and no block is in a mergeset twice.
TypeOK ==
    \A b \in Added :
        LET d == data[b] IN
        /\ d.score \in Nat /\ d.work \in Nat
        /\ Range(d.blues) \cup Range(d.reds) \subseteq Added
        /\ IsInjective(d.blues \o d.reds)
        /\ Len(d.blues) <= K + 1

\* The blue set of every block is a k-cluster: no blue block has more than K other blue
\* blocks in its anticone, although only the data along one chain is consulted.
BlueSetIsKCluster ==
    \A b \in Added : \A c \in BlueSet(b) : Cardinality(Anticone(c, BlueSet(b))) <= K

\* blue_anticone_size finds, for every block of the blue set, the true number of blue
\* blocks in its anticone, and never panics: an update that is not recorded where the
\* lookup stops first would make the limit count wrong from then on.  The blue score is the
\* size of the blue set.
SizesAreExact ==
    /\ \A b \in Added : data[b].score = Cardinality(BlueSet(b))
    /\ \A b \in Added \ {Genesis} :
          /\ ~data[b].panicked
          /\ \A c \in BlueSet(b) :
                BlueAnticoneSize(c, data[b]) = Cardinality(Anticone(c, BlueSet(b)))

\* consensus_ordered_mergeset is the past of the block less that of its selected parent,
\* in an order in which every block comes after its past, so that no block is executed
\* before one that it may spend from.
MergesetIsPastInOrder ==
    \A b \in Added \ {Genesis} :
        LET sp == data[b].selectedParent
            order == ConsensusOrderedMergeset(data[b])
        IN  /\ Range(order) = (PastWithin(parents[b]) \ past[sp]) \cup {sp}
            /\ \A i, j \in DOMAIN order : i < j => ~IsDagAncestorOf(order[j], order[i])

\* A merged block is red only if it had to be: with the blue set as it was when its turn
\* came, it or a blue block of its anticone would have had more than K.
RedOnlyIfForced ==
    \A b \in Added \ {Genesis} : \A r \in Range(data[b].reds) :
        LET before == {c \in BlueSet(b) : c \notin Range(data[b].blues)
                                             \/ c = data[b].selectedParent \/ Lighter(c, r)}
            near == Anticone(r, before)
        IN  \/ Cardinality(near) > K
            \/ \E c \in near : Cardinality(Anticone(c, before)) >= K
=============================================================================
