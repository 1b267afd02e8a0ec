---------------------------- MODULE VirtualState ----------------------------
(***************************************************************************)
(* resolve_virtual with its Cell states: the search for the sink walks     *)
(* from chain to chain, and carries along the difference of the block it   *)
(* stands on from the virtual state; chain blocks are verified, and their  *)
(* differences and roots stored, on the way; the virtual state is rebuilt  *)
(* on the sink it finds.                                                   *)
(*                                                                         *)
(* Blocks arrive one by one, parents first, as the body stage commits      *)
(* them.  GHOSTDAG colours every block of these small DAGs blue, in the    *)
(* order of blue work; the finality point is the genesis, and the limits   *)
(* on parents and mergeset size are not reached.                           *)
(***************************************************************************)
EXTENDS CellExecution, FiniteSets

CONSTANTS Blocks, Genesis,
          Parents,      \* block -> set of its direct parents
          Work,         \* blue work, all different
          Worlds,       \* the contents of blocks that there can be: see world
          GenesisTree   \* the Cell state of the genesis

ASSUME DagAssumption ==
    /\ Genesis \in Blocks /\ Parents[Genesis] = {}
    /\ \A b \in Blocks \ {Genesis} :
          Parents[b] # {} /\ \A p \in Parents[b] : p \in Blocks /\ Work[p] < Work[b]
    /\ \A b, c \in Blocks : Work[b] = Work[c] => b = c

VARIABLES world,
          bodies,     \* blocks whose body is stored
          disqualified, diffs, roots,         \* statuses, cell_diffs_store, cell_roots_store
          virtual,    \* the virtual state: parents, sink, tree, diff (from the sink)
          fresh,      \* a block arrived since the last resolve began
          phase, heap,
          sink,       \* the sink that the search has found
          diff, diffPoint,                    \* of the search
          walk,       \* the running calculate_cell_state_relatively
          queue, accepted                     \* virtual parent candidates, and those kept

\* block -> [name, daa, txs], and the blocks whose header commits to a wrong Cell root
Content == world.content
BadRoots == world.badRoots

stores == <<disqualified, diffs, roots>>
search == <<heap, sink, diff, diffPoint>>
filter == <<queue, accepted>>
vars == <<world, bodies, stores, virtual, fresh, phase, search, walk, filter>>

(***************************************************************************)
(* The DAG                                                                 *)
(***************************************************************************)
Heaviest(S) == CHOOSE b \in S : \A c \in S : Work[c] <= Work[b]

SelectedParentOf(parents) == Heaviest(parents)

\* The inclusive past, by blue work.
PastOf[b \in Blocks] == {b} \cup UNION {PastOf[p] : p \in Parents[b]}

InPast(a, b) == a \in PastOf[b]

\* The chain of selected parents, b itself included.
ChainOf[b \in Blocks] == {b} \cup IF b = Genesis THEN {} ELSE ChainOf[SelectedParentOf(Parents[b])]

IsChainAncestorOf(a, b) == a \in ChainOf[b]

ByWork(b, c) == Work[b] < Work[c]

\* The blue mergeset of a block with these parents: the selected parent, then the rest.
MergesetBlues(parents) ==
    LET sp == SelectedParentOf(parents)
        rest == UNION {PastOf[p] : p \in parents} \ PastOf[sp]
        order == <<sp>> \o SetToSortSeq(rest, ByWork)
    IN  [i \in DOMAIN order |-> Content[order[i]]]

CalculateCellState(tree, parents) == CellStateInOrder(tree, MergesetBlues(parents), <<>>)

(***************************************************************************)
(* What the Cell state of a block is, whoever computes it and when: that   *)
(* of its selected parent, with its mergeset applied.                      *)
(***************************************************************************)
CellState[b \in Blocks] ==
    IF b = Genesis THEN Outcome(TRUE, NewContext(GenesisTree))
    ELSE LET sp == CellState[SelectedParentOf(Parents[b])]
         IN  IF sp.ok /\ b \notin BadRoots THEN CalculateCellState(sp.ctx.tree, Parents[b])
             ELSE Outcome(FALSE, NewContext(GenesisTree))

\* A walk between two blocks, for the search or for the filter of the parents.
Walking(purpose, from, to, d) ==
    [purpose |-> purpose, to |-> to, diff |-> d, at |-> from, point |-> from]

Init ==
    LET out == CalculateCellState(GenesisTree, {Genesis}) IN
    /\ world \in Worlds
    /\ bodies = {Genesis} /\ disqualified = {}
    /\ diffs = [b \in {Genesis} |-> NoDiff] /\ roots = [b \in {Genesis} |-> GenesisTree]
    /\ virtual = [parents |-> {Genesis}, sink |-> Genesis, tree |-> out.ctx.tree, diff |-> out.ctx.diff]
    /\ fresh = FALSE /\ phase = "idle" /\ heap = {}
    /\ sink = Genesis /\ diff = NoDiff /\ diffPoint = Genesis
    /\ walk = Walking("search", Genesis, Genesis, NoDiff)
    /\ queue = <<>> /\ accepted = {}

\* The body stage commits a block and hands it to the virtual processor.
Arrive(b) ==
    /\ b \notin bodies /\ Parents[b] \subseteq bodies
    /\ bodies' = bodies \cup {b}
    /\ fresh' = TRUE
    /\ UNCHANGED <<world, stores, virtual, phase, search, walk, filter>>

Tips == {b \in bodies : ~\E c \in bodies : b \in Parents[c]}

BeginResolve ==
    /\ phase = "idle" /\ fresh
    /\ fresh' = FALSE
    /\ heap' = Tips
    /\ diff' = Reversed(virtual.diff) /\ diffPoint' = virtual.sink
    /\ phase' = "search"
    /\ UNCHANGED <<world, bodies, stores, virtual, sink, walk, filter>>

(***************************************************************************)
(* calculate_cell_state_relatively, one block at a time.  walk.at is the   *)
(* block the walk stands on, walk.point the last Cell-valid one of the     *)
(* chain it climbs.                                                        *)
(***************************************************************************)
\* sink_search_algorithm takes the heaviest candidate.  One that is known to be
\* disqualified is not walked to: the search stays where it is.
PopCandidate ==
    LET candidate == Heaviest(heap)
        start == Walking("search", diffPoint, candidate, diff)
    IN  /\ phase = "search"
        /\ heap' = heap \ {candidate}
        /\ IF candidate \in disqualified
           THEN walk' = [start EXCEPT !.at = candidate] /\ phase' = "up"
           ELSE walk' = start /\ phase' = "down"
        /\ UNCHANGED <<world, bodies, stores, virtual, fresh, sink, diff, diffPoint, filter>>

walkFrame == <<world, bodies, virtual, fresh, search, filter>>

\* "broken" stands for a composition error and for the failing assertion on the root
\* of the selected parent.
Composed(d, other, result) ==
    IF Composable(d, other) THEN walk' = result /\ UNCHANGED phase
                            ELSE phase' = "broken" /\ UNCHANGED walk

\* Down to the block where the two chains meet.
WalkDown ==
    LET undone == Reversed(diffs[walk.at]) IN
    /\ phase = "down" /\ ~IsChainAncestorOf(walk.at, walk.to)
    /\ Composed(walk.diff, undone,
                [walk EXCEPT !.diff = Compose(walk.diff, undone),
                             !.at = SelectedParentOf(Parents[walk.at])])
    /\ UNCHANGED <<walkFrame, stores>>

SplitPoint ==
    /\ phase = "down" /\ IsChainAncestorOf(walk.at, walk.to)
    /\ walk' = [walk EXCEPT !.point = walk.at]
    /\ phase' = "up"
    /\ UNCHANGED <<walkFrame, stores>>

\* The next block of the chain that the walk climbs.
Current == CHOOSE b \in ChainOf[walk.to] : b # Genesis /\ SelectedParentOf(Parents[b]) = walk.at

Climbing == phase = "up" /\ walk.at # walk.to

Disqualify(b) ==
    /\ disqualified' = disqualified \cup {b}
    /\ walk' = [walk EXCEPT !.at = b]
    /\ UNCHANGED <<walkFrame, phase, diffs, roots>>

\* The selected parent is disqualified, and so is the block.
InheritDisqualified ==
    /\ Climbing /\ walk.at # walk.point
    /\ Disqualify(Current)

\* The block has been verified before: its stored difference is used.
ReuseStoredDiff ==
    /\ Climbing /\ walk.at = walk.point /\ Current \in DOMAIN diffs
    /\ Composed(walk.diff, diffs[Current],
                [walk EXCEPT !.diff = Compose(walk.diff, diffs[Current]),
                             !.at = Current, !.point = Current])
    /\ UNCHANGED <<walkFrame, stores>>

\* The block is known to be disqualified.
SkipDisqualified ==
    /\ Climbing /\ walk.at = walk.point /\ Current \in disqualified
    /\ walk' = [walk EXCEPT !.at = Current]
    /\ UNCHANGED <<walkFrame, stores, phase>>

ReconstructTreeFromVirtualDiff(d) == ApplyTo(d, virtual.tree)

\* Mutant of HeaderCommitsTo: any root will do.
HeaderCommitsTo_Unchecked(b, tree) == TRUE

\* verify_expected_cell_state: a good header commits to the Cell state of the block.
HeaderCommitsTo(b, tree) == b \notin BadRoots /\ CellState[b].ok /\ tree = CellState[b].ctx.tree

\* The block is verified for the first time.
VerifyBlock ==
    LET b == Current
        tree == ReconstructTreeFromVirtualDiff(walk.diff)
        out == CalculateCellState(tree, Parents[b])
    IN  /\ Climbing /\ walk.at = walk.point /\ b \notin DOMAIN diffs \cup disqualified
        /\ IF tree # roots[walk.at]
           THEN phase' = "broken" /\ UNCHANGED <<walkFrame, stores, walk>>
           ELSE IF out.ok /\ HeaderCommitsTo(b, out.ctx.tree) /\ Composable(walk.diff, out.ctx.diff)
           THEN /\ diffs' = Override(diffs, [c \in {b} |-> out.ctx.diff])
                /\ roots' = Override(roots, [c \in {b} |-> out.ctx.tree])
                /\ walk' = [walk EXCEPT !.diff = Compose(walk.diff, out.ctx.diff), !.at = b, !.point = b]
                /\ UNCHANGED <<walkFrame, phase, disqualified>>
           ELSE Disqualify(b)

Walked(purpose) == phase = "up" /\ walk.at = walk.to /\ walk.purpose = purpose

(***************************************************************************)
(* The sink is found, or the parents of the candidate join the heap        *)
(***************************************************************************)
ByWorkDown(b, c) == Work[c] < Work[b]

\* Mutant of PushParents: only the selected parent joins.
PushParents_SelectedOnly(candidate) ==
    heap \cup {p \in {SelectedParentOf(Parents[candidate])} : ~\E h \in heap : InPast(p, h)}

\* The parents of a failed candidate, less those below another one.
PushParents(candidate) ==
    heap \cup {p \in Parents[candidate] : ~\E h \in heap : InPast(p, h)}

\* Mutant of SinkFound: the difference of the walk is dropped.
SinkFound_StaleDiff ==
    /\ Walked("search") /\ walk.point = walk.to
    /\ sink' = walk.to /\ diffPoint' = walk.to /\ diff' = diff
    /\ queue' = SetToSortSeq(heap, ByWorkDown) /\ accepted' = {} /\ heap' = {}
    /\ phase' = "filter"
    /\ UNCHANGED <<world, bodies, stores, virtual, fresh, walk>>

SinkFound ==
    /\ Walked("search") /\ walk.point = walk.to
    /\ sink' = walk.to /\ diffPoint' = walk.to /\ diff' = walk.diff
    /\ queue' = SetToSortSeq(heap, ByWorkDown) /\ accepted' = {} /\ heap' = {}
    /\ phase' = "filter"
    /\ UNCHANGED <<world, bodies, stores, virtual, fresh, walk>>

\* Mutant of CandidateFails: the search forgets how far the walk came.
CandidateFails_KeepsPoint ==
    /\ Walked("search") /\ walk.point # walk.to
    /\ diffPoint' = diffPoint /\ diff' = walk.diff
    /\ heap' = PushParents(walk.to)
    /\ phase' = "search"
    /\ UNCHANGED <<world, bodies, stores, virtual, fresh, sink, walk, filter>>

CandidateFails ==
    /\ Walked("search") /\ walk.point # walk.to
    /\ diffPoint' = walk.point /\ diff' = walk.diff
    /\ heap' = PushParents(walk.to)
    /\ phase' = "search"
    /\ UNCHANGED <<world, bodies, stores, virtual, fresh, sink, walk, filter>>

(***************************************************************************)
(* filter_virtual_parent_candidates: each on a copy of the sink's diff     *)
(***************************************************************************)
filterFrame == <<world, bodies, stores, virtual, fresh, search>>

DropDisqualified ==
    /\ phase = "filter" /\ queue # <<>> /\ Head(queue) \in disqualified
    /\ queue' = Tail(queue)
    /\ UNCHANGED <<filterFrame, phase, walk, accepted>>

TryParent ==
    /\ phase = "filter" /\ queue # <<>> /\ Head(queue) \notin disqualified
    /\ walk' = Walking("filter", sink, Head(queue), diff)
    /\ phase' = "down"
    /\ UNCHANGED <<filterFrame, filter>>

ParentTried ==
    /\ Walked("filter")
    /\ queue' = Tail(queue)
    /\ accepted' = IF walk.point = walk.to THEN accepted \cup {walk.to} ELSE accepted
    /\ phase' = "filter"
    /\ UNCHANGED <<filterFrame, walk>>

(***************************************************************************)
(* calculate_virtual_state and commit_virtual_state                        *)
(***************************************************************************)
CalculateVirtualState(parents, d) ==
    LET tree == ReconstructTreeFromVirtualDiff(d)
        out == CalculateCellState(tree, parents)
    IN  IF tree = roots[sink] /\ out.ok /\ Composable(d, out.ctx.diff)
        THEN Outcome(TRUE, [parents |-> parents, sink |-> sink, tree |-> out.ctx.tree, diff |-> out.ctx.diff])
        ELSE Outcome(FALSE, virtual)

Filtered == phase = "filter" /\ queue = <<>>

VirtualParents == {sink} \cup accepted

WithAllParents == CalculateVirtualState(VirtualParents, diff)

\* The retry starts over from the diff that the search began with.
WithSinkOnly == CalculateVirtualState({sink}, Reversed(virtual.diff))

\* Mutant of CommitVirtualState: the previous difference is kept.
CommitVirtualState_StaleDiff(state) ==
    /\ virtual' = [state EXCEPT !.diff = virtual.diff]
    /\ phase' = "idle"
    /\ UNCHANGED <<world, bodies, stores, fresh, search, walk, filter>>

CommitVirtualState(state) ==
    /\ virtual' = state
    /\ phase' = "idle"
    /\ UNCHANGED <<world, bodies, stores, fresh, search, walk, filter>>

ResolveWithAllParents == Filtered /\ WithAllParents.ok /\ CommitVirtualState(WithAllParents.ctx)

ResolveWithSinkOnly ==
    Filtered /\ ~WithAllParents.ok /\ WithSinkOnly.ok /\ CommitVirtualState(WithSinkOnly.ctx)

\* resolve_virtual returns the error; the virtual state stays as it was.
ResolveFails ==
    /\ Filtered /\ ~WithAllParents.ok /\ ~WithSinkOnly.ok
    /\ phase' = "failed"
    /\ UNCHANGED <<world, bodies, stores, virtual, fresh, search, walk, filter>>

\* The worker answers its tasks with the error and waits for the next message.
AnswerError ==
    /\ phase = "failed"
    /\ phase' = "idle"
    /\ UNCHANGED <<world, bodies, stores, virtual, fresh, search, walk, filter>>

Next ==
    \/ \E b \in Blocks : Arrive(b)
    \/ BeginResolve \/ PopCandidate
    \/ WalkDown \/ SplitPoint
    \/ InheritDisqualified \/ ReuseStoredDiff \/ SkipDisqualified \/ VerifyBlock
    \/ SinkFound \/ CandidateFails
    \/ DropDisqualified \/ TryParent \/ ParentTried
    \/ ResolveWithAllParents \/ ResolveWithSinkOnly \/ ResolveFails \/ AnswerError

Spec == Init /\ [][Next]_vars

(***************************************************************************)
(* Properties                                                              *)
(***************************************************************************)

\* The stores speak of blocks with bodies, and differences and roots come together.
TypeOK ==
    /\ phase \in {"idle", "search", "down", "up", "filter", "failed", "broken"}
    /\ disqualified \cup heap \cup DOMAIN diffs \subseteq bodies
    /\ DOMAIN roots = DOMAIN diffs
    /\ (phase = "filter" => sink \in DOMAIN roots)
    /\ virtual.sink \in DOMAIN roots /\ accepted \subseteq DOMAIN roots

\* calculate_cell_state_relatively and sink_search_algorithm return with the diff of the
\* block they stand on from virtual, and no difference on the way is composed with one that
\* removes or adds a cell twice.
DiffIsOfDiffPoint ==
    /\ phase # "broken"
    /\ phase = "search" => ReconstructTreeFromVirtualDiff(diff) = roots[diffPoint]
    /\ phase = "up" => ReconstructTreeFromVirtualDiff(walk.diff) = roots[walk.point]

\* Which blocks are disqualified, and the root and the difference stored for the others,
\* do not depend on the order in which the blocks came, nor on the reorganisations and
\* failed candidates on the way to them.
VerdictsArePathIndependent ==
    /\ \A b \in disqualified : ~CellState[b].ok
    /\ \A b \in DOMAIN roots :
          /\ CellState[b].ok /\ roots[b] = CellState[b].ctx.tree /\ diffs[b] = CellState[b].ctx.diff

\* The virtual state is its sink's Cell state with the mergeset of its parents applied,
\* and its difference leads back to the sink.
VirtualIsOnItsSink ==
    /\ ApplyTo(Reversed(virtual.diff), virtual.tree) = roots[virtual.sink]
    /\ virtual.tree = CalculateCellState(roots[virtual.sink], virtual.parents).ctx.tree

\* Once every arrived block has been searched, the sink found is the heaviest block whose
\* chain is valid.
SinkIsHeaviestValid ==
    phase = "idle" /\ ~fresh => sink = Heaviest({b \in bodies : CellState[b].ok})

\* A resolve is given up only if the mergeset of the parents it picked cannot be executed
\* on the sink: it never fails on parents that go together, whatever was searched before.
ResolveFailsOnConflictsOnly ==
    phase = "failed" => ~CalculateCellState(CellState[sink].ctx.tree, VirtualParents).ok

\* A resolve ends with a virtual state on the sink that it found: when the mergeset of
\* all parents is refused, the retry with the selected parent only succeeds.
ResolveNeverFails == phase # "failed"
=============================================================================
