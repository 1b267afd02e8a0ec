# Spora: a TLA+ model of a block-DAG node

Spora is a GHOSTDAG block-DAG node whose ledger is a set of Cells. This directory models the path of a
block through the node (orphan pool, worker pipeline with its dependency manager, GHOSTDAG, reachability, the
search for the sink with the Cell differences it carries, the layered execution of a mergeset, pruning) and
the mempool beside it. TLC checks the models on small instances; TLAPS proves, for all instances,
the central facts about a pipeline stage, the safety of the whole pipeline, that of the pruning lock, and what
composing and reversing Cell differences does.

Paths below are relative to the repository; `consensus/` stands for `src/consensus/src/`.

## 1. Inventory

| Part | State | Operations that change it | What makes it hard |
|---|---|---|---|
| Dependency manager, `consensus/pipeline/deps_manager.rs` | pending groups, dependents, idle condition | `register`, `try_begin`, `end`, `wait_for_idle` | worker and pool threads interleave; duplicates of a block queue up; one wake-up only |
| Header and body processors, `pipeline/{header,body}_processor` | statuses, headers, GHOSTDAG data, relations, tips | `process_header`, `process_body`, commits | blocks before their parents, copies of a block, crash between commits |
| Virtual processor, `pipeline/virtual_processor/processor.rs` | virtual state, Cell diffs and roots, statuses | `resolve_virtual`, `sink_search_algorithm`, `calculate_cell_state_relatively`, `commit_virtual_state` | reorganisations, disqualified chains, blocks committed during the search, a retry |
| Mergeset execution, `virtual_processor/{cell_processing,execution_dag,access_summary}.rs` | processing context | analysis, commit, red blocks | parallel analyses on one snapshot; duplicates and conflicts |
| Cell differences, `consensus/core/src/cell_diff.rs` | two maps | compose, reverse, apply | cancellation by out point |
| GHOSTDAG, `processes/ghostdag` | GHOSTDAG store, headers selected tip | `ghostdag`, `add_blue`, `commit_header` | incremental counts along a chain |
| Reachability, `processes/reachability` | interval tree, covering sets, reindex root | `add_block`, `delete_block`, reindexing, hint | interval space runs out and is reclaimed |
| Pruning and its proofs, `pipeline/pruning_processor`, `processes/pruning*` | pruning point, what is retained | advance, prune, import | long deletion beside readers; resumes after a crash |
| Consensus manager, sessions, locks, `components/consensusmanager`, `utils/src/sync` | current and staging consensus, lock state | sessions, staging commit, reader-first lock, semaphore | readers against a pruning writer |
| Mining mempool and cell pool, `src/mining`, `src/mempool` | pool, orphans, accepted set | insert, replace, remove, block added, expire | template building beside new blocks |
| P2P flows, `src/protocol/flows` | block orphans, process queue, IBD state | relay, unorphan, IBD, trusted data | late and duplicated messages, timeouts |
| Notification, indexes | subscriptions, cell index | subscribe, notify, follow virtual | order and loss of notifications |
| Address and connection manager | known and banned peers | connect, fail, ban | random and timed |
| VM (`src/exec`), RPC, wallet, CLI, SDK | | | interpreters, I/O and conversion |

`PROJECT.json` lists every part with its status, and every hazard with its line and the properties that
would catch it.

## 2. Modules

| Module | What it models |
|---|---|
| `DepsManager` | The dependency manager. `queue[b]` is the task group of block `b`, `taken` the groups whose front task a thread holds, `dependents` as in the code, `spawned[b]` the jobs of `b` in the pool. Actions `Register`, `Begin`/`Defer` (the two ends of `try_begin`) and `End`. |
| `ProcessorStage` | A worker loop with its channel, its pool threads and its exit. The header and the body worker are the same program. `wait_for_idle` is its check and its wait, as two steps. |
| `OrderedStage` | What a stage promises: a task starts after the earlier tasks of its block and of its parents have ended. `ProcessorStage` implements it. |
| `ProcessorStageProofs` | The proofs. |
| `BlockPipeline` | Header, body and virtual processor over shared stores. The first two are instances of `OrderedStage`. A header, a body and a Cell state are verdicts; what is stored and answered, and when, is modelled. A crash loses all but the stores. |
| `BlockDagLemmas`, `BlockPipelineProofs`, `PipelineAnswerProofs`, `PipelineVirtualProofs` | The proofs about it: the DAG, the stores and the search, the block results, the virtual results. |
| `Ghostdag` | `ghostdag` and what `commit_header` keeps of it. `data[b]` is `GhostdagData` with its sparse `blues_anticone_sizes`; a panic or a failing assertion is recorded. Ancestry is what the reachability service answers. |
| `Interval`, `Reachability` | The reachability tree: intervals and how they are split, insertion, reindexing, the reindex root and its advance, future covering sets, queries by binary search, deletion of blocks and the relations that are rewired with it. `store` is the reachability store; an error or a failed assertion sets `failed`. |
| `CellDiff` | A difference as two functions from out points to DAA scores, with the checked composition of the code. |
| `CellDiffProofs` | The proofs about it. |
| `CellExecution` | Access summaries, the analysis of a block against a snapshot, effects and their commit, red blocks, and block-by-block execution (`CellStateInOrder`), which is the serial reference. |
| `LayeredExecution` | `calculate_cell_state`: layers, concurrent analyses, ordered commit. |
| `VirtualState` | `resolve_virtual` on real Cell differences, one step of a walk at a time, with blocks arriving at any moment. |
| `RwLock` | What the pruning lock promises: readers together, or one writer alone. |
| `Semaphore` | `utils/src/sync`: the permit counter, the waiters of the event list (`asleep`, `awake`), and each call of `acquire`, `release` and `blocking_yield` as the atomic steps it makes. A waiter may be cancelled. It implements `RwLock`. |
| `SemaphoreProofs` | The proofs about it. |
| `Pruning` | The pruning processor: message, recovery, advance of the pruning point, what to keep, tips, traversal with yields, checkpoint. Beside it run header, body and virtual processor, reduced to what they read and write of the stores (`db`) and to the lock they hold (`RwLock`). A panic ends the process like a crash, and is noted in `panics`. |
| `Mempool` | `MiningManager` and its pools. A call is split where it gives the lock away: resolve under the read lock, validate in consensus without a lock, insert under the write lock. `pool` is the struct behind the lock, with the relations, the ready set, the index of spent out points, the CellPool mirror and the orphans. |
| `OrphanBlocks` | The pool of orphan blocks: relay, RPC, the release of descendants after a block was processed, and the revalidation after IBD. `pool[b]` is the set of children that is stored with an orphan. |
| `MC...` | Instances for TLC. |

How they fit together: `DepsManager` is the state of `ProcessorStage`, which implements `OrderedStage`, two of
which are the front of `BlockPipeline`. The last stage of `BlockPipeline` takes the verdict of the Cell
state as given. `VirtualState` replaces the verdict by differences and trees, and executes mergesets with
the serial reference of `CellExecution`. `LayeredExecution` shows that the layered execution, which the
node uses, equals that reference. `Ghostdag` shows that a mergeset comes in a topological order, which
`BlockPipeline` and `VirtualState` assume. `Reachability` shows that queries are exact, which `Ghostdag`, `Pruning` and
the others assume when they take ancestry from the DAG. `Pruning` takes its lock from `RwLock`, which
`Semaphore` implements. `OrphanBlocks` and `Mempool` stand before the pipeline and beside it: what they need of consensus are the
status of a block and the cells of the virtual state.

`Worlds` is a constant of several modules. It is the set of inputs (contents, verdicts, hashes) of which a behaviour
has one, chosen initially and kept in the variable `world`. One run then covers all of them.

A definition such as `Finish_NoSignal` before `Finish` is a mutant, a form of the definition that has a
plausible bug. With it in place of the definition, TLC reports the property that `PROJECT.json` pairs it with.

## 3. Runs

| Run | Instance | Result |
|---|---|---|
| `stage` | 3 blocks in a triangle, 4 tasks (one block twice), 2 threads | Every pending group has one handle, exit comes last, the promise is kept, every task ends, exit passes. |
| `pipeline` | 4 blocks, up to 4 tasks of 5, one crash, 4 worlds | Stored bodies are closed under parents, parents sent first are found, only invalid blocks are marked invalid, the virtual processor sees every committed tip, the sink chain is valid. |
| `pipeline_live` | 4 blocks, 3 tasks | Every task is answered on both transmitters; shutdown ends. |
| `ghostdag` | all DAGs of 7 blocks, k of 1 and 2, two hash orders, unequal work | k-cluster, exact counts, red only if forced, topological order. |
| `reachability` | trees of 6 and 7 blocks and DAGs of 4 and 5 blocks over 24 to 60 numbers, slack and depth of 1 or 2, one or two deletions in the DAGs | Chain and DAG queries are exact through every reindexing and deletion, relations keep the past, nothing fails. |
| `layers` | all mergesets of 3 blue blocks and at most one red one, over 5 transactions | Layered execution equals block-by-block execution, the difference leads to the tree, a transaction is accepted once. |
| `virtual` | 7 blocks, two chains and a merge, conflicting contents or not, any two blocks bad | The carried difference is that of the block it stands on, verdicts do not depend on the path, the virtual state is on its sink, the sink is the heaviest valid block, resolution fails only where parents conflict. |
| `semaphore` | 3 readers, 2 writers, 6 permits | It is a read-write lock; no wakeup is lost; no deadlock. |
| `pruning` | DAGs with a side chain, with and without a retention period, archival or not, a crash or an exit at any step | What is needed is kept, what is not is gone when a prune ends, an interrupted prune is completed, and only blocks that the pruning point has passed can make a processor panic. |
| `mempool` | 2 threads, 5 worlds of 3 to 5 transactions | No double spend, limits hold, ready is exact, no template is older than its request. |
| `mempool_orphans` | an orphan with a confirmed input | **Violation**, finding 1. |
| `orphans` | 4 worlds of 4 or 5 blocks on the genesis, a pool of 2 to 4 orphans, IBD | Whatever is released finds its parents, and a call releases all that it can. |

### Findings

1. An orphan transaction that also has a confirmed input is not promoted when its parent is accepted: validation
   reports the missing inputs before it fills in those that consensus has, and `is_verifiable` then misses
   them (`PROJECT.json` quotes the lines). `src/mining/src/mempool/mod.rs:63` promises promotion.

The following were found with the configurations named here, which TLC refutes in seconds
(`tlc -config <file> <module>`).

2. `MCVirtualStateSameTx.cfg`, `DiffIsOfDiffPoint`: `cell_diff.rs:286` cancels an addition against a removal by out point, though the two
   can carry different DAA scores. The search's difference is then not that of the block it stands on, as `virtual_processor/processor.rs:894` guarantees.
3. `MCVirtualStateRetry.cfg`, `ResolveNeverFails`: the retry of `resolve_virtual` with the selected parent only (`processor.rs:811`) starts from the difference of the previous
   sink. If the sink has changed, it fails.
4. `MCBlockPipelineSpend.cfg`, `InvalidMeansInvalid`: body validation reads Cell diffs (`cell_provider.rs:215`) that the virtual processor has not stored yet, and marks a valid block
   invalid for good.
5. `MCLayeredExecutionRule2.cfg`, `ConflictsAreSkipped`: two blue blocks that spend one cell fail the mergeset (`cell_processing.rs:819`). `docs/MPE_PROTOCOL_SEMANTICS.md:44` says that the second
   transaction is skipped.
6. `MCLayeredExecutionReds.cfg`, `RedOutputsNeverLive`: the check that outputs of red blocks are absent (`cell_processing.rs:293`) also fails on a transaction that a blue block has.
7. `MCLayeredExecutionGroups.cfg`, `LayeredIsSerial`: access summaries (`access_summary.rs:87`) do not hold the members of a dep group, so that a conflict within a layer is not seen.
8. `MCPruningTips.cfg`, `TipsAreInTheTree`: the comment at `pruning_processor/processor.rs:384` says that a tip outside the future of the pruning
   point is never merged and can be deleted. The body of such a block may arrive after the tips were
   pruned; it becomes a tip again and is then deleted from the reachability tree, and the next query about it fails.
9. `MCOrphanBlocksForgotten.cfg`, `NoOrphanIsForgotten`: `v5/blockrelay/flow.rs:310` says that the orphans of an IBD are all unorphaned when it completes.
   `revalidate_orphans` sends the roots without waiting, so that `unorphan_blocks` finds them without a status,
   and their descendants stay in the pool.

Two more comments of the mempool do not hold. A transaction that is an orphan and is submitted
again once its inputs are there enters the pool without leaving the orphans (`mempool/mod.rs:39` says "at most
once across the transaction pool and the orphan pool combined"; `TransactionUniqueness` states it). And
`add_mempool_transaction` assumes that a new transaction has no children in the pool, which is wrong when a parent was removed
without its redeemers and comes back. The invariants of `Mempool` are therefore stated until the first
(`pool.twin`) and, for the ready set, the second (`pool.late`) has happened.

### Bounds

- `stage`: a triangle of blocks is the least DAG in which a block waits for one parent, is handed on and then waits
  for the other; the duplicate makes a queue of two; two threads let jobs overlap.
- `pipeline`: C merges A and B on top of B, so that a child of an invalid, of a disqualified and of a
  missing parent occurs. `MaxCrashes = 1` suffices for what is stored, since a restart begins from stores
  that are reachable without it. The worlds are: a wrong Cell state at B; a body of A that breaks a
  rule, with C also sent as a header; a wrong Cell state at A, with a second copy of A with other
  transactions; a header of A that fails after its proof of work. The first, which is the largest, is run
  without a shutdown here and with one in `pipeline_live`.
- `ghostdag`: with k = 1 six blocks are enough for a count that changes twice along a chain and for
  both limits to colour a block red. With k = 2 the limit k + 1 on blues is also reached.
- `layers`: three blue blocks let a block depend on the one before it, on the one before that, or on both. The limit of 3 cycles
  is reached by two transactions of a block.
- `virtual`: the chains interleave by blue work, so that the search moves from one to the other
  several times as blocks arrive; F merges both.

- `reachability`: the code has 2^64 numbers and a slack of 2^14; here both are so small that a handful of blocks uses up
  the space of a subtree, below and above the reindex root, on both sides of it. A deletion needs a DAG in which the block has children.
- `semaphore`: with two writers and three readers a notification can reach a waiter of either kind that cannot go on.
- `pruning`: the pruning depth is two or three chain blocks, with finality of one or two, so that the pruning point moves twice; the side chain
  is partly in the anticone of the pruning point. One crash, since a second prune recovers from the same stores.
- `mempool`: each world is made for one set of calls (replacement, orphans, scans, templates, sizes) with
  two threads; the limits are two or three transactions, so that eviction and refusal occur.
- `orphans`: a diamond, a full pool, a block that breaks a rule, and an IBD that ends while blocks are relayed.

`CHECK_DEADLOCK FALSE` is set in all runs but `semaphore`: a node with no more input rests.

### Abstractions worth knowing

- `Pruning`: depth and blue score are counted in blocks of the selected chain; a block has a body or not, and its status
  follows; the proof of the higher levels keeps the genesis. Peers send a block once its parents are known.
- `Mempool`: a transaction is its inputs, outputs, fee rate, size and priority. Which transactions
  are old enough to expire, and when a cached template is too old, is open. The order in which a hash map yields
  is either of two. Redeemers are removed in one fixed order. The mass limit of a template is left out.
- `OrphanBlocks`: one flow holds a block at a time; a header without its body counts as no block; the random choice of an evicted
  orphan and the range check of IBD are open. The statuses that one search reads are read at once: they only grow, and
  the pool is locked meanwhile.

### Fairness

`ProcessorStage` assumes weak fairness of its worker, which is a thread of its own, and of a job that runs. A
job's start has strong fairness: it needs a free thread, which can be taken and released many times
before the pool gets to it. Rayon runs every job it is given and no job waits for another one. In
`BlockPipeline` the size of the pool is abstracted away, and weak fairness of the jobs of a task and of each
worker is enough. Nothing is assumed of callers: a task or an exit may never be sent.
`Pruning` assumes only that some thread takes a step as long as one can (`WF_vars(Step)`); crashes and
the exit signal are not forced.

## 4. Proofs

`ProcessorStageProofs` proves, for any sets of blocks and tasks, any relation of parents and any number
of threads:

- `TypeCorrect`: `Spec => []TypeOK`, which the others rest on;
- `EveryGroupHasOneHandle`: `Spec => []OneHandle`. A pending group is being processed, or has one job in
  the pool, or is among the dependents of one pending group, and exactly one of these;
- `ExitComesLast`: `Spec => []ExitIsLast`;
- `StageImplementsPromise`: `Spec => ImplementsOrderedStage`.

The assumptions are those of `DepsManager` and `ProcessorStage`: tasks carry blocks, parents are blocks,
there is at least one thread, and `Exit` is not a task. The argument is one inductive invariant, `StageInv`.
`OneHandle` is inductive with the types. `ExitIsLast` is not: it needs to know where a task is
(`Placement`: on the channel, in the queue of its block in order of arrival, or ended) and that the map stays empty
after `wait_for_idle` (`IdleIsIdle`), since the worker does not look again after its wake-up.
For the refinement, a task starts when `try_begin` finds no pending parent; `Placement` turns
"not pending" into "all its tasks have ended".

`SemaphoreProofs` proves, for any finite set of clients, readers or not, and any number of permits above
their number:

- `WritersAreAlone`: `SemSpec => []Exclusive`;
- `WakeupsAreNeverLost`: `SemSpec => []NoLostWakeup`. If a waiter could take its permits, then a waiter has been notified, or a
  client is on its way to notify or to try again;
- `ImplementsRwLock`: `SemSpec => RefinesRwLock`.

The inductive invariant says that the counter and the permits of the holders add up to the whole, which
is a fact about the number of holders, and that the event list holds each waiting client once.

The proofs about `BlockPipeline` hold for any finite DAG, any tasks (a block may be sent several times, as a
header or whole), any verdicts, and any crash:

- `BodiesAlwaysClosed`: `Spec => []BodiesAreClosedUnderParents`;
- `SinkChainAlwaysValid`: `Spec => []SinkChainIsValid`;
- `OnlyInvalidIsMarked`: `Spec => []InvalidMeansInvalid`, if no block spends a cell of its own selected
  chain. Finding 4 shows that the condition is needed;
- `ParentsSentFirstAlwaysFound`: `Spec => []ParentsSentFirstAreFound`;
- `VirtualAlwaysSees`: `Spec => []SeenByVirtual`.

They assume `PipelineAssumption`: blocks are finitely many, parents are blocks, tasks carry blocks, blue work is a
natural number that grows from parent to child, and no two blocks have the same one (in the code the hash breaks
ties). Header and body stage enter as `OrderedStage`, which `StageImplementsPromise` justifies. The invariant
grows with the theorems:

- `StoresOK` adds to the closure of bodies that a valid block has a valid selected parent and that a disqualified one
  has a block with a bad Cell state on its chain. `SearchOK` adds that the heap of the search is not empty and that what it
  found is valid. Without the second, the commit of the sink could not be shown to be a step between valid chains.
- `StagesOK` and `AnswersOK` say what a task has left behind in each stage. `OrderOK` says that the body stage gets
  related tasks in the order of the header stage, although jobs of the header stage end in any order: this is
  the step where two ordered stages in a row are shown to be ordered. `MissingOK` is the property on
  the results that are not sent yet.
- `SearchCovers` says that every block of good chain in the past of a collected task is below a candidate of the heap while the
  search runs, and no heavier than the sink after it. It holds when the search starts because every body is
  below a tip (`TipAbove`), and through a failed candidate because its parents are pushed unless a candidate
  is above them (`FailureCovers`).

`Chain` and `Past` are recursive functions. The library's induction rules take an operator and cannot be used, so a claim about
all blocks is proved by its lightest counterexample (`DagInduction`, from the well-foundedness of the natural numbers),
and the equation of a recursive function by exhibiting a function that satisfies it (`ChainEquation`, `PastEquation`).

`CellDiffProofs` proves for any differences and any collection of cells:

- `CompositionSucceeds`: if `d` can be applied to a collection and `e` to the result, their composition passes the checks of
  the code, and can be applied to the collection;
- `CompositionIsSequence`: applying it is applying `d` and then `e`, provided that a cell which `d` removes and `e` adds comes back
  with its metadata. Finding 2 is a case in which it does not;
- `ReverseUndoes`: a difference that knows what it removes is undone by its reverse.

A difference can be applied (`Fits`) when it removes what is there and adds what is not.

Only model-checked: liveness; everything in `Ghostdag`, `Reachability`, `LayeredExecution`, `VirtualState`,
`Pruning`, `Mempool` and `OrphanBlocks`. Several of these use recursive operators, in whose presence the SMT backend
is not available.

## 5. Not modelled

- Trusted blocks, building, validating and importing pruning proofs, IBD before its last step, staging consensus.
- Limits on mergeset size and block parents (`pick_virtual_parents`; merge depth and the finality point are in `Pruning`); header rules other than parents;
  body rules other than the parents' bodies and the lookup of chain cells.
- Suspension of the resumable execution, caches, encodings, the structure of the Cell tree and its commitments.
- Concurrent computation of GHOSTDAG data: it reads only what is stored for the past of a block, which does not change
  and, by the promise of a stage, is there.
- Widths of integers: DAA scores, blue scores and cycles are far below their limits.
- Every part of the inventory with no module above, for the reason in `PROJECT.json`.

- In `Reachability`, the rounding of floating-point numbers when an interval is split by powers of two.
- In `Mempool`, fee estimation, standardness rules, `modify_block_template` for other miner data, and queries.

## 6. Plan

1. Proofs: `DiffIsOfDiffPoint` of `VirtualState` from `CompositionIsSequence`, with its recursive operators
   rewritten as functions; `NoDoubleSpend` of `Mempool`.
2. The consensus manager: staging consensus, sessions and the switch between instances, over `RwLock`.
3. IBD as a whole, with the headers proof, in front of `OrphanBlocks`.
4. Suspension in `CellExecution`; the limits of `pick_virtual_parents` in `VirtualState`.
5. Notification and cell index over the virtual changes of `VirtualState`.
