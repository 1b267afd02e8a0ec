------------------------------- MODULE Pruning -------------------------------
(***************************************************************************)
(* The pruning processor beside the threads that add blocks.  When the     *)
(* sink is deep enough above it, the pruning point moves up the selected   *)
(* chain, and what lies below is deleted, block by block, under the        *)
(* writer's side of the pruning lock.  Workers of the block pool process   *)
(* headers and bodies under the readers' side; the virtual processor only  *)
(* reads the tips under it.  The process may crash between any two steps.  *)
(*                                                                         *)
(* Blocks are numbers in the order of their weight.  Reachability queries  *)
(* are answered from the DAG: Reachability shows that they are exact.      *)
(***************************************************************************)
EXTENDS Integers, SequencesExt

CONSTANTS Workers, Virtual, Pruner,    \* the threads
          Worlds       \* [parents, selected, past, chain: the DAG; initial: the blocks that are there;
                       \*  depth, finality, window: in blocks of the selected chain;
                       \*  archival, retention: the node's configuration;
                       \*  crashes: how often the process stops]

VARIABLES world,
          holders,     \* who holds the pruning lock
          db,          \* the stores on disk
          crashes,
          todo,        \* blocks that peers will send
          pending,     \* blocks on the way from the header to the body processor
          resolving,   \* blocks on the way to the virtual processor
          job,         \* what each worker is doing
          resolve,     \* the call of resolve_virtual
          message,     \* the newest message to the pruning processor: a sink or None
          exiting,     \* is_consensus_exiting
          prune,       \* the pruning processor's thread
          panics,      \* the panics so far: <<where, block>>
          had          \* the blocks that have ever had a body

vars == <<world, holders, db, crashes, todo, pending, resolving, job, resolve, message, exiting, prune, panics, had>>

\* What Semaphore is shown to implement
Readers == Workers \cup {Virtual}
Lock == INSTANCE RwLock WITH Clients <- Readers \cup {Pruner}

None == -1
Origin == -2

(***************************************************************************)
(* The DAG                                                                 *)
(***************************************************************************)
Blocks == DOMAIN world.parents
Past(b) == world.past[b]                   \* with the block itself
Chain(b) == world.chain[b]                 \* the selected chain, with the block itself
Height(b) == Cardinality(Chain(b)) - 1
InFuture(b, c) == b \in Past(c)            \* is_dag_ancestor_of(b, c)
Anticone(b, blocks) == {c \in blocks : ~InFuture(b, c) /\ ~InFuture(c, b)}
Mergeset(b) == IF b = 0 THEN {} ELSE {world.selected[b]} \cup (Past(b) \ (Past(world.selected[b]) \cup {b}))

\* The chain block this many blocks below b, or genesis.
Below(b, depth) == CHOOSE c \in Chain(b) : Height(c) = Max({0, Height(b) - depth})

(***************************************************************************)
(* Threads                                                                 *)
(***************************************************************************)
Idle == [block |-> None, pp |-> None]
IdlePrune == [step |-> "recv", started |-> FALSE, then |-> "recv", sink |-> None, pp |-> None, root |-> None,
              keepBlocks |-> {}, level0 |-> {}, keep |-> {}, queue |-> <<>>, current |-> None]

Resting ==
    /\ pending = {} /\ resolving = {} /\ message = None /\ exiting = FALSE
    /\ job = [w \in Workers |-> Idle]
    /\ resolve = [step |-> "idle", pp |-> None, tips |-> {}, tasks |-> {}]
    /\ prune = IdlePrune

Init ==
    /\ Lock!Init /\ Resting
    /\ world \in Worlds
    /\ LET n == world.initial IN
       /\ db = [status |-> [b \in Blocks |-> IF b \in n THEN "body" ELSE "none"],
                headers |-> n, bodies |-> n,
                ghostdag |-> [b \in n |-> Mergeset(b)],
                tree |-> [b \in n |-> world.selected[b]],
                tips |-> {Max(n)}, sink |-> Max(n), merged |-> Past(Max(n)),
                pp |-> 0, root |-> 0, checkpoint |-> 0, low |-> 0]
       /\ todo = Blocks \ n
       /\ had = n
    /\ crashes = 0
    /\ panics = {}

\* All threads stop; what is in memory is lost, and peers send the blocks again.
Stop ==
    /\ holders' = {}
    /\ todo' = (todo \cup pending \cup resolving \cup resolve.tasks \cup {job[w].block : w \in Workers}) \ {None}
    /\ pending' = {} /\ resolving' = {} /\ message' = None /\ exiting' = FALSE
    /\ job' = [w \in Workers |-> Idle]
    /\ resolve' = [step |-> "idle", pp |-> None, tips |-> {}, tasks |-> {}]
    /\ prune' = IdlePrune
    /\ UNCHANGED <<world, db, had>>

Crash ==
    /\ crashes < world.crashes
    /\ crashes' = crashes + 1
    /\ Stop
    /\ UNCHANGED panics

\* A panic ends the process.
Panic(where, b) ==
    /\ panics' = panics \cup {<<where, b>>}
    /\ Stop
    /\ UNCHANGED crashes

\* A guard is taken and dropped within the step.
Reading == holders \subseteq Readers

(***************************************************************************)
(* The header processor                                                    *)
(***************************************************************************)
\* process_header up to build_processing_context, where the pruning point is read.  A block
\* without its parents is not sent.
HeaderRead(w, b) ==
    /\ job[w] = Idle
    /\ b \in todo
    /\ \A p \in world.parents[b] : db.status[p] # "none"
    /\ todo' = todo \ {b}
    /\ \/ /\ db.status[b] # "none"
          /\ Reading
          /\ pending' = pending \cup {b}
          /\ UNCHANGED <<job, holders>>
       \/ /\ db.status[b] = "none"
          /\ Lock!Take(w)
          /\ job' = [job EXCEPT ![w] = [block |-> b, pp |-> db.pp]]
          /\ UNCHANGED pending
    /\ UNCHANGED <<world, db, crashes, resolving, resolve, message, exiting, prune, panics, had>>

\* check_pruning_violation and commit_header; the task goes on to the body processor.
HeaderCommit(w) ==
    LET b == job[w].block
        with(f, v) == [c \in DOMAIN f \cup {b} |-> IF c = b THEN v ELSE f[c]]
    IN  /\ job[w] # Idle
        /\ IF \E p \in world.parents[b] : InFuture(job[w].pp, p)
           THEN /\ db' = [db EXCEPT !.status[b] = "header", !.headers = @ \cup {b},
                                    !.ghostdag = with(@, Mergeset(b)), !.tree = with(@, world.selected[b])]
                /\ pending' = pending \cup {b}
           ELSE UNCHANGED <<db, pending>>
        /\ job' = [job EXCEPT ![w] = Idle]
        /\ Lock!Leave(w)
        /\ UNCHANGED <<world, crashes, todo, resolving, resolve, message, exiting, prune, panics, had>>

(***************************************************************************)
(* The body processor                                                      *)
(***************************************************************************)
\* process_body of a valid block, on a free worker: it unwraps the status of the block.
\* The dependency manager holds a task back while one of a parent is on the way.
ProcessBody(b) ==
    /\ \E w \in Workers : job[w] = Idle
    /\ b \in pending
    /\ world.parents[b] \cap pending = {}
    /\ Reading
    /\ \/ db.status[b] = "none" /\ Panic("body", b)
       \/ /\ db.status[b] # "none"
          /\ pending' = pending \ {b}
          /\ \/ /\ db.status[b] = "body"
                /\ resolving' = resolving \cup {b}
                /\ UNCHANGED <<db, had>>
             \/ /\ db.status[b] = "header" /\ \E p \in world.parents[b] : db.status[p] # "body"
                /\ UNCHANGED <<db, had, resolving>>
             \/ /\ db.status[b] = "header" /\ \A p \in world.parents[b] : db.status[p] = "body"
                /\ db' = [db EXCEPT !.status[b] = "body", !.bodies = @ \cup {b},
                                    !.tips = (@ \ world.parents[b]) \cup {b}]
                /\ had' = had \cup {b}
                /\ resolving' = resolving \cup {b}
          /\ UNCHANGED <<world, holders, crashes, todo, job, resolve, message, exiting, prune, panics>>

(***************************************************************************)
(* The virtual processor                                                   *)
(***************************************************************************)
\* virtual_finality_point: never below the pruning point that was read.
FinalityPoint(sink, pp) ==
    LET point == Below(sink, world.finality) IN IF pp \in Chain(point) THEN point ELSE pp

\* A reachability query about a block that has been deleted fails.
LostTips == db.tips \ DOMAIN db.tree

VirtualStart ==
    /\ resolve.step = "idle"
    /\ resolving # {}
    /\ resolve' = [step |-> "read", pp |-> db.pp, tips |-> {}, tasks |-> resolving]
    /\ resolving' = {}
    /\ UNCHANGED <<world, holders, db, crashes, todo, pending, job, message, exiting, prune, panics, had>>

\* Only tips above the finality point are read; the lock is not held any longer.
VirtualRead ==
    /\ resolve.step = "read" /\ Reading
    /\ \/ \E t \in LostTips : Panic("tips", t)
       \/ /\ LostTips = {}
          /\ resolve' = [resolve EXCEPT !.step = "resolve",
                                        !.tips = {t \in db.tips : InFuture(FinalityPoint(db.sink, resolve.pp), t)}]
          /\ UNCHANGED <<world, holders, db, crashes, todo, pending, resolving, job, message, exiting, prune, panics, had>>

\* The heaviest tip with the finality point on its chain is the new sink; virtual merges
\* the other tips that the merge depth bound lets it.
Candidates == {t \in resolve.tips : FinalityPoint(db.sink, resolve.pp) \in Chain(t)}
NewSink == Max(Candidates)
NewMerged ==
    LET root == Below(NewSink, world.finality)
        others == {t \in resolve.tips : \A m \in Past(t) \ Past(NewSink) : InFuture(root, m)}
    IN  UNION {Past(t) : t \in {NewSink} \cup others}

\* What is read of the chains to the old and the new sink and of what virtual merges.
Touched ==
    LET fork == CHOOSE c \in Chain(db.sink) \cap Chain(NewSink) :
                   \A d \in Chain(db.sink) \cap Chain(NewSink) : Height(d) <= Height(c)
    IN  (NewMerged \cup Past(db.sink)) \ Past(fork)

VirtualCommit ==
    /\ resolve.step = "resolve"
    /\ IF Candidates # {} /\ Touched \subseteq db.bodies \cap DOMAIN db.ghostdag
       THEN /\ db' = [db EXCEPT !.sink = NewSink, !.merged = NewMerged]
            /\ message' = NewSink
            /\ resolve' = [resolve EXCEPT !.step = "reply"]
            /\ UNCHANGED <<world, holders, crashes, todo, pending, resolving, job, exiting, prune, panics, had>>
       ELSE Panic("resolve", None)

\* Every task is answered with the status of its block, which is expected to be there.
VirtualReply ==
    LET gone == {b \in resolve.tasks : db.status[b] = "none"} IN
    /\ resolve.step = "reply"
    /\ \/ \E b \in gone : Panic("reply", b)
       \/ /\ gone = {}
          /\ resolve' = [step |-> "idle", pp |-> None, tips |-> {}, tasks |-> {}]
          /\ UNCHANGED <<world, holders, db, crashes, todo, pending, resolving, job, message, exiting, prune, panics, had>>
(***************************************************************************)
(* The pruning processor                                                   *)
(***************************************************************************)
\* Every chain block that starts a new period of finality depth is a sample; the pruning
\* point of a sink is the newest sample that is deep enough (a chain block adds one to the
\* blue score here).
IsSample(b) == b = 0 \/ Height(b) \div world.finality > Height(world.selected[b]) \div world.finality

\* Mutant of NextPruningPoint: any sample is deep enough.
NextPruningPoint_Shallow(sink) ==
    LET samples == {b \in Chain(sink) : IsSample(b)} IN CHOOSE b \in samples : \A c \in samples : Height(c) <= Height(b)

NextPruningPoint(sink) ==
    LET deep == {b \in Chain(sink) : IsSample(b) /\ (b = 0 \/ Height(b) + world.depth <= Height(sink))}
    IN  CHOOSE b \in deep : \A c \in deep : Height(c) <= Height(b)

\* advance_retention_period_root: a sample that is old enough, found from the new pruning
\* point down to the old root.
RetentionRoots(pp) ==
    IF world.archival THEN {db.root}
    ELSE IF world.retention
         THEN {b \in Chain(pp) : IsSample(b) /\ Height(b) >= Height(db.root)}
         ELSE {pp}

PastPruningPoints == {b \in Chain(db.pp) : IsSample(b) /\ b # db.pp}

At(step) == prune.step = step
pruneOnly == <<world, crashes, todo, pending, resolving, job, resolve, exiting, panics, had>>

\* worker: the first message starts the recovery.
Receive ==
    /\ At("recv") /\ message # None
    /\ prune' = [IdlePrune EXCEPT !.step = IF prune.started THEN "advance" ELSE "recover",
                                  !.started = TRUE, !.sink = message]
    /\ message' = None
    /\ UNCHANGED <<holders, db, pruneOnly>>

\* Mutant of Recover: an interrupted prune is not completed.
Recover_Never ==
    /\ At("recover")
    /\ prune' = [prune EXCEPT !.step = "advance"]
    /\ UNCHANGED <<holders, db, message, pruneOnly>>

\* recover_pruning_workflows_if_needed
Recover ==
    /\ At("recover")
    /\ prune' = IF db.checkpoint # db.root
                THEN [prune EXCEPT !.step = "prepare", !.then = "advance", !.pp = db.pp, !.root = db.root]
                ELSE [prune EXCEPT !.step = "advance"]
    /\ UNCHANGED <<holders, db, message, pruneOnly>>

\* advance_pruning_point_and_candidate_if_possible: the pruning lock is not held.
Advance ==
    /\ At("advance")
    /\ LET pp == NextPruningPoint(prune.sink) IN
       \/ /\ Height(pp) <= Height(db.pp)
          /\ prune' = [IdlePrune EXCEPT !.started = TRUE]
          /\ UNCHANGED db
       \/ /\ Height(pp) > Height(db.pp)
          /\ \E root \in RetentionRoots(pp) :
                /\ db' = [db EXCEPT !.pp = pp, !.root = root]
                /\ prune' = [prune EXCEPT !.step = "verify", !.then = "recv", !.current = db.pp,
                                          !.pp = pp, !.root = root]
    /\ UNCHANGED <<holders, message, pruneOnly>>

\* advance_pruning_cellset: the chain between the two pruning points is indexed and has cell diffs.
Verify ==
    /\ At("verify")
    /\ IF /\ {prune.current, prune.pp} \subseteq Chain(db.sink)
          /\ db.low <= Height(prune.current)
          /\ Chain(prune.pp) \ Chain(prune.current) \subseteq db.bodies
       THEN /\ prune' = [prune EXCEPT !.step = "prepare", !.current = None]
            /\ UNCHANGED <<holders, db, message, pruneOnly>>
       ELSE Panic("verify", None)

\* Mutant of KeepBlocks: the anticone is forgotten.
KeepBlocks_PointOnly == {prune.pp}

\* get_pruning_point_anticone_and_trusted_data: the pruning point and its anticone from virtual,
\* and what is above the lowest block of a window of one of them.
KeepBlocks == {prune.pp} \cup Anticone(prune.pp, db.merged)
Level0 ==
    LET lowest == Min({Below(b, world.window) : b \in KeepBlocks})
    IN  KeepBlocks \cup {c \in UNION {Past(b) : b \in KeepBlocks} : c \in DOMAIN db.ghostdag /\ c >= lowest}
WindowsAreThere ==
    \A b \in KeepBlocks : {c \in Chain(b) : Height(b) - Height(c) <= world.window} \subseteq DOMAIN db.ghostdag

Prepare ==
    /\ At("prepare")
    /\ IF world.archival \/ WindowsAreThere
       THEN /\ prune' = IF world.archival
                        THEN [prune EXCEPT !.step = prune.then]
                        ELSE [prune EXCEPT !.step = "filter", !.keepBlocks = KeepBlocks, !.level0 = Level0]
            /\ UNCHANGED <<holders, db, message, pruneOnly>>
       ELSE Panic("prepare", None)

\* The mergesets of what is kept forget what is not; then the lock is dropped, and what the
\* proof of the higher levels needs is kept too: genesis is on all of them.
Filter ==
    /\ At("filter") /\ holders = {}
    /\ db' = [db EXCEPT !.ghostdag = [b \in DOMAIN @ |-> IF b \in prune.level0 THEN @[b] \cap prune.level0
                                                         ELSE @[b]]]
    /\ prune' = [prune EXCEPT !.step = "tips", !.keep = prune.level0 \cup {0}]
    /\ UNCHANGED <<holders, message, pruneOnly>>

TreeChildren(b) == SetToSortSeq({c \in DOMAIN db.tree : db.tree[c] = b}, <)

\* Tips and the selected chain index
PruneTips ==
    /\ At("tips") /\ holders = {}
    /\ IF LostTips = {}
       THEN /\ db' = [db EXCEPT !.tips = {t \in @ : InFuture(prune.pp, t)},
                                !.low = IF prune.root = prune.pp \/ @ <= Height(prune.root)
                                        THEN Height(prune.root) ELSE @]
            /\ prune' = [prune EXCEPT !.step = "next", !.queue = TreeChildren(Origin)]
            /\ Lock!Take(Pruner)
            /\ UNCHANGED <<message, pruneOnly>>
       ELSE \E t \in LostTips : Panic("tips", t)

\* Mutant of NextBlock: only the children of deleted blocks are visited.
NextBlock_ChildrenOfDeleted ==
    /\ At("next") /\ prune.queue # <<>>
    /\ LET b == Head(prune.queue) IN
       \/ /\ InFuture(prune.root, b) \/ b \in prune.keep
          /\ prune' = [prune EXCEPT !.queue = Tail(@)]
          /\ UNCHANGED holders
       \/ /\ ~InFuture(prune.root, b) /\ b \notin prune.keep
          /\ prune' = [prune EXCEPT !.step = "delete", !.current = b, !.queue = Tail(@) \o TreeChildren(b)]
          /\ UNCHANGED holders \/ (~exiting /\ Lock!Leave(Pruner))
    /\ UNCHANGED <<db, message, pruneOnly>>

\* The next block of the traversal; when more than 5 ms have passed, the lock is yielded.
NextBlock ==
    /\ At("next") /\ prune.queue # <<>>
    /\ LET b == Head(prune.queue) IN
       \/ /\ InFuture(prune.root, b)
          /\ prune' = [prune EXCEPT !.queue = Tail(@)]
          /\ UNCHANGED holders
       \/ /\ ~InFuture(prune.root, b)
          /\ prune' = [prune EXCEPT !.step = "delete", !.current = b, !.queue = Tail(@) \o TreeChildren(b)]
          /\ UNCHANGED holders \/ (~exiting /\ Lock!Leave(Pruner))
       \/ /\ ~InFuture(prune.root, b) /\ exiting
          /\ prune' = [IdlePrune EXCEPT !.step = prune.then, !.started = TRUE, !.sink = prune.sink]
          /\ Lock!Leave(Pruner)
    /\ UNCHANGED <<db, message, pruneOnly>>

\* What is left of the stores when the block is deleted with all its data
Without(b) ==
    LET drop(f) == [c \in DOMAIN f \ {b} |-> f[c]] IN
    [db EXCEPT !.bodies = @ \ {b}, !.status[b] = "none", !.ghostdag = drop(@),
               !.headers = IF b \in PastPruningPoints THEN @ ELSE @ \ {b},
               !.tree = [c \in DOMAIN @ \ {b} |-> IF @[c] = b THEN @[b] ELSE @[c]]]

\* ... and when its relations are kept
HeaderOnly(b) ==
    [db EXCEPT !.bodies = @ \ {b},
               !.status[b] = IF @ = "none" THEN @ ELSE "header",
               !.ghostdag = [c \in {d \in DOMAIN @ : d # b \/ b \in prune.level0} |-> @[c]]]

DeleteBlock ==
    /\ At("delete")
    /\ IF Pruner \in holders THEN UNCHANGED holders ELSE Lock!Take(Pruner)
    /\ LET b == prune.current IN
       db' = IF b \in prune.keepBlocks THEN db ELSE IF b \in prune.keep THEN HeaderOnly(b) ELSE Without(b)
    /\ prune' = [prune EXCEPT !.step = "next", !.current = None]
    /\ UNCHANGED <<message, pruneOnly>>

EndTraversal ==
    /\ At("next") /\ prune.queue = <<>>
    /\ prune' = [prune EXCEPT !.step = "checkpoint"]
    /\ Lock!Leave(Pruner)
    /\ UNCHANGED <<db, message, pruneOnly>>

SetCheckpoint ==
    /\ At("checkpoint")
    /\ db' = [db EXCEPT !.checkpoint = prune.root]
    /\ prune' = [IdlePrune EXCEPT !.step = prune.then, !.started = TRUE, !.sink = prune.sink]
    /\ UNCHANGED <<holders, message, pruneOnly>>
(***************************************************************************)
(* The specification                                                       *)
(***************************************************************************)
\* signal_exit of the consensus
SignalExit ==
    /\ crashes < world.crashes /\ ~exiting
    /\ exiting' = TRUE
    /\ UNCHANGED <<world, holders, db, crashes, todo, pending, resolving, job, resolve, message, prune, panics, had>>

Work ==
    \/ \E w \in Workers : HeaderCommit(w) \/ \E b \in todo : HeaderRead(w, b)
    \/ \E b \in pending : ProcessBody(b)

Resolve == VirtualStart \/ VirtualRead \/ VirtualCommit \/ VirtualReply

Prune ==
    \/ Receive \/ Recover \/ Advance \/ Verify \/ Prepare \/ Filter
    \/ PruneTips \/ NextBlock \/ DeleteBlock \/ EndTraversal \/ SetCheckpoint

Step == Work \/ Resolve \/ Prune
Next == Step \/ Crash \/ SignalExit

\* As long as some thread can take a step, one does.
Fairness == WF_vars(Step)

Spec == Init /\ [][Next]_vars /\ Fairness

(***************************************************************************)
(* Properties                                                              *)
(***************************************************************************)
\* prune, keep_blocks and keep_headers: a block that had its body still has it, and its
\* place in the DAG, if it is in the future of the retention root, the pruning point, or in
\* the pruning point's anticone from virtual, however far virtual moves while blocks are
\* deleted; and past pruning points have their headers.
NeededIsKept ==
    LET needed == {b \in had : InFuture(db.root, b)} \cup {db.pp} \cup Anticone(db.pp, db.merged)
    IN  /\ needed \subseteq db.bodies \cap DOMAIN db.ghostdag \cap DOMAIN db.tree
        /\ PastPruningPoints \subseteq db.headers

\* prune: when the checkpoint is set, nothing outside the future of the retention root is
\* left but what is kept, whatever was added while the lock was yielded, and what is kept
\* merges nothing that is deleted.
NothingIsLeft ==
    [][SetCheckpoint =>
          /\ \A b \in DOMAIN db'.tree : \/ InFuture(prune.root, b)
                                        \/ b \in IF b \in db'.bodies THEN prune.keepBlocks ELSE prune.keep
          /\ \A b \in prune.level0 : db'.ghostdag[b] \subseteq DOMAIN db'.ghostdag]_vars

\* The unwraps of process_body, of the replies and of the reachability queries fail for
\* blocks outside the future of the pruning point only; nothing else fails.
OnlyStaleBlocksPanic ==
    \A p \in panics : p[1] \in {"body", "reply", "tips"} /\ ~InFuture(db.pp, p[2])

\* A sink that is deep enough leads to a complete prune, also after it was interrupted.
PruneCompletes ==
    (message # None /\ crashes = world.crashes) ~> (db.checkpoint = db.root \/ panics # {})

\* prune: "any tip which isn't in future(pruning_point) will never be merged by virtual
\* and hence can be safely deleted": no tip is left whose block is deleted.
TipsAreInTheTree == LostTips = {}
==============================================================================
