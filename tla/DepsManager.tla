---------------------------- MODULE DepsManager ----------------------------
(***************************************************************************)
(* BlockTaskDependencyManager: the structure with which the header and the *)
(* body processor keep tasks of a block DAG in dependency order while a    *)
(* thread pool works on them.                                              *)
(*                                                                         *)
(* The manager is a mutex around a map from a block hash to a task group.  *)
(* Here a group is spread over three variables: the queue of its tasks,    *)
(* the set of blocks whose front task try_begin has taken, and the groups' *)
(* dependents.  The map has an entry for a block exactly while its queue   *)
(* is not empty.  spawned[b] counts the queue_block(b) jobs that were      *)
(* handed to the thread pool and have not started yet.                     *)
(*                                                                         *)
(* Every operation runs under the mutex and is one step.  Handing the      *)
(* tasks that `end` returns to the pool is part of its step: a job that is *)
(* handed over late cannot be told from one that starts late.              *)
(***************************************************************************)
EXTENDS Naturals, Sequences

CONSTANTS Blocks,      \* block hashes
          Tasks,       \* one element per BlockProcessingMessage::Process
          BlockOf,     \* the block a task carries
          ParentsOf    \* the direct parents in a block's header, in order

ASSUME DagAssumption ==
    /\ BlockOf \in [Tasks -> Blocks]
    /\ ParentsOf \in [Blocks -> Seq(Blocks)]

VARIABLES queue, taken, dependents, spawned

depsVars == <<queue, taken, dependents, spawned>>

IsPending(b) == queue[b] # <<>>

IsIdle == \A b \in Blocks : ~IsPending(b)

DepsInit ==
    /\ queue = [b \in Blocks |-> <<>>]
    /\ taken = {}
    /\ dependents = [b \in Blocks |-> {}]
    /\ spawned = [b \in Blocks |-> 0]

-----------------------------------------------------------------------------
\* register: a new group is queued for processing, a task for a block that is
\* pending already only joins the queue of its group.
Register(t) ==
    LET b == BlockOf[t] IN
    /\ queue' = [queue EXCEPT ![b] = Append(@, t)]
    /\ spawned' = IF IsPending(b) THEN spawned ELSE [spawned EXCEPT ![b] = @ + 1]
    /\ UNCHANGED <<taken, dependents>>

\* Mutant of PendingParents: only the first parent is looked at.
PendingParents_FirstOnly(b) ==
    {i \in DOMAIN ParentsOf[b] : i = 1 /\ IsPending(ParentsOf[b][i])}

\* The positions of those of b's parents that are pending.
PendingParents(b) == {i \in DOMAIN ParentsOf[b] : IsPending(ParentsOf[b][i])}

\* try_begin, when it returns a task: no parent is pending.
Begin(b) ==
    /\ spawned[b] > 0
    /\ PendingParents(b) = {}
    /\ taken' = taken \cup {b}
    /\ spawned' = [spawned EXCEPT ![b] = @ - 1]
    /\ UNCHANGED <<queue, dependents>>

\* Mutant of Defer: the block becomes a dependent of every pending parent.
Defer_OnEveryParent(b) ==
    /\ spawned[b] > 0
    /\ PendingParents(b) # {}
    /\ dependents' = [g \in Blocks |->
          IF \E i \in PendingParents(b) : ParentsOf[b][i] = g
          THEN dependents[g] \cup {b} ELSE dependents[g]]
    /\ spawned' = [spawned EXCEPT ![b] = @ - 1]
    /\ UNCHANGED <<queue, taken>>

\* try_begin, when it returns None: the block becomes a dependent of the first
\* of its parents that is pending.
Defer(b) ==
    /\ spawned[b] > 0
    /\ \E i \in PendingParents(b) :
          /\ \A j \in PendingParents(b) : i <= j
          /\ dependents' = [dependents EXCEPT ![ParentsOf[b][i]] = @ \cup {b}]
    /\ spawned' = [spawned EXCEPT ![b] = @ - 1]
    /\ UNCHANGED <<queue, taken>>

\* The blocks that end hands back to the pool: the group's dependents once the
\* group is gone, the same block while it has tasks left.
NextTasks(b) == IF Len(queue[b]) = 1 THEN dependents[b] ELSE {b}

\* end: the front task leaves its group, and the group leaves the map with its
\* last task.  What the callback does with the task is up to the processor.
End(b) ==
    /\ b \in taken
    /\ queue' = [queue EXCEPT ![b] = Tail(@)]
    /\ taken' = taken \ {b}
    /\ dependents' = IF Len(queue[b]) = 1 THEN [dependents EXCEPT ![b] = {}] ELSE dependents
    /\ spawned' = [c \in Blocks |-> IF c \in NextTasks(b) THEN spawned[c] + 1 ELSE spawned[c]]

-----------------------------------------------------------------------------
DepsTypeOK ==
    /\ queue \in [Blocks -> Seq(Tasks)]
    /\ taken \in SUBSET Blocks
    /\ dependents \in [Blocks -> SUBSET Blocks]
    /\ spawned \in [Blocks -> Nat]

\* b is a dependent of at most one group.
WaitsOnce(b) == \A g, h \in Blocks : b \in dependents[g] /\ b \in dependents[h] => g = h

Waits(b) == \E g \in Blocks : b \in dependents[g]

\* Every group that is pending has exactly one handle: one spawned job, or the
\* thread that has taken its front task, or a place among the dependents of one
\* group, which is itself pending.  A block that is not pending has none.  With
\* two handles try_begin or end would panic on their expectations of a task
\* group and of a task that is "expected to not be taken"; with none the group,
\* and all that wait for it, would stay pending for ever.
OneHandle ==
    \A b \in Blocks :
        /\ WaitsOnce(b)
        /\ spawned[b] <= 1
        /\ spawned[b] = 1 => b \notin taken /\ ~Waits(b)
        /\ b \in taken => ~Waits(b)
        /\ IsPending(b) <=> (spawned[b] = 1 \/ b \in taken \/ Waits(b))
        /\ dependents[b] # {} => IsPending(b)
=============================================================================
