--------------------------- MODULE ProcessorStage ---------------------------
(***************************************************************************)
(* One stage of the block pipeline: the loop of HeaderProcessor::worker    *)
(* and BlockBodyProcessor::worker, which are the same program, around the  *)
(* dependency manager, with the jobs of the thread pool.                   *)
(*                                                                         *)
(* The channel in front of the stage is `inbox`, which is FIFO.  What a    *)
(* stage does to a block between try_begin and end, and what its callback  *)
(* sends on, is left to BlockPipeline.                                     *)
(***************************************************************************)
EXTENDS DepsManager, FiniteSets

CONSTANT Threads       \* size of the processors' thread pool
CONSTANT Exit          \* BlockProcessingMessage::Exit

ASSUME StageAssumption ==
    /\ Threads \in Nat \ {0}
    /\ Exit \notin Tasks

VARIABLES inbox,       \* the channel the worker receives from
          worker,      \* where the worker thread is
          arrived,     \* history: the tasks in the order they were registered
          ended        \* history: the tasks in the order of their callbacks

stageVars == <<queue, taken, dependents, spawned, inbox, worker, arrived, ended>>

WorkerStates == {"receiving", "idle_check", "idle_wait", "idle", "stopped"}

Elements(s) == {s[i] : i \in DOMAIN s}

Init ==
    /\ DepsInit
    /\ inbox = <<>> /\ arrived = <<>> /\ ended = <<>>
    /\ worker = "receiving"

-----------------------------------------------------------------------------
\* A caller of validate_and_insert_block puts a task on the channel, and
\* signal_exit puts Exit there.  Nothing stops a caller after Exit.
Send(m) ==
    /\ m \notin Elements(inbox) \cup Elements(arrived)
    /\ m = Exit => worker = "receiving"
    /\ inbox' = Append(inbox, m)
    /\ UNCHANGED <<depsVars, worker, arrived, ended>>

\* The worker receives a task, registers it and spawns its first job.
Receive ==
    /\ worker = "receiving"
    /\ inbox # <<>> /\ Head(inbox) # Exit
    /\ Register(Head(inbox))
    /\ inbox' = Tail(inbox)
    /\ arrived' = Append(arrived, Head(inbox))
    /\ UNCHANGED <<worker, ended>>

\* The worker receives Exit and leaves its loop.
ReceiveExit ==
    /\ worker = "receiving"
    /\ inbox # <<>> /\ Head(inbox) = Exit
    /\ inbox' = Tail(inbox)
    /\ worker' = "idle_check"
    /\ UNCHANGED <<depsVars, arrived, ended>>

\* wait_for_idle looks at the map once, under its lock, and waits for the
\* condition variable if there is something left to do.
CheckIdle ==
    /\ worker = "idle_check"
    /\ worker' = IF IsIdle THEN "idle" ELSE "idle_wait"
    /\ UNCHANGED <<depsVars, inbox, arrived, ended>>

\* The worker is through wait_for_idle and passes Exit on to the next stage.
PassExit ==
    /\ worker = "idle"
    /\ worker' = "stopped"
    /\ UNCHANGED <<depsVars, inbox, arrived, ended>>

\* A pool thread runs queue_block(b) up to the end of try_begin.
TryBegin(b) ==
    /\ Cardinality(taken) < Threads
    /\ Begin(b) \/ Defer(b)
    /\ UNCHANGED <<inbox, worker, arrived, ended>>

\* Mutants of Finish: the waiting worker is woken by any group that goes; it is
\* not woken at all; it keeps the manager's lock while it waits, so that no job can
\* end; the callback is given the task id instead of the task.
Finish_AnyGroupWakes(b) ==
    /\ End(b)
    /\ ended' = Append(ended, Head(queue[b]))
    /\ worker' = IF Len(queue[b]) = 1 /\ worker = "idle_wait" THEN "idle" ELSE worker
    /\ UNCHANGED <<inbox, arrived>>

Finish_NoSignal(b) ==
    /\ End(b)
    /\ ended' = Append(ended, Head(queue[b]))
    /\ UNCHANGED <<worker, inbox, arrived>>

Finish_LockHeldByWaiter(b) ==
    /\ worker # "idle_wait"
    /\ End(b)
    /\ ended' = Append(ended, Head(queue[b]))
    /\ UNCHANGED <<worker, inbox, arrived>>

\* The thread is done with b's front task.  Under the manager's lock, the
\* callback forwards the task or answers its caller, and a worker that waits
\* for idleness is woken when the map has become empty.
Finish(b) ==
    /\ End(b)
    /\ ended' = Append(ended, Head(queue[b]))
    /\ worker' = IF IsIdle' /\ worker = "idle_wait" THEN "idle" ELSE worker
    /\ UNCHANGED <<inbox, arrived>>

Next ==
    \/ \E m \in Tasks \cup {Exit} : Send(m)
    \/ Receive \/ ReceiveExit \/ CheckIdle \/ PassExit
    \/ \E b \in Blocks : TryBegin(b) \/ Finish(b)

\* The worker loop has a thread of its own.  The pool runs every job it is
\* given, since no job blocks on another one; a job may find the pool busy over
\* and over again before it runs.
Fairness ==
    /\ WF_stageVars(Receive) /\ WF_stageVars(ReceiveExit)
    /\ WF_stageVars(CheckIdle) /\ WF_stageVars(PassExit)
    /\ \A b \in Blocks : SF_stageVars(TryBegin(b)) /\ WF_stageVars(Finish(b))

Spec == Init /\ [][Next]_stageVars

FairSpec == Spec /\ Fairness

-----------------------------------------------------------------------------
\* The dependency manager's maps hold tasks by block, and the callbacks are given tasks.
TypeOK ==
    /\ DepsTypeOK
    /\ inbox \in Seq(Tasks \cup {Exit})
    /\ worker \in WorkerStates
    /\ arrived \in Seq(Tasks)
    /\ ended \in Seq(Tasks)

\* Exit reaches the next stage after everything the worker had registered: once
\* wait_for_idle has returned no group is pending, although it looks at the map
\* only once and does not look again after its wake-up.
ExitIsLast ==
    worker \in {"idle", "stopped"} =>
        IsIdle /\ \A t \in Elements(arrived) : t \in Elements(ended)

\* What the stage promises to the next one: see OrderedStage.
Promise == INSTANCE OrderedStage WITH
    started <- {Head(queue[b]) : b \in taken} \cup Elements(ended),
    ended <- Elements(ended)

ImplementsOrderedStage == Promise!Spec

\* u is before v in s.
InOrder(s, u, v) == \E i, j \in DOMAIN s : i < j /\ s[i] = u /\ s[j] = v

\* Where a task is: on the channel, in the queue of its block, or ended; and a
\* queue has its tasks in the order of their arrival.
Placement ==
    /\ \A i, j \in DOMAIN inbox : inbox[i] = inbox[j] => i = j
    /\ \A i \in DOMAIN inbox : inbox[i] \notin Elements(arrived)
    /\ \A i, j \in DOMAIN arrived : arrived[i] = arrived[j] => i = j
    /\ \A t \in Elements(arrived) :
          t \in Elements(ended) \/ t \in Elements(queue[BlockOf[t]])
    /\ Elements(ended) \subseteq Elements(arrived)
    /\ \A b \in Blocks : \A k \in DOMAIN queue[b] :
          /\ BlockOf[queue[b][k]] = b
          /\ queue[b][k] \in Elements(arrived) \ Elements(ended)
          /\ \A l \in DOMAIN queue[b] : k < l => InOrder(arrived, queue[b][k], queue[b][l])

\* Once the worker is through wait_for_idle, nothing is pending.
IdleIsIdle == worker \in {"idle", "stopped"} => IsIdle

\* The inductive invariant behind the theorems of ProcessorStageProofs.
StageInv == TypeOK /\ OneHandle /\ Placement /\ IdleIsIdle

\* No task is lost: whatever the worker has registered reaches its callback.  A
\* group that waits for a parent is handed on when the parent's group goes.
EveryTaskEnds ==
    \A t \in Tasks : (t \in Elements(arrived)) ~> (t \in Elements(ended))

\* Shutting down ends: Exit travels through the stage however many tasks are
\* pending when it comes.
ExitPasses == (Exit \in Elements(inbox)) ~> (worker = "stopped")
=============================================================================
