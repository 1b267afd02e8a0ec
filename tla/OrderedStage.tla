---------------------------- MODULE OrderedStage ----------------------------
(***************************************************************************)
(* What a stage of the block pipeline promises, without groups, handles or *)
(* a thread pool: tasks are worked on in an order that respects the order  *)
(* in which they arrived, for tasks of the same block and for tasks of a   *)
(* block and of its direct parents.  ProcessorStage implements this        *)
(* specification, and BlockPipeline composes two of them.                  *)
(***************************************************************************)
EXTENDS Naturals, Sequences

CONSTANTS Blocks, Tasks, BlockOf, ParentsOf

VARIABLES arrived, started, ended

Seen(s) == {s[i] : i \in DOMAIN s}

\* u came to the stage before t.
Before(u, t) ==
    \E i, j \in DOMAIN arrived : i < j /\ arrived[i] = u /\ arrived[j] = t

\* Mutant of Precedes: a task does not wait for its parents.
Precedes_SameBlock(u, t) == Before(u, t) /\ BlockOf[u] = BlockOf[t]

\* The tasks that t has to wait for.
Precedes(u, t) ==
    /\ Before(u, t)
    /\ \/ BlockOf[u] = BlockOf[t]
       \/ \E i \in DOMAIN ParentsOf[BlockOf[t]] : ParentsOf[BlockOf[t]][i] = BlockOf[u]

Init == arrived = <<>> /\ started = {} /\ ended = {}

Arrive(t) ==
    /\ t \notin Seen(arrived)
    /\ arrived' = Append(arrived, t)
    /\ UNCHANGED <<started, ended>>

Start(t) ==
    /\ t \in Seen(arrived) \ started
    /\ \A u \in Tasks : Precedes(u, t) => u \in ended
    /\ started' = started \cup {t}
    /\ UNCHANGED <<arrived, ended>>

Complete(t) ==
    /\ t \in started \ ended
    /\ ended' = ended \cup {t}
    /\ UNCHANGED <<arrived, started>>

Next == \E t \in Tasks : Arrive(t) \/ Start(t) \/ Complete(t)

Spec == Init /\ [][Next]_<<arrived, started, ended>>
=============================================================================
