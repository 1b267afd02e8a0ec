--------------------------- MODULE MCReachability ---------------------------
(***************************************************************************)
(* Small trees and DAGs in which intervals run out.  The code has 2^64     *)
(* numbers, a slack of 2^14 and a depth of 100; here capacity, slack and   *)
(* depth are so small that most insertions reindex and the root moves at   *)
(* almost every new tip.                                                   *)
(***************************************************************************)
EXTENDS Reachability

MCBlocks == [i \in 1..7 |-> i]

Tree(capacity, depth, slack, size) ==
    [capacity |-> capacity, depth |-> depth, slack |-> slack, size |-> size, maxParents |-> 1, deletes |-> 0]

Dag(capacity, size, maxParents, deletes) ==
    [capacity |-> capacity, depth |-> 1, slack |-> 1, size |-> size, maxParents |-> maxParents, deletes |-> deletes]

MCWorlds == {Tree(60, 1, 1, 7), Tree(40, 1, 2, 6), Tree(30, 2, 1, 6), Dag(24, 5, 2, 1), Dag(40, 4, 3, 2)}
=============================================================================
