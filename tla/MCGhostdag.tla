----------------------------- MODULE MCGhostdag -----------------------------
(***************************************************************************)
(* All DAGs of a genesis and Size blocks that arrive as 1, 2, ..., with    *)
(* the hashes in that order or in the reverse one, and block 3 with twice  *)
(* the work of the others.                                                 *)
(***************************************************************************)
EXTENDS Ghostdag

CONSTANTS Size, KValues

MCOrder == [i \in 1..Size |-> i]
MCWorks == [b \in 0..Size |-> IF b = 3 THEN 2 ELSE 1]
MCWorlds ==
    {[k |-> k, hash |-> order, works |-> MCWorks] :
        k \in KValues, order \in {[b \in 0..Size |-> b], [b \in 0..Size |-> Size - b]}}
=============================================================================
