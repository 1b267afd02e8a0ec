------------------------ MODULE MCLayeredExecution ------------------------
(***************************************************************************)
(* Three live cells x, y, z and five transactions: s spends x, d spends x  *)
(* as well, c spends what s creates, r reads x and spends y, q reads what  *)
(* s creates.  A mergeset has three blue blocks and at most one red one,   *)
(* each with its coinbase and at most two of the transactions.             *)
(***************************************************************************)
EXTENDS LayeredExecution

CONSTANTS gen, s, d, c, r, q, k1, k2, k3, k4

x == <<gen, 1>>
y == <<gen, 2>>
z == <<gen, 3>>

Plain == {s, d, c, r, q}
Keys == {k1, k2, k3, k4}
Txs == Plain \cup Keys

On(f, default) == [t \in Txs |-> IF t \in DOMAIN f THEN f[t] ELSE default]

MCBaseTree == [o \in {x, y, z} |-> 0]
MCInputs == On((s :> {x}) @@ (d :> {x}) @@ (c :> {<<s, 1>>}) @@ (r :> {y}), {})
MCNumOutputs == [t \in Txs |-> 1]
MCCellDeps == On((r :> {x}) @@ (q :> {<<s, 1>>}), {})
MCDepGroups == [t \in Txs |-> {}]
MCGroupMembers == [o \in {} |-> {}]
MCSharedReads == On((q :> {1}), {})
MCSharedWrites == On((r :> {1}), {})
MCSound == Txs
MCCycles == On((r :> 2) @@ (q :> 2) @@ (d :> 2), 1)

\* Bodies that pass the checks in isolation: no double spend, no chained transaction.
InIsolation(txs) ==
    \A i, j \in DOMAIN txs : i # j =>
        /\ txs[i] # txs[j]
        /\ ~Meet(MCInputs[txs[i]], MCInputs[txs[j]])
        /\ ~Meet(MCInputs[txs[i]], {<<txs[j], 1>>})

Bodies == {txs \in UNION {[1..n -> Plain] : n \in 0..2} : InIsolation(txs)}

Block(key, daa, txs) == [name |-> key, daa |-> daa, txs |-> <<key>> \o txs]

MCMergesets ==
    {[blues |-> <<Block(k1, 1, b1), Block(k2, 2, b2), Block(k3, 3, b3)>>, reds |-> red] :
        b1 \in Bodies, b2 \in Bodies, b3 \in {b \in Bodies : Len(b) < 2},
        red \in {<<>>} \cup {<<Block(k4, 4, <<t>>)>> : t \in {s, d}}}

NoReds == {m \in MCMergesets : m.reds = <<>>}

\* r reads z as a group that lists x.
GroupCellDeps == [MCCellDeps EXCEPT ![r] = {z}]
GroupDepGroups == [MCDepGroups EXCEPT ![r] = {z}]
GroupOfX == z :> {x}
=============================================================================
