--------------------------- MODULE MCVirtualState ---------------------------
(***************************************************************************)
(* Two chains over the genesis, A <- B <- D and C <- E <- F, whose blocks  *)
(* interleave by blue work; F also merges B.  Transactions: s spends a     *)
(* genesis cell, c spends what s creates, d spends the cell s spends.      *)
(***************************************************************************)
EXTENDS VirtualState

CONSTANTS G, A, B, C, D, E, F, gen, s, c, d

x == <<gen, 1>>
y == <<gen, 2>>

MCBlocks == {G, A, B, C, D, E, F}
Plain == {s, c, d}
Txs == Plain \cup MCBlocks

On(f, default) == [t \in Txs |-> IF t \in DOMAIN f THEN f[t] ELSE default]

MCGenesisTree == [o \in {x, y} |-> 0]
MCInputs == On((s :> {x}) @@ (c :> {<<s, 1>>}) @@ (d :> {x}), {})
MCNumOutputs == On((G :> 0), 1)
None == [t \in Txs |-> {}]
MCGroupMembers == [o \in {} |-> {}]
MCCycles == [t \in Txs |-> 0]

MCParents == (G :> {}) @@ (A :> {G}) @@ (B :> {A}) @@ (C :> {G}) @@ (D :> {B}) @@ (E :> {C}) @@ (F :> {E, B})
MCWork == (G :> 0) @@ (A :> 2) @@ (B :> 3) @@ (C :> 1) @@ (D :> 5) @@ (E :> 4) @@ (F :> 6)
MCDaa == (G :> 0) @@ (A :> 1) @@ (B :> 2) @@ (C :> 1) @@ (D :> 3) @@ (E :> 2) @@ (F :> 5)

Filled(bodyOf) == [b \in MCBlocks |-> [name |-> b, daa |-> MCDaa[b], txs |-> <<b>> \o bodyOf[b]]]
Bodies(f) == [b \in MCBlocks |-> IF b \in DOMAIN f THEN f[b] ELSE <<>>]

\* Every transaction is in one block.
OnceEach == Filled(Bodies((A :> <<s>>) @@ (B :> <<c>>)))

\* Two blocks of the two chains spend the same cell.
Conflicting == Filled(Bodies((A :> <<s>>) @@ (C :> <<d>>)))

\* The same transaction is in a block of each chain, at different DAA scores.
InBothChains == Filled(Bodies((A :> <<s>>) @@ (E :> <<s>>)))

World(content, bad) == [content |-> content, badRoots |-> bad]

\* Any two blocks may have a wrong root.
AllWorlds ==
    {World(content, bad) : content \in {OnceEach, Conflicting},
                           bad \in {S \in SUBSET (MCBlocks \ {G}) : Cardinality(S) <= 2}}
ConflictingWorlds == {World(Conflicting, {})}
InBothChainsWorlds == {World(InBothChains, {})}
=============================================================================
