--------------------------- MODULE MCOrphanBlocks ---------------------------
EXTENDS OrphanBlocks, TLC

World(parents, invalid, max, arrivals, synced) ==
    [parents |-> (0 :> {}) @@ parents, invalid |-> invalid, max |-> max, arrivals |-> arrivals, ibd |-> synced]

\* Two chains and a block that merges them, with a block on top.
Diamond == World(<<{0}, {1}, {1}, {2, 3}, {4}>>, {}, 4, 1, {})

\* A pool of two for a chain and a side block, relayed twice.
Full == World(<<{0}, {1}, {2}, {1}>>, {}, 2, 2, {})

\* The same diamond on a block that breaks a rule.
Broken == World(<<{0}, {0}, {1, 2}, {3}>>, {2}, 3, 1, {})

\* IBD brings two blocks while their descendants are relayed.
Synced == World(<<{0}, {0}, {1}, {2}, {3, 4}>>, {}, 4, 1, {1, 2})

MCWorlds == {Diamond, Full, Broken, Synced}

\* Two descendants of the block that IBD brings.
MCChain == {World(<<{0}, {1}, {2}>>, {}, 3, 1, {1})}
=============================================================================
