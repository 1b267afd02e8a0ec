------------------------------ MODULE MCPruning ------------------------------
EXTENDS Pruning

CONSTANTS w1, w2, virtual, pruner

MCWorkers == {w1, w2}

\* A world from the parents of each block, the selected parent first.
World(parents, selected, initial, depth, finality, window, archival, retention, stops) ==
    LET past[b \in DOMAIN parents] == {b} \cup UNION {past[p] : p \in parents[b]}
        chain[b \in DOMAIN parents] == {b} \cup IF b = 0 THEN {} ELSE chain[selected[b]]
    IN  [parents |-> parents, selected |-> selected, past |-> past, chain |-> chain,
         initial |-> initial, depth |-> depth, finality |-> finality, window |-> window,
         archival |-> archival, retention |-> retention, crashes |-> stops]

Chained(ps) ==     \* parents given as sequences: block i has ps[i]
    LET parents == [b \in 0..Len(ps) |-> IF b = 0 THEN {} ELSE ToSet(ps[b])]
        selected == [b \in 0..Len(ps) |-> IF b = 0 THEN Origin ELSE ps[b][1]]
    IN  [parents |-> parents, selected |-> selected]
DagWorld(ps, initial, depth, finality, window, archival, retention, stops) ==
    LET d == Chained(ps)
    IN  World(d.parents, d.selected, initial, depth, finality, window, archival, retention, stops)

\* 2 is merged by 3; 5 comes late, beside the chain, and is never merged.
Side == DagWorld(<<<<0>>, <<0>>, <<1, 2>>, <<3>>, <<1>>, <<4>> >>, 0..3, 2, 1, 1, FALSE, FALSE, 1)
\* 4 and 5 replace 3 in the selected chain, and 6 merges it.
Reorg == DagWorld(<<<<0>>, <<1>>, <<2>>, <<2>>, <<4>>, <<5, 3>> >>, 0..3, 2, 1, 0, FALSE, FALSE, 0)
\* A chain: more is kept than the pruning point needs, and every second block is a sample.
Retain == DagWorld(<<<<0>>, <<1>>, <<2>>, <<3>>, <<4>>, <<5>>, <<6>> >>, 0..5, 3, 2, 1, FALSE, TRUE, 1)
Archive == DagWorld(<<<<0>>, <<1>>, <<2>> >>, 0..2, 2, 1, 1, TRUE, FALSE, 1)

MCWorlds == {Side, Reorg, Retain, Archive}
==============================================================================
