----------------------------- MODULE MCMempool -----------------------------
(***************************************************************************)
(* Small mempools.  Out points below 10 are coins of the virtual state;    *)
(* transaction n creates out points 10 * n, 10 * n + 1...                  *)
(***************************************************************************)
EXTENDS Mempool, TLC

Tx(spends, creates, rate, high, policy) ==
    [spends |-> spends, creates |-> creates, rate |-> rate, size |-> 1, high |-> high, policy |-> policy]

World(txs, coins, maxTxs, maxOrphans, submits, mines, scans, templates) ==
    [txs |-> txs, coins |-> coins, maxTxs |-> maxTxs, maxSize |-> maxTxs, maxOrphans |-> maxOrphans,
     submits |-> submits, mines |-> mines, scans |-> scans, templates |-> templates, attempts |-> 2]

\* A chain of two, a competitor of the first and one of the second; the pool holds two.
Replace == World(<<Tx({1}, {10}, 1, FALSE, "allowed"), Tx({10}, {20}, 3, FALSE, "allowed"),
                   Tx({1}, {30}, 2, FALSE, "mandatory"), Tx({2}, {40}, 4, FALSE, "forbidden")>>,
                 {1, 2}, 2, 1, 2, {1}, 0, 0)

\* A parent, an orphan that spends both its outputs, its child and a competitor, submitted twice.
Orphans == World(<<Tx({1}, {10, 11}, 1, FALSE, "allowed"), Tx({10, 11}, {20}, 2, FALSE, "allowed"),
                   Tx({20}, {30}, 3, TRUE, "forbidden"), Tx({10}, {40}, 4, FALSE, "allowed")>>,
                 {1, 2}, 3, 2, 2, {1}, 0, 0)

\* A chain of low, high and high priority, with expiry and revalidation.
Scans == World(<<Tx({1}, {10}, 1, FALSE, "allowed"), Tx({10}, {20}, 2, TRUE, "forbidden"),
                 Tx({20, 2}, {30}, 3, TRUE, "forbidden"), Tx({2}, {40}, 4, FALSE, "forbidden")>>,
               {1, 2}, 3, 1, 1, {1, 4}, 1, 0)

\* Competitors that are mined while templates are built.
Templates == World(<<Tx({1}, {10}, 1, FALSE, "allowed"), Tx({10}, {20}, 2, TRUE, "forbidden"),
                     Tx({1}, {30}, 3, FALSE, "allowed")>>,
                   {1, 2}, 3, 1, 1, {1, 3}, 0, 2)

\* A large transaction that makes room for itself by fee rate, chains included.
Sizes == [World(<<Tx({1}, {10}, 1, FALSE, "allowed"), Tx({10}, {20}, 4, FALSE, "allowed"),
                  Tx({2}, {30}, 2, FALSE, "allowed"),
                  [Tx({3}, {40}, 3, FALSE, "allowed") EXCEPT !.size = 2],
                  [Tx({3}, {50}, 5, FALSE, "allowed") EXCEPT !.size = 3]>>,
                {1, 2, 3}, 3, 1, 1, {3}, 0, 0) EXCEPT !.maxSize = 3]

\* An orphan that spends the output of another transaction and a coin.
Confirmed == World(<<Tx({1}, {10}, 1, FALSE, "allowed"), Tx({2, 10}, {20}, 2, TRUE, "forbidden")>>,
                   {1, 2}, 3, 1, 1, {1}, 0, 0)

MCWorlds == {Replace, Orphans, Scans, Templates, Sizes}
MCConfirmed == {Confirmed}

MCSymmetry == Permutations(Threads)
=============================================================================
