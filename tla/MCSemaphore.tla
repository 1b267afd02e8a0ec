----------------------------- MODULE MCSemaphore -----------------------------
EXTENDS Semaphore, TLC

CONSTANTS r1, r2, r3, v1, v2

MCReaders == {r1, r2, r3}
MCClients == MCReaders \cup {v1, v2}

\* Readers ask for the same, and so do writers.
MCSymmetry == Permutations(MCReaders) \cup Permutations({v1, v2})
==============================================================================
