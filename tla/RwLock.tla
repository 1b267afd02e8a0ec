------------------------------- MODULE RwLock -------------------------------
(***************************************************************************)
(* What RfRwLock promises: any number of readers or one writer, and a      *)
(* reader gets in whenever no writer is, also when writers wait.           *)
(***************************************************************************)
CONSTANTS Clients, Readers

VARIABLE holders

Init == holders = {}

\* read, blocking_read, write, blocking_write: the guard is handed out.
Take(c) ==
    /\ c \notin holders
    /\ IF c \in Readers THEN holders \subseteq Readers ELSE holders = {}
    /\ holders' = holders \cup {c}

\* The guard is dropped, or a writer yields.
Leave(c) == c \in holders /\ holders' = holders \ {c}

Next == \E c \in Clients : Take(c) \/ Leave(c)

Spec == Init /\ [][Next]_holders
=============================================================================
