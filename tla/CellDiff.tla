------------------------------ MODULE CellDiff ------------------------------
(***************************************************************************)
(* Cell collections and the differences between them.                      *)
(*                                                                         *)
(* A cell collection is a function from the outpoints that are live to     *)
(* their metadata; of the metadata, the models keep the DAA score of the   *)
(* block that created the cell, the one field that two cells with the same *)
(* outpoint can disagree on.  A cell root is the collection it commits to. *)
(***************************************************************************)
EXTENDS Naturals, Functions

EmptyCells == [o \in {} |-> 0]

\* What overrides base: the entries of over, then those of base.
Override(base, over) ==
    [o \in DOMAIN base \cup DOMAIN over |-> IF o \in DOMAIN over THEN over[o] ELSE base[o]]

Without(cells, gone) == Restrict(cells, DOMAIN cells \ gone)

NoDiff == [add |-> EmptyCells, remove |-> EmptyCells]

IsEmpty(d) == DOMAIN d.add = {} /\ DOMAIN d.remove = {}

Reversed(d) == [add |-> d.remove, remove |-> d.add]

\* Removals first, then additions.
ApplyTo(d, base) == Override(Without(base, DOMAIN d.remove), d.add)

\* Mutant of Compose: what is added and removed stays in both parts.
Compose_NoCancel(d, other) ==
    [add |-> Override(d.add, other.add), remove |-> Override(d.remove, other.remove)]

(***************************************************************************)
(* with_diff_in_place: a removal of a cell that d added, and an addition   *)
(* of a cell that d removed, cancel.  They cancel by outpoint: whether the *)
(* metadata of the two agree is not looked at.                             *)
(***************************************************************************)
Compose(d, other) ==
    LET added == DOMAIN d.add \ DOMAIN other.remove
        removed == DOMAIN d.remove \cup (DOMAIN other.remove \ DOMAIN d.add)
        metaOfRemoved == Override(other.remove, d.remove)
    IN  [add    |-> Override(Restrict(d.add, added), Without(other.add, removed)),
         remove |-> Restrict(metaOfRemoved, removed \ DOMAIN other.add)]

\* The composition returns no error: nothing is removed twice or added twice.
Composable(d, other) ==
    LET added == DOMAIN d.add \ DOMAIN other.remove
        removed == DOMAIN d.remove \cup (DOMAIN other.remove \ DOMAIN d.add)
    IN  /\ (DOMAIN other.remove \ DOMAIN d.add) \cap DOMAIN d.remove = {}
        /\ (DOMAIN other.add \ removed) \cap added = {}
=============================================================================
