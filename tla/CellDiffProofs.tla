--------------------------- MODULE CellDiffProofs ---------------------------
(***************************************************************************)
(* Proofs about differences of cell collections: what composing two of     *)
(* them and reversing one do, for any cells.                               *)
(***************************************************************************)
EXTENDS CellDiff, TLAPS

\* d can be applied to base: it removes what is there, and adds what is not.
Fits(d, base) ==
    /\ DOMAIN d.remove \subseteq DOMAIN base
    /\ DOMAIN d.add \cap DOMAIN base = {}

\* The metadata that d holds of what it removes is that of base.
KnowsRemoved(d, base) == \A o \in DOMAIN d.remove : d.remove[o] = base[o]

\* A collection is determined by its cells.
IsCollection(f) == f = [o \in DOMAIN f |-> f[o]]

\* Two collections that differences led to are the same if they have the same cells.
LEMMA SameCells ==
    ASSUME NEW d, NEW base, NEW f, IsCollection(f),
           DOMAIN ApplyTo(d, base) = DOMAIN f,
           \A o \in DOMAIN f : ApplyTo(d, base)[o] = f[o]
    PROVE  ApplyTo(d, base) = f
BY DEF ApplyTo, Override, IsCollection

\* Applying a difference gives a collection.
LEMMA ApplyGivesCells ==
    ASSUME NEW d, NEW base
    PROVE  IsCollection(ApplyTo(d, base))
BY DEF ApplyTo, Override, IsCollection

\* What is left of the additions of d, and what d and e remove together.
StillAdded(d, e) == DOMAIN d.add \ DOMAIN e.remove
AllRemoved(d, e) == DOMAIN d.remove \cup (DOMAIN e.remove \ DOMAIN d.add)

\* The cells and the metadata of a composition, read off with_diff_in_place.
LEMMA ComposeFacts ==
    ASSUME NEW d, NEW e, NEW added, NEW removed, added = StillAdded(d, e), removed = AllRemoved(d, e)
    PROVE  /\ DOMAIN Compose(d, e).add = added \cup (DOMAIN e.add \ removed)
           /\ \A o \in DOMAIN e.add \ removed : Compose(d, e).add[o] = e.add[o]
           /\ \A o \in added \ (DOMAIN e.add \ removed) : Compose(d, e).add[o] = d.add[o]
           /\ DOMAIN Compose(d, e).remove = removed \ DOMAIN e.add
           /\ \A o \in DOMAIN d.remove \ DOMAIN e.add : Compose(d, e).remove[o] = d.remove[o]
           /\ \A o \in removed \ (DOMAIN e.add \cup DOMAIN d.remove) :
                 Compose(d, e).remove[o] = e.remove[o]
<1>1. /\ Compose(d, e).add = Override(Restrict(d.add, added), Without(e.add, removed))
      /\ Compose(d, e).remove = Restrict(Override(e.remove, d.remove), removed \ DOMAIN e.add)
  BY DEF Compose, StillAdded, AllRemoved
<1>2. /\ DOMAIN Compose(d, e).add = added \cup (DOMAIN e.add \ removed)
      /\ \A o \in DOMAIN e.add \ removed : Compose(d, e).add[o] = e.add[o]
      /\ \A o \in added \ (DOMAIN e.add \ removed) : Compose(d, e).add[o] = d.add[o]
  BY <1>1 DEF Override, Restrict, Without
<1>3. /\ DOMAIN Compose(d, e).remove = removed \ DOMAIN e.add
      /\ \A o \in DOMAIN d.remove \ DOMAIN e.add : Compose(d, e).remove[o] = d.remove[o]
      /\ \A o \in removed \ (DOMAIN e.add \cup DOMAIN d.remove) :
            Compose(d, e).remove[o] = e.remove[o]
  BY <1>1 DEF Override, Restrict, AllRemoved
<1> QED
  BY <1>2, <1>3

\* Composing two differences that can be applied one after the other returns no error; the
\* result can be applied where the first one could, and knows what it removes if both do.
THEOREM CompositionSucceeds ==
    ASSUME NEW base, NEW d, NEW e, Fits(d, base), Fits(e, ApplyTo(d, base))
    PROVE  /\ Composable(d, e)
           /\ Fits(Compose(d, e), base)
           /\ KnowsRemoved(d, base) /\ KnowsRemoved(e, ApplyTo(d, base)) => KnowsRemoved(Compose(d, e), base)
<1> DEFINE mid == ApplyTo(d, base)
           c == Compose(d, e)
<1>1. /\ DOMAIN mid = (DOMAIN base \ DOMAIN d.remove) \cup DOMAIN d.add
      /\ \A o \in DOMAIN d.add : mid[o] = d.add[o]
      /\ \A o \in (DOMAIN base \ DOMAIN d.remove) \ DOMAIN d.add : mid[o] = base[o]
  BY DEF ApplyTo, Override, Without, Restrict
<1>2. /\ DOMAIN c.add = StillAdded(d, e) \cup (DOMAIN e.add \ AllRemoved(d, e))
      /\ DOMAIN c.remove = AllRemoved(d, e) \ DOMAIN e.add
      /\ \A o \in DOMAIN d.remove \ DOMAIN e.add : c.remove[o] = d.remove[o]
      /\ \A o \in AllRemoved(d, e) \ (DOMAIN e.add \cup DOMAIN d.remove) : c.remove[o] = e.remove[o]
  BY ComposeFacts
<1>3. Composable(d, e)
  BY <1>1 DEF Composable, Fits
<1> HIDE DEF mid, c
<1>4. Fits(e, mid)
  BY DEF mid
<1>5. Fits(c, base)
  BY <1>1, <1>2, <1>4 DEF Fits, StillAdded, AllRemoved
<1>6. ASSUME KnowsRemoved(d, base), KnowsRemoved(e, mid), NEW o \in DOMAIN c.remove
      PROVE  c.remove[o] = base[o]
  <2>1. CASE o \in DOMAIN d.remove
    BY <1>2, <1>6, <2>1 DEF KnowsRemoved
  <2>2. CASE o \notin DOMAIN d.remove
    BY <1>1, <1>2, <1>4, <1>6, <2>2 DEF KnowsRemoved, AllRemoved, Fits
  <2> QED
    BY <2>1, <2>2
<1>7. KnowsRemoved(d, base) /\ KnowsRemoved(e, mid) => KnowsRemoved(c, base)
  BY <1>6 DEF KnowsRemoved
<1> QED
  BY <1>3, <1>5, <1>7 DEF mid, c

\* Applying the composition is applying one after the other, where a cell that the first removes
\* and the second adds comes back with its metadata: with_diff_in_place cancels by out point.
THEOREM CompositionIsSequence ==
    ASSUME NEW base, NEW d, NEW e, Fits(d, base), Fits(e, ApplyTo(d, base)),
           \A o \in DOMAIN d.remove \cap DOMAIN e.add : e.add[o] = base[o]
    PROVE  ApplyTo(Compose(d, e), base) = ApplyTo(e, ApplyTo(d, base))
<1> DEFINE added == StillAdded(d, e)
           removed == AllRemoved(d, e)
           mid == ApplyTo(d, base)
           c == Compose(d, e)
<1>1. /\ DOMAIN c.add = added \cup (DOMAIN e.add \ removed)
      /\ \A o \in DOMAIN e.add \ removed : c.add[o] = e.add[o]
      /\ \A o \in added \ (DOMAIN e.add \ removed) : c.add[o] = d.add[o]
      /\ DOMAIN c.remove = removed \ DOMAIN e.add
  BY ComposeFacts
<1>2. /\ DOMAIN mid = (DOMAIN base \ DOMAIN d.remove) \cup DOMAIN d.add
      /\ \A o \in DOMAIN d.add : mid[o] = d.add[o]
      /\ \A o \in (DOMAIN base \ DOMAIN d.remove) \ DOMAIN d.add : mid[o] = base[o]
  BY DEF ApplyTo, Override, Without, Restrict
<1>3. /\ DOMAIN d.remove \subseteq DOMAIN base /\ DOMAIN d.add \cap DOMAIN base = {}
      /\ DOMAIN e.remove \subseteq DOMAIN mid /\ DOMAIN e.add \cap DOMAIN mid = {}
  BY DEF Fits
<1> HIDE DEF mid, c
<1>4. /\ DOMAIN ApplyTo(e, mid) = (DOMAIN mid \ DOMAIN e.remove) \cup DOMAIN e.add
      /\ \A o \in DOMAIN e.add : ApplyTo(e, mid)[o] = e.add[o]
      /\ \A o \in (DOMAIN mid \ DOMAIN e.remove) \ DOMAIN e.add : ApplyTo(e, mid)[o] = mid[o]
  BY DEF ApplyTo, Override, Without, Restrict
<1>5. /\ DOMAIN ApplyTo(c, base) = (DOMAIN base \ DOMAIN c.remove) \cup DOMAIN c.add
      /\ \A o \in DOMAIN c.add : ApplyTo(c, base)[o] = c.add[o]
      /\ \A o \in (DOMAIN base \ DOMAIN c.remove) \ DOMAIN c.add : ApplyTo(c, base)[o] = base[o]
  BY DEF ApplyTo, Override, Without, Restrict
<1>6. DOMAIN ApplyTo(c, base) = DOMAIN ApplyTo(e, mid)
  BY <1>1, <1>2, <1>3, <1>4, <1>5 DEF StillAdded, AllRemoved
<1>7. ASSUME NEW o \in DOMAIN ApplyTo(e, mid) PROVE ApplyTo(c, base)[o] = ApplyTo(e, mid)[o]
  <2>1. CASE o \in DOMAIN e.add \ removed
    BY <1>1, <1>4, <1>5, <2>1
  <2>2. CASE o \in DOMAIN e.add \cap removed
    <3>1. o \in DOMAIN d.remove /\ o \in DOMAIN base /\ o \notin DOMAIN d.add
      BY <1>2, <1>3, <2>2 DEF AllRemoved
    <3>2. o \notin DOMAIN c.remove /\ o \notin DOMAIN c.add
      BY <1>1, <2>2, <3>1 DEF StillAdded
    <3> QED
      BY <1>4, <1>5, <2>2, <3>1, <3>2
  <2>3. CASE o \notin DOMAIN e.add
    BY <1>1, <1>2, <1>3, <1>4, <1>5, <2>3 DEF StillAdded, AllRemoved
  <2> QED
    BY <2>1, <2>2, <2>3
<1>8. ApplyTo(c, base) = ApplyTo(e, mid)
  BY <1>6, <1>7, SameCells, ApplyGivesCells
<1> QED
  BY <1>8 DEF mid, c

\* A difference that knows what it removes is undone by its reverse.
THEOREM ReverseUndoes ==
    ASSUME NEW base, NEW d, Fits(d, base), KnowsRemoved(d, base), IsCollection(base)
    PROVE  ApplyTo(Reversed(d), ApplyTo(d, base)) = base
<1> DEFINE mid == ApplyTo(d, base)
           r == Reversed(d)
<1>1. r.add = d.remove /\ r.remove = d.add
  BY DEF Reversed
<1>2. /\ DOMAIN mid = (DOMAIN base \ DOMAIN d.remove) \cup DOMAIN d.add
      /\ \A o \in DOMAIN d.add : mid[o] = d.add[o]
      /\ \A o \in (DOMAIN base \ DOMAIN d.remove) \ DOMAIN d.add : mid[o] = base[o]
  BY DEF ApplyTo, Override, Without, Restrict
<1> HIDE DEF mid, r
<1>3. /\ DOMAIN ApplyTo(r, mid) = (DOMAIN mid \ DOMAIN r.remove) \cup DOMAIN r.add
      /\ \A o \in DOMAIN r.add : ApplyTo(r, mid)[o] = r.add[o]
      /\ \A o \in (DOMAIN mid \ DOMAIN r.remove) \ DOMAIN r.add : ApplyTo(r, mid)[o] = mid[o]
  BY DEF ApplyTo, Override, Without, Restrict
<1>4. DOMAIN ApplyTo(r, mid) = DOMAIN base
  BY <1>1, <1>2, <1>3 DEF Fits
<1>5. ASSUME NEW o \in DOMAIN base PROVE ApplyTo(r, mid)[o] = base[o]
  <2>1. CASE o \in DOMAIN d.remove
    BY <1>1, <1>3, <2>1 DEF KnowsRemoved
  <2>2. CASE o \notin DOMAIN d.remove
    BY <1>1, <1>2, <1>3, <2>2 DEF Fits
  <2> QED
    BY <2>1, <2>2
<1>6. ApplyTo(r, mid) = base
  BY <1>4, <1>5, SameCells
<1> QED
  BY <1>6 DEF mid, r

=============================================================================
