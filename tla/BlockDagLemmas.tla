------------------------ MODULE BlockDagLemmas ------------------------------
(***************************************************************************)
(* Lemmas about the DAG of the block pipeline.  There is no induction rule *)
(* to cite for the chain and the past of a block: a claim about every      *)
(* block is proved by taking the lightest block that refutes it, and the   *)
(* equation of a recursive function by exhibiting a function that has it.  *)
(***************************************************************************)
EXTENDS BlockPipeline, WellFoundedInduction, FiniteSetTheorems, TLAPS

\* Among numbers there is a least one.
LEMMA LeastNumber ==
    ASSUME NEW N \in SUBSET Nat, N # {}
    PROVE  \E n \in N : \A m \in N : n <= m
<1> DEFINE R == {ss \in Nat \X Nat : ss[1] < ss[2]}
<1>1. IsWellFoundedOn(R, Nat)
  BY NatLessThanWellFounded, Zenon DEF OpToRel
<1>2. \A x, y \in Nat : x < y => <<x, y>> \in R
  OBVIOUS
<1> HIDE DEF R
<1>3. PICK n \in N : \A m \in N : ~(<<m, n>> \in R)
  BY <1>1, WFMin
<1>4. \A m \in N : ~(m < n)
  BY <1>2, <1>3
<1> QED
  BY <1>4

\* Lightest returns a member of least work.
LEMMA LightestIsLeast ==
    ASSUME NEW S \in SUBSET Blocks, S # {}
    PROVE  Lightest(S) \in S /\ \A c \in S : Work[Lightest(S)] <= Work[c]
<1> DEFINE N == {Work[b] : b \in S}
<1>1. N \in SUBSET Nat /\ N # {}
  BY PipelineAssumption
<1>2. PICK n \in N : \A m \in N : n <= m
  BY <1>1, LeastNumber
<1>3. \E b \in S : \A c \in S : Work[b] <= Work[c]
  BY <1>2
<1> QED
  BY <1>3 DEF Lightest

\* Among the numbers of a list there is a greatest one.
LEMMA GreatestOfList ==
    ASSUME NEW n \in Nat \ {0}, NEW w \in [1..n -> Nat]
    PROVE  \E i \in 1..n : \A j \in 1..n : w[j] <= w[i]
<1> DEFINE Topped(k) == \E i \in 1..k : \A j \in 1..k : w[j] <= w[i]
           Bad == {k \in 1..n : ~Topped(k)}
<1>1. Topped(1)
  OBVIOUS
<1>2. ASSUME NEW k \in 1..n, k # 1, Topped(k - 1) PROVE Topped(k)
  <2>1. PICK i \in 1..k - 1 : \A j \in 1..k - 1 : w[j] <= w[i]
    BY <1>2
  <2>2. /\ w[k] \in Nat /\ w[i] \in Nat /\ k \in 1..k /\ i \in 1..k
        /\ \A j \in 1..k : w[j] \in Nat /\ (j = k \/ j \in 1..k - 1)
    OBVIOUS
  <2>3. CASE w[k] <= w[i]
    BY <2>1, <2>2, <2>3
  <2>4. CASE w[i] <= w[k]
    <3>1. \A j \in 1..k : w[j] <= w[k]
      BY <2>1, <2>2, <2>4
    <3> QED
      BY <2>2, <3>1
  <2> QED
    BY <2>2, <2>3, <2>4
<1> HIDE DEF Topped
<1>3. Bad = {}
  <2> SUFFICES ASSUME Bad # {} PROVE FALSE
    OBVIOUS
  <2>1. PICK k \in Bad : \A m \in Bad : k <= m
    <3>1. Bad \in SUBSET Nat
      OBVIOUS
    <3> HIDE DEF Bad
    <3> QED
      BY <3>1, LeastNumber
  <2>2. k \in 1..n /\ ~Topped(k)
    OBVIOUS
  <2>3. k - 1 \in 1..n /\ ~(k <= k - 1)
    BY <1>1, <2>2
  <2>4. Topped(k - 1)
    BY <2>1, <2>3
  <2> QED
    BY <1>1, <1>2, <2>2, <2>4
<1>4. Topped(n)
  BY <1>3
<1> QED
  BY <1>4 DEF Topped

\* Heaviest returns a member of greatest work, since there are finitely many blocks.
LEMMA HeaviestIsGreatest ==
    ASSUME NEW S \in SUBSET Blocks, S # {}
    PROVE  Heaviest(S) \in S /\ \A c \in S : Work[c] <= Work[Heaviest(S)]
<1>1. IsFiniteSet(S)
  BY PipelineAssumption, FS_Subset
<1>2. PICK n \in Nat : ExistsBijection(1..n, S)
  BY <1>1, FS_NatBijection
<1>3. PICK f \in [1..n -> S] : \A b \in S : \E i \in 1..n : f[i] = b
  BY <1>2 DEF ExistsBijection, Bijection, Injection, Surjection
<1> DEFINE w == [i \in 1..n |-> Work[f[i]]]
<1>4. n \in Nat \ {0} /\ w \in [1..n -> Nat]
  BY <1>3, PipelineAssumption
<1>5. PICK i \in 1..n : \A j \in 1..n : w[j] <= w[i]
  <2> HIDE DEF w
  <2> QED
    BY <1>4, GreatestOfList
<1>6. \E b \in S : \A c \in S : Work[c] <= Work[b]
  BY <1>3, <1>5
<1> QED
  BY <1>6 DEF Heaviest

\* Parents are lighter, and a block has one of them as its selected parent.
LEMMA ParentsAreLighter ==
    ASSUME NEW b \in Blocks
    PROVE  /\ Parents(b) \in SUBSET Blocks
           /\ \A p \in Parents(b) : Work[p] < Work[b]
           /\ b = Genesis <=> Parents(b) = {}
           /\ b # Genesis => SelectedParent(b) \in Parents(b)
<1>1. /\ Parents(b) \in SUBSET Blocks
      /\ b = Genesis => Parents(b) = {}
      /\ b # Genesis => Parents(b) # {}
  <2>1. ParentsOf[b] \in Seq(Blocks)
    BY PipelineAssumption
  <2>2. b # Genesis => 1 \in DOMAIN ParentsOf[b]
    BY <2>1, PipelineAssumption
  <2>3. Genesis = b => DOMAIN ParentsOf[b] = {}
    BY PipelineAssumption
  <2>4. \A i \in DOMAIN ParentsOf[b] : ParentsOf[b][i] \in Blocks
    BY <2>1
  <2>5. /\ Parents(b) \in SUBSET Blocks
        /\ DOMAIN ParentsOf[b] = {} <=> Parents(b) = {}
    BY <2>4, Zenon DEF Parents
  <2> QED
    BY <2>2, <2>3, <2>5
<1>2. \A p \in Parents(b) : Work[p] < Work[b]
  <2>1. b = Genesis \/ \A i \in DOMAIN ParentsOf[b] : Work[ParentsOf[b][i]] < Work[b]
    BY PipelineAssumption
  <2> QED
    BY <1>1, <2>1 DEF Parents
<1>3. ASSUME b # Genesis PROVE SelectedParent(b) \in Parents(b)
  <2>1. SelectedParent(b) = Heaviest(Parents(b))
    BY DEF SelectedParent, Heaviest
  <2> QED
    BY <1>1, <1>3, <2>1, HeaviestIsGreatest
<1> QED
  BY <1>1, <1>2, <1>3

\* The selected chains satisfy their equation: the sets closed under the selected parent do.
LEMMA ChainEquation ==
    Chain = [b \in Blocks |-> {b} \cup IF b = Genesis THEN {} ELSE Chain[SelectedParent(b)]]
<1> DEFINE Closed(S) == \A x \in S : x # Genesis => SelectedParent(x) \in S
           Hull(b) == {c \in Blocks : \A S \in SUBSET Blocks : b \in S /\ Closed(S) => c \in S}
           f == [b \in Blocks |-> Hull(b)]
<1>1. ASSUME NEW b \in Blocks
      PROVE  Hull(b) = {b} \cup IF b = Genesis THEN {} ELSE f[SelectedParent(b)]
  <2> DEFINE T == {b} \cup IF b = Genesis THEN {} ELSE Hull(SelectedParent(b))
  <2>1. b # Genesis => SelectedParent(b) \in Blocks
    BY ParentsAreLighter
  <2>2. T \subseteq Hull(b)
    OBVIOUS
  <2>3. T \in SUBSET Blocks /\ b \in T
    OBVIOUS
  <2>4. \A x \in Blocks : x # Genesis => SelectedParent(x) \in Blocks
    BY ParentsAreLighter
  <2>5. Closed(T)
    BY <2>1, <2>3, <2>4
  <2>6. Hull(b) \subseteq T
    BY <2>3, <2>5
  <2> HIDE DEF Hull
  <2> QED
    BY <2>1, <2>2, <2>6
<1>2. f = [b \in Blocks |-> {b} \cup IF b = Genesis THEN {} ELSE f[SelectedParent(b)]]
  <2> HIDE DEF Hull
  <2> QED
    BY <1>1
<1>3. \E g : g = [b \in Blocks |-> {b} \cup IF b = Genesis THEN {} ELSE g[SelectedParent(b)]]
  BY <1>2
<1> QED
  BY <1>3, Zenon DEF Chain

\* The pasts satisfy their equation.
LEMMA PastEquation ==
    Past = [b \in Blocks |-> Parents(b) \cup UNION {Past[p] : p \in Parents(b)}]
<1> DEFINE Closed(S) == \A x \in S : Parents(x) \subseteq S
           Hull(b) == {c \in Blocks : \A S \in SUBSET Blocks : Parents(b) \subseteq S /\ Closed(S) => c \in S}
           f == [b \in Blocks |-> Hull(b)]
<1>0. \A b \in Blocks : Parents(b) \subseteq Blocks
  BY ParentsAreLighter
<1>1. ASSUME NEW b \in Blocks
      PROVE  Hull(b) = Parents(b) \cup UNION {f[p] : p \in Parents(b)}
  <2> DEFINE T == Parents(b) \cup UNION {Hull(p) : p \in Parents(b)}
  <2>1. T \subseteq Hull(b)
    BY <1>0
  <2>2. T \in SUBSET Blocks /\ Parents(b) \subseteq T
    BY <1>0
  <2>3. \A x \in Blocks : Parents(x) \subseteq Hull(x)
    BY <1>0
  <2>4. \A p \in Blocks : \A x \in Hull(p) : Parents(x) \subseteq Hull(p)
    BY <1>0
  <2>5. Closed(T)
    BY <1>0, <2>3, <2>4
  <2>6. Hull(b) \subseteq T
    BY <2>2, <2>5
  <2>7. \A p \in Parents(b) : f[p] = Hull(p)
    BY <1>0
  <2> HIDE DEF Hull
  <2> QED
    BY <2>1, <2>6, <2>7
<1>2. f = [b \in Blocks |-> Parents(b) \cup UNION {f[p] : p \in Parents(b)}]
  <2> HIDE DEF Hull
  <2> QED
    BY <1>1
<1>3. \E g : g = [b \in Blocks |-> Parents(b) \cup UNION {g[p] : p \in Parents(b)}]
  BY <1>2
<1> QED
  BY <1>3, Zenon DEF Past

\* A set that holds a block whenever it holds the parents of the block holds all.
LEMMA DagInduction ==
    ASSUME NEW S \in SUBSET Blocks, \A b \in Blocks : Parents(b) \subseteq S => b \in S
    PROVE  S = Blocks
<1> SUFFICES ASSUME Blocks \ S # {} PROVE FALSE
  OBVIOUS
<1>1. PICK b \in Blocks \ S : \A c \in Blocks \ S : Work[b] <= Work[c]
  <2>1. Blocks \ S \in SUBSET Blocks
    OBVIOUS
  <2> QED
    BY <2>1, LightestIsLeast
<1>2. \A p \in Parents(b) : p \in Blocks /\ Work[p] < Work[b]
  BY ParentsAreLighter
<1>3. \A p \in Parents(b) : ~(Work[b] <= Work[p])
  BY <1>2, PipelineAssumption
<1> QED
  BY <1>1, <1>2, <1>3

\* A chain consists of blocks, begins with its block and goes on with selected parents.
LEMMA ChainFacts ==
    ASSUME NEW b \in Blocks
    PROVE  /\ Chain[b] \in SUBSET Blocks
           /\ b \in Chain[b]
           /\ b # Genesis => Chain[b] = {b} \cup Chain[SelectedParent(b)]
           /\ b = Genesis => Chain[b] = {b}
           /\ \A c \in Chain[b] : c # Genesis => SelectedParent(c) \in Chain[b]
<1> DEFINE S == {x \in Blocks : /\ Chain[x] \in SUBSET Blocks
                                /\ \A c \in Chain[x] : c # Genesis => SelectedParent(c) \in Chain[x]}
<1>1. ASSUME NEW x \in Blocks
      PROVE  /\ x \in Chain[x]
             /\ x # Genesis => Chain[x] = {x} \cup Chain[SelectedParent(x)]
             /\ x = Genesis => Chain[x] = {x}
  BY ChainEquation
<1>2. ASSUME NEW x \in Blocks, Parents(x) \subseteq S PROVE x \in S
  <2>1. CASE x = Genesis
    BY <1>1, <2>1
  <2>2. CASE x # Genesis
    <3>1. SelectedParent(x) \in S /\ SelectedParent(x) \in Blocks
      BY <1>2, <2>2, ParentsAreLighter
    <3>2. SelectedParent(x) \in Chain[SelectedParent(x)]
      BY <1>1, <3>1
    <3> QED
      BY <1>1, <2>2, <3>1, <3>2
  <2> QED
    BY <2>1, <2>2
<1>3. S = Blocks
  <2>1. S \in SUBSET Blocks
    OBVIOUS
  <2> HIDE DEF S
  <2> QED
    BY <1>2, <2>1, DagInduction
<1> QED
  BY <1>1, <1>3

\* The past of a block consists of lighter blocks, and of the parents and their pasts.
LEMMA PastFacts ==
    ASSUME NEW b \in Blocks
    PROVE  /\ Past[b] \in SUBSET Blocks
           /\ Past[b] = Parents(b) \cup UNION {Past[p] : p \in Parents(b)}
           /\ \A c \in Past[b] : Work[c] < Work[b] /\ Past[c] \subseteq Past[b]
<1> DEFINE S == {x \in Blocks : /\ Past[x] \in SUBSET Blocks
                                /\ \A c \in Past[x] : Work[c] < Work[x] /\ Past[c] \subseteq Past[x]}
<1>1. ASSUME NEW x \in Blocks PROVE Past[x] = Parents(x) \cup UNION {Past[p] : p \in Parents(x)}
  BY PastEquation
<1>2. ASSUME NEW x \in Blocks, Parents(x) \subseteq S PROVE x \in S
  <2>1. /\ Parents(x) \in SUBSET Blocks
        /\ \A p \in Parents(x) : Work[p] < Work[x]
    BY ParentsAreLighter
  <2>2. Past[x] \in SUBSET Blocks
    BY <1>1, <1>2, <2>1
  <2>3. ASSUME NEW c \in Past[x] PROVE Work[c] < Work[x] /\ Past[c] \subseteq Past[x]
    <3>1. CASE c \in Parents(x)
      BY <1>1, <2>1, <3>1
    <3>2. CASE \E p \in Parents(x) : c \in Past[p]
      <4>1. PICK p \in Parents(x) : c \in Past[p]
        BY <3>2
      <4>2. Work[c] < Work[p] /\ Past[c] \subseteq Past[p]
        BY <1>2, <4>1
      <4>3. Work[c] \in Nat /\ Work[p] \in Nat /\ Work[x] \in Nat
        BY <2>1, <2>2, PipelineAssumption
      <4> QED
        BY <1>1, <2>1, <4>2, <4>3
    <3> QED
      BY <1>1, <3>1, <3>2
  <2> QED
    BY <2>2, <2>3
<1>3. S = Blocks
  <2>1. S \in SUBSET Blocks
    OBVIOUS
  <2> HIDE DEF S
  <2> QED
    BY <1>2, <2>1, DagInduction
<1> QED
  BY <1>1, <1>3

=============================================================================
