------------------------ MODULE BlockPipelineProofs -------------------------
(***************************************************************************)
(* Proofs about the block pipeline, for any finite DAG of blocks, any      *)
(* tasks and any verdicts.                                                 *)
(***************************************************************************)
EXTENDS BlockDagLemmas

(***************************************************************************)
(* The inductive invariant                                                 *)
(***************************************************************************)
\* A block is valid on a valid selected parent, and disqualified for a reason.
ChainsAreJudged ==
    \A b \in Blocks :
        /\ status[b] = "Valid" /\ b # Genesis => status[SelectedParent(b)] = "Valid"
        /\ status[b] = "Disqualified" => \E c \in Chain[b] : CellVerdict[c] # "ok"

StoresOK ==
    /\ status \in [Blocks -> Statuses \cup {None}]
    /\ status[Genesis] = "Valid"
    /\ BodiesAreClosedUnderParents
    /\ ChainsAreJudged

\* The search always has a candidate, and what it found stays valid.
SearchOK ==
    /\ sink \in Blocks /\ status[sink] = "Valid"
    /\ heap \in SUBSET Blocks
    /\ vphase \in {"search", "found"} => heap # {}
    /\ vphase = "found" => status[Heaviest(heap)] = "Valid"

(***************************************************************************)
(* The stores and the search                                               *)
(***************************************************************************)
\* Which statuses of the store mean that a body is stored.
LEMMA StatusesDiffer ==
    /\ \A s : HasBody(s) <=> s \in {"Pending", "Valid", "Disqualified"}
    /\ ~HasBody(None) /\ ~HasBody("HeaderOnly") /\ ~HasBody("Invalid")
BY DEF HasBody, None

\* The header processor stores no body and touches none.
LEMMA HeaderStep ==
    ASSUME StoresOK, NEW t \in Tasks, StartHeader(t)
    PROVE  /\ \A b \in Blocks : status'[b] = status[b] \/ (status[b] = None /\ status'[b] \in {None, "Invalid", "HeaderOnly"})
           /\ status' \in [Blocks -> Statuses \cup {None}]
<1>1. BlockOf[t] \in Blocks
  BY PipelineAssumption
<1>2. \/ ProcessHeader(BlockOf[t])[2] = status[BlockOf[t]]
      \/ status[BlockOf[t]] = None /\ ProcessHeader(BlockOf[t])[2] \in {None, "Invalid", "HeaderOnly"}
  <2>1. ValidateHeader(BlockOf[t])[2] \in {None, "Invalid", "HeaderOnly"}
    BY DEF ValidateHeader
  <2>2. CASE status[BlockOf[t]] = None
    BY <2>1, <2>2 DEF ProcessHeader, None
  <2>3. CASE status[BlockOf[t]] = "Invalid"
    BY <2>3 DEF ProcessHeader, None
  <2>4. CASE status[BlockOf[t]] # None /\ status[BlockOf[t]] # "Invalid"
    <3>1. ProcessHeader(BlockOf[t]) = <<status[BlockOf[t]], status[BlockOf[t]]>>
      BY <2>4 DEF ProcessHeader
    <3> QED
      BY <3>1
  <2> QED
    BY <2>2, <2>3, <2>4
<1> QED
  BY <1>1, <1>2 DEF StartHeader, StoresOK, Statuses, None

\* The body processor stores a body when all parents have one, and makes it a tip.
LEMMA BodyStep ==
    ASSUME StoresOK, NEW t \in Tasks, StartBody(t), NEW b, b = BlockOf[t]
    PROVE  /\ \A c \in Blocks : c # b => status'[c] = status[c]
           /\ status' \in [Blocks -> Statuses \cup {None}]
           /\ \/ status'[b] = status[b] /\ tips' = tips
              \/ status[b] = "HeaderOnly" /\ status'[b] \in {"HeaderOnly", "Invalid"} /\ tips' = tips
              \/ /\ status[b] = "HeaderOnly" /\ status'[b] = "Pending"
                 /\ \A p \in Parents(b) : HasBody(status[p])
                 /\ tips' = AddTip(b)
<1>1. b \in Blocks
  BY PipelineAssumption
<1>2. \/ ProcessBody(t)[2] = status[b] /\ status[b] # "HeaderOnly"
      \/ status[b] = "HeaderOnly" /\ ProcessBody(t)[2] \in {"HeaderOnly", "Invalid"}
      \/ status[b] = "HeaderOnly" /\ ProcessBody(t)[2] = "Pending" /\ BodyError(t) = None
  BY DEF ProcessBody, ValidateBody
<1>3. BodyError(t) = None => BodylessParents(b) = {}
  BY DEF BodyError, None
<1> QED
  BY <1>1, <1>2, <1>3 DEF StartBody, StoresOK, Statuses, None, BodylessParents

\* The virtual processor judges one pending block, whose selected parent is judged.
LEMMA VerifyStep ==
    ASSUME StoresOK, NEW C \in SUBSET Blocks, VerifyBlock(C)
    PROVE  \E b \in Blocks \ {Genesis} :
              /\ status[b] = "Pending"
              /\ status[SelectedParent(b)] \in {"Valid", "Disqualified"}
              /\ status' = [status EXCEPT ![b] = CellStatus(b)]
<1> DEFINE open == {c \in C : status[c] # "Disqualified" /\ Unverified(c) # {}}
           top == Heaviest(open)
           b == Lightest(Unverified(top))
<1>1. open \in SUBSET Blocks /\ open # {} /\ status' = [status EXCEPT ![b] = CellStatus(b)]
  BY DEF VerifyBlock
<1>2. top \in open
  BY <1>1, HeaviestIsGreatest
<1>3. top \in Blocks /\ Unverified(top) # {}
  BY <1>2
<1> HIDE DEF top, open
<1>4. Unverified(top) \in SUBSET Blocks
  BY <1>3, ChainFacts DEF Unverified
<1>5. b \in Unverified(top) /\ \A c \in Unverified(top) : Work[b] <= Work[c]
  BY <1>3, <1>4, LightestIsLeast
<1> HIDE DEF b
<1>6. b \in Blocks \ {Genesis} /\ status[b] = "Pending" /\ b \in Chain[top]
  BY <1>4, <1>5 DEF Unverified, StoresOK
<1>7. SelectedParent(b) \in Chain[top] /\ SelectedParent(b) \in Parents(b)
  BY <1>3, <1>6, ChainFacts, ParentsAreLighter
<1>8. SelectedParent(b) \in Blocks /\ ~(Work[b] <= Work[SelectedParent(b)])
  BY <1>6, <1>7, ParentsAreLighter, PipelineAssumption
<1>9. status[SelectedParent(b)] # "Pending"
  BY <1>5, <1>7, <1>8 DEF Unverified
<1>10. HasBody(status[SelectedParent(b)])
  BY <1>6, <1>7, StatusesDiffer DEF StoresOK, BodiesAreClosedUnderParents
<1> QED
  BY <1>1, <1>6, <1>9, <1>10 DEF HasBody

\* The first conjuncts of StoresOK survive where no block gains or loses a body.
LEMMA SameBodies ==
    ASSUME StoresOK, tips' = tips, \A b \in Blocks : HasBody(status'[b]) <=> HasBody(status[b])
    PROVE  BodiesAreClosedUnderParents'
<1>1. \A b \in Blocks : Parents(b) \in SUBSET Blocks
  BY ParentsAreLighter
<1> QED
  BY <1>1 DEF StoresOK, BodiesAreClosedUnderParents

\* Where only blocks that are not judged change, and into none that is, judgements stand.
LEMMA SameJudgements ==
    ASSUME StoresOK, world' = world,
           \A b \in Blocks : \/ status'[b] = status[b]
                             \/ /\ status[b] \notin {"Valid", "Disqualified"}
                                /\ status'[b] \notin {"Valid", "Disqualified"}
    PROVE  ChainsAreJudged' /\ status'[Genesis] = "Valid"
<1>1. \A b \in Blocks : b # Genesis => SelectedParent(b) \in Blocks
  BY ParentsAreLighter
<1>2. CellVerdict' = CellVerdict
  BY DEF CellVerdict
<1>3. Genesis \in Blocks
  BY PipelineAssumption
<1> QED
  BY <1>1, <1>2, <1>3 DEF StoresOK, ChainsAreJudged

\* The header processor keeps the stores consistent: it adds a header under known parents, or marks.
LEMMA HeaderKeepsStores ==
    ASSUME StoresOK, NEW t \in Tasks, StartHeader(t)
    PROVE  StoresOK'
<1>1. tips' = tips /\ world' = world
  BY DEF StartHeader
<1>2. /\ \A b \in Blocks : status'[b] = status[b]
                \/ (status[b] = None /\ status'[b] \in {None, "Invalid", "HeaderOnly"})
      /\ status' \in [Blocks -> Statuses \cup {None}]
  BY HeaderStep
<1>3. BodiesAreClosedUnderParents'
  BY <1>1, <1>2, SameBodies, StatusesDiffer
<1>4. ChainsAreJudged' /\ status'[Genesis] = "Valid"
  BY <1>1, <1>2, SameJudgements DEF None
<1> QED
  BY <1>2, <1>3, <1>4 DEF StoresOK

\* The body processor keeps the stores consistent: a body is stored after those of its parents.
LEMMA BodyKeepsStores ==
    ASSUME StoresOK, NEW t \in Tasks, StartBody(t)
    PROVE  StoresOK'
<1> DEFINE b == BlockOf[t]
<1>1. b \in Blocks /\ world' = world
  BY PipelineAssumption DEF StartBody
<1>2. /\ \A c \in Blocks : c # b => status'[c] = status[c]
      /\ status' \in [Blocks -> Statuses \cup {None}]
      /\ \/ status'[b] = status[b] /\ tips' = tips
         \/ status[b] = "HeaderOnly" /\ status'[b] \in {"HeaderOnly", "Invalid"} /\ tips' = tips
         \/ /\ status[b] = "HeaderOnly" /\ status'[b] = "Pending"
            /\ \A p \in Parents(b) : HasBody(status[p])
            /\ tips' = AddTip(b)
  BY BodyStep
<1> HIDE DEF b
<1>3. ChainsAreJudged' /\ status'[Genesis] = "Valid"
  BY <1>1, <1>2, SameJudgements
<1>4. CASE tips' = tips /\ \A c \in Blocks : HasBody(status'[c]) <=> HasBody(status[c])
  BY <1>2, <1>3, <1>4, SameBodies DEF StoresOK
<1>5. CASE /\ status[b] = "HeaderOnly" /\ status'[b] = "Pending"
           /\ \A p \in Parents(b) : HasBody(status[p])
           /\ tips' = AddTip(b)
  <2>1. \A c \in Blocks : HasBody(status'[c]) <=> c = b \/ HasBody(status[c])
    BY <1>2, <1>5, StatusesDiffer
  <2>2. ~HasBody(status[b])
    BY <1>5, StatusesDiffer
  <2>3. \A c \in Blocks : Parents(c) \in SUBSET Blocks /\ c \notin Parents(c)
    BY ParentsAreLighter, PipelineAssumption
  <2>4. \A c \in Blocks : HasBody(status[c]) => \A p \in Parents(c) : HasBody(status[p])
    BY DEF StoresOK, BodiesAreClosedUnderParents
  <2>5. \A c \in Blocks : HasBody(status'[c]) => \A p \in Parents(c) : HasBody(status'[p])
    BY <1>5, <2>1, <2>3, <2>4
  <2>6. ASSUME NEW c \in Blocks
        PROVE  c \in AddTip(b) <=> HasBody(status'[c]) /\
                  \A d \in Blocks : c \in Parents(d) => ~HasBody(status'[d])
    <3>1. c \in tips <=> HasBody(status[c]) /\ \A d \in Blocks : c \in Parents(d) => ~HasBody(status[d])
      BY DEF StoresOK, BodiesAreClosedUnderParents
    <3> QED
      BY <1>1, <2>1, <2>2, <2>3, <2>4, <3>1 DEF AddTip
  <2>7. AddTip(b) \in SUBSET Blocks
    BY <1>1 DEF AddTip, StoresOK, BodiesAreClosedUnderParents
  <2>8. tips' = {c \in Blocks : HasBody(status'[c]) /\
                   \A d \in Blocks : c \in Parents(d) => ~HasBody(status'[d])}
    BY <1>5, <2>6, <2>7
  <2>9. BodiesAreClosedUnderParents'
    BY <2>5, <2>8 DEF BodiesAreClosedUnderParents
  <2> QED
    BY <1>2, <1>3, <2>9 DEF StoresOK
<1> QED
  BY <1>2, <1>4, <1>5, StatusesDiffer

\* Verifying a chain block keeps the stores consistent, and decides only what was pending.
LEMMA VerifyKeepsStores ==
    ASSUME StoresOK, NEW C \in SUBSET Blocks, VerifyBlock(C)
    PROVE  /\ StoresOK'
           /\ \A b \in Blocks : status[b] # "Pending" => status'[b] = status[b]
<1>1. tips' = tips /\ world' = world
  BY DEF VerifyBlock
<1>2. PICK b \in Blocks \ {Genesis} :
              /\ status[b] = "Pending"
              /\ status[SelectedParent(b)] \in {"Valid", "Disqualified"}
              /\ status' = [status EXCEPT ![b] = CellStatus(b)]
  BY VerifyStep
<1>3. CellStatus(b) \in {"Valid", "Disqualified"}
  BY DEF CellStatus
<1>4. /\ status' \in [Blocks -> Statuses \cup {None}]
      /\ status'[b] = CellStatus(b)
      /\ \A c \in Blocks : c # b => status'[c] = status[c]
  BY <1>2, <1>3 DEF StoresOK, Statuses
<1>5. BodiesAreClosedUnderParents'
  BY <1>1, <1>2, <1>3, <1>4, SameBodies, StatusesDiffer
<1>6. status'[Genesis] = "Valid"
  BY <1>2, <1>4, PipelineAssumption DEF StoresOK
<1>7. CellVerdict' = CellVerdict
  BY <1>1 DEF CellVerdict
<1>8. SelectedParent(b) \in Blocks /\ SelectedParent(b) # b
  BY <1>2, ParentsAreLighter, PipelineAssumption
<1>9. ASSUME NEW c \in Blocks
      PROVE  /\ status'[c] = "Valid" /\ c # Genesis => status'[SelectedParent(c)] = "Valid"
             /\ status'[c] = "Disqualified" => \E d \in Chain[c] : CellVerdict[d] # "ok"
  <2>1. CASE c # b
    <3>1. c # Genesis => SelectedParent(c) \in Blocks
      BY ParentsAreLighter
    <3> QED
      BY <1>2, <1>4, <2>1, <3>1 DEF StoresOK, ChainsAreJudged
  <2>2. CASE c = b
    <3>1. Chain[b] = {b} \cup Chain[SelectedParent(b)]
      BY <1>2, ChainFacts
    <3>2. status[SelectedParent(b)] = "Disqualified" =>
            \E d \in Chain[SelectedParent(b)] : CellVerdict[d] # "ok"
      BY <1>8 DEF StoresOK, ChainsAreJudged
    <3> QED
      BY <1>2, <1>4, <1>8, <2>2, <3>1, <3>2 DEF CellStatus
  <2> QED
    BY <2>1, <2>2
<1>10. ChainsAreJudged'
  BY <1>7, <1>9 DEF ChainsAreJudged
<1> QED
  BY <1>2, <1>4, <1>5, <1>6, <1>10 DEF StoresOK

\* Above every stored body there is a tip.
LEMMA TipAbove ==
    ASSUME StoresOK, NEW b \in Blocks, HasBody(status[b])
    PROVE  \E c \in tips : b = c \/ b \in Past[c]
<1> DEFINE Above == {c \in Blocks : HasBody(status[c]) /\ (b = c \/ b \in Past[c])}
           top == Heaviest(Above)
<1>1. Above \in SUBSET Blocks /\ b \in Above
  OBVIOUS
<1>2. top \in Above /\ \A c \in Above : Work[c] <= Work[top]
  <2> HIDE DEF Above
  <2> QED
    BY <1>1, HeaviestIsGreatest
<1> HIDE DEF top
<1>3. ASSUME NEW d \in Blocks, top \in Parents(d), HasBody(status[d]) PROVE FALSE
  <2>1. top \in Past[d] /\ Past[top] \subseteq Past[d]
    BY <1>3, PastFacts
  <2>2. Work[top] < Work[d] /\ Work[top] \in Nat /\ Work[d] \in Nat
    BY <1>3, ParentsAreLighter, PipelineAssumption
  <2>3. d \in Above
    BY <1>2, <1>3, <2>1
  <2> HIDE DEF Above
  <2> QED
    BY <1>2, <2>2, <2>3
<1> QED
  BY <1>2, <1>3 DEF StoresOK, BodiesAreClosedUnderParents

\* Parents of a candidate that fails are candidates themselves, or in the past of one.
LEMMA ParentsStayCovered ==
    ASSUME heap \in SUBSET Blocks, NEW d \in heap, d # Genesis
    PROVE  /\ PushParents(d) \in SUBSET Blocks
           /\ PushParents(d) # {}
           /\ heap \ {d} \subseteq PushParents(d)
           /\ \A p \in Parents(d) : \E c \in PushParents(d) : p = c \/ p \in Past[c]
<1>1. Parents(d) \in SUBSET Blocks /\ Parents(d) # {}
  BY ParentsAreLighter
<1> QED
  BY <1>1 DEF PushParents

\* A step stores what it stores: no status, no body and no verdict is taken back.
LEMMA StoresStep ==
    ASSUME StoresOK, SearchOK, [Next]_vars
    PROVE  /\ StoresOK'
           /\ world' = world
           /\ \A b \in Blocks : /\ HasBody(status[b]) => HasBody(status'[b])
                                /\ status[b] # None => status'[b] # None
                                /\ status[b] = "Valid" => status'[b] = "Valid"
<1> DEFINE Kept == \A b \in Blocks : /\ HasBody(status[b]) => HasBody(status'[b])
                                     /\ status[b] # None => status'[b] # None
                                     /\ status[b] = "Valid" => status'[b] = "Valid"
<1>1. CASE UNCHANGED <<stores, world>>
  <2>1. StoresOK'
    BY <1>1 DEF stores, StoresOK, BodiesAreClosedUnderParents, ChainsAreJudged, CellVerdict
  <2> QED
    BY <1>1, <2>1 DEF stores
<1>2. ASSUME NEW t \in Tasks, StartHeader(t) PROVE StoresOK' /\ world' = world /\ Kept
  <2>1. StoresOK' /\ world' = world
    BY <1>2, HeaderKeepsStores DEF StartHeader
  <2>2. Kept
    BY <1>2, HeaderStep, StatusesDiffer
  <2> QED
    BY <2>1, <2>2
<1>3. ASSUME NEW t \in Tasks, StartBody(t) PROVE StoresOK' /\ world' = world /\ Kept
  <2>1. StoresOK' /\ world' = world
    BY <1>3, BodyKeepsStores DEF StartBody
  <2>2. Kept
    BY <1>3, BodyStep, StatusesDiffer DEF None
  <2> QED
    BY <2>1, <2>2
<1>4. ASSUME NEW C \in SUBSET Blocks, VerifyBlock(C) PROVE StoresOK' /\ world' = world /\ Kept
  <2>1. StoresOK' /\ world' = world
    BY <1>4, VerifyKeepsStores DEF VerifyBlock
  <2>2. PICK b \in Blocks : status[b] = "Pending" /\ status' = [status EXCEPT ![b] = CellStatus(b)]
    BY <1>4, VerifyStep
  <2>3. CellStatus(b) \in {"Valid", "Disqualified"}
    BY DEF CellStatus
  <2>4. Kept
    BY <2>2, <2>3, StatusesDiffer DEF StoresOK, None
  <2> QED
    BY <2>1, <2>4
<1>5. CASE VerifyCandidate
  <2>1. {Heaviest(heap)} \in SUBSET Blocks
    BY <1>5, HeaviestIsGreatest DEF VerifyCandidate, SearchOK
  <2> QED
    BY <1>4, <1>5, <2>1 DEF VerifyCandidate
<1>6. CASE FilterParents
  <2>1. heap \ {Heaviest(heap)} \in SUBSET Blocks
    BY DEF SearchOK
  <2> QED
    BY <1>4, <1>6, <2>1 DEF FilterParents
<1>7. CASE CommitVirtual
  <2>1. status' = status /\ tips' = tips /\ world' = world
    BY <1>7 DEF CommitVirtual
  <2>2. StoresOK'
    BY <2>1 DEF StoresOK, BodiesAreClosedUnderParents, ChainsAreJudged, CellVerdict
  <2> QED
    BY <2>1, <2>2
<1>8. ASSUME NEW t \in Tasks, Submit(t) \/ EndHeader(t) \/ EndBody(t) PROVE UNCHANGED <<stores, world>>
  BY <1>8 DEF Submit, EndHeader, EndBody
<1>9. CASE \/ CollectTasks \/ ReadTips \/ TryCandidate \/ AnswerTasks \/ ReceiveExit
           \/ SignalExit \/ HeaderExits \/ BodyExits \/ Crash \/ UNCHANGED vars
  <2>1. UNCHANGED <<stores, world>>
    BY <1>9 DEF CollectTasks, ReadTips, TryCandidate, AnswerTasks, ReceiveExit,
                SignalExit, HeaderExits, BodyExits, Crash, vars
  <2> QED
    BY <1>1, <2>1
<1> QED
  BY <1>1, <1>2, <1>3, <1>5, <1>6, <1>7, <1>8, <1>9 DEF Next, Job, VirtualWorker

\* A step of any processor keeps what the search for the sink relies on.
LEMMA SearchStep ==
    ASSUME StoresOK, SearchOK, [Next]_vars
    PROVE  SearchOK'
<1>1. \A b \in Blocks : status[b] = "Valid" => status'[b] = "Valid"
  BY StoresStep
<1>2. vphase \in {"search", "found"} => Heaviest(heap) \in heap /\ Heaviest(heap) \in Blocks
  BY HeaviestIsGreatest DEF SearchOK
<1>3. CASE UNCHANGED <<sink, heap, vphase>>
  BY <1>1, <1>2, <1>3 DEF SearchOK
<1>4. CASE UNCHANGED <<sink, heap>> /\ vphase' \in {"receive", "collected", "stopped"}
  BY <1>1, <1>4 DEF SearchOK
<1>5. CASE ReadTips
  <2>1. Genesis \in Blocks /\ HasBody(status[Genesis])
    BY PipelineAssumption DEF StoresOK, HasBody
  <2>2. tips # {} /\ tips \in SUBSET Blocks
    BY <2>1, TipAbove DEF StoresOK, BodiesAreClosedUnderParents
  <2> QED
    BY <1>5, <2>2 DEF ReadTips, SearchOK, stores
<1>6. CASE TryCandidate
  <2>1. Heaviest(heap) \in heap /\ Heaviest(heap) \in Blocks /\ UNCHANGED stores
    BY <1>2, <1>6 DEF TryCandidate
  <2>2. CASE status[Heaviest(heap)] = "Valid"
    <3>1. vphase' = "found" /\ heap' = heap
      BY <1>6, <2>2 DEF TryCandidate
    <3> QED
      BY <2>1, <2>2, <3>1 DEF SearchOK, stores
  <2>3. CASE status[Heaviest(heap)] = "Disqualified"
    <3>1. heap' = PushParents(Heaviest(heap)) /\ vphase' = vphase /\ vphase = "search"
      BY <1>6, <2>3 DEF TryCandidate
    <3>2. Heaviest(heap) # Genesis
      BY <2>3 DEF StoresOK
    <3>3. heap' \in SUBSET Blocks /\ heap' # {}
      BY <2>1, <3>1, <3>2, ParentsStayCovered DEF SearchOK
    <3> QED
      BY <2>1, <3>1, <3>3 DEF SearchOK, stores
  <2> QED
    BY <1>6, <2>2, <2>3 DEF TryCandidate
<1>7. CASE CommitVirtual
  BY <1>2, <1>7 DEF CommitVirtual, SearchOK
<1>8. CASE Crash
  BY <1>8 DEF Crash, SearchOK, stores
<1>9. ASSUME NEW t \in Tasks, Submit(t) \/ Job(t) PROVE UNCHANGED <<sink, heap, vphase>>
  BY <1>9 DEF Submit, Job, StartHeader, EndHeader, StartBody, EndBody, stores, virtualVars
<1>10. CASE VerifyCandidate \/ FilterParents \/ SignalExit \/ HeaderExits \/ BodyExits \/ UNCHANGED vars
  <2>1. UNCHANGED <<sink, heap, vphase>>
    BY <1>10 DEF VerifyCandidate, FilterParents, VerifyBlock, SignalExit, HeaderExits, BodyExits,
                 stores, virtualVars, vars
  <2> QED
    BY <1>3, <2>1
<1>11. CASE CollectTasks \/ AnswerTasks \/ ReceiveExit
  <2>1. UNCHANGED <<sink, heap>> /\ vphase' \in {"receive", "collected", "stopped"}
    BY <1>11 DEF CollectTasks, AnswerTasks, ReceiveExit, stores
  <2> QED
    BY <1>4, <2>1
<1> QED
  BY <1>3, <1>5, <1>6, <1>7, <1>8, <1>9, <1>10, <1>11 DEF Next, VirtualWorker

\* With only genesis stored, the stores are consistent and no search is under way.
LEMMA StoresInit == ASSUME Init PROVE StoresOK /\ SearchOK
<1>1. Genesis \in Blocks /\ \A b \in Blocks : Parents(b) \in SUBSET Blocks /\ b \notin Parents(b)
  BY ParentsAreLighter, PipelineAssumption
<1>2. Parents(Genesis) = {}
  BY <1>1, ParentsAreLighter
<1>3. /\ status \in [Blocks -> Statuses \cup {None}]
      /\ status[Genesis] = "Valid"
      /\ \A b \in Blocks : b # Genesis => status[b] = None
  BY <1>1 DEF Init, Statuses
<1>4. \A b \in Blocks : HasBody(status[b]) <=> b = Genesis
  BY <1>3, StatusesDiffer
<1>5. BodiesAreClosedUnderParents
  BY <1>1, <1>2, <1>4 DEF Init, BodiesAreClosedUnderParents
<1>6. ChainsAreJudged
  BY <1>3 DEF ChainsAreJudged, None
<1>7. SearchOK
  BY <1>1, <1>3 DEF Init, SearchOK
<1> QED
  BY <1>3, <1>5, <1>6, <1>7 DEF StoresOK

\* In every behaviour the stores are consistent and the search has a candidate.
THEOREM StoresAreConsistent == Spec => [](StoresOK /\ SearchOK)
<1>1. Init => StoresOK /\ SearchOK
  BY StoresInit
<1>2. StoresOK /\ SearchOK /\ [Next]_vars => StoresOK' /\ SearchOK'
  BY StoresStep, SearchStep
<1> QED
  BY <1>1, <1>2, PTL DEF Spec

\* Bodies are stored parents first, and the tips are the blocks with a body and no child with one,
\* whatever the order in which the threads of the body processor commit and wherever the node crashes.
THEOREM BodiesAlwaysClosed == Spec => []BodiesAreClosedUnderParents
<1>1. StoresOK /\ SearchOK => BodiesAreClosedUnderParents
  BY DEF StoresOK
<1> QED
  BY <1>1, StoresAreConsistent, PTL

\* Every block of the selected chain of the sink has a valid state.
THEOREM SinkChainAlwaysValid == Spec => []SinkChainIsValid
<1>1. ASSUME StoresOK, SearchOK PROVE SinkChainIsValid
  <2> DEFINE S == {b \in Blocks : status[b] = "Valid" => \A c \in Chain[b] : status[c] = "Valid"}
  <2>1. ASSUME NEW b \in Blocks, Parents(b) \subseteq S PROVE b \in S
    <3>1. CASE b = Genesis
      BY <3>1, ChainFacts
    <3>2. CASE b # Genesis
      <4>1. SelectedParent(b) \in S /\ Chain[b] = {b} \cup Chain[SelectedParent(b)]
        BY <2>1, <3>2, ChainFacts, ParentsAreLighter
      <4> QED
        BY <1>1, <3>2, <4>1 DEF StoresOK, ChainsAreJudged
    <3> QED
      BY <3>1, <3>2
  <2>2. S \in SUBSET Blocks
    OBVIOUS
  <2>3. S = Blocks
    <3> HIDE DEF S
    <3> QED
      BY <2>1, <2>2, DagInduction
  <2> QED
    BY <1>1, <2>3 DEF SearchOK, SinkChainIsValid
<1> QED
  BY <1>1, StoresAreConsistent, PTL

(***************************************************************************)
(* What is marked invalid                                                  *)
(***************************************************************************)
\* The header processor condemns a block only for what is wrong after its proof of work.
LEMMA HeaderCondemns ==
    ASSUME StoresOK, NEW t \in Tasks, StartHeader(t), NEW b \in Blocks,
           status'[b] = "Invalid", status[b] # "Invalid"
    PROVE  HeaderVerdict[b] = "post_pow"
<1>1. b = BlockOf[t] /\ ProcessHeader(b)[2] = "Invalid"
  BY DEF StartHeader, StoresOK
<1>2. status[b] = None
  <2> SUFFICES ASSUME status[b] # None PROVE FALSE
    OBVIOUS
  <2>1. ProcessHeader(b) = <<status[b], status[b]>>
    BY DEF ProcessHeader
  <2> QED
    BY <1>1, <2>1
<1>3. ProcessHeader(b) = ValidateHeader(b)
  BY <1>2 DEF ProcessHeader, None
<1> QED
  BY <1>1, <1>3 DEF ValidateHeader, None

\* The body processor condemns a block for its own verdict, or for spending a cell of its chain.
LEMMA BodyCondemns ==
    ASSUME StoresOK, NEW t \in Tasks, StartBody(t), NEW b \in Blocks,
           status'[b] = "Invalid", status[b] # "Invalid"
    PROVE  BodyVerdict[b] # "ok" \/ SpendsChainCell[b]
<1>1. b = BlockOf[t] /\ ProcessBody(t)[2] = "Invalid"
  BY DEF StartBody, StoresOK
<1>2. status[b] = "HeaderOnly"
  <2> SUFFICES ASSUME status[b] # "HeaderOnly" PROVE FALSE
    OBVIOUS
  <2>1. ProcessBody(t) = <<status[b], status[b]>>
    BY <1>1 DEF ProcessBody
  <2> QED
    BY <1>1, <2>1
<1>3. ProcessBody(t) = ValidateBody(t)
  BY <1>1, <1>2 DEF ProcessBody
<1>4. BodyError(t) \notin {None, "BadMerkleRoot", "MissingParents"}
  BY <1>1, <1>3 DEF ValidateBody, RejectsBodyOnly
<1>5. BodyVerdict[b] \in {"isolation", "context"} \/ ~ChainCellsReadable(b)
  BY <1>1, <1>4 DEF BodyError
<1> QED
  BY <1>5 DEF ChainCellsReadable

\* Where no block spends a cell of its selected chain, a block is marked invalid only for what
\* it is.  With such a block it is not so: its body may be validated before its chain is judged.
THEOREM OnlyInvalidIsMarked ==
    ASSUME \A w \in Worlds : \A b \in Blocks : ~w.spends[b]
    PROVE  Spec => []InvalidMeansInvalid
<1> DEFINE Inv == world \in Worlds /\ InvalidMeansInvalid
<1>1. Init => Inv
  BY DEF Init, InvalidMeansInvalid, None
<1>2. ASSUME StoresOK, SearchOK, Inv, [Next]_vars PROVE Inv'
  <2>1. world' = world
    BY <1>2, StoresStep
  <2>2. \A b \in Blocks : BlockIsInvalid(b)' <=> BlockIsInvalid(b)
    BY <2>1 DEF BlockIsInvalid, HeaderVerdict, BodyVerdict
  <2>3. SUFFICES ASSUME NEW b \in Blocks, status'[b] = "Invalid", status[b] # "Invalid"
                 PROVE  BlockIsInvalid(b)
    BY <1>2, <2>1, <2>2 DEF InvalidMeansInvalid
  <2>4. ASSUME NEW t \in Tasks, StartHeader(t) PROVE BlockIsInvalid(b)
    BY <1>2, <2>3, <2>4, HeaderCondemns DEF BlockIsInvalid
  <2>5. ASSUME NEW t \in Tasks, StartBody(t) PROVE BlockIsInvalid(b)
    <3>1. ~SpendsChainCell[b]
      BY <1>2 DEF SpendsChainCell
    <3> QED
      BY <1>2, <2>3, <2>5, <3>1, BodyCondemns DEF BlockIsInvalid
  <2>6. ASSUME NEW C \in SUBSET Blocks, VerifyBlock(C) PROVE FALSE
    <3>1. PICK c \in Blocks : status[c] = "Pending" /\ status' = [status EXCEPT ![c] = CellStatus(c)]
      BY <1>2, <2>6, VerifyStep
    <3>2. CellStatus(c) \in {"Valid", "Disqualified"}
      BY DEF CellStatus
    <3> QED
      BY <1>2, <2>3, <3>1, <3>2 DEF StoresOK
  <2>7. CASE VerifyCandidate
    <3>1. {Heaviest(heap)} \in SUBSET Blocks
      BY <1>2, <2>7, HeaviestIsGreatest DEF VerifyCandidate, SearchOK
    <3> QED
      BY <2>6, <2>7, <3>1 DEF VerifyCandidate
  <2>8. CASE FilterParents
    <3>1. heap \ {Heaviest(heap)} \in SUBSET Blocks
      BY <1>2 DEF SearchOK
    <3> QED
      BY <2>6, <2>8, <3>1 DEF FilterParents
  <2>9. ASSUME NEW t \in Tasks, Submit(t) \/ EndHeader(t) \/ EndBody(t) PROVE status' = status
    BY <2>9 DEF Submit, EndHeader, EndBody, stores
  <2>10. CASE \/ CollectTasks \/ ReadTips \/ TryCandidate \/ CommitVirtual \/ AnswerTasks \/ ReceiveExit
              \/ SignalExit \/ HeaderExits \/ BodyExits \/ Crash \/ UNCHANGED vars
    <3>1. status' = status
      BY <2>10 DEF CollectTasks, ReadTips, TryCandidate, CommitVirtual, AnswerTasks, ReceiveExit,
                   SignalExit, HeaderExits, BodyExits, Crash, vars, stores
    <3> QED
      BY <2>3, <3>1
  <2> QED
    BY <1>2, <2>3, <2>4, <2>5, <2>7, <2>8, <2>9, <2>10 DEF Next, Job, VirtualWorker
<1> QED
  BY <1>1, <1>2, StoresAreConsistent, PTL DEF Spec

=============================================================================
