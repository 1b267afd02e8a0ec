----------------------- MODULE PipelineVirtualProofs ------------------------
(***************************************************************************)
(* Proofs about the virtual results of the pipeline: who has the virtual   *)
(* result of a block knows that virtual has seen it.                       *)
(***************************************************************************)
EXTENDS PipelineAnswerProofs

(***************************************************************************)
(* The inductive invariant                                                 *)
(***************************************************************************)
\* The virtual result of the task is known, and is not that of a header.
Told(t) == virtualAnswer[t] \in Statuses /\ Kind[t] # "header"

\* Whatever reaches the virtual processor has its body stored.
QueuesOK ==
    /\ virtualAnswer \in [Tasks -> Statuses \cup Errors \cup {None}]
    /\ vqueue \in Seq(Tasks \cup {Exit}) /\ vbatch \in Seq(Tasks \cup {Exit})
    /\ \A t \in Tasks :
          t \in Header!Seen(vqueue) \/ t \in Header!Seen(vbatch) \/ Told(t) => HasBody(status[BlockOf[t]])

\* The blocks of the past of a task, with its own, whose chains are good.
Hopeful(t) ==
    {b \in Past[BlockOf[t]] \cup {BlockOf[t]} : \A c \in Chain[b] : CellVerdict[c] = "ok"}

\* The search has not dropped b.
Covered(b) == \E c \in heap : b = c \/ b \in Past[c]

\* What a task brought is a candidate during the search and below the sink after it.
SearchCovers ==
    /\ vphase \in {"search", "found"} =>
          \A t \in Tasks : t \in Header!Seen(vbatch) \/ Told(t) => \A b \in Hopeful(t) : Covered(b)
    /\ \A t \in Tasks : (vphase = "answer" /\ t \in Header!Seen(vbatch)) \/ Told(t) =>
          \A b \in Hopeful(t) : Work[b] <= Work[sink]

(***************************************************************************)
(* The queue of the virtual processor                                      *)
(***************************************************************************)
\* Taking a task off a queue leaves only tasks that were on it.
LEMMA SeenTail ==
    ASSUME NEW S, NEW s \in Seq(S), s # <<>>
    PROVE  Tail(s) \in Seq(S) /\ Header!Seen(Tail(s)) \subseteq Header!Seen(s)
<1>1. /\ Len(s) \in Nat \ {0} /\ DOMAIN s = 1..Len(s) /\ DOMAIN Tail(s) = 1..Len(s) - 1
      /\ \A i \in 1..Len(s) - 1 : Tail(s)[i] = s[i + 1]
  OBVIOUS
<1>2. \A i \in DOMAIN Tail(s) : i + 1 \in DOMAIN s /\ Tail(s)[i] = s[i + 1]
  BY <1>1
<1> QED
  BY <1>2 DEF Header!Seen

\* Statuses and errors are told apart.
LEMMA ErrorsAreNoStatuses == Statuses \cap Errors = {} /\ None \notin Statuses
BY DEF Statuses, Errors, None

\* A task is told its virtual result by the virtual worker only.
LEMMA ToldStep ==
    ASSUME StagesOK, QueuesOK, world' = world, [Next]_vars
    PROVE  /\ virtualAnswer' \in [Tasks -> Statuses \cup Errors \cup {None}] \/ AnswerTasks
           /\ \A t \in Tasks : Told(t)' => Told(t) \/ (AnswerTasks /\ t \in Header!Seen(vbatch))
<1>1. Kind' = Kind
  BY DEF Kind
<1>2. CASE virtualAnswer' = virtualAnswer
  BY <1>1, <1>2 DEF Told, QueuesOK
<1>3. ASSUME NEW x \in Tasks, EndHeader(x), virtualAnswer' # virtualAnswer
      PROVE  /\ virtualAnswer' \in [Tasks -> Statuses \cup Errors \cup {None}]
             /\ \A t \in Tasks : Told(t)' => Told(t)
  <2>1. /\ virtualAnswer' = [virtualAnswer EXCEPT ![x] = result[x]]
        /\ result[x] \in Errors \/ Kind[x] = "header"
    BY <1>3 DEF EndHeader, answers
  <2>2. virtualAnswer' \in [Tasks -> Statuses \cup Errors \cup {None}]
    BY <2>1 DEF QueuesOK, StagesOK
  <2>3. virtualAnswer'[x] = result[x] /\ \A t \in Tasks : t # x => virtualAnswer'[t] = virtualAnswer[t]
    BY <2>1 DEF QueuesOK
  <2> QED
    BY <1>1, <2>1, <2>2, <2>3, ErrorsAreNoStatuses DEF Told
<1>4. ASSUME NEW x \in Tasks, EndBody(x), virtualAnswer' # virtualAnswer
      PROVE  /\ virtualAnswer' \in [Tasks -> Statuses \cup Errors \cup {None}]
             /\ \A t \in Tasks : Told(t)' => Told(t)
  <2>1. virtualAnswer' = [virtualAnswer EXCEPT ![x] = result[x]] /\ result[x] \in Errors
    BY <1>4 DEF EndBody
  <2>2. virtualAnswer' \in [Tasks -> Statuses \cup Errors \cup {None}]
    BY <2>1 DEF QueuesOK, StagesOK
  <2>3. virtualAnswer'[x] = result[x] /\ \A t \in Tasks : t # x => virtualAnswer'[t] = virtualAnswer[t]
    BY <2>1 DEF QueuesOK
  <2> QED
    BY <1>1, <2>1, <2>2, <2>3, ErrorsAreNoStatuses DEF Told
<1>5. CASE AnswerTasks
  BY <1>1, <1>5 DEF AnswerTasks, Told
<1>6. CASE Crash
  BY <1>6, ErrorsAreNoStatuses DEF Crash, Told
<1>7. ASSUME NEW x \in Tasks, Submit(x) \/ StartHeader(x) \/ StartBody(x) PROVE virtualAnswer' = virtualAnswer
  BY <1>7 DEF Submit, StartHeader, StartBody, answers
<1>8. CASE \/ CollectTasks \/ ReadTips \/ VerifyCandidate \/ TryCandidate \/ FilterParents \/ CommitVirtual
           \/ ReceiveExit \/ SignalExit \/ HeaderExits \/ BodyExits \/ UNCHANGED vars
  <2>1. virtualAnswer' = virtualAnswer
    BY <1>8 DEF CollectTasks, ReadTips, VerifyCandidate, TryCandidate, FilterParents, VerifyBlock, CommitVirtual,
                ReceiveExit, SignalExit, HeaderExits, BodyExits, vars, answers
  <2> QED
    BY <1>2, <2>1
<1> QED
  BY <1>2, <1>3, <1>4, <1>5, <1>6, <1>7, <1>8 DEF Next, Job, VirtualWorker

\* A step keeps what waits for virtual in agreement with the stores and the answers.
LEMMA QueuesStep ==
    ASSUME StoresOK, SearchOK, StagesOK, QueuesOK, [Next]_vars
    PROVE  QueuesOK'
<1> DEFINE Stored(t) == HasBody(status[BlockOf[t]])
           Answers == Statuses \cup Errors \cup {None}
<1>1. world' = world /\ \A t \in Tasks : Stored(t) => Stored(t)'
  BY StoresStep, PipelineAssumption
<1>2. \A t \in Tasks : Told(t)' => Stored(t)
  BY <1>1, ToldStep DEF QueuesOK
<1>3. virtualAnswer' \in [Tasks -> Answers]
  <2>1. CASE AnswerTasks
    <3>1. \A t \in Tasks : status[BlockOf[t]] \in Statuses \cup {None}
      BY PipelineAssumption DEF StoresOK
    <3> QED
      BY <2>1, <3>1 DEF AnswerTasks, QueuesOK
  <2> QED
    BY <1>1, <2>1, ToldStep
<1>4. ASSUME /\ vqueue' \in Seq(Tasks \cup {Exit}) /\ vbatch' \in Seq(Tasks \cup {Exit})
             /\ \A t \in Tasks : t \in Header!Seen(vqueue') \/ t \in Header!Seen(vbatch') => Stored(t)
      PROVE  QueuesOK'
  BY <1>1, <1>2, <1>3, <1>4 DEF QueuesOK
<1>5. CASE UNCHANGED <<vqueue, vbatch>>
  BY <1>4, <1>5 DEF QueuesOK
<1>6. ASSUME NEW x \in Tasks, EndBody(x) PROVE QueuesOK'
  <2>1. CASE vqueue' = vqueue
    BY <1>5, <1>6, <2>1 DEF EndBody
  <2>2. CASE result[x] \notin Errors /\ vqueue' = Append(vqueue, x)
    <3>1. Stored(x) /\ vbatch' = vbatch
      BY <1>6, <2>2 DEF EndBody, Body!Complete, StagesOK
    <3>2. vqueue' \in Seq(Tasks \cup {Exit}) /\ Header!Seen(vqueue') = Header!Seen(vqueue) \cup {x}
      BY <2>2, SeenAppend DEF QueuesOK
    <3> QED
      BY <1>4, <3>1, <3>2 DEF QueuesOK
  <2> QED
    BY <1>6, <2>1, <2>2 DEF EndBody
<1>7. CASE BodyExits
  <2>1. vqueue' = Append(vqueue, Exit) /\ vbatch' = vbatch
    BY <1>7 DEF BodyExits
  <2>2. vqueue' \in Seq(Tasks \cup {Exit}) /\ Header!Seen(vqueue') = Header!Seen(vqueue) \cup {Exit}
    BY <2>1, SeenAppend DEF QueuesOK
  <2> QED
    BY <1>4, <2>1, <2>2, PipelineAssumption DEF QueuesOK
<1>8. CASE CollectTasks
  BY <1>4, <1>8, SeenEmpty DEF CollectTasks, QueuesOK
<1>9. CASE AnswerTasks
  BY <1>4, <1>9, SeenEmpty DEF AnswerTasks, QueuesOK
<1>10. CASE ReceiveExit
  <2>1. vqueue # <<>> /\ vqueue' = Tail(vqueue) /\ vbatch' = vbatch
    BY <1>10 DEF ReceiveExit
  <2>2. vqueue' \in Seq(Tasks \cup {Exit}) /\ Header!Seen(vqueue') \subseteq Header!Seen(vqueue)
    BY <2>1, SeenTail DEF QueuesOK
  <2> QED
    BY <1>4, <2>1, <2>2 DEF QueuesOK
<1>11. CASE Crash
  BY <1>4, <1>11, SeenEmpty DEF Crash
<1>12. ASSUME NEW x \in Tasks, Submit(x) \/ StartHeader(x) \/ EndHeader(x) \/ StartBody(x)
       PROVE  UNCHANGED <<vqueue, vbatch>>
  BY <1>12 DEF Submit, StartHeader, EndHeader, StartBody, virtualVars
<1>13. CASE \/ ReadTips \/ VerifyCandidate \/ TryCandidate \/ FilterParents \/ CommitVirtual
            \/ SignalExit \/ HeaderExits \/ UNCHANGED vars
  <2>1. UNCHANGED <<vqueue, vbatch>>
    BY <1>13 DEF ReadTips, VerifyCandidate, TryCandidate, FilterParents, VerifyBlock, CommitVirtual,
                 SignalExit, HeaderExits, vars, virtualVars
  <2> QED
    BY <1>5, <2>1
<1> QED
  BY <1>5, <1>6, <1>7, <1>8, <1>9, <1>10, <1>11, <1>12, <1>13 DEF Next, Job, VirtualWorker

(***************************************************************************)
(* The search                                                              *)
(***************************************************************************)
\* When the tips are read, everything that has a body is covered.
LEMMA TipsCover ==
    ASSUME StoresOK, NEW t \in Tasks, HasBody(status[BlockOf[t]]), NEW b \in Hopeful(t)
    PROVE  \E c \in tips : b = c \/ b \in Past[c]
<1>1. BlockOf[t] \in Blocks
  BY PipelineAssumption
<1>2. PICK c \in tips : BlockOf[t] = c \/ BlockOf[t] \in Past[c]
  BY <1>1, TipAbove
<1>3. c \in Blocks
  BY <1>2 DEF StoresOK, BodiesAreClosedUnderParents
<1>4. BlockOf[t] \in Past[c] => Past[BlockOf[t]] \subseteq Past[c]
  BY <1>3, PastFacts
<1> QED
  BY <1>2, <1>4 DEF Hopeful

\* A candidate that fails leaves covered what it covered, but for itself.
LEMMA FailureCovers ==
    ASSUME StoresOK, heap \in SUBSET Blocks, NEW d \in heap, status[d] = "Disqualified",
           NEW b, Covered(b), \A c \in Chain[b] : CellVerdict[c] = "ok"
    PROVE  \E c \in PushParents(d) : b = c \/ b \in Past[c]
<1>1. d \in Blocks /\ d # Genesis
  BY DEF StoresOK
<1>2. /\ PushParents(d) \in SUBSET Blocks /\ heap \ {d} \subseteq PushParents(d)
      /\ \A p \in Parents(d) : \E c \in PushParents(d) : p = c \/ p \in Past[c]
  BY <1>1, ParentsStayCovered
<1>3. b # d
  BY <1>1 DEF StoresOK, ChainsAreJudged
<1>4. PICK c \in heap : b = c \/ b \in Past[c]
  BY DEF Covered
<1>5. CASE c # d
  BY <1>2, <1>4, <1>5
<1>6. CASE c = d
  <2>1. b \in Past[d]
    BY <1>3, <1>4, <1>6
  <2>2. PICK p \in Parents(d) : b = p \/ b \in Past[p]
    BY <1>1, <2>1, PastFacts
  <2>3. PICK e \in PushParents(d) : p = e \/ p \in Past[e]
    BY <1>2, <2>2
  <2>4. p \in Past[e] => Past[p] \subseteq Past[e]
    BY <1>2, <2>3, PastFacts
  <2> QED
    BY <2>2, <2>3, <2>4
<1> QED
  BY <1>5, <1>6

\* What is covered is no heavier than the heaviest candidate.
LEMMA CoveredIsLighter ==
    ASSUME heap \in SUBSET Blocks, heap # {}, NEW b, Covered(b)
    PROVE  Work[b] <= Work[Heaviest(heap)]
<1>1. Heaviest(heap) \in heap /\ \A c \in heap : Work[c] <= Work[Heaviest(heap)]
  BY HeaviestIsGreatest
<1>2. PICK c \in heap : b = c \/ b \in Past[c]
  BY DEF Covered
<1>3. b = c \/ (b \in Blocks /\ Work[b] < Work[c])
  BY <1>2, PastFacts
<1>4. Work[c] <= Work[Heaviest(heap)] /\ Work[c] \in Nat /\ Work[Heaviest(heap)] \in Nat
  BY <1>1, PipelineAssumption
<1>5. b \in Blocks => Work[b] \in Nat
  BY PipelineAssumption
<1> QED
  BY <1>3, <1>4, <1>5

\* A step keeps the search above every collected block that is not yet resolved.
LEMMA CoversStep ==
    ASSUME StoresOK, SearchOK, StagesOK, QueuesOK, SearchCovers, [Next]_vars
    PROVE  SearchCovers'
<1> DEFINE Collected(t) == t \in Header!Seen(vbatch)
<1>1. world' = world /\ \A t : Hopeful(t)' = Hopeful(t)
  BY StoresStep DEF Hopeful, CellVerdict
<1>2. \A t \in Tasks : Told(t)' => Told(t) \/ (AnswerTasks /\ Collected(t))
  BY <1>1, ToldStep
<1>3. CASE UNCHANGED <<vphase, vbatch, heap, sink>> /\ ~AnswerTasks
  <2>1. \A t \in Tasks : Told(t)' => Told(t)
    BY <1>2, <1>3
  <2>2. \A b : Covered(b)' <=> Covered(b)
    BY <1>3 DEF Covered
  <2> QED
    BY <1>1, <1>3, <2>1, <2>2 DEF SearchCovers
<1>4. CASE sink' = sink /\ vphase' \in {"receive", "collected", "stopped"} /\ ~AnswerTasks
  <2>1. \A t \in Tasks : Told(t)' => Told(t)
    BY <1>2, <1>4
  <2> QED
    BY <1>1, <1>4, <2>1 DEF SearchCovers
<1>5. CASE AnswerTasks
  <2>1. vphase = "answer" /\ vphase' \in {"receive", "stopped"} /\ sink' = sink
    BY <1>5 DEF AnswerTasks, stores
  <2> QED
    BY <1>1, <1>2, <2>1 DEF SearchCovers
<1>6. CASE ReadTips
  <2>1. /\ vphase' = "search" /\ heap' = tips /\ vbatch' = vbatch /\ sink' = sink
        /\ vphase = "collected" /\ ~AnswerTasks
    BY <1>6 DEF ReadTips, AnswerTasks, stores
  <2>2. \A t \in Tasks : Collected(t) \/ Told(t) => HasBody(status[BlockOf[t]])
    BY DEF QueuesOK
  <2>3. \A t \in Tasks : Collected(t) \/ Told(t) => \A b \in Hopeful(t) : \E c \in tips : b = c \/ b \in Past[c]
    BY <2>2, TipsCover
  <2>4. \A t \in Tasks : Told(t)' => Told(t)
    BY <1>2, <2>1
  <2> QED
    BY <1>1, <2>1, <2>3, <2>4 DEF SearchCovers, Covered
<1>7. CASE TryCandidate
  <2> DEFINE d == Heaviest(heap)
  <2>1. /\ vphase = "search" /\ vphase' \in {"search", "found"} /\ vbatch' = vbatch /\ sink' = sink
        /\ \/ heap' = heap
           \/ status[d] = "Disqualified" /\ heap' = PushParents(d)
        /\ ~AnswerTasks
    BY <1>7 DEF TryCandidate, AnswerTasks, stores
  <2>2. heap \in SUBSET Blocks /\ d \in heap
    BY <2>1, HeaviestIsGreatest DEF SearchOK
  <2> HIDE DEF d
  <2>3. ASSUME NEW t \in Tasks, NEW b \in Hopeful(t), Covered(b) PROVE Covered(b)'
    <3>1. \A c \in Chain[b] : CellVerdict[c] = "ok"
      BY DEF Hopeful
    <3> QED
      BY <2>1, <2>2, <2>3, <3>1, FailureCovers DEF Covered
  <2>4. \A t \in Tasks : Told(t)' => Told(t)
    BY <1>2, <2>1
  <2>5. \A t \in Tasks : Collected(t) \/ Told(t) => \A b \in Hopeful(t) : Covered(b)'
    BY <2>1, <2>3 DEF SearchCovers
  <2> QED
    BY <1>1, <2>1, <2>4, <2>5 DEF SearchCovers
<1>8. CASE CommitVirtual
  <2>1. /\ vphase = "found" /\ vphase' = "answer" /\ vbatch' = vbatch /\ sink' = Heaviest(heap)
        /\ ~AnswerTasks
    BY <1>8 DEF CommitVirtual, AnswerTasks
  <2>2. \A b : Covered(b) => Work[b] <= Work[sink']
    BY <2>1, CoveredIsLighter DEF SearchOK
  <2>3. \A t \in Tasks : Told(t)' => Told(t)
    BY <1>2, <2>1
  <2> QED
    BY <1>1, <2>1, <2>2, <2>3 DEF SearchCovers
<1>9. CASE CollectTasks \/ ReceiveExit \/ (Crash /\ ~AnswerTasks)
  <2>1. sink' = sink /\ vphase' \in {"receive", "collected", "stopped"} /\ ~AnswerTasks
    BY <1>9 DEF CollectTasks, ReceiveExit, Crash, AnswerTasks, stores
  <2> QED
    BY <1>4, <2>1
<1>10. ASSUME NEW x \in Tasks, Submit(x) \/ Job(x) PROVE UNCHANGED <<vphase, vbatch, heap, sink>>
  BY <1>10 DEF Submit, Job, StartHeader, EndHeader, StartBody, EndBody, stores, virtualVars
<1>11. CASE VerifyCandidate \/ FilterParents \/ SignalExit \/ HeaderExits \/ BodyExits \/ UNCHANGED vars
  <2>1. UNCHANGED <<vphase, vbatch, heap, sink>>
    BY <1>11 DEF VerifyCandidate, FilterParents, VerifyBlock, SignalExit, HeaderExits, BodyExits,
                 vars, stores, virtualVars
  <2> QED
    BY <1>3, <1>5, <2>1
<1> QED
  BY <1>3, <1>5, <1>6, <1>7, <1>8, <1>9, <1>10, <1>11 DEF Next, VirtualWorker

\* Once the virtual result of a task is known, no block of its past that could be the sink is
\* heavier than the sink: nothing that arrives, fails or crashes between the collection of the
\* tasks, the reading of the tips and the commit of virtual makes the search miss one.
THEOREM VirtualAlwaysSees == Spec => []SeenByVirtual
<1> DEFINE Inv == QueuesOK /\ SearchCovers
<1>1. ASSUME Init PROVE Inv
  <2>1. /\ vqueue = <<>> /\ vbatch = <<>> /\ vphase = "receive"
        /\ virtualAnswer = [t \in Tasks |-> None]
    BY <1>1 DEF Init
  <2>2. \A t \in Tasks : ~Told(t)
    BY <2>1, ErrorsAreNoStatuses DEF Told
  <2> QED
    BY <2>1, <2>2, SeenEmpty DEF QueuesOK, SearchCovers
<1>2. StoresOK /\ SearchOK /\ StagesOK /\ Inv /\ [Next]_vars => Inv'
  BY QueuesStep, CoversStep
<1>3. ASSUME Inv PROVE SeenByVirtual
  BY <1>3 DEF SeenByVirtual, SearchCovers, Told, Hopeful, Qualified
<1> QED
  BY <1>1, <1>2, <1>3, StoresAreConsistent, StagesAreConsistent, PTL DEF Spec

=============================================================================
