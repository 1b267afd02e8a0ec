------------------------ MODULE PipelineAnswerProofs ------------------------
(***************************************************************************)
(* Proofs about the block results of the pipeline: a block that is sent    *)
(* after its parents finds them.                                           *)
(***************************************************************************)
EXTENDS BlockPipelineProofs

(***************************************************************************)
(* The inductive invariant                                                 *)
(***************************************************************************)
\* A task is in a stage only after the one before, and what a stage hands on is stored.
StagesOK ==
    /\ result \in [Tasks -> Statuses \cup Errors \cup {None}]
    /\ hArrived \in Seq(Tasks) /\ bArrived \in Seq(Tasks)
    /\ hEnded \subseteq hStarted /\ hStarted \subseteq Header!Seen(hArrived)
    /\ bEnded \subseteq bStarted /\ bStarted \subseteq Body!Seen(bArrived)
    /\ Body!Seen(bArrived) \subseteq hEnded
    /\ \A t \in hStarted : result[t] \in Errors \/ status[BlockOf[t]] # None
    /\ \A t \in Body!Seen(bArrived) : status[BlockOf[t]] # None
    /\ \A t \in bStarted : result[t] \in Errors \/ HasBody(status[BlockOf[t]])

\* A task has its block result, the one that was computed, once the stages are done with it.
AnswersOK ==
    /\ blockAnswer \in [Tasks -> Statuses \cup Errors \cup {None}]
    /\ \A t \in Tasks : result[t] # None => t \in hStarted
    /\ \A t \in Tasks : blockAnswer[t] # None => t \in hEnded /\ (t \in Body!Seen(bArrived) => t \in bEnded)
    /\ \A t \in hEnded \ Body!Seen(bArrived) :
          blockAnswer[t] = result[t] /\ (result[t] \in Errors \/ Kind[t] = "header")
    /\ \A t \in bEnded : blockAnswer[t] = result[t]

\* The body stage gets tasks in the order of the header stage, where that order counts.
OrderOK ==
    /\ \A t \in hStarted, u \in Tasks : Header!Precedes(u, t) => u \in hEnded
    /\ \A t, u \in Body!Seen(bArrived) : Header!Precedes(u, t) => Body!Before(u, t)

\* A parent of the block of t was refused each time that it was sent before t.
ParentRefused(t) ==
    \E p \in Parents(BlockOf[t]) :
        \A u \in DOMAIN Kind :
            BlockOf[u] = p /\ Kind[u] = "block" /\ Header!Before(u, t) => blockAnswer[u] \in Errors

MissingOK == \A t \in Tasks : result[t] = "MissingParents" => ParentRefused(t)

(***************************************************************************)
(* Lemmas about sequences of tasks                                         *)
(***************************************************************************)
\* A task that arrives at a stage has been seen by it, with all the earlier ones.
LEMMA SeenAppend ==
    ASSUME NEW S, NEW s \in Seq(S), NEW x \in S
    PROVE  /\ Append(s, x) \in Seq(S)
           /\ Header!Seen(Append(s, x)) = Header!Seen(s) \cup {x}
           /\ Body!Seen(Append(s, x)) = Body!Seen(s) \cup {x}
<1>1. /\ Append(s, x) \in Seq(S) /\ Len(Append(s, x)) = Len(s) + 1 /\ Len(s) \in Nat
      /\ DOMAIN s = 1..Len(s) /\ DOMAIN Append(s, x) = 1..Len(s) + 1
      /\ \A i \in 1..Len(s) : Append(s, x)[i] = s[i]
      /\ Append(s, x)[Len(s) + 1] = x
  OBVIOUS
<1>2. 1..Len(s) + 1 = 1..Len(s) \cup {Len(s) + 1}
  BY <1>1
<1>3. {Append(s, x)[i] : i \in 1..Len(s) + 1} = {s[i] : i \in 1..Len(s)} \cup {x}
  BY <1>1, <1>2
<1> QED
  BY <1>1, <1>3 DEF Header!Seen, Body!Seen

\* A stage that nothing has arrived at has seen nothing.
LEMMA SeenEmpty == Header!Seen(<<>>) = {} /\ Body!Seen(<<>>) = {}
BY DEF Header!Seen, Body!Seen

\* A task that arrives is not before one that is there.
LEMMA HeaderOrderStays ==
    ASSUME hArrived \in Seq(Tasks), NEW x \in Tasks, x \notin Header!Seen(hArrived),
           hArrived' = Append(hArrived, x), NEW t \in Header!Seen(hArrived), NEW u
    PROVE  Header!Before(u, t)' => Header!Before(u, t)
<1> SUFFICES ASSUME NEW i \in DOMAIN hArrived', NEW j \in DOMAIN hArrived',
                    i < j, hArrived'[i] = u, hArrived'[j] = t
             PROVE  Header!Before(u, t)
  BY DEF Header!Before
<1>1. /\ Len(hArrived) \in Nat /\ DOMAIN hArrived = 1..Len(hArrived)
      /\ DOMAIN hArrived' = 1..Len(hArrived) + 1
      /\ \A k \in 1..Len(hArrived) : hArrived'[k] = hArrived[k]
      /\ hArrived'[Len(hArrived) + 1] = x
  OBVIOUS
<1>2. x # t
  OBVIOUS
<1>3. i \in DOMAIN hArrived /\ j \in DOMAIN hArrived
  BY <1>1, <1>2
<1> QED
  BY <1>1, <1>3 DEF Header!Before

\* A task that arrives is behind all that are there, whose order stays.
LEMMA BodyOrderGrows ==
    ASSUME bArrived \in Seq(Tasks), NEW x \in Tasks, bArrived' = Append(bArrived, x),
           NEW t, NEW u
    PROVE  /\ Body!Before(u, t) => Body!Before(u, t)'
           /\ u \in Body!Seen(bArrived) => Body!Before(u, x)'
<1>1. /\ Len(bArrived) \in Nat /\ DOMAIN bArrived = 1..Len(bArrived)
      /\ DOMAIN bArrived' = 1..Len(bArrived) + 1
      /\ \A k \in 1..Len(bArrived) : bArrived'[k] = bArrived[k]
      /\ bArrived'[Len(bArrived) + 1] = x
  OBVIOUS
<1>2. ASSUME Body!Before(u, t) PROVE Body!Before(u, t)'
  <2>1. PICK i, j \in DOMAIN bArrived : i < j /\ bArrived[i] = u /\ bArrived[j] = t
    BY <1>2 DEF Body!Before
  <2>2. i \in DOMAIN bArrived' /\ j \in DOMAIN bArrived' /\ bArrived'[i] = u /\ bArrived'[j] = t
    BY <1>1, <2>1
  <2> QED
    BY <2>1, <2>2 DEF Body!Before
<1>3. ASSUME u \in Body!Seen(bArrived) PROVE Body!Before(u, x)'
  <2>1. PICK i \in DOMAIN bArrived : bArrived[i] = u
    BY <1>3 DEF Body!Seen
  <2>2. /\ i \in DOMAIN bArrived' /\ Len(bArrived) + 1 \in DOMAIN bArrived'
        /\ bArrived'[i] = u /\ i < Len(bArrived) + 1
    BY <1>1, <2>1
  <2> QED
    BY <1>1, <2>2 DEF Body!Before
<1> QED
  BY <1>2, <1>3

(***************************************************************************)
(* What the processors return                                              *)
(***************************************************************************)
LEMMA HeaderResult ==
    ASSUME StoresOK, NEW b \in Blocks
    PROVE  /\ ProcessHeader(b)[1] \in Statuses \cup Errors
           /\ ProcessHeader(b)[1] \in Errors \/ ProcessHeader(b)[2] # None
           /\ ProcessHeader(b)[1] = "MissingParents" => \E p \in Parents(b) : status[p] = None
<1>1. CASE status[b] = None
  <2>1. ProcessHeader(b) = ValidateHeader(b)
    BY <1>1 DEF ProcessHeader, None
  <2> QED
    BY <2>1 DEF ValidateHeader, Statuses, Errors, None
<1>2. CASE status[b] = "Invalid"
  <2>1. ProcessHeader(b) = <<"KnownInvalid", "Invalid">>
    BY <1>2 DEF ProcessHeader, None
  <2> QED
    BY <2>1 DEF Errors
<1>3. CASE status[b] # None /\ status[b] # "Invalid"
  <2>1. ProcessHeader(b) = <<status[b], status[b]>>
    BY <1>3 DEF ProcessHeader
  <2>2. status[b] \in Statuses
    BY <1>3 DEF StoresOK
  <2> QED
    BY <1>3, <2>1, <2>2 DEF Statuses
<1> QED
  BY <1>1, <1>2, <1>3

\* The body processor answers a status or an error, and an answer without an error leaves a body.
LEMMA BodyResult ==
    ASSUME StoresOK, NEW t \in Tasks, status[BlockOf[t]] # None
    PROVE  /\ ProcessBody(t)[1] \in Statuses \cup Errors
           /\ ProcessBody(t)[1] \in Errors \/ HasBody(ProcessBody(t)[2])
           /\ ProcessBody(t)[2] # None
           /\ ProcessBody(t)[1] = "MissingParents" =>
                \E p \in Parents(BlockOf[t]) : ~HasBody(status[p])
<1> DEFINE b == BlockOf[t]
<1>0. status[b] \in Statuses
  BY PipelineAssumption DEF StoresOK
<1>1. CASE status[b] = "HeaderOnly"
  <2>1. ProcessBody(t) = ValidateBody(t)
    BY <1>1 DEF ProcessBody
  <2>2. BodyError(t) \in {"BadMerkleRoot", "BodyRule", "MissingParents", "MissingTxOutpoints", None}
    BY DEF BodyError
  <2>3. BodyError(t) = "MissingParents" => BodylessParents(b) # {}
    BY DEF BodyError, None
  <2> QED
    BY <2>1, <2>2, <2>3 DEF ValidateBody, BodylessParents, HasBody, Statuses, Errors, None
<1>2. CASE status[b] = "Invalid"
  <2>1. ProcessBody(t) = <<"KnownInvalid", "Invalid">>
    BY <1>2 DEF ProcessBody
  <2> QED
    BY <2>1 DEF Errors, None
<1>3. CASE status[b] # "HeaderOnly" /\ status[b] # "Invalid"
  <2>1. ProcessBody(t) = <<status[b], status[b]>>
    BY <1>3 DEF ProcessBody
  <2> QED
    BY <1>0, <1>3, <2>1 DEF Statuses, HasBody, None
<1> QED
  BY <1>1, <1>2, <1>3

(***************************************************************************)
(* The stages                                                              *)
(***************************************************************************)
\* The steps that leave both stages, and what they computed, alone.
LEMMA OtherSteps ==
    ASSUME VirtualWorker \/ SignalExit \/ HeaderExits \/ BodyExits \/ UNCHANGED vars
    PROVE  UNCHANGED <<headerVars, bodyVars, result, blockAnswer>>
BY DEF VirtualWorker, CollectTasks, ReadTips, VerifyCandidate, TryCandidate, FilterParents, VerifyBlock,
       CommitVirtual, AnswerTasks, ReceiveExit, SignalExit, HeaderExits, BodyExits, vars,
       headerVars, bodyVars, answers

\* A step keeps the stages in agreement with the stores.
LEMMA StagesStep ==
    ASSUME StoresOK, SearchOK, StagesOK, [Next]_vars
    PROVE  StagesOK'
<1>1. \A b \in Blocks : /\ HasBody(status[b]) => HasBody(status'[b])
                        /\ status[b] # None => status'[b] # None
  BY StoresStep
<1>2. /\ \A t \in Tasks : BlockOf[t] \in Blocks
      /\ hStarted \subseteq Tasks /\ Body!Seen(bArrived) \subseteq Tasks /\ bStarted \subseteq Tasks
  <2>1. Header!Seen(hArrived) \subseteq Tasks /\ Body!Seen(bArrived) \subseteq Tasks
    BY DEF StagesOK, Header!Seen, Body!Seen
  <2> QED
    BY <2>1, PipelineAssumption DEF StagesOK
<1>3. CASE UNCHANGED <<headerVars, bodyVars, result>>
  BY <1>1, <1>2, <1>3 DEF StagesOK, headerVars, bodyVars, Header!Seen, Body!Seen
<1>4. ASSUME NEW t \in Tasks, Submit(t) PROVE StagesOK'
  <2>1. /\ hArrived' = Append(hArrived, t) /\ UNCHANGED <<hStarted, hEnded, bodyVars, result>>
    BY <1>4 DEF Submit, Header!Arrive
  <2>2. hArrived' \in Seq(Tasks) /\ Header!Seen(hArrived') = Header!Seen(hArrived) \cup {t}
    BY <2>1, SeenAppend DEF StagesOK
  <2>3. Body!Seen(bArrived') = Body!Seen(bArrived)
    BY <2>1 DEF bodyVars
  <2> QED
    BY <1>1, <1>2, <2>1, <2>2, <2>3 DEF StagesOK, bodyVars
<1>5. ASSUME NEW t \in Tasks, StartHeader(t) PROVE StagesOK'
  <2> DEFINE b == BlockOf[t]
  <2>1. /\ t \in Header!Seen(hArrived) /\ t \notin hStarted
        /\ hStarted' = hStarted \cup {t} /\ UNCHANGED <<hArrived, hEnded, bodyVars>>
        /\ result' = [result EXCEPT ![t] = ProcessHeader(b)[1]]
        /\ status' = [status EXCEPT ![b] = ProcessHeader(b)[2]]
    BY <1>5 DEF StartHeader, Header!Start
  <2>2. b \in Blocks /\ ProcessHeader(b)[1] \in Statuses \cup Errors
        /\ (ProcessHeader(b)[1] \in Errors \/ ProcessHeader(b)[2] # None)
    BY <1>2, HeaderResult
  <2>3. result'[t] \in Errors \/ status'[b] # None
    BY <2>1, <2>2 DEF StagesOK, StoresOK
  <2>4. t \notin bStarted /\ \A u \in Tasks : u # t => result'[u] = result[u]
    BY <2>1 DEF StagesOK
  <2>5. result' \in [Tasks -> Statuses \cup Errors \cup {None}]
    BY <2>1, <2>2 DEF StagesOK
  <2>6. Body!Seen(bArrived') = Body!Seen(bArrived) /\ Header!Seen(hArrived') = Header!Seen(hArrived)
    BY <2>1 DEF bodyVars
  <2>7. \A u \in hStarted' : result'[u] \in Errors \/ status'[BlockOf[u]] # None
    BY <1>1, <1>2, <2>1, <2>3, <2>4 DEF StagesOK
  <2>8. \A u \in bStarted : result'[u] \in Errors \/ HasBody(status'[BlockOf[u]])
    BY <1>1, <1>2, <2>4 DEF StagesOK
  <2> QED
    BY <1>1, <1>2, <2>1, <2>5, <2>6, <2>7, <2>8 DEF StagesOK, bodyVars
<1>6. ASSUME NEW t \in Tasks, EndHeader(t) PROVE StagesOK'
  <2>1. /\ t \in hStarted /\ hEnded' = hEnded \cup {t} /\ UNCHANGED <<hArrived, hStarted, result, status>>
    BY <1>6 DEF EndHeader, Header!Complete, stores
  <2>2. CASE UNCHANGED bodyVars
    BY <2>1, <2>2 DEF StagesOK, bodyVars, Header!Seen, Body!Seen
  <2>3. CASE result[t] \notin Errors /\ Body!Arrive(t)
    <3>1. bArrived' = Append(bArrived, t) /\ UNCHANGED <<bStarted, bEnded>>
      BY <2>3 DEF Body!Arrive
    <3>2. bArrived' \in Seq(Tasks) /\ Body!Seen(bArrived') = Body!Seen(bArrived) \cup {t}
      BY <3>1, SeenAppend DEF StagesOK
    <3>3. Header!Seen(hArrived') = Header!Seen(hArrived)
      BY <2>1
    <3>4. status[BlockOf[t]] # None
      BY <2>1, <2>3 DEF StagesOK
    <3> QED
      BY <2>1, <3>1, <3>2, <3>3, <3>4 DEF StagesOK
  <2> QED
    BY <1>6, <2>2, <2>3 DEF EndHeader
<1>7. ASSUME NEW t \in Tasks, StartBody(t) PROVE StagesOK'
  <2> DEFINE b == BlockOf[t]
  <2>1. /\ t \in Body!Seen(bArrived) /\ t \notin bStarted
        /\ bStarted' = bStarted \cup {t} /\ UNCHANGED <<bArrived, bEnded, headerVars>>
        /\ result' = [result EXCEPT ![t] = ProcessBody(t)[1]]
        /\ status' = [status EXCEPT ![b] = ProcessBody(t)[2]]
    BY <1>7 DEF StartBody, Body!Start
  <2>2. /\ b \in Blocks /\ ProcessBody(t)[1] \in Statuses \cup Errors
        /\ ProcessBody(t)[1] \in Errors \/ HasBody(ProcessBody(t)[2])
    BY <1>2, <2>1, BodyResult DEF StagesOK
  <2>3. result'[t] \in Errors \/ HasBody(status'[b])
    BY <2>1, <2>2 DEF StagesOK, StoresOK
  <2>4. \A u \in Tasks : u # t => result'[u] = result[u]
    BY <2>1 DEF StagesOK
  <2>5. result' \in [Tasks -> Statuses \cup Errors \cup {None}]
    BY <2>1, <2>2 DEF StagesOK
  <2>6. Body!Seen(bArrived') = Body!Seen(bArrived) /\ Header!Seen(hArrived') = Header!Seen(hArrived)
    BY <2>1 DEF headerVars
  <2>7. \A u \in hStarted : result'[u] \in Errors \/ status'[BlockOf[u]] # None
    BY <1>1, <1>2, <2>1, <2>4 DEF StagesOK
  <2>8. \A u \in bStarted' : result'[u] \in Errors \/ HasBody(status'[BlockOf[u]])
    BY <1>1, <1>2, <2>1, <2>3, <2>4 DEF StagesOK
  <2> QED
    BY <1>1, <1>2, <2>1, <2>5, <2>6, <2>7, <2>8 DEF StagesOK, headerVars
<1>8. ASSUME NEW t \in Tasks, EndBody(t) PROVE StagesOK'
  <2>1. /\ t \in bStarted /\ bEnded' = bEnded \cup {t}
        /\ UNCHANGED <<bArrived, bStarted, headerVars, result, status>>
    BY <1>8 DEF EndBody, Body!Complete, stores
  <2> QED
    BY <2>1 DEF StagesOK, headerVars, Header!Seen, Body!Seen
<1>9. CASE Crash
  BY <1>9, SeenEmpty DEF Crash, StagesOK
<1>10. CASE VirtualWorker \/ SignalExit \/ HeaderExits \/ BodyExits \/ UNCHANGED vars
  BY <1>3, <1>10, OtherSteps
<1> QED
  BY <1>4, <1>5, <1>6, <1>7, <1>8, <1>9, <1>10 DEF Next, Job

\* A step keeps the answers in agreement with the stores.
LEMMA AnswersStep ==
    ASSUME StoresOK, SearchOK, StagesOK, AnswersOK, [Next]_vars
    PROVE  AnswersOK'
<1>1. Kind' = Kind
  BY StoresStep DEF Kind
<1>2. CASE UNCHANGED <<headerVars, bodyVars, result, blockAnswer>>
  BY <1>1, <1>2 DEF AnswersOK, headerVars, bodyVars, Body!Seen
<1>3. ASSUME NEW t \in Tasks, Submit(t) PROVE AnswersOK'
  <2>1. UNCHANGED <<hStarted, hEnded, bodyVars, result, blockAnswer>>
    BY <1>3 DEF Submit, Header!Arrive, answers
  <2> QED
    BY <1>1, <2>1 DEF AnswersOK, bodyVars, Body!Seen
<1>4. ASSUME NEW t \in Tasks, StartHeader(t) PROVE AnswersOK'
  <2>1. /\ t \notin hStarted /\ hStarted' = hStarted \cup {t} /\ UNCHANGED <<hEnded, bodyVars, blockAnswer>>
        /\ result' = [result EXCEPT ![t] = ProcessHeader(BlockOf[t])[1]]
    BY <1>4 DEF StartHeader, Header!Start, answers
  <2>2. t \notin hEnded /\ t \notin bEnded /\ \A u \in Tasks : u # t => result'[u] = result[u]
    BY <2>1 DEF StagesOK
  <2>3. hEnded \subseteq Tasks /\ bEnded \subseteq Tasks
    BY DEF StagesOK, Header!Seen, Body!Seen
  <2>4. Body!Seen(bArrived') = Body!Seen(bArrived)
    BY <2>1 DEF bodyVars
  <2> QED
    BY <1>1, <2>1, <2>2, <2>3, <2>4 DEF AnswersOK, bodyVars
<1>5. ASSUME NEW t \in Tasks, EndHeader(t) PROVE AnswersOK'
  <2>1. /\ t \in hStarted /\ t \notin hEnded /\ hEnded' = hEnded \cup {t}
        /\ UNCHANGED <<hStarted, result>>
    BY <1>5 DEF EndHeader, Header!Complete
  <2>2. t \notin Body!Seen(bArrived) /\ t \notin bEnded /\ bEnded \subseteq Tasks /\ hEnded \subseteq Tasks
    BY <2>1 DEF StagesOK, Header!Seen
  <2>3. CASE /\ result[t] \in Errors \/ Kind[t] = "header"
             /\ blockAnswer' = [blockAnswer EXCEPT ![t] = result[t]]
             /\ UNCHANGED bodyVars
    <3>1. /\ blockAnswer'[t] = result[t] /\ \A u \in Tasks : u # t => blockAnswer'[u] = blockAnswer[u]
          /\ blockAnswer' \in [Tasks -> Statuses \cup Errors \cup {None}]
      BY <2>3 DEF AnswersOK, StagesOK
    <3>2. Body!Seen(bArrived') = Body!Seen(bArrived) /\ bEnded' = bEnded
      BY <2>3 DEF bodyVars
    <3> QED
      BY <1>1, <2>1, <2>2, <2>3, <3>1, <3>2 DEF AnswersOK
  <2>4. CASE Body!Arrive(t) /\ UNCHANGED answers
    <3>1. bArrived' = Append(bArrived, t) /\ bEnded' = bEnded /\ blockAnswer' = blockAnswer
      BY <2>4 DEF Body!Arrive, answers
    <3>2. Body!Seen(bArrived') = Body!Seen(bArrived) \cup {t}
      BY <3>1, SeenAppend DEF StagesOK
    <3> QED
      BY <1>1, <2>1, <2>2, <3>1, <3>2 DEF AnswersOK
  <2> QED
    BY <1>5, <2>3, <2>4 DEF EndHeader
<1>6. ASSUME NEW t \in Tasks, StartBody(t) PROVE AnswersOK'
  <2>1. /\ t \in Body!Seen(bArrived) /\ t \notin bStarted /\ UNCHANGED <<bArrived, bEnded, headerVars, blockAnswer>>
        /\ result' = [result EXCEPT ![t] = ProcessBody(t)[1]]
    BY <1>6 DEF StartBody, Body!Start, answers
  <2>2. t \in hStarted /\ t \notin bEnded /\ \A u \in Tasks : u # t => result'[u] = result[u]
    BY <2>1 DEF StagesOK
  <2>3. hEnded \subseteq Tasks /\ bEnded \subseteq Tasks
    BY DEF StagesOK, Header!Seen, Body!Seen
  <2>4. Body!Seen(bArrived') = Body!Seen(bArrived)
    BY <2>1
  <2> QED
    BY <1>1, <2>1, <2>2, <2>3, <2>4 DEF AnswersOK, headerVars
<1>7. ASSUME NEW t \in Tasks, EndBody(t) PROVE AnswersOK'
  <2>1. /\ t \in bStarted /\ t \notin bEnded /\ bEnded' = bEnded \cup {t}
        /\ blockAnswer' = [blockAnswer EXCEPT ![t] = result[t]]
        /\ UNCHANGED <<bArrived, headerVars, result>>
    BY <1>7 DEF EndBody, Body!Complete
  <2>2. t \in hEnded /\ t \in Body!Seen(bArrived) /\ bEnded \subseteq Tasks /\ hEnded \subseteq Tasks
    BY <2>1 DEF StagesOK, Header!Seen
  <2>3. /\ blockAnswer'[t] = result[t] /\ \A u \in Tasks : u # t => blockAnswer'[u] = blockAnswer[u]
        /\ blockAnswer' \in [Tasks -> Statuses \cup Errors \cup {None}]
    BY <2>1 DEF AnswersOK, StagesOK
  <2>4. Body!Seen(bArrived') = Body!Seen(bArrived)
    BY <2>1
  <2> QED
    BY <1>1, <2>1, <2>2, <2>3, <2>4 DEF AnswersOK, headerVars
<1>8. CASE Crash
  BY <1>8, SeenEmpty DEF Crash, AnswersOK
<1>9. CASE VirtualWorker \/ SignalExit \/ HeaderExits \/ BodyExits \/ UNCHANGED vars
  BY <1>2, <1>9, OtherSteps
<1> QED
  BY <1>3, <1>4, <1>5, <1>6, <1>7, <1>8, <1>9 DEF Next, Job

\* A step keeps the order of arrival: the ordered stages start no task before its parents ended.
LEMMA OrderStep ==
    ASSUME StoresOK, SearchOK, StagesOK, OrderOK, [Next]_vars
    PROVE  OrderOK'
<1>0. hStarted \subseteq Tasks /\ Body!Seen(bArrived) \subseteq hStarted /\ hStarted \subseteq Header!Seen(hArrived)
  BY DEF StagesOK, Header!Seen
<1>1. CASE UNCHANGED <<headerVars, bodyVars>>
  BY <1>1 DEF OrderOK, headerVars, bodyVars, Header!Precedes, Header!Before, Body!Before, Body!Seen
<1>2. ASSUME NEW t \in Tasks, Submit(t) PROVE OrderOK'
  <2>1. /\ hArrived' = Append(hArrived, t) /\ t \notin Header!Seen(hArrived)
        /\ UNCHANGED <<hStarted, hEnded, bodyVars>>
    BY <1>2 DEF Submit, Header!Arrive
  <2>2. ASSUME NEW x \in hStarted, NEW u, Header!Precedes(u, x)' PROVE Header!Precedes(u, x)
    <3>1. Header!Before(u, x)' => Header!Before(u, x)
      BY <1>0, <2>1, HeaderOrderStays DEF StagesOK
    <3> QED
      BY <2>2, <3>1 DEF Header!Precedes
  <2>3. /\ Body!Seen(bArrived') = Body!Seen(bArrived)
        /\ \A x, u : Body!Before(u, x)' <=> Body!Before(u, x)
    BY <2>1 DEF bodyVars, Body!Before
  <2> QED
    BY <1>0, <2>1, <2>2, <2>3 DEF OrderOK
<1>3. ASSUME NEW t \in Tasks, StartHeader(t) PROVE OrderOK'
  <2>1. /\ \A u \in Tasks : Header!Precedes(u, t) => u \in hEnded
        /\ hStarted' = hStarted \cup {t} /\ UNCHANGED <<hArrived, hEnded, bodyVars>>
    BY <1>3 DEF StartHeader, Header!Start
  <2>2. /\ Body!Seen(bArrived') = Body!Seen(bArrived)
        /\ \A x, u : Body!Before(u, x)' <=> Body!Before(u, x)
        /\ \A x, u : Header!Precedes(u, x)' <=> Header!Precedes(u, x)
    BY <2>1 DEF bodyVars, Body!Before, Header!Precedes, Header!Before
  <2> QED
    BY <2>1, <2>2 DEF OrderOK
<1>4. ASSUME NEW t \in Tasks, EndHeader(t) PROVE OrderOK'
  <2>1. /\ t \in hStarted /\ t \notin hEnded /\ hEnded' = hEnded \cup {t} /\ UNCHANGED <<hArrived, hStarted>>
    BY <1>4 DEF EndHeader, Header!Complete
  <2>2. \A x, u : Header!Precedes(u, x)' <=> Header!Precedes(u, x)
    BY <2>1 DEF Header!Precedes, Header!Before
  <2>3. CASE UNCHANGED bodyVars
    <3>1. /\ Body!Seen(bArrived') = Body!Seen(bArrived)
          /\ \A x, u : Body!Before(u, x)' <=> Body!Before(u, x)
      BY <2>3 DEF bodyVars, Body!Before
    <3> QED
      BY <2>1, <2>2, <3>1 DEF OrderOK
  <2>4. CASE Body!Arrive(t)
    <3>1. bArrived' = Append(bArrived, t)
      BY <2>4 DEF Body!Arrive
    <3>2. Body!Seen(bArrived') = Body!Seen(bArrived) \cup {t}
      BY <3>1, SeenAppend DEF StagesOK
    <3>3. ASSUME NEW x \in Body!Seen(bArrived'), NEW u \in Body!Seen(bArrived'), Header!Precedes(u, x)
          PROVE  Body!Before(u, x)'
      <4>1. u # t
        BY <1>0, <2>1, <3>2, <3>3 DEF OrderOK
      <4>2. u \in Body!Seen(bArrived)
        BY <3>2, <4>1
      <4>3. CASE x = t
        BY <3>1, <4>2, <4>3, BodyOrderGrows DEF StagesOK
      <4>4. CASE x # t
        <5>1. Body!Before(u, x)
          BY <3>2, <3>3, <4>2, <4>4 DEF OrderOK
        <5> QED
          BY <3>1, <5>1, BodyOrderGrows DEF StagesOK
      <4> QED
        BY <4>3, <4>4
    <3> QED
      BY <2>1, <2>2, <3>3 DEF OrderOK
  <2> QED
    BY <1>4, <2>3, <2>4 DEF EndHeader
<1>5. ASSUME NEW t \in Tasks, StartBody(t) \/ EndBody(t) PROVE OrderOK'
  <2>1. UNCHANGED <<headerVars, bArrived>>
    BY <1>5 DEF StartBody, EndBody, Body!Start, Body!Complete
  <2> QED
    BY <2>1 DEF OrderOK, headerVars, Header!Precedes, Header!Before, Body!Before, Body!Seen
<1>6. CASE Crash
  BY <1>6, SeenEmpty DEF Crash, OrderOK
<1>7. CASE VirtualWorker \/ SignalExit \/ HeaderExits \/ BodyExits \/ UNCHANGED vars
  BY <1>1, <1>7, OtherSteps
<1> QED
  BY <1>2, <1>3, <1>4, <1>5, <1>6, <1>7 DEF Next, Job

(***************************************************************************)
(* Parents that are sent first are found                                   *)
(***************************************************************************)
\* Short of a crash an answer is final, and so is what came before a task that has started.
LEMMA HistoryStays ==
    ASSUME StagesOK, AnswersOK, [Next]_vars, ~Crash
    PROVE  /\ \A u \in Tasks : blockAnswer[u] # None => blockAnswer'[u] = blockAnswer[u]
           /\ \A t \in hStarted : \A u : Header!Before(u, t)' => Header!Before(u, t)
<1>1. CASE UNCHANGED <<blockAnswer, hArrived>>
  BY <1>1 DEF Header!Before
<1>2. ASSUME NEW x \in Tasks, Submit(x)
      PROVE  blockAnswer' = blockAnswer /\ \A t \in hStarted : \A u : Header!Before(u, t)' => Header!Before(u, t)
  <2>1. /\ hArrived' = Append(hArrived, x) /\ x \notin Header!Seen(hArrived) /\ blockAnswer' = blockAnswer
    BY <1>2 DEF Submit, Header!Arrive, answers
  <2> QED
    BY <2>1, HeaderOrderStays DEF StagesOK
<1>3. ASSUME NEW x \in Tasks, EndHeader(x)
      PROVE  hArrived' = hArrived /\ \A u \in Tasks : blockAnswer[u] # None => blockAnswer'[u] = blockAnswer[u]
  <2>1. /\ x \notin hEnded /\ hArrived' = hArrived
        /\ blockAnswer' = blockAnswer \/ blockAnswer' = [blockAnswer EXCEPT ![x] = result[x]]
    BY <1>3 DEF EndHeader, Header!Complete, answers
  <2> QED
    BY <2>1 DEF AnswersOK
<1>4. ASSUME NEW x \in Tasks, EndBody(x)
      PROVE  hArrived' = hArrived /\ \A u \in Tasks : blockAnswer[u] # None => blockAnswer'[u] = blockAnswer[u]
  <2>1. /\ x \in bStarted /\ x \notin bEnded /\ hArrived' = hArrived
        /\ blockAnswer' = [blockAnswer EXCEPT ![x] = result[x]]
    BY <1>4 DEF EndBody, Body!Complete, headerVars
  <2> QED
    BY <2>1 DEF AnswersOK, StagesOK
<1>5. ASSUME NEW x \in Tasks, StartHeader(x) \/ StartBody(x) PROVE UNCHANGED <<blockAnswer, hArrived>>
  BY <1>5 DEF StartHeader, StartBody, Header!Start, answers, headerVars
<1>6. CASE VirtualWorker \/ SignalExit \/ HeaderExits \/ BodyExits \/ UNCHANGED vars
  BY <1>1, <1>6, OtherSteps DEF headerVars
<1>7. CASE \E x \in Tasks : EndHeader(x) \/ EndBody(x)
  BY <1>3, <1>4, <1>7 DEF Header!Before
<1> QED
  BY <1>1, <1>2, <1>5, <1>6, <1>7 DEF Next, Job

\* A header finds a parent missing only if that was refused.
LEMMA HeaderMisses ==
    ASSUME StoresOK, StagesOK, AnswersOK, NEW t \in Tasks, Header!Start(t),
           NEW p \in Parents(BlockOf[t]), status[p] = None,
           NEW u, BlockOf[u] = p, Header!Before(u, t)
    PROVE  blockAnswer[u] \in Errors
<1>1. u \in Tasks
  BY DEF StagesOK, Header!Before
<1>2. Header!Precedes(u, t)
  BY DEF Header!Precedes, Parents
<1>3. u \in hEnded
  BY <1>1, <1>2 DEF Header!Start
<1>4. u \notin Body!Seen(bArrived) /\ result[u] \in Errors
  BY <1>3 DEF StagesOK
<1> QED
  BY <1>3, <1>4 DEF AnswersOK

\* A body finds the body of a parent missing only if that was refused.
LEMMA BodyMisses ==
    ASSUME StoresOK, StagesOK, AnswersOK, OrderOK, NEW t \in Tasks, Body!Start(t),
           NEW p \in Parents(BlockOf[t]), ~HasBody(status[p]),
           NEW u, BlockOf[u] = p, Kind[u] = "block", Header!Before(u, t)
    PROVE  blockAnswer[u] \in Errors
<1>1. u \in Tasks
  BY DEF StagesOK, Header!Before
<1>2. Header!Precedes(u, t)
  BY DEF Header!Precedes, Parents
<1>3. t \in Body!Seen(bArrived) /\ t \in hStarted
  BY DEF Body!Start, StagesOK
<1>4. u \in hEnded
  BY <1>1, <1>2, <1>3 DEF OrderOK
<1>5. CASE u \notin Body!Seen(bArrived)
  BY <1>4, <1>5 DEF AnswersOK
<1>6. CASE u \in Body!Seen(bArrived)
  <2>1. Body!Precedes(u, t)
    BY <1>2, <1>3, <1>6 DEF OrderOK, Body!Precedes, Header!Precedes
  <2>2. u \in bEnded /\ u \in bStarted
    BY <1>1, <2>1 DEF Body!Start, StagesOK
  <2>3. result[u] \in Errors
    BY <2>2 DEF StagesOK
  <2> QED
    BY <2>2, <2>3 DEF AnswersOK
<1> QED
  BY <1>5, <1>6

\* A step answers that parents are missing only to a task with a parent that was not sent first.
LEMMA MissingStep ==
    ASSUME StoresOK, SearchOK, StagesOK, AnswersOK, OrderOK, MissingOK, [Next]_vars
    PROVE  MissingOK'
<1>1. Kind' = Kind
  BY StoresStep DEF Kind
<1>2. CASE Crash
  BY <1>2 DEF Crash, MissingOK, None
<1>3. CASE ~Crash
  <2> SUFFICES ASSUME NEW t \in Tasks, result'[t] = "MissingParents" PROVE ParentRefused(t)'
    BY DEF MissingOK
  <2>1. CASE result[t] = "MissingParents"
    <3>1. t \in hStarted
      BY <2>1 DEF AnswersOK, None
    <3>2. PICK p \in Parents(BlockOf[t]) :
            \A u \in DOMAIN Kind :
              BlockOf[u] = p /\ Kind[u] = "block" /\ Header!Before(u, t) => blockAnswer[u] \in Errors
      BY <2>1 DEF MissingOK, ParentRefused
    <3>3. \A u : Header!Before(u, t) => u \in Tasks
      BY DEF StagesOK, Header!Before
    <3>4. None \notin Errors
      BY DEF None, Errors
    <3>5. \A u \in DOMAIN Kind :
              BlockOf[u] = p /\ Kind[u] = "block" /\ Header!Before(u, t)' => blockAnswer'[u] \in Errors
      BY <1>3, <3>1, <3>2, <3>3, <3>4, HistoryStays
    <3> QED
      BY <1>1, <3>5 DEF ParentRefused
  <2>2. ASSUME result[t] # "MissingParents", StartHeader(t) PROVE ParentRefused(t)'
    <3>1. /\ Header!Start(t) /\ UNCHANGED <<hArrived, blockAnswer>>
          /\ result' = [result EXCEPT ![t] = ProcessHeader(BlockOf[t])[1]]
      BY <2>2 DEF StartHeader, Header!Start, answers
    <3>2. ProcessHeader(BlockOf[t])[1] = "MissingParents" /\ BlockOf[t] \in Blocks
      BY <3>1, PipelineAssumption DEF StagesOK
    <3>3. PICK p \in Parents(BlockOf[t]) : status[p] = None
      BY <3>2, HeaderResult
    <3>4. \A u : BlockOf[u] = p /\ Header!Before(u, t) => blockAnswer[u] \in Errors
      BY <3>1, <3>3, HeaderMisses
    <3>5. \A u : Header!Before(u, t)' <=> Header!Before(u, t)
      BY <3>1 DEF Header!Before
    <3> QED
      BY <3>1, <3>4, <3>5 DEF ParentRefused
  <2>3. ASSUME result[t] # "MissingParents", StartBody(t) PROVE ParentRefused(t)'
    <3>1. /\ Body!Start(t) /\ UNCHANGED <<hArrived, blockAnswer>>
          /\ result' = [result EXCEPT ![t] = ProcessBody(t)[1]]
      BY <2>3 DEF StartBody, answers, headerVars
    <3>2. ProcessBody(t)[1] = "MissingParents" /\ status[BlockOf[t]] # None
      BY <3>1 DEF StagesOK, Body!Start
    <3>3. PICK p \in Parents(BlockOf[t]) : ~HasBody(status[p])
      BY <3>2, BodyResult
    <3>4. \A u : BlockOf[u] = p /\ Kind[u] = "block" /\ Header!Before(u, t) => blockAnswer[u] \in Errors
      BY <3>1, <3>3, BodyMisses
    <3>5. \A u : Header!Before(u, t)' <=> Header!Before(u, t)
      BY <3>1 DEF Header!Before
    <3> QED
      BY <1>1, <3>1, <3>4, <3>5 DEF ParentRefused
  <2>4. ASSUME NEW x \in Tasks, StartHeader(x) \/ StartBody(x), x # t PROVE result'[t] = result[t]
    BY <2>4 DEF StartHeader, StartBody, StagesOK
  <2>5. ASSUME NEW x \in Tasks, Submit(x) \/ EndHeader(x) \/ EndBody(x) PROVE result' = result
    BY <2>5 DEF Submit, EndHeader, EndBody
  <2>6. CASE VirtualWorker \/ SignalExit \/ HeaderExits \/ BodyExits \/ UNCHANGED vars
    BY <2>1, <2>6, OtherSteps
  <2> QED
    BY <1>3, <2>1, <2>2, <2>3, <2>4, <2>5, <2>6 DEF Next, Job
<1> QED
  BY <1>2, <1>3

\* Before anything is sent there is nothing to answer.
LEMMA AnswersInit ==
    ASSUME Init
    PROVE  StagesOK /\ AnswersOK /\ OrderOK /\ MissingOK
<1>1. /\ hArrived = <<>> /\ hStarted = {} /\ hEnded = {}
      /\ bArrived = <<>> /\ bStarted = {} /\ bEnded = {}
      /\ result = [t \in Tasks |-> None] /\ blockAnswer = [t \in Tasks |-> None]
  BY DEF Init, Header!Init, Body!Init
<1> QED
  BY <1>1, SeenEmpty DEF StagesOK, AnswersOK, OrderOK, MissingOK, None

\* The stages, the answers and the order of arrival agree with the stores at every step of the
\* header, body and virtual processors.
THEOREM StagesAreConsistent == Spec => [](StagesOK /\ AnswersOK /\ OrderOK /\ MissingOK)
<1> DEFINE Inv == StagesOK /\ AnswersOK /\ OrderOK /\ MissingOK
<1>1. Init => Inv
  BY AnswersInit
<1>2. StoresOK /\ SearchOK /\ Inv /\ [Next]_vars => Inv'
  BY StagesStep, AnswersStep, OrderStep, MissingStep
<1> QED
  BY <1>1, <1>2, StoresAreConsistent, PTL DEF Spec

\* Who sends a block after its parents, each with its body, is told that parents are missing
\* only where every one of these was refused for some parent: the two stages and their threads
\* never make a block overtake its parents.
THEOREM ParentsSentFirstAlwaysFound == Spec => []ParentsSentFirstAreFound
<1>1. ASSUME StagesOK, AnswersOK, MissingOK PROVE ParentsSentFirstAreFound
  <2>1. \A t \in Tasks : blockAnswer[t] = "MissingParents" => result[t] = "MissingParents"
    BY <1>1 DEF AnswersOK, None
  <2> QED
    BY <1>1, <2>1 DEF MissingOK, ParentRefused, ParentsSentFirstAreFound
<1> QED
  BY <1>1, StagesAreConsistent, PTL

=============================================================================
