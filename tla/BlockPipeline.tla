--------------------------- MODULE BlockPipeline ---------------------------
(***************************************************************************)
(* The block pipeline: header processor, body processor and virtual        *)
(* processor, connected by FIFO channels, over the stores they share.      *)
(*                                                                         *)
(* The header and the body processor are two copies of OrderedStage, which *)
(* ProcessorStage implements.  A task that the header stage forwards       *)
(* arrives at the body stage in the same step: the body worker registers   *)
(* tasks in the order of the channel, so that a task which waits on the    *)
(* channel cannot be told from one whose job starts late.                  *)
(*                                                                         *)
(* The content of a block is reduced to verdicts: what its header checks,  *)
(* its body checks and its Cell-state verification come to.  What stays is *)
(* what the pipeline makes of them: which status is stored, which tips are *)
(* kept, who gets which answer, and in which order.  The finality point is *)
(* the genesis; trusted blocks (pruning-proof import) are left out.        *)
(***************************************************************************)
EXTENDS Naturals, Sequences, FiniteSets

CONSTANTS Blocks, Genesis, Tasks,
          BlockOf,        \* the block a task carries
          ParentsOf,      \* direct parents
          Work,           \* blue work
          Worlds,         \* the blocks and tasks there can be: see world
          Exit,
          MaxCrashes      \* bound on the number of crashes

\* A DAG of finitely many blocks; blue work grows along its edges and has no ties.
ASSUME PipelineAssumption ==
    /\ IsFiniteSet(Blocks) /\ Genesis \in Blocks /\ ParentsOf[Genesis] = <<>>
    /\ Exit \notin Tasks /\ \A t \in Tasks : BlockOf[t] \in Blocks
    /\ \A b \in Blocks : ParentsOf[b] \in Seq(Blocks) /\ Work[b] \in Nat
    /\ \A b \in Blocks \ {Genesis} :
          /\ ParentsOf[b] # <<>>
          /\ \A i \in DOMAIN ParentsOf[b] : Work[ParentsOf[b][i]] < Work[b]
    /\ \A b, c \in Blocks : Work[b] = Work[c] => b = c

VARIABLES status, tips, sink,                 \* the stores
          hArrived, hStarted, hEnded,         \* header stage
          bArrived, bStarted, bEnded,         \* body stage
          result,                             \* what process_header / process_body returned
          blockAnswer, virtualAnswer,         \* the two transmitters of a task
          vqueue, vphase, vbatch, heap,       \* virtual processor
          exit, crashes,
          world                               \* what the blocks and the tasks are

\* "block", "header" (no body) or "bad_merkle" (other transactions), for every
\* task that is sent.
Kind == world.kind

\* "ok" or the check that fails: "isolation", "pre_pow" or "post_pow" of a header,
\* "isolation" or "context" of a body, and verify_expected_cell_state.
HeaderVerdict == world.header
BodyVerdict == world.body
CellVerdict == world.cell

\* A transaction spends a cell that no block of the mergeset created.
SpendsChainCell == world.spends

\* The node may be asked to shut down.
MayExit == world.exits

stores == <<status, tips, sink>>
headerVars == <<hArrived, hStarted, hEnded>>
bodyVars == <<bArrived, bStarted, bEnded>>
answers == <<blockAnswer, virtualAnswer>>
virtualVars == <<vqueue, vphase, vbatch, heap>>
vars == <<stores, headerVars, bodyVars, result, answers, virtualVars, exit, crashes, world>>

Header == INSTANCE OrderedStage WITH arrived <- hArrived, started <- hStarted, ended <- hEnded
Body == INSTANCE OrderedStage WITH arrived <- bArrived, started <- bStarted, ended <- bEnded

Statuses == {"HeaderOnly", "Invalid", "Pending", "Valid", "Disqualified"}
Errors == {"KnownInvalid", "MissingParents", "InvalidParent", "HeaderRule",
           "BadMerkleRoot", "BodyRule", "MissingTxOutpoints"}
None == "none"

HasBody(s) == s \in {"Pending", "Valid", "Disqualified"}

Parents(b) == {ParentsOf[b][i] : i \in DOMAIN ParentsOf[b]}

\* GHOSTDAG: the selected parent is the parent of highest blue work.
SelectedParent(b) == CHOOSE p \in Parents(b) : \A q \in Parents(b) : Work[q] <= Work[p]

\* The selected chain of a block, with the block; and its past, without.
Chain[b \in Blocks] == {b} \cup IF b = Genesis THEN {} ELSE Chain[SelectedParent(b)]
Past[b \in Blocks] == Parents(b) \cup UNION {Past[p] : p \in Parents(b)}

\* The top of a heap of SortableBlocks.
Heaviest(S) == CHOOSE b \in S : \A c \in S : Work[c] <= Work[b]
Lightest(S) == CHOOSE b \in S : \A c \in S : Work[b] <= Work[c]

Init ==
    /\ status = [b \in Blocks |-> IF b = Genesis THEN "Valid" ELSE None]
    /\ tips = {Genesis} /\ sink = Genesis
    /\ Header!Init /\ Body!Init
    /\ result = [t \in Tasks |-> None]
    /\ blockAnswer = [t \in Tasks |-> None]
    /\ virtualAnswer = [t \in Tasks |-> None]
    /\ vqueue = <<>> /\ vphase = "receive" /\ vbatch = <<>> /\ heap = {}
    /\ exit = "running" /\ crashes = 0
    /\ world \in Worlds

-----------------------------------------------------------------------------
(***************************************************************************)
(* Header processor.                                                       *)
(***************************************************************************)

\* validate_and_insert_block.  What is sent after Exit stays on the channel.
Submit(t) ==
    /\ exit = "running" /\ t \in DOMAIN Kind
    /\ Header!Arrive(t)
    /\ UNCHANGED <<stores, bodyVars, result, answers, virtualVars, exit, crashes, world>>

\* validate_header and commit_header, for a header that is not known: the
\* result, and the status that is stored.
ValidateHeader(b) ==
    LET parents == {status[p] : p \in Parents(b)} IN
    IF HeaderVerdict[b] = "isolation" THEN <<"HeaderRule", None>>
    ELSE IF "Invalid" \in parents THEN <<"InvalidParent", None>>
    ELSE IF None \in parents THEN <<"MissingParents", None>>
    ELSE IF HeaderVerdict[b] = "pre_pow" THEN <<"HeaderRule", None>>
    ELSE IF HeaderVerdict[b] = "post_pow" THEN <<"HeaderRule", "Invalid">>
    ELSE <<"HeaderOnly", "HeaderOnly">>

\* process_header.
ProcessHeader(b) ==
    CASE status[b] = "Invalid" -> <<"KnownInvalid", "Invalid">>
      [] status[b] = None -> ValidateHeader(b)
      [] OTHER -> <<status[b], status[b]>>

StartHeader(t) ==
    LET b == BlockOf[t] IN
    /\ Header!Start(t)
    /\ result' = [result EXCEPT ![t] = ProcessHeader(b)[1]]
    /\ status' = [status EXCEPT ![b] = ProcessHeader(b)[2]]
    /\ UNCHANGED <<tips, sink, bodyVars, answers, virtualVars, exit, crashes, world>>

\* Mutant of EndHeader: a failed header answers the block result only.
EndHeader_OneAnswer(t) ==
    /\ Header!Complete(t)
    /\ IF result[t] \in Errors \/ Kind[t] = "header"
       THEN blockAnswer' = [blockAnswer EXCEPT ![t] = result[t]] /\ UNCHANGED bodyVars
       ELSE Body!Arrive(t) /\ UNCHANGED blockAnswer
    /\ UNCHANGED <<stores, result, virtualAnswer, virtualVars, exit, crashes, world>>

\* The callback of end: answer both transmitters, or forward to the bodies.
EndHeader(t) ==
    /\ Header!Complete(t)
    /\ IF result[t] \in Errors \/ Kind[t] = "header"
       THEN /\ blockAnswer' = [blockAnswer EXCEPT ![t] = result[t]]
            /\ virtualAnswer' = [virtualAnswer EXCEPT ![t] = result[t]]
            /\ UNCHANGED bodyVars
       ELSE Body!Arrive(t) /\ UNCHANGED answers
    /\ UNCHANGED <<stores, result, virtualVars, exit, crashes, world>>

-----------------------------------------------------------------------------
(***************************************************************************)
(* Body processor.                                                         *)
(***************************************************************************)

\* check_block_transactions_in_context looks cells up along the selected chain,
\* from the selected parent down, in the diffs that the virtual processor
\* stores together with status Valid.  A selected parent that is still pending
\* has no diff yet; a disqualified one never gets one.
ChainCellsReadable(b) == SpendsChainCell[b] => status[SelectedParent(b)] = "Valid"

\* Mutant of BodylessParents: bodies of parents are not required.
BodylessParents_Ignored(b) == {}

\* check_parent_bodies_exist.
BodylessParents(b) == {p \in Parents(b) : ~HasBody(status[p])}

\* validate_body: the first check that fails, in isolation and then in context.
BodyError(t) ==
    LET b == BlockOf[t] IN
    IF Kind[t] = "bad_merkle" THEN "BadMerkleRoot"
    ELSE IF BodyVerdict[b] = "isolation" THEN "BodyRule"
    ELSE IF BodylessParents(b) # {} THEN "MissingParents"
    ELSE IF BodyVerdict[b] = "context" THEN "BodyRule"
    ELSE IF ~ChainCellsReadable(b) THEN "MissingTxOutpoints"
    ELSE None

\* Mutant of RejectsBodyOnly: a wrong Merkle root condemns the block.
RejectsBodyOnly_MissingParents == {"MissingParents"}

\* The errors that reject a body without marking its block invalid.
RejectsBodyOnly == {"BadMerkleRoot", "MissingParents"}

\* validate_body and commit_body, for a block whose header is known: the result
\* and the status that is stored.
ValidateBody(t) ==
    LET error == BodyError(t) IN
    IF error = None THEN <<"Pending", "Pending">>
    ELSE <<error, IF error \in RejectsBodyOnly THEN "HeaderOnly" ELSE "Invalid">>

\* process_body.
ProcessBody(t) ==
    CASE status[BlockOf[t]] = "Invalid" -> <<"KnownInvalid", "Invalid">>
      [] status[BlockOf[t]] = "HeaderOnly" -> ValidateBody(t)
      [] OTHER -> <<status[BlockOf[t]], status[BlockOf[t]]>>

\* add_tip_batch: the new tip's parents are no longer tips.
AddTip(b) == (tips \ Parents(b)) \cup {b}

StartBody(t) ==
    LET b == BlockOf[t] IN
    /\ Body!Start(t)
    /\ result' = [result EXCEPT ![t] = ProcessBody(t)[1]]
    /\ status' = [status EXCEPT ![b] = ProcessBody(t)[2]]
    /\ tips' = IF status[b] = "HeaderOnly" /\ status'[b] = "Pending" THEN AddTip(b) ELSE tips
    /\ UNCHANGED <<sink, headerVars, answers, virtualVars, exit, crashes, world>>

\* The callback of end: the block result is known; the task goes on to the
\* virtual processor unless it failed.
EndBody(t) ==
    /\ Body!Complete(t)
    /\ blockAnswer' = [blockAnswer EXCEPT ![t] = result[t]]
    /\ IF result[t] \in Errors
       THEN virtualAnswer' = [virtualAnswer EXCEPT ![t] = result[t]] /\ UNCHANGED vqueue
       ELSE vqueue' = Append(vqueue, t) /\ UNCHANGED virtualAnswer
    /\ UNCHANGED <<stores, headerVars, result, vphase, vbatch, heap, exit, crashes, world>>

-----------------------------------------------------------------------------
(***************************************************************************)
(* Virtual processor.                                                      *)
(***************************************************************************)

\* The worker takes a task and all that is on the channel with it.
CollectTasks ==
    /\ vphase = "receive" /\ vqueue # <<>> /\ Head(vqueue) # Exit
    /\ vbatch' = vqueue /\ vqueue' = <<>>
    /\ vphase' = "collected"
    /\ UNCHANGED <<stores, headerVars, bodyVars, result, answers, heap, exit, crashes, world>>

\* resolve_virtual reads the body tips.
ReadTips ==
    /\ vphase = "collected"
    /\ heap' = tips
    /\ vphase' = "search"
    /\ UNCHANGED <<stores, headerVars, bodyVars, result, answers, vqueue, vbatch, exit, crashes, world>>

\* The blocks of the chain of a candidate whose state was never calculated.
Unverified(c) == {b \in Chain[c] : status[b] = "Pending"}

\* Mutant of CellStatus: a block is verified without regard to its chain.
CellStatus_OwnStateOnly(b) == IF CellVerdict[b] = "ok" THEN "Valid" ELSE "Disqualified"

\* What becomes of the next block of a chain: a block above a disqualified one is
\* disqualified with it.
CellStatus(b) ==
    IF status[SelectedParent(b)] = "Valid" /\ CellVerdict[b] = "ok" THEN "Valid" ELSE "Disqualified"

\* One block of calculate_cell_state_relatively towards the heaviest of the
\* candidates that has blocks to verify: from the split point up, one commit each.
VerifyBlock(candidates) ==
    LET open == {c \in candidates : status[c] # "Disqualified" /\ Unverified(c) # {}}
        b == Lightest(Unverified(Heaviest(open)))
    IN  /\ open # {}
        /\ status' = [status EXCEPT ![b] = CellStatus(b)]
        /\ UNCHANGED <<tips, sink, headerVars, bodyVars, result, answers, virtualVars, exit, crashes, world>>

\* Mutant of PushParents: only the selected parent is searched.
PushParents_SelectedOnly(candidate) == (heap \ {candidate}) \cup {SelectedParent(candidate)}

\* sink_search_algorithm, when a candidate fails: its parents become candidates
\* unless they are in the past of another one.
PushParents(candidate) ==
    LET rest == heap \ {candidate} IN
    rest \cup {p \in Parents(candidate) : \A c \in rest : p # c /\ p \notin Past[c]}

\* sink_search_algorithm verifies the chain of its heaviest candidate.
VerifyCandidate == vphase = "search" /\ VerifyBlock({Heaviest(heap)})

\* Its state is known: it becomes the sink, or its parents are searched.
TryCandidate ==
    /\ vphase = "search"
    /\ LET candidate == Heaviest(heap) IN
       CASE status[candidate] = "Valid" -> vphase' = "found" /\ UNCHANGED heap
         [] status[candidate] = "Disqualified" -> heap' = PushParents(candidate) /\ UNCHANGED vphase
         [] OTHER -> FALSE
    /\ UNCHANGED <<stores, headerVars, bodyVars, result, answers, vqueue, vbatch, exit, crashes, world>>

\* filter_virtual_parent_candidates verifies the candidates that are left.
FilterParents == vphase = "found" /\ VerifyBlock(heap \ {Heaviest(heap)})

\* commit_virtual_state moves virtual onto the new sink.
CommitVirtual ==
    /\ vphase = "found"
    /\ \A c \in heap : status[c] # "Disqualified" => Unverified(c) = {}
    /\ sink' = Heaviest(heap)
    /\ heap' = {} /\ vphase' = "answer"
    /\ UNCHANGED <<status, tips, headerVars, bodyVars, result, answers, vqueue, vbatch, exit, crashes, world>>

\* Mutant of AnswerTasks: Exit is forgotten when it comes with other messages.
AnswerTasks_ForgetsExit ==
    /\ vphase = "answer"
    /\ LET done == Header!Seen(vbatch) \ {Exit} IN
       virtualAnswer' = [t \in Tasks |-> IF t \in done THEN status[BlockOf[t]] ELSE virtualAnswer[t]]
    /\ vphase' = "receive"
    /\ vbatch' = <<>>
    /\ UNCHANGED <<stores, headerVars, bodyVars, result, blockAnswer, vqueue, heap, exit, crashes, world>>

\* The worker answers the tasks it collected with their statuses, and stops if
\* Exit was among the messages.
AnswerTasks ==
    /\ vphase = "answer"
    /\ LET done == Header!Seen(vbatch) \ {Exit} IN
       virtualAnswer' = [t \in Tasks |-> IF t \in done THEN status[BlockOf[t]] ELSE virtualAnswer[t]]
    /\ vphase' = IF Exit \in Header!Seen(vbatch) THEN "stopped" ELSE "receive"
    /\ vbatch' = <<>>
    /\ UNCHANGED <<stores, headerVars, bodyVars, result, blockAnswer, vqueue, heap, exit, crashes, world>>

ReceiveExit ==
    /\ vphase = "receive" /\ vqueue # <<>> /\ Head(vqueue) = Exit
    /\ vqueue' = Tail(vqueue) /\ vphase' = "stopped"
    /\ UNCHANGED <<stores, headerVars, bodyVars, result, answers, vbatch, heap, exit, crashes, world>>

-----------------------------------------------------------------------------
(***************************************************************************)
(* Shutdown, crash and restart.                                            *)
(***************************************************************************)

\* signal_exit; then each stage passes Exit on once it is idle.
SignalExit ==
    /\ MayExit
    /\ exit = "running" /\ exit' = "header"
    /\ UNCHANGED <<stores, headerVars, bodyVars, result, answers, virtualVars, crashes, world>>

HeaderExits ==
    /\ exit = "header" /\ exit' = "body"
    /\ Header!Seen(hArrived) = hEnded
    /\ UNCHANGED <<stores, headerVars, bodyVars, result, answers, virtualVars, crashes, world>>

BodyExits ==
    /\ exit = "body" /\ exit' = "virtual"
    /\ Body!Seen(bArrived) = bEnded
    /\ vqueue' = Append(vqueue, Exit)
    /\ UNCHANGED <<stores, headerVars, bodyVars, result, answers, vphase, vbatch, heap, crashes, world>>

\* A crash loses the channels, the jobs and the answers.  Each commit is one
\* batch of the database, so the stores are as the last commit left them; a
\* restarted node resolves virtual again when the next block arrives.
Crash ==
    /\ crashes < MaxCrashes /\ crashes' = crashes + 1
    /\ hArrived' = <<>> /\ hStarted' = {} /\ hEnded' = {}
    /\ bArrived' = <<>> /\ bStarted' = {} /\ bEnded' = {}
    /\ result' = [t \in Tasks |-> None]
    /\ blockAnswer' = [t \in Tasks |-> None]
    /\ virtualAnswer' = [t \in Tasks |-> None]
    /\ vqueue' = <<>> /\ vphase' = "receive" /\ vbatch' = <<>> /\ heap' = {}
    /\ exit' = "running"
    /\ UNCHANGED <<stores, world>>

\* The jobs of a task in the two pools, one after the other.
Job(t) == StartHeader(t) \/ EndHeader(t) \/ StartBody(t) \/ EndBody(t)

VirtualWorker ==
    \/ CollectTasks \/ ReadTips \/ VerifyCandidate \/ TryCandidate \/ FilterParents
    \/ CommitVirtual \/ AnswerTasks \/ ReceiveExit

Next ==
    \/ \E t \in Tasks : Submit(t) \/ Job(t)
    \/ VirtualWorker
    \/ SignalExit \/ HeaderExits \/ BodyExits
    \/ Crash

\* Every job of the pools runs and every worker loop goes on; nothing makes a
\* caller submit, the node shut down, or crash.
Fairness ==
    /\ \A t \in Tasks : WF_vars(Job(t))
    /\ WF_vars(VirtualWorker)
    /\ WF_vars(HeaderExits) /\ WF_vars(BodyExits)

Spec == Init /\ [][Next]_vars /\ Fairness

-----------------------------------------------------------------------------
(***************************************************************************)
(* Properties.                                                             *)
(***************************************************************************)
\* Stores, answers and the heap of the search hold statuses, results and blocks.
TypeOK ==
    /\ status \in [Blocks -> Statuses \cup {None}]
    /\ tips \subseteq Blocks /\ sink \in Blocks
    /\ result \in [Tasks -> Statuses \cup Errors \cup {None}]
    /\ blockAnswer \in [Tasks -> Statuses \cup Errors \cup {None}]
    /\ virtualAnswer \in [Tasks -> Statuses \cup Errors \cup {None}]
    /\ vphase \in {"receive", "collected", "search", "found", "answer", "stopped"}
    /\ heap \subseteq Blocks
    /\ exit \in {"running", "header", "body", "virtual"}

\* The body of a block is stored only after the bodies of all its parents, and
\* the body tips are exactly the blocks with a body none of whose children has
\* one, although bodies are committed by the threads of a pool.
BodiesAreClosedUnderParents ==
    /\ \A b \in Blocks : HasBody(status[b]) => \A p \in Parents(b) : HasBody(status[p])
    /\ tips = {b \in Blocks : HasBody(status[b]) /\
                   \A c \in Blocks : b \in Parents(c) => ~HasBody(status[c])}

\* Who sends a block after its parents, each with its body, is never told that
\* parents are missing, unless a parent was itself refused: two stages of
\* unordered threads behave like one ordered one.
ParentsSentFirstAreFound ==
    \A t \in Tasks :
        blockAnswer[t] = "MissingParents" =>
            \E p \in Parents(BlockOf[t]) :
                \A u \in DOMAIN Kind :
                    BlockOf[u] = p /\ Kind[u] = "block" /\ Header!Before(u, t)
                        => blockAnswer[u] \in Errors

\* A block is marked invalid only by what it is, never by when it was sent or
\* what was sent along with it.
BlockIsInvalid(b) == HeaderVerdict[b] = "post_pow" \/ BodyVerdict[b] # "ok"

\* A block whose stored status is StatusInvalid breaks a rule: the status cannot
\* come from a wrong body of another sender, from missing parents, or from the
\* progress of the other processors ("StatusInvalid indicates that the block is
\* invalid", blockstatus.rs).
InvalidMeansInvalid == \A b \in Blocks : status[b] = "Invalid" => BlockIsInvalid(b)

\* The blocks that could be the sink: they and all of their chain are good.
Qualified == {b \in Blocks : HasBody(status[b]) /\ \A c \in Chain[b] : CellVerdict[c] = "ok"}

\* When the virtual result of a task is known, virtual has seen the block and
\* its past: none of them that could be the sink is heavier than the sink.  Tips
\* are read after the tasks are collected, bodies are stored before a task is
\* forwarded, and a candidate that fails is replaced by all of its parents.
SeenByVirtual ==
    \A t \in Tasks :
        virtualAnswer[t] \in Statuses /\ Kind[t] # "header" =>
            \A b \in (Past[BlockOf[t]] \cup {BlockOf[t]}) \cap Qualified : Work[b] <= Work[sink]

\* The chain of the sink is valid from end to end, also after a crash between
\* the commits of its blocks and of virtual.
SinkChainIsValid == \A b \in Chain[sink] : status[b] = "Valid"

\* Every task gets both of its answers, unless the node crashes.
EveryTaskAnswered ==
    \A t \in Tasks :
        (t \in Header!Seen(hArrived)) ~>
            ((blockAnswer[t] # None /\ virtualAnswer[t] # None) \/ hArrived = <<>>)

\* Shutdown ends: the virtual worker stops, and no answer is outstanding then.
ShutdownCompletes ==
    (exit = "header") ~>
        \/ exit = "running"
        \/ vphase = "stopped" /\ \A t \in Header!Seen(hArrived) : virtualAnswer[t] # None
=============================================================================
