---------------------------- MODULE OrphanBlocks ----------------------------
(***************************************************************************)
(* The pool of blocks whose parents are missing, between the flows that    *)
(* relay blocks and the consensus that processes them.  The pool sits      *)
(* behind one lock, which is held across awaits: consensus goes on while a *)
(* call looks up one status after the other.                               *)
(*                                                                         *)
(* Blocks are numbers in the order of their blue work; 0 is genesis.  A    *)
(* header without its body counts as no block here, as it does there.      *)
(***************************************************************************)
EXTENDS Integers, SequencesExt

CONSTANT Worlds \* [parents: the DAG; invalid: blocks that break a rule; max: the limit of the pool;
                \*  arrivals: how often a block is relayed; ibd: the blocks that IBD brings]

VARIABLES
    world,
    status,  \* consensus: the status of each block
    sent,    \* consensus: tasks not yet processed, with the parents they wait for
    pool,    \* the orphans, and the children recorded for each
    flow,    \* what the flow that relays each block is doing
    left,    \* how often each block may still be relayed
    call,    \* the unorphan_blocks call that holds the lock
    ibd      \* the IBD flow and its revalidation

vars == <<world, status, sent, pool, flow, left, call, ibd>>

Blocks == DOMAIN world.parents
Parents(b) == world.parents[b]
None == -1

NoCall == [root |-> None, queue |-> <<>>, taken |-> {}, known |-> {}]
Idle == [pc |-> "idle", batch |-> {}]
Locked == call # NoCall \/ ibd.pc \in {"clean", "select", "roots"}

Init ==
    /\ world \in Worlds
    /\ status = [b \in Blocks |-> IF b = 0 THEN "body" ELSE "none"]
    /\ sent = <<>>
    /\ pool = <<>>
    /\ flow = [b \in Blocks |-> Idle]
    /\ left = [b \in Blocks |-> IF b = 0 THEN 0 ELSE world.arrivals]
    /\ call = NoCall
    /\ ibd = [pc |-> IF world.ibd = {} THEN "done" ELSE "sync", rest |-> {}, roots |-> {}]

----------------------------------------------------------------------------
(* Consensus.                                                              *)

\* Blocks are sent parents first; a task waits for the tasks of its parents that are there.
Send(S, released) ==
    [b \in S \cup DOMAIN sent |->
        IF b \in DOMAIN sent THEN sent[b]
        ELSE [waits |-> Parents(b) \cap (S \cup DOMAIN sent), released |-> released]]

\* The rules of the body itself come before the bodies of the parents; an invalid parent is
\* named by the header stage, and is a missing one to the body stage.
Verdicts(b) ==
    {v \in {"body", "invalid", "missing", "refused"} :
        IF status[b] # "none" THEN v = status[b]
        ELSE CASE v = "body" -> b \notin world.invalid /\ \A p \in Parents(b) : status[p] = "body"
               [] v = "invalid" -> b \in world.invalid
               [] v = "missing" -> \E p \in Parents(b) : status[p] # "body"
               [] v = "refused" -> \E p \in Parents(b) : status[p] = "invalid"}

Process(b) ==
    /\ b \in DOMAIN sent
    /\ sent[b].waits \cap DOMAIN sent = {}
    /\ sent' = [c \in DOMAIN sent \ {b} |-> sent[c]]
    /\ \E v \in Verdicts(b) :
          /\ status' = IF v \in {"body", "invalid"} THEN [status EXCEPT ![b] = v] ELSE status
          /\ flow' = IF flow[b].pc \notin {"wait", "submit"} THEN flow
                     ELSE [flow EXCEPT ![b].pc = CASE v = "body" -> "post"
                                                   [] v = "missing" /\ @ = "wait" -> "orphan"
                                                   [] OTHER -> "idle"]
    /\ UNCHANGED <<world, pool, left, call, ibd>>

----------------------------------------------------------------------------
(* The relay flow.                                                         *)

\* A block that is neither known nor an orphan is requested and sent to consensus.
Arrive(b) ==
    /\ flow[b].pc = "idle" /\ left[b] > 0
    /\ status[b] = "none" /\ ~ Locked /\ b \notin DOMAIN pool
    /\ left' = [left EXCEPT ![b] = @ - 1]
    /\ sent' = Send({b}, FALSE)
    /\ flow' = [flow EXCEPT ![b].pc = "wait"]
    /\ UNCHANGED <<world, status, pool, call, ibd>>

\* A block from RPC is never kept as an orphan.
Submit(b) ==
    /\ flow[b].pc = "idle" /\ left[b] > 0
    /\ left' = [left EXCEPT ![b] = @ - 1]
    /\ sent' = Send({b}, FALSE)
    /\ flow' = [flow EXCEPT ![b].pc = "submit"]
    /\ UNCHANGED <<world, status, pool, call, ibd>>

\* get_orphan_roots: the orphans in the past of b, along orphans only
OrphanAncestors(b) ==
    LET found[n \in 0 .. Cardinality(DOMAIN pool)] ==
            IF n = 0 THEN Parents(b) \cap DOMAIN pool
            ELSE found[n - 1] \cup (UNION {Parents(c) : c \in found[n - 1]} \cap DOMAIN pool)
    IN  found[Cardinality(DOMAIN pool)]

\* Mutant: only the parents of the block itself are looked up.
Roots_ParentsOnly(b) == {p \in Parents(b) \ DOMAIN pool : status[p] = "none"}

Roots(b) ==
    {p \in UNION {Parents(c) : c \in {b} \cup OrphanAncestors(b)} \ DOMAIN pool : status[p] = "none"}

Drop(p, S) == [b \in DOMAIN p \ S |-> p[b]]
ChildOrphans(b, p) == {c \in DOMAIN p : b \in Parents(c)}

\* Mutant: orphans that came before their parent are not recorded.
Insert_NoLookup(p, b) ==
    [c \in DOMAIN p \cup {b} |-> IF c = b THEN {} ELSE IF c \in Parents(b) THEN p[c] \cup {b} ELSE p[c]]

\* The block is recorded as a child of its parents; its own children are looked up.
Insert(p, b) ==
    [c \in DOMAIN p \cup {b} |-> IF c = b THEN ChildOrphans(b, p)
                                 ELSE IF c \in Parents(b) THEN p[c] \cup {b} ELSE p[c]]

\* A full pool evicts a random orphan, but no ancestor of the new one.
Added(b) ==
    IF b \in DOMAIN pool \/ Roots(b) = {} THEN {}
    ELSE IF Cardinality(DOMAIN pool) < world.max THEN {Insert(pool, b)}
    ELSE {Insert(Drop(pool, {x}), b) : x \in DOMAIN pool \ OrphanAncestors(b)}

\* process_orphan and add_orphan.  The pool stays as it is when the block is a known orphan,
\* out of range and left to IBD, or when the random choice hits ancestors only.  Without
\* missing roots the orphan ancestors are sent and the block is tried again.
AddOrphan(b) ==
    /\ flow[b].pc = "orphan" /\ ~ Locked
    /\ \/ /\ pool' \in {pool} \cup Added(b)
          /\ flow' = [flow EXCEPT ![b] = Idle]
          /\ UNCHANGED sent
       \/ /\ b \notin DOMAIN pool /\ Roots(b) = {}
          /\ pool' = Drop(pool, OrphanAncestors(b))
          /\ sent' = Send({b} \cup OrphanAncestors(b), TRUE)
          /\ flow' = [flow EXCEPT ![b] = [pc |-> "retry", batch |-> OrphanAncestors(b)]]
    /\ UNCHANGED <<world, status, left, call, ibd>>

\* An error of an ancestor or of the block ends the flow.
Retried(b) ==
    /\ flow[b].pc = "retry"
    /\ ({b} \cup flow[b].batch) \cap DOMAIN sent = {}
    /\ flow' = [flow EXCEPT ![b] = [Idle EXCEPT !.pc = IF \A c \in {b} \cup flow[b].batch : status[c] = "body"
                                                       THEN "post" ELSE "idle"]]
    /\ UNCHANGED <<world, status, sent, pool, left, call, ibd>>

----------------------------------------------------------------------------
(* Unorphaning.                                                            *)

Known == {b \in Blocks : status[b] # "none"}

\* The children come from the entry of the root, or from a search.
Children(b) == IF b \in DOMAIN pool THEN pool[b] ELSE ChildOrphans(b, pool)

\* A queue of S, in the order that a hash set yields.
Enqueue(q, S) == {q \o s : s \in SetToSeqs(S \ ToSet(q))}

Unorphan(root) ==
    /\ \E q \in Enqueue(<<>>, Children(root)) :
          call' = [root |-> root, queue |-> q, taken |-> {}, known |-> Known]
    /\ pool' = Drop(pool, {root})

\* on_new_block
PostProcess(b) ==
    /\ flow[b].pc = "post" /\ ~ Locked
    /\ Unorphan(b)
    /\ flow' = [flow EXCEPT ![b] = Idle]
    /\ UNCHANGED <<world, status, sent, left, ibd>>

Processable(b) == \A p \in Parents(b) : p \in call.taken \/ status[p] # "none"

\* An orphan whose parents are known, or taken by this call, goes to consensus, and its
\* children are looked at, again if need be.
Visit ==
    /\ call.queue # <<>>
    /\ LET b == Head(call.queue) IN
       IF b \in DOMAIN pool /\ Processable(b)
       THEN /\ \E q \in Enqueue(Tail(call.queue), pool[b]) :
                  call' = [call EXCEPT !.queue = q, !.taken = @ \cup {b}]
            /\ pool' = Drop(pool, {b})
            /\ sent' = Send({b}, TRUE)
       ELSE /\ call' = [call EXCEPT !.queue = Tail(@)]
            /\ UNCHANGED <<pool, sent>>
    /\ UNCHANGED <<world, status, flow, left, ibd>>

EndUnorphan ==
    /\ call # NoCall /\ call.queue = <<>>
    /\ call' = NoCall
    /\ UNCHANGED <<world, status, sent, pool, flow, left, ibd>>

----------------------------------------------------------------------------
(* IBD brings blocks without unorphaning, and revalidates the pool after.  *)

IbdInsert(b) ==
    /\ ibd.pc = "sync"
    /\ b \in world.ibd /\ status[b] = "none"
    /\ \A p \in Parents(b) : status[p] = "body"
    /\ status' = [status EXCEPT ![b] = "body"]
    /\ UNCHANGED <<world, sent, pool, flow, left, call, ibd>>

Revalidate ==
    /\ ibd.pc = "sync" /\ ~ Locked
    /\ \A b \in world.ibd : status[b] # "none"
    /\ ibd' = [ibd EXCEPT !.pc = "clean", !.rest = DOMAIN pool]
    /\ UNCHANGED <<world, status, sent, pool, flow, left, call>>

\* First, what consensus knows is removed.
Clean ==
    /\ ibd.pc = "clean"
    /\ \/ \E b \in ibd.rest :
             /\ ibd' = [ibd EXCEPT !.rest = @ \ {b}]
             /\ pool' = IF status[b] # "none" THEN Drop(pool, {b}) ELSE pool
       \/ /\ ibd.rest = {}
          /\ ibd' = [ibd EXCEPT !.pc = "select", !.rest = DOMAIN pool]
          /\ UNCHANGED pool
    /\ UNCHANGED <<world, status, sent, flow, left, call>>

\* Next, orphans all of whose parents are known to consensus.
Select ==
    /\ ibd.pc = "select"
    /\ \/ \E b \in ibd.rest :
             ibd' = [ibd EXCEPT !.rest = @ \ {b},
                                !.roots = IF \A p \in Parents(b) : p \notin DOMAIN pool /\ status[p] # "none"
                                          THEN @ \cup {b} ELSE @]
       \/ ibd.rest = {} /\ ibd' = [ibd EXCEPT !.pc = "roots"]
    /\ UNCHANGED <<world, status, sent, pool, flow, left, call>>

\* A root is sent, and its descendants are unorphaned without waiting for it.
NextRoot ==
    /\ ibd.pc = "roots" /\ call = NoCall
    /\ \/ \E b \in ibd.roots :
             /\ ibd' = [ibd EXCEPT !.roots = @ \ {b}]
             /\ sent' = Send({b}, TRUE)
             /\ Unorphan(b)
       \/ /\ ibd.roots = {}
          /\ ibd' = [ibd EXCEPT !.pc = "done"]
          /\ UNCHANGED <<sent, pool, call>>
    /\ UNCHANGED <<world, status, flow, left>>

----------------------------------------------------------------------------

Next ==
    \/ \E b \in Blocks :
          \/ Process(b) \/ Arrive(b) \/ Submit(b) \/ AddOrphan(b) \/ Retried(b)
          \/ PostProcess(b) \/ IbdInsert(b)
    \/ Visit \/ EndUnorphan
    \/ Revalidate \/ Clean \/ Select \/ NextRoot

Spec == Init /\ [][Next]_vars

----------------------------------------------------------------------------

Past(b) ==
    LET found[n \in 0 .. Cardinality(Blocks)] ==
            IF n = 0 THEN {b} ELSE found[n - 1] \cup UNION {Parents(c) : c \in found[n - 1]}
    IN  found[Cardinality(Blocks)]

\* A block that the pool releases, in a batch, from the queue or as a root, is never told
\* that parents are missing, unless one was refused: tasks are sent in topological order
\* although statuses are read while consensus goes on.
ReleasedFindTheirParents ==
    [][\A b \in DOMAIN sent \ DOMAIN sent' :
          sent[b].released /\ "missing" \in Verdicts(b) => (Past(b) \ {b}) \cap world.invalid # {}]_vars

\* unorphan_blocks leaves no orphan behind that it could release: one with a parent among
\* the root and the released blocks has another that was not known when the call began.
UnorphanIsComplete ==
    [][EndUnorphan =>
          \A b \in DOMAIN pool :
              Parents(b) \cap (call.taken \cup {call.root}) # {} =>
                  ~ Parents(b) \subseteq call.taken \cup call.known]_vars

\* Orphans are "all unorphaned when IBD completes (see revalidate_orphans)": with all flows
\* at rest, none has all its parents in consensus.
NoOrphanIsForgotten ==
    sent = <<>> /\ ~ Locked /\ ibd.pc = "done" /\ (\A b \in Blocks : flow[b].pc = "idle") =>
        \A b \in DOMAIN pool : \E p \in Parents(b) : status[p] = "none"
=============================================================================
