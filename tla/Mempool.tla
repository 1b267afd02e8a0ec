------------------------------ MODULE Mempool ------------------------------
(***************************************************************************)
(* The mempool of the mining manager.  Threads submit transactions, report *)
(* the transactions of new blocks, scan for expired and stale ones and ask *)
(* for block templates.  The pool sits behind one read-write lock, which a *)
(* call gives away while consensus validates: an action is what happens    *)
(* under one hold of the lock, or one validation without it.               *)
(***************************************************************************)
EXTENDS Integers, SequencesExt

CONSTANTS
    Threads, \* threads that call the mining manager
    Worlds   \* the transactions that exist, the limits, and how much may happen

VARIABLES
    world,   \* one of Worlds
    utxo,    \* consensus: the unspent outpoints of the virtual state
    version, \* consensus: the approximate id of the virtual state
    blocks,  \* transactions of blocks that consensus has and the mempool was not told of
    left,    \* what the environment may still do
    pool,    \* the struct Mempool behind the lock
    cache,   \* the virtual state of the template in BlockTemplateCache, or None
    owner,   \* the thread that holds the lock of the cache
    thread   \* what each thread is doing

vars == <<world, utxo, version, blocks, left, pool, cache, owner, thread>>

None == 0
Txs == DOMAIN world.txs
Spends(t) == world.txs[t].spends
Creates(t) == world.txs[t].creates
Rate(t) == world.txs[t].rate
High(t) == world.txs[t].high

Idle == [pc |-> "idle", jobs |-> <<>>, txs |-> {}, asked |-> 0, tries |-> 0,
         got |-> [version |-> 0, asked |-> 0]]

Init ==
    /\ world \in Worlds
    /\ utxo = world.coins
    /\ version = 1
    /\ blocks = {}
    /\ left = [submits |-> [t \in Txs |-> world.submits], mines |-> world.mines,
               scans |-> world.scans, templates |-> world.templates]
    /\ pool = [txs |-> {}, links |-> {}, ready |-> {}, spent |-> <<>>, mirror |-> {},
               orphans |-> <<>>, accepted |-> {},
               twin |-> FALSE, late |-> FALSE, panic |-> FALSE]
    /\ cache = None
    /\ owner = None
    /\ thread = [a \in Threads |-> Idle]

----------------------------------------------------------------------------
(* The transactions pool.  "links" holds the parent and chained relations, *)
(* "spent" the outpoints spent by the pool, "mirror" the entries of the    *)
(* CellPool; "orphans" maps an orphan to its resolved inputs.  The last    *)
(* three fields are history: a transaction was in both pools, one was      *)
(* added when a child of it was there, and the capacity assertion failed.  *)

\* Everything that can be reached from t along the edges.
Closure(edges, t) ==
    LET r[n \in 0 .. Cardinality(edges)] ==
            IF n = 0 THEN {t} ELSE r[n - 1] \cup {e[2] : e \in {l \in edges : l[1] \in r[n - 1]}}
    IN  r[Cardinality(edges)] \ {t}

\* Pool members that create what t spends.
Parents(p, t) == {q \in p.txs \ {t} : Creates(q) \cap Spends(t) # {}}

Redeemers(p, t) == Closure(p.links, t)

\* A transaction is ready when the pool has none of its parents.
Refresh(p, S) ==
    [p EXCEPT !.ready = (@ \ S) \cup {t \in S \cap p.txs : Parents(p, t) = {}}]

OrphanRedeemers(p, t) ==
    Closure({e \in (DOMAIN p.orphans) \X (DOMAIN p.orphans) : Creates(e[1]) \cap Spends(e[2]) # {}}, t)

DropOrphans(p, S) ==
    [p EXCEPT !.orphans = [t \in DOMAIN @ \ S |-> @[t]]]

\* Mutant: the children of the transaction keep their status.
TakeFromPool_NoRefresh(p, t) ==
    [p EXCEPT !.txs = @ \ {t}, !.mirror = @ \ {t}, !.ready = @ \ {t},
              !.links = {e \in @ : t \notin {e[1], e[2]}},
              !.spent = [o \in DOMAIN @ \ Spends(t) |-> @[o]]]

\* Taking t out of the pool: its relations and indexes go, and the children it had are
\* looked at again.
TakeFromPool(p, t) ==
    LET kids == {e[2] : e \in {l \in p.links : l[1] = t}}
    IN  Refresh([p EXCEPT !.txs = @ \ {t}, !.mirror = @ \ {t}, !.ready = @ \ {t},
                          !.links = {e \in @ : t \notin {e[1], e[2]}},
                          !.spent = [o \in DOMAIN @ \ Spends(t) |-> @[o]]], kids)

\* The orphans that spend t: removed when their redeemer chain is known to the orphan
\* pool, otherwise (redeemers kept) their resolved inputs are forgotten.
UpdateOrphans(p, t, redeemers) ==
    IF redeemers
    THEN IF t \in DOMAIN p.orphans THEN DropOrphans(p, OrphanRedeemers(p, t)) ELSE p
    ELSE [p EXCEPT !.orphans = [x \in DOMAIN @ |-> @[x] \ Creates(t)]]

Done(p) == [pool |-> p, ok |-> TRUE]
Failed(p) == [pool |-> p, ok |-> FALSE]

\* A transaction the CellPool does not know cannot be removed.
RemoveOne(s, t, redeemers) ==
    IF ~ s.ok THEN s
    ELSE IF t \notin s.pool.mirror THEN Failed(s.pool)
    ELSE Done(UpdateOrphans(TakeFromPool(s.pool, t), t, redeemers))

RemoveTransaction(p, t, redeemers) ==
    IF t \in DOMAIN p.orphans THEN Done(DropOrphans(p, {t} \cup OrphanRedeemers(p, t)))
    ELSE IF t \notin p.txs THEN Done(p)
    ELSE FoldLeft(LAMBDA s, x : RemoveOne(s, x, redeemers), Done(p),
                  <<t>> \o (IF redeemers THEN SetToSeq(Redeemers(p, t)) ELSE <<>>))

RemoveAll(p, S, redeemers) ==
    FoldLeft(LAMBDA s, x : IF s.ok THEN RemoveTransaction(s.pool, x, redeemers) ELSE s,
             Done(p), SetToSeq(S))

AddToPool(p, t) ==
    LET rivals == {c \in p.mirror : Spends(c) \cap Spends(t) # {}}
        children == {c \in p.txs : Creates(t) \cap Spends(c) # {}}
    IN  IF \E c \in rivals : Rate(c) >= Rate(t) THEN Failed(p)
        ELSE Done(Refresh(
            [p EXCEPT !.txs = @ \cup {t}, !.mirror = (@ \ rivals) \cup {t},
                      !.links = @ \cup (Parents(p, t) \X {t}),
                      !.spent = [o \in Spends(t) \cup DOMAIN @ |-> IF o \in Spends(t) THEN t ELSE @[o]],
                      !.twin = @ \/ t \in DOMAIN p.orphans,
                      !.late = @ \/ children # {}], {t}))

\* Revalidation puts the transaction back on the parents the pool now has.
UpdateRevalidated(p, t) ==
    IF t \notin p.mirror THEN p
    ELSE Refresh([p EXCEPT !.links = {e \in @ : e[2] # t} \cup (Parents(p, t) \X {t})], {t})

----------------------------------------------------------------------------
(* Room in the pool, and replacement by fee.                               *)

SizeOf(S) == FoldSet(LAMBDA t, n : n + world.txs[t].size, 0, S)

Room(p, t) ==
    /\ Cardinality(p.txs) < world.maxTxs
    /\ SizeOf(p.txs) + world.txs[t].size <= world.maxSize

\* Mutant: room is made in terms of the count only.
ToEvict_CountOnly(p, t) ==
    LET low == SetToSortSeq({x \in p.ready : ~ High(x) /\
                                 ({x} \cup Redeemers(p, x)) \cap Parents(p, t) = {}},
                            LAMBDA x, y : Rate(x) < Rate(y))
    IN  IF Room(p, t) THEN [txs |-> <<>>, ok |-> TRUE]
        ELSE IF low = <<>> THEN [txs |-> <<>>, ok |-> FALSE]
        ELSE [txs |-> <<low[1]>>, ok |-> Rate(low[1]) <= Rate(t)]

\* limit_transaction_count: the shortest prefix of the low priority ready transactions, by
\* ascending fee rate, that makes room; none of them is an ancestor of t.
ToEvict(p, t) ==
    LET low == SetToSortSeq({x \in p.ready : ~ High(x) /\
                                 ({x} \cup Redeemers(p, x)) \cap Parents(p, t) = {}},
                            LAMBDA x, y : Rate(x) < Rate(y))
        fits == {n \in 1 .. Len(low) :
                    /\ Cardinality(p.txs) + 1 - n <= world.maxTxs
                    /\ SizeOf(p.txs) + world.txs[t].size - SizeOf({low[i] : i \in 1 .. n}) <= world.maxSize}
        prefix == SubSeq(low, 1, Min(fits))
    IN  IF Room(p, t) THEN [txs |-> <<>>, ok |-> TRUE]
        ELSE IF fits = {} THEN [txs |-> <<>>, ok |-> FALSE]
        ELSE [txs |-> prefix, ok |-> \A i \in 1 .. Len(prefix) : Rate(prefix[i]) <= Rate(t)]

\* Eviction stops as soon as there is room.
Evict(p, t, txs) ==
    FoldLeft(LAMBDA s, x : IF ~ s.ok \/ Room(s.pool, t) THEN s
                           ELSE RemoveTransaction(s.pool, x, TRUE), Done(p), txs)

Conflicts(p, t) == {p.spent[o] : o \in Spends(t) \cap DOMAIN p.spent} \ {t}

\* get_replace_by_fee_constraint: whether it succeeds, and the fee rate to exceed.
MayReplace(p, t, policy) ==
    LET conflicts == Conflicts(p, t)
    IN  CASE policy = "forbidden" -> conflicts = {}
          [] policy = "allowed"   -> conflicts \subseteq p.txs
          [] policy = "mandatory" -> conflicts \subseteq p.txs /\ Cardinality(conflicts) = 1

Threshold(p, t, policy) ==
    IF policy = "forbidden" THEN 0 ELSE Max({0} \cup {Rate(c) : c \in Conflicts(p, t)})

\* Mutant: where replacement is forbidden, the check under the read lock is relied on.
ReplaceByFee_CheckedBefore(p, t, policy) ==
    IF policy = "forbidden" THEN Done(p)
    ELSE IF ~ MayReplace(p, t, policy) \/ Rate(t) <= Threshold(p, t, policy) THEN Failed(p)
    ELSE RemoveAll(p, Conflicts(p, t), TRUE)

ReplaceByFee(p, t, policy) ==
    IF ~ MayReplace(p, t, policy) \/ Rate(t) <= Threshold(p, t, policy) THEN Failed(p)
    ELSE RemoveAll(p, Conflicts(p, t), TRUE)

----------------------------------------------------------------------------
(* Orphans.                                                                *)

\* An orphan is refused when it or a rival is there; a full pool drops a low priority
\* orphan, the first its hash map yields.
AddOrphan(p, t, resolved, yield) ==
    LET low == {x \in DOMAIN p.orphans : ~ High(x)}
        full == Cardinality(DOMAIN p.orphans) >= world.maxOrphans
        q == IF full THEN DropOrphans(p, {IF yield THEN Min(low) ELSE Max(low)}) ELSE p
    IN  IF \/ world.maxOrphans = 0
           \/ \E x \in DOMAIN p.orphans : Spends(x) \cap Spends(t) # {}
           \/ full /\ low = {}
        THEN p
        ELSE [q EXCEPT !.orphans = [x \in DOMAIN @ \cup {t} |-> IF x = t THEN resolved ELSE @[x]]]

OrphanPolicy(t) == IF High(t) THEN "forbidden" ELSE "allowed"

Job(t, kind, resolved, threshold) ==
    [tx |-> t, kind |-> kind, resolved |-> resolved, threshold |-> threshold, result |-> "none"]

\* The output o of a transaction that was just added or mined: the orphan that spends it
\* has one more input resolved, and leaves the orphan pool when that was the last.
Resolve(s, o) ==
    LET spenders == {x \in DOMAIN s.pool.orphans : o \in Spends(x) \ s.pool.orphans[x]}
        x == CHOOSE x \in spenders : TRUE
        q == [s.pool EXCEPT !.orphans[x] = @ \cup {o}]
        r == DropOrphans(q, {x})
    IN  IF spenders = {} THEN s
        ELSE IF q.orphans[x] # Spends(x) THEN [s EXCEPT !.pool = q]
        ELSE [pool |-> r,
              jobs |-> IF x \notin r.accepted /\ MayReplace(r, x, OrphanPolicy(x))
                       THEN Append(s.jobs, Job(x, "unorphan", Spends(x), 0)) ELSE s.jobs]

Unorphan(s, t) == FoldLeft(Resolve, s, SetToSortSeq(Creates(t), <))

----------------------------------------------------------------------------
(* Inserting a validated transaction.                                      *)

Policy(j) == IF j.kind = "submit" THEN world.txs[j.tx].policy ELSE OrphanPolicy(j.tx)

\* post_validate_and_insert_transaction, and the orphans that the transaction releases.
\* A replacement that finds no room is refused after it evicted what it replaces.
PostValidate(s, j, yield) ==
    LET t == j.tx
        replaced == ReplaceByFee(s.pool, t, Policy(j))
        toEvict == ToEvict(replaced.pool, t)
        evicted == Evict(replaced.pool, t, toEvict.txs)
        added == AddToPool(evicted.pool, t)
        With(p) == [s EXCEPT !.pool = p]
    IN  IF t \in s.pool.txs \cup s.pool.accepted \/ j.result = "low" THEN s
        ELSE IF j.result = "missing" THEN
             IF Policy(j) # "mandatory" /\ MayReplace(s.pool, t, Policy(j))
             THEN With(AddOrphan(s.pool, t, j.resolved, yield)) ELSE s
        ELSE IF ~ replaced.ok \/ ~ toEvict.ok THEN With(replaced.pool)
        ELSE IF ~ evicted.ok THEN With(evicted.pool)
        ELSE IF ~ Room(evicted.pool, t) THEN With([evicted.pool EXCEPT !.panic = TRUE])
        ELSE IF ~ added.ok THEN With(added.pool)
        ELSE Unorphan(With(added.pool), t)

\* What consensus answers: a resolved input is taken as it is, the others are looked up in
\* the virtual state.
Verdict(j) ==
    IF ~ Spends(j.tx) \subseteq j.resolved \cup utxo THEN "missing"
    ELSE IF j.threshold > 0 /\ Rate(j.tx) <= j.threshold THEN "low" ELSE "valid"

\* populate_mempool_entries: the inputs that the pool creates.
Resolved(p, t) == Spends(t) \cap UNION {Creates(q) : q \in p.txs}

----------------------------------------------------------------------------
(* Calls that bring transactions.                                          *)

Become(a, next) == thread' = [thread EXCEPT ![a] = next]

Working(a, jobs) ==
    IF jobs = <<>> THEN [Idle EXCEPT !.got = thread[a].got]
    ELSE [thread[a] EXCEPT !.pc = "work", !.jobs = jobs]

\* The read lock: a transaction that is new, and may replace what it conflicts with, gets
\* the inputs that the pool creates.
Submit(a, t) ==
    LET policy == world.txs[t].policy
    IN  /\ thread[a].pc = "idle"
        /\ left.submits[t] > 0
        /\ left' = [left EXCEPT !.submits[t] = @ - 1]
        /\ Become(a, Working(a,
             IF t \in pool.txs \cup pool.accepted \/ ~ MayReplace(pool, t, policy) THEN <<>>
             ELSE <<Job(t, "submit", Resolved(pool, t), Threshold(pool, t, policy))>>))
        /\ UNCHANGED <<world, utxo, version, blocks, pool, cache, owner>>

\* Without the lock of the mempool, one transaction after the other.
Validate(a) ==
    /\ thread[a].pc \in {"work", "revalidate"}
    /\ \E i \in 1 .. Len(thread[a].jobs) :
          /\ thread[a].jobs[i].result = "none"
          /\ \A k \in 1 .. i - 1 : thread[a].jobs[k].result # "none"
          /\ Become(a, [thread[a] EXCEPT !.jobs[i].result = Verdict(thread[a].jobs[i])])
    /\ UNCHANGED <<world, utxo, version, blocks, left, pool, cache, owner>>

Validated(a) == \A i \in 1 .. Len(thread[a].jobs) : thread[a].jobs[i].result # "none"

\* The write lock: all transactions of the batch are inserted, and the orphans they release
\* are the next batch.
PostInsert(a) ==
    /\ thread[a].pc = "work" /\ Validated(a)
    /\ \E yield \in BOOLEAN :
         LET s == FoldLeft(LAMBDA r, j : PostValidate(r, j, yield), [pool |-> pool, jobs |-> <<>>],
                           thread[a].jobs)
         IN  /\ pool' = s.pool
             /\ Become(a, Working(a, s.jobs))
    /\ UNCHANGED <<world, utxo, version, blocks, left, cache, owner>>

\* Consensus resolves a block with transaction t: the virtual state accepts t if it can.
NewBlock(t) ==
    /\ t \in left.mines
    /\ left' = [left EXCEPT !.mines = @ \ {t}]
    /\ utxo' = IF Spends(t) \subseteq utxo THEN (utxo \ Spends(t)) \cup Creates(t) ELSE utxo
    /\ version' = version + 1
    /\ blocks' = blocks \cup {t}
    /\ UNCHANGED <<world, pool, cache, owner, thread>>

\* The mempool learns of the block: its transaction leaves both pools, with everything that
\* spends the same, and the orphans that wait for it are taken out.
BlockSeen(p, t) ==
    LET removed == IF t \in DOMAIN p.orphans THEN Done(p) ELSE RemoveTransaction(p, t, FALSE)
        rivals == {removed.pool.spent[o] : o \in Spends(t) \cap DOMAIN removed.pool.spent}
        cleared == RemoveAll(removed.pool, rivals, TRUE)
        q == [DropOrphans(cleared.pool, {t}) EXCEPT !.accepted = @ \cup {t}]
    IN  IF ~ removed.ok THEN [pool |-> removed.pool, jobs |-> <<>>]
        ELSE IF ~ cleared.ok THEN [pool |-> cleared.pool, jobs |-> <<>>]
        ELSE Unorphan([pool |-> q, jobs |-> <<>>], t)

HandleNewBlock(a, t) ==
    /\ thread[a].pc = "idle"
    /\ t \in blocks
    /\ blocks' = blocks \ {t}
    /\ LET s == BlockSeen(pool, t)
       IN  /\ pool' = s.pool
           /\ Become(a, Working(a, s.jobs))
    /\ UNCHANGED <<world, utxo, version, left, cache, owner>>

----------------------------------------------------------------------------
(* The scanning task: one at a time, expiry first, then revalidation.      *)

Scanning == {"orphans", "accepted", "collect", "remove", "rescan", "populate", "revalidate"}

ScanStart(a) ==
    /\ thread[a].pc = "idle"
    /\ left.scans > 0
    /\ \A b \in Threads : thread[b].pc \notin Scanning
    /\ left' = [left EXCEPT !.scans = @ - 1]
    /\ Become(a, [thread[a] EXCEPT !.pc = "orphans"])
    /\ UNCHANGED <<world, utxo, version, blocks, pool, cache, owner>>

\* Each part of the expiry takes the write lock anew.  Which low priority transactions and
\* which accepted ones are old enough is left open.
ExpireOrphans(a) ==
    /\ thread[a].pc = "orphans"
    /\ \E S \in SUBSET {t \in DOMAIN pool.orphans : ~ High(t)} : pool' = DropOrphans(pool, S)
    /\ Become(a, [thread[a] EXCEPT !.pc = "accepted"])
    /\ UNCHANGED <<world, utxo, version, blocks, left, cache, owner>>

ExpireAccepted(a) ==
    /\ thread[a].pc = "accepted"
    /\ \E S \in SUBSET pool.accepted : pool' = [pool EXCEPT !.accepted = @ \ S]
    /\ Become(a, [thread[a] EXCEPT !.pc = "collect"])
    /\ UNCHANGED <<world, utxo, version, blocks, left, cache, owner>>

CollectExpired(a) ==
    /\ thread[a].pc = "collect"
    /\ \E S \in SUBSET {t \in pool.txs : ~ High(t)} :
          Become(a, [thread[a] EXCEPT !.pc = "remove", !.txs = S])
    /\ UNCHANGED <<world, utxo, version, blocks, left, pool, cache, owner>>

\* A removal that fails is logged, and the next one is tried.
RemoveEach(p, S, redeemers) ==
    FoldLeft(LAMBDA q, x : RemoveTransaction(q, x, redeemers).pool, p, SetToSeq(S))

RemoveExpired(a) ==
    /\ thread[a].pc = "remove"
    /\ pool' = RemoveEach(pool, thread[a].txs, TRUE)
    /\ \E rebroadcast \in BOOLEAN :
          Become(a, IF rebroadcast THEN [thread[a] EXCEPT !.pc = "rescan", !.txs = {}]
                    ELSE Working(a, <<>>))
    /\ UNCHANGED <<world, utxo, version, blocks, left, cache, owner>>

\* The ids of the high priority transactions, under the read lock
CollectHigh(a) ==
    /\ thread[a].pc = "rescan"
    /\ LET high == {t \in pool.txs : High(t)}
       IN  Become(a, IF high = {} THEN Working(a, <<>>)
                     ELSE [thread[a] EXCEPT !.pc = "populate", !.txs = high])
    /\ UNCHANGED <<world, utxo, version, blocks, left, pool, cache, owner>>

\* Those that are still there and not accepted are resolved anew, parents first.
PopulateHigh(a) ==
    /\ thread[a].pc = "populate"
    /\ LET high == SetToSortSeq(thread[a].txs \cap (pool.txs \ pool.accepted), <)
           jobs == [i \in 1 .. Len(high) |->
                       Job(high[i], "revalidate", Resolved(pool, high[i]), 0)]
       IN  Become(a, IF jobs = <<>> THEN Working(a, jobs)
                     ELSE [thread[a] EXCEPT !.pc = "revalidate", !.txs = {}, !.jobs = jobs])
    /\ UNCHANGED <<world, utxo, version, blocks, left, pool, cache, owner>>

Revalidated(p, j) ==
    IF j.result = "valid" THEN UpdateRevalidated(p, j.tx) ELSE RemoveTransaction(p, j.tx, FALSE).pool

Revalidate(a) ==
    /\ thread[a].pc = "revalidate" /\ Validated(a)
    /\ pool' = FoldLeft(Revalidated, pool, thread[a].jobs)
    /\ Become(a, Working(a, <<>>))
    /\ UNCHANGED <<world, utxo, version, blocks, left, cache, owner>>

----------------------------------------------------------------------------
(* Block templates.  The lock of the cache is held while one is built.     *)

\* The id of the virtual state is read before the lock is asked for.
AskTemplate(a) ==
    /\ thread[a].pc = "idle"
    /\ left.templates > 0
    /\ left' = [left EXCEPT !.templates = @ - 1]
    /\ Become(a, [Idle EXCEPT !.pc = "template", !.asked = version])
    /\ UNCHANGED <<world, utxo, version, blocks, pool, cache, owner>>

\* Mutant: a template of another state is kept.
Kept_Any(c, asked) == c

Kept(c, asked) == IF c # asked THEN None ELSE c

Serve(a, template) ==
    Become(a, [Idle EXCEPT !.got = [version |-> template, asked |-> thread[a].asked]])

\* A template of another state is dropped; one of this state serves until it is too old.
LockCache(a) ==
    /\ thread[a].pc = "template"
    /\ owner = None
    /\ LET kept == Kept(cache, thread[a].asked)
       IN  /\ cache' = kept
           /\ \/ /\ kept # None
                 /\ Serve(a, kept)
                 /\ UNCHANGED owner
              \/ /\ Become(a, [thread[a] EXCEPT !.pc = "select"])
                 /\ owner' = a
    /\ UNCHANGED <<world, utxo, version, blocks, left, pool>>

\* The selector is a copy of the ready transactions.
BuildSelector(a) ==
    /\ thread[a].pc = "select"
    /\ Become(a, [thread[a] EXCEPT !.pc = "build", !.txs = pool.ready, !.tries = @ + 1])
    /\ UNCHANGED <<world, utxo, version, blocks, left, pool, cache, owner>>

\* By descending fee rate, each transaction is checked on top of the ones before it.
Mineable(S) ==
    FoldLeft(LAMBDA s, t : IF Spends(t) \subseteq s.cells
                           THEN [cells |-> (s.cells \ Spends(t)) \cup Creates(t), txs |-> s.txs \cup {t}]
                           ELSE s,
             [cells |-> utxo, txs |-> {}], SetToSortSeq(S, LAMBDA x, y : Rate(x) > Rate(y))).txs

\* The last attempt leaves invalid transactions out instead of reporting them.
BuildTemplate(a) ==
    /\ thread[a].pc = "build"
    /\ LET invalid == thread[a].txs \ Mineable(thread[a].txs)
       IN  IF invalid = {} \/ thread[a].tries >= world.attempts
           THEN /\ cache' = version
                /\ Serve(a, version)
                /\ owner' = None
           ELSE /\ Become(a, [thread[a] EXCEPT !.pc = "purge", !.txs = invalid])
                /\ UNCHANGED <<cache, owner>>
    /\ UNCHANGED <<world, utxo, version, blocks, left, pool>>

\* Transactions with missing inputs go without their redeemers.
PurgeInvalid(a) ==
    /\ thread[a].pc = "purge"
    /\ pool' = RemoveEach(pool, thread[a].txs, FALSE)
    /\ Become(a, [thread[a] EXCEPT !.pc = "select", !.txs = {}])
    /\ UNCHANGED <<world, utxo, version, blocks, left, cache, owner>>

----------------------------------------------------------------------------

Scan(a) ==
    \/ ScanStart(a)
    \/ ExpireOrphans(a) \/ ExpireAccepted(a) \/ CollectExpired(a) \/ RemoveExpired(a)
    \/ CollectHigh(a) \/ PopulateHigh(a) \/ Revalidate(a)

Template(a) ==
    \/ AskTemplate(a) \/ LockCache(a)
    \/ BuildSelector(a) \/ BuildTemplate(a) \/ PurgeInvalid(a)

Next ==
    \/ \E t \in Txs : NewBlock(t)
    \/ \E a \in Threads :
          \/ \E t \in Txs : Submit(a, t) \/ HandleNewBlock(a, t)
          \/ Validate(a) \/ PostInsert(a)
          \/ Scan(a)
          \/ Template(a)

Spec == Init /\ [][Next]_vars

----------------------------------------------------------------------------

\* No outpoint is spent by two transactions of the pool, and the index of spent outpoints
\* and the CellPool hold exactly what the pool does, as long as no transaction was in both
\* pools at once: remove_transaction would take the orphan and leave the other.
NoDoubleSpend ==
    ~ pool.twin =>
        /\ \A t, u \in pool.txs : t # u => Spends(t) \cap Spends(u) = {}
        /\ \A t \in pool.txs : \A o \in Spends(t) : o \in DOMAIN pool.spent /\ pool.spent[o] = t
        /\ DOMAIN pool.spent = UNION {Spends(t) : t \in pool.txs}
        /\ pool.mirror = pool.txs

\* The pool stays within its limits and the assertion of post_validate_and_insert_transaction
\* holds, whatever was replaced, evicted or removed between the locks, under the same proviso.
WithinLimits ==
    ~ pool.twin =>
        /\ ~ pool.panic
        /\ Cardinality(pool.txs) <= world.maxTxs
        /\ SizeOf(pool.txs) <= world.maxSize
        /\ Cardinality(DOMAIN pool.orphans) <= world.maxOrphans

\* A transaction is offered to templates exactly when the pool has none of its parents, so
\* that none waits for a parent that is gone, unless a parent came after its child.
ReadyIsExact ==
    ~ pool.twin /\ ~ pool.late =>
        pool.ready = {t \in pool.txs : Parents(pool, t) = {}}

\* A template is never of an older virtual state than the one the caller could see when it
\* asked, although the cache is consulted with an id read before its lock was taken.
TemplateIsRecent ==
    \A a \in Threads : thread[a].got.version >= thread[a].got.asked

\* A transaction id appears at most once across the two pools.
TransactionUniqueness == pool.txs \cap DOMAIN pool.orphans = {}

\* An orphan is promoted once all its inputs are available: with every thread idle and
\* every block reported, no orphan has all its inputs in the virtual state or the pool.
OrphansArePromoted ==
    (\A a \in Threads : thread[a].pc = "idle") /\ blocks = {} =>
        \A x \in DOMAIN pool.orphans : ~ Spends(x) \subseteq utxo \cup Resolved(pool, x)
=============================================================================
