--------------------------- MODULE CellExecution ---------------------------
(***************************************************************************)
(* What one block does to the Cell state: the access summary that the      *)
(* scheduler reads off its transactions, the analysis of the block against *)
(* a snapshot, and the commit of the effect that the analysis returns.     *)
(*                                                                         *)
(* A block is a record with its name, its DAA score and its transactions,  *)
(* the coinbase first.  A cell is named by its outpoint <<transaction,     *)
(* index>>.  Of the four validation layers of a transaction, the existence *)
(* of its inputs and dependencies is modelled; every check that does not   *)
(* depend on the other blocks of the mergeset (format, capacity, locks,    *)
(* scripts) is in the constant Sound, and the cycles of its scripts in     *)
(* Cycles.                                                                 *)
(***************************************************************************)
EXTENDS CellDiff, Sequences, SequencesExt

CONSTANTS Coinbases,      \* the coinbase transactions
          Inputs,         \* transaction -> outpoints it spends
          NumOutputs,     \* transaction -> number of its outputs
          CellDeps,       \* transaction -> outpoints it reads
          DepGroups,      \* transaction -> those of CellDeps that it reads as a group
          GroupMembers,   \* outpoint -> outpoints that its data lists
          SharedReads, SharedWrites,  \* transaction -> domains of its scheduler witness
          Sound,          \* transactions that pass every other check
          Cycles,         \* transaction -> cycles of its scripts
          MaxBlockCycles

Outputs(tx) == {<<tx, i>> : i \in 1..NumOutputs[tx]}

TxsOf(block) == {block.txs[i] : i \in DOMAIN block.txs}

(***************************************************************************)
(* Access summaries                                                        *)
(***************************************************************************)
Summary(block) ==
    LET txs == TxsOf(block) IN
    [spent   |-> UNION {Inputs[t] : t \in txs},
     created |-> UNION {Outputs(t) : t \in txs},
     reads   |-> UNION {CellDeps[t] : t \in txs},
     ids     |-> txs,
     sharedReads  |-> UNION {SharedReads[t] : t \in txs},
     sharedWrites |-> UNION {SharedWrites[t] : t \in txs}]

Meet(S, T) == S \cap T # {}

\* Mutant of HasDependencyOn: a transaction in both blocks is no dependency.
HasDependencyOn_ByOutpoints(later, earlier) ==
    \/ Meet(later.spent, earlier.created \cup earlier.spent)
    \/ Meet(later.reads, earlier.created \cup earlier.spent)

\* A later block cannot be analysed against the state before the earlier one.
HasDependencyOn(later, earlier) ==
    \/ Meet(later.spent, earlier.created)
    \/ Meet(later.spent, earlier.spent)
    \/ Meet(later.ids, earlier.ids)
    \/ Meet(later.reads, earlier.created)
    \/ Meet(later.reads, earlier.spent)
    \/ Meet(later.sharedWrites, earlier.sharedWrites \cup earlier.sharedReads)
    \/ Meet(later.sharedReads, earlier.sharedWrites)

(***************************************************************************)
(* Analysis of a block: an effect, or an error                             *)
(***************************************************************************)
EmptyEffect(block) ==
    [block |-> block.name, daa |-> block.daa, diff |-> NoDiff, reads |-> {},
     acceptedIds |-> <<>>, accepted |-> <<>>, reward |-> FALSE, cycles |-> 0, processed |-> {}]

WithReward(effect, block) == [effect EXCEPT !.reward = block.txs # <<>>]

CellsOf(tx, daa) == [o \in Outputs(tx) |-> daa]

\* validate_tx against the cells that are live: inputs, dependencies, group members.
ValidateTx(tx, live) ==
    /\ tx \in Sound
    /\ Inputs[tx] \subseteq live
    /\ CellDeps[tx] \subseteq live
    /\ \A g \in DepGroups[tx] : GroupMembers[g] \subseteq live

\* The effect of spending the inputs of tx and creating its outputs.
SpendAndCreate(diff, tree, tx, daa) ==
    LET inBlock == Inputs[tx] \cap DOMAIN diff.add
        spent == Restrict(tree, Inputs[tx] \ inBlock)
    IN  [add |-> Override(Without(diff.add, inBlock), CellsOf(tx, daa)),
         remove |-> Override(diff.remove, spent)]

\* One transaction of analyze_blue_block.  run.state: "go", "full" (block cycles used up)
\* or "err"; run.tree is the local copy of the tree, which the overlay mirrors.
AnalyzeTx(run, index, block, processed) ==
    LET tx == block.txs[index]
        isCoinbase == index = 1 /\ tx \in Coinbases
        cycles == run.effect.cycles + (IF isCoinbase THEN 0 ELSE Cycles[tx])
        diff == SpendAndCreate(run.effect.diff, run.tree, tx, block.daa)
        duplicate == \/ Meet(Outputs(tx), DOMAIN run.tree \ Inputs[tx])
                     \/ Meet(Outputs(tx), DOMAIN diff.remove)
        err == [run EXCEPT !.state = "err"]
    IN  IF run.state # "go" \/ tx \in processed THEN run
        ELSE IF ~isCoinbase /\ ~ValidateTx(tx, DOMAIN run.tree) THEN err
        ELSE IF cycles > MaxBlockCycles THEN [run EXCEPT !.state = "full", !.effect.cycles = cycles]
        ELSE IF ~(Inputs[tx] \subseteq DOMAIN run.tree) \/ duplicate THEN err
        ELSE [state |-> "go",
              tree |-> Override(Without(run.tree, Inputs[tx]), CellsOf(tx, block.daa)),
              effect |-> [run.effect EXCEPT !.diff = diff,
                                            !.reads = @ \cup CellDeps[tx],
                                            !.acceptedIds = Append(@, tx),
                                            !.accepted = Append(@, <<tx, index>>),
                                            !.cycles = cycles,
                                            !.processed = @ \cup {tx}]]

AnalyzeBlueBlock(tree, processed, block) ==
    LET start == [state |-> "go", tree |-> tree, effect |-> WithReward(EmptyEffect(block), block)]
        step(run, index) == AnalyzeTx(run, index, block, processed)
    IN  FoldLeftDomain(step, start, block.txs)

Failed(run) == run.state = "err"

\* The coinbase of the selected parent: its identifier is accepted, but it is not
\* among the accepted transactions.
AnalyzeSelectedParentCoinbase(tree, block) ==
    LET tx == block.txs[1]
        base == WithReward(EmptyEffect(block), block)
    IN  IF block.txs = <<>> THEN [state |-> "go", effect |-> base]
        ELSE IF Meet(Outputs(tx), DOMAIN tree) THEN [state |-> "err", effect |-> base]
        ELSE [state |-> "go", effect |-> [base EXCEPT !.diff.add = CellsOf(tx, block.daa),
                                                      !.acceptedIds = <<tx>>,
                                                      !.processed = {tx}]]

(***************************************************************************)
(* Commit                                                                  *)
(***************************************************************************)
NewContext(tree) ==
    [tree |-> tree, diff |-> NoDiff, blockDiffs |-> <<>>, acceptedIds |-> <<>>,
     acceptance |-> <<>>, rewards |-> {}, processed |-> {}]

\* The effect's inputs or dependencies are gone from the tree.
ConflictsWithCurrentState(tree, effect) ==
    \/ ~(DOMAIN effect.diff.remove \subseteq DOMAIN tree)
    \/ ~(effect.reads \subseteq DOMAIN tree \cup DOMAIN effect.diff.add)

AppendIf(cond, seq, e) == IF cond THEN Append(seq, e) ELSE seq

CommitExecutionEffect(ctx, effect) ==
    [tree |-> ApplyTo(effect.diff, ctx.tree),
     diff |-> Compose(ctx.diff, effect.diff),
     blockDiffs |-> AppendIf(~IsEmpty(effect.diff), ctx.blockDiffs, <<effect.block, effect.diff>>),
     acceptedIds |-> ctx.acceptedIds \o effect.acceptedIds,
     acceptance |-> AppendIf(effect.accepted # <<>>, ctx.acceptance, <<effect.block, effect.accepted>>),
     rewards |-> ctx.rewards \cup (IF effect.reward THEN {effect.block} ELSE {}),
     processed |-> ctx.processed \cup effect.processed]

\* A red block: an empty entry in the acceptance data, and its reward.
CommitRedBlock(ctx, block) ==
    LET listed == [ctx EXCEPT !.acceptance = Append(@, <<block.name, <<>>>>)]
    IN  CommitExecutionEffect(listed, WithReward(EmptyEffect(block), block))

RedOutputsAbsent(tree, block) == ~\E tx \in TxsOf(block) : Meet(Outputs(tx), DOMAIN tree)

(***************************************************************************)
(* The Cell state of a block, its mergeset executed one block at a time:   *)
(* the reference that the layered execution is compared with, and what the *)
(* resumable execution does when no block is suspended.  The first blue    *)
(* block is the selected parent.                                           *)
(***************************************************************************)
Outcome(ok, ctx) == [ok |-> ok, ctx |-> ctx]

BlueInOrder(out, block) ==
    LET run == AnalyzeBlueBlock(out.ctx.tree, out.ctx.processed, block)
    IN  IF ~out.ok THEN out
        ELSE IF Failed(run) \/ ConflictsWithCurrentState(out.ctx.tree, run.effect)
             THEN Outcome(FALSE, out.ctx)
        ELSE Outcome(TRUE, CommitExecutionEffect(out.ctx, run.effect))

RedInOrder(out, block) ==
    IF out.ok /\ RedOutputsAbsent(out.ctx.tree, block)
    THEN Outcome(TRUE, CommitRedBlock(out.ctx, block))
    ELSE Outcome(FALSE, out.ctx)

CellStateInOrder(tree, blues, reds) ==
    LET coinbase == AnalyzeSelectedParentCoinbase(tree, blues[1])
        start == IF Failed(coinbase) THEN Outcome(FALSE, NewContext(tree))
                 ELSE Outcome(TRUE, CommitExecutionEffect(NewContext(tree), coinbase.effect))
    IN  FoldLeft(RedInOrder, FoldLeft(BlueInOrder, start, blues), reds)
=============================================================================
