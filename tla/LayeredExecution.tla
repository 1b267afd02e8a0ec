-------------------------- MODULE LayeredExecution --------------------------
(***************************************************************************)
(* calculate_cell_state: the blue blocks of a mergeset are cut into layers *)
(* of consecutive blocks, none of which depends on an earlier one of its   *)
(* layer.  The blocks of a layer are analysed concurrently against one     *)
(* frozen snapshot; their effects are then committed in canonical order.   *)
(* The mergeset is chosen initially among those of the constant Mergesets. *)
(***************************************************************************)
EXTENDS CellExecution, FiniteSets

CONSTANTS BaseTree,   \* the Cell state of the selected parent
          Mergesets   \* records with the sequences blues and reds

VARIABLES blues, reds,
          ctx,        \* CellProcessingContext
          layer,      \* the indices of the blue blocks of the current layer
          snapshot,   \* what the analyses of the layer read
          effects,    \* analyses of the layer that have returned
          next,       \* the blue block, then the red block, to commit next
          phase       \* "coinbase", "cut", "analyze", "commit", "red", "ok", "err"

input == <<blues, reds>>
vars == <<input, ctx, layer, snapshot, effects, next, phase>>

Init ==
    /\ \E m \in Mergesets : blues = m.blues /\ reds = m.reds
    /\ ctx = NewContext(BaseTree)
    /\ layer = {} /\ effects = <<>> /\ next = 1
    /\ snapshot = [tree |-> BaseTree, processed |-> {}]
    /\ phase = "coinbase"

SelectedParentCoinbase ==
    LET run == AnalyzeSelectedParentCoinbase(ctx.tree, blues[1]) IN
    /\ phase = "coinbase"
    /\ ctx' = IF Failed(run) THEN ctx ELSE CommitExecutionEffect(ctx, run.effect)
    /\ phase' = IF Failed(run) THEN "err" ELSE "cut"
    /\ UNCHANGED <<input, layer, snapshot, effects, next>>

(***************************************************************************)
(* ExecutionDAG::build, one layer at a time: from first on, up to the      *)
(* first block that depends on one before it in the layer.                 *)
(***************************************************************************)
\* Mutant of DependsOnLayer: only the block before counts.
DependsOnLayer_PreviousOnly(first, i) ==
    i > first /\ HasDependencyOn(Summary(blues[i]), Summary(blues[i - 1]))

DependsOnLayer(first, i) ==
    \E j \in first..(i - 1) : HasDependencyOn(Summary(blues[i]), Summary(blues[j]))

LayerFrom(first) ==
    {i \in first..Len(blues) : \A k \in first..i : ~DependsOnLayer(first, k)}

\* A snapshot is frozen and the analyses of the layer start.
CutLayer ==
    /\ phase = "cut" /\ next <= Len(blues)
    /\ layer' = LayerFrom(next)
    /\ snapshot' = [tree |-> ctx.tree, processed |-> ctx.processed]
    /\ effects' = <<>>
    /\ phase' = "analyze"
    /\ UNCHANGED <<input, ctx, next>>

\* One worker's analysis returns.
Analyze(i) ==
    /\ phase = "analyze" /\ i \in layer \ DOMAIN effects
    /\ effects' = Override(effects, [j \in {i} |->
                      AnalyzeBlueBlock(snapshot.tree, snapshot.processed, blues[i])])
    /\ UNCHANGED <<input, ctx, layer, snapshot, next, phase>>

\* All analyses have returned: an error of any of them is the result.
CollectEffects ==
    /\ phase = "analyze" /\ DOMAIN effects = layer
    /\ phase' = IF \E i \in layer : Failed(effects[i]) THEN "err" ELSE "commit"
    /\ UNCHANGED <<input, ctx, layer, snapshot, effects, next>>

\* Commit the next block of the layer.  A conflict empties the effect, except in a
\* layer of one block, where it is an error.
CommitBlue ==
    LET effect == effects[next].effect
        conflict == ConflictsWithCurrentState(ctx.tree, effect)
        final == IF conflict THEN [EmptyEffect(blues[next]) EXCEPT !.reward = effect.reward] ELSE effect
        refused == conflict /\ Cardinality(layer) = 1
    IN  /\ phase = "commit" /\ next \in layer
        /\ ctx' = IF refused THEN ctx ELSE CommitExecutionEffect(ctx, final)
        /\ next' = next + 1
        /\ phase' = IF refused THEN "err" ELSE IF next + 1 \in layer THEN "commit" ELSE "cut"
        /\ UNCHANGED <<input, layer, snapshot, effects>>

StartReds ==
    /\ phase = "cut" /\ next > Len(blues)
    /\ next' = 1
    /\ phase' = "red"
    /\ UNCHANGED <<input, ctx, layer, snapshot, effects>>

RedBlock ==
    /\ phase = "red" /\ next <= Len(reds)
    /\ IF RedOutputsAbsent(ctx.tree, reds[next])
       THEN /\ ctx' = CommitRedBlock(ctx, reds[next])
            /\ next' = next + 1
            /\ UNCHANGED phase
       ELSE /\ phase' = "err"
            /\ UNCHANGED <<ctx, next>>
    /\ UNCHANGED <<input, layer, snapshot, effects>>

Finish ==
    /\ phase = "red" /\ next > Len(reds)
    /\ phase' = "ok"
    /\ UNCHANGED <<input, ctx, layer, snapshot, effects, next>>

Next ==
    \/ SelectedParentCoinbase \/ CutLayer \/ CollectEffects
    \/ \E i \in layer : Analyze(i)
    \/ CommitBlue \/ StartReds \/ RedBlock \/ Finish

Spec == Init /\ [][Next]_vars

(***************************************************************************)
(* Properties                                                              *)
(***************************************************************************)

\* The layer is a run of consecutive blue blocks, the analyses belong to it, and the
\* cursor points at a block or just past the last one.
TypeOK ==
    /\ phase \in {"coinbase", "cut", "analyze", "commit", "red", "ok", "err"}
    /\ layer \subseteq 1..Len(blues) /\ DOMAIN effects \subseteq layer
    /\ next \in 1..(Len(blues) + Len(reds) + 1)
    /\ DOMAIN ctx = DOMAIN NewContext(BaseTree)

\* Whatever the order in which the analyses of a layer return, the layered execution
\* accepts a mergeset exactly when the execution one block at a time does, and then
\* with the same cells, differences, accepted transactions, acceptance data and
\* rewards: calculate_cell_state states this as its invariant.
LayeredIsSerial ==
    LET serial == CellStateInOrder(BaseTree, blues, reds) IN
    /\ phase = "err" => ~serial.ok
    /\ phase = "ok" => serial = Outcome(TRUE, ctx)

\* The difference of the mergeset, composed block by block with cancellation, takes the
\* selected parent's cells to the current ones, and back.
DiffLeadsToTree ==
    /\ ApplyTo(ctx.diff, BaseTree) = ctx.tree
    /\ ApplyTo(Reversed(ctx.diff), ctx.tree) = BaseTree

\* A transaction that is in several blocks of the mergeset is accepted once, in the
\* first of them that runs it, and no cell that an accepted transaction spent is live.
AcceptedOnce ==
    /\ \A i, j \in DOMAIN ctx.acceptedIds : ctx.acceptedIds[i] = ctx.acceptedIds[j] => i = j
    /\ \A i \in DOMAIN ctx.acceptedIds : ~Meet(Inputs[ctx.acceptedIds[i]], DOMAIN ctx.tree)

\* MPE rules 2 and 3: a conflict between blue blocks is settled by skipping the later
\* transactions.  If each block could be executed by itself, the mergeset is accepted.
ConflictsAreSkipped ==
    phase = "err" => \E i \in DOMAIN blues : ~CellStateInOrder(BaseTree, <<blues[i]>>, <<>>).ok

\* No output of a red block is among the live cells when the red blocks are visited,
\* as the comment above the loop over the red blocks says.
RedOutputsNeverLive ==
    phase = "red" => \A i \in DOMAIN reds : RedOutputsAbsent(ctx.tree, reds[i])
=============================================================================
