-------------------------- MODULE MCProcessorStage --------------------------
(***************************************************************************)
(* Three blocks, A <- B and {A, B} <- C, and four tasks of which two carry *)
(* the same block.  Every order of arrival is explored.                    *)
(***************************************************************************)
EXTENDS ProcessorStage, TLC

CONSTANTS A, B, C, t1, t2, t3, t4

MCBlocks == {A, B, C}
MCTasks == {t1, t2, t3, t4}
MCBlockOf == (t1 :> A) @@ (t2 :> B) @@ (t3 :> C) @@ (t4 :> A)
MCParentsOf == (A :> <<>>) @@ (B :> <<A>>) @@ (C :> <<A, B>>)
=============================================================================
