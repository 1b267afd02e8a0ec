-------------------------- MODULE MCBlockPipeline --------------------------
(***************************************************************************)
(* Genesis, two blocks A and B on it, and C that merges them on top of B,  *)
(* the heavier one.  tX carries C and tY carries A once more.              *)
(***************************************************************************)
EXTENDS BlockPipeline, TLC

CONSTANTS G, A, B, C, tA, tB, tC, tX, tY

MCBlocks == {G, A, B, C}
MCBlockOf == (tA :> A) @@ (tB :> B) @@ (tC :> C) @@ (tX :> C) @@ (tY :> A)
MCParentsOf == (G :> <<>>) @@ (A :> <<G>>) @@ (B :> <<G>>) @@ (C :> <<A, B>>)
MCWork == (G :> 0) @@ (A :> 1) @@ (B :> 2) @@ (C :> 3)

AllBut(bad, verdict) == [b \in MCBlocks |-> IF b \in bad THEN verdict ELSE "ok"]
Blocked(tasks) == [t \in tasks |-> "block"]

GoodWorld ==
    [kind |-> Blocked({tA, tB, tC}), header |-> AllBut({}, ""), body |-> AllBut({}, ""),
     cell |-> AllBut({}, ""), spends |-> [b \in MCBlocks |-> FALSE], exits |-> TRUE]

\* B has a wrong Cell state, and C is built on it.
Refused == [GoodWorld EXCEPT !.cell = AllBut({B}, "bad")]

\* A breaks a rule; C, its child, is sent as a block and as a header, and B as a header.
BadParent == [GoodWorld EXCEPT !.kind = Blocked({tA, tC}) @@ (tB :> "header") @@ (tX :> "header"),
                               !.body = AllBut({A}, "context")]

\* A has a wrong Cell state, and is also sent with transactions that are not its own.
WrongCopy == [GoodWorld EXCEPT !.kind = Blocked({tA, tB}) @@ (tY :> "bad_merkle"),
                               !.cell = AllBut({A}, "bad")]

\* The header of A breaks a rule that is checked after its proof of work.
BadHeader == [GoodWorld EXCEPT !.header = AllBut({A}, "post_pow")]

\* C spends a cell of its selected chain.
Spending == [GoodWorld EXCEPT !.spends = [b \in MCBlocks |-> b = C]]

\* The node is shut down in all but the largest of these.
SafetyWorlds == {[Refused EXCEPT !.exits = FALSE], BadParent, WrongCopy, BadHeader}
LiveWorlds == {Refused}
SpendWorlds == {Spending}
=============================================================================
