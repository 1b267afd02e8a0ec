------------------------ MODULE ProcessorStageProofs ------------------------
(***************************************************************************)
(* Proofs about a stage of the block pipeline, for any DAG of blocks, any  *)
(* set of tasks and any number of threads.                                 *)
(***************************************************************************)
EXTENDS ProcessorStage, SequenceTheorems, TLAPS

USE DEF IsPending, IsIdle, depsVars

LEMMA RegisterType ==
  ASSUME NEW t \in Tasks, DepsTypeOK, Register(t)
  PROVE  DepsTypeOK'
  BY DagAssumption DEF DepsTypeOK, Register

LEMMA BeginType ==
  ASSUME NEW b \in Blocks, DepsTypeOK, Begin(b)
  PROVE  DepsTypeOK'
  BY DEF DepsTypeOK, Begin

\* A block is put among the dependents of one group, which is pending.
LEMMA DeferTarget ==
  ASSUME NEW b \in Blocks, DepsTypeOK, Defer(b)
  PROVE  \E g \in Blocks : /\ IsPending(g)
                           /\ dependents' = [dependents EXCEPT ![g] = @ \cup {b}]
<1>1. PICK i \in PendingParents(b) :
         dependents' = [dependents EXCEPT ![ParentsOf[b][i]] = @ \cup {b}]
  BY DEF Defer
<1>2. ParentsOf[b] \in Seq(Blocks)
  BY DagAssumption
<1>3. ParentsOf[b][i] \in Blocks /\ IsPending(ParentsOf[b][i])
  BY <1>2 DEF PendingParents
<1>4. QED
  BY <1>1, <1>3

LEMMA DeferType ==
  ASSUME NEW b \in Blocks, DepsTypeOK, Defer(b)
  PROVE  DepsTypeOK'
<1>1. dependents' \in [Blocks -> SUBSET Blocks]
  <2>1. PICK g \in Blocks : dependents' = [dependents EXCEPT ![g] = @ \cup {b}]
    BY DeferTarget
  <2> QED
    BY <2>1 DEF DepsTypeOK
<1>2. spawned' \in [Blocks -> Nat] /\ queue' = queue /\ taken' = taken
  BY DEF DepsTypeOK, Defer
<1> QED
  BY <1>1, <1>2 DEF DepsTypeOK

\* A thread only ends a task of a group that is pending.
LEMMA EndType ==
  ASSUME NEW b \in Blocks, DepsTypeOK, IsPending(b), End(b)
  PROVE  DepsTypeOK'
  BY DEF DepsTypeOK, End

-----------------------------------------------------------------------------
LEMMA RegisterHandle ==
  ASSUME NEW t \in Tasks, DepsTypeOK, OneHandle, Register(t)
  PROVE  OneHandle'
<1> DEFINE b == BlockOf[t]
<1>1. b \in Blocks /\ queue[b] \in Seq(Tasks)
  BY DagAssumption DEF DepsTypeOK
<1>2. IsPending(b)' /\ \A c \in Blocks \ {b} : IsPending(c)' <=> IsPending(c)
  <2>1. queue'[b] = Append(queue[b], t) /\ \A c \in Blocks \ {b} : queue'[c] = queue[c]
    BY <1>1 DEF Register, DepsTypeOK
  <2>2. Append(queue[b], t) # <<>>
    BY <1>1, AppendProperties
  <2> QED
    BY <1>1, <2>1, <2>2
<1>3. spawned[b]' = IF IsPending(b) THEN spawned[b] ELSE spawned[b] + 1
  BY <1>1 DEF Register, DepsTypeOK
<1>4. \A c \in Blocks \ {b} : spawned[c]' = spawned[c]
  BY <1>1 DEF Register, DepsTypeOK
<1>5. taken' = taken /\ dependents' = dependents
  BY DEF Register
<1> QED
  BY <1>1, <1>2, <1>3, <1>4, <1>5 DEF OneHandle, WaitsOnce, Waits, DepsTypeOK

LEMMA BeginHandle ==
  ASSUME NEW b \in Blocks, DepsTypeOK, OneHandle, Begin(b)
  PROVE  OneHandle'
  BY DEF DepsTypeOK, Begin, OneHandle, WaitsOnce, Waits

LEMMA DeferHandle ==
  ASSUME NEW b \in Blocks, DepsTypeOK, OneHandle, Defer(b)
  PROVE  OneHandle'
<1>1. PICK g \in Blocks : /\ IsPending(g)
                          /\ dependents' = [dependents EXCEPT ![g] = @ \cup {b}]
  BY DeferTarget
<1>2. /\ queue' = queue /\ taken' = taken
      /\ spawned[b] = 1 /\ spawned[b]' = 0
      /\ \A c \in Blocks \ {b} : spawned[c]' = spawned[c]
  BY DEF Defer, DepsTypeOK, OneHandle
<1>3. b \in dependents'[g] /\ \A h \in Blocks \ {g} : b \notin dependents'[h]
  BY <1>1, <1>2 DEF OneHandle, Waits, DepsTypeOK
<1>4. \A c \in Blocks \ {b}, h \in Blocks : c \in dependents'[h] <=> c \in dependents[h]
  BY <1>1 DEF DepsTypeOK
<1>5. \A h \in Blocks : dependents'[h] # {} => IsPending(h)
  BY <1>1 DEF OneHandle, DepsTypeOK
<1> QED
  BY <1>2, <1>3, <1>4, <1>5 DEF OneHandle, WaitsOnce, Waits, DepsTypeOK

LEMMA EndHandle ==
  ASSUME NEW b \in Blocks, DepsTypeOK, OneHandle, End(b)
  PROVE  OneHandle'
<1>1. b \in taken /\ taken' = taken \ {b} /\ IsPending(b) /\ spawned[b] = 0 /\ ~Waits(b)
  BY DEF End, OneHandle, DepsTypeOK, Waits
<1>2. queue[b] \in Seq(Tasks) /\ queue[b] # <<>>
  BY <1>1 DEF DepsTypeOK
<1>3. \A c \in Blocks \ {b} : IsPending(c)' <=> IsPending(c)
  BY DEF End, DepsTypeOK
<1>4. CASE Len(queue[b]) = 1
  <2>1. ~IsPending(b)'
    BY <1>2, <1>4 DEF End, DepsTypeOK
  <2>2. dependents' = [dependents EXCEPT ![b] = {}]
    BY <1>4 DEF End
  <2>3. \A c \in Blocks : spawned'[c] = IF c \in dependents[b] THEN spawned[c] + 1 ELSE spawned[c]
    BY <1>4 DEF End, NextTasks
  <2>4. \A c \in dependents[b] : spawned[c] = 0 /\ c \notin taken /\ IsPending(c) /\ c # b
    BY <1>1 DEF OneHandle, Waits, DepsTypeOK
  <2>5. \A c \in dependents[b], h \in Blocks : c \notin dependents'[h]
    BY <2>2 DEF OneHandle, WaitsOnce, DepsTypeOK
  <2>6. \A c \in Blocks \ dependents[b], h \in Blocks : c \in dependents'[h] <=> c \in dependents[h]
    BY <2>2 DEF DepsTypeOK
  <2> QED
    BY <1>1, <1>3, <2>1, <2>2, <2>3, <2>4, <2>5, <2>6 DEF OneHandle, WaitsOnce, Waits, DepsTypeOK
<1>5. CASE Len(queue[b]) # 1
  <2>1. IsPending(b)'
    <3>1. queue'[b] = Tail(queue[b])
      BY DEF End, DepsTypeOK
    <3>2. Len(queue[b]) \in Nat \ {0} /\ Len(Tail(queue[b])) = Len(queue[b]) - 1
      BY <1>2, EmptySeq, HeadTailProperties
    <3>3. Len(queue'[b]) # 0
      BY <1>5, <3>1, <3>2
    <3> QED
      BY <3>3, EmptySeq
  <2>2. dependents' = dependents
    BY <1>5 DEF End
  <2>3. spawned'[b] = 1 /\ \A c \in Blocks \ {b} : spawned'[c] = spawned[c]
    BY <1>1, <1>5 DEF End, NextTasks
  <2> QED
    BY <1>1, <1>3, <2>1, <2>2, <2>3 DEF OneHandle, WaitsOnce, Waits, DepsTypeOK
<1> QED
  BY <1>4, <1>5

-----------------------------------------------------------------------------
(***************************************************************************)
(* The stage.                                                              *)
(***************************************************************************)
LEMMA AppendElements ==
  ASSUME NEW S, NEW s \in Seq(S), NEW x \in S
  PROVE  Elements(Append(s, x)) = Elements(s) \cup {x}
<1>1. DOMAIN s = 1 .. Len(s) /\ Len(s) \in Nat
  BY LenProperties
<1>2. DOMAIN Append(s, x) = 1 .. Len(s) + 1
  BY AppendProperties, LenProperties
<1>3. \A i \in 1 .. Len(s) : Append(s, x)[i] = s[i]
  BY AppendProperties
<1>4. Append(s, x)[Len(s) + 1] = x
  BY AppendProperties
<1>5. \A i \in 1 .. Len(s) + 1 : i \in 1 .. Len(s) \/ i = Len(s) + 1
  BY <1>1
<1>6. (1 .. Len(s)) \subseteq (1 .. Len(s) + 1) /\ Len(s) + 1 \in 1 .. Len(s) + 1
  BY <1>1
<1> QED
  BY <1>1, <1>2, <1>3, <1>4, <1>5, <1>6 DEF Elements

\* Head and tail of a sequence that is not empty, position by position.
LEMMA TailPositions ==
  ASSUME NEW S, NEW s \in Seq(S), s # <<>>
  PROVE  /\ Tail(s) \in Seq(S) /\ Head(s) = s[1] /\ 1 \in DOMAIN s /\ s[1] \in S
         /\ \A k \in DOMAIN Tail(s) : k \in Nat \ {0} /\ k + 1 \in DOMAIN s /\ Tail(s)[k] = s[k + 1]
         /\ \A k \in DOMAIN s : k = 1 \/ (k - 1 \in DOMAIN Tail(s) /\ Tail(s)[k - 1] = s[k])
<1>1. Len(s) \in Nat \ {0} /\ DOMAIN s = 1 .. Len(s)
  BY EmptySeq, LenProperties
<1>2. /\ Tail(s) \in Seq(S) /\ Len(Tail(s)) = Len(s) - 1
      /\ \A i \in 1 .. Len(Tail(s)) : Tail(s)[i] = s[i + 1]
  BY HeadTailProperties
<1>3. DOMAIN Tail(s) = 1 .. Len(s) - 1
  BY <1>2, LenProperties
<1>4. Head(s) = s[1] /\ s[1] \in S
  BY <1>1, ElementOfSeq
<1> QED
  BY <1>1, <1>2, <1>3, <1>4

LEMMA StageInit == Init => StageInv
  BY DEF Init, DepsInit, StageInv, TypeOK, DepsTypeOK, WorkerStates, OneHandle,
         WaitsOnce, Waits, Placement, Elements, IdleIsIdle

\* What the channel's head is when the worker receives a task.
LEMMA ReceivedTask ==
  ASSUME StageInv, Receive
  PROVE  /\ Head(inbox) \in Tasks /\ Head(inbox) \notin Elements(arrived)
         /\ inbox' \in Seq(Tasks \cup {Exit})
         /\ \A k \in DOMAIN inbox' : k \in Nat /\ k + 1 \in DOMAIN inbox /\ inbox'[k] = inbox[k + 1]
         /\ \A k \in DOMAIN inbox' : inbox'[k] # Head(inbox)
<1>1. inbox \in Seq(Tasks \cup {Exit}) /\ inbox # <<>> /\ inbox' = Tail(inbox) /\ Head(inbox) # Exit
  BY DEF StageInv, TypeOK, Receive
<1>2. /\ inbox' \in Seq(Tasks \cup {Exit}) /\ Head(inbox) = inbox[1] /\ 1 \in DOMAIN inbox
      /\ inbox[1] \in Tasks \cup {Exit}
      /\ \A k \in DOMAIN inbox' : k \in Nat \ {0} /\ k + 1 \in DOMAIN inbox /\ inbox'[k] = inbox[k + 1]
  BY <1>1, TailPositions
<1> QED
  BY <1>1, <1>2 DEF StageInv, Placement

LEMMA ReceivePlacement ==
  ASSUME StageInv, Receive
  PROVE  Placement'
<1> DEFINE t == Head(inbox)
           b == BlockOf[t]
<1>1. t \in Tasks /\ t \notin Elements(arrived) /\ b \in Blocks
  BY ReceivedTask, DagAssumption
<1>2. arrived \in Seq(Tasks) /\ ended \in Seq(Tasks) /\ queue \in [Blocks -> Seq(Tasks)]
  BY DEF StageInv, TypeOK, DepsTypeOK
<1>3. arrived' = Append(arrived, t) /\ ended' = ended /\ queue' = [queue EXCEPT ![b] = Append(@, t)]
  BY DEF Receive, Register
<1>4. /\ Elements(arrived') = Elements(arrived) \cup {t}
      /\ Elements(queue'[b]) = Elements(queue[b]) \cup {t}
      /\ \A c \in Blocks \ {b} : queue'[c] = queue[c]
  BY <1>1, <1>2, <1>3, AppendElements
<1>5. /\ Len(arrived) \in Nat /\ DOMAIN arrived = 1 .. Len(arrived)
      /\ DOMAIN arrived' = 1 .. Len(arrived) + 1
      /\ \A i \in 1 .. Len(arrived) : arrived'[i] = arrived[i]
      /\ arrived'[Len(arrived) + 1] = t
  BY <1>1, <1>2, <1>3, AppendProperties, LenProperties
<1>6. \A u, v \in Tasks : InOrder(arrived, u, v) => InOrder(arrived', u, v)
  BY <1>5 DEF InOrder
<1>7. \A u \in Elements(arrived) : InOrder(arrived', u, t)
  BY <1>5 DEF InOrder, Elements
<1>8. /\ \A i, j \in DOMAIN inbox' : inbox'[i] = inbox'[j] => i = j
      /\ \A i \in DOMAIN inbox' : inbox'[i] \notin Elements(arrived')
  BY <1>4, ReceivedTask DEF StageInv, Placement
<1>9. \A i, j \in DOMAIN arrived' : arrived'[i] = arrived'[j] => i = j
  <2>1. \A i \in DOMAIN arrived : arrived[i] # t
    BY <1>1 DEF Elements
  <2>2. \A i \in DOMAIN arrived' : i \in DOMAIN arrived \/ i = Len(arrived) + 1
    BY <1>5
  <2> QED
    BY <1>5, <2>1, <2>2 DEF StageInv, Placement
<1>10. \A u \in Elements(arrived') : u \in Elements(ended') \/ u \in Elements(queue'[BlockOf[u]])
  <2>1. \A u \in Elements(arrived) : u \in Tasks /\ BlockOf[u] \in Blocks
    BY <1>2, ElementOfSeq, LenProperties, DagAssumption DEF Elements
  <2> QED
    BY <1>1, <1>3, <1>4, <2>1 DEF StageInv, Placement
<1>11. \A c \in Blocks : \A k \in DOMAIN queue'[c] :
          /\ BlockOf[queue'[c][k]] = c
          /\ queue'[c][k] \in Elements(arrived') \ Elements(ended')
          /\ \A l \in DOMAIN queue'[c] : k < l => InOrder(arrived', queue'[c][k], queue'[c][l])
  <2>1. ASSUME NEW c \in Blocks \ {b}, NEW k \in DOMAIN queue'[c]
        PROVE  /\ BlockOf[queue'[c][k]] = c
               /\ queue'[c][k] \in Elements(arrived') \ Elements(ended')
               /\ \A l \in DOMAIN queue'[c] : k < l => InOrder(arrived', queue'[c][k], queue'[c][l])
    <3>1. queue'[c] = queue[c] /\ \A l \in DOMAIN queue[c] : queue[c][l] \in Tasks
      BY <1>2, <1>4, ElementOfSeq, LenProperties
    <3> QED
      BY <1>3, <1>4, <1>6, <3>1 DEF StageInv, Placement
  <2>2. ASSUME NEW k \in DOMAIN queue'[b]
        PROVE  /\ BlockOf[queue'[b][k]] = b
               /\ queue'[b][k] \in Elements(arrived') \ Elements(ended')
               /\ \A l \in DOMAIN queue'[b] : k < l => InOrder(arrived', queue'[b][k], queue'[b][l])
    <3>1. /\ Len(queue[b]) \in Nat /\ DOMAIN queue[b] = 1 .. Len(queue[b])
          /\ DOMAIN queue'[b] = 1 .. Len(queue[b]) + 1
          /\ \A i \in 1 .. Len(queue[b]) : queue'[b][i] = queue[b][i] /\ queue[b][i] \in Tasks
          /\ queue'[b][Len(queue[b]) + 1] = t
      BY <1>1, <1>2, <1>3, AppendProperties, LenProperties, ElementOfSeq
    <3>2. \A i \in DOMAIN queue'[b] : i \in DOMAIN queue[b] \/ i = Len(queue[b]) + 1
      BY <3>1
    <3>3. t \notin Elements(ended)
      BY <1>1 DEF StageInv, Placement
    <3>4. CASE k \in DOMAIN queue[b]
      <4>1. BlockOf[queue'[b][k]] = b /\ queue'[b][k] \in Elements(arrived) \ Elements(ended)
        BY <1>1, <3>1, <3>4 DEF StageInv, Placement
      <4>2. ASSUME NEW l \in DOMAIN queue'[b], k < l
            PROVE  InOrder(arrived', queue'[b][k], queue'[b][l])
        <5>1. CASE l \in DOMAIN queue[b]
          BY <1>1, <1>6, <3>1, <3>4, <4>2, <5>1 DEF StageInv, Placement
        <5>2. CASE l = Len(queue[b]) + 1
          BY <1>7, <3>1, <4>1, <5>2
        <5> QED
          BY <3>2, <5>1, <5>2
      <4> QED
        BY <1>3, <1>4, <4>1, <4>2
    <3>5. CASE k = Len(queue[b]) + 1
      BY <1>3, <1>4, <3>1, <3>3, <3>5
    <3> QED
      BY <3>2, <3>4, <3>5
  <2> QED
    BY <2>1, <2>2
<1>12. Elements(ended') \subseteq Elements(arrived')
  BY <1>3, <1>4 DEF StageInv, Placement
<1> QED
  BY <1>8, <1>9, <1>10, <1>11, <1>12 DEF Placement

LEMMA SendPlacement ==
  ASSUME StageInv, NEW m \in Tasks \cup {Exit}, Send(m)
  PROVE  Placement' /\ inbox' \in Seq(Tasks \cup {Exit})
<1>1. /\ inbox \in Seq(Tasks \cup {Exit}) /\ inbox' = Append(inbox, m)
      /\ m \notin Elements(inbox) /\ m \notin Elements(arrived)
      /\ UNCHANGED <<queue, arrived, ended>>
  BY DEF StageInv, TypeOK, Send
<1>2. /\ Len(inbox) \in Nat /\ DOMAIN inbox = 1 .. Len(inbox)
      /\ inbox' \in Seq(Tasks \cup {Exit}) /\ DOMAIN inbox' = 1 .. Len(inbox) + 1
      /\ \A i \in 1 .. Len(inbox) : inbox'[i] = inbox[i]
      /\ inbox'[Len(inbox) + 1] = m
  BY <1>1, AppendProperties, LenProperties
<1>3. \A i \in DOMAIN inbox' : i \in DOMAIN inbox \/ i = Len(inbox) + 1
  BY <1>2
<1>4. \A i \in DOMAIN inbox : inbox[i] # m
  BY <1>1 DEF Elements
<1> QED
  BY <1>1, <1>2, <1>3, <1>4 DEF StageInv, Placement

LEMMA FinishPlacement ==
  ASSUME StageInv, NEW b \in Blocks, Finish(b)
  PROVE  Placement' /\ Head(queue[b]) \in Tasks /\ IsPending(b)
<1> DEFINE t == Head(queue[b])
           q == queue[b]
<1>1. /\ queue \in [Blocks -> Seq(Tasks)] /\ ended \in Seq(Tasks) /\ arrived \in Seq(Tasks)
      /\ IsPending(b)
  BY DEF StageInv, TypeOK, DepsTypeOK, OneHandle, Finish, End
<1>2. /\ queue' = [queue EXCEPT ![b] = Tail(@)] /\ ended' = Append(ended, t)
      /\ UNCHANGED <<inbox, arrived>>
  BY DEF Finish, End
<1>3. /\ t = q[1] /\ 1 \in DOMAIN q /\ t \in Tasks
      /\ \A k \in DOMAIN Tail(q) : k \in Nat \ {0} /\ k + 1 \in DOMAIN q /\ Tail(q)[k] = q[k + 1]
      /\ \A k \in DOMAIN q : k = 1 \/ (k - 1 \in DOMAIN Tail(q) /\ Tail(q)[k - 1] = q[k])
  BY <1>1, TailPositions
<1>4. Elements(ended') = Elements(ended) \cup {t}
  BY <1>1, <1>2, <1>3, AppendElements
<1>5. queue'[b] = Tail(q) /\ \A c \in Blocks \ {b} : queue'[c] = queue[c]
  BY <1>1, <1>2
<1>6. BlockOf[t] = b /\ t \in Elements(arrived)
  BY <1>3 DEF StageInv, Placement
<1>7. Elements(q) = Elements(queue'[b]) \cup {t}
  BY <1>3, <1>5 DEF Elements
<1>8. \A u \in Elements(arrived) : u \in Elements(ended') \/ u \in Elements(queue'[BlockOf[u]])
  <2>1. \A u \in Elements(arrived) : u \in Tasks /\ BlockOf[u] \in Blocks
    BY <1>1, ElementOfSeq, LenProperties, DagAssumption DEF Elements
  <2> QED
    BY <1>4, <1>5, <1>7, <2>1 DEF StageInv, Placement
<1>9. ASSUME NEW c \in Blocks, NEW k \in DOMAIN queue'[c]
      PROVE  /\ BlockOf[queue'[c][k]] = c
             /\ queue'[c][k] \in Elements(arrived) \ Elements(ended')
             /\ \A l \in DOMAIN queue'[c] : k < l => InOrder(arrived, queue'[c][k], queue'[c][l])
  <2>1. CASE c # b
    BY <1>4, <1>5, <1>6, <2>1 DEF StageInv, Placement
  <2>2. CASE c = b
    <3>1. /\ k \in DOMAIN Tail(q) /\ k \in Nat \ {0} /\ k + 1 \in DOMAIN q
          /\ queue'[c] = Tail(q) /\ queue'[c][k] = q[k + 1]
      BY <1>3, <1>5, <2>2
    <3>2. \A i, j \in DOMAIN q : i < j => InOrder(arrived, q[i], q[j])
      BY DEF StageInv, Placement
    <3>3. q[k + 1] # t
      <4>1. InOrder(arrived, t, q[k + 1])
        BY <1>3, <3>1, <3>2
      <4> QED
        BY <1>1, <4>1, LenProperties DEF InOrder, StageInv, Placement
    <3>4. BlockOf[q[k + 1]] = b /\ q[k + 1] \in Elements(arrived) \ Elements(ended)
      BY <3>1 DEF StageInv, Placement
    <3>5. ASSUME NEW l \in DOMAIN queue'[c], k < l
          PROVE  InOrder(arrived, queue'[c][k], queue'[c][l])
      <4>1. l \in Nat /\ l + 1 \in DOMAIN q /\ queue'[c][l] = q[l + 1]
        BY <1>3, <3>1
      <4> QED
        BY <3>1, <3>2, <3>5, <4>1
    <3> QED
      BY <1>4, <2>2, <3>1, <3>3, <3>4, <3>5
  <2> QED
    BY <2>1, <2>2
<1>10. Elements(ended') \subseteq Elements(arrived)
  BY <1>4, <1>6 DEF StageInv, Placement
<1> QED
  BY <1>1, <1>2, <1>3, <1>8, <1>9, <1>10 DEF StageInv, Placement

\* Every step of the stage preserves the inductive invariant.
LEMMA StageStep ==
  ASSUME StageInv, [Next]_stageVars
  PROVE  StageInv'
<1>t. DepsTypeOK /\ OneHandle
  BY DEF StageInv, TypeOK
<1>1. CASE \E m \in Tasks \cup {Exit} : Send(m)
  <2>1. PICK m \in Tasks \cup {Exit} : Send(m)
    BY <1>1
  <2>2. Placement' /\ inbox' \in Seq(Tasks \cup {Exit})
    BY <2>1, SendPlacement
  <2>3. UNCHANGED <<queue, taken, dependents, spawned, worker, arrived, ended>>
    BY <2>1 DEF Send
  <2> QED
    BY <2>2, <2>3 DEF StageInv, TypeOK, DepsTypeOK, OneHandle, WaitsOnce, Waits, IdleIsIdle
<1>2. CASE Receive
  <2>1. Head(inbox) \in Tasks /\ inbox' \in Seq(Tasks \cup {Exit})
    BY <1>2, ReceivedTask
  <2>2. DepsTypeOK' /\ OneHandle'
    BY <1>t, <1>2, <2>1, RegisterType, RegisterHandle DEF Receive
  <2>3. arrived' \in Seq(Tasks)
    BY <1>2, <2>1, AppendProperties DEF Receive, StageInv, TypeOK
  <2>4. worker = "receiving" /\ worker' = worker /\ ended' = ended
    BY <1>2 DEF Receive
  <2> QED
    BY <1>2, <2>1, <2>2, <2>3, <2>4, ReceivePlacement DEF StageInv, TypeOK, IdleIsIdle
<1>3. CASE ReceiveExit
  <2>1. inbox \in Seq(Tasks \cup {Exit}) /\ inbox # <<>> /\ inbox' = Tail(inbox)
    BY <1>3 DEF ReceiveExit, StageInv, TypeOK
  <2>2. /\ inbox' \in Seq(Tasks \cup {Exit})
        /\ \A k \in DOMAIN inbox' : k \in Nat /\ k + 1 \in DOMAIN inbox /\ inbox'[k] = inbox[k + 1]
    BY <2>1, TailPositions
  <2>3. UNCHANGED <<queue, taken, dependents, spawned, arrived, ended>> /\ worker' = "idle_check"
    BY <1>3 DEF ReceiveExit
  <2>4. Placement'
    BY <2>2, <2>3 DEF StageInv, Placement
  <2> QED
    BY <2>2, <2>3, <2>4
    DEF StageInv, TypeOK, DepsTypeOK, OneHandle, WaitsOnce, Waits, IdleIsIdle, WorkerStates
<1>4. CASE CheckIdle
  <2>1. /\ UNCHANGED <<queue, taken, dependents, spawned, inbox, arrived, ended>>
        /\ worker' \in WorkerStates
        /\ worker' \in {"idle", "stopped"} => IsIdle
    BY <1>4 DEF CheckIdle, WorkerStates
  <2> QED
    BY <2>1 DEF StageInv, TypeOK, DepsTypeOK, OneHandle, WaitsOnce, Waits, Placement, IdleIsIdle
<1>5. CASE PassExit
  <2>1. /\ UNCHANGED <<queue, taken, dependents, spawned, inbox, arrived, ended>>
        /\ worker' \in WorkerStates /\ worker = "idle"
    BY <1>5 DEF PassExit, WorkerStates
  <2> QED
    BY <2>1 DEF StageInv, TypeOK, DepsTypeOK, OneHandle, WaitsOnce, Waits, Placement, IdleIsIdle
<1>6. ASSUME NEW b \in Blocks, TryBegin(b)
      PROVE  StageInv'
  <2>1. DepsTypeOK' /\ OneHandle'
    BY <1>t, <1>6, BeginType, BeginHandle, DeferType, DeferHandle DEF TryBegin
  <2>2. UNCHANGED <<queue, inbox, worker, arrived, ended>>
    BY <1>6 DEF TryBegin, Begin, Defer
  <2> QED
    BY <2>1, <2>2 DEF StageInv, TypeOK, Placement, IdleIsIdle
<1>7. ASSUME NEW b \in Blocks, Finish(b)
      PROVE  StageInv'
  <2>1. Placement' /\ Head(queue[b]) \in Tasks /\ IsPending(b)
    BY <1>7, FinishPlacement
  <2>2. DepsTypeOK' /\ OneHandle'
    BY <1>t, <1>7, <2>1, EndType, EndHandle DEF Finish
  <2>3. /\ ended' = Append(ended, Head(queue[b])) /\ UNCHANGED <<inbox, arrived>>
        /\ worker' = IF IsIdle' /\ worker = "idle_wait" THEN "idle" ELSE worker
    BY <1>7 DEF Finish
  <2>4. ended' \in Seq(Tasks)
    BY <2>1, <2>3, AppendProperties DEF StageInv, TypeOK
  <2>5. worker' \in WorkerStates
    BY <2>3 DEF StageInv, TypeOK, WorkerStates
  <2>6. IdleIsIdle'
    BY <2>1, <2>3 DEF StageInv, IdleIsIdle
  <2> QED
    BY <2>1, <2>2, <2>3, <2>4, <2>5, <2>6 DEF StageInv, TypeOK
<1>8. CASE UNCHANGED stageVars
  BY <1>8 DEF stageVars, StageInv, TypeOK, DepsTypeOK, OneHandle, WaitsOnce, Waits, Placement, IdleIsIdle
<1> QED
  BY <1>1, <1>2, <1>3, <1>4, <1>5, <1>6, <1>7, <1>8 DEF Next

LEMMA StageInvariant == Spec => []StageInv
  BY StageInit, StageStep, PTL DEF Spec

-----------------------------------------------------------------------------
(***************************************************************************)
(* The theorems.                                                           *)
(***************************************************************************)

\* The types of the manager's map, of the channel and of the worker are kept by
\* every step of the worker loop and of the pool's jobs.
THEOREM TypeCorrect == Spec => []TypeOK
  BY StageInvariant, PTL DEF StageInv

\* Every pending group has exactly one handle at any time, so that no expect or
\* assert of try_begin and end can fail and no group is forgotten, whatever
\* the DAG, the tasks, their order of arrival and the size of the pool.
THEOREM EveryGroupHasOneHandle == Spec => []OneHandle
  BY StageInvariant, PTL DEF StageInv

\* wait_for_idle returns only when all that the worker registered has ended,
\* although it tests the map a single time.
THEOREM ExitComesLast == Spec => []ExitIsLast
<1>1. StageInv => ExitIsLast
  <2> SUFFICES ASSUME StageInv, worker \in {"idle", "stopped"}, NEW t \in Elements(arrived)
               PROVE  IsIdle /\ t \in Elements(ended)
    BY DEF ExitIsLast, StageInv, IdleIsIdle
  <2>1. IsIdle
    BY DEF StageInv, IdleIsIdle
  <2>2. t \in Tasks /\ BlockOf[t] \in Blocks
    BY ElementOfSeq, LenProperties, DagAssumption DEF Elements, StageInv, TypeOK
  <2>3. queue[BlockOf[t]] = <<>>
    BY <2>1, <2>2
  <2>4. t \notin Elements(queue[BlockOf[t]])
    BY <2>3 DEF Elements
  <2> QED
    BY <2>1, <2>4 DEF StageInv, Placement
<1> QED
  BY <1>1, StageInvariant, PTL

\* The mapping's set of started tasks.
Started == {Head(queue[b]) : b \in taken} \cup Elements(ended)

\* The front task of a group.
LEMMA FrontTask ==
  ASSUME StageInv, NEW b \in Blocks, IsPending(b)
  PROVE  /\ Head(queue[b]) \in Tasks /\ BlockOf[Head(queue[b])] = b
         /\ Head(queue[b]) \in Elements(arrived) \ Elements(ended)
         /\ Head(queue[b]) = queue[b][1] /\ 1 \in DOMAIN queue[b]
<1>1. queue[b] \in Seq(Tasks) /\ queue[b] # <<>>
  BY DEF StageInv, TypeOK, DepsTypeOK
<1>2. Head(queue[b]) = queue[b][1] /\ 1 \in DOMAIN queue[b] /\ queue[b][1] \in Tasks
  BY <1>1, TailPositions
<1> QED
  BY <1>2 DEF StageInv, Placement

LEMMA TakenIsPending ==
  ASSUME StageInv, NEW b \in taken
  PROVE  b \in Blocks /\ IsPending(b)
  BY DEF StageInv, TypeOK, DepsTypeOK, OneHandle, Waits

\* Of all steps, Receive is an arrival, a successful try_begin a start and
\* Finish a completion; the others change nothing the promise speaks of.
LEMMA ReceiveArrives ==
  ASSUME StageInv, Receive
  PROVE  \E t \in Tasks : Promise!Arrive(t)
<1>1. Head(inbox) \in Tasks /\ Head(inbox) \notin Elements(arrived)
  BY ReceivedTask
<1>2. arrived' = Append(arrived, Head(inbox)) /\ ended' = ended /\ taken' = taken
  BY DEF Receive, Register
<1>3. \A c \in taken : Head(queue'[c]) = Head(queue[c])
  <2> SUFFICES ASSUME NEW c \in taken PROVE Head(queue'[c]) = Head(queue[c])
    OBVIOUS
  <2>1. c \in Blocks /\ queue[c] \in Seq(Tasks) /\ queue[c] # <<>>
    BY TakenIsPending DEF StageInv, TypeOK, DepsTypeOK
  <2>2. queue'[c] = queue[c] \/ queue'[c] = Append(queue[c], Head(inbox))
    BY <2>1 DEF Receive, Register, StageInv, TypeOK, DepsTypeOK
  <2> QED
    BY <2>1, <2>2, HeadTailAppend
<1>4. Started' = Started
  BY <1>2, <1>3 DEF Started
<1> QED
  BY <1>1, <1>2, <1>4 DEF Promise!Arrive, Promise!Seen, Elements, Started

LEMMA BeginStarts ==
  ASSUME StageInv, NEW b \in Blocks, Begin(b), UNCHANGED <<arrived, ended>>
  PROVE  \E t \in Tasks : Promise!Start(t)
<1> DEFINE t == Head(queue[b])
<1>1. IsPending(b) /\ b \notin taken /\ queue' = queue /\ taken' = taken \cup {b}
  BY DEF Begin, StageInv, TypeOK, DepsTypeOK, OneHandle
<1>2. /\ t \in Tasks /\ BlockOf[t] = b /\ t \in Elements(arrived) \ Elements(ended)
      /\ t = queue[b][1] /\ 1 \in DOMAIN queue[b]
  BY <1>1, FrontTask
<1>3. \A c \in taken : Head(queue[c]) # t
  BY <1>1, <1>2, TakenIsPending, FrontTask
<1>4. Started' = Started \cup {t} /\ t \notin Started
  BY <1>1, <1>2, <1>3 DEF Started
<1>5. ASSUME NEW u \in Tasks, InOrder(arrived, u, t), u \notin Elements(ended)
      PROVE  u \in Elements(queue[BlockOf[u]])
  BY <1>5 DEF StageInv, Placement, InOrder, Elements
<1>6. ASSUME NEW u \in Tasks, InOrder(arrived, u, t), BlockOf[u] = b
      PROVE  u \in Elements(ended)
  <2> SUFFICES ASSUME u \notin Elements(ended) PROVE FALSE
    OBVIOUS
  <2>1. PICK k \in DOMAIN queue[b] : queue[b][k] = u
    BY <1>5, <1>6 DEF Elements
  <2>2. \A i, j \in DOMAIN arrived : i \in Nat /\ j \in Nat /\ (arrived[i] = arrived[j] => i = j)
    BY LenProperties DEF StageInv, TypeOK, Placement
  <2>3. u # t
    BY <1>6, <2>2 DEF InOrder
  <2>4. k \in Nat /\ k > 1
    <3>1. queue[b] \in Seq(Tasks)
      BY DEF StageInv, TypeOK, DepsTypeOK
    <3>2. k \in 1 .. Len(queue[b])
      BY <3>1, LenProperties
    <3> QED
      BY <1>2, <2>1, <2>3, <3>2
  <2>5. InOrder(arrived, t, u)
    BY <1>2, <2>1, <2>4 DEF StageInv, Placement
  <2> QED
    BY <1>6, <2>2, <2>5 DEF InOrder
<1>7. ASSUME NEW u \in Tasks, InOrder(arrived, u, t),
             NEW i \in DOMAIN ParentsOf[b], ParentsOf[b][i] = BlockOf[u]
      PROVE  u \in Elements(ended)
  <2>1. queue[BlockOf[u]] = <<>>
    BY <1>7 DEF Begin, PendingParents
  <2> QED
    BY <1>5, <1>7, <2>1 DEF Elements
<1>8. \A u \in Tasks : Promise!Precedes(u, t) => u \in Elements(ended)
  BY <1>2, <1>6, <1>7 DEF Promise!Precedes, Promise!Before, InOrder
<1>9. UNCHANGED <<arrived, Elements(ended)>> /\ t \in Promise!Seen(arrived)
  BY <1>2 DEF Elements, Promise!Seen
<1> QED
  BY <1>2, <1>4, <1>8, <1>9 DEF Promise!Start, Started

LEMMA FinishCompletes ==
  ASSUME StageInv, NEW b \in Blocks, Finish(b)
  PROVE  \E t \in Tasks : Promise!Complete(t)
<1> DEFINE t == Head(queue[b])
<1>1. /\ b \in taken /\ taken' = taken \ {b} /\ arrived' = arrived
      /\ ended' = Append(ended, t) /\ queue' = [queue EXCEPT ![b] = Tail(@)]
  BY DEF Finish, End
<1>2. IsPending(b) /\ t \in Tasks /\ t \notin Elements(ended)
  BY <1>1, TakenIsPending, FrontTask
<1>3. Elements(ended') = Elements(ended) \cup {t}
  BY <1>1, <1>2, AppendElements DEF StageInv, TypeOK
<1>4. \A c \in taken \ {b} : queue'[c] = queue[c]
  BY <1>1 DEF StageInv, TypeOK, DepsTypeOK
<1>5. Started' = Started /\ t \in Started
  BY <1>1, <1>3, <1>4 DEF Started
<1> QED
  BY <1>1, <1>2, <1>3, <1>5 DEF Promise!Complete, Started

\* A stage implements OrderedStage: a task of a block is begun only after every
\* task of the block and of its parents that arrived earlier has ended, because
\* try_begin and end's callback run under one lock.
THEOREM StageImplementsPromise == Spec => ImplementsOrderedStage
<1>1. Init => Promise!Init
  BY DEF Init, DepsInit, Promise!Init, Elements
<1>2. ASSUME StageInv, [Next]_stageVars
      PROVE  [Promise!Next]_<<arrived, Started, Elements(ended)>>
  <2>1. ASSUME NEW m \in Tasks \cup {Exit}, Send(m)
        PROVE  UNCHANGED <<arrived, Started, Elements(ended)>>
    BY <2>1 DEF Send, Started, Elements
  <2>2. CASE Receive
    BY <1>2, <2>2, ReceiveArrives DEF Promise!Next
  <2>3. CASE ReceiveExit \/ CheckIdle \/ PassExit
    BY <2>3 DEF ReceiveExit, CheckIdle, PassExit, Started, Elements
  <2>4. ASSUME NEW b \in Blocks, TryBegin(b)
        PROVE  [Promise!Next]_<<arrived, Started, Elements(ended)>>
    <3>1. CASE Begin(b)
      BY <1>2, <2>4, <3>1, BeginStarts DEF Promise!Next, TryBegin
    <3>2. CASE Defer(b)
      BY <2>4, <3>2 DEF TryBegin, Defer, Started, Elements
    <3> QED
      BY <2>4, <3>1, <3>2 DEF TryBegin
  <2>5. ASSUME NEW b \in Blocks, Finish(b)
        PROVE  Promise!Next
    BY <1>2, <2>5, FinishCompletes DEF Promise!Next
  <2>6. CASE UNCHANGED stageVars
    BY <2>6 DEF stageVars, Started, Elements
  <2> QED
    BY <1>2, <2>1, <2>2, <2>3, <2>4, <2>5, <2>6 DEF Next
<1> QED
  BY <1>1, <1>2, StageInvariant, PTL DEF Spec, ImplementsOrderedStage, Promise!Spec, Started
=============================================================================
