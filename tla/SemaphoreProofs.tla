-------------------------- MODULE SemaphoreProofs ---------------------------
(***************************************************************************)
(* Proofs about the semaphore, for any number of clients below the number  *)
(* of permits: writers exclude everyone, no wakeup is lost, and the lock   *)
(* implements RwLock.                                                      *)
(***************************************************************************)
EXTENDS Semaphore, FiniteSetTheorems, TLAPS

(***************************************************************************)
(* The inductive invariant                                                 *)
(***************************************************************************)
SemTypeOK ==
    /\ counter \in Int
    /\ mode \in [Clients -> Modes]

\* A writer that holds the lock has all the permits; otherwise every holder has one.
PermitsAddUp ==
    /\ \A w \in Holders \ Readers : Holders = {w} /\ counter = 0
    /\ Holders \subseteq Readers => counter = MaxPermits - Cardinality(Holders)

\* The listeners of the event are those of the clients that wait, each once.
QueueOK(s, a, listeners) ==
    /\ s \in Seq(Clients) /\ a \in SUBSET Clients
    /\ Elements(s) \cup a = listeners /\ Elements(s) \cap a = {}
    /\ \A i, j \in 1..Len(s) : s[i] = s[j] => i = j

ListenersAreListed == QueueOK(asleep, awake, Listening)

SemInv == SemTypeOK /\ PermitsAddUp /\ ListenersAreListed /\ NoLostWakeup

(***************************************************************************)
(* Lemmas about the permits and the queue of the event                     *)
(***************************************************************************)
\* A client that enters the lock, or leaves it, changes the number of holders by one.
LEMMA HoldersAreCounted ==
    ASSUME SemTypeOK
    PROVE  /\ IsFiniteSet(Holders) /\ Cardinality(Holders) \in Nat
           /\ Cardinality(Holders) < MaxPermits
           /\ \A c \in Clients \ Holders : Cardinality(Holders \cup {c}) = Cardinality(Holders) + 1
           /\ \A c \in Holders : Cardinality(Holders \ {c}) = Cardinality(Holders) - 1
<1>1. Holders \subseteq Clients
  BY DEF Holders
<1>2. /\ IsFiniteSet(Holders) /\ Cardinality(Holders) <= Cardinality(Clients)
      /\ Cardinality(Holders) \in Nat /\ Cardinality(Clients) \in Nat
  BY <1>1, SemaphoreAssumption, FS_Subset, FS_CardinalityType
<1> QED
  BY <1>2, SemaphoreAssumption, FS_AddElement, FS_RemoveElement

\* Taking a client out of the queue takes out only that client.
LEMMA TakeOutIsExact ==
    ASSUME NEW s \in Seq(Clients), NEW c \in Elements(s),
           \A i, j \in 1..Len(s) : s[i] = s[j] => i = j
    PROVE  /\ TakeOut(s, c) \in Seq(Clients)
           /\ Elements(TakeOut(s, c)) = Elements(s) \ {c}
           /\ \A i, j \in 1..Len(TakeOut(s, c)) : TakeOut(s, c)[i] = TakeOut(s, c)[j] => i = j
<1> DEFINE at == CHOOSE i \in 1..Len(s) : s[i] = c
           t == TakeOut(s, c)
<1>1. at \in 1..Len(s) /\ s[at] = c
  BY DEF Elements
<1> HIDE DEF at
<1>2. t = [i \in 1..Len(s) - 1 |-> IF i < at THEN s[i] ELSE s[i + 1]]
  BY DEF TakeOut, at
<1>3. Len(s) \in Nat /\ Len(s) - 1 \in Nat /\ \A i \in 1..Len(s) : s[i] \in Clients
  BY <1>1
<1>4. /\ t \in Seq(Clients) /\ Len(t) = Len(s) - 1
      /\ \A i \in 1..Len(t) : t[i] = IF i < at THEN s[i] ELSE s[i + 1]
  BY <1>1, <1>2, <1>3
<1> HIDE DEF t
<1>5. Elements(t) \subseteq Elements(s) \ {c}
  BY <1>1, <1>3, <1>4 DEF Elements
<1>6. ASSUME NEW d \in Elements(s) \ {c} PROVE d \in Elements(t)
  <2>1. PICK k \in 1..Len(s) : s[k] = d
    BY DEF Elements
  <2>2. CASE k < at
    BY <1>1, <1>3, <1>4, <2>1, <2>2 DEF Elements
  <2>3. CASE k > at
    <3>1. k - 1 \in 1..Len(t) /\ ~(k - 1 < at) /\ k - 1 + 1 = k
      BY <1>1, <1>3, <1>4, <2>3
    <3>2. t[k - 1] = d
      BY <1>4, <2>1, <3>1
    <3> QED
      BY <3>1, <3>2 DEF Elements
  <2>4. k # at
    BY <1>1, <2>1
  <2> QED
    BY <1>1, <2>2, <2>3, <2>4
<1>7. \A i, j \in 1..Len(t) : t[i] = t[j] => i = j
  BY <1>1, <1>3, <1>4
<1> QED
  BY <1>4, <1>5, <1>6, <1>7 DEF t

\* There are never more listeners than clients.
LEMMA QueueIsShort ==
    ASSUME NEW s \in Seq(Clients), NEW a \in SUBSET Clients, Elements(s) \cap a = {},
           \A i, j \in 1..Len(s) : s[i] = s[j] => i = j
    PROVE  Cardinality(a) \in Nat /\ Len(s) + Cardinality(a) < MaxPermits
<1> DEFINE E == Elements(s)
<1>1. Len(s) \in Nat /\ E \subseteq Clients /\ E \cup a \subseteq Clients
  BY DEF Elements
<1>2. /\ IsFiniteSet(E) /\ IsFiniteSet(a) /\ Cardinality(E \cup a) <= Cardinality(Clients)
  BY <1>1, SemaphoreAssumption, FS_Subset
<1>3. Cardinality(E \cup a) = Cardinality(E) + Cardinality(a) - Cardinality(E \cap a)
  BY <1>2, FS_Union
<1>4. Cardinality(E \cap a) = 0
  BY FS_EmptySet
<1>5. Cardinality(E) = Len(s)
  <2>1. [i \in 1..Len(s) |-> s[i]] \in Bijection(1..Len(s), E)
    BY <1>1 DEF Bijection, Injection, Surjection, IsInjective, Elements
  <2>2. ExistsBijection(1..Len(s), E)
    BY <2>1 DEF ExistsBijection
  <2>3. IsFiniteSet(1..Len(s)) /\ Cardinality(1..Len(s)) = Len(s)
    <3>1. 1 \in Int /\ Len(s) \in Int /\ (IF 1 > Len(s) THEN 0 ELSE Len(s) - 1 + 1) = Len(s)
      BY <1>1
    <3> QED
      BY <3>1, FS_Interval
  <2> QED
    BY <2>2, <2>3, FS_Bijection
<1>6. /\ Cardinality(E) \in Nat /\ Cardinality(a) \in Nat /\ Cardinality(Clients) \in Nat
      /\ Cardinality(E \cup a) \in Nat
  BY <1>1, <1>2, SemaphoreAssumption, FS_CardinalityType, FS_Subset
<1> QED
  BY <1>1, <1>2, <1>3, <1>4, <1>5, <1>6, SemaphoreAssumption

\* A notification keeps the set of listeners and wakes at least one of them; the one of a
\* writer wakes them all.
LEMMA NotifyIsExact ==
    ASSUME NEW s \in Seq(Clients), NEW a \in SUBSET Clients, Elements(s) \cap a = {},
           \A i, j \in 1..Len(s) : s[i] = s[j] => i = j,
           NEW n \in Nat \ {0}, Notify(s, a, n)
    PROVE  /\ asleep' \in Seq(Clients) /\ awake' \in SUBSET Clients
           /\ Elements(asleep') \cup awake' = Elements(s) \cup a
           /\ Elements(asleep') \cap awake' = {}
           /\ \A i, j \in 1..Len(asleep') : asleep'[i] = asleep'[j] => i = j
           /\ a \subseteq awake'
           /\ Elements(s) \cup a # {} => awake' # {}
           /\ n = MaxPermits => Elements(asleep') = {}
<1> DEFINE more == IF n <= Cardinality(a) THEN 0
                   ELSE IF n - Cardinality(a) > Len(s) THEN Len(s) ELSE n - Cardinality(a)
<1>1. Cardinality(a) \in Nat /\ Len(s) + Cardinality(a) < MaxPermits /\ Len(s) \in Nat
  BY QueueIsShort
<1>2. /\ more \in 0..Len(s)
      /\ more = 0 => Len(s) = 0 \/ n <= Cardinality(a)
      /\ n = MaxPermits => more = Len(s)
  BY <1>1, SemaphoreAssumption
<1>3. awake' = a \cup {s[i] : i \in 1..more} /\ asleep' = SubSeq(s, more + 1, Len(s))
  BY DEF Notify
<1> HIDE DEF more
<1>4. /\ asleep' \in Seq(Clients) /\ Len(asleep') = Len(s) - more
      /\ \A i \in 1..Len(asleep') : asleep'[i] = s[more + i]
  BY <1>1, <1>2, <1>3
<1>5. /\ \A i \in 1..Len(s) : s[i] \in Clients
      /\ \A i \in 1..more : i \in 1..Len(s)
      /\ \A i \in 1..Len(asleep') : more + i \in 1..Len(s)
      /\ \A k \in 1..Len(s) : k \in 1..more \/ k - more \in 1..Len(asleep')
  BY <1>1, <1>2, <1>4
<1>6. Elements(asleep') = {asleep'[i] : i \in 1..Len(asleep')}
  BY DEF Elements
<1>7. Elements(asleep') \cup awake' = Elements(s) \cup a
  <2>1. ASSUME NEW k \in 1..Len(asleep') PROVE asleep'[k] \in Elements(s)
    BY <1>4, <1>5 DEF Elements
  <2>2. {s[i] : i \in 1..more} \subseteq Elements(s)
    BY <1>5 DEF Elements
  <2>3. ASSUME NEW k \in 1..Len(s) PROVE s[k] \in Elements(asleep') \cup awake'
    <3>1. CASE k \in 1..more
      BY <1>3, <3>1
    <3>2. CASE k - more \in 1..Len(asleep')
      <4>1. more + (k - more) = k
        BY <1>1, <1>2
      <4>2. asleep'[k - more] = s[k]
        BY <1>4, <3>2, <4>1
      <4> QED
        BY <1>6, <3>2, <4>2
    <3> QED
      BY <1>5, <3>1, <3>2
  <2> QED
    <3>1. Elements(asleep') \subseteq Elements(s)
      BY <1>6, <2>1
    <3>2. Elements(s) \subseteq Elements(asleep') \cup awake'
      BY <2>3 DEF Elements
    <3> QED
      BY <1>3, <2>2, <3>1, <3>2
<1>8. Elements(asleep') \cap awake' = {}
  <2>1. SUFFICES ASSUME NEW i \in 1..Len(asleep') PROVE asleep'[i] \notin awake'
    BY <1>6
  <2>2. asleep'[i] = s[more + i] /\ more + i \in 1..Len(s) /\ s[more + i] \notin a
    BY <1>4, <1>5 DEF Elements
  <2>3. \A j \in 1..more : s[j] # s[more + i]
    BY <1>1, <1>2, <1>4, <1>5, <2>2
  <2> QED
    BY <1>3, <2>2, <2>3
<1>9. \A i, j \in 1..Len(asleep') : asleep'[i] = asleep'[j] => i = j
  <2>1. SUFFICES ASSUME NEW i \in 1..Len(asleep'), NEW j \in 1..Len(asleep'), asleep'[i] = asleep'[j]
                 PROVE  i = j
    OBVIOUS
  <2>2. s[more + i] = s[more + j] /\ more + i \in 1..Len(s) /\ more + j \in 1..Len(s)
    BY <1>4, <1>5, <2>1
  <2>3. more + i = more + j
    BY <2>2
  <2> QED
    BY <1>1, <1>2, <1>4, <2>3
<1>10. Elements(s) \cup a # {} => awake' # {}
  <2>1. CASE more = 0
    <3>1. CASE Len(s) = 0
      BY <1>3, <3>1 DEF Elements
    <3>2. CASE n <= Cardinality(a)
      <4>1. Cardinality(a) # 0
        BY <1>1, <3>2
      <4> QED
        BY <1>3, <4>1, FS_EmptySet
    <3> QED
      BY <1>2, <2>1, <3>1, <3>2
  <2>2. CASE more # 0
    <3>1. 1 \in 1..more
      BY <1>1, <1>2, <2>2
    <3> QED
      BY <1>3, <3>1
  <2> QED
    BY <2>1, <2>2
<1>11. n = MaxPermits => Elements(asleep') = {}
  BY <1>1, <1>2, <1>4, <1>6
<1> QED
  <2>1. awake' \in SUBSET Clients /\ a \subseteq awake'
    BY <1>3, <1>5
  <2> QED
    BY <1>4, <1>7, <1>8, <1>9, <1>10, <1>11, <2>1

(***************************************************************************)
(* Permits                                                                 *)
(***************************************************************************)
\* A client that takes its permits enters a lock that is open to it.
LEMMA EnterKeepsPermits ==
    ASSUME SemTypeOK, PermitsAddUp, NEW c \in Clients \ Holders,
           TakePermits(c), Holders' = Holders \cup {c}
    PROVE  PermitsAddUp' /\ Lock!Take(c)
<1>1. /\ IsFiniteSet(Holders) /\ Cardinality(Holders) \in Nat /\ Cardinality(Holders) < MaxPermits
      /\ Cardinality(Holders \cup {c}) = Cardinality(Holders) + 1
  BY HoldersAreCounted
<1>2. counter >= Permits(c) /\ counter' = counter - Permits(c) /\ counter \in Int /\ MaxPermits \in Nat
  BY SemaphoreAssumption DEF TakePermits, SemTypeOK
<1>3. CASE c \in Readers
  <2>1. counter >= 1 /\ counter' = counter - 1
    BY <1>2, <1>3 DEF Permits
  <2>2. Holders \subseteq Readers
    BY <1>2, <2>1 DEF PermitsAddUp
  <2>3. counter' = MaxPermits - Cardinality(Holders')
    BY <1>1, <1>2, <2>1, <2>2 DEF PermitsAddUp
  <2> QED
    BY <1>3, <2>2, <2>3 DEF PermitsAddUp, Lock!Take
<1>4. CASE c \notin Readers
  <2>1. counter >= MaxPermits /\ counter' = counter - MaxPermits /\ MaxPermits > 0
    BY <1>1, <1>2, <1>4 DEF Permits
  <2>2. Holders \subseteq Readers
    BY <1>2, <2>1 DEF PermitsAddUp
  <2>3. Cardinality(Holders) = 0 /\ counter = MaxPermits
    BY <1>1, <1>2, <2>1, <2>2 DEF PermitsAddUp
  <2>4. Holders = {}
    BY <1>1, <2>3, FS_EmptySet
  <2>5. Holders' = {c} /\ counter' = 0
    BY <1>2, <2>1, <2>3, <2>4
  <2> QED
    BY <1>4, <2>4, <2>5 DEF PermitsAddUp, Lock!Take
<1> QED
  BY <1>3, <1>4

\* A client that gives its permits back leaves the lock as it found it.
LEMMA LeaveKeepsPermits ==
    ASSUME SemTypeOK, PermitsAddUp, NEW c \in Holders,
           counter' = counter + Permits(c), Holders' = Holders \ {c}
    PROVE  PermitsAddUp' /\ Lock!Leave(c)
<1>1. /\ Cardinality(Holders) \in Nat /\ Cardinality(Holders \ {c}) = Cardinality(Holders) - 1
  BY HoldersAreCounted
<1>2. counter \in Int /\ MaxPermits \in Nat
  BY SemaphoreAssumption DEF SemTypeOK
<1>3. CASE Holders \subseteq Readers
  BY <1>1, <1>2, <1>3 DEF PermitsAddUp, Permits, Lock!Leave
<1>4. CASE ~(Holders \subseteq Readers)
  <2>1. PICK w \in Holders \ Readers : Holders = {w} /\ counter = 0
    BY <1>4 DEF PermitsAddUp
  <2>2. w = c /\ Holders' = {} /\ counter' = MaxPermits
    BY <1>2, <2>1 DEF Permits
  <2>3. Cardinality(Holders') = 0
    BY <2>2, FS_EmptySet
  <2> QED
    BY <1>2, <2>2, <2>3 DEF PermitsAddUp, Lock!Leave
<1> QED
  BY <1>3, <1>4

\* A step that moves nobody into or out of the lock and leaves the counter alone.
LEMMA OthersKeepPermits ==
    ASSUME PermitsAddUp, Holders' = Holders, counter' = counter
    PROVE  PermitsAddUp'
BY DEF PermitsAddUp

\* The modes in which a client has a listener
Attends(m) == m \in {"retry", "wait", "paused"}

\* How a move of one client changes the sets of holders and listeners.
LEMMA MoveIsLocal ==
    ASSUME SemTypeOK, NEW c \in Clients, NEW from \in Modes, NEW to \in Modes, Move(c, from, to)
    PROVE  /\ mode' \in [Clients -> Modes] /\ mode'[c] = to /\ mode[c] = from
           /\ \A d \in Clients \ {c} : mode'[d] = mode[d]
           /\ c \in Holders <=> from = "held"
           /\ from # "held" /\ to # "held" => Holders' = Holders
           /\ from # "held" /\ to = "held" => Holders' = Holders \cup {c}
           /\ from = "held" /\ to # "held" => Holders' = Holders \ {c}
           /\ c \in Listening <=> Attends(from)
           /\ (Attends(from) <=> Attends(to)) => Listening' = Listening
           /\ ~Attends(from) /\ Attends(to) => Listening' = Listening \cup {c}
           /\ Attends(from) /\ ~Attends(to) => Listening' = Listening \ {c}
<1>1. /\ mode' \in [Clients -> Modes] /\ mode'[c] = to /\ mode[c] = from
      /\ \A d \in Clients \ {c} : mode'[d] = mode[d]
  BY DEF Move, SemTypeOK
<1>2. /\ Holders' = {d \in Clients : mode'[d] = "held"}
      /\ Listening' = {d \in Clients : Attends(mode'[d])}
      /\ Listening = {d \in Clients : Attends(mode[d])}
  BY DEF Holders, Listening, Attends
<1> QED
  BY <1>1, <1>2 DEF Holders

(***************************************************************************)
(* Listeners                                                               *)
(***************************************************************************)
\* A client that starts to listen is the last in the queue.
LEMMA ListenIsListed ==
    ASSUME QueueOK(asleep, awake, Listening), NEW c \in Clients \ Listening,
           asleep' = Append(asleep, c), awake' = awake
    PROVE  QueueOK(asleep', awake', Listening \cup {c})
<1>1. /\ asleep \in Seq(Clients) /\ Len(asleep) \in Nat /\ c \notin Elements(asleep) /\ c \notin awake
      /\ \A i, j \in 1..Len(asleep) : asleep[i] = asleep[j] => i = j
  BY DEF QueueOK
<1>2. /\ asleep' \in Seq(Clients) /\ Len(asleep') = Len(asleep) + 1 /\ asleep'[Len(asleep) + 1] = c
      /\ \A i \in 1..Len(asleep) : asleep'[i] = asleep[i] /\ asleep[i] # c
  BY <1>1 DEF Elements
<1>3. Elements(asleep') = Elements(asleep) \cup {c}
  <2>1. 1..Len(asleep') = 1..Len(asleep) \cup {Len(asleep) + 1}
    BY <1>1, <1>2
  <2> QED
    BY <1>2, <2>1 DEF Elements
<1>4. \A i, j \in 1..Len(asleep') : asleep'[i] = asleep'[j] => i = j
  BY <1>1, <1>2
<1> QED
  BY <1>1, <1>2, <1>3, <1>4 DEF QueueOK

\* A client whose wait ends is no longer a listener, and nobody else is affected.
LEMMA EndWaitIsListed ==
    ASSUME QueueOK(asleep, awake, Listening), NEW c \in Listening, EndWait(c)
    PROVE  QueueOK(asleep', awake', Listening \ {c}) /\ awake \ {c} \subseteq awake'
<1>1. CASE c \in awake
  BY <1>1 DEF QueueOK, EndWait
<1>2. CASE c \notin awake
  <2>1. c \in Elements(asleep) /\ asleep' = TakeOut(asleep, c) /\ awake' = awake
    BY <1>2 DEF QueueOK, EndWait
  <2>2. /\ asleep' \in Seq(Clients) /\ Elements(asleep') = Elements(asleep) \ {c}
        /\ \A i, j \in 1..Len(asleep') : asleep'[i] = asleep'[j] => i = j
    BY <2>1, TakeOutIsExact DEF QueueOK
  <2> QED
    BY <1>2, <2>1, <2>2 DEF QueueOK
<1> QED
  BY <1>1, <1>2

\* A listener that is dropped leaves, and its notification wakes another one.
LEMMA DropIsListed ==
    ASSUME QueueOK(asleep, awake, Listening), NEW c \in Listening, DropListener(c)
    PROVE  /\ QueueOK(asleep', awake', Listening \ {c}) /\ awake \ {c} \subseteq awake'
           /\ c \in awake => Listening \ {c} = {} \/ awake' # {}
<1>1. CASE c \in awake
  <2>1. Notify(asleep, awake \ {c}, 1) /\ Elements(asleep) \cup (awake \ {c}) = Listening \ {c}
    BY <1>1 DEF QueueOK, DropListener
  <2>2. /\ asleep \in Seq(Clients) /\ awake \ {c} \in SUBSET Clients
        /\ Elements(asleep) \cap (awake \ {c}) = {}
        /\ \A i, j \in 1..Len(asleep) : asleep[i] = asleep[j] => i = j
    BY DEF QueueOK
  <2>3. /\ asleep' \in Seq(Clients) /\ awake' \in SUBSET Clients
        /\ Elements(asleep') \cup awake' = Elements(asleep) \cup (awake \ {c})
        /\ Elements(asleep') \cap awake' = {}
        /\ \A i, j \in 1..Len(asleep') : asleep'[i] = asleep'[j] => i = j
        /\ awake \ {c} \subseteq awake'
        /\ Elements(asleep) \cup (awake \ {c}) # {} => awake' # {}
    <3>1. 1 \in Nat \ {0}
      OBVIOUS
    <3> QED
      BY <2>1, <2>2, <3>1, NotifyIsExact
  <2> QED
    BY <2>1, <2>3 DEF QueueOK
<1>2. CASE c \notin awake
  <2>1. EndWait(c)
    BY <1>2 DEF DropListener, EndWait
  <2> QED
    BY <1>2, <2>1, EndWaitIsListed
<1> QED
  BY <1>1, <1>2

\* A signal wakes listeners and loses none; the signal of a writer wakes them all.
LEMMA SignalIsListed ==
    ASSUME QueueOK(asleep, awake, Listening), NEW c \in Clients,
           Notify(asleep, awake, Permits(c))
    PROVE  /\ QueueOK(asleep', awake', Listening) /\ awake \subseteq awake'
           /\ Listening = {} \/ awake' # {}
           /\ c \notin Readers => awake' = Listening
<1>1. Permits(c) \in Nat \ {0} /\ (c \notin Readers => Permits(c) = MaxPermits)
  <2>1. Cardinality(Clients) \in Nat
    BY SemaphoreAssumption, FS_CardinalityType
  <2> QED
    BY <2>1, SemaphoreAssumption DEF Permits
<1>2. /\ asleep \in Seq(Clients) /\ awake \in SUBSET Clients
      /\ Elements(asleep) \cup awake = Listening /\ Elements(asleep) \cap awake = {}
      /\ \A i, j \in 1..Len(asleep) : asleep[i] = asleep[j] => i = j
  BY DEF QueueOK
<1>3. /\ asleep' \in Seq(Clients) /\ awake' \in SUBSET Clients
      /\ Elements(asleep') \cup awake' = Elements(asleep) \cup awake
      /\ Elements(asleep') \cap awake' = {}
      /\ \A i, j \in 1..Len(asleep') : asleep'[i] = asleep'[j] => i = j
      /\ awake \subseteq awake'
      /\ Elements(asleep) \cup awake # {} => awake' # {}
      /\ Permits(c) = MaxPermits => Elements(asleep') = {}
  BY <1>1, <1>2, NotifyIsExact
<1> QED
  BY <1>1, <1>2, <1>3 DEF QueueOK

(***************************************************************************)
(* Wakeups                                                                 *)
(***************************************************************************)
\* A client finds too few permits only while someone holds the lock; a reader, only while
\* a writer does.
LEMMA TooFewMeansHeld ==
    ASSUME SemTypeOK, PermitsAddUp, NEW c \in Clients, counter < Permits(c)
    PROVE  Holders # {} /\ (c \in Readers => Holders \ Readers # {})
<1>1. /\ Cardinality(Holders) \in Nat /\ Cardinality(Holders) < MaxPermits
      /\ MaxPermits \in Nat /\ counter \in Int
  BY HoldersAreCounted, SemaphoreAssumption DEF SemTypeOK
<1>2. CASE Holders \subseteq Readers
  <2>1. counter = MaxPermits - Cardinality(Holders)
    BY <1>2 DEF PermitsAddUp
  <2>2. Holders = {} => Cardinality(Holders) = 0
    BY FS_EmptySet
  <2> QED
    BY <1>1, <2>1, <2>2 DEF Permits
<1> QED
  BY <1>2

\* The wakeups that a step of client c must not lose are those of the clients that wait
\* before and after it, and that of c when c begins to wait.
LEMMA WakeupsAreKept ==
    ASSUME SemTypeOK, PermitsAddUp, NoLostWakeup, NEW c \in Clients,
           awake' \in SUBSET Clients, awake \ {c} \subseteq awake',
           \A d \in Clients \ {c} : mode'[d] = mode[d],
           \/ mode'[c] \in {"held", "freed", "yielded", "try", "retry"}
           \/ mode'[c] = "listen" /\ Holders \ {c} # {} /\ c \notin awake /\ mode[c] = "try"
           \/ mode'[c] = "wait" /\ Holders \ {c} # {} /\ mode[c] = "retry"
              /\ (c \in Readers => (Holders \ {c}) \ Readers # {}),
           mode[c] \in {"held", "freed", "yielded"} => mode'[c] \in {"held", "freed", "yielded"}
    PROVE  NoLostWakeup'
<1>1. SUFFICES ASSUME NEW d \in Clients, mode'[d] = "wait", d \notin awake'
               PROVE  IF d \in Readers
                      THEN \E w \in Clients \ Readers : mode'[w] \in {"held", "freed", "yielded"}
                      ELSE \E e \in Clients :
                              mode'[e] \in {"held", "freed", "yielded", "try", "retry"} \/ e \in awake'
  BY DEF NoLostWakeup
<1>2. \A h \in Holders \ {c} : h \in Clients /\ mode'[h] = "held"
  BY DEF Holders
<1>3. CASE d = c
  BY <1>1, <1>2, <1>3
<1>4. CASE d # c
  <2>1. mode[d] = "wait" /\ d \notin awake
    BY <1>1, <1>4
  <2>2. CASE d \in Readers
    <3>1. PICK w \in Clients \ Readers : mode[w] \in {"held", "freed", "yielded"}
      BY <2>1, <2>2 DEF NoLostWakeup
    <3> QED
      BY <2>2, <3>1
  <2>3. CASE d \notin Readers
    <3>1. PICK e \in Clients :
             mode[e] \in {"held", "freed", "yielded", "try", "retry"} \/ e \in awake
      BY <2>1, <2>3 DEF NoLostWakeup
    <3>2. CASE e # c
      BY <2>3, <3>1, <3>2
    <3>3. CASE e = c
      BY <1>2, <2>3, <3>1, <3>3
    <3> QED
      BY <3>2, <3>3
  <2> QED
    BY <2>2, <2>3
<1> QED
  BY <1>3, <1>4

(***************************************************************************)
(* The invariant is inductive                                              *)
(***************************************************************************)
\* A client enters, leaves or does neither, as RwLock has it.
LockStep == \E c \in Clients : Lock!Take(c) \/ Lock!Leave(c)

\* try_acquire: the client enters the lock, or finds too few permits and listens or waits.
LEMMA TryAcquireStep ==
    ASSUME SemInv, NEW c \in Clients, TryAcquire(c)
    PROVE  SemInv' /\ (LockStep \/ UNCHANGED Holders)
<1> USE DEF Modes
<1>0. SemTypeOK /\ PermitsAddUp /\ QueueOK(asleep, awake, Listening) /\ NoLostWakeup
  BY DEF SemInv, ListenersAreListed
<1>1. counter \in Int /\ Permits(c) \in Int /\ awake \subseteq Listening
  BY <1>0, SemaphoreAssumption DEF SemTypeOK, Permits, QueueOK
<1>2. CASE Move(c, "try", "held") /\ TakePermits(c) /\ UNCHANGED <<asleep, awake>>
  <2>1. /\ mode' \in [Clients -> Modes] /\ mode'[c] = "held"
        /\ \A d \in Clients \ {c} : mode'[d] = mode[d]
        /\ Holders' = Holders \cup {c} /\ c \notin Holders
        /\ Listening' = Listening /\ mode[c] = "try"
    BY <1>0, <1>2, MoveIsLocal DEF Attends
  <2>2. PermitsAddUp' /\ Lock!Take(c)
    BY <1>0, <1>2, <2>1, EnterKeepsPermits
  <2>3. SemTypeOK'
    BY <1>1, <1>2, <2>1 DEF SemTypeOK, TakePermits
  <2>4. ListenersAreListed'
    BY <1>0, <1>2, <2>1 DEF ListenersAreListed, QueueOK
  <2>5. NoLostWakeup'
    BY <1>0, <1>2, <2>1, WakeupsAreKept DEF QueueOK
  <2> QED
    BY <2>2, <2>3, <2>4, <2>5 DEF SemInv, LockStep
<1>3. CASE Move(c, "try", "listen") /\ FindTooFew(c)
  <2>1. /\ mode' \in [Clients -> Modes] /\ mode'[c] = "listen" /\ mode[c] = "try"
        /\ \A d \in Clients \ {c} : mode'[d] = mode[d]
        /\ Holders' = Holders /\ c \notin Holders
        /\ Listening' = Listening /\ c \notin Listening
    BY <1>0, <1>3, MoveIsLocal DEF Attends
  <2>2. Holders \ {c} # {} /\ c \notin awake
    BY <1>0, <1>1, <1>3, <2>1, TooFewMeansHeld DEF FindTooFew
  <2>3. UNCHANGED <<counter, asleep, awake>>
    BY <1>3 DEF FindTooFew
  <2>4. NoLostWakeup'
    BY <1>0, <2>1, <2>2, <2>3, WakeupsAreKept DEF QueueOK
  <2>5. SemTypeOK' /\ PermitsAddUp' /\ ListenersAreListed'
    BY <1>0, <2>1, <2>3, OthersKeepPermits DEF SemTypeOK, ListenersAreListed, QueueOK
  <2> QED
    BY <2>1, <2>4, <2>5 DEF SemInv
<1>4. CASE Move(c, "retry", "held") /\ TakePermits(c) /\ DropListener(c)
  <2>1. /\ mode' \in [Clients -> Modes] /\ mode'[c] = "held" /\ mode[c] = "retry"
        /\ \A d \in Clients \ {c} : mode'[d] = mode[d]
        /\ Holders' = Holders \cup {c} /\ c \notin Holders
        /\ Listening' = Listening \ {c} /\ c \in Listening
    BY <1>0, <1>4, MoveIsLocal DEF Attends
  <2>2. PermitsAddUp' /\ Lock!Take(c)
    BY <1>0, <1>4, <2>1, EnterKeepsPermits
  <2>3. SemTypeOK'
    BY <1>1, <1>4, <2>1 DEF SemTypeOK, TakePermits
  <2>4. QueueOK(asleep', awake', Listening \ {c}) /\ awake \ {c} \subseteq awake'
    BY <1>0, <1>4, <2>1, DropIsListed
  <2>5. ListenersAreListed' /\ awake' \in SUBSET Clients
    BY <2>1, <2>4 DEF ListenersAreListed, QueueOK
  <2>6. NoLostWakeup'
    BY <1>0, <2>1, <2>4, <2>5, WakeupsAreKept
  <2> QED
    BY <2>2, <2>3, <2>5, <2>6 DEF SemInv, LockStep
<1>5. CASE Move(c, "retry", "wait") /\ FindTooFew(c)
  <2>1. /\ mode' \in [Clients -> Modes] /\ mode'[c] = "wait" /\ mode[c] = "retry"
        /\ \A d \in Clients \ {c} : mode'[d] = mode[d]
        /\ Holders' = Holders /\ c \notin Holders
        /\ Listening' = Listening
    BY <1>0, <1>5, MoveIsLocal DEF Attends
  <2>2. Holders \ {c} # {} /\ (c \in Readers => (Holders \ {c}) \ Readers # {})
    BY <1>0, <1>5, <2>1, TooFewMeansHeld DEF FindTooFew
  <2>3. UNCHANGED <<counter, asleep, awake>>
    BY <1>5 DEF FindTooFew
  <2>4. NoLostWakeup'
    BY <1>0, <2>1, <2>2, <2>3, WakeupsAreKept DEF QueueOK
  <2>5. SemTypeOK' /\ PermitsAddUp' /\ ListenersAreListed'
    BY <1>0, <2>1, <2>3, OthersKeepPermits DEF SemTypeOK, ListenersAreListed, QueueOK
  <2> QED
    BY <2>1, <2>4, <2>5 DEF SemInv
<1> QED
  BY <1>2, <1>3, <1>4, <1>5 DEF TryAcquire

\* The call of acquire.
LEMMA AcquireStep ==
    ASSUME SemInv, NEW c \in Clients, Acquire(c)
    PROVE  SemInv' /\ UNCHANGED Holders
<1> USE DEF Modes
<1>0. SemTypeOK /\ PermitsAddUp /\ QueueOK(asleep, awake, Listening) /\ NoLostWakeup
  BY DEF SemInv, ListenersAreListed
<1>1. Move(c, "idle", "try") /\ UNCHANGED <<counter, asleep, awake>>
  BY DEF Acquire
<1>2. /\ mode' \in [Clients -> Modes] /\ mode'[c] = "try" /\ mode[c] = "idle"
      /\ \A d \in Clients \ {c} : mode'[d] = mode[d]
      /\ Holders' = Holders /\ Listening' = Listening
  BY <1>0, <1>1, MoveIsLocal DEF Attends
<1>3. NoLostWakeup'
  BY <1>0, <1>1, <1>2, WakeupsAreKept DEF QueueOK
<1>4. SemTypeOK' /\ PermitsAddUp' /\ ListenersAreListed'
  BY <1>0, <1>1, <1>2, OthersKeepPermits DEF SemTypeOK, ListenersAreListed, QueueOK
<1> QED
  BY <1>2, <1>3, <1>4 DEF SemInv

\* The listener is made, by acquire or by blocking_yield.
LEMMA ListenStep ==
    ASSUME SemInv, NEW c \in Clients, ListenAgain(c) \/ Pause(c)
    PROVE  SemInv' /\ UNCHANGED Holders
<1> USE DEF Modes
<1>0. SemTypeOK /\ PermitsAddUp /\ QueueOK(asleep, awake, Listening) /\ NoLostWakeup
  BY DEF SemInv, ListenersAreListed
<1>1. asleep' = Append(asleep, c) /\ UNCHANGED <<counter, awake>>
  BY DEF ListenAgain, Pause, Listen
<1>2. /\ mode' \in [Clients -> Modes] /\ \A d \in Clients \ {c} : mode'[d] = mode[d]
      /\ Holders' = Holders /\ Listening' = Listening \cup {c} /\ c \notin Listening
      /\ \/ mode[c] = "listen" /\ mode'[c] = "retry"
         \/ mode[c] = "pause" /\ mode'[c] = "paused"
  <2>1. CASE Move(c, "listen", "retry")
    BY <1>0, <2>1, MoveIsLocal DEF Attends
  <2>2. CASE Move(c, "pause", "paused")
    BY <1>0, <2>2, MoveIsLocal DEF Attends
  <2> QED
    BY <2>1, <2>2 DEF ListenAgain, Pause, Listen
<1>3. QueueOK(asleep', awake', Listening \cup {c})
  BY <1>0, <1>1, <1>2, ListenIsListed
<1>4. ListenersAreListed' /\ awake' \in SUBSET Clients /\ c \notin awake
  BY <1>0, <1>2, <1>3 DEF ListenersAreListed, QueueOK
<1>5. SemTypeOK' /\ PermitsAddUp'
  BY <1>0, <1>1, <1>2, OthersKeepPermits DEF SemTypeOK
<1>6. NoLostWakeup'
  <2>1. CASE mode'[c] = "retry"
    BY <1>0, <1>1, <1>2, <1>4, <2>1, WakeupsAreKept
  <2>2. CASE mode[c] = "pause" /\ mode'[c] = "paused"
    BY <1>0, <1>1, <1>2, <1>4, <2>2 DEF NoLostWakeup
  <2> QED
    BY <1>2, <2>1, <2>2
<1> QED
  BY <1>2, <1>4, <1>5, <1>6 DEF SemInv

\* A wait ends: by a notification in acquire, or also by the timeout in blocking_yield.
LEMMA EndWaitStep ==
    ASSUME SemInv, NEW c \in Clients, Wake(c) \/ EndPause(c)
    PROVE  SemInv' /\ UNCHANGED Holders
<1> USE DEF Modes
<1>0. SemTypeOK /\ PermitsAddUp /\ QueueOK(asleep, awake, Listening) /\ NoLostWakeup
  BY DEF SemInv, ListenersAreListed
<1>1. EndWait(c) /\ UNCHANGED counter
  BY DEF Wake, EndPause
<1>2. /\ mode' \in [Clients -> Modes] /\ \A d \in Clients \ {c} : mode'[d] = mode[d]
      /\ Holders' = Holders /\ Listening' = Listening \ {c} /\ c \in Listening
      /\ mode[c] \in {"wait", "paused"} /\ mode'[c] = "try"
  <2>1. CASE Move(c, "wait", "try")
    BY <1>0, <2>1, MoveIsLocal DEF Attends
  <2>2. CASE Move(c, "paused", "try")
    BY <1>0, <2>2, MoveIsLocal DEF Attends
  <2> QED
    BY <2>1, <2>2 DEF Wake, EndPause
<1>3. QueueOK(asleep', awake', Listening \ {c}) /\ awake \ {c} \subseteq awake'
  BY <1>0, <1>1, <1>2, EndWaitIsListed
<1>4. ListenersAreListed' /\ awake' \in SUBSET Clients
  BY <1>2, <1>3 DEF ListenersAreListed, QueueOK
<1>5. SemTypeOK' /\ PermitsAddUp'
  BY <1>0, <1>1, <1>2, OthersKeepPermits DEF SemTypeOK
<1>6. NoLostWakeup'
  BY <1>0, <1>2, <1>3, <1>4, WakeupsAreKept
<1> QED
  BY <1>2, <1>4, <1>5, <1>6 DEF SemInv

\* An acquire is dropped while it waits.
LEMMA CancelStep ==
    ASSUME SemInv, NEW c \in Clients, Cancel(c)
    PROVE  SemInv' /\ UNCHANGED Holders
<1> USE DEF Modes
<1>0. SemTypeOK /\ PermitsAddUp /\ QueueOK(asleep, awake, Listening) /\ NoLostWakeup
  BY DEF SemInv, ListenersAreListed
<1>1. Move(c, "wait", "idle") /\ DropListener(c) /\ UNCHANGED counter
  BY DEF Cancel
<1>2. /\ mode' \in [Clients -> Modes] /\ \A d \in Clients \ {c} : mode'[d] = mode[d]
      /\ Holders' = Holders /\ Listening' = Listening \ {c} /\ c \in Listening
      /\ mode[c] = "wait" /\ mode'[c] = "idle"
  BY <1>0, <1>1, MoveIsLocal DEF Attends
<1>3. /\ QueueOK(asleep', awake', Listening \ {c}) /\ awake \ {c} \subseteq awake'
      /\ c \in awake => Listening \ {c} = {} \/ awake' # {}
  BY <1>0, <1>1, <1>2, DropIsListed
<1>4. ListenersAreListed' /\ awake' \in SUBSET Clients
  BY <1>2, <1>3 DEF ListenersAreListed, QueueOK
<1>5. SemTypeOK' /\ PermitsAddUp'
  BY <1>0, <1>1, <1>2, OthersKeepPermits DEF SemTypeOK
<1>6. NoLostWakeup'
  <2>1. SUFFICES ASSUME NEW d \in Clients, mode'[d] = "wait", d \notin awake'
                 PROVE  IF d \in Readers
                        THEN \E w \in Clients \ Readers : mode'[w] \in {"held", "freed", "yielded"}
                        ELSE \E e \in Clients :
                                mode'[e] \in {"held", "freed", "yielded", "try", "retry"} \/ e \in awake'
    BY DEF NoLostWakeup
  <2>2. d # c /\ mode[d] = "wait" /\ d \notin awake /\ d \in Listening \ {c}
    BY <1>2, <1>3, <2>1 DEF Listening
  <2>3. CASE d \in Readers
    BY <1>0, <1>2, <2>2, <2>3 DEF NoLostWakeup
  <2>4. CASE d \notin Readers
    <3>1. PICK e \in Clients : mode[e] \in {"held", "freed", "yielded", "try", "retry"} \/ e \in awake
      BY <1>0, <2>2, <2>4 DEF NoLostWakeup
    <3>2. CASE e = c
      BY <1>2, <1>3, <1>4, <2>2, <2>4, <3>1, <3>2
    <3>3. CASE e # c
      BY <1>2, <1>3, <2>4, <3>1, <3>3
    <3> QED
      BY <3>2, <3>3
  <2> QED
    BY <2>3, <2>4
<1> QED
  BY <1>2, <1>4, <1>5, <1>6 DEF SemInv

\* release and blocking_yield give the permits back.
LEMMA ReleaseStep ==
    ASSUME SemInv, NEW c \in Clients, Release(c) \/ Yield(c)
    PROVE  SemInv' /\ LockStep
<1> USE DEF Modes
<1>0. SemTypeOK /\ PermitsAddUp /\ QueueOK(asleep, awake, Listening) /\ NoLostWakeup
  BY DEF SemInv, ListenersAreListed
<1>1. counter' = counter + Permits(c) /\ UNCHANGED <<asleep, awake>>
  BY DEF Release, Yield, GivePermits
<1>2. /\ mode' \in [Clients -> Modes] /\ \A d \in Clients \ {c} : mode'[d] = mode[d]
      /\ Holders' = Holders \ {c} /\ c \in Holders /\ Listening' = Listening
      /\ mode[c] = "held" /\ mode'[c] \in {"freed", "yielded"}
  <2>1. CASE Move(c, "held", "freed")
    BY <1>0, <2>1, MoveIsLocal DEF Attends
  <2>2. CASE Move(c, "held", "yielded")
    BY <1>0, <2>2, MoveIsLocal DEF Attends
  <2> QED
    BY <2>1, <2>2 DEF Release, Yield
<1>3. PermitsAddUp' /\ Lock!Leave(c)
  BY <1>0, <1>1, <1>2, LeaveKeepsPermits
<1>4. SemTypeOK'
  BY <1>0, <1>1, <1>2, SemaphoreAssumption DEF SemTypeOK, Permits
<1>5. ListenersAreListed'
  BY <1>0, <1>1, <1>2 DEF ListenersAreListed, QueueOK
<1>6. NoLostWakeup'
  BY <1>0, <1>1, <1>2, WakeupsAreKept DEF QueueOK
<1> QED
  BY <1>3, <1>4, <1>5, <1>6 DEF SemInv, LockStep

\* ... and then signal the event.
LEMMA SignalStep ==
    ASSUME SemInv, NEW c \in Clients, Signal(c)
    PROVE  SemInv' /\ UNCHANGED Holders
<1> USE DEF Modes
<1>0. SemTypeOK /\ PermitsAddUp /\ QueueOK(asleep, awake, Listening) /\ NoLostWakeup
  BY DEF SemInv, ListenersAreListed
<1>1. Notify(asleep, awake, Permits(c)) /\ UNCHANGED counter
  BY DEF Signal
<1>2. /\ mode' \in [Clients -> Modes] /\ \A d \in Clients \ {c} : mode'[d] = mode[d]
      /\ Holders' = Holders /\ Listening' = Listening
      /\ mode'[c] \in {"idle", "pause"}
  <2>1. CASE Move(c, "freed", "idle")
    BY <1>0, <2>1, MoveIsLocal DEF Attends
  <2>2. CASE Move(c, "yielded", "pause")
    BY <1>0, <2>2, MoveIsLocal DEF Attends
  <2> QED
    BY <2>1, <2>2 DEF Signal
<1>3. /\ QueueOK(asleep', awake', Listening) /\ awake \subseteq awake'
      /\ Listening = {} \/ awake' # {}
      /\ c \notin Readers => awake' = Listening
  BY <1>0, <1>1, SignalIsListed
<1>4. ListenersAreListed' /\ awake' \in SUBSET Clients
  BY <1>2, <1>3 DEF ListenersAreListed, QueueOK
<1>5. SemTypeOK' /\ PermitsAddUp'
  BY <1>0, <1>1, <1>2, OthersKeepPermits DEF SemTypeOK
<1>6. NoLostWakeup'
  <2>1. SUFFICES ASSUME NEW d \in Clients, mode'[d] = "wait", d \notin awake'
                 PROVE  IF d \in Readers
                        THEN \E w \in Clients \ Readers : mode'[w] \in {"held", "freed", "yielded"}
                        ELSE \E e \in Clients :
                                mode'[e] \in {"held", "freed", "yielded", "try", "retry"} \/ e \in awake'
    BY DEF NoLostWakeup
  <2>2. d # c /\ mode[d] = "wait" /\ d \notin awake /\ d \in Listening
    BY <1>2, <1>3, <2>1 DEF Listening
  <2>3. CASE d \in Readers
    <3>1. PICK w \in Clients \ Readers : mode[w] \in {"held", "freed", "yielded"}
      BY <1>0, <2>2, <2>3 DEF NoLostWakeup
    <3>2. w # c
      BY <1>3, <2>1, <2>2, <3>1
    <3> QED
      BY <1>2, <2>3, <3>1, <3>2
  <2>4. CASE d \notin Readers
    BY <1>3, <1>4, <2>2, <2>4
  <2> QED
    BY <2>3, <2>4
<1> QED
  BY <1>2, <1>4, <1>5, <1>6 DEF SemInv

\* The invariant holds in the new semaphore.
LEMMA InitHolds == SemInit => SemInv /\ Lock!Init
<1>1. SUFFICES ASSUME SemInit PROVE SemInv /\ Lock!Init
  OBVIOUS
<1>2. Holders = {} /\ Listening = {} /\ Elements(asleep) = {}
  BY <1>1 DEF SemInit, Holders, Listening, Elements
<1>3. Cardinality(Holders) = 0
  BY <1>2, FS_EmptySet
<1>4. SemTypeOK /\ PermitsAddUp
  BY <1>1, <1>2, <1>3, SemaphoreAssumption DEF SemInit, SemTypeOK, PermitsAddUp, Modes
<1>5. ListenersAreListed
  BY <1>1, <1>2 DEF SemInit, ListenersAreListed, QueueOK
<1>6. NoLostWakeup
  BY <1>1 DEF SemInit, NoLostWakeup
<1> QED
  BY <1>2, <1>4, <1>5, <1>6 DEF SemInv, Lock!Init

\* Every step keeps the invariant and is a step of RwLock or leaves the holders alone.
LEMMA StepHolds == SemInv /\ [SemNext]_semVars => SemInv' /\ (LockStep \/ UNCHANGED Holders)
<1>1. SUFFICES ASSUME SemInv, [SemNext]_semVars PROVE SemInv' /\ (LockStep \/ UNCHANGED Holders)
  OBVIOUS
<1>2. CASE UNCHANGED semVars
  BY <1>1, <1>2 DEF semVars, SemInv, SemTypeOK, PermitsAddUp, ListenersAreListed, QueueOK,
                    NoLostWakeup, Holders, Listening, Elements
<1>3. ASSUME NEW c \in Clients, Acquire(c) \/ InCall(c) \/ Release(c) \/ Yield(c) \/ Cancel(c)
      PROVE  SemInv' /\ (LockStep \/ UNCHANGED Holders)
  BY <1>1, <1>3, AcquireStep, TryAcquireStep, ListenStep, EndWaitStep, SignalStep, ReleaseStep,
     CancelStep DEF InCall
<1> QED
  BY <1>1, <1>2, <1>3 DEF SemNext

(***************************************************************************)
(* Theorems                                                                *)
(***************************************************************************)
\* The invariant holds throughout.
LEMMA InvariantHolds == SemSpec => []SemInv
BY InitHolds, StepHolds, PTL DEF SemSpec

\* A writer of RfRwLock holds it alone, in every state that the steps of try_acquire,
\* release and blocking_yield can reach.
THEOREM WritersAreAlone == SemSpec => []Exclusive
<1>1. SemInv => Exclusive
  BY DEF SemInv, PermitsAddUp, Exclusive
<1> QED
  BY <1>1, InvariantHolds, PTL

\* acquire and release lose no wakeup: while a client sleeps in its wait, someone is left
\* who will signal or try.
THEOREM WakeupsAreNeverLost == SemSpec => []NoLostWakeup
<1>1. SemInv => NoLostWakeup
  BY DEF SemInv
<1> QED
  BY <1>1, InvariantHolds, PTL

\* The semaphore with its event implements the lock that RwLock describes.
THEOREM ImplementsRwLock == SemSpec => RefinesRwLock
<1>1. SemInv /\ [SemNext]_semVars => [Lock!Next]_Holders
  BY StepHolds DEF LockStep, Lock!Next
<1> QED
  BY <1>1, InitHolds, InvariantHolds, PTL DEF SemSpec, RefinesRwLock, Lock!Spec
=============================================================================
