------------------------------ MODULE Semaphore ------------------------------
(***************************************************************************)
(* The non-fair semaphore under the readers-first lock RfRwLock: a counter *)
(* of free permits and an event on which clients listen.  A reader takes   *)
(* one permit and a writer all of them.  Taking permits, listening and     *)
(* signalling are steps of their own, in between which the other threads   *)
(* run.                                                                    *)
(***************************************************************************)
EXTENDS Integers, Sequences, FiniteSets

CONSTANTS Clients,
          Readers,      \* the clients that read; the others write
          MaxPermits

\* There are fewer threads than permits: usize::MAX.
ASSUME SemaphoreAssumption ==
    /\ IsFiniteSet(Clients) /\ Readers \subseteq Clients
    /\ MaxPermits \in Nat /\ Cardinality(Clients) < MaxPermits

VARIABLES counter,
          mode,         \* where each client is in acquire, release or blocking_yield
          asleep,       \* the listeners of the event that are not notified, oldest first
          awake         \* the listeners that are

semVars == <<counter, mode, asleep, awake>>

Modes == {"idle", "try", "listen", "retry", "wait", "held", "freed", "yielded", "pause", "paused"}

Permits(c) == IF c \in Readers THEN 1 ELSE MaxPermits

Listening == {c \in Clients : mode[c] \in {"retry", "wait", "paused"}}
Holders == {c \in Clients : mode[c] = "held"}

SemInit ==
    /\ counter = MaxPermits
    /\ mode = [c \in Clients |-> "idle"]
    /\ asleep = <<>>
    /\ awake = {}

Elements(s) == {s[i] : i \in 1..Len(s)}

Move(c, from, to) == mode[c] = from /\ mode' = [mode EXCEPT ![c] = to]

(***************************************************************************)
(* The event (event_listener)                                              *)
(***************************************************************************)
TakeOut(s, c) ==
    LET at == CHOOSE i \in 1..Len(s) : s[i] = c
    IN  [i \in 1..Len(s) - 1 |-> IF i < at THEN s[i] ELSE s[i + 1]]

\* notify(n): the oldest listeners are notified until at least n are.
Notify(s, a, n) ==
    LET more == IF n <= Cardinality(a) THEN 0
                ELSE IF n - Cardinality(a) > Len(s) THEN Len(s) ELSE n - Cardinality(a)
    IN  /\ awake' = a \cup {s[i] : i \in 1..more}
        /\ asleep' = SubSeq(s, more + 1, Len(s))

Listen(c, from, to) ==
    /\ Move(c, from, to)
    /\ asleep' = Append(asleep, c)
    /\ UNCHANGED <<counter, awake>>

\* A listener that is dropped passes its notification on.
DropListener(c) ==
    IF c \in awake THEN Notify(asleep, awake \ {c}, 1)
    ELSE asleep' = TakeOut(asleep, c) /\ UNCHANGED awake

\* A listener whose wait ends, by a notification or a timeout, does not.
EndWait(c) ==
    IF c \in awake THEN awake' = awake \ {c} /\ UNCHANGED asleep
    ELSE asleep' = TakeOut(asleep, c) /\ UNCHANGED awake

(***************************************************************************)
(* acquire and blocking_acquire                                            *)
(***************************************************************************)
Acquire(c) == Move(c, "idle", "try") /\ UNCHANGED <<counter, asleep, awake>>

\* Mutant of TakePermits: one permit too few is enough.
TakePermits_OffByOne(c) == counter + 1 >= Permits(c) /\ counter' = counter - Permits(c)

TakePermits(c) == counter >= Permits(c) /\ counter' = counter - Permits(c)
FindTooFew(c) == counter < Permits(c) /\ UNCHANGED <<counter, asleep, awake>>

\* try_acquire without a listener, and with the one that was made after it failed.
TryAcquire(c) ==
    \/ Move(c, "try", "held") /\ TakePermits(c) /\ UNCHANGED <<asleep, awake>>
    \/ Move(c, "try", "listen") /\ FindTooFew(c)
    \/ Move(c, "retry", "held") /\ TakePermits(c) /\ DropListener(c)
    \/ Move(c, "retry", "wait") /\ FindTooFew(c)

\* Mutant of ListenAgain: try_acquire is not called again once the listener is there.
ListenAgain_NoRetry(c) == Listen(c, "listen", "wait")

ListenAgain(c) == Listen(c, "listen", "retry")

Wake(c) ==
    /\ Move(c, "wait", "try")
    /\ c \in awake
    /\ EndWait(c)
    /\ UNCHANGED counter

\* The future of an asynchronous acquire is dropped while it waits.
Cancel(c) == Move(c, "wait", "idle") /\ DropListener(c) /\ UNCHANGED counter

(***************************************************************************)
(* release and blocking_yield                                              *)
(***************************************************************************)
GivePermits(c) == counter' = counter + Permits(c) /\ UNCHANGED <<asleep, awake>>

Release(c) == Move(c, "held", "freed") /\ GivePermits(c)
Yield(c) == Move(c, "held", "yielded") /\ GivePermits(c)

Signal(c) ==
    /\ Move(c, "freed", "idle") \/ Move(c, "yielded", "pause")
    /\ Notify(asleep, awake, Permits(c))
    /\ UNCHANGED counter

\* The yielding thread waits for a signal or 30 microseconds.
Pause(c) == Listen(c, "pause", "paused")
EndPause(c) == Move(c, "paused", "try") /\ EndWait(c) /\ UNCHANGED counter

(***************************************************************************)
(* What a thread does inside a call, and all of it                         *)
(***************************************************************************)
InCall(c) == TryAcquire(c) \/ ListenAgain(c) \/ Wake(c) \/ Signal(c) \/ Pause(c) \/ EndPause(c)

SemNext == \E c \in Clients : Acquire(c) \/ InCall(c) \/ Release(c) \/ Yield(c) \/ Cancel(c)

SemSpec == SemInit /\ [][SemNext]_semVars

(***************************************************************************)
(* Properties                                                              *)
(***************************************************************************)
\* RfRwLock: a client that writes holds the lock alone.
Exclusive == \A c \in Holders \ Readers : Holders = {c}

\* The semaphore with its event is the lock that RwLock describes.
Lock == INSTANCE RwLock WITH holders <- Holders
RefinesRwLock == Lock!Spec

\* No wakeup is lost.  A client whose wait ends only with a notification has not got one:
\* then, for a reader, a writer holds the lock or is about to signal; for a writer,
\* someone holds it, is about to signal, has been notified or is about to try.
NoLostWakeup ==
    \A c \in Clients : mode[c] = "wait" /\ c \notin awake =>
        IF c \in Readers
        THEN \E w \in Clients \ Readers : mode[w] \in {"held", "freed", "yielded"}
        ELSE \E d \in Clients :
                \/ mode[d] \in {"held", "freed", "yielded", "try", "retry"}
                \/ d \in awake
==============================================================================
