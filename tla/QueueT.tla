------------------------------- MODULE QueueT -------------------------------
(***************************************************************************)
(* QueueT.h: a queue with a mutex and a condition variable, which is       *)
(* signalled only when an element enters an empty queue.                   *)
(*                                                                         *)
(* What a thread does while it has the mutex is one step.  The signal is   *)
(* sent after the mutex has been released, in a step of its own.           *)
(***************************************************************************)
EXTENDS Sequences, FiniteSets, Functions

CONSTANTS Producers, Consumers, Items,
          Nothing      \* no element

ASSUME QueueAssumption ==
    /\ Producers \cap Consumers = {}
    /\ Consumers # {}
    /\ Nothing \notin Items

VARIABLES
    queue,      \* m_queue
    out,        \* per consumer: what its last dequeue has brought
    hand,       \* per producer: the element it enqueues
    pc          \* where each thread is

vars == <<queue, out, hand, pc>>

\* An element in nobody's hands: like a Buf, it is not enqueued twice.
Free(i) == i \notin Range(queue) \cup Range(out) \cup Range(hand)

Waiting == {c \in Consumers : pc[c] = "wait"}

Init ==
    /\ queue = <<>>
    /\ out = [c \in Consumers |-> Nothing]
    /\ hand = [p \in Producers |-> Nothing]
    /\ pc = [t \in Producers \cup Consumers |-> "out"]

-----------------------------------------------------------------------------
(* enqueue                                                                 *)

CallEnqueue(p) ==
    /\ pc[p] = "out"
    /\ \E i \in Items : Free(i) /\ hand' = [hand EXCEPT ![p] = i]
    /\ pc' = [pc EXCEPT ![p] = "enter"]
    /\ UNCHANGED <<queue, out>>

\* Mutant of NeedsSignal: the branches are swapped.
SignalsWhenBusy == queue # <<>>

NeedsSignal == queue = <<>>

\* Mutant of Push: the element goes to the front.
PushFront(p) ==
    /\ pc[p] = "enter"
    /\ queue' = <<hand[p]>> \o queue
    /\ hand' = [hand EXCEPT ![p] = Nothing]
    /\ pc' = [pc EXCEPT ![p] = IF NeedsSignal THEN "signal" ELSE "out"]
    /\ UNCHANGED out

\* Mutant of Push: the producer enqueues the element again and again.
PushKeepsHand(p) ==
    /\ pc[p] = "enter"
    /\ queue' = Append(queue, hand[p])
    /\ pc' = [pc EXCEPT ![p] = IF NeedsSignal THEN "signal" ELSE "out"]
    /\ UNCHANGED <<hand, out>>

Push(p) ==
    /\ pc[p] = "enter"
    /\ queue' = Append(queue, hand[p])
    /\ hand' = [hand EXCEPT ![p] = Nothing]
    /\ pc' = [pc EXCEPT ![p] = IF NeedsSignal THEN "signal" ELSE "out"]
    /\ UNCHANGED out

\* pthread_cond_signal: one of those who wait, if there is any.
Signal(p) ==
    /\ pc[p] = "signal"
    /\ \/ /\ Waiting = {}
          /\ pc' = [pc EXCEPT ![p] = "out"]
       \/ \E c \in Waiting : pc' = [pc EXCEPT ![p] = "out", ![c] = "woken"]
    /\ UNCHANGED <<queue, out, hand>>

-----------------------------------------------------------------------------
(* dequeue                                                                 *)

CallDequeue(c) ==
    /\ pc[c] = "out"
    /\ out' = [out EXCEPT ![c] = Nothing]
    /\ pc' = [pc EXCEPT ![c] = "enter"]
    /\ UNCHANGED <<queue, hand>>

\* The mutex is taken, at first or on the way out of the wait: the queue is
\* looked at.
Take(c) ==
    /\ pc[c] \in {"enter", "woken"}
    /\ queue # <<>>
    /\ out' = [out EXCEPT ![c] = Head(queue)]
    /\ queue' = Tail(queue)
    /\ pc' = [pc EXCEPT ![c] = "out"]
    /\ UNCHANGED hand

Wait(c) ==
    /\ pc[c] \in {"enter", "woken"}
    /\ queue = <<>>
    /\ pc' = [pc EXCEPT ![c] = "wait"]
    /\ UNCHANGED <<queue, out, hand>>

\* pthread_cond_timedwait may return without a signal.
WakeUnasked(c) ==
    /\ pc[c] = "wait"
    /\ pc' = [pc EXCEPT ![c] = "woken"]
    /\ UNCHANGED <<queue, out, hand>>

\* Mutant of Expire: the wait has no end.
NeverExpires(c) == pc[c] = "none" /\ UNCHANGED vars

\* The deadline passes.
Expire(c) ==
    /\ pc[c] = "wait"
    /\ pc' = [pc EXCEPT ![c] = "expired"]
    /\ UNCHANGED <<queue, out, hand>>

\* dequeue returns -1 without another look at the queue.
GiveUp(c) ==
    /\ pc[c] = "expired"
    /\ pc' = [pc EXCEPT ![c] = "out"]
    /\ UNCHANGED <<queue, out, hand>>

-----------------------------------------------------------------------------
Enqueue(p) == Push(p) \/ Signal(p)

Dequeue(c) == Take(c) \/ Wait(c) \/ Expire(c) \/ GiveUp(c)

Next ==
    \/ \E p \in Producers : CallEnqueue(p) \/ Enqueue(p)
    \/ \E c \in Consumers : CallDequeue(c) \/ Dequeue(c) \/ WakeUnasked(c)

\* A call goes on until it returns, and consumers call again and again.
Fairness ==
    /\ \A p \in Producers : WF_vars(Enqueue(p))
    /\ \A c \in Consumers : WF_vars(CallDequeue(c) \/ Dequeue(c))

Spec == Init /\ [][Next]_vars /\ Fairness

-----------------------------------------------------------------------------
(* What holds.                                                             *)

\* The variables keep their types, and a producer has an element in its hand
\* exactly between its call and its push.
TypeOK ==
    /\ queue \in Seq(Items)
    /\ out \in [Consumers -> Items \cup {Nothing}]
    /\ hand \in [Producers -> Items \cup {Nothing}]
    /\ pc \in [Producers \cup Consumers -> {"out", "enter", "signal", "wait", "woken", "expired"}]
    /\ \A p \in Producers : pc[p] = "enter" <=> hand[p] # Nothing
    /\ \A c \in Consumers : pc[c] # "signal"
    /\ \A c \in Consumers : pc[c] # "out" => out[c] = Nothing

\* Not everybody sleeps over a queue with something in it, unless the signal
\* is on its way: an element that enters an empty queue is looked for.  With
\* one consumer, as recvqueue and sendqueue have, no element ever waits for a
\* timeout.
SomebodyLooks ==
    queue # <<>> /\ Waiting = Consumers => \E p \in Producers : pc[p] = "signal"

\* The queue implements the atomic one, its liveness included: whoever returns
\* looks for the elements that nobody was woken for.
Atomic == INSTANCE BlockingQueue
IsBlockingQueue == Atomic!Spec

=============================================================================
