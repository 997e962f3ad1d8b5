--------------------------- MODULE BlockingQueue ---------------------------
(***************************************************************************)
(* What a queue promises to the threads that share it, and what Pipeline   *)
(* takes it for: elements are appended and taken one at a time, in order,  *)
(* each by one thread, and a thread that asks may be sent away with        *)
(* nothing.                                                                *)
(***************************************************************************)
EXTENDS Sequences

CONSTANTS Consumers, Items, Nothing

VARIABLES queue,    \* the elements, oldest first
          out       \* what the last dequeue of each consumer has brought

vars == <<queue, out>>

Init == queue = <<>> /\ out = [c \in Consumers |-> Nothing]

Put == \E i \in Items : queue' = Append(queue, i) /\ UNCHANGED out

Take(c) ==
    /\ queue # <<>>
    /\ out' = [out EXCEPT ![c] = Head(queue)]
    /\ queue' = Tail(queue)

Drop(c) == out' = [out EXCEPT ![c] = Nothing] /\ UNCHANGED queue

Next == Put \/ \E c \in Consumers : Take(c) \/ Drop(c)

\* What is in the queue is taken, as long as somebody keeps asking.
Fairness == WF_vars(\E c \in Consumers : Take(c))

Spec == Init /\ [][Next]_vars /\ Fairness
=============================================================================
