----------------------------- MODULE ThreadPool -----------------------------
(***************************************************************************)
(* ThreadPool.cpp and ProcessManager::run: the main thread starts the      *)
(* workers and pushes the three tasks of the server to the queue of the    *)
(* pool; a worker that has found a task runs it for ever and never asks    *)
(* for another one.  The threads meet in a QueueT, which is part of this   *)
(* module: the workers are its consumers, the main thread its producer.    *)
(***************************************************************************)
EXTENDS QueueT, Naturals

CONSTANTS Main,
          Order     \* the tasks, in the order they are pushed

ASSUME PoolAssumption ==
    /\ Producers = {Main}
    /\ Range(Order) \subseteq Items
    /\ IsInjective(Order)
    /\ Len(Order) <= Cardinality(Consumers)

VARIABLES started,      \* threads_
          pushed        \* how many tasks have been pushed

poolVars == <<queue, out, hand, pc, started, pushed>>

PoolInit == Init /\ started = {} /\ pushed = 0

\* pthread_create, for one worker after the other.
Start ==
    /\ \E w \in Consumers \ started : started' = started \cup {w}
    /\ UNCHANGED <<vars, pushed>>

\* push_task, once all workers have been created.
PushTask ==
    /\ started = Consumers /\ pushed < Len(Order)
    /\ CallEnqueue(Main)
    /\ hand'[Main] = Order[pushed + 1]
    /\ pushed' = pushed + 1
    /\ UNCHANGED started

MainStep == Start \/ PushTask \/ (Enqueue(Main) /\ UNCHANGED <<started, pushed>>)

\* A worker asks as long as it has found nothing.
Asks(w) == out[w] = Nothing /\ CallDequeue(w)

Worker(w) ==
    /\ w \in started
    /\ Asks(w) \/ Dequeue(w)
    /\ UNCHANGED <<started, pushed>>

WokenUnasked ==
    /\ \E w \in Consumers \cap started : WakeUnasked(w)
    /\ UNCHANGED <<started, pushed>>

PoolNext == MainStep \/ WokenUnasked \/ \E w \in Consumers : Worker(w)

\* The threads are scheduled.
PoolFairness == WF_poolVars(MainStep) /\ \A w \in Consumers : WF_poolVars(Worker(w))

PoolSpec == PoolInit /\ [][PoolNext]_poolVars /\ PoolFairness

-----------------------------------------------------------------------------
\* Each task that has been pushed gets a worker of its own and keeps it.
\* Three tasks pushed one right after the other wake one worker only; the
\* others come by when their timeout has passed.
TasksRun ==
    \A n \in 1 .. Len(Order) :
        (pushed >= n) ~> [](\E w \in Consumers : out[w] = Order[n])

=============================================================================
