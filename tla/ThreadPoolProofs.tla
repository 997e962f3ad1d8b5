-------------------------- MODULE ThreadPoolProofs --------------------------
(***************************************************************************)
(* What TLAPS proves of QueueT for any producers, consumers and elements,  *)
(* and of ThreadPool for any workers and tasks: the pool does with its     *)
(* queue what QueueT allows, so what is proved of the queue holds in it.   *)
(***************************************************************************)
EXTENDS ThreadPool, TLAPS

-----------------------------------------------------------------------------
(* The queue.                                                              *)

\* Each step keeps the types.
LEMMA StepKeepsTypes == QueueAssumption /\ TypeOK /\ [Next]_vars => TypeOK'
<1> SUFFICES ASSUME QueueAssumption, TypeOK, [Next]_vars PROVE TypeOK'
  OBVIOUS
<1> USE DEF TypeOK, QueueAssumption
<1>1. ASSUME NEW p \in Producers, CallEnqueue(p) PROVE TypeOK'
  <2>1. PICK i \in Items : hand' = [hand EXCEPT ![p] = i]
    BY <1>1 DEF CallEnqueue
  <2>2. i # Nothing /\ p \notin Consumers
    OBVIOUS
  <2>3. QED
    BY <1>1, <2>1, <2>2 DEF CallEnqueue
<1>2. ASSUME NEW p \in Producers, Push(p) PROVE TypeOK'
  <2>1. hand[p] \in Items
    BY <1>2 DEF Push
  <2>2. Append(queue, hand[p]) \in Seq(Items)
    BY <2>1
  <2>3. QED
    BY <1>2, <2>2 DEF Push
<1>3. ASSUME NEW p \in Producers, Signal(p) PROVE TypeOK'
  <2>1. CASE Waiting = {} /\ pc' = [pc EXCEPT ![p] = "out"]
    BY <1>3, <2>1 DEF Signal
  <2>2. ASSUME NEW c \in Waiting, pc' = [pc EXCEPT ![p] = "out", ![c] = "woken"]
        PROVE  TypeOK'
    BY <1>3, <2>2 DEF Signal, Waiting
  <2>3. QED
    BY <1>3, <2>1, <2>2 DEF Signal
<1>4. ASSUME NEW c \in Consumers, CallDequeue(c) PROVE TypeOK'
  BY <1>4 DEF CallDequeue
<1>5. ASSUME NEW c \in Consumers, Take(c) PROVE TypeOK'
  <2>1. Head(queue) \in Items /\ Tail(queue) \in Seq(Items)
    BY <1>5 DEF Take
  <2>2. QED
    BY <1>5, <2>1 DEF Take
<1>6. ASSUME NEW c \in Consumers, Wait(c) \/ WakeUnasked(c) \/ Expire(c) \/ GiveUp(c)
      PROVE  TypeOK'
  BY <1>6 DEF Wait, WakeUnasked, Expire, GiveUp
<1>7. CASE UNCHANGED vars
  BY <1>7 DEF vars
<1>8. QED
  BY <1>1, <1>2, <1>3, <1>4, <1>5, <1>6, <1>7 DEF Next, Enqueue, Dequeue

\* The variables keep their types: an element is in the hand of a producer
\* exactly between its call of enqueue and the push.
THEOREM TypeCorrect == Spec => []TypeOK
<1>1. QueueAssumption
  BY QueueAssumption
<1>2. Init => TypeOK
  BY <1>1 DEF Init, TypeOK, QueueAssumption
<1>3. QED
  BY <1>1, <1>2, StepKeepsTypes, PTL DEF Spec

\* No step leaves all consumers asleep over an element.
LEMMA StepKeepsLooking ==
    QueueAssumption /\ TypeOK /\ SomebodyLooks /\ [Next]_vars => SomebodyLooks'
<1> SUFFICES ASSUME QueueAssumption, TypeOK, SomebodyLooks, [Next]_vars
             PROVE  SomebodyLooks'
  OBVIOUS
<1> USE DEF SomebodyLooks, Waiting, TypeOK, QueueAssumption
<1>1. ASSUME NEW p \in Producers, CallEnqueue(p) PROVE SomebodyLooks'
  BY <1>1 DEF CallEnqueue
<1>2. ASSUME NEW p \in Producers, Push(p) PROVE SomebodyLooks'
  <2>1. CASE queue = <<>>
    BY <1>2, <2>1 DEF Push, NeedsSignal
  <2>2. CASE queue # <<>>
    BY <1>2, <2>2 DEF Push, NeedsSignal
  <2>3. QED
    BY <2>1, <2>2
<1>3. ASSUME NEW p \in Producers, Signal(p) PROVE SomebodyLooks'
  <2>1. CASE Waiting = {} /\ pc' = [pc EXCEPT ![p] = "out"]
    <3>1. PICK c \in Consumers : pc[c] # "wait"
      BY <2>1
    <3>2. pc'[c] # "wait"
      BY <2>1, <3>1
    <3>3. QED
      BY <3>2
  <2>2. ASSUME NEW c \in Waiting, pc' = [pc EXCEPT ![p] = "out", ![c] = "woken"]
        PROVE  SomebodyLooks'
    <3>1. c \in Consumers /\ pc'[c] = "woken"
      BY <2>2
    <3>2. QED
      BY <3>1
  <2>3. QED
    BY <1>3, <2>1, <2>2 DEF Signal
<1>4. ASSUME NEW c \in Consumers,
             CallDequeue(c) \/ Take(c) \/ WakeUnasked(c) \/ Expire(c) \/ GiveUp(c)
      PROVE  SomebodyLooks'
  <2>1. pc'[c] # "wait"
    BY <1>4 DEF CallDequeue, Take, WakeUnasked, Expire, GiveUp
  <2>2. QED
    BY <2>1
<1>5. ASSUME NEW c \in Consumers, Wait(c) PROVE SomebodyLooks'
  BY <1>5 DEF Wait
<1>6. CASE UNCHANGED vars
  BY <1>6 DEF vars
<1>7. QED
  BY <1>1, <1>2, <1>3, <1>4, <1>5, <1>6 DEF Next, Enqueue, Dequeue

\* QueueT.h:57-73: nobody being woken for an element that enters a queue
\* with elements in it never leaves all consumers asleep.
THEOREM WorkIsLookedFor == Spec => []SomebodyLooks
<1>1. Init => SomebodyLooks
  BY DEF Init, SomebodyLooks
<1>2. QED
  BY <1>1, StepKeepsLooking, TypeCorrect, QueueAssumption, PTL DEF Spec

\* Push and take are the steps of the atomic queue; the rest it does not see.
LEMMA StepIsAtomic == TypeOK /\ [Next]_vars => [Atomic!Next]_Atomic!vars
<1> SUFFICES ASSUME TypeOK, [Next]_vars PROVE [Atomic!Next]_Atomic!vars
  OBVIOUS
<1>1. ASSUME NEW p \in Producers, Push(p) PROVE Atomic!Next
  <2>1. hand[p] \in Items
    BY <1>1 DEF Push, TypeOK
  <2>2. QED
    BY <1>1, <2>1 DEF Push, Atomic!Next, Atomic!Put
<1>2. ASSUME NEW c \in Consumers, Take(c) PROVE Atomic!Next
  BY <1>2 DEF Take, Atomic!Next, Atomic!Take
<1>3. ASSUME NEW c \in Consumers, CallDequeue(c) PROVE Atomic!Next
  BY <1>3 DEF CallDequeue, Atomic!Next, Atomic!Drop
<1>4. ASSUME NEW t, CallEnqueue(t) \/ Signal(t) \/ Wait(t) \/ WakeUnasked(t)
                    \/ Expire(t) \/ GiveUp(t)
      PROVE  UNCHANGED Atomic!vars
  BY <1>4 DEF CallEnqueue, Signal, Wait, WakeUnasked, Expire, GiveUp, Atomic!vars
<1>5. CASE UNCHANGED vars
  BY <1>5 DEF vars, Atomic!vars
<1>6. QED
  BY <1>1, <1>2, <1>3, <1>4, <1>5 DEF Next, Enqueue, Dequeue

\* Every behaviour of the queue is one of the atomic queue that Pipeline takes
\* it for, as far as safety goes.
THEOREM ImplementsAtomicQueue ==
    Spec => Atomic!Init /\ [][Atomic!Next]_Atomic!vars
<1>1. Init => Atomic!Init
  BY DEF Init, Atomic!Init
<1>2. QED
  BY <1>1, StepIsAtomic, TypeCorrect, PTL DEF Spec

-----------------------------------------------------------------------------
(* The pool.                                                               *)

\* Every step of the pool is one of the queue, or leaves the queue alone.
LEMMA PoolStepIsQueueStep == PoolAssumption /\ [PoolNext]_poolVars => [Next]_vars
<1> SUFFICES ASSUME PoolAssumption, [PoolNext]_poolVars PROVE [Next]_vars
  OBVIOUS
<1>1. Main \in Producers
  BY DEF PoolAssumption
<1>2. CASE MainStep
  BY <1>1, <1>2 DEF MainStep, Start, PushTask, Next
<1>3. CASE WokenUnasked
  <2>1. PICK w \in Consumers : WakeUnasked(w)
    BY <1>3 DEF WokenUnasked
  <2>2. QED
    BY <2>1 DEF Next
<1>4. ASSUME NEW w \in Consumers, Worker(w) PROVE Next
  BY <1>4 DEF Worker, Asks, Next
<1>5. CASE UNCHANGED poolVars
  BY <1>5 DEF poolVars, vars
<1>6. QED
  BY <1>2, <1>3, <1>4, <1>5 DEF PoolNext

\* The tasks of the server lie in a queue that keeps its types and over which
\* the workers never all sleep without a signal on its way, though each worker
\* that has found a task leaves it for good.
THEOREM TasksAreLookedFor == PoolSpec => [](TypeOK /\ SomebodyLooks)
<1>1. PoolInit => TypeOK /\ SomebodyLooks
  BY QueueAssumption DEF PoolInit, Init, TypeOK, SomebodyLooks, QueueAssumption
<1>2. TypeOK /\ SomebodyLooks /\ [PoolNext]_poolVars => (TypeOK /\ SomebodyLooks)'
  BY PoolStepIsQueueStep, StepKeepsTypes, StepKeepsLooking, QueueAssumption, PoolAssumption
<1>3. QED
  BY <1>1, <1>2, PTL DEF PoolSpec

\* The queue of the pool implements the atomic queue, as far as safety goes.
THEOREM PoolHasAtomicQueue ==
    PoolSpec => Atomic!Init /\ [][Atomic!Next]_Atomic!vars
<1>1. PoolInit => Atomic!Init
  BY DEF PoolInit, Init, Atomic!Init
<1>2. TypeOK /\ [PoolNext]_poolVars => [Atomic!Next]_Atomic!vars
  BY PoolStepIsQueueStep, StepIsAtomic, PoolAssumption
<1>3. QED
  BY <1>1, <1>2, TasksAreLookedFor, PTL DEF PoolSpec

=============================================================================
