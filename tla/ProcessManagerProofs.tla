------------------------ MODULE ProcessManagerProofs ------------------------
(***************************************************************************)
(* What TLAPS proves of starting and stopping, for any number of processes *)
(* and whichever of the calls on the file .lock may fail.                  *)
(***************************************************************************)
EXTENDS ProcessManager, TLAPS

Locked == {"truncate", "write", "init", "up", "unlock"}

\* Between its lock and its end a process has the lock.
Holds == \A p \in Pids : pc[p] \in Locked => holder = p

\* What the one who has the lock has made of the file.
Names ==
    \A p \in Pids :
        /\ pc[p] \in {"init", "up", "unlock"} => file = IF p \in nameless THEN Nobody ELSE p
        /\ pc[p] = "write" => file = Nobody

\* A process that has not written yet has reported nothing.
Silent == \A p \in Pids : pc[p] \notin {"init", "up", "unlock", "done", "aborted"} => p \notin nameless

\* A stop that has read the id of a server holds that id.
Reads == \A p \in Pids : pc[p] = "kill" /\ found[p] # Nobody => victim[p] = found[p]

IInv == TypeOK /\ Holds /\ Names /\ Silent /\ Reads

-----------------------------------------------------------------------------
LEMMA ServerIsNamed ==
    ASSUME ProcessManagerAssumption
    PROVE  /\ TheServer \in Pids \cup {Nobody}
           /\ TheServer # Nobody => TheServer \in Named
  BY DEF TheServer, Named

LEMMA EndKeeps ==
    ASSUME ProcessManagerAssumption, IInv, NEW p \in Pids, Ends(p)
    PROVE  IInv'
<1> USE DEF IInv, TypeOK, ProcessManagerAssumption
<1>1. /\ pc' = [pc EXCEPT ![p] = "free"]
      /\ holder' = IF holder = p THEN Nobody ELSE holder
      /\ victim' = [victim EXCEPT ![p] = Nobody]
      /\ found' = [found EXCEPT ![p] = Nobody]
      /\ signalled' = signalled \ {p}
      /\ nameless' = nameless \ {p}
      /\ job' = job /\ file' = file
  BY DEF Ends
<1>2. TypeOK'
  <2>1. nameless' \subseteq Living' /\ signalled' \subseteq Living'
    BY <1>1 DEF Living, Alive
  <2>2. QED
    BY <1>1, <2>1
<1>3. Holds'
  BY <1>1 DEF Holds, Locked
<1>4. Names'
  BY <1>1 DEF Names
<1>5. Silent'
  BY <1>1 DEF Silent
<1>6. Reads'
  BY <1>1 DEF Reads
<1>7. QED
  BY <1>2, <1>3, <1>4, <1>5, <1>6

\* The steps that touch neither the lock nor the file, nor read it.
LEMMA MoveKeeps ==
    ASSUME ProcessManagerAssumption, IInv, NEW p \in Pids,
           UNCHANGED <<holder, file, nameless, victim, found>>,
           pc' \in [Pids -> {"free", "at work", "fork", "lock", "truncate", "write", "init",
                             "up", "unlock", "cat", "kill", "done", "aborted"}],
           job' \in [Pids -> {"-d", "-s", "-u", "other"}],
           signalled' \subseteq Living',
           Living \subseteq Living',
           \A q \in Pids : \/ pc'[q] = pc[q] /\ job'[q] = job[q]
                           \/ pc'[q] \in {"done", "aborted"}
                           \/ pc'[q] \in {"at work", "fork"} /\ pc[q] = "free"
                           \/ pc'[q] = "cat" /\ job'[q] = "-u" /\ pc[q] = "lock"
                           \/ pc'[q] = "lock" /\ pc[q] \in {"free", "fork"}
                           \/ pc[q] = "init" /\ pc'[q] = "up" /\ job'[q] = job[q]
    PROVE  IInv'
<1> USE DEF IInv, TypeOK, ProcessManagerAssumption
<1>1. TypeOK'
  OBVIOUS
<1>2. Holds'
  BY DEF Holds, Locked
<1>3. Names'
  BY DEF Names
<1>4. Silent'
  BY DEF Silent, Living, Alive
<1>5. Reads'
  BY DEF Reads
<1>6. QED
  BY <1>1, <1>2, <1>3, <1>4, <1>5

LEMMA FlockKeeps ==
    ASSUME ProcessManagerAssumption, IInv, NEW p \in Pids, Flock(p)
    PROVE  IInv'
<1> USE DEF IInv, TypeOK, ProcessManagerAssumption
<1>1. /\ pc[p] = "lock" /\ pc' = [pc EXCEPT ![p] = "truncate"]
      /\ holder = Nobody /\ holder' = p
      /\ UNCHANGED <<job, file, nameless, victim, found, signalled>>
  BY DEF Flock, At
<1>2. TypeOK'
  BY <1>1 DEF Living, Alive
<1>3. \A q \in Pids : pc[q] \notin Locked
  BY <1>1 DEF Holds
<1>4. Holds' /\ Names'
  BY <1>1, <1>3 DEF Holds, Names, Locked
<1>5. Silent' /\ Reads'
  BY <1>1 DEF Silent, Reads
<1>6. QED
  BY <1>2, <1>4, <1>5

\* Who has the lock is alone in writing the file.
LEMMA FileKeeps ==
    ASSUME ProcessManagerAssumption, IInv, NEW p \in Pids,
           Truncate(p) \/ TruncateFails(p) \/ WritePid(p) \/ WriteFails(p) \/ Unlock(p)
    PROVE  IInv'
<1> USE DEF IInv, TypeOK, ProcessManagerAssumption
<1>1. /\ pc[p] \in {"truncate", "write", "unlock"}
      /\ holder' = IF Unlock(p) THEN Nobody ELSE holder
      /\ UNCHANGED <<job, victim, found, signalled>>
  BY DEF Truncate, TruncateFails, WritePid, WriteFails, Unlock, At
<1>2. \A q \in Pids : pc[q] \in Locked => q = p
  BY <1>1 DEF Holds, Locked
<1>3. \A q \in Pids \ {p} : pc'[q] = pc[q]
  BY DEF Truncate, TruncateFails, WritePid, WriteFails, Unlock, At
<1>4. TypeOK'
  BY <1>1 DEF Truncate, TruncateFails, WritePid, WriteFails, Unlock, At, Living, Alive
<1>5. Holds'
  BY <1>1, <1>2, <1>3 DEF Holds, Locked, Truncate, TruncateFails, WritePid, WriteFails,
     Unlock, At
<1>6. Names'
  <2>0. \A q \in Pids \ {p} : pc'[q] \notin Locked
    BY <1>2, <1>3
  <2> SUFFICES pc'[p] \in {"init", "up", "unlock"} =>
                  file' = IF p \in nameless' THEN Nobody ELSE p
    BY <2>0 DEF Names, Locked, Truncate, TruncateFails, WritePid, WriteFails, Unlock, At
  <2> HAVE pc'[p] \in {"init", "up", "unlock"}
  <2>2. (WritePid(p) \/ WriteFails(p)) /\ p \notin nameless
    BY DEF Truncate, TruncateFails, WritePid, WriteFails, Unlock, At, Silent
  <2>3. CASE WritePid(p)
    BY <2>2, <2>3 DEF WritePid
  <2>4. CASE WriteFails(p)
    BY <2>2, <2>4 DEF WriteFails, At, Names
  <2>5. QED
    BY <2>2, <2>3, <2>4
<1>7. Silent'
  BY <1>1, <1>3 DEF Silent, Truncate, TruncateFails, WritePid, WriteFails, Unlock, At
<1>8. Reads'
  BY <1>1, <1>3 DEF Reads, Truncate, TruncateFails, WritePid, WriteFails, Unlock, At
<1>9. QED
  BY <1>4, <1>5, <1>6, <1>7, <1>8

LEMMA CatKeeps ==
    ASSUME ProcessManagerAssumption, IInv, NEW p \in Pids, Cat(p)
    PROVE  IInv'
<1> USE DEF IInv, TypeOK, ProcessManagerAssumption
<1>1. /\ pc[p] = "cat" /\ pc' = [pc EXCEPT ![p] = "kill"]
      /\ victim' = [victim EXCEPT ![p] = file]
      /\ found' = [found EXCEPT ![p] = TheServer]
      /\ UNCHANGED <<job, holder, file, nameless, signalled>>
  BY DEF Cat, At
<1>2. TypeOK'
  BY <1>1, ServerIsNamed DEF Living, Alive
<1>3. Holds' /\ Names' /\ Silent'
  BY <1>1 DEF Holds, Names, Silent, Locked
<1>4. TheServer # Nobody => file = TheServer
  BY ServerIsNamed DEF Named, Server, Names
<1>5. Reads'
  BY <1>1, <1>4 DEF Reads
<1>6. QED
  BY <1>2, <1>3, <1>5

LEMMA StepKeepsInvariant == ProcessManagerAssumption /\ IInv /\ [Next]_vars => IInv'
<1> SUFFICES ASSUME ProcessManagerAssumption, IInv, [Next]_vars PROVE IInv'
  OBVIOUS
<1>1. ASSUME NEW p \in Pids, NEW option \in {"-d", "-s", "-u", "other"}, Exec(p, option)
      PROVE  IInv'
  <2>1. /\ UNCHANGED <<holder, file, nameless, victim, found, signalled>>
        /\ pc[p] = "free"
        /\ job' = [job EXCEPT ![p] = option]
        /\ \E to \in {"at work", "fork", "lock"} : pc' = [pc EXCEPT ![p] = to]
    BY <1>1 DEF Exec, Alive
  <2>2. Living \subseteq Living'
    BY <2>1 DEF Living, Alive, IInv, TypeOK
  <2>3. QED
    BY <2>1, <2>2, MoveKeeps DEF IInv, TypeOK
<1>2. ASSUME NEW p \in Pids, NEW child \in Pids \ {p}, Fork(p, child) PROVE IInv'
  <2>1. /\ UNCHANGED <<holder, file, nameless, victim, found, signalled>>
        /\ pc[p] = "fork" /\ pc[child] = "free"
        /\ job' = [job EXCEPT ![child] = "-d"]
        /\ pc' = [pc EXCEPT ![p] = "done", ![child] = "lock"]
    BY <1>2 DEF Fork, Alive
  <2>2. Living \subseteq Living'
    BY <2>1 DEF Living, Alive, IInv, TypeOK
  <2>3. QED
    BY <2>1, <2>2, MoveKeeps DEF IInv, TypeOK
<1>3. ASSUME NEW p \in Pids,
             ForkFails(p) \/ Refused(p) \/ Up(p) \/ NoDatabase(p) \/ Find(p)
                \/ Kill(p) \/ NothingToKill(p)
      PROVE  IInv'
  <2>1. /\ UNCHANGED <<holder, file, nameless, victim, found>>
        /\ job' = IF ForkFails(p) THEN [job EXCEPT ![p] = "-d"] ELSE job
        /\ \E to \in {"lock", "done", "up", "cat", "aborted"} : pc' = [pc EXCEPT ![p] = to]
        /\ pc[p] \in {"fork", "lock", "init", "kill"}
    BY <1>3 DEF ForkFails, Refused, Up, NoDatabase, Find, Kill, NothingToKill, At
  <2>2. Living \subseteq Living'
    BY <2>1 DEF Living, Alive, IInv, TypeOK
  <2>3. signalled' \subseteq Living'
    BY <1>3, <2>2 DEF ForkFails, Refused, Up, NoDatabase, Find, Kill, NothingToKill, IInv, TypeOK
  <2>4. \A q \in Pids : \/ pc'[q] = pc[q] /\ job'[q] = job[q]
                        \/ pc'[q] \in {"done", "aborted"}
                        \/ pc'[q] = "cat" /\ job'[q] = "-u" /\ pc[q] = "lock"
                        \/ pc'[q] = "lock" /\ pc[q] = "fork"
                        \/ pc[q] = "init" /\ pc'[q] = "up" /\ job'[q] = job[q]
    BY <1>3 DEF ForkFails, Refused, Up, NoDatabase, Find, Kill, NothingToKill, At, IInv, TypeOK
  <2>5. QED
    BY <2>1, <2>2, <2>3, <2>4, MoveKeeps DEF IInv, TypeOK
<1>4. ASSUME NEW p \in Pids, Dies(p) \/ SigTerm(p) \/ Exit(p) PROVE IInv'
  BY <1>4, EndKeeps DEF Dies, SigTerm, Exit
<1>5. ASSUME NEW p \in Pids,
             Flock(p) \/ Truncate(p) \/ TruncateFails(p) \/ WritePid(p) \/ WriteFails(p)
                \/ Unlock(p) \/ Cat(p)
      PROVE  IInv'
  BY <1>5, FlockKeeps, FileKeeps, CatKeeps
<1>6. CASE UNCHANGED vars
  BY <1>6 DEF vars, IInv, TypeOK, Living, Alive, Holds, Names, Silent, Reads
<1>7. QED
  BY <1>1, <1>2, <1>3, <1>4, <1>5, <1>6 DEF Next, Step

LEMMA InvariantHolds == Spec => []IInv
<1>1. ProcessManagerAssumption
  BY ProcessManagerAssumption
<1>2. Init => IInv
  BY <1>1 DEF Init, IInv, TypeOK, Living, Alive, Holds, Names, Silent, Reads, Locked
<1>3. QED
  BY <1>1, <1>2, StepKeepsInvariant, PTL DEF Spec

\* ProcessManager.cpp:11-68: the variables keep their types, and no start goes
\* on as a stop nor a stop as a server.
THEOREM TypeCorrect == Spec => []TypeOK
<1>1. IInv => TypeOK
  BY DEF IInv
<1>2. QED
  BY <1>1, InvariantHolds, PTL

\* ProcessManager.cpp:110-142: the file names the one server there is.
THEOREM LockIsTheServers == Spec => []LockNamesServer
<1>1. IInv => LockNamesServer
  BY DEF IInv, Holds, Names, Locked, LockNamesServer
<1>2. QED
  BY <1>1, InvariantHolds, PTL

\* ProcessManager.cpp:55-63: -u hits the server it has found and nobody else.
THEOREM StopHitsTheServer == Spec => StopsTheServer
<1>1. ProcessManagerAssumption
  BY ProcessManagerAssumption
<1>2. ASSUME ProcessManagerAssumption, IInv, NEW p \in Pids, NEW q \in Pids,
             Kill(p), found[p] = q
      PROVE  signalled' \ signalled \subseteq {q}
  BY <1>2 DEF IInv, Reads, Kill, At, ProcessManagerAssumption
<1>3. IInv /\ [Next]_vars =>
         [\A p, q \in Pids :
             Kill(p) /\ found[p] = q /\ Server(q) => signalled' \ signalled \subseteq {q}]_vars
  BY <1>1, <1>2
<1>4. QED
  BY <1>3, InvariantHolds, PTL DEF Spec, StopsTheServer

=============================================================================
