--------------------------- MODULE ProcessManager ---------------------------
(***************************************************************************)
(* Starting and stopping the server.  A start (-d or -s) takes a lock on   *)
(* the file .lock without waiting, writes its process id into the file and *)
(* serves until it is killed.  A stop (-u) tries the same lock: if it gets *)
(* it there is no server; if not, it kills whomever the file names.        *)
(*                                                                         *)
(* A step is a system call.  The kernel gives a free id to each process,   *)
(* releases the lock of one that ends, and delivers signals some time      *)
(* after kill has returned.  Ids also go to programs of others.            *)
(***************************************************************************)
EXTENDS Naturals, FiniteSets

CONSTANTS
    Pids,       \* process ids
    Nobody,
    Faults      \* the calls on the file .lock that may fail

ASSUME ProcessManagerAssumption ==
    /\ Nobody \notin Pids
    /\ Faults \subseteq {"open", "ftruncate", "write"}

VARIABLES
    pc,         \* what each process does
    job,        \* the option it was started with, "other" for another program
    holder,     \* who has the lock
    file,       \* the id in .lock, Nobody while it is empty
    victim,     \* the id a stop has read
    nameless,   \* processes that have reported "write pid file error!" and go on
    found,      \* history: the server that was up, and had written its id, when a
                \* stop read it
    signalled   \* processes with a SIGTERM pending

vars == <<pc, job, holder, file, nameless, victim, found, signalled>>

Alive(p) == pc[p] # "free"
Living == {p \in Pids : Alive(p)}
Server(p) == pc[p] = "up"

At(p, from, to) == pc[p] = from /\ pc' = [pc EXCEPT ![p] = to]

\* The end of a process, whatever the reason, gives back its lock.
Ends(p) ==
    /\ pc' = [pc EXCEPT ![p] = "free"]
    /\ holder' = IF holder = p THEN Nobody ELSE holder
    /\ victim' = [victim EXCEPT ![p] = Nobody]
    /\ found' = [found EXCEPT ![p] = Nobody]
    /\ signalled' = signalled \ {p}
    /\ nameless' = nameless \ {p}
    /\ UNCHANGED <<job, file>>

Init ==
    /\ pc = [p \in Pids |-> "free"]
    /\ job = [p \in Pids |-> "other"]
    /\ holder = Nobody
    /\ file \in Pids \cup {Nobody}
    /\ nameless = {}
    /\ victim = [p \in Pids |-> Nobody]
    /\ found = [p \in Pids |-> Nobody]
    /\ signalled = {}

-----------------------------------------------------------------------------
\* process_logic, with the option given.
Exec(p, option) ==
    /\ ~Alive(p)
    /\ pc' = [pc EXCEPT ![p] = CASE option = "other" -> "at work"
                                 [] option = "-s" -> "fork"
                                 [] OTHER -> "lock"]
    /\ job' = [job EXCEPT ![p] = option]
    /\ UNCHANGED <<holder, file, nameless, victim, found, signalled>>

\* -s: the child goes on as with -d, the parent returns.
Fork(p, child) ==
    /\ pc[p] = "fork" /\ ~Alive(child)
    /\ pc' = [pc EXCEPT ![p] = "done", ![child] = "lock"]
    /\ job' = [job EXCEPT ![child] = "-d"]
    /\ UNCHANGED <<holder, file, nameless, victim, found, signalled>>

\* fork has failed: -1 is not greater than 0 either, and -s goes on as -d.
ForkFails(p) ==
    /\ At(p, "fork", "lock")
    /\ job' = [job EXCEPT ![p] = "-d"]
    /\ UNCHANGED <<holder, file, nameless, victim, found, signalled>>

-----------------------------------------------------------------------------
(* ProcessManager::lock.                                                   *)

\* Mutant of Flock: the lock is shared.
FlockShared(p) ==
    /\ At(p, "lock", "truncate")
    /\ holder' = p
    /\ UNCHANGED <<job, file, nameless, victim, found, signalled>>

\* flock, LOCK_EX | LOCK_NB.
Flock(p) ==
    /\ At(p, "lock", "truncate")
    /\ holder = Nobody
    /\ holder' = p
    /\ UNCHANGED <<job, file, nameless, victim, found, signalled>>

Truncate(p) ==
    /\ At(p, "truncate", "write")
    /\ file' = Nobody
    /\ UNCHANGED <<job, holder, nameless, victim, found, signalled>>

\* Mutant of WritePid: nothing is written.
WriteNothing(p) ==
    /\ At(p, "write", IF job[p] = "-u" THEN "unlock" ELSE "init")
    /\ UNCHANGED <<job, holder, file, nameless, victim, found, signalled>>

WritePid(p) ==
    /\ At(p, "write", IF job[p] = "-u" THEN "unlock" ELSE "init")
    /\ file' = p
    /\ UNCHANGED <<job, holder, nameless, victim, found, signalled>>

\* "write pid file error!": the process goes on all the same.
WriteFails(p) ==
    /\ "write" \in Faults
    /\ At(p, "write", IF job[p] = "-u" THEN "unlock" ELSE "init")
    /\ nameless' = nameless \cup {p}
    /\ UNCHANGED <<job, holder, file, victim, found, signalled>>

\* "write pid file error!", and abort.
TruncateFails(p) ==
    /\ "ftruncate" \in Faults
    /\ At(p, "truncate", "aborted")
    /\ UNCHANGED <<job, holder, file, nameless, victim, found, signalled>>

\* lock returns false.
CannotLock == holder # Nobody \/ "open" \in Faults

\* "Process already running!"
Refused(p) ==
    /\ job[p] # "-u"
    /\ At(p, "lock", "done")
    /\ CannotLock
    /\ UNCHANGED <<job, holder, file, nameless, victim, found, signalled>>

-----------------------------------------------------------------------------
(* The server.                                                             *)

\* The database is there, and run() goes on for ever.
Up(p) ==
    /\ At(p, "init", "up")
    /\ UNCHANGED <<job, holder, file, nameless, victim, found, signalled>>

\* "Database error!"
NoDatabase(p) ==
    /\ At(p, "init", "done")
    /\ UNCHANGED <<job, holder, file, nameless, victim, found, signalled>>

\* Aborts and faults anywhere in the server, and the end of other programs.
Dies(p) == pc[p] \in {"init", "up", "at work"} /\ Ends(p)

-----------------------------------------------------------------------------
(* -u.                                                                     *)

\* "No process!"
Unlock(p) ==
    /\ At(p, "unlock", "done")
    /\ holder' = Nobody
    /\ UNCHANGED <<job, file, nameless, victim, found, signalled>>

\* Mutant of Find: a start that is refused goes on as a stop does.
FindAnyway(p) ==
    /\ At(p, "lock", "cat")
    /\ CannotLock
    /\ UNCHANGED <<job, holder, file, nameless, victim, found, signalled>>

\* "Find process! stopping..."
Find(p) ==
    /\ job[p] = "-u"
    /\ At(p, "lock", "cat")
    /\ CannotLock
    /\ UNCHANGED <<job, holder, file, nameless, victim, found, signalled>>

Named == {q \in Pids : Server(q) /\ q \notin nameless}

TheServer == IF Named = {} THEN Nobody ELSE CHOOSE q \in Named : TRUE

\* cat .lock
Cat(p) ==
    /\ At(p, "cat", "kill")
    /\ victim' = [victim EXCEPT ![p] = file]
    /\ found' = [found EXCEPT ![p] = TheServer]
    /\ UNCHANGED <<job, holder, file, nameless, signalled>>

\* xargs kill -15
Kill(p) ==
    /\ At(p, "kill", "done")
    /\ victim[p] \in Living
    /\ signalled' = signalled \cup {victim[p]}
    /\ UNCHANGED <<job, holder, file, nameless, victim, found>>

\* Nothing to kill: xargs reports it, and the assertion fails.
NothingToKill(p) ==
    /\ At(p, "kill", "aborted")
    /\ victim[p] \notin Living
    /\ UNCHANGED <<job, holder, file, nameless, victim, found, signalled>>

-----------------------------------------------------------------------------
\* sig_term, or the default of another program.
SigTerm(p) == p \in signalled /\ Ends(p)

Exit(p) == pc[p] \in {"done", "aborted"} /\ Ends(p)

\* What a process does by itself.
Step(p) ==
    \/ ForkFails(p) \/ \E child \in Pids \ {p} : Fork(p, child)
    \/ Flock(p) \/ Refused(p)
    \/ Truncate(p) \/ TruncateFails(p) \/ WritePid(p) \/ WriteFails(p)
    \/ Up(p) \/ NoDatabase(p)
    \/ Unlock(p) \/ Find(p) \/ Cat(p) \/ Kill(p) \/ NothingToKill(p)
    \/ SigTerm(p) \/ Exit(p)

Next ==
    \E p \in Pids :
        \/ \E option \in {"-d", "-s", "-u", "other"} : Exec(p, option)
        \/ Dies(p)
        \/ Step(p)

\* Processes are scheduled, and signals delivered.
Spec == Init /\ [][Next]_vars /\ \A p \in Pids : WF_vars(Step(p))

-----------------------------------------------------------------------------
(* What holds.                                                             *)

\* The variables keep their types; only a stop reads an id, and it does not serve.
TypeOK ==
    /\ pc \in [Pids -> {"free", "at work", "fork", "lock", "truncate", "write", "init",
                        "up", "unlock", "cat", "kill", "done", "aborted"}]
    /\ job \in [Pids -> {"-d", "-s", "-u", "other"}]
    /\ holder \in Pids \cup {Nobody}
    /\ file \in Pids \cup {Nobody}
    /\ nameless \subseteq Living
    /\ victim \in [Pids -> Pids \cup {Nobody}]
    /\ found \in [Pids -> Pids \cup {Nobody}]
    /\ signalled \subseteq Living
    /\ \A p \in Pids : pc[p] \in {"cat", "kill", "unlock"} => job[p] = "-u"
    /\ \A p \in Pids : pc[p] \in {"init", "up"} => job[p] # "-u"

\* There is one server at most, and while it is up .lock names it or, when it
\* has reported that it could not write, nobody: starts that are refused and
\* stops that come and go leave the file alone.
LockNamesServer ==
    \A p \in Pids : pc[p] \in {"init", "up"} =>
        /\ holder = p
        /\ file = IF p \in nameless THEN Nobody ELSE p

\* A stop that reads the id of a server that is up signals that server and no
\* other process, unless the server ends by itself in between.
StopsTheServer ==
    [][\A p, q \in Pids :
          Kill(p) /\ found[p] = q /\ Server(q) => signalled' \ signalled \subseteq {q}]_vars

\* A server whose id a stop has read while it was up ends, unless that stop is
\* killed itself, perhaps before it has sent the signal.
StopWorks ==
    \A q \in Pids :
        (\E p \in Pids : pc[p] = "kill" /\ found[p] = q)
            ~> (~Server(q) \/ \E p \in signalled : found[p] = q)

=============================================================================
