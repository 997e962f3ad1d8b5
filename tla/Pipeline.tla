------------------------------ MODULE Pipeline ------------------------------
(***************************************************************************)
(* The life cycle of a message buffer.  Three threads share one pool of    *)
(* Bufs and two queues: Evloop takes a Buf from the pool, fills it from a  *)
(* socket and puts it on recvqueue; RecvTask takes it from there and runs  *)
(* the handler of the message, which forwards the Buf, frees it, forgets   *)
(* it, or takes further Bufs from the pool for the messages it posts;      *)
(* SendTask takes Bufs from sendqueue, writes them to the socket and       *)
(* frees them.  A client that goes away is removed from the rooms by the   *)
(* Evloop thread itself, which posts messages too.                         *)
(*                                                                         *)
(* A step ends where a thread reaches for the pool or for a queue, since   *)
(* each of these has a mutex of its own and nothing else is synchronised.  *)
(* Rooms are abstract here: a handler may post to any list of clients the  *)
(* rooms could give it.  ClassRoom says which list it is.                  *)
(***************************************************************************)
EXTENDS Naturals, Sequences, FiniteSets, Functions

CONSTANTS
    PoolSize,   \* number of Bufs the pool is built with (1000 in the code)
    Fds,        \* descriptors the kernel hands out to clients
    RoomCount,  \* number of rooms a disconnect has to visit
    MaxPost     \* bound on the messages one handler posts

ASSUME PipelineAssumption ==
    /\ PoolSize \in Nat \ {0}
    /\ Fds \subseteq Nat \ {0}
    /\ RoomCount \in Nat
    /\ MaxPost \in Nat

Buf   == 1 .. PoolSize
NoBuf == 0
NoFd  == 0

VARIABLES
    \* the Single object
    pool, recvqueue, sendqueue,
    \* fields of the Bufs; block k is the memory Buf k was built with, and
    \* text[k] is the Buf whose message it holds, NoBuf when zeroed
    fd, ptr, text,
    \* history: Bufs nobody will free any more, blocks that two Bufs shared
    lost, shared,
    \* clients: open connections, and those whose socket buffer is full
    conn, stalled,
    \* Evloop: where it is, the client, the Bufs in its hands, what is left
    evPc, evFd, evBuf, evCopy, evTodo, evRooms,
    \* RecvTask: likewise; rtStale is a Buf it freed and still reads,
    \* rtAsker the client whose message is handled
    rtPc, rtBuf, rtCopy, rtStale, rtAsker, rtTodo, rtThen, rtOom,
    \* SendTask
    stPc, stBuf,
    \* the process
    status

single == <<pool, recvqueue, sendqueue>>
bufs   == <<fd, ptr, text>>
ghosts == <<lost, shared>>
peers  == <<conn, stalled>>
ev     == <<evPc, evFd, evBuf, evCopy, evTodo, evRooms>>
rt     == <<rtPc, rtBuf, rtCopy, rtStale, rtAsker, rtTodo, rtThen, rtOom>>
st     == <<stPc, stBuf>>
vars   == <<single, bufs, ghosts, peers, ev, rt, st, status>>

-----------------------------------------------------------------------------
(* Lists of receivers.                                                     *)

PostLists == UNION {[1 .. n -> Fds \cup {NoFd}] : n \in 0 .. MaxPost}

\* A walk over an m_student_map visits the descriptors in ascending order.
Rosters ==
    {s \in PostLists : /\ \A i \in DOMAIN s : s[i] # NoFd
                       /\ \A i, j \in DOMAIN s : i < j => s[i] < s[j]}

\* The rows of a result set all go to the client that asked.
RowsTo(f) == {s \in PostLists : \A i \in DOMAIN s : s[i] = f}

-----------------------------------------------------------------------------
(* Primitive operations of the pool, the queues and the Bufs.              *)

Running == status = "running"

Malloc == pool # <<>> /\ pool' = Tail(pool)

Free(b) == pool' = Append(pool, b)

Write(b)  == text' = [text EXCEPT ![ptr[b]] = b]
Zero(b)   == text' = [text EXCEPT ![ptr[b]] = NoBuf]
SetFd(b, f) == fd' = [fd EXCEPT ![b] = f]

\* The process is gone: no thread takes another step.
Stops(how) ==
    /\ status' = how
    /\ UNCHANGED <<single, bufs, ghosts, peers, ev, rt, st>>

-----------------------------------------------------------------------------
Init ==
    /\ pool = [i \in Buf |-> i]
    /\ recvqueue = <<>>
    /\ sendqueue = <<>>
    /\ fd = [b \in Buf |-> NoFd]
    /\ ptr = [b \in Buf |-> b]
    /\ text = [b \in Buf |-> NoBuf]
    /\ lost = {}
    /\ shared = {}
    /\ conn = {}
    /\ stalled = {}
    /\ evPc = "idle" /\ evFd = NoFd /\ evBuf = NoBuf /\ evCopy = NoBuf
    /\ evTodo = <<>> /\ evRooms = 0
    /\ rtPc = "idle" /\ rtBuf = NoBuf /\ rtCopy = NoBuf /\ rtStale = NoBuf
    /\ rtAsker = NoFd /\ rtTodo = <<>> /\ rtThen = "zero" /\ rtOom = "crash"
    /\ stPc = "idle" /\ stBuf = NoBuf
    /\ status = "running"

-----------------------------------------------------------------------------
(* Evloop: libev callbacks, one at a time.                                 *)

Accept(f) ==
    /\ Running /\ evPc = "idle"
    /\ f \notin conn
    /\ conn' = conn \cup {f}
    /\ UNCHANGED <<single, bufs, ghosts, stalled, ev, rt, st, status>>

\* recv_cb begins by taking a Buf; without one the process aborts.
Readable(f) ==
    /\ Running /\ evPc = "idle"
    /\ f \in conn
    /\ Malloc
    /\ evBuf' = Head(pool) /\ evFd' = f /\ evPc' = "recv"
    /\ UNCHANGED <<recvqueue, sendqueue, bufs, ghosts, peers, evCopy, evTodo,
                   evRooms, rt, st, status>>

PoolDry ==
    /\ Running /\ evPc = "idle"
    /\ conn # {} /\ pool = <<>>
    /\ Stops("aborted")

Received ==
    /\ Running /\ evPc = "recv"
    /\ Write(evBuf) /\ SetFd(evBuf, evFd)
    /\ recvqueue' = Append(recvqueue, evBuf)
    /\ evBuf' = NoBuf /\ evFd' = NoFd /\ evPc' = "idle"
    /\ UNCHANGED <<pool, sendqueue, ptr, ghosts, peers, evCopy, evTodo, evRooms,
                   rt, st, status>>

\* Mutant of RecvFails: the Buf goes back to the pool.
RecvFailsAndFrees ==
    /\ Running /\ evPc = "recv"
    /\ UNCHANGED text \/ Write(evBuf)
    /\ Free(evBuf)
    /\ conn' = conn \ {evFd}
    /\ stalled' = stalled \ {evFd}
    /\ evBuf' = NoBuf /\ evPc' = "rooms" /\ evRooms' = RoomCount
    /\ UNCHANGED <<recvqueue, sendqueue, fd, ptr, ghosts, evFd, evCopy, evTodo,
                   rt, st, status>>

\* Head or body does not arrive: the connection is closed, and recv_cb
\* returns with buf still in its hands.
RecvFails ==
    /\ Running /\ evPc = "recv"
    /\ UNCHANGED text \/ Write(evBuf)
    /\ lost' = lost \cup {evBuf}
    /\ conn' = conn \ {evFd}
    /\ stalled' = stalled \ {evFd}
    /\ evBuf' = NoBuf /\ evPc' = "rooms" /\ evRooms' = RoomCount
    /\ UNCHANGED <<single, fd, ptr, shared, evFd, evCopy, evTodo, rt, st, status>>

\* Mutant of NextRoom: the end of the map is not checked.
NextRoomPastTheEnd == Running /\ evPc = "rooms" /\ evRooms' = evRooms - 1

\* One room of the walk of del_client over all rooms.
NextRoom == Running /\ evPc = "rooms" /\ evRooms > 0 /\ evRooms' = evRooms - 1

\* The client was the teacher of the room: every student s gets a message.
TeacherGone(s) ==
    /\ NextRoom
    /\ evTodo' = s /\ evPc' = "notify"
    /\ UNCHANGED <<single, bufs, ghosts, peers, evFd, evBuf, evCopy, rt, st, status>>

WhiteGone ==
    /\ NextRoom
    /\ UNCHANGED <<single, bufs, ghosts, peers, evPc, evFd, evBuf, evCopy, evTodo,
                   rt, st, status>>

\* Any other room: the roster is written into one Buf, p, the client's seat is
\* erased, and the remaining students s are each sent a copy of p.
StudentGone(s) ==
    /\ NextRoom
    /\ evFd \notin Range(s)
    /\ Malloc
    /\ evBuf' = Head(pool) /\ Write(evBuf')
    /\ evTodo' = s /\ evPc' = "notify"
    /\ UNCHANGED <<recvqueue, sendqueue, fd, ptr, ghosts, peers, evFd, evCopy,
                   rt, st, status>>

\* memcpy (pp, p, cLen) copies the Buf, not its text: pp now has p's block.  If
\* the block has been zeroed meanwhile, cLen is 0: nothing is copied, and pp is
\* a message of no bytes, which its own block holds whatever is in it.
CopyOf(pp, p) ==
    IF text[ptr[p]] = NoBuf
    THEN Write(pp) /\ UNCHANGED <<ptr, shared>>
    ELSE /\ ptr' = [ptr EXCEPT ![pp] = ptr[p]]
         /\ shared' = shared \cup {ptr[p]}
         /\ UNCHANGED text

NotifyMalloc ==
    /\ Running /\ evPc = "notify" /\ evCopy = NoBuf /\ evTodo # <<>>
    /\ Malloc
    /\ evCopy' = Head(pool)
    /\ SetFd(evCopy', Head(evTodo))
    /\ IF evBuf = NoBuf
       THEN Write(evCopy') /\ UNCHANGED <<ptr, shared>>
       ELSE CopyOf(evCopy', evBuf)
    /\ UNCHANGED <<recvqueue, sendqueue, lost, peers, evPc, evFd, evBuf, evTodo,
                   evRooms, rt, st, status>>

NotifySend ==
    /\ Running /\ evPc = "notify" /\ evCopy # NoBuf
    /\ sendqueue' = Append(sendqueue, evCopy)
    /\ evCopy' = NoBuf /\ evTodo' = Tail(evTodo)
    /\ UNCHANGED <<pool, recvqueue, bufs, ghosts, peers, evPc, evFd, evBuf,
                   evRooms, rt, st, status>>

NotifyDone ==
    /\ Running /\ evPc = "notify" /\ evCopy = NoBuf /\ evTodo = <<>>
    /\ IF evBuf = NoBuf
       THEN UNCHANGED <<pool, text>>
       ELSE Zero(evBuf) /\ Free(evBuf)
    /\ evBuf' = NoBuf /\ evPc' = "rooms"
    /\ UNCHANGED <<recvqueue, sendqueue, fd, ptr, ghosts, peers, evFd, evCopy,
                   evTodo, evRooms, rt, st, status>>

RoomsDone ==
    /\ Running /\ evPc = "rooms" /\ evRooms = 0
    /\ evPc' = "idle" /\ evFd' = NoFd
    /\ UNCHANGED <<single, bufs, ghosts, peers, evBuf, evCopy, evTodo, evRooms,
                   rt, st, status>>

\* None of these mallocs is checked.
EvloopOom ==
    /\ Running /\ pool = <<>>
    /\ \/ evPc = "rooms" /\ evRooms > 0
       \/ evPc = "notify" /\ evCopy = NoBuf /\ evTodo # <<>>
    /\ Stops("crashed")

EvloopStep ==
    \/ Received \/ RecvFails
    \/ \E s \in Rosters : TeacherGone(s) \/ StudentGone(s)
    \/ WhiteGone
    \/ NotifyMalloc \/ NotifySend \/ NotifyDone \/ RoomsDone \/ EvloopOom

Clients == \E f \in Fds : Accept(f) \/ Readable(f)

-----------------------------------------------------------------------------
(* RecvTask: one message at a time.                                        *)

TakeMessage ==
    /\ Running /\ rtPc = "idle"
    /\ recvqueue # <<>>
    /\ rtBuf' = Head(recvqueue) /\ recvqueue' = Tail(recvqueue)
    /\ rtAsker' = fd[rtBuf']
    /\ rtPc' = "handle"
    /\ UNCHANGED <<pool, sendqueue, bufs, ghosts, peers, ev, rtCopy, rtStale, rtTodo,
                   rtThen, rtOom, st, status>>

Handling == Running /\ rtPc = "handle"

\* What every handler that ends here leaves behind.
HandlerReturns ==
    /\ rtPc' = "idle" /\ rtBuf' = NoBuf
    /\ rtAsker' = NoFd /\ rtThen' = "zero" /\ rtOom' = "crash"
    /\ UNCHANGED <<rtCopy, rtStale, rtTodo>>

\* No handler for the type, a handler with an empty body, or one that
\* returns early without the Buf: nobody frees it.
Forget ==
    /\ Handling
    /\ lost' = lost \cup {rtBuf}
    /\ HandlerReturns
    /\ UNCHANGED <<single, bufs, shared, peers, ev, st, status>>

\* The handler frees the Buf as it is.
Reject ==
    /\ Handling
    /\ Free(rtBuf)
    /\ HandlerReturns
    /\ UNCHANGED <<recvqueue, sendqueue, bufs, ghosts, peers, ev, st, status>>

\* The handler zeroes the Buf and frees it.
Finish ==
    /\ Handling
    /\ Zero(rtBuf) /\ Free(rtBuf)
    /\ HandlerReturns
    /\ UNCHANGED <<recvqueue, sendqueue, fd, ptr, ghosts, peers, ev, st, status>>

\* Mutant of Forward: the Buf is freed as well, as the handlers that broadcast do.
ForwardAndFree(f) ==
    /\ Handling
    /\ Write(rtBuf) /\ SetFd(rtBuf, f)
    /\ sendqueue' = Append(sendqueue, rtBuf)
    /\ Free(rtBuf)
    /\ HandlerReturns
    /\ UNCHANGED <<recvqueue, ptr, ghosts, peers, ev, st, status>>

\* The Buf itself goes out, to the asker (a reply) or to the whiteboard, the
\* teacher or one student of a room.  A whiteboard nobody set has fd 0.
Forward(f) ==
    /\ Handling
    /\ Write(rtBuf) /\ SetFd(rtBuf, f)
    /\ sendqueue' = Append(sendqueue, rtBuf)
    /\ HandlerReturns
    /\ UNCHANGED <<pool, recvqueue, ptr, ghosts, peers, ev, st, status>>

\* A handler that posts a message of its own to each receiver in s and then
\* disposes of the Buf as "then" says.  oom: what a failed malloc does.
Post(s, then, oom) ==
    /\ Handling
    /\ rtTodo' = s /\ rtThen' = then /\ rtOom' = oom
    /\ rtPc' = "post"
    /\ UNCHANGED <<single, bufs, ghosts, peers, ev, rtBuf, rtCopy, rtStale, rtAsker,
                   st, status>>

Broadcast(s)       == Post(s, "zero", "crash")
PuzzleGameStart(s) == Post(s, "start", "crash")
DBRecord(s)        == Post(s, "zero", "crash") /\ s \in RowsTo(fd[rtBuf])
\* The teacher's copy is not checked, those of the students are.
StudentLogin(s, teacher) == Post(<<teacher>> \o s, "send", "first")
\* puzzle_end posts the scores to the whiteboard, if there is one.
PuzzleEndGame(white) == white # NoFd /\ Post(<<white>>, "free", "crash")

\* sendToOtherStudent, there being another student: cLen is read from the Buf
\* itself instead of its text, and the memcpy of that length faults.  Without
\* a Buf to copy to the handler gives up, and forgets the message.
HouseShare ==
    /\ Handling
    /\ IF pool = <<>>
       THEN /\ lost' = lost \cup {rtBuf}
            /\ HandlerReturns
            /\ UNCHANGED <<single, bufs, shared, peers, ev, st, status>>
       ELSE Stops("crashed")

\* Mutant of PostMalloc: the text is not copied.
PostMallocWithoutText ==
    /\ Running /\ rtPc = "post" /\ rtCopy = NoBuf /\ rtTodo # <<>>
    /\ Malloc
    /\ rtCopy' = Head(pool)
    /\ SetFd(rtCopy', Head(rtTodo))
    /\ UNCHANGED <<recvqueue, sendqueue, ptr, text, ghosts, peers, ev, rtPc, rtBuf,
                   rtStale, rtAsker, rtTodo, rtThen, rtOom, st, status>>

PostMalloc ==
    /\ Running /\ rtPc = "post" /\ rtCopy = NoBuf /\ rtTodo # <<>>
    /\ Malloc
    /\ rtCopy' = Head(pool)
    /\ Write(rtCopy') /\ SetFd(rtCopy', Head(rtTodo))
    /\ UNCHANGED <<recvqueue, sendqueue, ptr, ghosts, peers, ev, rtPc, rtBuf, rtStale,
                   rtAsker, rtTodo, rtThen, rtOom, st, status>>

PostSend ==
    /\ Running /\ rtPc = "post" /\ rtCopy # NoBuf
    /\ sendqueue' = Append(sendqueue, rtCopy)
    /\ rtCopy' = NoBuf /\ rtTodo' = Tail(rtTodo)
    /\ rtOom' = IF rtOom = "first" THEN "skip" ELSE rtOom
    /\ UNCHANGED <<pool, recvqueue, bufs, ghosts, peers, ev, rtPc, rtBuf, rtStale,
                   rtAsker, rtThen, st, status>>

\* Mutant of PostOom: malloc is tried again until it succeeds.
PostOomWaits ==
    /\ Running /\ rtPc = "post" /\ rtCopy = NoBuf /\ rtTodo # <<>>
    /\ pool = <<>>
    /\ UNCHANGED vars

PostOom ==
    /\ Running /\ rtPc = "post" /\ rtCopy = NoBuf /\ rtTodo # <<>>
    /\ pool = <<>>
    /\ IF rtOom = "skip"
       THEN /\ rtTodo' = Tail(rtTodo)
            /\ UNCHANGED <<single, bufs, ghosts, peers, ev, rtPc, rtBuf, rtCopy,
                           rtStale, rtAsker, rtThen, rtOom, st, status>>
       ELSE Stops("crashed")

Posted(then) ==
    /\ Running /\ rtPc = "post" /\ rtCopy = NoBuf /\ rtTodo = <<>>
    /\ rtThen = then

PostedSend ==
    /\ Posted("send")
    /\ Write(rtBuf)
    /\ sendqueue' = Append(sendqueue, rtBuf)
    /\ HandlerReturns
    /\ UNCHANGED <<pool, recvqueue, fd, ptr, ghosts, peers, ev, st, status>>

PostedFree ==
    /\ Posted("free")
    /\ Free(rtBuf)
    /\ HandlerReturns
    /\ UNCHANGED <<recvqueue, sendqueue, bufs, ghosts, peers, ev, st, status>>

PostedZero ==
    /\ Posted("zero")
    /\ Zero(rtBuf) /\ Free(rtBuf)
    /\ HandlerReturns
    /\ UNCHANGED <<recvqueue, sendqueue, fd, ptr, ghosts, peers, ev, st, status>>

\* handlePuzzle_GameStart: the broadcast frees the Buf, the handler keeps it.
PostedStart ==
    /\ Posted("start")
    /\ Zero(rtBuf) /\ Free(rtBuf)
    /\ rtStale' = rtBuf /\ rtBuf' = NoBuf /\ rtPc' = "start"
    /\ UNCHANGED <<recvqueue, sendqueue, fd, ptr, ghosts, peers, ev, rtCopy, rtAsker,
                   rtTodo, rtThen, rtOom, st, status>>

\* The games of the room of client f start.
StartGames(f) ==
    /\ Running /\ rtPc = "start"
    /\ f = fd[rtStale]
    /\ rtStale' = NoBuf
    /\ rtPc' = "idle" /\ rtAsker' = NoFd /\ rtThen' = "zero" /\ rtOom' = "crash"
    /\ UNCHANGED <<single, bufs, ghosts, peers, ev, rtBuf, rtCopy, rtTodo, st, status>>

\* The post functions of CHandleMessage: who gets the message, and what a
\* handler is left with when the asker is not in a room or not its teacher.
postMessage                == Forward(fd[rtBuf])
postTeacherToWhite(white)  == Forward(white) \/ Reject
postTeacherToStudent(f)    == (f # NoFd /\ Forward(f)) \/ Forget
postTeacherToAllStudent(s) == Broadcast(s) \/ Finish
postDBRecordCount          == postMessage \/ Forget
postDBRecord(s)            == DBRecord(s)

\* The handlers, one operator per group of them: f is a client of the asker's
\* room or NoFd, s its students or the rows of a query.
Login(s, f)     == StudentLogin(s, f) \/ postMessage
Courses(s)      == postDBRecordCount \/ postDBRecord(s) \/ postMessage \/ Forget
EnterOrLeave    == Forget \/ Reject \/ Finish
Students(f)     == postMessage \/ postTeacherToStudent(f)
LockStudents(s) == postTeacherToAllStudent(s)
Common(f)       == postTeacherToWhite(f) \/ postMessage
Sprite(f)       == postTeacherToWhite(f)
Exercise(f)     == postTeacherToWhite(f)
Cartoon(f)      == postTeacherToWhite(f)
BuildHouse(f)   == postTeacherToWhite(f) \/ Forget
EditHouse       == HouseShare \/ Forget \/ Finish
StartPuzzle(s)  == PuzzleGameStart(s)
Puzzle(f)       == postTeacherToWhite(f) \/ PuzzleEndGame(f) \/ Forget

Handle ==
    \/ EnterOrLeave \/ EditHouse
    \/ \E f \in Fds \cup {NoFd} :
          \/ Students(f) \/ Common(f) \/ Sprite(f) \/ Exercise(f) \/ Cartoon(f)
          \/ BuildHouse(f) \/ Puzzle(f)
          \/ \E s \in Rosters : Login(s, f)
    \/ \E s \in Rosters : LockStudents(s) \/ StartPuzzle(s)
    \/ \E s \in PostLists : Courses(s)

RecvTaskStep ==
    \/ TakeMessage \/ Handle
    \/ PostMalloc \/ PostSend \/ PostOom
    \/ PostedSend \/ PostedFree \/ PostedZero \/ PostedStart
    \/ \E f \in Fds \cup {NoFd} : StartGames(f)

-----------------------------------------------------------------------------
(* SendTask.                                                               *)

TakeReply ==
    /\ Running /\ stPc = "idle"
    /\ sendqueue # <<>>
    /\ stBuf' = Head(sendqueue) /\ sendqueue' = Tail(sendqueue)
    /\ stPc' = "send"
    /\ UNCHANGED <<pool, recvqueue, bufs, ghosts, peers, ev, rt, status>>

NoReceiver ==
    /\ Running /\ stPc = "send" /\ fd[stBuf] = NoFd
    /\ Free(stBuf)
    /\ stBuf' = NoBuf /\ stPc' = "idle"
    /\ UNCHANGED <<recvqueue, sendqueue, bufs, ghosts, peers, ev, rt, status>>

\* Every byte is taken by the kernel; the socket buffer may be full now.
Transmit ==
    /\ Running /\ stPc = "send"
    /\ fd[stBuf] \in conn \ stalled
    /\ stalled' \in {stalled, stalled \cup {fd[stBuf]}}
    /\ stPc' = "sent"
    /\ UNCHANGED <<single, bufs, ghosts, conn, ev, rt, stBuf, status>>

\* Mutant of SendBreaks: every error is retried.
SendRetries ==
    /\ Running /\ stPc = "send"
    /\ fd[stBuf] # NoFd /\ fd[stBuf] \notin conn
    /\ UNCHANGED vars

\* send() fails with neither EINTR nor EAGAIN: the rest is not sent.
SendBreaks ==
    /\ Running /\ stPc = "send"
    /\ fd[stBuf] # NoFd /\ fd[stBuf] \notin conn
    /\ stPc' = "sent"
    /\ UNCHANGED <<single, bufs, ghosts, peers, ev, rt, stBuf, status>>

Release ==
    /\ Running /\ stPc = "sent"
    /\ Zero(stBuf) /\ Free(stBuf)
    /\ stBuf' = NoBuf /\ stPc' = "idle"
    /\ UNCHANGED <<recvqueue, sendqueue, fd, ptr, ghosts, peers, ev, rt, status>>

SendTaskStep == TakeReply \/ NoReceiver \/ Transmit \/ SendBreaks \/ Release

\* A client with a full socket buffer reads what is in it, ...
PeerReads(f) ==
    /\ Running /\ f \in stalled
    /\ stalled' = stalled \ {f}
    /\ UNCHANGED <<single, bufs, ghosts, conn, ev, rt, st, status>>

\* ... or resets the connection, which breaks the send that waits for it.
PeerResets ==
    /\ Running /\ stPc = "send"
    /\ fd[stBuf] \in stalled
    /\ stPc' = "sent"
    /\ UNCHANGED <<single, bufs, ghosts, peers, ev, rt, stBuf, status>>

\* Nothing happens after the process has gone.
Gone == ~Running /\ UNCHANGED vars

Next ==
    \/ Clients \/ PoolDry \/ EvloopStep
    \/ RecvTaskStep
    \/ SendTaskStep
    \/ \E f \in Fds : PeerReads(f)
    \/ PeerResets
    \/ Gone

\* The three threads are scheduled; what clients do is up to them.
Fairness ==
    /\ WF_vars(EvloopStep)
    /\ WF_vars(RecvTaskStep)
    /\ WF_vars(SendTaskStep)

Spec == Init /\ [][Next]_vars /\ Fairness

-----------------------------------------------------------------------------
(* What holds.                                                             *)

\* The variables keep their types.
TypeOK ==
    /\ pool \in Seq(Buf) /\ recvqueue \in Seq(Buf) /\ sendqueue \in Seq(Buf)
    /\ fd \in [Buf -> Fds \cup {NoFd}]
    /\ ptr \in [Buf -> Buf]
    /\ text \in [Buf -> Buf \cup {NoBuf}]
    /\ lost \subseteq Buf /\ shared \subseteq Buf
    /\ conn \subseteq Fds /\ stalled \subseteq conn
    /\ evPc \in {"idle", "recv", "rooms", "notify"}
    /\ evFd \in Fds \cup {NoFd}
    /\ evBuf \in Buf \cup {NoBuf} /\ evCopy \in Buf \cup {NoBuf}
    /\ evTodo \in Seq(Fds \cup {NoFd})
    /\ evRooms \in 0 .. RoomCount
    /\ rtPc \in {"idle", "handle", "post", "start"}
    /\ rtBuf \in Buf \cup {NoBuf} /\ rtCopy \in Buf \cup {NoBuf}
    /\ rtStale \in Buf \cup {NoBuf}
    /\ rtAsker \in Fds \cup {NoFd}
    /\ rtTodo \in Seq(Fds \cup {NoFd})
    /\ rtThen \in {"zero", "free", "send", "start"}
    /\ rtOom \in {"crash", "first", "skip"}
    /\ stPc \in {"idle", "send", "sent"}
    /\ stBuf \in Buf \cup {NoBuf}
    /\ status \in {"running", "aborted", "crashed"}

\* The Bufs in the hands of a thread.
EvHolds == {evBuf, evCopy} \ {NoBuf}
RtHolds == {rtBuf, rtCopy} \ {NoBuf}
StHolds == {stBuf} \ {NoBuf}
InHands == EvHolds \cup RtHolds \cup StHolds

\* Where a thread is says which of its hands are full.
HandsMatchPc ==
    /\ evPc \in {"idle", "rooms"} => evBuf = NoBuf
    /\ evPc = "recv" => evBuf # NoBuf
    /\ evCopy # NoBuf => evPc = "notify" /\ evTodo # <<>>
    /\ rtPc \in {"handle", "post"} <=> rtBuf # NoBuf
    /\ rtCopy # NoBuf => rtPc = "post" /\ rtTodo # <<>>
    /\ rtPc = "start" <=> rtStale # NoBuf
    /\ stPc = "idle" <=> stBuf = NoBuf

\* A Buf is never in two places at once and none vanishes: it is in the pool,
\* in one queue, with one thread, or was forgotten by a handler or a failed
\* receive.  Twice freed, freed while still queued, or enqueued by two
\* threads, it would be handed to two messages at the same time.
OneOwner ==
    /\ IsInjective(pool) /\ IsInjective(recvqueue) /\ IsInjective(sendqueue)
    /\ Range(pool) \cap (Range(recvqueue) \cup Range(sendqueue) \cup lost \cup InHands) = {}
    /\ Range(recvqueue) \cap (Range(sendqueue) \cup lost \cup InHands) = {}
    /\ Range(sendqueue) \cap (lost \cup InHands) = {}
    /\ lost \cap InHands = {}
    /\ EvHolds \cap (RtHolds \cup StHolds) = {}
    /\ RtHolds \cap StHolds = {}
    /\ evBuf # NoBuf => evBuf # evCopy
    /\ rtBuf # NoBuf => rtBuf # rtCopy
    /\ Buf = Range(pool) \cup Range(recvqueue) \cup Range(sendqueue) \cup lost \cup InHands

\* The Bufs that wait to be sent or are being sent.
ToSend == Range(sendqueue) \cup (IF stPc = "send" THEN {stBuf} ELSE {})

\* A Buf that waits to be sent or is being sent holds the text that was
\* written for it, unless its block was ever shared by the notification of a
\* disconnect: nothing else lets one message overwrite another.
IntactUnlessShared ==
    \A b \in ToSend : ptr[b] \notin shared => ptr[b] = b /\ text[b] = b

\* The same of the copies that are about to be queued; and only a shared
\* block is another Buf's than the one it was built with.
Copies == {evCopy, rtCopy} \ {NoBuf}

BlocksApart ==
    /\ \A b \in Buf : ptr[b] \notin shared => ptr[b] = b
    /\ \A b \in ToSend \cup Copies : ptr[b] \notin shared => text[b] = b

\* Each disconnect costs the pool a Buf for good, so a server survives only
\* finitely many of them, whatever its threads and clients do.
FinitelyManyDisconnects == <>[][~RecvFails]_vars

\* RecvTask waits neither for SendTask nor for a client: every message that
\* was received is taken to its handler unless the process is gone.
ReceivedIsHandled ==
    \A b \in Buf : b \in Range(recvqueue) ~> (b \notin Range(recvqueue) \/ ~Running)

\* There is one SendTask for all clients and it waits for the client it sends
\* to.  If no client stays away from its socket for ever, each message in
\* the queue is taken out of it, unless the process is gone.
SentIfClientsRead ==
    (\A f \in Fds : []<>(f \notin stalled))
        => \A b \in Buf : b \in Range(sendqueue) ~> (b \notin Range(sendqueue) \/ ~Running)

-----------------------------------------------------------------------------
(* What the tests and comments of the code say, and does not hold.         *)

\* HandlePuzzle.cpp:14-15: the teacher clicks start, and its room's game
\* starts.  The games that start are those of the room of the asker.
GamesStartForAsker ==
    [][\A f \in Fds \cup {NoFd} : StartGames(f) => f = rtAsker]_vars

=============================================================================
