----------------------------- MODULE ClassRoom -----------------------------
(***************************************************************************)
(* Who is in which classroom.  RecvTask runs the handlers that let teachers, *)
(* whiteboards and students into rooms; Evloop, on another thread and      *)
(* without a lock in common, takes a client out of all rooms when its      *)
(* connection is gone.  Both walk m_student_map and post a message per     *)
(* student, so the other thread may change the map under the walk.         *)
(*                                                                         *)
(* A step ends where a thread takes a Buf or enqueues one, as in Pipeline; *)
(* one map operation is one step.  m_student_map is a function whose       *)
(* domain is the set of its keys.  A client's requests wait in recvqueue   *)
(* and may be handled after the client has gone.                           *)
(***************************************************************************)
EXTENDS Naturals, FiniteSets, Functions

CONSTANTS
    Fds,        \* descriptors the kernel hands out to clients
    RoomCount,  \* number of rooms in the database
    Names,      \* teachers' names
    NoName,     \* the empty string
    Sids        \* student ids in the database

ASSUME ClassRoomAssumption ==
    /\ Fds \subseteq Nat \ {0}
    /\ RoomCount \in Nat
    /\ NoName \notin Names
    /\ Sids \subseteq Nat \ {0}

Rooms  == 1 .. RoomCount
NoFd   == 0
NoSid  == 0

VARIABLES
    \* the fields of each CRoom
    teacherFd, teacherName, whiteFd, seat,
    \* open connections; clients with one or more requests in recvqueue
    conn, backlog,
    \* the states of a room's students, as last sent over each connection;
    \* whether two Bufs have one block
    view, shared,
    \* RecvTask: what it does, in which room, the list it sends, and the key
    \* its iterator is at
    rtPc, rtRoom, rtList, rtAt,
    \* Evloop: likewise, and the client that has gone
    evPc, evRoom, evList, evAt, evFd,
    \* history: descriptors a room knows for a reason a disconnect does not
    \* undo; whether the two threads were ever in the rooms at the same time
    strays, overlap,
    status

room == <<teacherFd, teacherName, whiteFd, seat>>
peer == <<conn, backlog>>
rt   == <<rtPc, rtRoom, rtList, rtAt>>
ev   == <<evPc, evRoom, evList, evAt, evFd>>
sent == <<view, shared>>
vars == <<room, peer, sent, rt, ev, strays, overlap, status>>

-----------------------------------------------------------------------------
(* CStudent, CRoom and CRoomManager.                                       *)

\* A CStudent as the others see it.  A key may also be mapped to NULL.
Entry == [sid : Sids \cup {NoSid}, state : {"offline", "online"}]
Null  == [sid |-> NoSid, state |-> "null"]

\* teacher_disconnect sends one entry of all ones and no count.
Bare  == [sid |-> NoSid, state |-> "bare"]

\* What a client gets instead of a list if the block of the Buf was zeroed, or
\* written by others, before SendTask came to it.
Torn  == [sid |-> NoSid, state |-> "torn"]

Seated(r) == DOMAIN seat[r]

\* get_room_by_fd: the first room, in order of id, that knows the descriptor.
Knows(r, f) == f \in Seated(r) \/ f = teacherFd[r] \/ f = whiteFd[r]
RoomsOf(f)  == {r \in Rooms : Knows(r, f)}
RoomOf(f)   == CHOOSE r \in RoomsOf(f) : \A q \in RoomsOf(f) : r <= q

\* Iterators of m_student_map: the least key in a set of keys, or end().
Least(keys) == IF keys = {} THEN NoFd
               ELSE CHOOSE k \in keys : \A j \in keys : k <= j
\* Mutant of After: the iterator stays where it is.
AfterStays(keys, at) == at

After(keys, at) == Least({k \in keys : k > at})

Erase(map, f) == [k \in DOMAIN map \ {f} |-> map[k]]
Put(map, f, s) == [k \in DOMAIN map \cup {f} |-> IF k = f THEN s ELSE map[k]]

\* CRoom::reset.
Reset(r) ==
    /\ seat' = [seat EXCEPT ![r] = <<>>]
    /\ whiteFd' = [whiteFd EXCEPT ![r] = NoFd]
    /\ teacherFd' = [teacherFd EXCEPT ![r] = NoFd]
    /\ teacherName' = [teacherName EXCEPT ![r] = NoName]

\* What is sent to a closed descriptor is lost.  Once two Bufs have one block,
\* a message may be torn; which ones are is in Pipeline.
Show(f, list) ==
    IF f \in conn
    THEN \E text \in {list} \cup (IF shared THEN {{Torn}} ELSE {}) :
             view' = [view EXCEPT ![f] = text]
    ELSE UNCHANGED view

Running == status = "running"

Stops(how) ==
    /\ status' = how
    /\ UNCHANGED <<room, peer, sent, rt, ev, strays, overlap>>

-----------------------------------------------------------------------------
\* CRoom() leaves both descriptors as they were in memory.
Init ==
    /\ teacherFd \in [Rooms -> Fds \cup {NoFd}]
    /\ whiteFd \in [Rooms -> Fds \cup {NoFd}]
    /\ teacherName = [r \in Rooms |-> NoName]
    /\ seat = [r \in Rooms |-> <<>>]
    /\ conn = {} /\ backlog = {}
    /\ view = [f \in Fds |-> {}] /\ shared = FALSE
    /\ rtPc = "idle" /\ rtRoom = 1 /\ rtList = {} /\ rtAt = NoFd
    /\ evPc = "idle" /\ evRoom = 1 /\ evList = {} /\ evAt = NoFd /\ evFd = NoFd
    /\ strays = Fds \cap (Range(teacherFd) \cup Range(whiteFd))
    /\ overlap = FALSE
    /\ status = "running"

-----------------------------------------------------------------------------
(* Clients, through Evloop's callbacks.                                    *)

Connect(f) ==
    /\ Running /\ evPc = "idle"
    /\ f \notin conn
    /\ conn' = conn \cup {f}
    /\ UNCHANGED <<room, backlog, sent, rt, ev, strays, overlap, status>>

Request(f) ==
    /\ Running /\ evPc = "idle"
    /\ f \in conn
    /\ backlog' = backlog \cup {f}
    /\ UNCHANGED <<room, conn, sent, rt, ev, strays, overlap, status>>

\* closefd, up to its call of CRoomManager::del_client.
Disconnect(f) ==
    /\ Running /\ evPc = "idle"
    /\ f \in conn
    /\ conn' = conn \ {f}
    /\ view' = [view EXCEPT ![f] = {}]
    /\ evPc' = "rooms" /\ evRoom' = 1 /\ evFd' = f
    /\ strays' = strays \ {f}
    /\ overlap' = (overlap \/ rtPc # "idle")
    /\ UNCHANGED <<room, backlog, shared, rt, evList, evAt, status>>

-----------------------------------------------------------------------------
(* CRoomManager::del_client, on the Evloop thread.                         *)

AtRoom == Running /\ evPc = "rooms" /\ evRoom <= RoomCount
Gone   == evFd

\* The teacher has gone: every student is told, then the room is reset.
DelTeacher ==
    /\ AtRoom
    /\ Gone = teacherFd[evRoom]
    /\ evPc' = "dismiss"
    /\ evList' = {Bare}
    /\ evAt' = Least(Seated(evRoom))
    /\ UNCHANGED <<room, peer, sent, rt, evRoom, evFd, strays, overlap, status>>

\* The whiteboard has gone.  A seat of the same client stays.
DelWhite ==
    /\ AtRoom
    /\ Gone # teacherFd[evRoom] /\ Gone = whiteFd[evRoom]
    /\ whiteFd' = [whiteFd EXCEPT ![evRoom] = NoFd]
    /\ strays' = IF Gone \in Seated(evRoom) THEN strays \cup {Gone} ELSE strays
    /\ evRoom' = evRoom + 1
    /\ UNCHANGED <<teacherFd, teacherName, seat, peer, sent, rt, evPc, evList, evAt,
                   evFd, overlap, status>>

\* Mutant of Offline: the seat stays online until it is erased.
OfflineLater(map, f) == map

Offline(map, f) ==
    IF f \in DOMAIN map THEN [map EXCEPT ![f].state = "offline"] ELSE map

\* Mutant of FirstToTell: the iterator is taken before the seat is erased.
FirstToTellTooEarly(map, f) == Least(DOMAIN map)

\* The first student that is told about the seat f.
FirstToTell(map, f) == Least(DOMAIN map \ {f})

\* update_all_student_status, with or without a seat for the client.
DelStudent ==
    /\ AtRoom
    /\ Gone # teacherFd[evRoom] /\ Gone # whiteFd[evRoom]
    /\ IF Null \in Range(seat[evRoom])
       THEN Stops("null seat")
       ELSE /\ evList' = Range(Offline(seat[evRoom], Gone))
            /\ seat' = [seat EXCEPT ![evRoom] = Erase(@, Gone)]
            /\ evAt' = FirstToTell(seat[evRoom], Gone)
            /\ evPc' = "tell"
            /\ UNCHANGED <<teacherFd, teacherName, whiteFd, peer, sent, rt, evRoom,
                           evFd, strays, overlap, status>>

EvWalking == Running /\ evPc \in {"dismiss", "tell"} /\ evAt # NoFd

\* teacher_disconnect writes each message into a Buf of its own.
EvSend ==
    /\ EvWalking /\ evPc = "dismiss"
    /\ evAt \in Seated(evRoom)
    /\ Show(evAt, evList)
    /\ evAt' = After(Seated(evRoom), evAt)
    /\ UNCHANGED <<room, peer, shared, rt, evPc, evRoom, evList, evFd, strays,
                   overlap, status>>

\* update_all_student_status gives every message the block of p.  SendTask
\* zeroes it with the first one it has sent, and p->reset() at the end of the
\* walk: at most the first student gets the list, if SendTask is fast enough.
EvTell ==
    /\ EvWalking /\ evPc = "tell"
    /\ evAt \in Seated(evRoom)
    /\ \E text \in {evList, {Torn}} : Show(evAt, text)
    /\ shared' = TRUE
    /\ evList' = {Torn}
    /\ evAt' = After(Seated(evRoom), evAt)
    /\ UNCHANGED <<room, peer, rt, evPc, evRoom, evFd, strays, overlap, status>>

\* RecvTask has erased the element: the iterator dangles.  What is read there
\* ends the process, ends the walk, or leads on to a later element.
EvDangling ==
    /\ EvWalking
    /\ evAt \notin Seated(evRoom)
    /\ \/ Stops("crashed")
       \/ /\ evAt' \in {NoFd} \cup {k \in Seated(evRoom) : k > evAt}
          /\ UNCHANGED <<room, peer, sent, rt, evPc, evRoom, evList, evFd, strays,
                         overlap, status>>

Dismissed ==
    /\ Running /\ evPc = "dismiss" /\ evAt = NoFd
    /\ Reset(evRoom)
    /\ evPc' = "rooms" /\ evRoom' = evRoom + 1 /\ evList' = {}
    /\ UNCHANGED <<peer, sent, rt, evAt, evFd, strays, overlap, status>>

\* Mutant of Told: the iterator over the rooms is advanced twice.
ToldSkipsRoom ==
    /\ Running /\ evPc = "tell" /\ evAt = NoFd
    /\ evPc' = "rooms" /\ evRoom' = evRoom + 2 /\ evList' = {}
    /\ UNCHANGED <<room, peer, sent, rt, evAt, evFd, strays, overlap, status>>

Told ==
    /\ Running /\ evPc = "tell" /\ evAt = NoFd
    /\ evPc' = "rooms" /\ evRoom' = evRoom + 1 /\ evList' = {}
    /\ UNCHANGED <<room, peer, sent, rt, evAt, evFd, strays, overlap, status>>

\* Mutant of RoomsDone: the last room is not visited.
RoomsDoneEarly ==
    /\ Running /\ evPc = "rooms" /\ evRoom >= RoomCount
    /\ evPc' = "idle" /\ evRoom' = 1 /\ evFd' = NoFd
    /\ UNCHANGED <<room, peer, sent, rt, evList, evAt, strays, overlap, status>>

RoomsDone ==
    /\ Running /\ evPc = "rooms" /\ evRoom > RoomCount
    /\ evPc' = "idle" /\ evRoom' = 1 /\ evFd' = NoFd
    /\ UNCHANGED <<room, peer, sent, rt, evList, evAt, strays, overlap, status>>

EvloopStep ==
    \/ DelTeacher \/ DelWhite \/ DelStudent
    \/ EvSend \/ EvTell \/ EvDangling \/ Dismissed \/ Told \/ RoomsDone

-----------------------------------------------------------------------------
(* RecvTask: the handlers that read or write rooms.                        *)

\* The next request is one of client f.
Serve(f) ==
    /\ Running /\ rtPc = "idle"
    /\ f \in backlog
    /\ backlog' \in {backlog, backlog \ {f}}
    /\ overlap' = (overlap \/ evPc # "idle")
    /\ UNCHANGED <<conn, ev, status>>

\* What a room learns of a client that has gone already, no disconnect takes
\* back.
Learns(f) == strays' = IF f \in conn THEN strays ELSE strays \cup {f}

\* Any request that leaves the rooms as they are and walks over none.
Other(f) ==
    /\ Serve(f)
    /\ UNCHANGED <<room, sent, rt, strays>>

\* CT_LoginClassRoom.  A teacher who already has the room, or one with the
\* same name, is turned away; any other one replaces the teacher.
LoginClassRoom(f, r, name) ==
    /\ Serve(f)
    /\ f # teacherFd[r] /\ name # teacherName[r]
    /\ teacherFd' = [teacherFd EXCEPT ![r] = f]
    /\ teacherName' = [teacherName EXCEPT ![r] = name]
    /\ Learns(f)
    /\ UNCHANGED <<whiteFd, seat, sent, rt>>

\* CT_LogoutClassRoom.
LogoutClassRoom(f) ==
    /\ Serve(f)
    /\ IF RoomsOf(f) # {} /\ f = teacherFd[RoomOf(f)]
       THEN Reset(RoomOf(f))
       ELSE UNCHANGED room
    /\ UNCHANGED <<sent, rt, strays>>

\* Mutant of SelectAsStudent: only the selected room is searched for the client.
SelectAsStudentAgain(f, r) ==
    /\ Serve(f)
    /\ ~Knows(r, f)
    /\ seat' = [seat EXCEPT ![r] = Put(@, f, [sid |-> NoSid, state |-> "offline"])]
    /\ Learns(f)
    /\ UNCHANGED <<teacherFd, teacherName, whiteFd, sent, rt>>

\* CT_SelectedClassRoom from a student.
SelectAsStudent(f, r) ==
    /\ Serve(f)
    /\ RoomsOf(f) = {}
    /\ seat' = [seat EXCEPT ![r] = Put(@, f, [sid |-> NoSid, state |-> "offline"])]
    /\ Learns(f)
    /\ UNCHANGED <<teacherFd, teacherName, whiteFd, sent, rt>>

\* CT_SelectedClassRoom from a whiteboard.
SelectAsWhite(f, r) ==
    /\ Serve(f)
    /\ whiteFd' = [whiteFd EXCEPT ![r] = f]
    /\ Learns(f)
    /\ UNCHANGED <<teacherFd, teacherName, seat, sent, rt>>

\* CT_SelectedClassRoom with an id no room has: get_room returns NULL.
SelectNoRoom(f) == Running /\ rtPc = "idle" /\ f \in backlog /\ Stops("null room")

\* CT_Login from a student who has a seat: it is filled in, and the new entry
\* alone is sent to the teacher, which is not in view.  An account that does
\* not exist leaves the id at 0.
LoginStudent(f, sid) ==
    /\ Serve(f)
    /\ RoomsOf(f) # {}
    /\ LET r == RoomOf(f)
           s == [sid |-> sid, state |-> "online"]
       IN /\ f \in Seated(r) /\ seat[r][f] # Null
          /\ seat' = [seat EXCEPT ![r][f] = s]
          /\ rtPc' = "list" /\ rtRoom' = r
    /\ UNCHANGED <<teacherFd, teacherName, whiteFd, sent, rtList, rtAt, strays>>

\* The states of all students of the room are collected.
CollectList ==
    /\ Running /\ rtPc = "list"
    /\ IF Null \in Range(seat[rtRoom])
       THEN Stops("null seat")
       ELSE /\ rtList' = Range(seat[rtRoom])
            /\ rtAt' = Least(Seated(rtRoom))
            /\ rtPc' = "walk"
            /\ UNCHANGED <<room, peer, sent, rtRoom, ev, strays, overlap, status>>

\* postTeacherToAllStudent walks over the students too, with another message.
Broadcast(f) ==
    /\ Serve(f)
    /\ RoomsOf(f) # {}
    /\ rtRoom' = RoomOf(f)
    /\ rtAt' = Least(Seated(rtRoom'))
    /\ rtPc' = "broadcast"
    /\ UNCHANGED <<room, sent, rtList, strays>>

\* CT_LeaveEarly, from the teacher: the students are asked for their ids, up to
\* the one that is to leave.
LeaveEarly(f) ==
    /\ Serve(f)
    /\ RoomsOf(f) # {} /\ f = teacherFd[RoomOf(f)]
    /\ rtRoom' = RoomOf(f)
    /\ rtAt' = Least(Seated(rtRoom'))
    /\ rtPc' = "ask"
    /\ UNCHANGED <<room, sent, rtList, strays>>

RtWalking == Running /\ rtPc \in {"walk", "broadcast", "ask"} /\ rtAt # NoFd

RtSend ==
    /\ RtWalking /\ rtPc # "ask"
    /\ rtAt \in Seated(rtRoom)
    /\ IF rtPc = "walk" THEN Show(rtAt, rtList) ELSE UNCHANGED view
    /\ rtAt' = After(Seated(rtRoom), rtAt)
    /\ UNCHANGED <<room, peer, shared, rtPc, rtRoom, rtList, ev, strays, overlap, status>>

\* The student at the iterator has the id, or has not.
RtAsk ==
    /\ RtWalking /\ rtPc = "ask"
    /\ rtAt \in Seated(rtRoom)
    /\ IF seat[rtRoom][rtAt] = Null
       THEN Stops("null seat")
       ELSE /\ rtAt' \in {NoFd, After(Seated(rtRoom), rtAt)}
            /\ UNCHANGED <<room, peer, sent, rtPc, rtRoom, rtList, ev, strays, overlap,
                           status>>

\* Evloop has erased the element.
RtDangling ==
    /\ RtWalking
    /\ rtAt \notin Seated(rtRoom)
    /\ \/ Stops("crashed")
       \/ /\ rtAt' \in {NoFd} \cup {k \in Seated(rtRoom) : k > rtAt}
          /\ UNCHANGED <<room, peer, sent, rtPc, rtRoom, rtList, ev, strays, overlap,
                         status>>

RtWalked ==
    /\ Running /\ rtPc \in {"walk", "broadcast", "ask"} /\ rtAt = NoFd
    /\ rtPc' = "idle" /\ rtRoom' = 1 /\ rtList' = {}
    /\ UNCHANGED <<room, peer, sent, rtAt, ev, strays, overlap, status>>

RecvTaskStep ==
    \/ \E f \in Fds :
          \/ Other(f) \/ LogoutClassRoom(f) \/ SelectNoRoom(f) \/ LeaveEarly(f)
          \/ Broadcast(f)
          \/ \E r \in Rooms : SelectAsStudent(f, r) \/ SelectAsWhite(f, r)
          \/ \E r \in Rooms, name \in Names \cup {NoName} : LoginClassRoom(f, r, name)
          \/ \E sid \in Sids \cup {NoSid} : LoginStudent(f, sid)
    \/ CollectList \/ RtSend \/ RtAsk \/ RtDangling \/ RtWalked

-----------------------------------------------------------------------------
Clients == \E f \in Fds : Connect(f) \/ Request(f) \/ Disconnect(f)

Stopped == ~Running /\ UNCHANGED vars

Next == Clients \/ EvloopStep \/ RecvTaskStep \/ Stopped

\* The two threads are scheduled.
Fairness == WF_vars(EvloopStep) /\ WF_vars(RecvTaskStep)

Spec == Init /\ [][Next]_vars /\ Fairness

-----------------------------------------------------------------------------
(* What holds.                                                             *)

\* The variables keep their types, but for what the games add to RecvTask.
RoomsTypeOK ==
    /\ teacherFd \in [Rooms -> Fds \cup {NoFd}]
    /\ whiteFd \in [Rooms -> Fds \cup {NoFd}]
    /\ teacherName \in [Rooms -> Names \cup {NoName}]
    /\ DOMAIN seat = Rooms
    /\ \A r \in Rooms : /\ Seated(r) \subseteq Fds
                        /\ seat[r] \in [Seated(r) -> Entry \cup {Null}]
    /\ conn \subseteq Fds /\ backlog \subseteq Fds
    /\ view \in [Fds -> SUBSET (Entry \cup {Bare, Torn})] /\ shared \in BOOLEAN
    /\ rtRoom \in Rooms \cup {1}
    /\ rtList \subseteq Entry
    /\ rtAt \in Fds \cup {NoFd}
    /\ evPc \in {"idle", "rooms", "dismiss", "tell"}
    /\ evRoom \in 1 .. RoomCount + 1
    /\ evList \subseteq Entry \cup {Bare, Torn}
    /\ evAt \in Fds \cup {NoFd}
    /\ evFd \in Fds \cup {NoFd}
    /\ strays \subseteq Fds
    /\ overlap \in BOOLEAN

TypeOK ==
    /\ RoomsTypeOK
    /\ rtPc \in {"idle", "list", "walk", "broadcast", "ask"}
    /\ status \in {"running", "crashed", "null room", "null seat"}

\* Where the threads are, as far as the handlers rely on it.
ThreadsInPlace ==
    /\ evPc = "idle" <=> evFd = NoFd
    /\ evPc \in {"dismiss", "tell"} => evRoom \in Rooms
    /\ evPc # "idle" => evFd \notin conn
    /\ rtPc = "list" \/ rtAt # NoFd => rtRoom \in Rooms

\* A client sits in one room at most, however often it selects a room and
\* whatever Evloop does meanwhile: handlers that look a student up by its
\* descriptor stop at the first room that has it.
SeatUnique ==
    \A f \in Fds, q, r \in Rooms : f \in Seated(q) /\ f \in Seated(r) => q = r

\* After a disconnect no room knows the descriptor, which the kernel will
\* give to another client.  The exceptions, recorded in strays: a request was
\* handled after the disconnect, the client was a whiteboard with a seat in
\* the same room, or the room was built with that number in its memory.
GoneIsForgotten ==
    \A f \in Fds \ (conn \cup strays \cup {evFd}) : RoomsOf(f) = {}

\* While Evloop walks over the rooms, those behind it have forgotten the client.
ForgottenBehind ==
    \A f \in Fds \ (conn \cup strays), r \in Rooms :
        Knows(r, f) => /\ f = evFd
                       /\ evRoom <= r
                       /\ evPc = "tell" => evRoom # r

OnlineIn(entries) == {e.sid : e \in {x \in entries : x.state = "online"}}

Informed(f, r) == OnlineIn(view[f]) = OnlineIn(Range(seat[r]))

\* The last list sent to f was torn, or it is true of room r.
StatesAreCurrent(f, r) == view[f] # {Torn} => Informed(f, r)

\* A student who has logged in.
Attends(f, r) ==
    /\ f \in (Seated(r) \cap conn) \ strays
    /\ seat[r][f].state = "online"

\* While no thread is in the rooms, the states last sent to a student are torn
\* or say exactly which students of its room are online, if logins and
\* disconnects have never been processed at the same time: a list that comes
\* through is never an old one, or one of another room.
CurrentUnlessOverlap ==
    rtPc = "idle" /\ evPc = "idle" /\ ~overlap =>
        \A r \in Rooms : \A f \in Fds : Attends(f, r) => StatesAreCurrent(f, r)

\* An iterator dangles only if both threads were in the rooms at the same
\* time: no sequence of requests and disconnects, one after the other, makes
\* a walk lose its place.
DanglesOnlyInOverlap == status = "crashed" => overlap

\* Without an overlap one thread is out of the rooms and no iterator dangles.
TurnsKeepIterators ==
    \/ overlap
    \/ /\ evPc = "idle" \/ rtPc = "idle"
       /\ evPc \in {"dismiss", "tell"} /\ evAt # NoFd => evAt \in Seated(evRoom)
       /\ rtPc \in {"walk", "broadcast", "ask"} /\ rtAt # NoFd => rtAt \in Seated(rtRoom)
       /\ status # "crashed"

\* A thread is about to tell f, or to empty room r.
OnTheWay(f, r) ==
    \/ rtPc = "list" /\ r = rtRoom
    \/ rtPc = "walk" /\ r = rtRoom /\ rtAt # NoFd /\ rtAt <= f
    \/ evPc = "dismiss" /\ r = evRoom
    \/ evPc = "tell" /\ r = evRoom /\ evAt # NoFd /\ evAt <= f

\* What a thread tells says who is online in the room it tells it in.
ListsAreCurrent ==
    /\ rtPc = "walk" => OnlineIn(rtList) = OnlineIn(Range(seat[rtRoom]))
    /\ evPc = "tell" /\ evList # {Torn} => OnlineIn(evList) = OnlineIn(Range(seat[evRoom]))

\* Without an overlap each student has the states of its room, or a thread is
\* on its way to tell them.
ToldOrOnTheWay ==
    \/ overlap
    \/ /\ ListsAreCurrent
       /\ \A r \in Rooms, f \in Fds :
              Attends(f, r) => OnTheWay(f, r) \/ StatesAreCurrent(f, r)

\* Every request and every disconnect gets through its walks, whatever the
\* other thread does to the maps, unless the process is gone.
WalksEnd ==
    /\ (rtPc # "idle") ~> (rtPc = "idle" \/ ~Running)
    /\ (evPc # "idle") ~> (evPc = "idle" \/ ~Running)

-----------------------------------------------------------------------------
(* What comments and log lines of the code say, and does not hold.         *)

\* room.cpp:99: the current state of all students is sent to each student.
\* Here, a list that comes through is the current one, overlap or not.
Current ==
    rtPc = "idle" /\ evPc = "idle" /\ Running =>
        \A r \in Rooms : \A f \in Fds : Attends(f, r) => StatesAreCurrent(f, r)

\* The same line, of requests and disconnects that come one after the other:
\* the list comes through.
EachIsInformed ==
    rtPc = "idle" /\ evPc = "idle" /\ ~overlap /\ Running =>
        \A r \in Rooms : \A f \in Fds : Attends(f, r) => Informed(f, r)

=============================================================================
