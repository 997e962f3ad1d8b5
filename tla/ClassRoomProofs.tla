-------------------------- MODULE ClassRoomProofs --------------------------
(***************************************************************************)
(* What TLAPS proves of ClassRoom for all rooms, clients, names and ids.   *)
(***************************************************************************)
EXTENDS ClassRoom, WellFoundedInduction, TLAPS

-----------------------------------------------------------------------------
(* Keys, iterators and rooms.                                              *)

\* Zero stands for "no client" and "end()".
LEMMA NoFdIsNoClient == NoFd \notin Fds
  BY ClassRoomAssumption DEF NoFd

\* A nonempty set of natural numbers has a least element.
LEMMA LeastExists ==
    ASSUME NEW S \in SUBSET Nat, S # {}
    PROVE  \E m \in S : \A j \in S : m <= j
<1> DEFINE R == {ss \in Nat \X Nat : ss[1] < ss[2]}
<1>1. IsWellFoundedOn(R, Nat)
  BY NatLessThanWellFounded DEF OpToRel
<1>2. \E m \in S : \A j \in S : ~(<<j, m>> \in R)
  <2> HIDE DEF R
  <2>1. QED
    BY <1>1, WFMin
<1>3. \A m, j \in S : ~(<<j, m>> \in R) => m <= j
  OBVIOUS
<1>4. QED
  BY <1>2, <1>3

\* An iterator that is set to the first key, or advanced, is at a key or at end().
LEMMA IteratorsAreKeys ==
    ASSUME NEW keys \in SUBSET Fds, NEW at
    PROVE  Least(keys) \in keys \cup {NoFd} /\ After(keys, at) \in keys \cup {NoFd}
<1>1. ASSUME NEW S \in SUBSET keys PROVE Least(S) \in S \cup {NoFd}
  <2>1. CASE S = {}
    BY <2>1 DEF Least
  <2>2. CASE S # {}
    <3>1. S \in SUBSET Nat
      BY ClassRoomAssumption
    <3>2. \E k \in S : \A j \in S : k <= j
      BY <2>2, <3>1, LeastExists
    <3>3. QED
      BY <2>2, <3>2 DEF Least
  <2>3. QED
    BY <2>1, <2>2
<1>2. QED
  BY <1>1 DEF After

\* get_room_by_fd finds a room that knows the client, if there is one.
LEMMA RoomOfKnows ==
    ASSUME NEW f, RoomsOf(f) # {}
    PROVE  RoomOf(f) \in Rooms /\ Knows(RoomOf(f), f)
<1>1. RoomsOf(f) \in SUBSET Nat
  BY ClassRoomAssumption DEF RoomsOf, Rooms
<1>2. \E r \in RoomsOf(f) : \A q \in RoomsOf(f) : r <= q
  BY <1>1, LeastExists
<1>3. RoomOf(f) \in RoomsOf(f)
  BY <1>2 DEF RoomOf
<1>4. QED
  BY <1>3 DEF RoomsOf

\* The operations on m_student_map do to its keys and values what they say.
LEMMA MapOperations ==
    ASSUME NEW D, NEW V, NEW map \in [D -> V], NEW f, NEW s \in V
    PROVE  /\ Erase(map, f) \in [D \ {f} -> V]
           /\ Put(map, f, s) \in [D \cup {f} -> V]
  BY DEF Erase, Put

\* The empty map has no keys.
LEMMA EmptyMap == DOMAIN <<>> = {} /\ \A V : <<>> \in [{} -> V]
  OBVIOUS

\* A map without NULL, before and after the client in it is set offline.
LEMMA EntriesOnly ==
    ASSUME NEW D, NEW map \in [D -> Entry \cup {Null}], Null \notin Range(map), NEW f
    PROVE  Range(map) \subseteq Entry /\ Range(Offline(map, f)) \subseteq Entry
<1>1. map \in [D -> Entry]
  BY DEF Range
<1>2. \A k \in D : map[k] \in Entry /\ [map[k] EXCEPT !.state = "offline"] \in Entry
  BY <1>1 DEF Entry
<1>3. Range(map) \subseteq Entry
  BY <1>1 DEF Range
<1>4. CASE f \in D
  <2>1. Offline(map, f) = [map EXCEPT ![f] = [map[f] EXCEPT !.state = "offline"]]
    BY <1>1, <1>4 DEF Offline
  <2>2. Offline(map, f) \in [D -> Entry]
    BY <1>1, <1>2, <1>4, <2>1
  <2>3. QED
    BY <1>3, <2>2 DEF Range
<1>5. CASE f \notin D
  BY <1>1, <1>3, <1>5 DEF Offline
<1>6. QED
  BY <1>3, <1>4, <1>5

\* Where Evloop is at a room, there is one, and it has a client to remove.
LEMMA AtRoomIsRoom ==
    ASSUME RoomsTypeOK, ThreadsInPlace, evPc = "rooms", evRoom <= RoomCount
    PROVE  evRoom \in Rooms /\ evFd \in Fds
<1>1. evRoom \in 1 .. RoomCount + 1 /\ evFd \in Fds \cup {NoFd}
  BY DEF RoomsTypeOK
<1>2. evRoom \in Rooms
  BY <1>1, ClassRoomAssumption DEF Rooms
<1>3. evFd # NoFd
  BY DEF ThreadsInPlace
<1>4. QED
  BY <1>1, <1>2, <1>3

-----------------------------------------------------------------------------
\* Each step keeps the types, and the threads where their counters say.
LEMMA StepKeepsTypes ==
    ASSUME RoomsTypeOK, ThreadsInPlace
    PROVE  [Next]_vars => RoomsTypeOK' /\ ThreadsInPlace'
<1> USE NoFdIsNoClient, ClassRoomAssumption DEF RoomsTypeOK, ThreadsInPlace, Running, Rooms, Seated,
        room, peer, sent, rt, ev
<1>1. ASSUME NEW f \in Fds, Connect(f) PROVE RoomsTypeOK' /\ ThreadsInPlace'
  BY <1>1 DEF Connect
<1>2. ASSUME NEW f \in Fds, Request(f) PROVE RoomsTypeOK' /\ ThreadsInPlace'
  BY <1>2 DEF Request
<1>3. ASSUME NEW f \in Fds, Disconnect(f) PROVE RoomsTypeOK' /\ ThreadsInPlace'
  BY <1>3 DEF Disconnect
<1>4. ASSUME DelTeacher PROVE RoomsTypeOK' /\ ThreadsInPlace'
  <2>1. evRoom \in Rooms /\ Seated(evRoom) \in SUBSET Fds
    BY <1>4 DEF DelTeacher, AtRoom
  <2>2. evAt' \in Fds \cup {NoFd}
    BY <1>4, <2>1, IteratorsAreKeys DEF DelTeacher
  <2>3. QED
    BY <1>4, <2>1, <2>2 DEF DelTeacher, AtRoom, Gone
<1>5. ASSUME DelWhite PROVE RoomsTypeOK' /\ ThreadsInPlace'
  <2>1. evRoom \in Rooms /\ evFd \in Fds
    BY <1>5 DEF DelWhite, AtRoom
  <2>2. whiteFd' \in [Rooms -> Fds \cup {NoFd}] /\ strays' \subseteq Fds
    BY <1>5, <2>1 DEF DelWhite, Gone
  <2>3. QED
    BY <1>5, <2>1, <2>2 DEF DelWhite, AtRoom
<1>6. ASSUME DelStudent PROVE RoomsTypeOK' /\ ThreadsInPlace'
  <2>1. evPc = "rooms" /\ evRoom <= RoomCount
    BY <1>6 DEF DelStudent, AtRoom
  <2>2. evRoom \in Rooms /\ evFd \in Fds
    BY <2>1, AtRoomIsRoom
  <2>3. CASE Null \in Range(seat[evRoom])
    <3>1. Stops("null seat")
      BY <1>6, <2>3 DEF DelStudent
    <3>2. QED
      BY <3>1 DEF Stops
  <2>4. CASE Null \notin Range(seat[evRoom])
    <3> DEFINE map == seat[evRoom]
    <3>1. /\ evList' = Range(Offline(map, evFd)) /\ seat' = [seat EXCEPT ![evRoom] = Erase(map, evFd)]
          /\ evAt' = Least(DOMAIN map \ {evFd}) /\ evPc' = "tell"
          /\ UNCHANGED <<teacherFd, teacherName, whiteFd, peer, sent, rt, evRoom, evFd,
                         strays, overlap, status>>
      BY <1>6, <2>4 DEF DelStudent, Gone, FirstToTell
    <3>2. map \in [DOMAIN map -> Entry \cup {Null}] /\ DOMAIN map \in SUBSET Fds
      BY <2>2
    <3>3. Range(Offline(map, evFd)) \subseteq Entry
      BY <2>4, <3>2, EntriesOnly
    <3>4. Erase(map, evFd) \in [DOMAIN map \ {evFd} -> Entry \cup {Null}]
      BY <3>2 DEF Erase
    <3>5. \A r \in Rooms : /\ DOMAIN seat'[r] \subseteq Fds
                           /\ seat'[r] \in [DOMAIN seat'[r] -> Entry \cup {Null}]
      BY <2>2, <3>1, <3>2, <3>4
    <3>6. DOMAIN seat' = Rooms
      BY <3>1
    <3>7. evAt' \in Fds \cup {NoFd}
      BY <3>1, <3>2, IteratorsAreKeys
    <3> HIDE DEF map
    <3>8. QED
      BY <2>2, <3>1, <3>3, <3>5, <3>6, <3>7
  <2>5. QED
    BY <2>3, <2>4
<1>7. ASSUME EvSend PROVE RoomsTypeOK' /\ ThreadsInPlace'
  <2>1. evRoom \in Rooms /\ Seated(evRoom) \in SUBSET Fds
    BY <1>7 DEF EvSend, EvWalking
  <2>2. evAt' \in Fds \cup {NoFd}
    BY <1>7, <2>1, IteratorsAreKeys DEF EvSend
  <2>3. view' \in [Fds -> SUBSET (Entry \cup {Bare, Torn})]
    BY <1>7 DEF EvSend, Show
  <2>4. QED
    BY <1>7, <2>1, <2>2, <2>3 DEF EvSend, EvWalking
<1>8. ASSUME EvDangling PROVE RoomsTypeOK' /\ ThreadsInPlace'
  BY <1>8 DEF EvDangling, EvWalking, Stops
<1>9. ASSUME Dismissed PROVE RoomsTypeOK' /\ ThreadsInPlace'
  BY <1>9 DEF Dismissed, Reset
<1>10. ASSUME Told PROVE RoomsTypeOK' /\ ThreadsInPlace'
  BY <1>10 DEF Told
<1>11. ASSUME RoomsDone PROVE RoomsTypeOK' /\ ThreadsInPlace'
  BY <1>11 DEF RoomsDone
<1>12. ASSUME NEW f \in Fds, Other(f) PROVE RoomsTypeOK' /\ ThreadsInPlace'
  BY <1>12 DEF Other, Serve
<1>13. ASSUME NEW f \in Fds, LogoutClassRoom(f) PROVE RoomsTypeOK' /\ ThreadsInPlace'
  <2> DEFINE q == RoomOf(f)
  <2>1. CASE RoomsOf(f) # {} /\ f = teacherFd[q]
    <3>1. q \in Rooms /\ Reset(q)
      BY <1>13, <2>1, RoomOfKnows DEF LogoutClassRoom
    <3>2. UNCHANGED <<conn, sent, rt, ev, strays, status>> /\ backlog' \subseteq backlog /\ overlap' \in BOOLEAN
      BY <1>13 DEF LogoutClassRoom, Serve
    <3> HIDE DEF q
    <3>3. DOMAIN seat' = Rooms /\ \A r \in Rooms : seat'[r] = IF r = q THEN <<>> ELSE seat[r]
      BY <3>1 DEF Reset
    <3>4. \A r \in Rooms : /\ DOMAIN seat'[r] \subseteq Fds
                           /\ seat'[r] \in [DOMAIN seat'[r] -> Entry \cup {Null}]
      BY <3>3, EmptyMap
    <3>5. QED
      BY <3>1, <3>2, <3>3, <3>4 DEF Reset
  <2>2. CASE ~(RoomsOf(f) # {} /\ f = teacherFd[q])
    BY <1>13, <2>2 DEF LogoutClassRoom, Serve
  <2>3. QED
    BY <2>1, <2>2
<1>14. ASSUME NEW f \in Fds, SelectNoRoom(f) PROVE RoomsTypeOK' /\ ThreadsInPlace'
  BY <1>14 DEF SelectNoRoom, Stops
<1>15. ASSUME NEW f \in Fds, Broadcast(f) PROVE RoomsTypeOK' /\ ThreadsInPlace'
  <2>1. rtRoom' \in Rooms
    BY <1>15, RoomOfKnows DEF Broadcast
  <2>2. DOMAIN seat'[rtRoom'] \in SUBSET Fds /\ seat' = seat
    BY <1>15, <2>1 DEF Broadcast
  <2>3. rtAt' \in Fds \cup {NoFd}
    BY <1>15, <2>2, IteratorsAreKeys DEF Broadcast
  <2>4. QED
    BY <1>15, <2>1, <2>3 DEF Broadcast, Serve
<1>29. ASSUME NEW f \in Fds, LeaveEarly(f) PROVE RoomsTypeOK' /\ ThreadsInPlace'
  <2>1. rtRoom' \in Rooms
    BY <1>29, RoomOfKnows DEF LeaveEarly
  <2>2. DOMAIN seat'[rtRoom'] \in SUBSET Fds /\ seat' = seat
    BY <1>29, <2>1 DEF LeaveEarly
  <2>3. rtAt' \in Fds \cup {NoFd}
    BY <1>29, <2>2, IteratorsAreKeys DEF LeaveEarly
  <2>4. QED
    BY <1>29, <2>1, <2>3 DEF LeaveEarly, Serve
<1>16. ASSUME NEW f \in Fds, NEW r \in Rooms, SelectAsStudent(f, r) PROVE RoomsTypeOK' /\ ThreadsInPlace'
  <2>1. [sid |-> NoSid, state |-> "offline"] \in Entry
    BY DEF Entry
  <2>2. /\ DOMAIN seat' = Rooms
        /\ \A q \in Rooms : /\ DOMAIN seat'[q] \subseteq Fds
                            /\ seat'[q] \in [DOMAIN seat'[q] -> Entry \cup {Null}]
    BY <1>16, <2>1 DEF SelectAsStudent, Put
  <2>3. QED
    BY <1>16, <2>2 DEF SelectAsStudent, Serve, Learns
<1>17. ASSUME NEW f \in Fds, NEW r \in Rooms, SelectAsWhite(f, r) PROVE RoomsTypeOK' /\ ThreadsInPlace'
  BY <1>17 DEF SelectAsWhite, Serve, Learns
<1>18. ASSUME NEW f \in Fds, NEW r \in Rooms, NEW name \in Names \cup {NoName}, LoginClassRoom(f, r, name) PROVE RoomsTypeOK' /\ ThreadsInPlace'
  BY <1>18 DEF LoginClassRoom, Serve, Learns
<1>19. ASSUME NEW f \in Fds, NEW sid \in Sids \cup {NoSid}, LoginStudent(f, sid) PROVE RoomsTypeOK' /\ ThreadsInPlace'
  <2> DEFINE q == RoomOf(f)
             s == [sid |-> sid, state |-> "online"]
  <2>1. q \in Rooms /\ s \in Entry /\ f \in DOMAIN seat[q]
    BY <1>19, RoomOfKnows DEF LoginStudent, Entry
  <2>2. seat' = [seat EXCEPT ![q][f] = s] /\ rtPc' = "list" /\ rtRoom' = q
    BY <1>19 DEF LoginStudent
  <2> HIDE DEF q, s
  <2>3. /\ DOMAIN seat' = Rooms
        /\ \A r \in Rooms : /\ DOMAIN seat'[r] \subseteq Fds
                            /\ seat'[r] \in [DOMAIN seat'[r] -> Entry \cup {Null}]
    BY <2>1, <2>2
  <2>4. QED
    BY <1>19, <2>1, <2>2, <2>3 DEF LoginStudent, Serve
<1>20. ASSUME CollectList PROVE RoomsTypeOK' /\ ThreadsInPlace'
  <2>1. rtPc = "list" /\ rtRoom \in Rooms /\ Seated(rtRoom) \in SUBSET Fds
    BY <1>20 DEF CollectList
  <2>2. CASE Null \in Range(seat[rtRoom])
    <3>1. Stops("null seat")
      BY <1>20, <2>2 DEF CollectList
    <3>2. QED
      BY <3>1 DEF Stops
  <2>3. CASE Null \notin Range(seat[rtRoom])
    <3>1. /\ rtList' = Range(seat[rtRoom]) /\ rtAt' = Least(Seated(rtRoom)) /\ rtPc' = "walk"
          /\ UNCHANGED <<room, peer, sent, rtRoom, ev, strays, overlap, status>>
      BY <1>20, <2>3 DEF CollectList
    <3>2. seat[rtRoom] \in [Seated(rtRoom) -> Entry \cup {Null}]
      BY <2>1
    <3>3. rtList' \subseteq Entry
      BY <2>3, <3>1, <3>2, EntriesOnly
    <3>4. rtAt' \in Fds \cup {NoFd}
      BY <2>1, <3>1, IteratorsAreKeys
    <3>5. QED
      BY <2>1, <3>1, <3>3, <3>4
  <2>4. QED
    BY <2>2, <2>3
<1>21. ASSUME RtSend PROVE RoomsTypeOK' /\ ThreadsInPlace'
  <2>1. rtRoom \in Rooms /\ Seated(rtRoom) \in SUBSET Fds
    BY <1>21 DEF RtSend, RtWalking
  <2>2. rtAt' \in Fds \cup {NoFd}
    BY <1>21, <2>1, IteratorsAreKeys DEF RtSend
  <2>3. view' \in [Fds -> SUBSET (Entry \cup {Bare, Torn})]
    BY <1>21 DEF RtSend, Show
  <2>4. QED
    BY <1>21, <2>1, <2>2, <2>3 DEF RtSend, RtWalking
<1>30. ASSUME RtAsk PROVE RoomsTypeOK' /\ ThreadsInPlace'
  <2>1. rtRoom \in Rooms /\ Seated(rtRoom) \in SUBSET Fds
    BY <1>30 DEF RtAsk, RtWalking
  <2>2. CASE seat[rtRoom][rtAt] = Null
    <3>1. Stops("null seat")
      BY <1>30, <2>2 DEF RtAsk
    <3>2. QED
      BY <3>1 DEF Stops
  <2>3. CASE seat[rtRoom][rtAt] # Null
    <3>1. /\ rtAt' \in {NoFd, After(Seated(rtRoom), rtAt)}
          /\ UNCHANGED <<room, peer, sent, rtPc, rtRoom, rtList, ev, strays, overlap, status>>
      BY <1>30, <2>3 DEF RtAsk
    <3>2. rtAt' \in Fds \cup {NoFd}
      BY <2>1, <3>1, IteratorsAreKeys
    <3>3. QED
      BY <2>1, <3>1, <3>2
  <2>4. QED
    BY <2>2, <2>3
<1>22. ASSUME RtDangling PROVE RoomsTypeOK' /\ ThreadsInPlace'
  BY <1>22 DEF RtDangling, RtWalking, Stops
<1>23. ASSUME RtWalked PROVE RoomsTypeOK' /\ ThreadsInPlace'
  BY <1>23 DEF RtWalked
<1>24. ASSUME UNCHANGED vars PROVE RoomsTypeOK' /\ ThreadsInPlace'
  BY <1>24 DEF vars
<1>28. ASSUME EvTell PROVE RoomsTypeOK' /\ ThreadsInPlace'
  <2>1. evRoom \in Rooms /\ Seated(evRoom) \in SUBSET Fds
    BY <1>28 DEF EvTell, EvWalking
  <2>2. evAt' \in Fds \cup {NoFd}
    BY <1>28, <2>1, IteratorsAreKeys DEF EvTell
  <2>3. view' \in [Fds -> SUBSET (Entry \cup {Bare, Torn})]
    BY <1>28 DEF EvTell, Show
  <2>4. QED
    BY <1>28, <2>1, <2>2, <2>3 DEF EvTell, EvWalking
<1>25. ASSUME EvloopStep PROVE RoomsTypeOK' /\ ThreadsInPlace'
  BY <1>25, <1>28, <1>4, <1>5, <1>6, <1>7, <1>8, <1>9, <1>10, <1>11
     DEF EvloopStep
<1>26. ASSUME RecvTaskStep PROVE RoomsTypeOK' /\ ThreadsInPlace'
  BY <1>26, <1>12, <1>13, <1>14, <1>15, <1>29, <1>16, <1>17, <1>18,
     <1>19, <1>20, <1>21, <1>30, <1>22, <1>23 DEF RecvTaskStep
<1>27. QED
  BY <1>1, <1>2, <1>3, <1>24, <1>25, <1>26 DEF Next, Clients, Stopped

\* What RecvTask does in ClassRoom begins and ends outside the games.
LEMMA StepStaysInClass ==
    [Next]_vars =>
        \/ UNCHANGED rt
        \/ {rtPc, rtPc'} \subseteq {"idle", "list", "walk", "broadcast", "ask"}
<1> SUFFICES ASSUME [Next]_vars, rtPc # rtPc' \/ ~UNCHANGED rt
             PROVE  {rtPc, rtPc'} \subseteq {"idle", "list", "walk", "broadcast", "ask"}
  OBVIOUS
<1> USE DEF Stops, rt
<1>1. CASE Clients \/ EvloopStep \/ UNCHANGED vars
  BY <1>1 DEF Clients, Connect, Request, Disconnect, EvloopStep, DelTeacher, DelWhite,
     DelStudent, EvSend, EvTell, EvDangling, Dismissed, Told, RoomsDone, vars
<1>2. CASE RecvTaskStep
  <2>1. CASE \E f \in Fds : Other(f) \/ LogoutClassRoom(f) \/ SelectNoRoom(f) \/ LeaveEarly(f) \/ Broadcast(f)
    BY <2>1 DEF Other, LogoutClassRoom, SelectNoRoom, LeaveEarly, Broadcast, Serve
  <2>2. CASE \E f \in Fds : \/ \E r \in Rooms : SelectAsStudent(f, r) \/ SelectAsWhite(f, r)
                            \/ \E r \in Rooms, name \in Names \cup {NoName} : LoginClassRoom(f, r, name)
    BY <2>2 DEF SelectAsStudent, SelectAsWhite, LoginClassRoom, Serve
  <2>3. CASE \E f \in Fds : \E sid \in Sids \cup {NoSid} : LoginStudent(f, sid)
    BY <2>3 DEF LoginStudent, Serve
  <2>4. CASE CollectList
    BY <2>4 DEF CollectList
  <2>5. CASE RtSend \/ RtAsk \/ RtDangling \/ RtWalked
    BY <2>5 DEF RtSend, RtAsk, RtDangling, RtWalked, RtWalking
  <2>6. QED
    BY <1>2, <2>1, <2>2, <2>3, <2>4, <2>5 DEF RecvTaskStep
<1>3. QED
  BY <1>1, <1>2 DEF Next, Stopped

LEMMA StepKeepsStatus ==
    [Next]_vars => UNCHANGED status \/ status' \in {"crashed", "null room", "null seat"}
<1> SUFFICES ASSUME [Next]_vars, ~UNCHANGED status
             PROVE  status' \in {"crashed", "null room", "null seat"}
  OBVIOUS
<1> USE DEF Stops
<1>1. CASE Clients \/ EvloopStep \/ UNCHANGED vars
  BY <1>1 DEF Clients, Connect, Request, Disconnect, EvloopStep, DelTeacher, DelWhite,
     DelStudent, EvSend, EvTell, EvDangling, Dismissed, Told, RoomsDone, vars
<1>2. CASE RecvTaskStep
  BY <1>2 DEF RecvTaskStep, Other, LogoutClassRoom, SelectNoRoom, LeaveEarly, Broadcast, SelectAsStudent,
     SelectAsWhite, LoginClassRoom, LoginStudent, Serve, CollectList, RtSend, RtAsk, RtDangling, RtWalked
<1>3. QED
  BY <1>1, <1>2 DEF Next, Stopped

LEMMA InitIsTyped == Init => TypeOK /\ ThreadsInPlace
<1> SUFFICES ASSUME Init PROVE TypeOK /\ ThreadsInPlace
  OBVIOUS
<1>1. \A r \in Rooms : Seated(r) = {} /\ seat[r] \in [{} -> Entry \cup {Null}]
  BY EmptyMap DEF Init, Seated
<1>2. /\ DOMAIN seat = Rooms
      /\ \A r \in Rooms : /\ Seated(r) \subseteq Fds
                          /\ seat[r] \in [Seated(r) -> Entry \cup {Null}]
  BY <1>1 DEF Init
<1>3. 1 \in 1 .. RoomCount + 1
  BY ClassRoomAssumption
<1>4. view \in [Fds -> SUBSET (Entry \cup {Bare, Torn})]
  BY DEF Init
<1>5. TypeOK
  BY <1>2, <1>3, <1>4 DEF Init, TypeOK, RoomsTypeOK
<1>6. QED
  BY <1>5 DEF Init, ThreadsInPlace

LEMMA StepIsTyped == TypeOK /\ ThreadsInPlace /\ [Next]_vars => (TypeOK /\ ThreadsInPlace)'
<1> SUFFICES ASSUME TypeOK, ThreadsInPlace, [Next]_vars PROVE (TypeOK /\ ThreadsInPlace)'
  OBVIOUS
<1>1. RoomsTypeOK' /\ ThreadsInPlace'
  BY StepKeepsTypes DEF TypeOK
<1>2. rtPc' \in {"idle", "list", "walk", "broadcast", "ask"}
  BY StepStaysInClass DEF TypeOK, rt
<1>3. status' \in {"running", "crashed", "null room", "null seat"}
  BY StepKeepsStatus DEF TypeOK
<1>4. QED
  BY <1>1, <1>2, <1>3 DEF TypeOK

\* ClassRoom!TypeOK is an invariant: the rooms, the threads and what they send
\* keep their types, with NULL in a room as the only seat that is no student.
THEOREM TypeCorrect == Spec => [](TypeOK /\ ThreadsInPlace)
  BY InitIsTyped, StepIsTyped, PTL DEF Spec

-----------------------------------------------------------------------------
\* Only a client that no room knows is given a seat.
LEMMA StepKeepsSeatsUnique ==
    ASSUME RoomsTypeOK, SeatUnique
    PROVE  [Next]_vars => SeatUnique'
<1> USE DEF SeatUnique, Seated, room, peer, sent, rt, ev
<1>0. DOMAIN seat = Rooms
  BY DEF RoomsTypeOK
<1>1. ASSUME NEW f \in Fds, Connect(f) PROVE SeatUnique'
  BY <1>1 DEF Connect
<1>2. ASSUME NEW f \in Fds, Request(f) PROVE SeatUnique'
  BY <1>2 DEF Request
<1>3. ASSUME NEW f \in Fds, Disconnect(f) PROVE SeatUnique'
  BY <1>3 DEF Disconnect
<1>4. ASSUME DelTeacher PROVE SeatUnique'
  BY <1>4 DEF DelTeacher, AtRoom, Gone
<1>5. ASSUME DelWhite PROVE SeatUnique'
  BY <1>5 DEF DelWhite, AtRoom, Gone
<1>6. ASSUME DelStudent PROVE SeatUnique'
  <2>1. CASE Null \in Range(seat[evRoom])
    <3>1. UNCHANGED seat
      BY <1>6, <2>1 DEF DelStudent, Stops
    <3>2. QED
      BY <3>1
  <2>2. CASE Null \notin Range(seat[evRoom])
    <3>1. seat' = [seat EXCEPT ![evRoom] = Erase(seat[evRoom], evFd)]
      BY <1>6, <2>2 DEF DelStudent, Gone
    <3>2. \A r \in Rooms : DOMAIN seat'[r] \subseteq DOMAIN seat[r]
      BY <1>0, <3>1 DEF Erase
    <3>3. QED
      BY <3>2
  <2>3. QED
    BY <2>1, <2>2
<1>7. ASSUME EvSend \/ EvTell PROVE SeatUnique'
  BY <1>7 DEF EvSend, EvTell, EvWalking, Show
<1>8. ASSUME EvDangling PROVE SeatUnique'
  <2>1. UNCHANGED seat
    BY <1>8 DEF EvDangling, Stops
  <2>2. QED
    BY <2>1
<1>9. ASSUME Dismissed PROVE SeatUnique'
  <2>1. \A r \in Rooms : DOMAIN seat'[r] \subseteq DOMAIN seat[r]
    BY <1>0, <1>9, EmptyMap DEF Dismissed, Reset
  <2>2. QED
    BY <2>1
<1>10. ASSUME Told PROVE SeatUnique'
  BY <1>10 DEF Told
<1>11. ASSUME RoomsDone PROVE SeatUnique'
  BY <1>11 DEF RoomsDone
<1>12. ASSUME NEW f \in Fds, Other(f) PROVE SeatUnique'
  BY <1>12 DEF Other, Serve
<1>13. ASSUME NEW f \in Fds, LogoutClassRoom(f) PROVE SeatUnique'
  <2>1. \A r \in Rooms : DOMAIN seat'[r] \subseteq DOMAIN seat[r]
    BY <1>0, <1>13, EmptyMap DEF LogoutClassRoom, Reset
  <2>2. QED
    BY <2>1
<1>14. ASSUME NEW f \in Fds, SelectNoRoom(f) PROVE SeatUnique'
  <2>1. UNCHANGED seat
    BY <1>14 DEF SelectNoRoom, Stops
  <2>2. QED
    BY <2>1
<1>15. ASSUME NEW f \in Fds, Broadcast(f) PROVE SeatUnique'
  BY <1>15 DEF Broadcast, Serve
<1>29. ASSUME NEW f \in Fds, LeaveEarly(f) PROVE SeatUnique'
  BY <1>29 DEF LeaveEarly, Serve
<1>16. ASSUME NEW f \in Fds, NEW r \in Rooms, SelectAsStudent(f, r) PROVE SeatUnique'
  <2>1. \A q \in Rooms : f \notin DOMAIN seat[q]
    BY <1>16 DEF SelectAsStudent, RoomsOf, Knows
  <2>2. \A q \in Rooms, g \in Fds :
           g \in DOMAIN seat'[q] => g \in DOMAIN seat[q] \/ (g = f /\ q = r)
    BY <1>0, <1>16 DEF SelectAsStudent, Put
  <2>3. QED
    BY <2>1, <2>2
<1>17. ASSUME NEW f \in Fds, NEW r \in Rooms, SelectAsWhite(f, r) PROVE SeatUnique'
  BY <1>17 DEF SelectAsWhite, Serve, Learns
<1>18. ASSUME NEW f \in Fds, NEW r \in Rooms, NEW name \in Names \cup {NoName}, LoginClassRoom(f, r, name) PROVE SeatUnique'
  BY <1>18 DEF LoginClassRoom, Serve, Learns
<1>19. ASSUME NEW f \in Fds, NEW sid \in Sids \cup {NoSid}, LoginStudent(f, sid) PROVE SeatUnique'
  <2>1. \A q \in Rooms : DOMAIN seat'[q] = DOMAIN seat[q]
    <3> DEFINE s == [sid |-> sid, state |-> "online"]
    <3>1. seat' = [seat EXCEPT ![RoomOf(f)][f] = s]
      BY <1>19 DEF LoginStudent
    <3> HIDE DEF s
    <3>2. QED
      BY <1>0, <3>1
  <2>2. QED
    BY <2>1
<1>20. ASSUME CollectList PROVE SeatUnique'
  <2>1. UNCHANGED seat
    BY <1>20 DEF CollectList, Stops
  <2>2. QED
    BY <2>1
<1>21. ASSUME RtSend PROVE SeatUnique'
  BY <1>21 DEF RtSend, RtWalking, Show
<1>30. ASSUME RtAsk PROVE SeatUnique'
  <2>1. UNCHANGED seat
    BY <1>30 DEF RtAsk, Stops
  <2>2. QED
    BY <2>1
<1>22. ASSUME RtDangling PROVE SeatUnique'
  <2>1. UNCHANGED seat
    BY <1>22 DEF RtDangling, Stops
  <2>2. QED
    BY <2>1
<1>23. ASSUME RtWalked PROVE SeatUnique'
  BY <1>23 DEF RtWalked
<1>24. ASSUME UNCHANGED vars PROVE SeatUnique'
  BY <1>24 DEF vars
<1>25. ASSUME EvloopStep PROVE SeatUnique'
  BY <1>25, <1>4, <1>5, <1>6, <1>7, <1>8, <1>9, <1>10, <1>11
     DEF EvloopStep
<1>26. ASSUME RecvTaskStep PROVE SeatUnique'
  BY <1>26, <1>12, <1>13, <1>14, <1>15, <1>29, <1>16, <1>17, <1>18,
     <1>19, <1>20, <1>21, <1>30, <1>22, <1>23 DEF RecvTaskStep
<1>27. QED
  BY <1>1, <1>2, <1>3, <1>24, <1>25, <1>26 DEF Next, Clients, Stopped

\* ClassRoom!SeatUnique is an invariant: whatever the two threads do to the
\* maps at the same time, no client has a seat in two rooms.
THEOREM OneSeatPerClient == Spec => []SeatUnique
<1>1. Init => SeatUnique
  BY EmptyMap DEF Init, SeatUnique, Seated
<1>2. TypeOK /\ SeatUnique /\ [Next]_vars => SeatUnique'
  BY StepKeepsSeatsUnique DEF TypeOK
<1>3. QED
  BY <1>1, <1>2, TypeCorrect, PTL DEF Spec

-----------------------------------------------------------------------------
\* Each step keeps the rooms behind Evloop free of the client that has gone.
LEMMA StepForgetsBehind ==
    ASSUME RoomsTypeOK, ThreadsInPlace, ForgottenBehind
    PROVE  [Next]_vars => ForgottenBehind'
<1> USE NoFdIsNoClient DEF ForgottenBehind, Knows, Seated, room, peer, sent, rt, ev
<1>0. /\ DOMAIN seat = Rooms /\ DOMAIN teacherFd = Rooms /\ DOMAIN whiteFd = Rooms
      /\ evRoom \in Nat /\ Rooms \subseteq Nat /\ RoomCount \in Nat
  <2>1. /\ DOMAIN seat = Rooms /\ DOMAIN teacherFd = Rooms /\ DOMAIN whiteFd = Rooms
        /\ evRoom \in 1 .. RoomCount + 1
    BY DEF RoomsTypeOK
  <2>2. QED
    BY <2>1, ClassRoomAssumption DEF Rooms
<1>1. ASSUME NEW f \in Fds, Connect(f) PROVE ForgottenBehind'
  BY <1>1 DEF Connect
<1>2. ASSUME NEW f \in Fds, Request(f) PROVE ForgottenBehind'
  BY <1>2 DEF Request
<1>3. ASSUME NEW f \in Fds, Disconnect(f) PROVE ForgottenBehind'
  <2>1. /\ evFd = NoFd /\ evFd' = f /\ evPc' = "rooms" /\ evRoom' = 1
        /\ conn' = conn \ {f} /\ strays' = strays \ {f} /\ UNCHANGED room
    BY <1>3 DEF Disconnect, ThreadsInPlace
  <2>2. \A r \in Rooms : 1 <= r
    BY DEF Rooms
  <2>3. QED
    BY <2>1, <2>2
<1>4. ASSUME DelTeacher PROVE ForgottenBehind'
  BY <1>4 DEF DelTeacher, AtRoom, Gone
<1>5. ASSUME DelWhite PROVE ForgottenBehind'
  <2>1. /\ evPc = "rooms" /\ evPc' = evPc /\ evRoom \in Rooms /\ evRoom' = evRoom + 1
        /\ evFd # teacherFd[evRoom]
        /\ whiteFd' = [whiteFd EXCEPT ![evRoom] = NoFd]
        /\ strays' = IF evFd \in DOMAIN seat[evRoom] THEN strays \cup {evFd} ELSE strays
        /\ UNCHANGED <<teacherFd, seat, conn, evFd>>
    BY <1>5, AtRoomIsRoom DEF DelWhite, AtRoom, Gone
  <2>2. \A g \in Fds, r \in Rooms :
           Knows(r, g)' => Knows(r, g) /\ (r = evRoom /\ g = evFd => g \in DOMAIN seat[r])
    BY <1>0, <2>1
  <2>3. QED
    BY <1>0, <2>1, <2>2
<1>6. ASSUME DelStudent PROVE ForgottenBehind'
  <2>1. CASE Null \in Range(seat[evRoom])
    <3>1. UNCHANGED <<room, conn, strays, ev>>
      BY <1>6, <2>1 DEF DelStudent, Stops
    <3>2. QED
      BY <3>1
  <2>2. CASE Null \notin Range(seat[evRoom])
    <3>1. /\ evPc = "rooms" /\ evPc' = "tell" /\ evRoom \in Rooms
          /\ evFd # teacherFd[evRoom] /\ evFd # whiteFd[evRoom]
          /\ seat' = [seat EXCEPT ![evRoom] = Erase(seat[evRoom], evFd)]
          /\ UNCHANGED <<teacherFd, whiteFd, strays, conn, evRoom, evFd>>
      BY <1>6, <2>2, AtRoomIsRoom DEF DelStudent, AtRoom, Gone
    <3>2. \A g \in Fds, r \in Rooms :
             Knows(r, g)' => Knows(r, g) /\ ~(r = evRoom /\ g = evFd)
      BY <1>0, <3>1 DEF Erase
    <3>3. QED
      BY <1>0, <3>1, <3>2
  <2>3. QED
    BY <2>1, <2>2
<1>7. ASSUME EvSend \/ EvTell PROVE ForgottenBehind'
  BY <1>7 DEF EvSend, EvTell, EvWalking, Show
<1>8. ASSUME EvDangling PROVE ForgottenBehind'
  <2>1. UNCHANGED <<room, conn, strays, evPc, evRoom, evFd>>
    BY <1>8 DEF EvDangling, Stops
  <2>2. QED
    BY <2>1
<1>9. ASSUME Dismissed PROVE ForgottenBehind'
  <2>1. /\ evPc = "dismiss" /\ evPc' = "rooms" /\ evRoom \in Rooms /\ evRoom' = evRoom + 1
        /\ Reset(evRoom)
        /\ UNCHANGED <<conn, strays, evFd>>
    BY <1>9 DEF Dismissed, ThreadsInPlace
  <2>2. \A g \in Fds, r \in Rooms : Knows(r, g)' => Knows(r, g) /\ r # evRoom
    BY <1>0, <2>1, EmptyMap DEF Reset
  <2>3. \A r \in Rooms : evRoom <= r /\ r # evRoom => evRoom' <= r
    BY <1>0, <2>1
  <2>4. evPc' # "tell" /\ evFd' = evFd /\ conn' = conn /\ strays' = strays
    BY <2>1
  <2>5. QED
    BY <2>2, <2>3, <2>4
<1>10. ASSUME Told PROVE ForgottenBehind'
  BY <1>0, <1>10 DEF Told
<1>11. ASSUME RoomsDone PROVE ForgottenBehind'
  <2>1. /\ evRoom > RoomCount
        /\ UNCHANGED <<room, conn, strays>>
    BY <1>11 DEF RoomsDone
  <2>2. \A r \in Rooms : ~(evRoom <= r)
    BY <1>0, <2>1 DEF Rooms
  <2>3. QED
    BY <2>1, <2>2
<1>12. ASSUME NEW f \in Fds, Other(f) PROVE ForgottenBehind'
  BY <1>12 DEF Other, Serve
<1>13. ASSUME NEW f \in Fds, LogoutClassRoom(f) PROVE ForgottenBehind'
  <2>1. \A g \in Fds, r \in Rooms : Knows(r, g)' => Knows(r, g)
    <3>1. CASE UNCHANGED room
      BY <3>1
    <3>2. CASE Reset(RoomOf(f))
      BY <1>0, <3>2, EmptyMap DEF Reset
    <3>3. QED
      BY <1>13, <3>1, <3>2 DEF LogoutClassRoom
  <2>2. UNCHANGED <<conn, strays, ev>>
    BY <1>13 DEF LogoutClassRoom, Serve
  <2>3. QED
    BY <2>1, <2>2
<1>14. ASSUME NEW f \in Fds, SelectNoRoom(f) PROVE ForgottenBehind'
  <2>1. UNCHANGED <<room, conn, strays, evPc, evRoom, evFd>>
    BY <1>14 DEF SelectNoRoom, Stops
  <2>2. QED
    BY <2>1
<1>15. ASSUME NEW f \in Fds, Broadcast(f) PROVE ForgottenBehind'
  BY <1>15 DEF Broadcast, Serve
<1>29. ASSUME NEW f \in Fds, LeaveEarly(f) PROVE ForgottenBehind'
  BY <1>29 DEF LeaveEarly, Serve
<1>16. ASSUME NEW f \in Fds, NEW r \in Rooms, SelectAsStudent(f, r) PROVE ForgottenBehind'
  <2>1. \A g \in Fds, q \in Rooms : Knows(q, g)' => Knows(q, g) \/ g = f
    BY <1>0, <1>16 DEF SelectAsStudent, Put
  <2>2. /\ UNCHANGED <<conn, ev>>
        /\ strays \subseteq strays' /\ f \in conn \cup strays'
    BY <1>16 DEF SelectAsStudent, Serve, Learns
  <2>3. QED
    BY <2>1, <2>2
<1>17. ASSUME NEW f \in Fds, NEW r \in Rooms, SelectAsWhite(f, r) PROVE ForgottenBehind'
  <2>1. \A g \in Fds, q \in Rooms : Knows(q, g)' => Knows(q, g) \/ g = f
    BY <1>0, <1>17 DEF SelectAsWhite, Put
  <2>2. /\ UNCHANGED <<conn, ev>>
        /\ strays \subseteq strays' /\ f \in conn \cup strays'
    BY <1>17 DEF SelectAsWhite, Serve, Learns
  <2>3. QED
    BY <2>1, <2>2
<1>18. ASSUME NEW f \in Fds, NEW r \in Rooms, NEW name \in Names \cup {NoName}, LoginClassRoom(f, r, name) PROVE ForgottenBehind'
  <2>1. \A g \in Fds, q \in Rooms : Knows(q, g)' => Knows(q, g) \/ g = f
    BY <1>0, <1>18 DEF LoginClassRoom, Put
  <2>2. /\ UNCHANGED <<conn, ev>>
        /\ strays \subseteq strays' /\ f \in conn \cup strays'
    BY <1>18 DEF LoginClassRoom, Serve, Learns
  <2>3. QED
    BY <2>1, <2>2
<1>19. ASSUME NEW f \in Fds, NEW sid \in Sids \cup {NoSid}, LoginStudent(f, sid) PROVE ForgottenBehind'
  <2>1. \A q \in Rooms : DOMAIN seat'[q] = DOMAIN seat[q]
    <3> DEFINE s == [sid |-> sid, state |-> "online"]
    <3>1. seat' = [seat EXCEPT ![RoomOf(f)][f] = s]
      BY <1>19 DEF LoginStudent
    <3> HIDE DEF s
    <3>2. QED
      BY <1>0, <3>1
  <2>2. UNCHANGED <<teacherFd, whiteFd, conn, strays, ev>>
    BY <1>19 DEF LoginStudent, Serve
  <2>3. QED
    BY <2>1, <2>2
<1>20. ASSUME CollectList PROVE ForgottenBehind'
  <2>1. UNCHANGED <<room, conn, strays, evPc, evRoom, evFd>>
    BY <1>20 DEF CollectList, Stops
  <2>2. QED
    BY <2>1
<1>21. ASSUME RtSend PROVE ForgottenBehind'
  BY <1>21 DEF RtSend, RtWalking, Show
<1>30. ASSUME RtAsk PROVE ForgottenBehind'
  <2>1. UNCHANGED <<room, conn, strays, evPc, evRoom, evFd>>
    BY <1>30 DEF RtAsk, Stops
  <2>2. QED
    BY <2>1
<1>22. ASSUME RtDangling PROVE ForgottenBehind'
  <2>1. UNCHANGED <<room, conn, strays, evPc, evRoom, evFd>>
    BY <1>22 DEF RtDangling, Stops
  <2>2. QED
    BY <2>1
<1>23. ASSUME RtWalked PROVE ForgottenBehind'
  BY <1>23 DEF RtWalked
<1>24. ASSUME UNCHANGED vars PROVE ForgottenBehind'
  BY <1>24 DEF vars
<1>25. ASSUME EvloopStep PROVE ForgottenBehind'
  BY <1>25, <1>4, <1>5, <1>6, <1>7, <1>8, <1>9, <1>10, <1>11
     DEF EvloopStep
<1>26. ASSUME RecvTaskStep PROVE ForgottenBehind'
  BY <1>26, <1>12, <1>13, <1>14, <1>15, <1>29, <1>16, <1>17, <1>18,
     <1>19, <1>20, <1>21, <1>30, <1>22, <1>23 DEF RecvTaskStep
<1>27. QED
  BY <1>1, <1>2, <1>3, <1>24, <1>25, <1>26 DEF Next, Clients, Stopped

\* ClassRoom!GoneIsForgotten is an invariant: a descriptor that is free to be
\* given to another client is in no room, for any number of rooms and clients.
\* The walk of del_client is why: ForgottenBehind says how far it has come.
THEOREM GoneClientsAreForgotten == Spec => []GoneIsForgotten
<1>1. Init => ForgottenBehind
  BY EmptyMap DEF Init, ForgottenBehind, Knows, Seated, Range
<1>2. TypeOK /\ ThreadsInPlace /\ ForgottenBehind /\ [Next]_vars => ForgottenBehind'
  BY StepForgetsBehind DEF TypeOK
<1>3. ForgottenBehind => GoneIsForgotten
  BY DEF ForgottenBehind, GoneIsForgotten, RoomsOf
<1>4. QED
  BY <1>1, <1>2, <1>3, TypeCorrect, PTL DEF Spec

-----------------------------------------------------------------------------
\* While the threads take turns, a step erases no element an iterator is at.
LEMMA StepKeepsIterators ==
    ASSUME TypeOK, ThreadsInPlace, TurnsKeepIterators
    PROVE  [Next]_vars => TurnsKeepIterators'
<1> USE DEF TurnsKeepIterators, TypeOK, room, peer, sent, rt, ev
<1>0. /\ DOMAIN seat = Rooms
      /\ \A r \in Rooms : Seated(r) \in SUBSET Fds
      /\ evPc \in {"idle", "rooms", "dismiss", "tell"}
      /\ rtPc \in {"idle", "list", "walk", "broadcast", "ask"}
  BY DEF TypeOK, RoomsTypeOK
<1>1. ASSUME NEW f \in Fds, Connect(f) PROVE TurnsKeepIterators'
  BY <1>1 DEF Connect, Seated
<1>2. ASSUME NEW f \in Fds, Request(f) PROVE TurnsKeepIterators'
  BY <1>2 DEF Request, Seated
<1>3. ASSUME NEW f \in Fds, Disconnect(f) PROVE TurnsKeepIterators'
  <2>1. /\ evPc = "idle" /\ evPc' = "rooms" /\ overlap' = (overlap \/ rtPc # "idle")
        /\ UNCHANGED <<rt, status>>
    BY <1>3 DEF Disconnect
  <2>2. QED
    BY <2>1
<1>4. ASSUME DelTeacher PROVE TurnsKeepIterators'
  <2>1. /\ evPc = "rooms" /\ evPc' = "dismiss" /\ evRoom \in Rooms
        /\ evAt' = Least(Seated(evRoom))
        /\ UNCHANGED <<room, rt, evRoom, overlap, status>>
    BY <1>4, AtRoomIsRoom DEF DelTeacher, AtRoom
  <2>2. evAt' \in Seated(evRoom) \cup {NoFd}
    BY <1>0, <2>1, IteratorsAreKeys
  <2>3. QED
    BY <1>0, <2>1, <2>2 DEF Seated
<1>5. ASSUME DelWhite PROVE TurnsKeepIterators'
  <2>1. /\ evPc = "rooms" /\ evPc' = "rooms"
        /\ UNCHANGED <<rt, overlap, status>>
    BY <1>5 DEF DelWhite, AtRoom
  <2>2. QED
    BY <2>1
<1>6. ASSUME DelStudent PROVE TurnsKeepIterators'
  <2>1. CASE Null \in Range(seat[evRoom])
    <3>1. Stops("null seat")
      BY <1>6, <2>1 DEF DelStudent
    <3>2. QED
      BY <3>1 DEF Stops, Seated
  <2>2. CASE Null \notin Range(seat[evRoom])
    <3>1. /\ evPc = "rooms" /\ evPc' = "tell" /\ evRoom \in Rooms
          /\ seat' = [seat EXCEPT ![evRoom] = Erase(seat[evRoom], evFd)]
          /\ evAt' = Least(Seated(evRoom) \ {evFd})
          /\ UNCHANGED <<rt, evRoom, overlap, status>>
      BY <1>6, <2>2, AtRoomIsRoom DEF DelStudent, AtRoom, Gone, FirstToTell, Seated
    <3>2. Seated(evRoom)' = Seated(evRoom) \ {evFd}
      BY <1>0, <3>1 DEF Erase, Seated
    <3>3. evAt' \in Seated(evRoom)' \cup {NoFd}
      <4>1. Seated(evRoom) \ {evFd} \in SUBSET Fds
        BY <1>0, <3>1
      <4>2. QED
        BY <3>1, <3>2, <4>1, IteratorsAreKeys
    <3>4. QED
      BY <1>0, <3>1, <3>3
  <2>3. QED
    BY <2>1, <2>2
<1>7. ASSUME EvSend \/ EvTell PROVE TurnsKeepIterators'
  <2>1. /\ evPc \in {"dismiss", "tell"} /\ evPc' = evPc /\ evRoom \in Rooms
        /\ evAt' = After(Seated(evRoom), evAt)
        /\ UNCHANGED <<room, rt, evRoom, overlap, status>>
    BY <1>7 DEF EvSend, EvTell, EvWalking, ThreadsInPlace
  <2>2. evAt' \in Seated(evRoom) \cup {NoFd}
    BY <1>0, <2>1, IteratorsAreKeys
  <2>3. QED
    BY <1>0, <2>1, <2>2 DEF Seated
<1>8. ASSUME EvDangling PROVE TurnsKeepIterators'
  <2>1. overlap /\ UNCHANGED overlap
    BY <1>8 DEF EvDangling, EvWalking, Stops
  <2>2. QED
    BY <2>1
<1>9. ASSUME Dismissed PROVE TurnsKeepIterators'
  <2>1. /\ evPc # "idle" /\ evPc' = "rooms"
        /\ UNCHANGED <<rt, overlap, status>>
    BY <1>9 DEF Dismissed
  <2>2. QED
    BY <2>1
<1>10. ASSUME Told PROVE TurnsKeepIterators'
  <2>1. /\ evPc # "idle" /\ evPc' = "rooms"
        /\ UNCHANGED <<rt, overlap, status>>
    BY <1>10 DEF Told
  <2>2. QED
    BY <2>1
<1>11. ASSUME RoomsDone PROVE TurnsKeepIterators'
  <2>1. /\ evPc # "idle" /\ evPc' = "idle"
        /\ UNCHANGED <<rt, overlap, status>>
    BY <1>11 DEF RoomsDone
  <2>2. QED
    BY <2>1
<1>12. ASSUME NEW f \in Fds, Other(f) PROVE TurnsKeepIterators'
  <2>1. /\ rtPc = "idle" /\ overlap' = (overlap \/ evPc # "idle")
        /\ UNCHANGED <<rt, ev, status>>
    BY <1>12 DEF Other, Serve
  <2>2. QED
    BY <2>1
<1>13. ASSUME NEW f \in Fds, LogoutClassRoom(f) PROVE TurnsKeepIterators'
  <2>1. /\ rtPc = "idle" /\ overlap' = (overlap \/ evPc # "idle")
        /\ UNCHANGED <<rt, ev, status>>
    BY <1>13 DEF LogoutClassRoom, Serve
  <2>2. QED
    BY <2>1
<1>14. ASSUME NEW f \in Fds, SelectNoRoom(f) PROVE TurnsKeepIterators'
  <2>1. Stops("null room")
    BY <1>14 DEF SelectNoRoom
  <2>2. QED
    BY <2>1 DEF Stops, Seated
<1>15. ASSUME NEW f \in Fds, Broadcast(f) PROVE TurnsKeepIterators'
  <2>1. /\ rtPc = "idle" /\ rtPc' = "broadcast" /\ overlap' = (overlap \/ evPc # "idle")
        /\ rtRoom' = RoomOf(f) /\ RoomOf(f) \in Rooms
        /\ rtAt' = Least(Seated(rtRoom'))
        /\ UNCHANGED <<room, ev, status>>
    BY <1>15, RoomOfKnows DEF Broadcast, Serve
  <2>2. Seated(RoomOf(f)) \in SUBSET Fds /\ rtAt' = Least(Seated(RoomOf(f)))
    BY <1>0, <2>1 DEF Seated
  <2>3. rtAt' \in Seated(RoomOf(f)) \cup {NoFd}
    BY <2>2, IteratorsAreKeys
  <2>4. DOMAIN seat'[rtRoom'] = Seated(RoomOf(f))
    BY <2>1 DEF Seated
  <2>5. QED
    BY <2>1, <2>3, <2>4 DEF Seated
<1>29. ASSUME NEW f \in Fds, LeaveEarly(f) PROVE TurnsKeepIterators'
  <2>1. /\ rtPc = "idle" /\ rtPc' = "ask" /\ overlap' = (overlap \/ evPc # "idle")
        /\ rtRoom' = RoomOf(f) /\ RoomOf(f) \in Rooms
        /\ rtAt' = Least(Seated(rtRoom'))
        /\ UNCHANGED <<room, ev, status>>
    BY <1>29, RoomOfKnows DEF LeaveEarly, Serve
  <2>2. Seated(RoomOf(f)) \in SUBSET Fds /\ rtAt' = Least(Seated(RoomOf(f)))
    BY <1>0, <2>1 DEF Seated
  <2>3. rtAt' \in Seated(RoomOf(f)) \cup {NoFd}
    BY <2>2, IteratorsAreKeys
  <2>4. DOMAIN seat'[rtRoom'] = Seated(RoomOf(f))
    BY <2>1 DEF Seated
  <2>5. QED
    BY <2>1, <2>3, <2>4 DEF Seated
<1>16. ASSUME NEW f \in Fds, NEW r \in Rooms, SelectAsStudent(f, r) PROVE TurnsKeepIterators'
  <2>1. /\ rtPc = "idle" /\ overlap' = (overlap \/ evPc # "idle")
        /\ UNCHANGED <<rt, ev, status>>
    BY <1>16 DEF SelectAsStudent, Serve
  <2>2. QED
    BY <2>1
<1>17. ASSUME NEW f \in Fds, NEW r \in Rooms, SelectAsWhite(f, r) PROVE TurnsKeepIterators'
  <2>1. /\ rtPc = "idle" /\ overlap' = (overlap \/ evPc # "idle")
        /\ UNCHANGED <<rt, ev, status>>
    BY <1>17 DEF SelectAsWhite, Serve
  <2>2. QED
    BY <2>1
<1>18. ASSUME NEW f \in Fds, NEW r \in Rooms, NEW name \in Names \cup {NoName}, LoginClassRoom(f, r, name) PROVE TurnsKeepIterators'
  <2>1. /\ rtPc = "idle" /\ overlap' = (overlap \/ evPc # "idle")
        /\ UNCHANGED <<rt, ev, status>>
    BY <1>18 DEF LoginClassRoom, Serve
  <2>2. QED
    BY <2>1
<1>19. ASSUME NEW f \in Fds, NEW sid \in Sids \cup {NoSid}, LoginStudent(f, sid) PROVE TurnsKeepIterators'
  <2>1. /\ rtPc = "idle" /\ rtPc' = "list" /\ overlap' = (overlap \/ evPc # "idle")
        /\ UNCHANGED <<ev, status>>
    BY <1>19 DEF LoginStudent, Serve
  <2>2. QED
    BY <2>1
<1>20. ASSUME CollectList PROVE TurnsKeepIterators'
  <2>1. CASE Null \in Range(seat[rtRoom])
    <3>1. Stops("null seat")
      BY <1>20, <2>1 DEF CollectList
    <3>2. QED
      BY <3>1 DEF Stops, Seated
  <2>2. CASE Null \notin Range(seat[rtRoom])
    <3>1. /\ rtPc = "list" /\ rtPc' = "walk" /\ rtRoom \in Rooms
          /\ rtAt' = Least(Seated(rtRoom))
          /\ UNCHANGED <<room, rtRoom, ev, overlap, status>>
      BY <1>20, <2>2 DEF CollectList, ThreadsInPlace
    <3>2. rtAt' \in Seated(rtRoom) \cup {NoFd}
      BY <1>0, <3>1, IteratorsAreKeys
    <3>3. QED
      BY <1>0, <3>1, <3>2 DEF Seated
  <2>3. QED
    BY <2>1, <2>2
<1>21. ASSUME RtSend PROVE TurnsKeepIterators'
  <2>1. /\ rtPc \in {"walk", "broadcast"} /\ rtPc' = rtPc /\ rtRoom \in Rooms
        /\ rtAt' = After(Seated(rtRoom), rtAt)
        /\ UNCHANGED <<room, ev, rtRoom, overlap, status>>
    BY <1>21 DEF RtSend, RtWalking, ThreadsInPlace
  <2>2. rtAt' \in Seated(rtRoom) \cup {NoFd}
    BY <1>0, <2>1, IteratorsAreKeys
  <2>3. QED
    BY <1>0, <2>1, <2>2 DEF Seated
<1>30. ASSUME RtAsk PROVE TurnsKeepIterators'
  <2>1. CASE Stops("null seat")
    BY <2>1 DEF Stops, Seated
  <2>2. CASE ~Stops("null seat")
    <3>1. /\ rtPc = "ask" /\ rtPc' = rtPc /\ rtRoom \in Rooms
          /\ rtAt' \in {NoFd, After(Seated(rtRoom), rtAt)}
          /\ UNCHANGED <<room, ev, rtRoom, overlap, status>>
      BY <1>30, <2>2 DEF RtAsk, RtWalking, ThreadsInPlace
    <3>2. rtAt' \in Seated(rtRoom) \cup {NoFd}
      BY <1>0, <3>1, IteratorsAreKeys
    <3>3. QED
      BY <1>0, <3>1, <3>2 DEF Seated
  <2>3. QED
    BY <2>1, <2>2
<1>22. ASSUME RtDangling PROVE TurnsKeepIterators'
  <2>1. overlap /\ UNCHANGED overlap
    BY <1>22 DEF RtDangling, RtWalking, Stops
  <2>2. QED
    BY <2>1
<1>23. ASSUME RtWalked PROVE TurnsKeepIterators'
  BY <1>23 DEF RtWalked
<1>24. ASSUME UNCHANGED vars PROVE TurnsKeepIterators'
  BY <1>24 DEF vars, Seated
<1>25. ASSUME EvloopStep PROVE TurnsKeepIterators'
  BY <1>25, <1>4, <1>5, <1>6, <1>7, <1>8, <1>9, <1>10, <1>11
     DEF EvloopStep
<1>26. ASSUME RecvTaskStep PROVE TurnsKeepIterators'
  BY <1>26, <1>12, <1>13, <1>14, <1>15, <1>29, <1>16, <1>17, <1>18,
     <1>19, <1>20, <1>21, <1>30, <1>22, <1>23 DEF RecvTaskStep
<1>27. QED
  BY <1>1, <1>2, <1>3, <1>24, <1>25, <1>26 DEF Next, Clients, Stopped

\* ClassRoom!DanglesOnlyInOverlap is an invariant: to lose its place in a map
\* a walk needs the other thread in the rooms.
THEOREM OverlapExplainsDangling == Spec => []DanglesOnlyInOverlap
<1>1. Init => TurnsKeepIterators
  BY DEF Init, TurnsKeepIterators
<1>2. TypeOK /\ ThreadsInPlace /\ TurnsKeepIterators /\ [Next]_vars => TurnsKeepIterators'
  BY StepKeepsIterators
<1>3. TurnsKeepIterators => DanglesOnlyInOverlap
  BY DEF TurnsKeepIterators, DanglesOnlyInOverlap
<1>4. QED
  BY <1>1, <1>2, <1>3, TypeCorrect, PTL DEF Spec

-----------------------------------------------------------------------------
(* Whom the walks have told.                                               *)

\* No key of the map is before the first one; end() comes for an empty map only.
LEMMA LeastIsFirst ==
    ASSUME NEW keys \in SUBSET Fds, NEW f \in keys
    PROVE  Least(keys) \in keys /\ Least(keys) # NoFd /\ Least(keys) <= f
<1>1. keys \in SUBSET Nat
  BY ClassRoomAssumption
<1>2. \E k \in keys : \A j \in keys : k <= j
  BY <1>1, LeastExists
<1>3. Least(keys) \in keys /\ \A j \in keys : Least(keys) <= j
  BY <1>2 DEF Least
<1>4. QED
  BY <1>3, NoFdIsNoClient

\* An iterator that is advanced skips no key.
LEMMA AfterIsNext ==
    ASSUME NEW keys \in SUBSET Fds, NEW f \in keys, NEW at \in Fds, at <= f, f # at
    PROVE  After(keys, at) # NoFd /\ After(keys, at) <= f
<1> DEFINE later == {k \in keys : k > at}
<1>1. f \in Nat /\ at \in Nat
  BY ClassRoomAssumption
<1>2. f > at
  BY <1>1
<1>3. later \in SUBSET Fds /\ f \in later
  BY <1>2
<1>4. QED
  BY <1>3, LeastIsFirst DEF After

\* A new seat that is offline changes nothing for the others.
LEMMA OnlineWithOffline ==
    ASSUME NEW D, NEW map \in [D -> Entry \cup {Null}], NEW f, f \notin D, NEW s, s.state # "online"
    PROVE  OnlineIn(Range(Put(map, f, s))) = OnlineIn(Range(map))
<1>1. Range(Put(map, f, s)) = Range(map) \cup {s}
  BY DEF Range, Put
<1>2. QED
  BY <1>1 DEF OnlineIn

\* Nor does it matter whether a seat is offline or gone.
LEMMA OnlineWithout ==
    ASSUME NEW D, NEW map \in [D -> Entry \cup {Null}], NEW f
    PROVE  OnlineIn(Range(Offline(map, f))) = OnlineIn(Range(Erase(map, f)))
<1>1. CASE f \in D
  <2> DEFINE s == [map[f] EXCEPT !.state = "offline"]
  <2>1. s.state # "online"
    BY <1>1 DEF Entry, Null
  <2>2. Offline(map, f) = [map EXCEPT ![f] = s]
    BY <1>1 DEF Offline
  <2> HIDE DEF s
  <2>3. Range(Offline(map, f)) = Range(Erase(map, f)) \cup {s}
    BY <1>1, <2>2 DEF Range, Erase
  <2>4. QED
    BY <2>1, <2>3 DEF OnlineIn
<1>2. CASE f \notin D
  <2>1. Offline(map, f) = map /\ Erase(map, f) = map
    BY <1>2 DEF Offline, Erase
  <2>2. QED
    BY <2>1
<1>3. QED
  BY <1>1, <1>2

\* A step that leaves the seats, the states sent and the threads alone, and lets
\* no seated student in.
LEMMA SameRoster ==
    ASSUME ToldOrOnTheWay, UNCHANGED <<seat, view, rt, ev>>, ~overlap,
           \A r \in Rooms, f \in Fds : Attends(f, r)' => Attends(f, r)
    PROVE  ToldOrOnTheWay'
<1>1. \A r \in Rooms, f \in Fds : /\ OnTheWay(f, r)' <=> OnTheWay(f, r)
                                  /\ StatesAreCurrent(f, r)' <=> StatesAreCurrent(f, r)
  BY DEF OnTheWay, StatesAreCurrent, Informed, rt, ev
<1>2. ListsAreCurrent' <=> ListsAreCurrent
  BY DEF ListsAreCurrent, rt, ev
<1>3. QED
  BY <1>1, <1>2 DEF ToldOrOnTheWay

\* While no thread tells anything, every student has the states.
LEMMA NobodyWaits ==
    ASSUME ToldOrOnTheWay, ~overlap,
           rtPc \notin {"list", "walk"} \/ (rtPc = "walk" /\ rtAt = NoFd),
           evPc \notin {"dismiss", "tell"} \/ (evPc = "tell" /\ evAt = NoFd)
    PROVE  \A r \in Rooms, f \in Fds : Attends(f, r) => StatesAreCurrent(f, r)
  BY DEF ToldOrOnTheWay, OnTheWay

\* An overlap is remembered.
LEMMA OverlapStays == [Next]_vars /\ overlap => overlap'
<1> SUFFICES ASSUME [Next]_vars, overlap PROVE overlap'
  OBVIOUS
<1> USE DEF Stops
<1>1. CASE Clients \/ EvloopStep \/ UNCHANGED vars
  BY <1>1 DEF Clients, Connect, Request, Disconnect, EvloopStep, DelTeacher, DelWhite,
     DelStudent, EvSend, EvTell, EvDangling, Dismissed, Told, RoomsDone, vars
<1>2. CASE RecvTaskStep
  BY <1>2 DEF RecvTaskStep, Other, LogoutClassRoom, SelectNoRoom, LeaveEarly, Broadcast, SelectAsStudent,
     SelectAsWhite, LoginClassRoom, LoginStudent, Serve, CollectList, RtSend, RtAsk, RtDangling, RtWalked
<1>3. QED
  BY <1>1, <1>2 DEF Next, Stopped

\* Each step leaves every student with the states of its room, or a thread on
\* its way.
LEMMA StepTells ==
    ASSUME TypeOK, ThreadsInPlace, TurnsKeepIterators, SeatUnique, ForgottenBehind,
           ToldOrOnTheWay, ~overlap, ~overlap'
    PROVE  [Next]_vars => ToldOrOnTheWay'
<1> USE DEF room, peer, sent, rt, ev
<1>0. /\ DOMAIN seat = Rooms
      /\ \A r \in Rooms : /\ Seated(r) \in SUBSET Fds
                          /\ seat[r] \in [Seated(r) -> Entry \cup {Null}]
      /\ DOMAIN view = Fds
      /\ rtAt \in Fds \cup {NoFd} /\ evAt \in Fds \cup {NoFd}
  BY DEF TypeOK, RoomsTypeOK
<1>1. ASSUME NEW f \in Fds, Connect(f) PROVE ToldOrOnTheWay'
  <2>1. evFd = NoFd /\ f \notin conn /\ conn' = conn \cup {f} /\ UNCHANGED <<seat, view, rt, ev, strays>>
    BY <1>1 DEF Connect, ThreadsInPlace
  <2>2. \A r \in Rooms : ~Attends(f, r)'
    BY <2>1, NoFdIsNoClient DEF Attends, ForgottenBehind, Knows, Seated
  <2>3. \A r \in Rooms, g \in Fds : Attends(g, r)' => Attends(g, r)
    BY <2>1, <2>2 DEF Attends, Seated
  <2>4. QED
    BY <2>1, <2>3, SameRoster
<1>2. ASSUME NEW f \in Fds, Request(f) PROVE ToldOrOnTheWay'
  <2>1. UNCHANGED <<seat, view, rt, ev, conn, strays>>
    BY <1>2 DEF Request
  <2>2. QED
    BY <2>1, SameRoster DEF Attends, Seated
<1>3. ASSUME NEW f \in Fds, Disconnect(f) PROVE ToldOrOnTheWay'
  <2>1. /\ rtPc = "idle" /\ rtPc' = "idle" /\ evPc = "idle" /\ evPc' = "rooms"
        /\ conn' = conn \ {f} /\ strays' = strays \ {f}
        /\ view' = [view EXCEPT ![f] = {}]
        /\ UNCHANGED seat
    BY <1>3 DEF Disconnect
  <2>2. \A r \in Rooms, g \in Fds : Attends(g, r)' => Attends(g, r) /\ view'[g] = view[g]
    BY <1>0, <2>1 DEF Attends, Seated
  <2>3. \A r \in Rooms, g \in Fds : Attends(g, r) => StatesAreCurrent(g, r)
    BY <2>1, NobodyWaits
  <2>4. \A r \in Rooms, g \in Fds : Attends(g, r)' => StatesAreCurrent(g, r)'
    BY <2>1, <2>2, <2>3 DEF StatesAreCurrent, Informed
  <2>5. QED
    BY <2>1, <2>4 DEF ToldOrOnTheWay, ListsAreCurrent
<1>4. ASSUME DelTeacher PROVE ToldOrOnTheWay'
  <2>1. /\ evPc = "rooms" /\ evPc' = "dismiss" /\ rtPc = "idle"
        /\ UNCHANGED <<seat, conn, view, rt, evRoom, strays>>
    BY <1>4 DEF DelTeacher, AtRoom, TurnsKeepIterators
  <2>2. \A r \in Rooms, g \in Fds : Attends(g, r) => StatesAreCurrent(g, r)
    BY <2>1, NobodyWaits
  <2>3. \A r \in Rooms, g \in Fds : Attends(g, r)' => StatesAreCurrent(g, r)'
    BY <2>1, <2>2 DEF StatesAreCurrent, Informed, Attends, Seated
  <2>4. QED
    BY <2>1, <2>3 DEF ToldOrOnTheWay, ListsAreCurrent
<1>5. ASSUME DelWhite PROVE ToldOrOnTheWay'
  <2>1. /\ evPc = "rooms" /\ evPc' = "rooms" /\ rtPc = "idle"
        /\ strays \subseteq strays'
        /\ UNCHANGED <<seat, conn, view, rt>>
    BY <1>5 DEF DelWhite, AtRoom, TurnsKeepIterators
  <2>2. \A r \in Rooms, g \in Fds : Attends(g, r) => StatesAreCurrent(g, r)
    BY <2>1, NobodyWaits
  <2>3. \A r \in Rooms, g \in Fds : Attends(g, r)' => StatesAreCurrent(g, r)'
    BY <2>1, <2>2 DEF StatesAreCurrent, Informed, Attends, Seated
  <2>4. QED
    BY <2>1, <2>3 DEF ToldOrOnTheWay, ListsAreCurrent
<1>6. ASSUME DelStudent PROVE ToldOrOnTheWay'
  <2>1. CASE Null \in Range(seat[evRoom])
    <3>1. UNCHANGED <<seat, view, rt, ev, conn, strays>>
      BY <1>6, <2>1 DEF DelStudent, Stops
    <3>2. QED
      BY <3>1, SameRoster DEF Attends, Seated
  <2>2. CASE Null \notin Range(seat[evRoom])
    <3>1. /\ evPc = "rooms" /\ evPc' = "tell" /\ evRoom \in Rooms /\ rtPc = "idle"
          /\ evList' = Range(Offline(seat[evRoom], evFd))
          /\ seat' = [seat EXCEPT ![evRoom] = Erase(seat[evRoom], evFd)]
          /\ evAt' = Least(Seated(evRoom) \ {evFd})
          /\ UNCHANGED <<conn, view, rt, evRoom, strays>>
      BY <1>6, <2>2, AtRoomIsRoom
         DEF DelStudent, AtRoom, Gone, FirstToTell, Seated, TurnsKeepIterators, TypeOK
    <3>2. Seated(evRoom)' = Seated(evRoom) \ {evFd} /\ seat'[evRoom] = Erase(seat[evRoom], evFd)
      BY <1>0, <3>1 DEF Erase, Seated
    <3>3. ListsAreCurrent'
      <4>1. OnlineIn(evList') = OnlineIn(Range(seat'[evRoom]))
        BY <1>0, <3>1, <3>2, OnlineWithout
      <4>2. QED
        BY <3>1, <4>1 DEF ListsAreCurrent, OnlineIn
    <3>4. \A f \in Seated(evRoom)' : evAt' # NoFd /\ evAt' <= f
      <4>1. Seated(evRoom) \ {evFd} \in SUBSET Fds
        BY <1>0, <3>1
      <4>2. QED
        BY <3>1, <3>2, <4>1, LeastIsFirst
    <3>5. \A f \in Fds : Attends(f, evRoom)' => OnTheWay(f, evRoom)'
      BY <3>1, <3>4 DEF OnTheWay, Attends, Seated
    <3>6. \A r \in Rooms, f \in Fds : Attends(f, r) => StatesAreCurrent(f, r)
      BY <3>1, NobodyWaits
    <3>7. \A r \in Rooms, f \in Fds : r # evRoom /\ Attends(f, r)' => StatesAreCurrent(f, r)'
      BY <1>0, <3>1, <3>6 DEF Attends, Seated, StatesAreCurrent, Informed
    <3>8. QED
      BY <3>1, <3>3, <3>5, <3>7 DEF ToldOrOnTheWay
  <2>3. QED
    BY <2>1, <2>2
<1>7. ASSUME EvSend PROVE ToldOrOnTheWay'
  <2>1. /\ evPc = "dismiss" /\ evPc' = evPc /\ evRoom \in Rooms /\ rtPc = "idle"
        /\ evAt \in Seated(evRoom)
        /\ \A f \in Fds : f # evAt => view'[f] = view[f]
        /\ UNCHANGED <<seat, conn, rt, evRoom, strays>>
    BY <1>0, <1>7 DEF EvSend, EvWalking, ThreadsInPlace, TurnsKeepIterators, Show
  <2>2. ASSUME NEW r \in Rooms, NEW f \in Fds, Attends(f, r)'
        PROVE  OnTheWay(f, r)' \/ StatesAreCurrent(f, r)'
    <3>1. Attends(f, r) /\ f \in Seated(r)
      BY <2>1, <2>2 DEF Attends, Seated
    <3>2. CASE r = evRoom
      BY <2>1, <3>2 DEF OnTheWay
    <3>3. CASE r # evRoom
      <4>1. f # evAt
        BY <2>1, <3>1, <3>3 DEF SeatUnique
      <4>2. StatesAreCurrent(f, r)
        BY <2>1, <3>1, <3>3 DEF ToldOrOnTheWay, OnTheWay
      <4>3. QED
        BY <2>1, <4>1, <4>2 DEF StatesAreCurrent, Informed
    <3>4. QED
      BY <3>2, <3>3
  <2>3. QED
    BY <2>1, <2>2 DEF ToldOrOnTheWay, ListsAreCurrent
<1>28. ASSUME EvTell PROVE ToldOrOnTheWay'
  <2>1. /\ evPc = "tell" /\ evPc' = evPc /\ evRoom \in Rooms /\ rtPc = "idle"
        /\ evAt \in Seated(evRoom) /\ evAt \in Fds /\ evAt' = After(Seated(evRoom), evAt)
        /\ evAt \in conn => view'[evAt] \in {evList, {Torn}}
        /\ \A f \in Fds : f # evAt => view'[f] = view[f]
        /\ evList' = {Torn}
        /\ UNCHANGED <<seat, conn, rt, evRoom, strays>>
    BY <1>0, <1>28 DEF EvTell, EvWalking, ThreadsInPlace, TurnsKeepIterators, Show
  <2>2. ListsAreCurrent'
    BY <2>1 DEF ListsAreCurrent, ToldOrOnTheWay
  <2>3. ASSUME NEW r \in Rooms, NEW f \in Fds, Attends(f, r)'
        PROVE  OnTheWay(f, r)' \/ StatesAreCurrent(f, r)'
    <3>1. Attends(f, r) /\ f \in Seated(r) /\ f \in conn
      BY <2>1, <2>3 DEF Attends, Seated
    <3>3. CASE f = evAt
      <4>1. r = evRoom
        BY <2>1, <3>1, <3>3 DEF SeatUnique
      <4>2. view'[f] = {Torn} \/ OnlineIn(view'[f]) = OnlineIn(Range(seat[evRoom]))
        BY <2>1, <3>1, <3>3 DEF ListsAreCurrent, ToldOrOnTheWay
      <4>3. QED
        BY <2>1, <4>1, <4>2 DEF StatesAreCurrent, Informed
    <3>4. CASE f # evAt /\ r # evRoom
      <4>1. StatesAreCurrent(f, r)
        BY <2>1, <3>1, <3>4 DEF ToldOrOnTheWay, OnTheWay
      <4>2. QED
        BY <2>1, <3>4, <4>1 DEF StatesAreCurrent, Informed
    <3>5. CASE f # evAt /\ r = evRoom
      <4>1. CASE StatesAreCurrent(f, r)
        BY <2>1, <3>5, <4>1 DEF StatesAreCurrent, Informed
      <4>2. CASE evAt <= f
        <5>1. evAt' # NoFd /\ evAt' <= f
          BY <1>0, <2>1, <3>1, <3>5, <4>2, AfterIsNext
        <5>2. QED
          BY <2>1, <3>5, <5>1 DEF OnTheWay
      <4>3. QED
        BY <2>1, <3>1, <4>1, <4>2 DEF ToldOrOnTheWay, OnTheWay
    <3>6. f = evAt => r = evRoom
      BY <2>1, <3>1 DEF SeatUnique
    <3>7. QED
      BY <3>3, <3>4, <3>5, <3>6
  <2>4. QED
    BY <2>2, <2>3 DEF ToldOrOnTheWay
<1>8. ASSUME EvDangling PROVE ToldOrOnTheWay'
  <2>1. FALSE
    BY <1>8 DEF EvDangling, EvWalking, TurnsKeepIterators
  <2>2. QED
    BY <2>1
<1>9. ASSUME Dismissed PROVE ToldOrOnTheWay'
  <2>1. /\ evPc = "dismiss" /\ evPc' = "rooms" /\ evRoom \in Rooms /\ rtPc = "idle"
        /\ seat' = [seat EXCEPT ![evRoom] = <<>>]
        /\ UNCHANGED <<conn, view, rt, strays>>
    BY <1>9 DEF Dismissed, Reset, ThreadsInPlace, TurnsKeepIterators
  <2>2. \A r \in Rooms, f \in Fds : r = evRoom => ~Attends(f, r)'
    BY <1>0, <2>1, EmptyMap DEF Attends, Seated
  <2>3. \A r \in Rooms, f \in Fds : r # evRoom /\ Attends(f, r) => StatesAreCurrent(f, r)
    BY <2>1 DEF ToldOrOnTheWay, OnTheWay
  <2>4. \A r \in Rooms, f \in Fds : r # evRoom /\ Attends(f, r)' => StatesAreCurrent(f, r)'
    BY <1>0, <2>1, <2>3 DEF Attends, Seated, StatesAreCurrent, Informed
  <2>5. QED
    BY <2>1, <2>2, <2>4 DEF ToldOrOnTheWay, ListsAreCurrent
<1>10. ASSUME Told \/ RoomsDone PROVE ToldOrOnTheWay'
  <2>1. /\ evPc = "rooms" \/ (evPc = "tell" /\ evAt = NoFd)
        /\ rtPc = "idle" /\ evPc' \in {"idle", "rooms"}
        /\ UNCHANGED <<seat, conn, view, rt, strays>>
    BY <1>10 DEF Told, RoomsDone, TurnsKeepIterators
  <2>2. \A r \in Rooms, f \in Fds : Attends(f, r) => StatesAreCurrent(f, r)
    BY <2>1, NobodyWaits
  <2>3. \A r \in Rooms, f \in Fds : Attends(f, r)' => StatesAreCurrent(f, r)'
    BY <2>1, <2>2 DEF StatesAreCurrent, Informed, Attends, Seated
  <2>4. QED
    BY <2>1, <2>3 DEF ToldOrOnTheWay, ListsAreCurrent
<1>12. ASSUME NEW f \in Fds, Other(f) PROVE ToldOrOnTheWay'
  <2>1. UNCHANGED <<seat, view, rt, ev, conn, strays>>
    BY <1>12 DEF Other, Serve
  <2>2. QED
    BY <2>1, SameRoster DEF Attends, Seated
<1>13. ASSUME NEW f \in Fds, LogoutClassRoom(f) PROVE ToldOrOnTheWay'
  <2> DEFINE q == RoomOf(f)
  <2>1. /\ rtPc = "idle" /\ evPc = "idle"
        /\ UNCHANGED <<conn, view, rt, ev, strays>>
    BY <1>13 DEF LogoutClassRoom, Serve
  <2>2. \A r \in Rooms : Seated(r)' = {} \/ seat'[r] = seat[r]
    <3> HIDE DEF q
    <3>1. UNCHANGED seat \/ seat' = [seat EXCEPT ![q] = <<>>]
      BY <1>13 DEF LogoutClassRoom, Reset, q
    <3>2. QED
      BY <1>0, <3>1, EmptyMap DEF Seated
  <2>3. \A r \in Rooms, g \in Fds : Attends(g, r) => StatesAreCurrent(g, r)
    BY <2>1, NobodyWaits
  <2>4. \A r \in Rooms, g \in Fds : Attends(g, r)' => StatesAreCurrent(g, r)'
    BY <2>1, <2>2, <2>3 DEF StatesAreCurrent, Informed, Attends, Seated
  <2>5. QED
    BY <2>1, <2>4 DEF ToldOrOnTheWay, ListsAreCurrent
<1>14. ASSUME NEW f \in Fds, SelectNoRoom(f) PROVE ToldOrOnTheWay'
  <2>1. UNCHANGED <<seat, view, rt, ev, conn, strays>>
    BY <1>14 DEF SelectNoRoom, Stops
  <2>2. QED
    BY <2>1, SameRoster DEF Attends, Seated
<1>15. ASSUME NEW f \in Fds, Broadcast(f) PROVE ToldOrOnTheWay'
  <2>1. /\ rtPc = "idle" /\ evPc = "idle" /\ rtPc' = "broadcast"
        /\ UNCHANGED <<seat, conn, view, ev, strays>>
    BY <1>15 DEF Broadcast, Serve
  <2>2. \A r \in Rooms, g \in Fds : Attends(g, r) => StatesAreCurrent(g, r)
    BY <2>1, NobodyWaits
  <2>3. \A r \in Rooms, g \in Fds : Attends(g, r)' => StatesAreCurrent(g, r)'
    BY <2>1, <2>2 DEF StatesAreCurrent, Informed, Attends, Seated
  <2>4. QED
    BY <2>1, <2>3 DEF ToldOrOnTheWay, ListsAreCurrent
<1>29. ASSUME NEW f \in Fds, LeaveEarly(f) PROVE ToldOrOnTheWay'
  <2>1. /\ rtPc = "idle" /\ evPc = "idle" /\ rtPc' = "ask"
        /\ UNCHANGED <<seat, conn, view, ev, strays>>
    BY <1>29 DEF LeaveEarly, Serve
  <2>2. \A r \in Rooms, g \in Fds : Attends(g, r) => StatesAreCurrent(g, r)
    BY <2>1, NobodyWaits
  <2>3. \A r \in Rooms, g \in Fds : Attends(g, r)' => StatesAreCurrent(g, r)'
    BY <2>1, <2>2 DEF StatesAreCurrent, Informed, Attends, Seated
  <2>4. QED
    BY <2>1, <2>3 DEF ToldOrOnTheWay, ListsAreCurrent
<1>16. ASSUME NEW f \in Fds, NEW r \in Rooms, SelectAsStudent(f, r) PROVE ToldOrOnTheWay'
  <2> DEFINE s == [sid |-> NoSid, state |-> "offline"]
  <2>1. /\ rtPc = "idle" /\ evPc = "idle" /\ f \notin Seated(r)
        /\ seat' = [seat EXCEPT ![r] = Put(seat[r], f, s)]
        /\ strays \subseteq strays'
        /\ UNCHANGED <<conn, view, rt, ev>>
    BY <1>16 DEF SelectAsStudent, Serve, Learns, RoomsOf, Knows
  <2>2. s.state # "online"
    OBVIOUS
  <2> HIDE DEF s
  <2>3. seat'[r] = Put(seat[r], f, s) /\ \A q \in Rooms \ {r} : seat'[q] = seat[q]
    BY <1>0, <2>1
  <2>4. OnlineIn(Range(seat'[r])) = OnlineIn(Range(seat[r]))
    BY <1>0, <2>1, <2>2, <2>3, OnlineWithOffline
  <2>5. \A q \in Rooms, g \in Fds : Attends(g, q) => StatesAreCurrent(g, q)
    BY <2>1, NobodyWaits
  <2>6. \A q \in Rooms, g \in Fds : Attends(g, q)' => Attends(g, q)
    <3>1. \A g \in Fds : Attends(g, r)' => Attends(g, r)
      BY <2>1, <2>2, <2>3 DEF Attends, Seated, Put
    <3>2. QED
      BY <2>1, <2>3, <3>1 DEF Attends, Seated
  <2>7. \A q \in Rooms, g \in Fds : Attends(g, q)' => StatesAreCurrent(g, q)'
    BY <2>1, <2>3, <2>4, <2>5, <2>6 DEF StatesAreCurrent, Informed
  <2>8. QED
    BY <2>1, <2>7 DEF ToldOrOnTheWay, ListsAreCurrent
<1>17. ASSUME NEW f \in Fds, NEW r \in Rooms, SelectAsWhite(f, r) PROVE ToldOrOnTheWay'
  <2>1. UNCHANGED <<seat, view, rt, ev, conn>> /\ strays \subseteq strays'
    BY <1>17 DEF SelectAsWhite, Serve, Learns
  <2>2. QED
    BY <2>1, SameRoster DEF Attends, Seated
<1>18. ASSUME NEW f \in Fds, NEW r \in Rooms, NEW name \in Names \cup {NoName}, LoginClassRoom(f, r, name) PROVE ToldOrOnTheWay'
  <2>1. UNCHANGED <<seat, view, rt, ev, conn>> /\ strays \subseteq strays'
    BY <1>18 DEF LoginClassRoom, Serve, Learns
  <2>2. QED
    BY <2>1, SameRoster DEF Attends, Seated
<1>19. ASSUME NEW f \in Fds, NEW sid \in Sids \cup {NoSid}, LoginStudent(f, sid) PROVE ToldOrOnTheWay'
  <2> DEFINE q == RoomOf(f)
             s == [sid |-> sid, state |-> "online"]
  <2>1. /\ rtPc = "idle" /\ evPc = "idle" /\ rtPc' = "list" /\ rtRoom' = q
        /\ seat' = [seat EXCEPT ![q][f] = s]
        /\ UNCHANGED <<conn, view, ev, strays>>
    BY <1>19 DEF LoginStudent, Serve
  <2> HIDE DEF q, s
  <2>2. \A r \in Rooms : r # q => seat'[r] = seat[r]
    BY <1>0, <2>1
  <2>3. \A r \in Rooms, g \in Fds : Attends(g, r) => StatesAreCurrent(g, r)
    BY <2>1, NobodyWaits
  <2>4. \A r \in Rooms, g \in Fds : r # q /\ Attends(g, r)' => StatesAreCurrent(g, r)'
    BY <2>1, <2>2, <2>3 DEF StatesAreCurrent, Informed, Attends, Seated
  <2>5. \A r \in Rooms, g \in Fds : r = q => OnTheWay(g, r)'
    BY <2>1 DEF OnTheWay
  <2>6. QED
    BY <2>1, <2>4, <2>5 DEF ToldOrOnTheWay, ListsAreCurrent
<1>20. ASSUME CollectList PROVE ToldOrOnTheWay'
  <2>1. CASE Null \in Range(seat[rtRoom])
    <3>1. UNCHANGED <<seat, view, rt, ev, conn, strays>>
      BY <1>20, <2>1 DEF CollectList, Stops
    <3>2. QED
      BY <3>1, SameRoster DEF Attends, Seated
  <2>2. CASE Null \notin Range(seat[rtRoom])
    <3>1. /\ rtPc = "list" /\ rtPc' = "walk" /\ rtRoom \in Rooms /\ evPc = "idle"
          /\ rtList' = Range(seat[rtRoom]) /\ rtAt' = Least(Seated(rtRoom))
          /\ UNCHANGED <<seat, conn, view, rtRoom, ev, strays>>
      BY <1>20, <2>2 DEF CollectList, ThreadsInPlace, TurnsKeepIterators
    <3>2. ListsAreCurrent'
      BY <3>1 DEF ListsAreCurrent
    <3>3. \A f \in Seated(rtRoom) : rtAt' # NoFd /\ rtAt' <= f
      BY <1>0, <3>1, LeastIsFirst
    <3>4. \A f \in Fds : Attends(f, rtRoom)' => OnTheWay(f, rtRoom)'
      BY <3>1, <3>3 DEF OnTheWay, Attends, Seated
    <3>5. \A r \in Rooms, f \in Fds : r # rtRoom /\ Attends(f, r) => StatesAreCurrent(f, r)
      BY <3>1 DEF ToldOrOnTheWay, OnTheWay
    <3>6. \A r \in Rooms, f \in Fds : r # rtRoom /\ Attends(f, r)' => StatesAreCurrent(f, r)'
      BY <3>1, <3>5 DEF Attends, Seated, StatesAreCurrent, Informed
    <3>7. QED
      BY <3>1, <3>2, <3>4, <3>6 DEF ToldOrOnTheWay
  <2>3. QED
    BY <2>1, <2>2
<1>21. ASSUME RtSend PROVE ToldOrOnTheWay'
  <2>1. /\ rtPc \in {"walk", "broadcast"} /\ rtPc' = rtPc /\ rtRoom \in Rooms /\ evPc = "idle"
        /\ rtAt \in Seated(rtRoom) /\ rtAt \in Fds /\ rtAt' = After(Seated(rtRoom), rtAt)
        /\ rtPc = "walk" /\ rtAt \in conn => view'[rtAt] \in {rtList, {Torn}}
        /\ \A f \in Fds : f # rtAt \/ rtPc = "broadcast" => view'[f] = view[f]
        /\ UNCHANGED <<seat, conn, ev, rtRoom, rtList, strays>>
    BY <1>0, <1>21 DEF RtSend, RtWalking, ThreadsInPlace, TurnsKeepIterators, Show
  <2>2. ListsAreCurrent'
    BY <2>1 DEF ListsAreCurrent, ToldOrOnTheWay
  <2>3. ASSUME NEW r \in Rooms, NEW f \in Fds, Attends(f, r)'
        PROVE  OnTheWay(f, r)' \/ StatesAreCurrent(f, r)'
    <3>1. Attends(f, r) /\ f \in Seated(r) /\ f \in conn
      BY <2>1, <2>3 DEF Attends, Seated
    <3>2. CASE rtPc = "broadcast" \/ (f # rtAt /\ r # rtRoom)
      <4>1. StatesAreCurrent(f, r)
        BY <2>1, <3>1, <3>2 DEF ToldOrOnTheWay, OnTheWay
      <4>2. QED
        BY <2>1, <3>2, <4>1 DEF StatesAreCurrent, Informed
    <3>3. CASE rtPc = "walk" /\ f = rtAt
      <4>1. r = rtRoom
        BY <2>1, <3>1, <3>3 DEF SeatUnique
      <4>2. view'[f] = {Torn} \/ OnlineIn(view'[f]) = OnlineIn(Range(seat[rtRoom]))
        BY <2>1, <3>1, <3>3 DEF ListsAreCurrent, ToldOrOnTheWay
      <4>3. QED
        BY <2>1, <4>1, <4>2 DEF StatesAreCurrent, Informed
    <3>4. CASE rtPc = "walk" /\ f # rtAt /\ r = rtRoom
      <4>1. CASE StatesAreCurrent(f, r)
        BY <2>1, <3>4, <4>1 DEF StatesAreCurrent, Informed
      <4>2. CASE rtAt <= f
        <5>1. rtAt' # NoFd /\ rtAt' <= f
          BY <1>0, <2>1, <3>1, <3>4, <4>2, AfterIsNext
        <5>2. QED
          BY <2>1, <3>4, <5>1 DEF OnTheWay
      <4>3. QED
        BY <2>1, <3>1, <4>1, <4>2 DEF ToldOrOnTheWay, OnTheWay
    <3>5. QED
      BY <2>1, <3>2, <3>3, <3>4
  <2>4. QED
    BY <2>2, <2>3 DEF ToldOrOnTheWay
<1>30. ASSUME RtAsk PROVE ToldOrOnTheWay'
  <2>1. CASE Stops("null seat")
    <3>1. UNCHANGED <<seat, view, rt, ev, conn, strays>>
      BY <2>1 DEF Stops
    <3>2. QED
      BY <3>1, SameRoster DEF Attends, Seated
  <2>2. CASE ~Stops("null seat")
    <3>1. /\ rtPc = "ask" /\ rtPc' = "ask" /\ evPc = "idle"
          /\ UNCHANGED <<seat, conn, view, ev, strays>>
      BY <1>30, <2>2 DEF RtAsk, RtWalking, TurnsKeepIterators
    <3>2. \A r \in Rooms, f \in Fds : Attends(f, r) => StatesAreCurrent(f, r)
      BY <3>1 DEF ToldOrOnTheWay, OnTheWay
    <3>3. \A r \in Rooms, f \in Fds : Attends(f, r)' => StatesAreCurrent(f, r)'
      BY <3>1, <3>2 DEF StatesAreCurrent, Informed, Attends, Seated
    <3>4. QED
      BY <3>1, <3>3 DEF ToldOrOnTheWay, ListsAreCurrent
  <2>3. QED
    BY <2>1, <2>2
<1>22. ASSUME RtDangling PROVE ToldOrOnTheWay'
  <2>1. FALSE
    BY <1>22 DEF RtDangling, RtWalking, TurnsKeepIterators
  <2>2. QED
    BY <2>1
<1>23. ASSUME RtWalked PROVE ToldOrOnTheWay'
  <2>1. /\ rtPc \in {"walk", "broadcast", "ask"} /\ rtAt = NoFd /\ rtPc' = "idle" /\ evPc = "idle"
        /\ UNCHANGED <<seat, conn, view, ev, strays>>
    BY <1>23 DEF RtWalked, TurnsKeepIterators
  <2>2. \A r \in Rooms, f \in Fds : Attends(f, r) => StatesAreCurrent(f, r)
    BY <2>1, NobodyWaits
  <2>3. \A r \in Rooms, f \in Fds : Attends(f, r)' => StatesAreCurrent(f, r)'
    BY <2>1, <2>2 DEF StatesAreCurrent, Informed, Attends, Seated
  <2>4. QED
    BY <2>1, <2>3 DEF ToldOrOnTheWay, ListsAreCurrent
<1>24. ASSUME UNCHANGED vars PROVE ToldOrOnTheWay'
  <2>1. UNCHANGED <<seat, view, rt, ev, conn, strays>>
    BY <1>24 DEF vars
  <2>2. QED
    BY <2>1, SameRoster DEF Attends, Seated
<1>25. ASSUME EvloopStep PROVE ToldOrOnTheWay'
  BY <1>25, <1>28, <1>4, <1>5, <1>6, <1>7, <1>8, <1>9, <1>10
     DEF EvloopStep
<1>26. ASSUME RecvTaskStep PROVE ToldOrOnTheWay'
  BY <1>26, <1>12, <1>13, <1>14, <1>15, <1>29, <1>16, <1>17, <1>18,
     <1>19, <1>20, <1>21, <1>30, <1>22, <1>23 DEF RecvTaskStep
<1>27. QED
  BY <1>1, <1>2, <1>3, <1>24, <1>25, <1>26 DEF Next, Clients, Stopped

\* ClassRoom!CurrentUnlessOverlap is an invariant: while logins and disconnects
\* come one after the other, every student who has logged in and whose last list
\* was not torn knows who else has, in any number of rooms of any size.
THEOREM RosterIsCurrent == Spec => []CurrentUnlessOverlap
<1> DEFINE Inv == /\ TypeOK /\ ThreadsInPlace /\ TurnsKeepIterators /\ SeatUnique
                  /\ ForgottenBehind /\ ToldOrOnTheWay
<1>1. Init => Inv
  <2> SUFFICES ASSUME Init PROVE Inv
    OBVIOUS
  <2>1. TurnsKeepIterators
    BY DEF Init, TurnsKeepIterators
  <2>2. \A r \in Rooms : Seated(r) = {}
    BY EmptyMap DEF Init, Seated
  <2>3. SeatUnique /\ ForgottenBehind
    BY <2>2 DEF Init, SeatUnique, ForgottenBehind, Knows, Range
  <2>4. ToldOrOnTheWay
    BY <2>2 DEF Init, ToldOrOnTheWay, ListsAreCurrent, Attends
  <2>5. QED
    BY <2>1, <2>3, <2>4, InitIsTyped
<1>2. Inv /\ [Next]_vars => Inv'
  <2> SUFFICES ASSUME Inv, [Next]_vars PROVE Inv'
    OBVIOUS
  <2>1. RoomsTypeOK
    BY DEF TypeOK
  <2>2. TypeOK' /\ ThreadsInPlace'
    BY StepIsTyped
  <2>3. TurnsKeepIterators' /\ SeatUnique' /\ ForgottenBehind'
    BY <2>1, StepKeepsIterators, StepKeepsSeatsUnique, StepForgetsBehind
  <2>4. CASE overlap'
    BY <2>2, <2>3, <2>4 DEF ToldOrOnTheWay
  <2>5. CASE ~overlap'
    BY <2>2, <2>3, <2>5, OverlapStays, StepTells
  <2>6. QED
    BY <2>4, <2>5
<1>3. Inv => CurrentUnlessOverlap
  BY NobodyWaits DEF CurrentUnlessOverlap
<1>4. QED
  BY <1>1, <1>2, <1>3, PTL DEF Spec

-----------------------------------------------------------------------------
(* What the games in a classroom rely on.                                  *)

\* The handlers of ClassRoom give nobody NULL for a seat.
LEMMA StepMakesNoNull ==
    ASSUME RoomsTypeOK, ThreadsInPlace, [Next]_vars
    PROVE  \A r \in Rooms : Null \in Range(seat'[r]) => Null \in Range(seat[r])
<1> DEFINE NoNullMade == \A r \in Rooms : Null \in Range(seat'[r]) => Null \in Range(seat[r])
<1> USE DEF room, peer, sent, rt, ev
<1>0. DOMAIN seat = Rooms /\ \A r \in Rooms : seat[r] \in [Seated(r) -> Entry \cup {Null}]
  BY DEF RoomsTypeOK
<1>1. CASE UNCHANGED seat
  BY <1>1
<1>2. ASSUME NEW r, seat' = [seat EXCEPT ![r] = <<>>] PROVE NoNullMade
  <2>1. Range(<<>>) = {}
    BY DEF Range
  <2>2. QED
    BY <1>0, <1>2, <2>1
<1>3. CASE DelStudent /\ ~UNCHANGED seat
  <2>1. evRoom \in Rooms /\ seat' = [seat EXCEPT ![evRoom] = Erase(seat[evRoom], evFd)]
    BY <1>3, AtRoomIsRoom DEF DelStudent, AtRoom, Gone, Stops
  <2>2. Range(Erase(seat[evRoom], evFd)) \subseteq Range(seat[evRoom])
    BY DEF Range, Erase
  <2>3. QED
    BY <1>0, <2>1, <2>2
<1>4. ASSUME NEW f \in Fds, NEW r \in Rooms, SelectAsStudent(f, r) PROVE NoNullMade
  <2> DEFINE s == [sid |-> NoSid, state |-> "offline"]
  <2>1. seat' = [seat EXCEPT ![r] = Put(seat[r], f, s)]
    BY <1>4 DEF SelectAsStudent
  <2>2. s # Null
    BY DEF Null
  <2> HIDE DEF s
  <2>3. Null \in Range(Put(seat[r], f, s)) => Null \in Range(seat[r])
    BY <2>2 DEF Range, Put
  <2>4. QED
    BY <1>0, <2>1, <2>3
<1>5. ASSUME NEW f \in Fds, NEW sid, LoginStudent(f, sid) PROVE NoNullMade
  <2> DEFINE q == RoomOf(f)
             s == [sid |-> sid, state |-> "online"]
  <2>1. q \in Rooms /\ seat' = [seat EXCEPT ![q][f] = s]
    BY <1>5, RoomOfKnows DEF LoginStudent
  <2>2. s # Null
    BY DEF Null
  <2> HIDE DEF q, s
  <2>3. \A r \in Rooms : \A k \in DOMAIN seat'[r] :
           k \in DOMAIN seat[r] /\ (seat'[r][k] = s \/ seat'[r][k] = seat[r][k])
    BY <1>0, <2>1 DEF Seated
  <2>4. QED
    BY <2>2, <2>3 DEF Range
<1>6. CASE Clients
  BY <1>1, <1>6 DEF Clients, Connect, Request, Disconnect
<1>7. CASE EvloopStep
  BY <1>1, <1>2, <1>3, <1>7 DEF EvloopStep, DelTeacher, DelWhite, EvSend, EvTell, EvDangling,
     Dismissed, Reset, Told, RoomsDone, Stops
<1>8. CASE RecvTaskStep
  <2>1. ASSUME NEW f \in Fds, LogoutClassRoom(f) PROVE NoNullMade
    BY <1>1, <1>2, <2>1 DEF LogoutClassRoom, Reset
  <2>2. ASSUME NEW f \in Fds, NEW r \in Rooms, NEW name, SelectAsWhite(f, r) \/ LoginClassRoom(f, r, name)
        PROVE NoNullMade
    BY <1>1, <2>2 DEF SelectAsWhite, LoginClassRoom
  <2>3. ASSUME NEW f \in Fds, Other(f) \/ SelectNoRoom(f) \/ LeaveEarly(f) \/ Broadcast(f) PROVE NoNullMade
    BY <1>1, <2>3 DEF Other, SelectNoRoom, LeaveEarly, Broadcast, Stops
  <2>4. CASE CollectList \/ RtSend \/ RtAsk \/ RtDangling \/ RtWalked
    BY <1>1, <2>4 DEF CollectList, RtSend, RtAsk, RtDangling, RtWalked, Stops
  <2>5. QED
    BY <1>4, <1>5, <1>8, <2>1, <2>2, <2>3, <2>4 DEF RecvTaskStep
<1>9. CASE UNCHANGED vars
  BY <1>1, <1>9 DEF vars
<1>10. QED
  BY <1>6, <1>7, <1>8, <1>9 DEF Next, Stopped

\* Nor do they meet one that is not there.
LEMMA NullSeatIsThere ==
    ASSUME RoomsTypeOK, ThreadsInPlace, [Next]_vars, status # "null seat",
           \A r \in Rooms : Null \notin Range(seat[r])
    PROVE  status' # "null seat"
<1> USE DEF Stops
<1>1. CASE DelStudent
  BY <1>1, AtRoomIsRoom DEF DelStudent, AtRoom
<1>2. CASE CollectList
  BY <1>2 DEF CollectList, ThreadsInPlace
<1>3. CASE Clients
  BY <1>3 DEF Clients, Connect, Request, Disconnect
<1>4. CASE EvloopStep
  BY <1>1, <1>4 DEF EvloopStep, DelTeacher, DelWhite, EvSend, EvTell, EvDangling, Dismissed, Told, RoomsDone
<1>5. CASE RecvTaskStep
  <2>1. ASSUME NEW f, NEW r, NEW name, NEW sid,
               \/ Other(f) \/ LogoutClassRoom(f) \/ SelectNoRoom(f) \/ LeaveEarly(f) \/ Broadcast(f)
               \/ SelectAsStudent(f, r) \/ SelectAsWhite(f, r) \/ LoginClassRoom(f, r, name)
               \/ LoginStudent(f, sid)
        PROVE  status' # "null seat"
    BY <2>1 DEF Other, LogoutClassRoom, SelectNoRoom, LeaveEarly, Broadcast, SelectAsStudent,
       SelectAsWhite, LoginClassRoom, LoginStudent, Serve
  <2>2. CASE RtSend \/ RtDangling \/ RtWalked
    BY <2>2 DEF RtSend, RtDangling, RtWalked
  <2>3. CASE RtAsk
    <3>1. rtRoom \in Rooms /\ rtAt \in Seated(rtRoom)
      BY <2>3 DEF RtAsk, RtWalking, ThreadsInPlace
    <3>2. seat[rtRoom][rtAt] # Null
      BY <3>1 DEF Range, Seated
    <3>3. QED
      BY <2>3, <3>2 DEF RtAsk
  <2>4. QED
    BY <1>2, <1>5, <2>1, <2>2, <2>3 DEF RecvTaskStep
<1>6. CASE UNCHANGED vars
  BY <1>6 DEF vars
<1>7. QED
  BY <1>3, <1>4, <1>5, <1>6 DEF Next, Stopped

=============================================================================
