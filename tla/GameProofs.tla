----------------------------- MODULE GameProofs -----------------------------
(***************************************************************************)
(* What TLAPS proves of the games that are played in a classroom, Puzzle   *)
(* and BuildHouse, for all rooms, clients, names, ids and numbers of       *)
(* nodes.  What a game leaves to ClassRoom is in ClassRoomProofs.          *)
(***************************************************************************)
EXTENDS Puzzle, BuildHouse, ClassRoomProofs

\* An entry is put to the keys and values of a map, or taken from them.
LEMMA PutAndErase ==
    ASSUME NEW map, NEW f, NEW s
    PROVE  /\ DOMAIN Put(map, f, s) = DOMAIN map \cup {f}
           /\ Put(map, f, s)[f] = s
           /\ \A k \in DOMAIN map \ {f} : Put(map, f, s)[k] = map[k]
           /\ Range(Put(map, f, s)) \subseteq Range(map) \cup {s}
           /\ DOMAIN Erase(map, f) = DOMAIN map \ {f}
           /\ Range(Erase(map, f)) \subseteq Range(map)
  BY DEF Put, Erase, Range

\* Putting a clock into a map of clocks leaves one.
LEMMA PutClock ==
    ASSUME NEW map, DOMAIN map \subseteq Fds,
           Range(map) \subseteq {"running", "ended", NullClock},
           NEW f \in Fds, NEW c \in {"running", "ended", NullClock}
    PROVE  /\ DOMAIN Put(map, f, c) \subseteq Fds
           /\ Range(Put(map, f, c)) \subseteq {"running", "ended", NullClock}
<1>1. /\ DOMAIN Put(map, f, c) = DOMAIN map \cup {f}
      /\ Range(Put(map, f, c)) \subseteq Range(map) \cup {c}
  BY PutAndErase
<1>2. QED
  BY <1>1

\* A step that only stops the process leaves the rooms as they are.
LEMMA StopKeepsTypes ==
    ASSUME RoomsTypeOK, ThreadsInPlace, NEW how, Stops(how)
    PROVE  RoomsTypeOK' /\ ThreadsInPlace'
  BY DEF RoomsTypeOK, ThreadsInPlace, Stops, Seated, room, peer, sent, rt, ev

-----------------------------------------------------------------------------
(* The puzzle.                                                             *)

\* A step the puzzle has no part in.
ClassroomStep ==
    /\ [Next]_vars
    /\ deserted' <=> (deserted \/ Deserts)
    /\ UNCHANGED <<clock, game, scores, bystander>>

\* The steps of the puzzle and those of the classroom.
LEMMA PuzzleSteps ==
    ASSUME [PuzzleNext]_<<vars, puzzle>>
    PROVE  \/ ClassroomStep
           \/ \E f \in Fds : GameStart(f) \/ GameStartNowhere(f) \/ EndOwn(f) \/ EndAll(f)
           \/ Started \/ StartClock \/ StartDangling \/ AllStarted
           \/ EndNull \/ EndClock \/ AllEnded
<1>1. CASE UNCHANGED vars /\ UNCHANGED puzzle
  <2>1. ~Deserts
    BY <1>1 DEF Deserts, Seated, vars, room
  <2>2. QED
    BY <1>1, <2>1 DEF ClassroomStep, puzzle
<1>2. CASE Classroom(Clients) \/ Classroom(EvloopStep) \/ Classroom(RecvTaskStep /\ ~(game = "start" /\ RtWalked))
  BY <1>2 DEF Classroom, ClassroomStep, Next
<1>3. CASE Stopped /\ UNCHANGED puzzle
  BY <1>1, <1>3 DEF Stopped
<1>4. QED
  BY <1>1, <1>2, <1>3 DEF PuzzleNext, PuzzleTaskStep

\* The request to start a game is a broadcast of ClassRoom.
LEMMA GameStartIsStep == \A f \in Fds : GameStart(f) => [Next]_vars
  BY DEF GameStart, Next, RecvTaskStep

\* Each step keeps the types of the rooms and of the puzzle.
LEMMA PuzzleKeepsTypes ==
    ASSUME RoomsTypeOK, ThreadsInPlace, PuzzleTypeOK, [PuzzleNext]_<<vars, puzzle>>
    PROVE  RoomsTypeOK' /\ ThreadsInPlace' /\ PuzzleTypeOK'
<1> USE DEF PuzzleTypeOK, room, peer, sent, rt, ev, puzzle
<1>0. /\ DOMAIN seat = Rooms /\ \A r \in Rooms : Seated(r) \in SUBSET Fds
      /\ rtAt \in Fds \cup {NoFd} /\ rtRoom \in Rooms \cup {1}
      /\ rtAt # NoFd => rtRoom \in Rooms
  BY DEF RoomsTypeOK, ThreadsInPlace
<1>1. ASSUME ClassroomStep PROVE RoomsTypeOK' /\ ThreadsInPlace' /\ PuzzleTypeOK'
  <2>1. RoomsTypeOK' /\ ThreadsInPlace'
    BY <1>1, StepKeepsTypes DEF ClassroomStep
  <2>2. rtPc' = "end" <=> rtPc = "end"
    BY <1>1, StepStaysInClass DEF ClassroomStep
  <2>3. PuzzleTypeOK'
    BY <1>1, <2>2 DEF ClassroomStep
  <2>4. QED
    BY <2>1, <2>3
<1>2. ASSUME NEW f \in Fds, GameStart(f) PROVE RoomsTypeOK' /\ ThreadsInPlace' /\ PuzzleTypeOK'
  <2>1. RoomsTypeOK' /\ ThreadsInPlace'
    BY <1>2, GameStartIsStep, StepKeepsTypes
  <2>2. PuzzleTypeOK'
    BY <1>2 DEF GameStart, Broadcast
  <2>3. QED
    BY <2>1, <2>2
<1>3. ASSUME NEW f \in Fds, GameStartNowhere(f)
      PROVE  RoomsTypeOK' /\ ThreadsInPlace' /\ PuzzleTypeOK'
  <2>1. RoomsTypeOK' /\ ThreadsInPlace'
    BY <1>3 DEF GameStartNowhere, Serve, RoomsTypeOK, ThreadsInPlace, Seated
  <2>2. PuzzleTypeOK'
    BY <1>3 DEF GameStartNowhere, Serve
  <2>3. QED
    BY <2>1, <2>2
<1>4. ASSUME Started PROVE RoomsTypeOK' /\ ThreadsInPlace' /\ PuzzleTypeOK'
  <2>1. ASSUME NEW g \in Fds, RoomsOf(g) # {}, rtPc' = "start", rtRoom' = RoomOf(g),
               rtAt' = Least(Seated(RoomOf(g)))
        PROVE  rtPc' = "start" /\ rtRoom' \in Rooms /\ rtAt' \in Fds \cup {NoFd}
    <3>1. RoomOf(g) \in Rooms
      BY <2>1, RoomOfKnows
    <3>2. rtAt' \in Fds \cup {NoFd}
      BY <1>0, <2>1, <3>1, IteratorsAreKeys
    <3>3. QED
      BY <2>1, <3>1, <3>2
  <2>2. /\ rtAt' \in Fds \cup {NoFd} /\ rtRoom' \in Rooms \cup {1}
        /\ rtPc' \in {"start", "idle"} /\ (rtAt' # NoFd => rtRoom' \in Rooms)
    BY <1>4, <2>1 DEF Started
  <2>3. RoomsTypeOK' /\ ThreadsInPlace'
    BY <1>4, <2>2 DEF Started, RoomsTypeOK, ThreadsInPlace, Seated
  <2>4. PuzzleTypeOK'
    BY <1>4, <2>2 DEF Started
  <2>5. QED
    BY <2>3, <2>4
<1>5. ASSUME StartClock PROVE RoomsTypeOK' /\ ThreadsInPlace' /\ PuzzleTypeOK'
  <2>1. /\ rtPc = "start" /\ rtAt # NoFd /\ rtRoom \in Rooms /\ rtAt \in Seated(rtRoom) /\ rtAt \in Fds
        /\ clock' = [clock EXCEPT ![rtRoom] = Insert(clock[rtRoom], rtAt)]
        /\ rtAt' = After(Seated(rtRoom), rtAt)
        /\ UNCHANGED <<room, peer, sent, rtPc, rtRoom, rtList, ev, strays, overlap, status,
                       game, scores, deserted, bystander>>
    BY <1>0, <1>5 DEF StartClock, Clocking
  <2>2. rtAt' \in Fds \cup {NoFd}
    BY <1>0, <2>1, IteratorsAreKeys
  <2>3. RoomsTypeOK' /\ ThreadsInPlace'
    BY <2>1, <2>2 DEF RoomsTypeOK, ThreadsInPlace, Seated
  <2>4. /\ DOMAIN Insert(clock[rtRoom], rtAt) \subseteq Fds
        /\ Range(Insert(clock[rtRoom], rtAt)) \subseteq {"running", "ended", NullClock}
    BY <2>1, PutClock DEF Insert
  <2>5. PuzzleTypeOK'
    BY <2>1, <2>4
  <2>6. QED
    BY <2>3, <2>5
<1>6. ASSUME StartDangling PROVE RoomsTypeOK' /\ ThreadsInPlace' /\ PuzzleTypeOK'
  <2>1. UNCHANGED <<room, peer, sent, rtPc, rtRoom, rtList, ev, strays, overlap, puzzle>>
    BY <1>6 DEF StartDangling, StopsGame, Stops
  <2>2. rtAt' \in Fds \cup {NoFd} /\ rtRoom \in Rooms
    BY <1>0, <1>6 DEF StartDangling, Clocking, StopsGame, Stops
  <2>3. RoomsTypeOK' /\ ThreadsInPlace'
    BY <2>1, <2>2 DEF RoomsTypeOK, ThreadsInPlace, Seated
  <2>4. QED
    BY <2>1, <2>3
<1>7. ASSUME AllStarted PROVE RoomsTypeOK' /\ ThreadsInPlace' /\ PuzzleTypeOK'
  <2>1. RoomsTypeOK' /\ ThreadsInPlace'
    BY <1>7 DEF AllStarted, RoomsTypeOK, ThreadsInPlace, Seated
  <2>2. PuzzleTypeOK'
    BY <1>7 DEF AllStarted
  <2>3. QED
    BY <2>1, <2>2
<1>8. ASSUME NEW f \in Fds, EndOwn(f) PROVE RoomsTypeOK' /\ ThreadsInPlace' /\ PuzzleTypeOK'
  <2> DEFINE r == RoomOf(f)
             c == IF f \in DOMAIN clock[r] /\ clock[r][f] # NullClock THEN "ended" ELSE NullClock
  <2>1. /\ game = "none" /\ Serve(f) /\ r \in Rooms
        /\ clock' = [clock EXCEPT ![r] = Put(clock[r], f, c)]
        /\ UNCHANGED <<room, sent, rt, strays, game, scores, deserted>>
    BY <1>8, RoomOfKnows DEF EndOwn
  <2>2. c \in {"ended", NullClock}
    OBVIOUS
  <2> HIDE DEF r, c
  <2>3. RoomsTypeOK' /\ ThreadsInPlace'
    BY <2>1 DEF Serve, RoomsTypeOK, ThreadsInPlace, Seated
  <2>4. /\ DOMAIN Put(clock[r], f, c) \subseteq Fds
        /\ Range(Put(clock[r], f, c)) \subseteq {"running", "ended", NullClock}
    BY <2>1, <2>2, PutClock
  <2>5. PuzzleTypeOK'
    BY <2>1, <2>4
  <2>6. QED
    BY <2>3, <2>5
<1>9. ASSUME NEW f \in Fds, EndAll(f) PROVE RoomsTypeOK' /\ ThreadsInPlace' /\ PuzzleTypeOK'
  <2>1. /\ Serve(f) /\ rtRoom' \in Rooms /\ rtAt' = Least(DOMAIN clock[rtRoom'])
        /\ game' = "end" /\ rtPc' = "end" /\ scores' = {}
        /\ UNCHANGED <<room, sent, rtList, strays, clock, deserted, bystander>>
    BY <1>9, RoomOfKnows DEF EndAll, Clocks
  <2>2. rtAt' \in Fds \cup {NoFd}
    <3>1. \A r \in Rooms : Least(DOMAIN clock[r]) \in Fds \cup {NoFd}
      BY IteratorsAreKeys
    <3>2. QED
      BY <2>1, <3>1
  <2>3. RoomsTypeOK' /\ ThreadsInPlace'
    BY <2>1, <2>2 DEF Serve, RoomsTypeOK, ThreadsInPlace, Seated
  <2>4. PuzzleTypeOK'
    BY <2>1
  <2>5. QED
    BY <2>3, <2>4
<1>10. ASSUME EndNull PROVE RoomsTypeOK' /\ ThreadsInPlace' /\ PuzzleTypeOK'
  <2>1. Stops("null clock") /\ UNCHANGED puzzle
    BY <1>10 DEF EndNull, StopsGame
  <2>2. QED
    BY <2>1, StopKeepsTypes DEF Stops
<1>11. ASSUME EndClock PROVE RoomsTypeOK' /\ ThreadsInPlace' /\ PuzzleTypeOK'
  <2>1. /\ rtPc = "end" /\ rtAt \in Fds /\ rtRoom \in Rooms
        /\ clock' = [clock EXCEPT ![rtRoom] = Put(clock[rtRoom], rtAt, "ended")]
        /\ \/ UNCHANGED <<seat, strays>>
           \/ /\ seat' = [seat EXCEPT ![rtRoom] = Put(seat[rtRoom], rtAt, Null)]
              /\ strays' \subseteq strays \cup {rtAt}
        /\ scores' \subseteq scores \cup {rtAt}
        /\ rtAt' = After(DOMAIN clock[rtRoom], rtAt)
        /\ UNCHANGED <<teacherFd, teacherName, whiteFd, peer, sent, rtPc, rtRoom, rtList, ev,
                       overlap, status, game>>
    BY <1>0, <1>11 DEF EndClock, Ending, Learns, Clocks
  <2>2. rtAt' \in Fds \cup {NoFd}
    BY <2>1, IteratorsAreKeys
  <2>3. /\ DOMAIN seat' = Rooms
        /\ \A r \in Rooms : /\ DOMAIN seat'[r] \subseteq Fds
                            /\ seat'[r] \in [DOMAIN seat'[r] -> Entry \cup {Null}]
    <3>1. \A r \in Rooms : seat[r] \in [Seated(r) -> Entry \cup {Null}]
      BY DEF RoomsTypeOK
    <3>2. /\ DOMAIN Put(seat[rtRoom], rtAt, Null) \subseteq Fds
          /\ Put(seat[rtRoom], rtAt, Null) \in [Seated(rtRoom) \cup {rtAt} -> Entry \cup {Null}]
      <4>1. /\ Put(seat[rtRoom], rtAt, Null) \in [Seated(rtRoom) \cup {rtAt} -> Entry \cup {Null}]
            /\ Seated(rtRoom) \cup {rtAt} \subseteq Fds
        BY <1>0, <2>1, <3>1, MapOperations
      <4>2. QED
        BY <4>1
    <3>3. QED
      BY <1>0, <2>1, <3>1, <3>2 DEF Seated
  <2>4. RoomsTypeOK' /\ ThreadsInPlace'
    BY <2>1, <2>2, <2>3 DEF RoomsTypeOK, ThreadsInPlace, Seated
  <2>5. /\ DOMAIN Put(clock[rtRoom], rtAt, "ended") \subseteq Fds
        /\ Range(Put(clock[rtRoom], rtAt, "ended")) \subseteq {"running", "ended", NullClock}
    BY <2>1, PutClock
  <2>6. PuzzleTypeOK'
    BY <2>1, <2>5
  <2>7. QED
    BY <2>4, <2>6
<1>12. ASSUME AllEnded PROVE RoomsTypeOK' /\ ThreadsInPlace' /\ PuzzleTypeOK'
  <2>1. RoomsTypeOK' /\ ThreadsInPlace'
    BY <1>12 DEF AllEnded, RoomsTypeOK, ThreadsInPlace, Seated
  <2>2. PuzzleTypeOK'
    BY <1>12 DEF AllEnded
  <2>3. QED
    BY <2>1, <2>2
<1>13. QED
  BY <1>1, <1>2, <1>3, <1>4, <1>5, <1>6, <1>7, <1>8, <1>9, <1>10, <1>11, <1>12, PuzzleSteps

\* Puzzle!PuzzleTypeOK is an invariant, and so is what ClassRoom says of types:
\* the clocks are those of clients, and scores wait only for the end of a game.
THEOREM PuzzleTypeCorrect == PuzzleSpec => [](RoomsTypeOK /\ ThreadsInPlace /\ PuzzleTypeOK)
<1>1. PuzzleInit => RoomsTypeOK /\ ThreadsInPlace /\ PuzzleTypeOK
  <2> SUFFICES ASSUME PuzzleInit PROVE RoomsTypeOK /\ ThreadsInPlace /\ PuzzleTypeOK
    OBVIOUS
  <2>1. Init
    BY DEF PuzzleInit
  <2>2. DOMAIN <<>> = {} /\ Range(<<>>) = {}
    BY DEF Range
  <2>3. PuzzleTypeOK
    BY <2>1, <2>2 DEF PuzzleInit, PuzzleTypeOK, Init
  <2>4. QED
    BY <2>1, <2>3, InitIsTyped DEF TypeOK
<1>2. QED
  BY <1>1, PuzzleKeepsTypes, PTL DEF PuzzleSpec

-----------------------------------------------------------------------------
\* The keys of the clocks stay, and so does the place of the walk over them.
LEMMA PuzzleKeepsClocks ==
    ASSUME RoomsTypeOK, ThreadsInPlace, PuzzleTypeOK, ClocksStay, [PuzzleNext]_<<vars, puzzle>>
    PROVE  ClocksStay'
<1> USE DEF ClocksStay, room, peer, sent, rt, ev, puzzle
<1>0. DOMAIN clock = Rooms /\ \A r \in Rooms : DOMAIN clock[r] \in SUBSET Fds
  BY DEF PuzzleTypeOK
<1>1. CASE ClassroomStep
  <2>1. UNCHANGED rt \/ rtPc' # "end"
    BY <1>1, StepStaysInClass DEF ClassroomStep
  <2>2. UNCHANGED clock
    BY <1>1 DEF ClassroomStep
  <2>3. QED
    BY <2>1, <2>2
<1>2. ASSUME NEW f \in Fds, GameStart(f) \/ GameStartNowhere(f) \/ EndOwn(f) PROVE ClocksStay'
  <2>1. rtPc' # "end"
    BY <1>2 DEF GameStart, Broadcast, GameStartNowhere, EndOwn, Serve
  <2>2. QED
    BY <2>1
<1>3. CASE Started \/ StartClock \/ StartDangling \/ AllStarted \/ AllEnded
  <2>1. rtPc' # "end"
    BY <1>3 DEF Started, StartClock, StartDangling, Clocking, StopsGame, Stops, AllStarted, AllEnded
  <2>2. QED
    BY <2>1
<1>4. ASSUME NEW f \in Fds, EndAll(f) PROVE ClocksStay'
  <2>1. rtRoom' \in Rooms /\ rtAt' = Least(DOMAIN clock[rtRoom']) /\ UNCHANGED clock
    BY <1>4, RoomOfKnows DEF EndAll, Clocks
  <2>2. \A r \in Rooms : Least(DOMAIN clock[r]) \in DOMAIN clock[r] \cup {NoFd}
    BY <1>0, IteratorsAreKeys
  <2>3. QED
    BY <2>1, <2>2
<1>5. CASE EndNull
  BY <1>5 DEF EndNull, StopsGame, Stops
<1>6. CASE EndClock
  <2>1. /\ rtRoom \in Rooms /\ rtAt' = After(DOMAIN clock[rtRoom], rtAt)
        /\ clock' = [clock EXCEPT ![rtRoom] = Put(clock[rtRoom], rtAt, "ended")]
        /\ UNCHANGED rtRoom
    BY <1>6 DEF EndClock, Ending, Clocks, ThreadsInPlace
  <2>2. rtAt' \in DOMAIN clock[rtRoom] \cup {NoFd}
    BY <1>0, <2>1, IteratorsAreKeys
  <2>3. DOMAIN clock'[rtRoom] = DOMAIN clock[rtRoom] \cup {rtAt}
    BY <1>0, <2>1, PutAndErase
  <2>4. QED
    BY <2>1, <2>2, <2>3
<1>7. QED
  BY <1>1, <1>2, <1>3, <1>4, <1>5, <1>6, PuzzleSteps

LEMMA ClocksAlwaysStay == PuzzleSpec => []ClocksStay
<1>1. PuzzleInit => ClocksStay
  BY DEF PuzzleInit, Init, ClocksStay
<1>2. QED
  BY <1>1, PuzzleKeepsClocks, PuzzleTypeCorrect, PTL DEF PuzzleSpec

\* Only a player that loses the seat while the clock runs takes it from a clock.
LEMMA PuzzleKeepsPlayersSeated ==
    ASSUME RoomsTypeOK, ThreadsInPlace, PuzzleTypeOK, ClocksStay, PlayersAreSeated,
           [PuzzleNext]_<<vars, puzzle>>
    PROVE  PlayersAreSeated'
<1> USE DEF PlayersAreSeated, room, peer, sent, rt, ev, puzzle
<1>0. /\ DOMAIN clock = Rooms /\ DOMAIN seat = Rooms
      /\ rtAt # NoFd => rtRoom \in Rooms
  BY DEF PuzzleTypeOK, RoomsTypeOK, ThreadsInPlace
<1>1. CASE ClassroomStep
  <2>1. CASE deserted'
    BY <2>1
  <2>2. CASE ~deserted'
    <3>1. ~deserted /\ ~Deserts /\ [Next]_vars /\ UNCHANGED clock
      BY <1>1, <2>2 DEF ClassroomStep
    <3>2. \A r \in Rooms : Null \notin Range(seat'[r])
      BY <3>1, StepMakesNoNull
    <3>3. status' # "null seat"
      BY <3>1, NullSeatIsThere
    <3>4. \A r \in Rooms : \A f \in DOMAIN clock[r] : f \in Seated(r) => f \in DOMAIN seat'[r]
      BY <3>1 DEF Deserts
    <3>5. QED
      BY <3>1, <3>2, <3>3, <3>4 DEF Seated
  <2>3. QED
    BY <2>1, <2>2
<1>2. ASSUME UNCHANGED <<seat, clock, deserted>>, status' # "null seat" \/ UNCHANGED status
      PROVE  PlayersAreSeated'
  BY <1>2 DEF Seated
<1>3. ASSUME NEW f \in Fds, GameStart(f) \/ GameStartNowhere(f) \/ EndAll(f) PROVE PlayersAreSeated'
  <2>1. UNCHANGED <<seat, clock, deserted, status>>
    BY <1>3 DEF GameStart, Broadcast, GameStartNowhere, EndAll, Serve
  <2>2. QED
    BY <1>2, <2>1
<1>4. CASE Started \/ StartDangling \/ AllStarted \/ EndNull \/ AllEnded
  <2>1. UNCHANGED <<seat, clock, deserted>> /\ (status' # "null seat" \/ UNCHANGED status)
    BY <1>4 DEF Started, StartDangling, StopsGame, Stops, AllStarted, EndNull, AllEnded
  <2>2. QED
    BY <1>2, <2>1
<1>5. CASE StartClock
  <2>1. /\ rtRoom \in Rooms /\ rtAt \in Seated(rtRoom)
        /\ clock' = [clock EXCEPT ![rtRoom] = Insert(clock[rtRoom], rtAt)]
        /\ UNCHANGED <<seat, deserted, status>>
    BY <1>0, <1>5 DEF StartClock, Clocking
  <2>2. \A k \in DOMAIN Insert(clock[rtRoom], rtAt) :
           (k \in DOMAIN clock[rtRoom] /\ Insert(clock[rtRoom], rtAt)[k] = clock[rtRoom][k]) \/ k = rtAt
    BY DEF Insert, Put
  <2>3. \A r \in Rooms : \A k \in DOMAIN clock'[r] :
           \/ k \in DOMAIN clock[r] /\ clock'[r][k] = clock[r][k]
           \/ r = rtRoom /\ k = rtAt
    BY <1>0, <2>1, <2>2
  <2>4. QED
    BY <2>1, <2>3 DEF Seated
<1>6. ASSUME NEW f \in Fds, EndOwn(f) PROVE PlayersAreSeated'
  <2> DEFINE q == RoomOf(f)
             c == IF f \in DOMAIN clock[q] /\ clock[q][f] # NullClock THEN "ended" ELSE NullClock
  <2>1. /\ q \in Rooms
        /\ clock' = [clock EXCEPT ![q] = Put(clock[q], f, c)]
        /\ UNCHANGED <<seat, deserted, status>>
    BY <1>6, RoomOfKnows DEF EndOwn, Serve
  <2>2. c # NullClock => f \in DOMAIN clock[q] /\ clock[q][f] # NullClock
    OBVIOUS
  <2> HIDE DEF q, c
  <2>3. \A k \in DOMAIN Put(clock[q], f, c) :
           \/ k \in DOMAIN clock[q] /\ Put(clock[q], f, c)[k] = clock[q][k]
           \/ k = f /\ Put(clock[q], f, c)[k] = c
    BY DEF Put
  <2>4. \A r \in Rooms : \A k \in DOMAIN clock'[r] :
           \/ k \in DOMAIN clock[r] /\ clock'[r][k] = clock[r][k]
           \/ r = q /\ k = f /\ clock'[r][k] = c
    BY <1>0, <2>1, <2>3
  <2>5. QED
    BY <2>1, <2>2, <2>4 DEF Seated
<1>7. CASE EndClock
  <2>1. /\ rtPc = "end" /\ rtAt # NoFd /\ rtRoom \in Rooms
        /\ rtAt \in DOMAIN clock[rtRoom] => clock[rtRoom][rtAt] # NullClock
        /\ clock' = [clock EXCEPT ![rtRoom] = Put(clock[rtRoom], rtAt, "ended")]
        /\ rtAt \in Seated(rtRoom) => UNCHANGED seat
        /\ UNCHANGED <<deserted, status>>
    BY <1>0, <1>7 DEF EndClock, Ending
  <2>2. CASE deserted
    BY <2>1, <2>2
  <2>3. CASE ~deserted
    <3>1. rtAt \in Seated(rtRoom) /\ UNCHANGED seat
      BY <2>1, <2>3 DEF ClocksStay
    <3>2. \A k \in DOMAIN Put(clock[rtRoom], rtAt, "ended") :
             \/ k \in DOMAIN clock[rtRoom] /\ Put(clock[rtRoom], rtAt, "ended")[k] = clock[rtRoom][k]
             \/ k = rtAt
      BY DEF Put
    <3>3. \A r \in Rooms : \A k \in DOMAIN clock'[r] :
             \/ k \in DOMAIN clock[r] /\ clock'[r][k] = clock[r][k]
             \/ r = rtRoom /\ k = rtAt
      BY <1>0, <2>1, <3>2
    <3>4. QED
      BY <2>1, <2>3, <3>1, <3>3 DEF Seated
  <2>4. QED
    BY <2>2, <2>3
<1>8. QED
  BY <1>1, <1>3, <1>4, <1>5, <1>6, <1>7, PuzzleSteps

\* Puzzle!NullSeatNeedsDeserter is an invariant: in rooms of any size, a walk
\* meets NULL in a seat only after a player has left and the game has ended.
THEOREM DeserterExplainsNullSeat == PuzzleSpec => []NullSeatNeedsDeserter
<1>1. PuzzleInit => PlayersAreSeated
  <2>1. DOMAIN <<>> = {} /\ Range(<<>>) = {}
    BY DEF Range
  <2>2. QED
    BY <2>1 DEF PuzzleInit, Init, PlayersAreSeated
<1>2. PlayersAreSeated => NullSeatNeedsDeserter
  BY DEF PlayersAreSeated, NullSeatNeedsDeserter
<1>3. QED
  BY <1>1, <1>2, ClocksAlwaysStay, PuzzleKeepsPlayersSeated, PuzzleTypeCorrect, PTL DEF PuzzleSpec

\* Only who ends a game without a clock leaves NULL for one.
LEMMA PuzzleKeepsClocksStarted ==
    ASSUME PuzzleTypeOK, ThreadsInPlace, ClocksStay, ClocksWereStarted,
           [PuzzleNext]_<<vars, puzzle>>
    PROVE  ClocksWereStarted'
<1> USE DEF ClocksWereStarted, rt, puzzle
<1>0. DOMAIN clock = Rooms /\ (rtAt # NoFd => rtRoom \in Rooms)
  BY DEF PuzzleTypeOK, ThreadsInPlace
<1>1. CASE ClassroomStep
  <2>1. UNCHANGED <<clock, bystander>> /\ (status' # "null clock" \/ UNCHANGED status)
    BY <1>1, StepKeepsStatus DEF ClassroomStep
  <2>2. QED
    BY <2>1
<1>2. ASSUME NEW f \in Fds, GameStart(f) \/ GameStartNowhere(f) \/ EndAll(f) PROVE ClocksWereStarted'
  <2>1. UNCHANGED <<clock, bystander, status>>
    BY <1>2 DEF GameStart, Broadcast, GameStartNowhere, EndAll, Serve
  <2>2. QED
    BY <2>1
<1>3. CASE Started \/ StartDangling \/ AllStarted \/ AllEnded
  <2>1. UNCHANGED <<clock, bystander>> /\ (status' # "null clock" \/ UNCHANGED status)
    BY <1>3 DEF Started, StartDangling, StopsGame, Stops, AllStarted, AllEnded
  <2>2. QED
    BY <2>1
<1>4. ASSUME NEW q \in Rooms, NEW map, clock' = [clock EXCEPT ![q] = map],
             NullClock \notin Range(map) \/ NullClock \in Range(clock[q]),
             UNCHANGED <<bystander, status>>
      PROVE  ClocksWereStarted'
  BY <1>0, <1>4
<1>5. CASE StartClock
  <2>1. /\ rtRoom \in Rooms /\ clock' = [clock EXCEPT ![rtRoom] = Insert(clock[rtRoom], rtAt)]
        /\ UNCHANGED <<bystander, status>>
    BY <1>0, <1>5 DEF StartClock, Clocking
  <2>2. Range(Insert(clock[rtRoom], rtAt)) \subseteq Range(clock[rtRoom]) \cup {"running"}
    BY PutAndErase DEF Insert
  <2>3. QED
    BY <1>4, <2>1, <2>2 DEF NullClock
<1>6. ASSUME NEW f \in Fds, EndOwn(f) PROVE ClocksWereStarted'
  <2> DEFINE q == RoomOf(f)
             c == IF f \in DOMAIN clock[q] /\ clock[q][f] # NullClock THEN "ended" ELSE NullClock
  <2>1. /\ q \in Rooms
        /\ clock' = [clock EXCEPT ![q] = Put(clock[q], f, c)]
        /\ bystander' <=> (bystander \/ f \notin DOMAIN clock[q])
        /\ UNCHANGED status
    BY <1>6, RoomOfKnows DEF EndOwn, Serve
  <2>2. CASE bystander'
    BY <2>2
  <2>3. CASE ~bystander'
    <3>1. f \in DOMAIN clock[q] /\ ~bystander
      BY <2>1, <2>3
    <3>2. clock[q][f] # NullClock
      BY <2>1, <3>1 DEF Range
    <3>3. c = "ended"
      BY <3>1, <3>2
    <3> HIDE DEF q, c
    <3>4. Range(Put(clock[q], f, c)) \subseteq Range(clock[q]) \cup {"ended"}
      BY <3>3, PutAndErase
    <3>5. NullClock \notin Range(Put(clock[q], f, c))
      BY <2>1, <3>1, <3>4 DEF NullClock
    <3>6. QED
      BY <1>0, <2>1, <3>1, <3>5
  <2>4. QED
    BY <2>2, <2>3
<1>7. CASE EndNull
  <2>1. UNCHANGED <<clock, bystander>> /\ rtAt \in DOMAIN clock[rtRoom] /\ clock[rtRoom][rtAt] = NullClock
    BY <1>7 DEF EndNull, StopsGame
  <2>2. rtRoom \in Rooms
    BY <1>7 DEF EndNull, Ending, ClocksStay
  <2>3. bystander
    BY <2>1, <2>2 DEF Range
  <2>4. QED
    BY <2>1, <2>3
<1>8. CASE EndClock
  <2>1. /\ rtRoom \in Rooms
        /\ clock' = [clock EXCEPT ![rtRoom] = Put(clock[rtRoom], rtAt, "ended")]
        /\ UNCHANGED <<bystander, status>>
    BY <1>0, <1>8 DEF EndClock, Ending
  <2>2. Range(Put(clock[rtRoom], rtAt, "ended")) \subseteq Range(clock[rtRoom]) \cup {"ended"}
    BY PutAndErase
  <2>3. QED
    BY <1>4, <2>1, <2>2 DEF NullClock
<1>9. QED
  BY <1>1, <1>2, <1>3, <1>5, <1>6, <1>7, <1>8, PuzzleSteps

\* Puzzle!NullClockNeedsBystander is an invariant: with any number of players, an
\* end of the game meets NULL for a clock only if somebody ended one without a
\* clock.
THEOREM BystanderExplainsNullClock == PuzzleSpec => []NullClockNeedsBystander
<1>1. PuzzleInit => ClocksWereStarted
  <2>1. Range(<<>>) = {}
    BY DEF Range
  <2>2. QED
    BY <2>1 DEF PuzzleInit, Init, ClocksWereStarted
<1>2. ClocksWereStarted => NullClockNeedsBystander
  BY DEF ClocksWereStarted, NullClockNeedsBystander
<1>3. QED
  BY <1>1, <1>2, ClocksAlwaysStay, PuzzleKeepsClocksStarted, PuzzleTypeCorrect, PTL DEF PuzzleSpec

-----------------------------------------------------------------------------
(* Building a house.                                                       *)

\* A step the house has no part in.
HouseClassroomStep ==
    /\ [Next]_vars
    /\ present' \subseteq present /\ (present # {} => present' \subseteq DOMAIN seat'[rtRoom])
    /\ UNCHANGED <<houses, ids, astray>>

\* The steps of the house and those of the classroom.
LEMMA HouseSteps ==
    ASSUME [HouseNext]_<<vars, house>>
    PROVE  \/ UNCHANGED <<vars, house>>
           \/ HouseClassroomStep
           \/ \E f \in Fds : HouseStart(f)
           \/ Found \/ FoundDangling \/ Founded
           \/ \E f \in Fds, r \in Rooms :
                 \/ WildCopy(f, r) \/ AddPic(f, r)
                 \/ \E id \in 1 .. MaxNodes :
                       DelPic(f, r, id) \/ UpdateNode(f, r, id) \/ ChangeLayer(f, r, id)
<1>1. CASE ClassroomToo(Clients) \/ ClassroomToo(EvloopStep) \/ ClassroomToo(RecvTaskStep)
  BY <1>1 DEF ClassroomToo, HouseClassroomStep, Next
<1>2. CASE Stopped /\ UNCHANGED house
  BY <1>2 DEF Stopped
<1>3. QED
  BY <1>1, <1>2 DEF HouseNext, HouseTaskStep

\* A request of somebody in a group leaves the rooms and the threads alone.
LEMMA HouseRequest ==
    ASSUME NEW f \in Fds, NEW r \in Rooms, NEW id,
           AddPic(f, r) \/ DelPic(f, r, id) \/ UpdateNode(f, r, id) \/ ChangeLayer(f, r, id)
    PROVE  /\ rtPc = "idle" /\ RoomsOf(f) # {} /\ r \in DOMAIN members
           /\ UNCHANGED <<room, conn, sent, rt, ev, strays, members, founding, founder, present, astray>>
           /\ backlog' \subseteq backlog /\ overlap' \in {overlap, TRUE, evPc # "idle"}
  BY DEF AddPic, DelPic, UpdateNode, ChangeLayer, AloneInHouse, InHouse, Serve, house, houses, histories

\* Each step keeps the types of the rooms and of the house.
LEMMA HouseKeepsTypes ==
    ASSUME RoomsTypeOK, ThreadsInPlace, HouseTypeOK, HouseInPlace, [HouseNext]_<<vars, house>>
    PROVE  RoomsTypeOK' /\ ThreadsInPlace' /\ HouseTypeOK' /\ HouseInPlace'
<1> DEFINE Inv == RoomsTypeOK /\ ThreadsInPlace /\ HouseTypeOK /\ HouseInPlace
<1> USE BuildHouseAssumption DEF HouseTypeOK, HouseInPlace, room, peer, sent, rt, ev, house, houses, histories
<1>0. /\ DOMAIN seat = Rooms /\ \A r \in Rooms : Seated(r) \in SUBSET Fds
      /\ rtAt \in Fds \cup {NoFd} /\ rtRoom \in Rooms \cup {1}
      /\ rtAt # NoFd => rtRoom \in Rooms
      /\ DOMAIN nodes = Rooms /\ DOMAIN ids = Rooms
      /\ \A r \in Rooms : nextId[r] \in Nat
  BY DEF RoomsTypeOK, ThreadsInPlace
<1>1. CASE HouseClassroomStep
  <2>1. RoomsTypeOK' /\ ThreadsInPlace'
    BY <1>1, StepKeepsTypes DEF HouseClassroomStep
  <2>2. /\ rtPc' = "found" <=> rtPc = "found"
        /\ rtPc = "found" => rtRoom' = rtRoom
    BY <1>1, StepStaysInClass DEF HouseClassroomStep
  <2>3. \A r \in Rooms : Null \notin Range(seat'[r])
    BY <1>1, StepMakesNoNull DEF HouseClassroomStep
  <2>4. HouseTypeOK' /\ HouseInPlace'
    BY <1>1, <2>2, <2>3 DEF HouseClassroomStep
  <2>5. QED
    BY <2>1, <2>4
<1>2. ASSUME NEW f \in Fds, HouseStart(f) PROVE Inv'
  <2>1. /\ Serve(f) /\ rtPc' = "found" /\ rtRoom' = RoomOf(f) /\ rtAt' = Least(Seated(RoomOf(f)))
        /\ founding' = {} /\ founder' = f
        /\ UNCHANGED <<room, sent, rtList, strays, members, nodes, layers, nextId, ids>>
    BY <1>2 DEF HouseStart, Seated
  <2>2. RoomOf(f) \in Rooms
    BY <1>2, RoomOfKnows DEF HouseStart
  <2>3. rtAt' \in Fds \cup {NoFd}
    BY <1>0, <2>1, <2>2, IteratorsAreKeys
  <2>4. RoomsTypeOK' /\ ThreadsInPlace'
    BY <2>1, <2>2, <2>3 DEF Serve, RoomsTypeOK, ThreadsInPlace, Seated
  <2>5. HouseTypeOK' /\ HouseInPlace'
    BY <2>1, <2>2, NoFdIsNoClient
  <2>6. QED
    BY <2>4, <2>5
<1>3. CASE Found
  <2>1. /\ rtPc = "found" /\ rtAt \in Seated(rtRoom) /\ rtRoom \in Rooms /\ rtAt \in Fds
        /\ founding' \subseteq founding \cup {rtAt}
        /\ rtAt' = After(Seated(rtRoom), rtAt)
        /\ UNCHANGED <<room, peer, sent, rtPc, rtRoom, rtList, ev, strays, overlap, status,
                       members, nodes, layers, nextId, founder, histories>>
    BY <1>0, <1>3 DEF Found, Founding
  <2>2. rtAt' \in Fds \cup {NoFd}
    BY <1>0, <2>1, IteratorsAreKeys
  <2>3. RoomsTypeOK' /\ ThreadsInPlace'
    BY <2>1, <2>2 DEF RoomsTypeOK, ThreadsInPlace, Seated
  <2>4. HouseTypeOK' /\ HouseInPlace'
    BY <2>1
  <2>5. QED
    BY <2>3, <2>4
<1>4. CASE FoundDangling
  <2>1. /\ UNCHANGED <<room, peer, sent, rtPc, rtRoom, rtList, ev, strays, overlap, houses, ids>>
        /\ rtAt' \in Fds \cup {NoFd} /\ rtRoom \in Rooms
    BY <1>0, <1>4 DEF FoundDangling, Founding, StopsHouse, Stops
  <2>2. RoomsTypeOK' /\ ThreadsInPlace'
    BY <2>1 DEF RoomsTypeOK, ThreadsInPlace, Seated
  <2>3. HouseTypeOK' /\ HouseInPlace'
    BY <2>1
  <2>4. QED
    BY <2>2, <2>3
<1>5. CASE Founded
  <2>1. RoomsTypeOK' /\ ThreadsInPlace'
    BY <1>5 DEF Founded, RoomsTypeOK, ThreadsInPlace, Seated
  <2>2. rtRoom \in Rooms /\ founding \subseteq Fds
    BY <1>5 DEF Founded
  <2>3. /\ DOMAIN AddGroup(members, rtRoom, founding) = DOMAIN members \cup {rtRoom}
        /\ \A r \in DOMAIN members : AddGroup(members, rtRoom, founding)[r] = members[r]
    BY DEF AddGroup
  <2> DEFINE map == AddGroup(members, rtRoom, founding)
  <2>4. members' = map
    BY <1>5 DEF Founded
  <2>5. /\ DOMAIN map \subseteq Rooms /\ DOMAIN members \subseteq DOMAIN map
        /\ \A r \in DOMAIN map : map[r] \subseteq Fds
    <3>1. \A r \in DOMAIN map \ DOMAIN members : map[r] = founding
      BY ONLY DEF AddGroup
    <3>2. QED
      BY <2>2, <2>3, <3>1
  <2> HIDE DEF map
  <2>6. /\ DOMAIN members' \subseteq Rooms /\ DOMAIN members \subseteq DOMAIN members'
        /\ \A r \in DOMAIN members' : members'[r] \subseteq Fds
    BY <2>4, <2>5
  <2>7. HouseTypeOK' /\ HouseInPlace'
    BY <1>5, <2>6 DEF Founded
  <2>8. QED
    BY <2>1, <2>7
<1>6. ASSUME NEW f \in Fds, NEW r \in Rooms, WildCopy(f, r) PROVE Inv'
  <2>1. Stops("wild copy") /\ UNCHANGED house
    BY <1>6 DEF WildCopy, StopsHouse
  <2>2. RoomsTypeOK' /\ ThreadsInPlace'
    BY <2>1, StopKeepsTypes
  <2>3. HouseTypeOK' /\ HouseInPlace'
    BY <2>1 DEF Stops
  <2>4. QED
    BY <2>2, <2>3
<1>7. ASSUME NEW f \in Fds, NEW r \in Rooms, NEW id \in 1 .. MaxNodes,
             AddPic(f, r) \/ DelPic(f, r, id) \/ UpdateNode(f, r, id) \/ ChangeLayer(f, r, id)
      PROVE  Inv'
  <2>1. /\ rtPc = "idle" /\ r \in DOMAIN members
        /\ UNCHANGED <<room, conn, sent, rt, ev, strays, members, founding, founder>>
        /\ backlog' \subseteq backlog /\ overlap' \in {overlap, TRUE, evPc # "idle"}
    BY <1>7, HouseRequest
  <2>2. RoomsTypeOK' /\ ThreadsInPlace'
    BY <2>1 DEF RoomsTypeOK, ThreadsInPlace, Seated
  <2>3. CASE AddPic(f, r)
    <3>1. /\ nextId[r] <= MaxNodes
          /\ nodes' = [nodes EXCEPT ![r] = Put(nodes[r], nextId[r], f)]
          /\ nextId' = [nextId EXCEPT ![r] = nextId[r] + 1]
          /\ ids' = [ids EXCEPT ![r] = ids[r] \cup {nextId[r]}]
      BY <2>3 DEF AddPic, NewId
    <3>2. /\ DOMAIN Put(nodes[r], nextId[r], f) = DOMAIN nodes[r] \cup {nextId[r]}
          /\ Range(Put(nodes[r], nextId[r], f)) \subseteq Range(nodes[r]) \cup {f}
      BY ONLY PutAndErase
    <3>3. nextId' \in [Rooms -> 1 .. MaxNodes + 1] /\ DOMAIN nodes' = Rooms /\ DOMAIN ids' = Rooms
      BY <3>1
    <3>4. \A q \in Rooms : /\ DOMAIN nodes'[q] \subseteq 1 .. nextId'[q] - 1
                           /\ ids'[q] \subseteq 1 .. nextId'[q] - 1
      <4>1. nextId[r] \in 1 .. nextId[r] + 1 - 1 /\ 1 .. nextId[r] - 1 \subseteq 1 .. nextId[r] + 1 - 1
        BY <1>0
      <4>2. nextId'[r] = nextId[r] + 1 /\ nodes'[r] = Put(nodes[r], nextId[r], f)
            /\ ids'[r] = ids[r] \cup {nextId[r]}
        BY <1>0, <3>1
      <4>3. \A q \in Rooms \ {r} : UNCHANGED <<nextId[q], nodes[q], ids[q]>>
        BY <3>1
      <4>4. QED
        BY <3>2, <4>1, <4>2, <4>3
    <3>5. \A q \in Rooms : /\ Range(nodes'[q]) \subseteq Fds
                           /\ nodes'[q] # <<>> => q \in DOMAIN members
      BY <1>0, <2>1, <3>1, <3>2
    <3>6. HouseTypeOK' /\ HouseInPlace'
      BY <2>1, <3>3, <3>4, <3>5
    <3>7. QED
      BY <2>2, <3>6
  <2>4. CASE DelPic(f, r, id)
    <3>1. nodes' = [nodes EXCEPT ![r] = Erase(nodes[r], id)] /\ UNCHANGED <<nextId, ids>>
      BY <2>4 DEF DelPic
    <3>2. /\ DOMAIN Erase(nodes[r], id) \subseteq DOMAIN nodes[r]
          /\ Range(Erase(nodes[r], id)) \subseteq Range(nodes[r])
      BY ONLY DEF Erase, Range
    <3>3. \A q \in Rooms : /\ DOMAIN nodes'[q] \subseteq DOMAIN nodes[q]
                           /\ Range(nodes'[q]) \subseteq Range(nodes[q])
                           /\ nodes'[q] # <<>> => q \in DOMAIN members
      BY <1>0, <2>1, <3>1, <3>2
    <3>4. HouseTypeOK' /\ HouseInPlace'
      BY <2>1, <3>1, <3>3
    <3>5. QED
      BY <2>2, <3>4
  <2>5. CASE UpdateNode(f, r, id) \/ ChangeLayer(f, r, id)
    <3>1. UNCHANGED <<nodes, nextId, ids>>
      BY <2>5 DEF UpdateNode, ChangeLayer
    <3>2. HouseTypeOK' /\ HouseInPlace'
      BY <2>1, <3>1
    <3>3. QED
      BY <2>2, <3>2
  <2>6. QED
    BY <1>7, <2>3, <2>4, <2>5
<1>8. CASE UNCHANGED <<vars, house>>
  BY <1>8 DEF vars, RoomsTypeOK, ThreadsInPlace, Seated
<1>9. QED
  <2>1. ASSUME NEW f \in Fds, NEW r \in Rooms, AddPic(f, r) PROVE Inv'
    <3>1. nextId[r] \in Nat /\ nextId[r] <= MaxNodes /\ nextId[r] >= 1
      BY <1>0, <2>1 DEF AddPic
    <3>2. nextId[r] \in 1 .. MaxNodes
      BY <3>1
    <3>3. QED
      BY <1>7, <2>1, <3>2
  <2>2. QED
    BY <1>1, <1>2, <1>3, <1>4, <1>5, <1>6, <1>7, <1>8, <2>1, HouseSteps

\* BuildHouse!HouseTypeOK is an invariant, and so is what ClassRoom says of
\* types: pictures have numbers below the counter, and rooms with pictures have
\* a group.
THEOREM HouseTypeCorrect ==
    HouseSpec => [](RoomsTypeOK /\ ThreadsInPlace /\ HouseTypeOK /\ HouseInPlace)
<1>1. HouseInit => RoomsTypeOK /\ ThreadsInPlace /\ HouseTypeOK /\ HouseInPlace
  <2> SUFFICES ASSUME HouseInit PROVE RoomsTypeOK /\ ThreadsInPlace /\ HouseTypeOK /\ HouseInPlace
    OBVIOUS
  <2>1. Init
    BY DEF HouseInit
  <2>2. DOMAIN <<>> = {} /\ Range(<<>>) = {}
    BY DEF Range
  <2>3. nextId \in [Rooms -> 1 .. MaxNodes + 1]
    BY BuildHouseAssumption DEF HouseInit
  <2>4. HouseTypeOK
    BY <2>1, <2>2, <2>3 DEF HouseInit, HouseTypeOK, Init
  <2>5. HouseInPlace
    BY <2>1, <2>2 DEF HouseInit, HouseInPlace, Init
  <2>6. QED
    BY <2>1, <2>4, <2>5, InitIsTyped DEF TypeOK
<1>2. QED
  BY <1>1, HouseKeepsTypes, PTL DEF HouseSpec

\* BuildHouse!IdsAreFresh holds: the counter is ahead of every number it has
\* given, for houses of any size.
THEOREM IdsAreNotReused == HouseSpec => IdsAreFresh
<1> DEFINE Fresh == \A r \in Rooms : \A id \in DOMAIN nodes'[r] \ DOMAIN nodes[r] : id \notin ids[r]
<1>1. HouseTypeOK /\ HouseInPlace /\ [HouseNext]_<<vars, house>> => [Fresh]_<<vars, house>>
  <2> SUFFICES ASSUME HouseTypeOK, HouseInPlace, [HouseNext]_<<vars, house>>
               PROVE  Fresh \/ UNCHANGED <<vars, house>>
    OBVIOUS
  <2>0. DOMAIN nodes = Rooms /\ nextId \in [Rooms -> Nat]
    BY BuildHouseAssumption DEF HouseTypeOK
  <2>1. CASE \E f \in Fds, r \in Rooms : AddPic(f, r)
    <3>1. PICK f \in Fds, q \in Rooms : AddPic(f, q)
      BY <2>1
    <3>2. nodes' = [nodes EXCEPT ![q] = Put(nodes[q], nextId[q], f)]
      BY <3>1 DEF AddPic, NewId
    <3>3. DOMAIN nodes'[q] = DOMAIN nodes[q] \cup {nextId[q]}
      BY <2>0, <3>2 DEF Put
    <3>4. nextId[q] \notin ids[q]
      BY <2>0 DEF HouseInPlace
    <3>5. QED
      BY <2>0, <3>2, <3>3, <3>4
  <2>2. CASE \E f \in Fds, r \in Rooms, id \in 1 .. MaxNodes : DelPic(f, r, id)
    <3>1. PICK f \in Fds, q \in Rooms, id \in 1 .. MaxNodes : DelPic(f, q, id)
      BY <2>2
    <3>2. nodes' = [nodes EXCEPT ![q] = Erase(nodes[q], id)]
      BY <3>1 DEF DelPic
    <3>3. \A r \in Rooms : DOMAIN nodes'[r] \subseteq DOMAIN nodes[r]
      BY <2>0, <3>2 DEF Erase
    <3>4. QED
      BY <3>3
  <2>3. CASE UNCHANGED nodes
    BY <2>3
  <2>4. UNCHANGED nodes \/ \E f \in Fds, r \in Rooms :
           AddPic(f, r) \/ \E id \in 1 .. MaxNodes : DelPic(f, r, id)
    BY HouseSteps DEF HouseClassroomStep, HouseStart, Found, FoundDangling, Founded, WildCopy,
       StopsHouse, UpdateNode, ChangeLayer, house, houses, histories
  <2>5. QED
    BY <2>1, <2>2, <2>3, <2>4
<1>2. QED
  BY <1>1, HouseTypeCorrect, PTL DEF HouseSpec, IdsAreFresh

\* Whoever sat in the room at the start, and still does, is in the group or yet
\* to come.
LEMMA HouseKeepsJoining ==
    ASSUME RoomsTypeOK, ThreadsInPlace, HouseTypeOK, HouseInPlace, SeatedAreJoining,
           [HouseNext]_<<vars, house>>
    PROVE  SeatedAreJoining'
<1> USE DEF SeatedAreJoining, room, peer, sent, rt, ev, house, houses, histories
<1>0. /\ DOMAIN seat = Rooms /\ \A r \in Rooms : Seated(r) \in SUBSET Fds
      /\ rtAt # NoFd => rtRoom \in Rooms /\ rtAt \in Fds
  BY DEF RoomsTypeOK, ThreadsInPlace
<1>1. CASE HouseClassroomStep
  <2>1. UNCHANGED rt \/ rtPc' # "found"
    BY <1>1, StepStaysInClass DEF HouseClassroomStep
  <2>2. QED
    BY <1>1, <2>1 DEF HouseClassroomStep, Seated
<1>2. ASSUME NEW f \in Fds, HouseStart(f) PROVE SeatedAreJoining'
  <2>1. /\ rtRoom' = RoomOf(f) /\ rtAt' = Least(Seated(RoomOf(f)))
        /\ present' = Seated(RoomOf(f)) /\ UNCHANGED seat
    BY <1>2 DEF HouseStart, Seated
  <2>2. RoomOf(f) \in Rooms
    BY <1>2, RoomOfKnows DEF HouseStart
  <2>3. \A g \in present' : rtAt' # NoFd /\ rtAt' <= g
    BY <1>0, <2>1, <2>2, LeastIsFirst
  <2>4. present' \subseteq Seated(rtRoom)'
    BY <2>1 DEF Seated
  <2>5. QED
    BY <2>3, <2>4
<1>3. CASE Found
  <2>1. /\ rtPc = "found" /\ rtRoom \in Rooms /\ rtAt \in Seated(rtRoom) /\ rtAt \in Fds
        /\ founding' = IF seat[rtRoom][rtAt] = Null THEN founding ELSE founding \cup {rtAt}
        /\ rtAt' = After(Seated(rtRoom), rtAt)
        /\ UNCHANGED <<seat, rtPc, rtRoom, present, astray>>
    BY <1>0, <1>3 DEF Found, Founding
  <2>2. founding' = founding \cup {rtAt}
    BY <2>1 DEF HouseInPlace, Range, Seated
  <2>3. CASE ~astray
    <3>1. present \subseteq Seated(rtRoom)
      BY <2>1, <2>3
    <3>2. ASSUME NEW g \in present, g \notin founding, g # rtAt
          PROVE  rtAt' # NoFd /\ rtAt' <= g
      <4>1. rtAt <= g /\ g \in Seated(rtRoom)
        BY <2>1, <2>3, <3>1, <3>2
      <4>2. QED
        BY <1>0, <2>1, <3>2, <4>1, AfterIsNext
    <3>3. QED
      BY <2>1, <2>2, <3>1, <3>2 DEF Seated
  <2>4. CASE astray
    BY <2>1, <2>4
  <2>5. QED
    BY <2>3, <2>4
<1>4. CASE FoundDangling
  BY <1>4 DEF FoundDangling, StopsHouse, Stops, Seated
<1>5. CASE Founded
  BY <1>5 DEF Founded
<1>6. ASSUME NEW f \in Fds, NEW r \in Rooms, WildCopy(f, r) PROVE SeatedAreJoining'
  BY <1>6 DEF WildCopy, StopsHouse, Stops, Seated
<1>7. ASSUME NEW f \in Fds, NEW r \in Rooms, NEW id,
             AddPic(f, r) \/ DelPic(f, r, id) \/ UpdateNode(f, r, id) \/ ChangeLayer(f, r, id)
      PROVE  SeatedAreJoining'
  BY <1>7, HouseRequest
<1>8. CASE UNCHANGED <<vars, house>>
  BY <1>8 DEF vars, Seated
<1>9. QED
  BY <1>1, <1>2, <1>3, <1>4, <1>5, <1>6, <1>7, <1>8, HouseSteps

\* BuildHouse!AllSeatedJoin holds: in a room of any size the walk of a start
\* misses nobody who stays, unless it was at a student who went.
THEOREM EverybodySeatedJoins == HouseSpec => AllSeatedJoin
<1> DEFINE Joins == \A r \in Rooms : Founded /\ rtRoom = r /\ r \notin DOMAIN members /\ ~astray
                                       => present \subseteq members'[r]
<1>1. HouseInit => SeatedAreJoining
  BY DEF HouseInit, Init, SeatedAreJoining
<1>2. SeatedAreJoining => [Joins]_<<vars, house>>
  <2> SUFFICES ASSUME SeatedAreJoining, NEW r \in Rooms,
                      Founded, rtRoom = r, r \notin DOMAIN members, ~astray
               PROVE  present \subseteq members'[r]
    OBVIOUS
  <2>1. present \subseteq founding
    BY DEF SeatedAreJoining, Founded
  <2>2. members' = AddGroup(members, r, founding)
    BY DEF Founded
  <2>3. members'[r] = founding
    BY <2>2 DEF AddGroup
  <2>4. QED
    BY <2>1, <2>3
<1>3. QED
  BY <1>1, <1>2, HouseKeepsJoining, HouseTypeCorrect, PTL DEF HouseSpec, AllSeatedJoin

-----------------------------------------------------------------------------
(* What the classroom promises, with the games in it.                      *)

\* The house changes neither the rooms nor what Evloop is doing there.
LEMMA HouseForgetsBehind ==
    ASSUME RoomsTypeOK, ThreadsInPlace, SeatUnique, ForgottenBehind, [HouseNext]_<<vars, house>>
    PROVE  SeatUnique' /\ ForgottenBehind'
<1>1. CASE UNCHANGED <<room, conn, strays, ev>>
  BY <1>1 DEF SeatUnique, ForgottenBehind, Seated, Knows, room, ev
<1>2. CASE HouseClassroomStep
  BY <1>2, StepKeepsSeatsUnique, StepForgetsBehind DEF HouseClassroomStep
<1>3. CASE Found \/ FoundDangling \/ Founded \/ \E f \in Fds : HouseStart(f)
  BY <1>1, <1>3 DEF HouseStart, Serve, Found, FoundDangling, Founded, StopsHouse, Stops, peer
<1>4. ASSUME NEW f \in Fds, NEW r \in Rooms, WildCopy(f, r) PROVE SeatUnique' /\ ForgottenBehind'
  BY <1>1, <1>4 DEF WildCopy, StopsHouse, Stops, peer
<1>5. ASSUME NEW f \in Fds, NEW r \in Rooms, NEW id,
             AddPic(f, r) \/ DelPic(f, r, id) \/ UpdateNode(f, r, id) \/ ChangeLayer(f, r, id)
      PROVE  SeatUnique' /\ ForgottenBehind'
  BY <1>1, <1>5, HouseRequest
<1>6. CASE UNCHANGED <<vars, house>>
  BY <1>1, <1>6 DEF vars, peer
<1>7. QED
  BY <1>2, <1>3, <1>4, <1>5, <1>6, HouseSteps

\* ClassRoom!SeatUnique and ClassRoom!GoneIsForgotten stay true while houses are
\* built: a room's group outlives disconnects, its seats do not.
THEOREM HouseLeavesRooms == HouseSpec => [](SeatUnique /\ GoneIsForgotten)
<1>1. HouseInit => SeatUnique /\ ForgottenBehind
  BY EmptyMap DEF HouseInit, Init, SeatUnique, ForgottenBehind, Knows, Seated, Range
<1>2. ForgottenBehind => GoneIsForgotten
  BY DEF ForgottenBehind, GoneIsForgotten, RoomsOf
<1>3. QED
  BY <1>1, <1>2, HouseForgetsBehind, HouseTypeCorrect, PTL DEF HouseSpec

\* BuildHouse!OrphansNeedHeir holds: who moves a picture is known to a room, and
\* by HouseLeavesRooms a room knows of the clients that have gone only strays
\* and the one del_client is at.
THEOREM OrphansAreLeftAlone == HouseSpec => OrphansNeedHeir
<1>1. GoneIsForgotten
        => [\A f \in Fds, r \in Rooms : \A id \in orphans[r] :
               UpdateNode(f, r, id) => f \in conn \cup strays \cup {evFd}]_<<vars, house>>
  BY DEF UpdateNode, AloneInHouse, InHouse, GoneIsForgotten
<1>2. QED
  BY <1>1, HouseLeavesRooms, PTL DEF HouseSpec, OrphansNeedHeir

\* The end of a puzzle game may give a client that has gone a seat, and then
\* strays has it.
LEMMA PuzzleForgetsBehind ==
    ASSUME RoomsTypeOK, ThreadsInPlace, PuzzleTypeOK, ForgottenBehind, [PuzzleNext]_<<vars, puzzle>>
    PROVE  ForgottenBehind'
<1>1. CASE UNCHANGED <<room, conn, strays, ev>>
  BY <1>1 DEF ForgottenBehind, Seated, Knows, room, ev
<1>2. CASE ClassroomStep
  BY <1>2, StepForgetsBehind DEF ClassroomStep
<1>3. ASSUME NEW f \in Fds, GameStart(f) \/ GameStartNowhere(f) \/ EndOwn(f) \/ EndAll(f)
      PROVE  ForgottenBehind'
  BY <1>1, <1>3 DEF GameStart, Broadcast, GameStartNowhere, EndOwn, EndAll, Serve
<1>4. CASE Started \/ StartClock \/ StartDangling \/ AllStarted \/ EndNull \/ AllEnded
  BY <1>1, <1>4 DEF Started, StartClock, StartDangling, AllStarted, EndNull, AllEnded, StopsGame, Stops, peer
<1>5. CASE EndClock
  <2>1. /\ rtRoom \in Rooms /\ rtAt \in Fds /\ DOMAIN seat = Rooms
        /\ UNCHANGED <<teacherFd, teacherName, whiteFd, peer, ev>>
        /\ \/ UNCHANGED <<seat, strays>>
           \/ /\ seat' = [seat EXCEPT ![rtRoom] = Put(seat[rtRoom], rtAt, Null)]
              /\ strays' = IF rtAt \in conn THEN strays ELSE strays \cup {rtAt}
    BY <1>5 DEF EndClock, Ending, Learns, RoomsTypeOK, ThreadsInPlace
  <2>2. CASE UNCHANGED <<seat, strays>>
    BY <1>1, <2>1, <2>2 DEF room, peer
  <2>3. CASE ~UNCHANGED <<seat, strays>>
    <3>1. \A r \in Rooms : DOMAIN seat'[r] \subseteq DOMAIN seat[r] \cup {rtAt}
      BY <2>1, <2>3 DEF Put
    <3>2. \A f \in Fds \ {rtAt}, r \in Rooms : Knows(r, f)' => Knows(r, f)
      BY <2>1, <3>1 DEF Knows, Seated
    <3>3. rtAt \in conn \cup strays' /\ strays \subseteq strays' /\ UNCHANGED conn
      BY <2>1, <2>3 DEF peer
    <3>4. QED
      BY <2>1, <3>2, <3>3 DEF ForgottenBehind, ev
  <2>4. QED
    BY <2>2, <2>3
<1>6. QED
  BY <1>2, <1>3, <1>4, <1>5, PuzzleSteps

\* ClassRoom!GoneIsForgotten stays true while puzzles are played, although the
\* end of a game inserts seats.
THEOREM PuzzleForgetsTheGone == PuzzleSpec => []GoneIsForgotten
<1>1. PuzzleInit => ForgottenBehind
  BY EmptyMap DEF PuzzleInit, Init, ForgottenBehind, Knows, Seated, Range
<1>2. ForgottenBehind => GoneIsForgotten
  BY DEF ForgottenBehind, GoneIsForgotten, RoomsOf
<1>3. QED
  BY <1>1, <1>2, PuzzleForgetsBehind, PuzzleTypeCorrect, PTL DEF PuzzleSpec

=============================================================================
