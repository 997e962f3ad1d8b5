------------------------------- MODULE Puzzle -------------------------------
(***************************************************************************)
(* The puzzle game, composed with ClassRoom.  A room keeps a map from      *)
(* descriptors to clocks, m_puzzle_map, next to its map of students.  Only *)
(* RecvTask uses it, and no disconnect and no reset removes an entry, so   *)
(* the two maps drift apart; operator[] then puts NULL into either.        *)
(***************************************************************************)
EXTENDS ClassRoom

VARIABLES
    clock,      \* m_puzzle_map of each room
    game,       \* what the request at hand does: "none", "start", "end"
    scores,     \* the students whose times puzzle_end has written so far
    deserted,   \* history: a player lost the seat before the clock was read
    bystander   \* history: somebody without a clock has ended the game

puzzle == <<clock, game, scores, deserted, bystander>>

NullClock == "null"

PuzzleInit ==
    /\ Init
    /\ clock = [r \in Rooms |-> <<>>]
    /\ game = "none" /\ scores = {}
    /\ deserted = FALSE /\ bystander = FALSE

\* A student with a clock is no longer in the map of students.
Deserts == \E r \in Rooms : \E f \in DOMAIN clock[r] : f \in Seated(r) \ DOMAIN seat'[r]

StopsGame(how) == Stops(how) /\ UNCHANGED puzzle

-----------------------------------------------------------------------------
(* CT_Puzzle_GameStart                                                     *)

\* postTeacherToAllStudent walks over the students first.
GameStart(f) ==
    /\ game = "none"
    /\ Broadcast(f)
    /\ game' = "start"
    /\ UNCHANGED <<clock, scores, deserted, bystander>>

\* Somebody in no room asks: the Buf has been freed all the same.
GameStartNowhere(f) ==
    /\ game = "none"
    /\ Serve(f)
    /\ RoomsOf(f) = {}
    /\ rtPc' = "broadcast" /\ rtAt' = NoFd
    /\ game' = "start"
    /\ UNCHANGED <<room, sent, rtRoom, rtList, strays,
                   clock, scores, deserted, bystander>>

\* The freed Buf is asked for its client, which may be the asker, whoever
\* else Evloop has used the Buf for since, or one of no room.
Started ==
    /\ Running /\ rtPc = "broadcast" /\ rtAt = NoFd /\ game = "start"
    /\ game' = "none"
    /\ \/ \E g \in Fds :
             /\ RoomsOf(g) # {}
             /\ rtPc' = "start" /\ rtRoom' = RoomOf(g)
             /\ rtAt' = Least(Seated(RoomOf(g)))
       \/ rtPc' = "idle" /\ rtRoom' = 1 /\ UNCHANGED rtAt
    /\ UNCHANGED <<room, peer, sent, rtList, ev, strays, overlap, status,
                   clock, scores, deserted, bystander>>

\* Mutant of Insert: the entry is made, but not the clock.
InsertNull(map, f) == IF f \in DOMAIN map THEN map ELSE Put(map, f, NullClock)

\* map::insert leaves an entry alone that is already there.
Insert(map, f) == IF f \in DOMAIN map THEN map ELSE Put(map, f, "running")

Clocking == Running /\ rtPc = "start" /\ rtAt # NoFd

\* puzzle_start, one student.
StartClock ==
    /\ Clocking
    /\ rtAt \in Seated(rtRoom)
    /\ clock' = [clock EXCEPT ![rtRoom] = Insert(@, rtAt)]
    /\ rtAt' = After(Seated(rtRoom), rtAt)
    /\ UNCHANGED <<room, peer, sent, rtPc, rtRoom, rtList, ev, strays, overlap, status,
                   game, scores, deserted, bystander>>

\* Evloop has erased the student the iterator is at.
StartDangling ==
    /\ Clocking
    /\ rtAt \notin Seated(rtRoom)
    /\ \/ StopsGame("crashed")
       \/ /\ rtAt' \in {NoFd} \cup {k \in Seated(rtRoom) : k > rtAt}
          /\ UNCHANGED <<room, peer, sent, rtPc, rtRoom, rtList, ev, strays, overlap,
                         status, puzzle>>

AllStarted ==
    /\ Running /\ rtPc = "start" /\ rtAt = NoFd
    /\ rtPc' = "idle" /\ rtRoom' = 1
    /\ UNCHANGED <<room, peer, sent, rtList, rtAt, ev, strays, overlap, status, puzzle>>

-----------------------------------------------------------------------------
(* CT_Puzzle_EndGame                                                       *)

\* end_puzzle_by_fd, of a student or a whiteboard: a clock that does not
\* exist is looked up with operator[].
EndOwn(f) ==
    /\ game = "none"
    /\ Serve(f)
    /\ RoomsOf(f) # {}
    /\ LET r == RoomOf(f)
           c == IF f \in DOMAIN clock[r] /\ clock[r][f] # NullClock THEN "ended" ELSE NullClock
       IN /\ f # teacherFd[r]
          /\ clock' = [clock EXCEPT ![r] = Put(@, f, c)]
          /\ bystander' = (bystander \/ f \notin DOMAIN clock[r])
    /\ UNCHANGED <<room, sent, rt, strays, game, scores, deserted>>

\* Mutant of Clocks: the teacher is timed, too.
ClocksOfAll(r) == DOMAIN clock[r] \cup {teacherFd[r]}

\* The keys puzzle_end walks over.
Clocks(r) == DOMAIN clock[r]

\* puzzle_end, of the teacher.
EndAll(f) ==
    /\ game = "none"
    /\ Serve(f)
    /\ RoomsOf(f) # {}
    /\ f = teacherFd[RoomOf(f)]
    /\ game' = "end" /\ scores' = {}
    /\ rtPc' = "end" /\ rtRoom' = RoomOf(f)
    /\ rtAt' = Least(Clocks(rtRoom'))
    /\ UNCHANGED <<room, sent, rtList, strays, clock, deserted, bystander>>

Ending == Running /\ rtPc = "end"

EndNull ==
    /\ Ending /\ rtAt \in DOMAIN clock[rtRoom]
    /\ clock[rtRoom][rtAt] = NullClock
    /\ StopsGame("null clock")

\* One clock is stopped and its student looked up with operator[].
EndClock ==
    /\ Ending /\ rtAt # NoFd
    /\ rtAt \in DOMAIN clock[rtRoom] => clock[rtRoom][rtAt] # NullClock
    /\ clock' = [clock EXCEPT ![rtRoom] = Put(@, rtAt, "ended")]
    /\ IF rtAt \in Seated(rtRoom)
       THEN UNCHANGED <<seat, strays>>
       ELSE /\ seat' = [seat EXCEPT ![rtRoom] = Put(@, rtAt, Null)]
            /\ Learns(rtAt)
    /\ scores' = IF seat'[rtRoom][rtAt] = Null THEN scores ELSE scores \cup {rtAt}
    /\ rtAt' = After(Clocks(rtRoom), rtAt)
    /\ UNCHANGED <<teacherFd, teacherName, whiteFd, peer, sent, rtPc, rtRoom, rtList, ev,
                   overlap, status, game, deserted, bystander>>

\* Mutant of AllEnded: the next end appends to the scores of this one.
AllEndedKeepsScores ==
    /\ Ending /\ rtAt = NoFd
    /\ rtPc' = "idle" /\ rtRoom' = 1
    /\ game' = "none" /\ UNCHANGED scores
    /\ UNCHANGED <<room, peer, sent, rtList, rtAt, ev, strays, overlap, status,
                   clock, deserted, bystander>>

\* The scores go to the whiteboard, if there is one.
AllEnded ==
    /\ Ending /\ rtAt = NoFd
    /\ rtPc' = "idle" /\ rtRoom' = 1
    /\ game' = "none" /\ scores' = {}
    /\ UNCHANGED <<room, peer, sent, rtList, rtAt, ev, strays, overlap, status,
                   clock, deserted, bystander>>

-----------------------------------------------------------------------------
\* What ClassRoom says of a request goes on as long as it is not the puzzle's;
\* the broadcast of a start is ClassRoom's but for its end.
Classroom(step) ==
    /\ step
    /\ deserted' = (deserted \/ Deserts)
    /\ UNCHANGED <<clock, game, scores, bystander>>

PuzzleTaskStep ==
    \/ \E f \in Fds : GameStart(f) \/ GameStartNowhere(f) \/ EndOwn(f) \/ EndAll(f)
    \/ Started \/ StartClock \/ StartDangling \/ AllStarted
    \/ EndNull \/ EndClock \/ AllEnded
    \/ Classroom(RecvTaskStep /\ ~(game = "start" /\ RtWalked))

PuzzleNext == Classroom(Clients) \/ Classroom(EvloopStep) \/ PuzzleTaskStep \/ (Stopped /\ UNCHANGED puzzle)

PuzzleSpec ==
    /\ PuzzleInit /\ [][PuzzleNext]_<<vars, puzzle>>
    /\ WF_<<vars, puzzle>>(Classroom(EvloopStep)) /\ WF_<<vars, puzzle>>(PuzzleTaskStep)

-----------------------------------------------------------------------------
(* What holds.                                                             *)

\* The maps of a room keep their types; scores are those of the end at hand.
PuzzleTypeOK ==
    /\ DOMAIN clock = Rooms
    /\ \A r \in Rooms : /\ DOMAIN clock[r] \subseteq Fds
                        /\ Range(clock[r]) \subseteq {"running", "ended", NullClock}
    /\ game = "end" <=> rtPc = "end"
    /\ scores \subseteq Fds
    /\ scores # {} => game = "end"

\* A walk over the students meets NULL only if a player lost the seat, by a
\* disconnect or a reset of the room, before the teacher ended the game: the
\* one sequence of requests that makes m_student_map[...] insert.
NullSeatNeedsDeserter == status = "null seat" => deserted

\* The teacher's end of the game meets a NULL clock only if somebody ended a
\* game without having been there at its start.
NullClockNeedsBystander == status = "null clock" => bystander

\* The walk over the clocks keeps its place.
ClocksStay ==
    rtPc = "end" => rtRoom \in Rooms /\ rtAt \in DOMAIN clock[rtRoom] \cup {NoFd}

\* Without a deserter each clock is that of a student with a seat.
PlayersAreSeated ==
    \/ deserted
    \/ /\ status # "null seat"
       /\ \A r \in Rooms :
             /\ Null \notin Range(seat[r])
             /\ \A f \in DOMAIN clock[r] : clock[r][f] # NullClock => f \in Seated(r)

\* Without a bystander each clock was started.
ClocksWereStarted ==
    \/ bystander
    \/ status # "null clock" /\ \A r \in Rooms : NullClock \notin Range(clock[r])

=============================================================================
