------------------------------- MODULE Courses -------------------------------
(***************************************************************************)
(* The courses of a classroom.  The teacher selects a group of courses,    *)
(* which RecvTask reads from the database into m_course_list; later        *)
(* requests walk over the list.  A logout or a disconnect of the teacher   *)
(* resets the room and clears the list, the disconnect on Evloop's thread, *)
(* which shares no lock with RecvTask.                                     *)
(*                                                                         *)
(* There is one room.  One operation on the list is one step.  An element  *)
(* is known by the selection it came with and its row in the result.       *)
(***************************************************************************)
EXTENDS Naturals, Sequences, SequencesExt

CONSTANTS
    Fds,        \* descriptors of clients
    Lengths,    \* how many courses a group may have
    Params,     \* courses the query for course items has room for (4)
    MaxSets     \* bound on the selections

ASSUME CoursesAssumption ==
    /\ Fds \subseteq Nat \ {0}
    /\ Lengths \subseteq Nat
    /\ Params \in Nat /\ MaxSets \in Nat

NoFd == 0
End  == <<0, 0>>    \* end()

VARIABLES
    \* the room: its teacher, its whiteboard, its students, its courses
    teacher, white, students, list,
    \* RecvTask: what it does, its iterator, the rows to come, the answer
    rtPc, rtAt, rows, answer,
    \* Evloop: likewise
    evPc, evAt,
    \* history: selections so far with their lengths, the one that counts
    \* (0 after a reset), whether it broke off, whether the other thread was
    \* at work at the same time
    lengths, current, broken, overlap,
    status

roomVars  == <<teacher, white, students, list>>
rt        == <<rtPc, rtAt, rows, answer>>
ev        == <<evPc, evAt>>
histories == <<lengths, current, broken, overlap>>
vars      == <<roomVars, rt, ev, histories, status>>

Running == status = "running"
Idle == Running /\ rtPc = "idle"

Crash == status' = "crashed" /\ UNCHANGED <<roomVars, rt, ev, histories>>

Begin(l) == IF l = <<>> THEN End ELSE l[1]

In(at) == at \in ToSet(list)

\* Where an element is that is in the list, and the element behind it.
Place(at)  == CHOOSE i \in DOMAIN list : list[i] = at
Behind(at) == IF Place(at) = Len(list) THEN End ELSE list[Place(at) + 1]

Erase(at) == list' = RemoveAt(list, Place(at))

Init ==
    /\ teacher = NoFd /\ white = NoFd /\ students = {} /\ list = <<>>
    /\ rtPc = "idle" /\ rtAt = End /\ rows = 0 /\ answer = <<>>
    /\ evPc = "idle" /\ evAt = End
    /\ lengths = <<>> /\ current = 0 /\ broken = FALSE /\ overlap = FALSE
    /\ status = "running"

-----------------------------------------------------------------------------
(* Who is in the room, in short.                                           *)

\* CT_LoginClassRoom: a teacher with another name replaces the one there is.
LoginClassRoom(f) ==
    /\ Idle
    /\ f # teacher
    /\ teacher' = f
    /\ UNCHANGED <<white, students, list, rt, ev, histories, status>>

\* get_room_by_fd
Knows(f) == f \in {teacher, white} \cup students

\* CT_SelectedClassRoom from a student.
SelectAsStudent(f) ==
    /\ Idle
    /\ ~Knows(f)
    /\ students' = students \cup {f}
    /\ UNCHANGED <<teacher, white, list, rt, ev, histories, status>>

\* CT_SelectedClassRoom from a whiteboard.
SelectAsWhite(f) ==
    /\ Idle
    /\ white' = f
    /\ UNCHANGED <<teacher, students, list, rt, ev, histories, status>>

-----------------------------------------------------------------------------
(* CT_SetCourseGroup and CT_LogoutClassRoom.                               *)

\* The query has brought n rows; the descriptor may be one that is closed.
SetCourseGroup(f, n) ==
    /\ Idle
    /\ Knows(f)
    /\ Len(lengths) < MaxSets
    /\ rtPc' = "clear" /\ rtAt' = Begin(list) /\ rows' = n
    /\ lengths' = Append(lengths, n)
    /\ current' = Len(lengths) + 1
    /\ broken' = FALSE /\ overlap' = (evPc # "idle")
    /\ UNCHANGED <<roomVars, answer, ev, status>>

\* reset: the students first.
LogoutClassRoom(f) ==
    /\ Idle
    /\ f = teacher
    /\ students' = {}
    /\ rtPc' = "reset" /\ rtAt' = Begin(list)
    /\ current' = 0 /\ broken' = FALSE /\ overlap' = (evPc # "idle")
    /\ UNCHANGED <<teacher, white, list, rows, answer, ev, lengths, status>>

Clearing == Running /\ rtPc \in {"clear", "reset"} /\ rtAt # End

\* Mutant of ClearOne: erase(it), and ++it afterwards.
ClearOneStays ==
    /\ Clearing /\ In(rtAt)
    /\ Erase(rtAt)
    /\ UNCHANGED <<teacher, white, students, rtPc, rtAt, rows, answer, ev, histories, status>>

\* delete, and erase(it++).
ClearOne ==
    /\ Clearing /\ In(rtAt)
    /\ rtAt' = Behind(rtAt)
    /\ Erase(rtAt)
    /\ UNCHANGED <<teacher, white, students, rtPc, rows, answer, ev, histories, status>>

\* Mutant of Cleared: the new courses come on top of the old ones.
ClearedNothing ==
    /\ Running /\ rtPc = "clear"
    /\ rtPc' = "rows" /\ rtAt' = End
    /\ UNCHANGED <<roomVars, rows, answer, ev, histories, status>>

Cleared ==
    /\ Running /\ rtPc = "clear" /\ rtAt = End
    /\ rtPc' = "rows"
    /\ UNCHANGED <<roomVars, rtAt, rows, answer, ev, histories, status>>

WasReset ==
    /\ Running /\ rtPc = "reset" /\ rtAt = End
    /\ teacher' = NoFd /\ white' = NoFd
    /\ rtPc' = "idle"
    /\ UNCHANGED <<students, list, rtAt, rows, answer, ev, histories, status>>

\* Mutant of AddCourse: each row is added twice.
AddCourseTwice ==
    /\ Running /\ rtPc = "rows" /\ rows > 0
    /\ LET c == <<Len(lengths), lengths[Len(lengths)] - rows + 1>>
       IN list' = list \o <<c, c>>
    /\ rows' = rows - 1
    /\ UNCHANGED <<teacher, white, students, rtPc, rtAt, answer, ev, histories, status>>

\* add_course, into the room that was found before.
AddCourse ==
    /\ Running /\ rtPc = "rows" /\ rows > 0
    /\ list' = Append(list, <<Len(lengths), lengths[Len(lengths)] - rows + 1>>)
    /\ rows' = rows - 1
    /\ UNCHANGED <<teacher, white, students, rtPc, rtAt, answer, ev, histories, status>>

RowsDone ==
    /\ Running /\ rtPc = "rows" /\ rows = 0
    /\ rtPc' = "idle"
    /\ UNCHANGED <<roomVars, rtAt, rows, answer, ev, histories, status>>

\* The database throws at a row: what there is stays.
RowsBreakOff ==
    /\ Running /\ rtPc = "rows" /\ rows > 0
    /\ broken' = TRUE
    /\ rtPc' = "idle" /\ rows' = 0
    /\ UNCHANGED <<roomVars, rtAt, answer, ev, lengths, current, overlap, status>>

-----------------------------------------------------------------------------
(* Walks that read.                                                        *)

\* CT_GetCourseGroup, CT_GetCourseItemCount and CT_GetCourseItem.
Ask(f, what) ==
    /\ Idle
    /\ rtPc' = what /\ answer' = <<>>
    /\ rtAt' = IF Knows(f) THEN Begin(list) ELSE End
    /\ overlap' = (overlap \/ evPc # "idle")
    /\ UNCHANGED <<roomVars, rows, ev, lengths, current, broken, status>>

Reading == Running /\ rtPc \in {"courses", "items"} /\ rtAt # End

\* There is no parameter for one course more.
TooMany == rtPc = "items" /\ Len(answer) = Params

ReadOne ==
    /\ Reading /\ In(rtAt) /\ ~TooMany
    /\ answer' = Append(answer, rtAt)
    /\ rtAt' = Behind(rtAt)
    /\ UNCHANGED <<roomVars, rtPc, rows, ev, histories, status>>

\* Evloop has erased the element RecvTask's iterator is at.
RtDangling ==
    /\ Clearing \/ Reading
    /\ ~In(rtAt)
    /\ \/ Crash
       \/ /\ rtAt' \in {End} \cup ToSet(list)
          /\ UNCHANGED <<roomVars, rtPc, rows, answer, ev, histories, status>>

AnswerCourses ==
    /\ Running /\ rtPc = "courses" /\ rtAt = End
    /\ rtPc' = "idle" /\ answer' = <<>>
    /\ UNCHANGED <<roomVars, rtAt, rows, ev, histories, status>>

AnswerItems ==
    /\ Running /\ rtPc = "items" /\ rtAt = End /\ Len(answer) = Params
    /\ rtPc' = "idle" /\ answer' = <<>>
    /\ UNCHANGED <<roomVars, rtAt, rows, ev, histories, status>>

\* A parameter too many, or one that was not set: SQLException, no answer.
ItemsThrow ==
    /\ Running /\ rtPc = "items"
    /\ \/ TooMany /\ rtAt # End
       \/ rtAt = End /\ Len(answer) < Params
    /\ rtPc' = "idle" /\ rtAt' = End /\ answer' = <<>>
    /\ UNCHANGED <<roomVars, rows, ev, histories, status>>

-----------------------------------------------------------------------------
(* Evloop: CRoom::del_client.                                              *)

DelOther(f) ==
    /\ Running /\ evPc = "idle"
    /\ f # teacher
    /\ IF f = white
       THEN white' = NoFd /\ UNCHANGED students
       ELSE students' = students \ {f} /\ UNCHANGED white
    /\ UNCHANGED <<teacher, list, rt, ev, histories, status>>

\* teacher_disconnect, its messages left out, and the students in reset.
DelTeacher ==
    /\ Running /\ evPc = "idle"
    /\ teacher # NoFd
    /\ students' = {}
    /\ evPc' = "reset" /\ evAt' = Begin(list)
    /\ current' = 0 /\ broken' = FALSE /\ overlap' = (rtPc # "idle")
    /\ UNCHANGED <<teacher, white, list, rt, lengths, status>>

\* Mutant of EvClearOne: the element after the erased one is skipped.
EvClearEveryOther ==
    /\ Running /\ evPc = "reset" /\ evAt # End /\ In(evAt)
    /\ evAt' = IF Behind(evAt) = End THEN End ELSE Behind(Behind(evAt))
    /\ Erase(evAt)
    /\ UNCHANGED <<teacher, white, students, rt, evPc, histories, status>>

EvClearOne ==
    /\ Running /\ evPc = "reset" /\ evAt # End /\ In(evAt)
    /\ evAt' = Behind(evAt)
    /\ Erase(evAt)
    /\ UNCHANGED <<teacher, white, students, rt, evPc, histories, status>>

EvDangling ==
    /\ Running /\ evPc = "reset" /\ evAt # End /\ ~In(evAt)
    /\ \/ Crash
       \/ /\ evAt' \in {End} \cup ToSet(list)
          /\ UNCHANGED <<roomVars, rt, evPc, histories, status>>

\* A student who has selected the room in the meantime stays.
EvWasReset ==
    /\ Running /\ evPc = "reset" /\ evAt = End
    /\ teacher' = NoFd /\ white' = NoFd
    /\ evPc' = "idle"
    /\ UNCHANGED <<students, list, rt, evAt, histories, status>>

-----------------------------------------------------------------------------
RecvTask ==
    \/ ClearOne \/ Cleared \/ WasReset \/ AddCourse \/ RowsDone \/ RowsBreakOff
    \/ ReadOne \/ RtDangling \/ AnswerCourses \/ AnswerItems \/ ItemsThrow

Evloop == EvClearOne \/ EvDangling \/ EvWasReset

Requests ==
    \E f \in Fds :
        \/ LoginClassRoom(f) \/ SelectAsStudent(f) \/ SelectAsWhite(f)
        \/ LogoutClassRoom(f) \/ DelOther(f)
        \/ \E n \in Lengths : SetCourseGroup(f, n)
        \/ \E what \in {"courses", "items"} : Ask(f, what)

Next == Requests \/ DelTeacher \/ RecvTask \/ Evloop \/ (~Running /\ UNCHANGED vars)

Spec == Init /\ [][Next]_vars /\ WF_vars(RecvTask) /\ WF_vars(Evloop)

-----------------------------------------------------------------------------
(* What holds.                                                             *)

Elements == (1 .. MaxSets) \X Nat

\* The variables keep their types, and no course is in the list twice.
TypeOK ==
    /\ {teacher, white} \subseteq Fds \cup {NoFd} /\ students \subseteq Fds
    /\ list \in Seq(Elements) /\ IsInjective(list)
    /\ rtPc \in {"idle", "clear", "reset", "rows", "courses", "items"}
    /\ evPc \in {"idle", "reset"}
    /\ rtAt \in Elements \cup {End} /\ evAt \in Elements \cup {End}
    /\ rows \in Nat /\ (rows > 0 => rtPc \in {"clear", "rows"})
    /\ rows > 0 => Len(lengths) > 0 /\ rows <= lengths[Len(lengths)]
    /\ answer \in Seq(Elements) /\ (answer # <<>> => rtPc \in {"courses", "items"})
    /\ lengths \in Seq(Lengths) /\ current \in 0 .. Len(lengths)
    /\ rtPc \in {"idle", "rows"} => rtAt = End

Selection(n) == IF n = 0 THEN <<>> ELSE [i \in 1 .. lengths[n] |-> <<n, i>>]

\* Between requests the list is the last selection, or empty after a reset,
\* unless the query broke off or the two threads were at the list at once: a
\* selection leaves nothing of what an earlier one, or an earlier accident, has
\* put there.
ListIsSelection ==
    Running /\ rtPc = "idle" /\ evPc = "idle" /\ ~broken /\ ~overlap
        => list = Selection(current)

\* No one is told a mixture of selections, or a part of one, unless the query
\* broke off or a reset overlapped.
AnswersAreWhole ==
    [][AnswerCourses /\ answer # <<>> /\ ~broken /\ ~overlap /\ evPc = "idle"
          => answer = Selection(current)]_vars

\* An iterator dangles only when both threads are at the list.
CrashNeedsOverlap == ~Running => overlap

\* What is in the list came with some selection; of the last one, what has been
\* read so far.
CoursesAreOld ==
    /\ Len(lengths) <= MaxSets
    /\ \A c \in ToSet(list) :
          /\ c[1] \in 1 .. Len(lengths) /\ c[2] >= 1
          /\ c[1] = Len(lengths) => c[2] + rows <= lengths[c[1]]

\* Without an overlap one thread is out of the list, and the other at the place
\* in its work that the list shows.
TurnsKeepCourses ==
    \/ overlap
    \/ /\ Running
       /\ evPc = "idle" \/ rtPc = "idle"
       /\ evPc = "reset" => evAt = Begin(list) /\ current = 0
       /\ rtPc \in {"clear", "reset"} => rtAt = Begin(list)
       /\ rtPc = "reset" => current = 0
       /\ rtPc = "clear" => /\ current = Len(lengths) /\ current > 0
                            /\ rows = lengths[current]
       /\ rtPc = "rows" => /\ current = Len(lengths) /\ current > 0
                           /\ rows <= lengths[current]
                           /\ list = [i \in 1 .. lengths[current] - rows |-> <<current, i>>]
       /\ rtPc \in {"idle", "courses", "items"} /\ evPc = "idle" /\ ~broken =>
              list = Selection(current)
       /\ rtPc \in {"courses", "items"} /\ rtAt = End => answer \in {<<>>, list}
       /\ rtPc \in {"courses", "items"} /\ rtAt # End =>
              /\ Len(answer) < Len(list) /\ rtAt = list[Len(answer) + 1]
              /\ \A i \in 1 .. Len(answer) : answer[i] = list[i]

=============================================================================
