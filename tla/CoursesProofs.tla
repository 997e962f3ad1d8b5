--------------------------- MODULE CoursesProofs ---------------------------
(***************************************************************************)
(* What TLAPS proves of Courses for all clients, sizes of groups and       *)
(* numbers of selections.                                                  *)
(***************************************************************************)
EXTENDS Courses, SequenceTheorems, TLAPS

-----------------------------------------------------------------------------
(* The list and its iterators.                                             *)

\* An erased element is gone, and those behind it move up.
LEMMA RemoveAtMovesUp ==
    ASSUME NEW S, NEW l \in Seq(S), NEW i \in 1 .. Len(l)
    PROVE  /\ RemoveAt(l, i) \in Seq(S)
           /\ Len(RemoveAt(l, i)) = Len(l) - 1
           /\ \A j \in 1 .. Len(l) - 1 :
                 RemoveAt(l, i)[j] = IF j < i THEN l[j] ELSE l[j + 1]
<1> DEFINE front == SubSeq(l, 1, i - 1)
           back  == SubSeq(l, i + 1, Len(l))
<1>1. /\ front \in Seq(S) /\ Len(front) = i - 1
      /\ \A j \in 1 .. i - 1 : front[j] = l[j]
  OBVIOUS
<1>2. /\ back \in Seq(S) /\ Len(back) = Len(l) - i
      /\ \A j \in 1 .. Len(l) - i : back[j] = l[i + j]
  OBVIOUS
<1>3. RemoveAt(l, i) = front \o back
  BY DEF RemoveAt
<1> HIDE DEF front, back
<1>4. Len(front \o back) = Len(l) - 1 /\ front \o back \in Seq(S)
  BY <1>1, <1>2
<1>5. ASSUME NEW j \in 1 .. Len(l) - 1
      PROVE  (front \o back)[j] = IF j < i THEN l[j] ELSE l[j + 1]
  <2>1. CASE j < i
    BY <1>1, <1>2, <2>1
  <2>2. CASE ~(j < i)
    <3>1. j - (i - 1) \in 1 .. Len(l) - i /\ i + (j - (i - 1)) = j + 1
      BY <2>2
    <3>2. (front \o back)[j] = back[j - (i - 1)]
      BY <1>1, <1>2, <2>2
    <3>3. QED
      BY <1>2, <2>2, <3>1, <3>2
  <2>3. QED
    BY <2>1, <2>2
<1>6. QED
  BY <1>3, <1>4, <1>5

\* An element is found where it is.
LEMMA PlaceOfElement ==
    ASSUME list \in Seq(Elements), IsInjective(list), NEW i \in 1 .. Len(list)
    PROVE  In(list[i]) /\ Place(list[i]) = i
<1>1. In(list[i])
  BY DEF In, ToSet
<1>2. Place(list[i]) \in DOMAIN list /\ list[Place(list[i])] = list[i]
  BY DEF Place
<1>3. QED
  BY <1>1, <1>2 DEF IsInjective

\* An element that is in the list has a place in it.
LEMMA PlaceIsInList ==
    ASSUME list \in Seq(Elements), NEW at, In(at)
    PROVE  Place(at) \in 1 .. Len(list) /\ list[Place(at)] = at
<1>1. \E i \in DOMAIN list : list[i] = at
  BY DEF In, ToSet
<1>2. QED
  BY <1>1 DEF Place

\* The element behind one in the list is in the list too, or it is end().
LEMMA BehindIsInList ==
    ASSUME list \in Seq(Elements), NEW at, In(at)
    PROVE  Behind(at) \in Elements \cup {End}
  BY PlaceIsInList DEF Behind

\* begin() is an element of the list, and end() of the empty one only.
LEMMA BeginIsFirst ==
    ASSUME list \in Seq(Elements), CoursesAreOld
    PROVE  /\ Begin(list) \in Elements \cup {End}
           /\ list = <<>> <=> Begin(list) = End
           /\ list # <<>> => 1 \in 1 .. Len(list) /\ Begin(list) = list[1]
<1>1. CASE list = <<>>
  BY <1>1 DEF Begin
<1>2. CASE list # <<>>
  <2>1. 1 \in 1 .. Len(list) /\ Begin(list) = list[1]
    BY <1>2 DEF Begin
  <2>2. list[1] \in Elements /\ list[1] \in ToSet(list)
    BY <2>1 DEF ToSet
  <2>3. list[1][2] >= 1
    BY <2>2 DEF CoursesAreOld
  <2>4. list[1] # End
    BY <2>3 DEF End
  <2>5. QED
    BY <1>2, <2>1, <2>2, <2>4
<1>3. QED
  BY <1>1, <1>2

\* Erasing an element leaves others, each once.
LEMMA EraseKeepsList ==
    ASSUME list \in Seq(Elements), IsInjective(list), NEW at, In(at), Erase(at)
    PROVE  /\ list' \in Seq(Elements) /\ IsInjective(list')
           /\ ToSet(list') \subseteq ToSet(list)
<1> DEFINE i == Place(at)
<1>1. i \in 1 .. Len(list)
  BY PlaceIsInList
<1>2. list' = RemoveAt(list, i)
  BY DEF Erase
<1> HIDE DEF i
<1>3. /\ list' \in Seq(Elements) /\ Len(list') = Len(list) - 1
      /\ \A j \in 1 .. Len(list) - 1 : list'[j] = IF j < i THEN list[j] ELSE list[j + 1]
  BY <1>1, <1>2, RemoveAtMovesUp
<1>4. IsInjective(list')
  <2> DEFINE from(j) == IF j < i THEN j ELSE j + 1
  <2>1. \A j \in 1 .. Len(list) - 1 : from(j) \in 1 .. Len(list) /\ list'[j] = list[from(j)]
    BY <1>1, <1>3
  <2>2. \A a, b \in 1 .. Len(list) : list[a] = list[b] => a = b
    BY DEF IsInjective
  <2>3. \A a, b \in 1 .. Len(list) - 1 : from(a) = from(b) => a = b
    BY <1>1
  <2>4. DOMAIN list' = 1 .. Len(list) - 1
    BY <1>3
  <2> HIDE DEF from
  <2>5. \A a, b \in 1 .. Len(list) - 1 : list'[a] = list'[b] => a = b
    BY <2>1, <2>2, <2>3
  <2>6. QED
    BY <2>4, <2>5 DEF IsInjective
<1>5. ToSet(list') \subseteq ToSet(list)
  BY <1>1, <1>3 DEF ToSet
<1>6. QED
  BY <1>3, <1>4, <1>5

\* A walk that erases the first element goes on to what is first then.
LEMMA EraseFromBegin ==
    ASSUME list \in Seq(Elements), IsInjective(list), CoursesAreOld, list # <<>>,
           Erase(Begin(list))
    PROVE  Behind(Begin(list)) = Begin(list')
<1>1. 1 \in 1 .. Len(list) /\ Begin(list) = list[1]
  BY BeginIsFirst
<1>2. Place(Begin(list)) = 1
  BY <1>1, PlaceOfElement
<1>3. list' = RemoveAt(list, 1)
  BY <1>2 DEF Erase
<1>4. /\ list' \in Seq(Elements) /\ Len(list') = Len(list) - 1
      /\ \A j \in 1 .. Len(list) - 1 : list'[j] = list[j + 1]
  <2>1. /\ list' \in Seq(Elements) /\ Len(list') = Len(list) - 1
        /\ \A j \in 1 .. Len(list) - 1 : list'[j] = IF j < 1 THEN list[j] ELSE list[j + 1]
    BY <1>1, <1>3, RemoveAtMovesUp
  <2>2. QED
    BY <2>1
<1>5. CASE Len(list) = 1
  BY <1>2, <1>4, <1>5 DEF Behind, Begin
<1>6. CASE Len(list) # 1
  <2>1. 1 \in 1 .. Len(list) - 1 /\ list' # <<>>
    BY <1>1, <1>4, <1>6
  <2>2. list'[1] = list[2]
    BY <1>4, <2>1
  <2>3. QED
    BY <1>2, <1>6, <2>1, <2>2 DEF Behind, Begin
<1>7. QED
  BY <1>5, <1>6

\* Adding an element a sequence does not have leaves all different.
LEMMA OneMore ==
    ASSUME NEW n \in Nat, NEW s, NEW t, NEW c,
           \A a, b \in 1 .. n : s[a] = s[b] => a = b,
           \A i \in 1 .. n : s[i] # c, \A i \in 1 .. n : t[i] = s[i], t[n + 1] = c
    PROVE  \A a, b \in 1 .. n + 1 : t[a] = t[b] => a = b
<1>1. \A i \in 1 .. n + 1 : i = n + 1 \/ i \in 1 .. n
  OBVIOUS
<1>2. QED
  BY <1>1

-----------------------------------------------------------------------------
\* Each step keeps the types, and the courses in the list different ones.
LEMMA StepIsTyped ==
    ASSUME TypeOK, CoursesAreOld
    PROVE  [Next]_vars => TypeOK' /\ CoursesAreOld'
<1> USE CoursesAssumption DEF TypeOK, Idle, Running, roomVars, rt, ev, histories
<1>0. ASSUME list' = list, rows' <= rows, rows' \in Nat, lengths' = lengths
      PROVE  CoursesAreOld'
  <2>1. \A i \in 1 .. Len(lengths) : lengths[i] \in Nat
    <3>1. \A i \in 1 .. Len(lengths) : lengths[i] \in Lengths
      OBVIOUS
    <3>2. QED
      BY <3>1
  <2>2. \A c \in ToSet(list) : c[2] \in Nat
    BY DEF ToSet, Elements
  <2>3. ASSUME NEW c \in ToSet(list), c[1] = Len(lengths) PROVE c[2] + rows' <= lengths[c[1]]
    <3>1. c[2] + rows <= lengths[c[1]] /\ c[1] \in 1 .. Len(lengths)
      BY <2>3 DEF CoursesAreOld
    <3>2. lengths[c[1]] \in Nat /\ c[2] \in Nat
      BY <2>1, <2>2, <3>1
    <3>3. QED
      BY <1>0, <3>1, <3>2
  <2>4. QED
    BY <1>0, <2>3 DEF CoursesAreOld
<1>1. ASSUME NEW f \in Fds, LoginClassRoom(f) \/ SelectAsStudent(f) \/ SelectAsWhite(f) \/ DelOther(f)
      PROVE  TypeOK' /\ CoursesAreOld'
  <2>1. TypeOK'
    BY <1>1 DEF LoginClassRoom, SelectAsStudent, SelectAsWhite, DelOther
  <2>2. CoursesAreOld'
    BY <1>0, <1>1 DEF LoginClassRoom, SelectAsStudent, SelectAsWhite, DelOther
  <2>3. QED
    BY <2>1, <2>2
<1>2. ASSUME NEW f \in Fds, LogoutClassRoom(f) PROVE TypeOK' /\ CoursesAreOld'
  <2>1. Begin(list) \in Elements \cup {End}
    BY BeginIsFirst
  <2>2. QED
    BY <1>0, <1>2, <2>1 DEF LogoutClassRoom
<1>3. ASSUME NEW f \in Fds, NEW n \in Lengths, SetCourseGroup(f, n)
      PROVE  TypeOK' /\ CoursesAreOld'
  <2>1. Begin(list) \in Elements \cup {End}
    BY BeginIsFirst
  <2>2. /\ lengths' = Append(lengths, n) /\ rows' = n /\ list' = list /\ current' = Len(lengths) + 1
        /\ Len(lengths) < MaxSets
    BY <1>3 DEF SetCourseGroup
  <2>3. /\ lengths' \in Seq(Lengths) /\ Len(lengths') = Len(lengths) + 1
        /\ lengths'[Len(lengths')] = n /\ n \in Nat
    BY <2>2
  <2>4. TypeOK'
    BY <1>3, <2>1, <2>2, <2>3 DEF SetCourseGroup
  <2>5. CoursesAreOld'
    BY <2>2, <2>3 DEF CoursesAreOld
  <2>6. QED
    BY <2>4, <2>5
<1>4. ASSUME NEW f \in Fds, NEW what \in {"courses", "items"}, Ask(f, what)
      PROVE  TypeOK' /\ CoursesAreOld'
  <2>1. Begin(list) \in Elements \cup {End}
    BY BeginIsFirst
  <2>2. QED
    BY <1>0, <1>4, <2>1 DEF Ask
<1>5. ASSUME DelTeacher PROVE TypeOK' /\ CoursesAreOld'
  <2>1. Begin(list) \in Elements \cup {End}
    BY BeginIsFirst
  <2>2. QED
    BY <1>0, <1>5, <2>1 DEF DelTeacher
<1>6. ASSUME ClearOne PROVE TypeOK' /\ CoursesAreOld'
  <2>1. Behind(rtAt) \in Elements \cup {End}
    BY <1>6, BehindIsInList DEF ClearOne
  <2>2. /\ list' \in Seq(Elements) /\ IsInjective(list')
        /\ ToSet(list') \subseteq ToSet(list)
    BY <1>6, EraseKeepsList DEF ClearOne
  <2>3. TypeOK'
    BY <1>6, <2>1, <2>2 DEF ClearOne, Clearing
  <2>4. CoursesAreOld'
    BY <1>6, <2>2 DEF ClearOne, CoursesAreOld
  <2>5. QED
    BY <2>3, <2>4
<1>7. ASSUME EvClearOne PROVE TypeOK' /\ CoursesAreOld'
  <2>1. Behind(evAt) \in Elements \cup {End}
    BY <1>7, BehindIsInList DEF EvClearOne
  <2>2. /\ list' \in Seq(Elements) /\ IsInjective(list')
        /\ ToSet(list') \subseteq ToSet(list)
    BY <1>7, EraseKeepsList DEF EvClearOne
  <2>3. TypeOK'
    BY <1>7, <2>1, <2>2 DEF EvClearOne
  <2>4. CoursesAreOld'
    BY <1>7, <2>2 DEF EvClearOne, CoursesAreOld
  <2>5. QED
    BY <2>3, <2>4
<1>8. ASSUME Cleared \/ WasReset \/ RowsDone PROVE TypeOK' /\ CoursesAreOld'
  <2>1. TypeOK'
    <3>1. CASE Cleared
      BY <3>1 DEF Cleared
    <3>2. CASE WasReset
      BY <3>2 DEF WasReset
    <3>3. CASE RowsDone
      BY <3>3 DEF RowsDone
    <3>4. QED
      BY <1>8, <3>1, <3>2, <3>3
  <2>2. CoursesAreOld'
    BY <1>0, <1>8 DEF Cleared, WasReset, RowsDone
  <2>3. QED
    BY <2>1, <2>2
<1>9. ASSUME AddCourse PROVE TypeOK' /\ CoursesAreOld'
  <2> DEFINE last == Len(lengths)
             c == <<last, lengths[last] - rows + 1>>
  <2>1. /\ rows > 0 /\ rows' = rows - 1 /\ list' = Append(list, c)
        /\ UNCHANGED <<teacher, white, students, rtPc, rtAt, answer, ev, histories>>
    BY <1>9 DEF AddCourse
  <2>2. /\ last \in 1 .. Len(lengths) /\ last \in 1 .. MaxSets
        /\ lengths[last] \in Nat /\ rows <= lengths[last]
    <3>1. Len(lengths) > 0 /\ rows <= lengths[last] /\ Len(lengths) <= MaxSets
      BY <2>1 DEF CoursesAreOld
    <3>2. last \in 1 .. Len(lengths) /\ last \in 1 .. MaxSets
      BY <3>1
    <3>3. lengths[last] \in Lengths
      BY <3>2
    <3>4. QED
      BY <3>1, <3>2, <3>3
  <2>3. c \in Elements /\ c[1] = last /\ c[2] = lengths[last] - rows + 1 /\ c[2] >= 1
    BY <2>1, <2>2 DEF Elements
  <2>4. \A i \in 1 .. Len(list) : list[i] # c
    <3>1. \A i \in 1 .. Len(list) :
             list[i] \in Elements /\ (list[i][1] = last => list[i][2] + rows <= lengths[last])
      BY DEF CoursesAreOld, ToSet
    <3>2. ASSUME NEW i \in 1 .. Len(list), list[i] = c PROVE FALSE
      <4>1. c[2] + rows <= lengths[last]
        BY <2>3, <3>1, <3>2
      <4>2. QED
        BY <2>2, <2>3, <4>1
    <3>3. QED
      BY <3>2
  <2> HIDE DEF c, last
  <2>5. list' \in Seq(Elements) /\ Len(list') = Len(list) + 1
        /\ list'[Len(list) + 1] = c /\ \A i \in 1 .. Len(list) : list'[i] = list[i]
    BY <2>1, <2>3
  <2>6. IsInjective(list')
    <3>1. DOMAIN list' = 1 .. Len(list) + 1
      BY <2>5
    <3>2. \A a, b \in 1 .. Len(list) : list[a] = list[b] => a = b
      BY DEF IsInjective
    <3>3. \A a, b \in 1 .. Len(list) + 1 : list'[a] = list'[b] => a = b
      <4>1. Len(list) \in Nat
        OBVIOUS
      <4>2. QED
        BY ONLY <2>4, <2>5, <3>2, <4>1, OneMore
    <3>4. QED
      BY <3>1, <3>3 DEF IsInjective
  <2>7. \A d \in ToSet(list') : d = c \/ d \in ToSet(list)
    <3>1. DOMAIN list' = 1 .. Len(list) + 1 /\ DOMAIN list = 1 .. Len(list)
      BY <2>5
    <3>2. \A i \in 1 .. Len(list) + 1 : i = Len(list) + 1 \/ i \in 1 .. Len(list)
      OBVIOUS
    <3>3. QED
      BY <2>5, <3>1, <3>2 DEF ToSet
  <2>8. TypeOK'
    <3>1. rows' \in Nat /\ rows' <= rows /\ rtPc = "rows"
      BY <1>9, <2>1 DEF AddCourse
    <3>2. rows' <= lengths[Len(lengths)]
      BY <2>2, <3>1 DEF last
    <3>3. QED
      BY <2>1, <2>2, <2>5, <2>6, <3>1, <3>2
  <2>9. CoursesAreOld'
    <3>1. \A d \in ToSet(list) : d[2] \in Nat /\ d[1] \in Nat
      BY DEF ToSet, Elements
    <3>2. ASSUME NEW d \in ToSet(list')
          PROVE  /\ d[1] \in 1 .. Len(lengths) /\ d[2] >= 1
                 /\ d[1] = Len(lengths) => d[2] + (rows - 1) <= lengths[d[1]]
      <4>1. CASE d = c
        <5>1. rows \in Nat /\ rows <= lengths[last]
          BY <2>2
        <5>2. c[2] + (rows - 1) <= lengths[last]
          BY ONLY <2>2, <2>3, <5>1
        <5>3. c[1] = Len(lengths)
          BY <2>3 DEF last
        <5>4. QED
          BY ONLY <2>2, <2>3, <4>1, <5>2, <5>3
      <4>2. CASE d \in ToSet(list)
        <5>1. /\ d[1] \in 1 .. Len(lengths) /\ d[2] >= 1
              /\ d[1] = Len(lengths) => d[2] + rows <= lengths[d[1]]
          BY <4>2 DEF CoursesAreOld
        <5>2. d[2] \in Nat /\ lengths[last] \in Nat
          BY <2>2, <3>1, <4>2
        <5>3. QED
          BY <5>1, <5>2 DEF last
      <4>3. QED
        BY <2>7, <4>1, <4>2
    <3>3. QED
      BY <2>1, <3>2 DEF CoursesAreOld
  <2>10. QED
    BY <2>8, <2>9
<1>10. ASSUME RowsBreakOff PROVE TypeOK' /\ CoursesAreOld'
  <2>1. TypeOK'
    BY <1>10 DEF RowsBreakOff
  <2>2. CoursesAreOld'
    BY <1>0, <1>10 DEF RowsBreakOff
  <2>3. QED
    BY <2>1, <2>2
<1>11. ASSUME ReadOne PROVE TypeOK' /\ CoursesAreOld'
  <2>1. Behind(rtAt) \in Elements \cup {End}
    BY <1>11, BehindIsInList DEF ReadOne
  <2>2. rtAt \in Elements
    BY <1>11 DEF ReadOne, Reading
  <2>3. QED
    BY <1>0, <1>11, <2>1, <2>2 DEF ReadOne, Reading
<1>12. ASSUME RtDangling PROVE TypeOK' /\ CoursesAreOld'
  <2>1. ToSet(list) \subseteq Elements
    BY DEF ToSet
  <2>2. TypeOK'
    BY <1>12, <2>1 DEF RtDangling, Crash, Clearing, Reading
  <2>3. CoursesAreOld'
    BY <1>0, <1>12 DEF RtDangling, Crash, Clearing, Reading
  <2>4. QED
    BY <2>2, <2>3
<1>13. ASSUME AnswerCourses \/ AnswerItems \/ ItemsThrow PROVE TypeOK' /\ CoursesAreOld'
  <2>1. TypeOK'
    <3>1. CASE AnswerCourses
      BY <3>1 DEF AnswerCourses
    <3>2. CASE AnswerItems
      BY <3>2 DEF AnswerItems
    <3>3. CASE ItemsThrow
      BY <3>3 DEF ItemsThrow
    <3>4. QED
      BY <1>13, <3>1, <3>2, <3>3
  <2>2. CoursesAreOld'
    BY <1>0, <1>13 DEF AnswerCourses, AnswerItems, ItemsThrow
  <2>3. QED
    BY <2>1, <2>2
<1>14. ASSUME EvDangling PROVE TypeOK' /\ CoursesAreOld'
  <2>1. ToSet(list) \subseteq Elements
    BY DEF ToSet
  <2>2. TypeOK'
    BY <1>14, <2>1 DEF EvDangling, Crash
  <2>3. CoursesAreOld'
    BY <1>0, <1>14 DEF EvDangling, Crash
  <2>4. QED
    BY <2>2, <2>3
<1>15. ASSUME EvWasReset PROVE TypeOK' /\ CoursesAreOld'
  <2>1. TypeOK'
    BY <1>15 DEF EvWasReset
  <2>2. CoursesAreOld'
    BY <1>0, <1>15 DEF EvWasReset
  <2>3. QED
    BY <2>1, <2>2
<1>16. ASSUME UNCHANGED vars PROVE TypeOK' /\ CoursesAreOld'
  <2>1. TypeOK'
    BY <1>16 DEF vars
  <2>2. CoursesAreOld'
    BY <1>0, <1>16 DEF vars
  <2>3. QED
    BY <2>1, <2>2
<1>17. QED
  BY <1>1, <1>2, <1>3, <1>4, <1>5, <1>6, <1>7, <1>8, <1>9, <1>10, <1>11, <1>12, <1>13,
     <1>14, <1>15, <1>16 DEF Next, Requests, RecvTask, Evloop

\* At first there is nothing.
LEMMA InitIsEmpty == Init => TypeOK /\ CoursesAreOld /\ TurnsKeepCourses
<1> SUFFICES ASSUME Init PROVE TypeOK /\ CoursesAreOld /\ TurnsKeepCourses
  OBVIOUS
<1> USE CoursesAssumption DEF Init
<1>1. IsInjective(<<>>)
  BY DEF IsInjective
<1>2. TypeOK
  BY <1>1 DEF TypeOK
<1>3. CoursesAreOld
  BY DEF CoursesAreOld, ToSet
<1>4. TurnsKeepCourses
  BY DEF TurnsKeepCourses, Running, Selection
<1>5. QED
  BY <1>2, <1>3, <1>4

\* Courses!TypeOK is an invariant: with all rows of all selections, and whatever
\* both threads erase, no course is in the list twice.
THEOREM TypeCorrect == Spec => [](TypeOK /\ CoursesAreOld)
  BY InitIsEmpty, StepIsTyped, PTL DEF Spec

-----------------------------------------------------------------------------
\* A step that leaves the list, both threads and their histories alone.
LEMMA SameCourses ==
    ASSUME TurnsKeepCourses, UNCHANGED <<list, rt, ev, histories, status>>
    PROVE  TurnsKeepCourses'
  BY DEF TurnsKeepCourses, Selection, Running, rt, ev, histories

\* While the threads take turns, each step keeps the list in step with the work.
LEMMA StepKeepsCourses ==
    ASSUME TypeOK, CoursesAreOld, TurnsKeepCourses
    PROVE  [Next]_vars => TurnsKeepCourses'
<1> USE DEF Idle, Running, rt, ev, histories, roomVars
<1>0. /\ list \in Seq(Elements) /\ IsInjective(list)
      /\ rtPc \in {"idle", "clear", "reset", "rows", "courses", "items"}
      /\ evPc \in {"idle", "reset"}
      /\ rows \in Nat /\ lengths \in Seq(Lengths) /\ current \in 0 .. Len(lengths)
      /\ answer \in Seq(Elements) /\ Lengths \subseteq Nat
      /\ rtPc \in {"idle", "rows"} => rtAt = End
  BY CoursesAssumption DEF TypeOK
<1>b. /\ list = <<>> <=> Begin(list) = End
      /\ list # <<>> => 1 \in 1 .. Len(list) /\ Begin(list) = list[1]
  BY <1>0, BeginIsFirst
<1>c. list # <<>> => In(Begin(list))
  BY <1>b DEF In, ToSet
<1>1. ASSUME NEW f \in Fds, LoginClassRoom(f) \/ SelectAsStudent(f) \/ SelectAsWhite(f) \/ DelOther(f)
      PROVE  TurnsKeepCourses'
  <2>1. UNCHANGED <<list, rt, ev, histories, status>>
    BY <1>1 DEF LoginClassRoom, SelectAsStudent, SelectAsWhite, DelOther
  <2>2. QED
    BY <2>1, SameCourses
<1>2. ASSUME NEW f \in Fds, LogoutClassRoom(f) PROVE TurnsKeepCourses'
  <2>1. /\ rtPc' = "reset" /\ rtAt' = Begin(list) /\ current' = 0 /\ status = "running"
        /\ overlap' = (evPc # "idle")
        /\ UNCHANGED <<list, ev, status>>
    BY <1>2 DEF LogoutClassRoom
  <2>2. QED
    BY <1>0, <2>1 DEF TurnsKeepCourses
<1>3. ASSUME NEW f \in Fds, NEW n \in Lengths, SetCourseGroup(f, n) PROVE TurnsKeepCourses'
  <2>1. /\ rtPc' = "clear" /\ rtAt' = Begin(list) /\ status = "running" /\ rows' = n
        /\ lengths' = Append(lengths, n) /\ current' = Len(lengths) + 1
        /\ overlap' = (evPc # "idle")
        /\ UNCHANGED <<list, ev, status>>
    BY <1>3 DEF SetCourseGroup
  <2>2. Len(lengths') = Len(lengths) + 1 /\ lengths'[Len(lengths) + 1] = n /\ Len(lengths) \in Nat
    BY <1>0, <2>1
  <2>3. current' = Len(lengths') /\ current' > 0 /\ rows' = lengths'[current']
    BY <2>1, <2>2
  <2>4. CASE evPc = "idle"
    BY <2>1, <2>3, <2>4 DEF TurnsKeepCourses
  <2>5. CASE evPc # "idle"
    BY <2>1, <2>5 DEF TurnsKeepCourses
  <2>6. QED
    BY <2>4, <2>5
<1>4. ASSUME NEW f \in Fds, NEW what \in {"courses", "items"}, Ask(f, what)
      PROVE  TurnsKeepCourses'
  <2>1. /\ rtPc = "idle" /\ rtPc' = what /\ answer' = <<>> /\ rtAt' \in {Begin(list), End}
        /\ overlap' = (overlap \/ evPc # "idle")
        /\ UNCHANGED <<list, rows, ev, lengths, current, broken, status>>
    BY <1>4 DEF Ask
  <2>2. CASE overlap'
    BY <2>2 DEF TurnsKeepCourses
  <2>3. CASE ~overlap'
    <3>1. /\ ~overlap /\ evPc = "idle" /\ status = "running"
          /\ ~broken => list = Selection(current)
      BY <1>0, <2>1, <2>3 DEF TurnsKeepCourses
    <3>2. rtAt' # End => 0 < Len(list) /\ rtAt' = list[0 + 1]
      BY <1>0, <1>b, <2>1
    <3>3. Len(answer') = 0
      BY <2>1
    <3>4. ~broken' => list' = Selection(current)'
      BY <2>1, <3>1 DEF Selection
    <3>5. QED
      BY <2>1, <3>1, <3>2, <3>3, <3>4 DEF TurnsKeepCourses
  <2>4. QED
    BY <2>2, <2>3
<1>5. ASSUME DelTeacher PROVE TurnsKeepCourses'
  <2>1. /\ evPc' = "reset" /\ evAt' = Begin(list) /\ current' = 0 /\ status = "running"
        /\ overlap' = (rtPc # "idle")
        /\ UNCHANGED <<list, rt, status>>
    BY <1>5 DEF DelTeacher
  <2>2. QED
    BY <1>0, <2>1 DEF TurnsKeepCourses
<1>6. ASSUME ClearOne PROVE TurnsKeepCourses'
  <2>1. /\ rtPc \in {"clear", "reset"} /\ rtAt # End /\ rtAt' = Behind(rtAt) /\ Erase(rtAt)
        /\ UNCHANGED <<rtPc, rows, answer, ev, histories, status>>
    BY <1>6 DEF ClearOne, Clearing
  <2>2. CASE overlap
    BY <2>1, <2>2 DEF TurnsKeepCourses
  <2>3. CASE ~overlap
    <3>1. rtAt = Begin(list) /\ evPc = "idle" /\ list # <<>>
      BY <1>b, <2>1, <2>3 DEF TurnsKeepCourses
    <3>2. rtAt' = Begin(list')
      BY <1>0, <2>1, <3>1, EraseFromBegin
    <3>3. QED
      BY <2>1, <2>3, <3>1, <3>2 DEF TurnsKeepCourses
  <2>4. QED
    BY <2>2, <2>3
<1>7. ASSUME EvClearOne PROVE TurnsKeepCourses'
  <2>1. /\ evPc = "reset" /\ evAt # End /\ evAt' = Behind(evAt) /\ Erase(evAt)
        /\ UNCHANGED <<rt, evPc, histories, status>>
    BY <1>7 DEF EvClearOne
  <2>2. CASE overlap
    BY <2>1, <2>2 DEF TurnsKeepCourses
  <2>3. CASE ~overlap
    <3>1. evAt = Begin(list) /\ rtPc = "idle" /\ list # <<>>
      BY <1>b, <2>1, <2>3 DEF TurnsKeepCourses
    <3>2. evAt' = Begin(list')
      BY <1>0, <2>1, <3>1, EraseFromBegin
    <3>3. QED
      BY <2>1, <2>3, <3>1, <3>2 DEF TurnsKeepCourses
  <2>4. QED
    BY <2>2, <2>3
<1>8. ASSUME Cleared PROVE TurnsKeepCourses'
  <2>1. /\ rtPc = "clear" /\ rtAt = End /\ rtPc' = "rows"
        /\ UNCHANGED <<list, rtAt, rows, answer, ev, histories, status>>
    BY <1>8 DEF Cleared
  <2>2. CASE overlap
    BY <2>1, <2>2 DEF TurnsKeepCourses
  <2>3. CASE ~overlap
    <3>1. /\ list = <<>> /\ evPc = "idle" /\ current = Len(lengths) /\ current > 0
          /\ rows = lengths[current]
      BY <1>b, <2>1, <2>3 DEF TurnsKeepCourses
    <3>2. list = [i \in 1 .. lengths[current] - rows |-> <<current, i>>]
      <4>1. 1 .. lengths[current] - rows = {}
        BY <1>0, <3>1
      <4>2. QED
        BY <3>1, <4>1
    <3>3. rows <= lengths[current]
      BY <1>0, <3>1
    <3>4. QED
      BY <2>1, <2>3, <3>1, <3>2, <3>3 DEF TurnsKeepCourses
  <2>4. QED
    BY <2>2, <2>3
<1>9. ASSUME WasReset PROVE TurnsKeepCourses'
  <2>1. /\ rtPc = "reset" /\ rtAt = End /\ rtPc' = "idle"
        /\ UNCHANGED <<list, rtAt, rows, answer, ev, histories, status>>
    BY <1>9 DEF WasReset
  <2>2. ~overlap => list = Selection(current)
    BY <1>b, <2>1 DEF TurnsKeepCourses, Selection
  <2>3. QED
    BY <2>1, <2>2 DEF TurnsKeepCourses, Selection
<1>10. ASSUME AddCourse PROVE TurnsKeepCourses'
  <2> DEFINE c == <<Len(lengths), lengths[Len(lengths)] - rows + 1>>
  <2>1. /\ rtPc = "rows" /\ rows > 0 /\ rows' = rows - 1 /\ list' = Append(list, c)
        /\ UNCHANGED <<rtPc, rtAt, answer, ev, histories, status>>
    BY <1>10 DEF AddCourse
  <2>2. CASE overlap
    BY <2>1, <2>2 DEF TurnsKeepCourses
  <2>3. CASE ~overlap
    <3> DEFINE n == lengths[current] - rows
    <3>1. /\ evPc = "idle" /\ current = Len(lengths) /\ current > 0 /\ rows <= lengths[current]
          /\ list = [i \in 1 .. n |-> <<current, i>>]
      BY <2>1, <2>3 DEF TurnsKeepCourses
    <3>2. lengths[current] \in Nat /\ n \in Nat
      <4>1. current \in 1 .. Len(lengths)
        BY <1>0, <3>1
      <4>2. lengths[current] \in Lengths
        BY <1>0, <4>1
      <4>3. lengths[current] \in Nat
        BY <1>0, <4>2
      <4>4. QED
        BY <1>0, <3>1, <4>3
    <3>3. c = <<current, n + 1>> /\ lengths[current] - rows' = n + 1 /\ rows' <= lengths[current]
      BY <1>0, <2>1, <3>1, <3>2
    <3> HIDE DEF c, n
    <3>4. Len(list) = n /\ \A i \in 1 .. n : list[i] = <<current, i>>
      BY <3>1, <3>2
    <3>5. list' = [i \in 1 .. n + 1 |-> <<current, i>>]
      <4>1. list \in Seq(Elements \cup {c})
        BY <1>0
      <4>2. /\ list' \in Seq(Elements \cup {c}) /\ Len(list') = n + 1
            /\ list'[n + 1] = c /\ \A i \in 1 .. n : list'[i] = list[i]
        BY <2>1, <3>2, <3>4, <4>1
      <4>3. \A i \in 1 .. n + 1 : list'[i] = <<current, i>>
        BY <3>2, <3>3, <3>4, <4>2
      <4>4. list' = [i \in 1 .. n + 1 |-> list'[i]]
        BY <3>2, <4>2
      <4>5. QED
        BY <4>3, <4>4
    <3>6. QED
      BY <2>1, <2>3, <3>1, <3>3, <3>5 DEF TurnsKeepCourses
  <2>4. QED
    BY <2>2, <2>3
<1>11. ASSUME RowsDone PROVE TurnsKeepCourses'
  <2>1. /\ rtPc = "rows" /\ rows = 0 /\ rtPc' = "idle"
        /\ UNCHANGED <<list, rtAt, rows, answer, ev, histories, status>>
    BY <1>11 DEF RowsDone
  <2>2. ~overlap => list = Selection(current)
    <3> SUFFICES ASSUME ~overlap PROVE list = Selection(current)
      OBVIOUS
    <3>1. current \in 1 .. Len(lengths) /\ list = [i \in 1 .. lengths[current] - rows |-> <<current, i>>]
      BY <1>0, <2>1 DEF TurnsKeepCourses
    <3>2. lengths[current] \in Nat
      <4>1. lengths[current] \in Lengths
        BY <1>0, <3>1
      <4>2. QED
        BY <1>0, <4>1
    <3>3. lengths[current] - rows = lengths[current] /\ current # 0
      BY <2>1, <3>1, <3>2
    <3>4. QED
      BY <3>1, <3>3 DEF Selection
  <2>3. QED
    BY <2>1, <2>2 DEF TurnsKeepCourses, Selection
<1>12. ASSUME RowsBreakOff PROVE TurnsKeepCourses'
  BY <1>12 DEF RowsBreakOff, TurnsKeepCourses
<1>13. ASSUME ReadOne PROVE TurnsKeepCourses'
  <2>1. /\ rtPc \in {"courses", "items"} /\ rtAt # End
        /\ answer' = Append(answer, rtAt) /\ rtAt' = Behind(rtAt)
        /\ UNCHANGED <<list, rtPc, rows, ev, histories, status>>
    BY <1>13 DEF ReadOne, Reading
  <2>2. CASE overlap
    BY <2>1, <2>2 DEF TurnsKeepCourses
  <2>3. CASE ~overlap
    <3> DEFINE k == Len(answer) + 1
    <3>1. /\ Len(answer) < Len(list) /\ rtAt = list[k]
          /\ \A i \in 1 .. Len(answer) : answer[i] = list[i]
          /\ evPc = "idle"
      BY <2>1, <2>3 DEF TurnsKeepCourses
    <3>2. k \in 1 .. Len(list) /\ Len(answer) \in Nat /\ Len(list) \in Nat
      BY <1>0, <3>1
    <3> HIDE DEF k
    <3>3. Place(rtAt) = k
      BY <1>0, <3>1, <3>2, PlaceOfElement
    <3>4. Len(answer') = k /\ answer'[k] = list[k] /\ \A i \in 1 .. Len(answer) : answer'[i] = answer[i]
      BY <1>0, <2>1, <3>1 DEF k
    <3>5. \A i \in 1 .. k : answer'[i] = list[i]
      BY <3>1, <3>2, <3>4 DEF k
    <3>6. CASE k = Len(list)
      <4>1. rtAt' = End
        BY <2>1, <3>3, <3>6 DEF Behind
      <4>2. answer' = list
        <5>1. answer' \in Seq(Elements \cup {End})
          <6>1. rtAt \in Elements \cup {End}
            BY DEF TypeOK
          <6>2. answer \in Seq(Elements \cup {End})
            BY <1>0
          <6>3. QED
            BY <2>1, <6>1, <6>2
        <5>2. QED
          BY <1>0, <3>4, <3>5, <3>6, <5>1
      <4>3. QED
        BY <2>1, <2>3, <3>1, <4>1, <4>2 DEF TurnsKeepCourses, Selection
    <3>7. CASE k # Len(list)
      <4>1. k + 1 \in 1 .. Len(list) /\ k < Len(list)
        BY <3>2, <3>7
      <4>2. rtAt' = list[k + 1]
        BY <2>1, <3>3, <3>7 DEF Behind
      <4>3. rtAt' # End
        <5>1. rtAt' \in ToSet(list)
          BY <1>0, <4>1, <4>2 DEF ToSet
        <5>2. rtAt'[2] >= 1
          BY <5>1 DEF CoursesAreOld
        <5>3. QED
          BY <5>2 DEF End
      <4>4. /\ Len(answer') < Len(list') /\ rtAt' = list'[Len(answer') + 1]
            /\ \A i \in 1 .. Len(answer') : answer'[i] = list'[i]
        BY <2>1, <3>4, <3>5, <4>1, <4>2
      <4>5. QED
        BY <2>1, <2>3, <3>1, <4>3, <4>4 DEF TurnsKeepCourses, Selection
    <3>8. QED
      BY <3>6, <3>7
  <2>4. QED
    BY <2>2, <2>3
<1>14. ASSUME RtDangling PROVE TurnsKeepCourses'
  <2>1. ~In(rtAt) /\ rtAt # End /\ rtPc \in {"clear", "reset", "courses", "items"} /\ UNCHANGED histories
    BY <1>14 DEF RtDangling, Crash, Clearing, Reading
  <2>2. overlap
    <3> SUFFICES ASSUME ~overlap PROVE FALSE
      OBVIOUS
    <3>1. CASE rtPc \in {"clear", "reset"}
      BY <1>b, <1>c, <2>1, <3>1 DEF TurnsKeepCourses
    <3>2. CASE rtPc \in {"courses", "items"}
      <4>1. Len(answer) + 1 \in 1 .. Len(list) /\ rtAt = list[Len(answer) + 1]
        BY <1>0, <2>1, <3>2 DEF TurnsKeepCourses
      <4>2. QED
        BY <1>0, <2>1, <4>1 DEF In, ToSet
    <3>3. QED
      BY <2>1, <3>1, <3>2
  <2>3. QED
    BY <2>1, <2>2 DEF TurnsKeepCourses
<1>15. ASSUME AnswerCourses \/ AnswerItems \/ ItemsThrow PROVE TurnsKeepCourses'
  <2>1. /\ rtPc \in {"courses", "items"} /\ rtPc' = "idle"
        /\ UNCHANGED <<list, rows, ev, histories, status>>
    BY <1>15 DEF AnswerCourses, AnswerItems, ItemsThrow
  <2>2. QED
    BY <2>1 DEF TurnsKeepCourses, Selection
<1>16. ASSUME EvDangling PROVE TurnsKeepCourses'
  <2>1. ~In(evAt) /\ evAt # End /\ evPc = "reset" /\ UNCHANGED histories
    BY <1>16 DEF EvDangling, Crash
  <2>2. overlap
    BY <1>b, <1>c, <2>1 DEF TurnsKeepCourses
  <2>3. QED
    BY <2>1, <2>2 DEF TurnsKeepCourses
<1>17. ASSUME EvWasReset PROVE TurnsKeepCourses'
  <2>1. /\ evPc = "reset" /\ evAt = End /\ evPc' = "idle"
        /\ UNCHANGED <<list, rt, evAt, histories, status>>
    BY <1>17 DEF EvWasReset
  <2>2. ~overlap => list = Selection(current) /\ rtPc = "idle"
    BY <1>b, <2>1 DEF TurnsKeepCourses, Selection
  <2>3. QED
    BY <2>1, <2>2 DEF TurnsKeepCourses, Selection
<1>18. ASSUME UNCHANGED vars PROVE TurnsKeepCourses'
  BY <1>18, SameCourses DEF vars
<1>19. QED
  BY <1>1, <1>2, <1>3, <1>4, <1>5, <1>6, <1>7, <1>8, <1>9, <1>10, <1>11, <1>12, <1>13,
     <1>14, <1>15, <1>16, <1>17, <1>18 DEF Next, Requests, RecvTask, Evloop

LEMMA CoursesInvariant == Spec => [](TypeOK /\ CoursesAreOld /\ TurnsKeepCourses)
<1>1. TypeOK /\ CoursesAreOld /\ TurnsKeepCourses /\ [Next]_vars
        => (TypeOK /\ CoursesAreOld /\ TurnsKeepCourses)'
  BY StepIsTyped, StepKeepsCourses
<1>2. QED
  BY <1>1, InitIsEmpty, PTL DEF Spec

\* Courses!ListIsSelection is an invariant: a selection, or a reset, clears the
\* list of whatever was there, for groups of any size.
THEOREM SelectionReplacesList == Spec => []ListIsSelection
<1>1. TypeOK /\ CoursesAreOld /\ TurnsKeepCourses => ListIsSelection
  BY DEF TurnsKeepCourses, ListIsSelection
<1>2. QED
  BY <1>1, CoursesInvariant, PTL

\* Courses!CrashNeedsOverlap is an invariant: a thread that has the list for
\* itself, however long it is, never follows a dangling iterator.
THEOREM OverlapExplainsCrash == Spec => []CrashNeedsOverlap
<1>1. TypeOK /\ CoursesAreOld /\ TurnsKeepCourses => CrashNeedsOverlap
  BY DEF TurnsKeepCourses, CrashNeedsOverlap
<1>2. QED
  BY <1>1, CoursesInvariant, PTL

\* Courses!AnswersAreWhole holds of each step: an answer names the last selection,
\* every course of it and in order.
THEOREM AnswersNameSelection == Spec => AnswersAreWhole
<1>1. TypeOK /\ CoursesAreOld /\ TurnsKeepCourses /\ [Next]_vars
        => [AnswerCourses /\ answer # <<>> /\ ~broken /\ ~overlap /\ evPc = "idle"
               => answer = Selection(current)]_vars
  BY DEF TurnsKeepCourses, AnswerCourses
<1>2. QED
  BY <1>1, CoursesInvariant, PTL DEF Spec, AnswersAreWhole

=============================================================================
