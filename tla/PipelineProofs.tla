--------------------------- MODULE PipelineProofs ---------------------------
(***************************************************************************)
(* What TLAPS proves of Pipeline for every size of the pool, every set of  *)
(* clients and every number of rooms and posts.                            *)
(***************************************************************************)
EXTENDS Pipeline, TLAPS

-----------------------------------------------------------------------------
(* Sequences used as queues of distinct elements.                          *)

\* Appending an element adds it to the range, and a new one keeps the
\* elements distinct.
LEMMA AppendToQueue ==
    ASSUME NEW S, NEW s \in Seq(S), NEW e \in S
    PROVE  /\ Append(s, e) \in Seq(S)
           /\ Range(Append(s, e)) = Range(s) \cup {e}
           /\ IsInjective(s) /\ e \notin Range(s) => IsInjective(Append(s, e))
<1> DEFINE t == Append(s, e)
<1>1. /\ t \in Seq(S) /\ DOMAIN t = 1 .. Len(s) + 1 /\ DOMAIN s = 1 .. Len(s)
      /\ Len(s) \in Nat
      /\ t[Len(s) + 1] = e /\ \A i \in 1 .. Len(s) : t[i] = s[i]
  OBVIOUS
<1> HIDE DEF t
<1>2. Range(t) = Range(s) \cup {e}
  BY <1>1 DEF Range
<1>3. IsInjective(s) /\ e \notin Range(s) => IsInjective(t)
  BY <1>1 DEF Range, IsInjective
<1>4. QED
  BY <1>1, <1>2, <1>3 DEF t

\* Taking the head of a queue removes it from the range, if it is nowhere
\* else in the queue.
LEMMA TakeFromQueue ==
    ASSUME NEW S, NEW s \in Seq(S), s # <<>>
    PROVE  /\ Head(s) \in Range(s) /\ Head(s) \in S
           /\ Tail(s) \in Seq(S)
           /\ IsInjective(s) => /\ IsInjective(Tail(s))
                                /\ Range(Tail(s)) = Range(s) \ {Head(s)}
<1> DEFINE t == Tail(s)
<1>1. /\ t \in Seq(S) /\ DOMAIN t = 1 .. Len(s) - 1 /\ DOMAIN s = 1 .. Len(s)
      /\ Len(s) \in Nat /\ Len(s) > 0
      /\ Head(s) = s[1] /\ \A i \in 1 .. Len(s) - 1 : t[i] = s[i + 1]
  OBVIOUS
<1> HIDE DEF t
<1>2. Head(s) \in Range(s) /\ Head(s) \in S
  BY <1>1 DEF Range
<1>3. ASSUME IsInjective(s) PROVE IsInjective(t) /\ Range(t) = Range(s) \ {Head(s)}
  <2>1. IsInjective(t)
    BY <1>1, <1>3 DEF IsInjective
  <2>2. ASSUME NEW x \in Range(t) PROVE x \in Range(s) \ {Head(s)}
    BY <1>1, <1>3 DEF IsInjective, Range
  <2>3. ASSUME NEW x \in Range(s) \ {Head(s)} PROVE x \in Range(t)
    <3>1. PICK i \in 1 .. Len(s) : x = s[i] /\ i # 1
      BY <1>1 DEF Range
    <3>2. i - 1 \in DOMAIN t /\ t[i - 1] = x
      BY <1>1, <3>1
    <3>3. QED
      BY <3>2 DEF Range
  <2>4. QED
    BY <2>1, <2>2, <2>3
<1>4. QED
  BY <1>1, <1>2, <1>3 DEF t

\* A list of receivers is a sequence of descriptors.
LEMMA PostListsAreSequences ==
    /\ PostLists \subseteq Seq(Fds \cup {NoFd})
    /\ Rosters \subseteq Seq(Fds \cup {NoFd})
<1>1. ASSUME NEW s \in PostLists PROVE s \in Seq(Fds \cup {NoFd})
  <2>1. PICK n \in 0 .. MaxPost : s \in [1 .. n -> Fds \cup {NoFd}]
    BY DEF PostLists
  <2>2. n \in Nat
    BY PipelineAssumption
  <2>3. QED
    BY <2>1, <2>2
<1>2. QED
  BY <1>1 DEF Rosters

-----------------------------------------------------------------------------
(* Types, and the hands of the threads.                                    *)

\* Every list a handler posts to is a sequence of descriptors, so that the
\* actions of Handle that post are all instances of Post.
LEMMA HandlersThatPost ==
    ASSUME TypeOK, HandsMatchPc, Handle
    PROVE  \/ Forget \/ Reject \/ Finish \/ HouseShare
           \/ \E f \in Fds \cup {NoFd} : Forward(f)
           \/ \E s \in Seq(Fds \cup {NoFd}), then \in {"zero", "free", "send", "start"},
                 oom \in {"crash", "first", "skip"} : Post(s, then, oom)
<1>1. ASSUME NEW s \in PostLists, DBRecord(s)
      PROVE  Post(s, "zero", "crash") /\ s \in Seq(Fds \cup {NoFd})
  BY <1>1, PostListsAreSequences DEF DBRecord
<1>2. ASSUME NEW s \in Rosters, Broadcast(s)
      PROVE  Post(s, "zero", "crash") /\ s \in Seq(Fds \cup {NoFd})
  BY <1>2, PostListsAreSequences DEF Broadcast
<1>3. ASSUME NEW s \in Rosters, PuzzleGameStart(s)
      PROVE  Post(s, "start", "crash") /\ s \in Seq(Fds \cup {NoFd})
  BY <1>3, PostListsAreSequences DEF PuzzleGameStart
<1>4. ASSUME NEW s \in Rosters, NEW f \in Fds \cup {NoFd}, StudentLogin(s, f)
      PROVE  Post(<<f>> \o s, "send", "first") /\ <<f>> \o s \in Seq(Fds \cup {NoFd})
  BY <1>4, PostListsAreSequences DEF StudentLogin
<1>5. ASSUME NEW f \in Fds \cup {NoFd}, PuzzleEndGame(f)
      PROVE  Post(<<f>>, "free", "crash") /\ <<f>> \in Seq(Fds \cup {NoFd})
  BY <1>5 DEF PuzzleEndGame
<1>6. ASSUME postMessage
      PROVE  \E f \in Fds \cup {NoFd} : Forward(f)
  <2>1. rtBuf \in Buf
    BY <1>6 DEF postMessage, Forward, Handling, HandsMatchPc, TypeOK
  <2>2. QED
    BY <1>6, <2>1 DEF postMessage, TypeOK
<1>7. QED
  BY <1>1, <1>2, <1>3, <1>4, <1>5, <1>6
     DEF Handle, EnterOrLeave, EditHouse, Students, Common, Sprite, Exercise, Cartoon,
         BuildHouse, Puzzle, Login, LockStudents, StartPuzzle, Courses, postMessage,
         postTeacherToWhite, postTeacherToStudent, postTeacherToAllStudent,
         postDBRecordCount, postDBRecord

\* Zero stands for "no Buf" and "no client".
LEMMA NoBufNoFd == NoBuf \notin Buf /\ NoFd \notin Fds
  BY PipelineAssumption DEF NoBuf, Buf, NoFd

\* The primitive operations keep the types of what they change.
LEMMA PrimitivesKeepTypes ==
    ASSUME TypeOK
    PROVE  /\ Malloc => Head(pool) \in Buf /\ pool' \in Seq(Buf)
           /\ \A b \in Buf : Free(b) => pool' \in Seq(Buf)
           /\ \A b \in Buf : Write(b) => text' \in [Buf -> Buf \cup {NoBuf}]
           /\ \A b \in Buf : Zero(b) => text' \in [Buf -> Buf \cup {NoBuf}]
           /\ \A b \in Buf, f \in Fds \cup {NoFd} :
                 SetFd(b, f) => fd' \in [Buf -> Fds \cup {NoFd}]
           /\ \A p, pp \in Buf : CopyOf(pp, p) => /\ ptr' \in [Buf -> Buf]
                                                 /\ shared' \subseteq Buf
                                                 /\ text' \in [Buf -> Buf \cup {NoBuf}]
<1>1. Malloc => Head(pool) \in Buf /\ pool' \in Seq(Buf)
  BY TakeFromQueue DEF TypeOK, Malloc
<1>2. \A b \in Buf : Free(b) => pool' \in Seq(Buf)
  BY AppendToQueue DEF TypeOK, Free
<1>3. \A b \in Buf : ptr[b] \in Buf
  BY DEF TypeOK
<1>4. \A b \in Buf : Write(b) \/ Zero(b) => text' \in [Buf -> Buf \cup {NoBuf}]
  BY <1>3 DEF TypeOK, Write, Zero
<1>5. \A b \in Buf, f \in Fds \cup {NoFd} :
         SetFd(b, f) => fd' \in [Buf -> Fds \cup {NoFd}]
  BY DEF TypeOK, SetFd
<1>6. \A p, pp \in Buf : CopyOf(pp, p) => /\ ptr' \in [Buf -> Buf] /\ shared' \subseteq Buf
                                          /\ text' \in [Buf -> Buf \cup {NoBuf}]
  <2>1. TAKE p \in Buf, pp \in Buf
  <2>2. CASE text[ptr[p]] = NoBuf
    BY <1>4, <2>2 DEF TypeOK, CopyOf
  <2>3. CASE text[ptr[p]] # NoBuf
    BY <1>3, <2>3 DEF TypeOK, CopyOf
  <2>4. QED
    BY <2>2, <2>3
<1>7. QED
  BY <1>1, <1>2, <1>4, <1>5, <1>6

\* Each step keeps the types and keeps hands and program counters together.
LEMMA StepKeepsTypes ==
    ASSUME TypeOK, HandsMatchPc
    PROVE  [Next]_vars => TypeOK' /\ HandsMatchPc'
<1> USE NoBufNoFd DEF TypeOK, HandsMatchPc, Running,
        single, bufs, ghosts, peers, ev, rt, st
<1>1. ASSUME NEW f \in Fds, Accept(f) PROVE (TypeOK /\ HandsMatchPc)'
  BY <1>1 DEF Accept
<1>2. ASSUME NEW f \in Fds, Readable(f) PROVE (TypeOK /\ HandsMatchPc)'
  BY <1>2 DEF Readable, Malloc
<1>3. ASSUME PoolDry PROVE (TypeOK /\ HandsMatchPc)'
  BY <1>3 DEF PoolDry, Stops
<1>4. ASSUME Received PROVE (TypeOK /\ HandsMatchPc)'
  BY <1>4 DEF Received, Write, SetFd
<1>5. ASSUME RecvFails PROVE (TypeOK /\ HandsMatchPc)'
  <2>1. evBuf \in Buf
    BY <1>5 DEF RecvFails
  <2>2. text' \in [Buf -> Buf \cup {NoBuf}]
    BY <1>5, <2>1, PrimitivesKeepTypes DEF RecvFails
  <2>3. TypeOK'
    BY <1>5, <2>1, <2>2, PipelineAssumption DEF RecvFails
  <2>4. QED
    BY <1>5, <2>3 DEF RecvFails
<1>6. ASSUME NEW s \in Rosters, TeacherGone(s) PROVE (TypeOK /\ HandsMatchPc)'
  BY <1>6, PostListsAreSequences, PipelineAssumption DEF TeacherGone, NextRoom
<1>7. ASSUME NEW s \in Rosters, StudentGone(s) PROVE (TypeOK /\ HandsMatchPc)'
  BY <1>7, PostListsAreSequences, PipelineAssumption DEF StudentGone, NextRoom, Malloc, Write
<1>8. ASSUME WhiteGone PROVE (TypeOK /\ HandsMatchPc)'
  BY <1>8, PipelineAssumption DEF WhiteGone, NextRoom
<1>9. ASSUME NotifyMalloc PROVE (TypeOK /\ HandsMatchPc)'
  <2>1. CASE evBuf = NoBuf
    BY <1>9, <2>1 DEF NotifyMalloc, Malloc, SetFd, Write
  <2>2. CASE evBuf # NoBuf
    <3>1. /\ evCopy' \in Buf /\ evBuf \in Buf
          /\ Head(evTodo) \in Fds \cup {NoFd}
          /\ pool' \in Seq(Buf)
      BY <1>9, PrimitivesKeepTypes, TakeFromQueue, <2>2 DEF NotifyMalloc
    <3>2. /\ fd' \in [Buf -> Fds \cup {NoFd}]
          /\ ptr' \in [Buf -> Buf] /\ shared' \subseteq Buf
          /\ text' \in [Buf -> Buf \cup {NoBuf}]
      BY <1>9, <2>2, <3>1, PrimitivesKeepTypes DEF NotifyMalloc
    <3>3. TypeOK'
      BY <1>9, <3>1, <3>2 DEF NotifyMalloc
    <3>4. QED
      BY <1>9, <3>3 DEF NotifyMalloc
  <2>3. QED
    BY <2>1, <2>2
<1>10. ASSUME NotifySend PROVE (TypeOK /\ HandsMatchPc)'
  BY <1>10 DEF NotifySend
<1>11. ASSUME NotifyDone PROVE (TypeOK /\ HandsMatchPc)'
  <2>1. CASE evBuf = NoBuf
    BY <1>11, <2>1 DEF NotifyDone
  <2>2. CASE evBuf # NoBuf
    <3>1. pool' \in Seq(Buf) /\ text' \in [Buf -> Buf \cup {NoBuf}]
      BY <1>11, <2>2, PrimitivesKeepTypes DEF NotifyDone
    <3>2. TypeOK'
      BY <1>11, <3>1 DEF NotifyDone
    <3>3. QED
      BY <1>11, <3>2 DEF NotifyDone
  <2>3. QED
    BY <2>1, <2>2
<1>12. ASSUME RoomsDone PROVE (TypeOK /\ HandsMatchPc)'
  BY <1>12 DEF RoomsDone
<1>13. ASSUME EvloopOom PROVE (TypeOK /\ HandsMatchPc)'
  BY <1>13 DEF EvloopOom, Stops
<1>14. ASSUME TakeMessage PROVE (TypeOK /\ HandsMatchPc)'
  BY <1>14 DEF TakeMessage
<1>15. ASSUME Forget PROVE (TypeOK /\ HandsMatchPc)'
  BY <1>15 DEF Forget, Handling, HandlerReturns
<1>16. ASSUME Reject PROVE (TypeOK /\ HandsMatchPc)'
  BY <1>16 DEF Reject, Handling, HandlerReturns, Free
<1>17. ASSUME Finish PROVE (TypeOK /\ HandsMatchPc)'
  BY <1>17 DEF Finish, Handling, HandlerReturns, Free, Zero
<1>18. ASSUME HouseShare PROVE (TypeOK /\ HandsMatchPc)'
  BY <1>18 DEF HouseShare, Handling, HandlerReturns, Stops
<1>19. ASSUME NEW f \in Fds \cup {NoFd}, Forward(f) PROVE (TypeOK /\ HandsMatchPc)'
  BY <1>19 DEF Forward, Handling, HandlerReturns, Write, SetFd
<1>20. ASSUME NEW s \in Seq(Fds \cup {NoFd}), NEW then \in {"zero", "free", "send", "start"},
              NEW oom \in {"crash", "first", "skip"}, Post(s, then, oom) PROVE (TypeOK /\ HandsMatchPc)'
  BY <1>20 DEF Post, Handling
<1>21. ASSUME PostMalloc PROVE (TypeOK /\ HandsMatchPc)'
  BY <1>21 DEF PostMalloc, Malloc, Write, SetFd
<1>22. ASSUME PostSend PROVE (TypeOK /\ HandsMatchPc)'
  BY <1>22 DEF PostSend
<1>23. ASSUME PostOom PROVE (TypeOK /\ HandsMatchPc)'
  <2>1. CASE rtOom = "skip"
    <3>1. rtTodo' \in Seq(Fds \cup {NoFd})
      <4>1. rtTodo' = Tail(rtTodo) /\ rtTodo # <<>> /\ rtTodo \in Seq(Fds \cup {NoFd})
        BY <1>23, <2>1 DEF PostOom
      <4>2. QED
        BY <4>1, TakeFromQueue
    <3>2. TypeOK'
      BY <1>23, <2>1, <3>1 DEF PostOom
    <3>3. QED
      BY <1>23, <2>1, <3>2 DEF PostOom
  <2>2. CASE rtOom # "skip"
    BY <1>23, <2>2 DEF PostOom, Stops
  <2>3. QED
    BY <2>1, <2>2
<1>24. ASSUME PostedSend PROVE (TypeOK /\ HandsMatchPc)'
  BY <1>24 DEF PostedSend, Posted, Write, HandlerReturns
<1>25. ASSUME PostedFree PROVE (TypeOK /\ HandsMatchPc)'
  BY <1>25 DEF PostedFree, Posted, Free, HandlerReturns
<1>26. ASSUME PostedZero PROVE (TypeOK /\ HandsMatchPc)'
  BY <1>26 DEF PostedZero, Posted, Zero, Free, HandlerReturns
<1>27. ASSUME PostedStart PROVE (TypeOK /\ HandsMatchPc)'
  BY <1>27 DEF PostedStart, Posted, Zero, Free
<1>28. ASSUME NEW f \in Fds \cup {NoFd}, StartGames(f) PROVE (TypeOK /\ HandsMatchPc)'
  BY <1>28 DEF StartGames
<1>29. ASSUME TakeReply PROVE (TypeOK /\ HandsMatchPc)'
  BY <1>29 DEF TakeReply
<1>30. ASSUME NoReceiver PROVE (TypeOK /\ HandsMatchPc)'
  BY <1>30 DEF NoReceiver, Free
<1>31. ASSUME Transmit PROVE (TypeOK /\ HandsMatchPc)'
  BY <1>31 DEF Transmit
<1>32. ASSUME SendBreaks PROVE (TypeOK /\ HandsMatchPc)'
  BY <1>32 DEF SendBreaks
<1>33. ASSUME Release PROVE (TypeOK /\ HandsMatchPc)'
  BY <1>33 DEF Release, Zero, Free
<1>34. ASSUME NEW f \in Fds, PeerReads(f) PROVE (TypeOK /\ HandsMatchPc)'
  BY <1>34 DEF PeerReads
<1>35. ASSUME PeerResets PROVE (TypeOK /\ HandsMatchPc)'
  BY <1>35 DEF PeerResets
<1>90. ASSUME UNCHANGED vars PROVE (TypeOK /\ HandsMatchPc)'
  BY <1>90 DEF vars
<1>91. ASSUME Handle PROVE (TypeOK /\ HandsMatchPc)'
  BY <1>91, <1>15, <1>16, <1>17, <1>18, <1>19, <1>20, HandlersThatPost, SMTT(30)
<1>92. ASSUME RecvTaskStep PROVE (TypeOK /\ HandsMatchPc)'
  BY <1>92, <1>14, <1>21, <1>22, <1>23, <1>24, <1>25, <1>26, <1>27, <1>28, <1>91
     DEF RecvTaskStep
<1>93. ASSUME EvloopStep PROVE (TypeOK /\ HandsMatchPc)'
  BY <1>93, <1>4, <1>5, <1>6, <1>7, <1>8, <1>9, <1>10, <1>11, <1>12, <1>13
     DEF EvloopStep
<1>94. ASSUME SendTaskStep PROVE (TypeOK /\ HandsMatchPc)'
  BY <1>94, <1>29, <1>30, <1>31, <1>32, <1>33 DEF SendTaskStep
<1>95. QED
  BY <1>1, <1>2, <1>3, <1>34, <1>35, <1>90, <1>92, <1>93, <1>94
     DEF Next, Clients, Gone

\* Pipeline!TypeOK is an invariant: no variable leaves its type.
THEOREM TypeCorrect == Spec => [](TypeOK /\ HandsMatchPc)
<1>1. Init => TypeOK /\ HandsMatchPc
  BY PipelineAssumption
     DEF Init, TypeOK, HandsMatchPc, Buf, NoBuf, NoFd
<1>2. TypeOK /\ HandsMatchPc /\ [Next]_vars => (TypeOK /\ HandsMatchPc)'
  BY StepKeepsTypes
<1>3. QED
  BY <1>1, <1>2, PTL DEF Spec

-----------------------------------------------------------------------------
(* Every Buf has exactly one owner.                                        *)

\* Each step moves at most one Buf from one owner to another.  The owners
\* are kept as sets: what a queue does to its set is said by AppendToQueue
\* and TakeFromQueue.
LEMMA StepKeepsOwners ==
    ASSUME TypeOK, HandsMatchPc, OneOwner
    PROVE  [Next]_vars => OneOwner'
<1> USE NoBufNoFd DEF OneOwner, InHands, EvHolds, RtHolds, StHolds, Running,
        single, bufs, ghosts, peers, ev, rt, st
<1>1. ASSUME NEW f \in Fds, Accept(f) PROVE OneOwner'
  BY <1>1 DEF Accept
<1>2. ASSUME NEW f \in Fds, Readable(f) PROVE OneOwner'
  <2>1. /\ Malloc /\ evBuf = NoBuf /\ evBuf' = Head(pool)
        /\ UNCHANGED <<recvqueue, sendqueue, lost, evCopy, rtBuf, rtCopy, stBuf>>
    BY <1>2 DEF Readable, NextRoom, CopyOf, HandsMatchPc
  <2>2. /\ IsInjective(pool') /\ Head(pool) \in Range(pool)
        /\ Range(pool') = Range(pool) \ {Head(pool)}
    BY <2>1, TakeFromQueue DEF Malloc, TypeOK
  <2>3. Head(pool) \in Buf
    BY <2>1, PrimitivesKeepTypes
  <2>4. QED
    BY <2>1, <2>2, <2>3
<1>3. ASSUME PoolDry PROVE OneOwner'
  BY <1>3 DEF PoolDry, Stops
<1>4. ASSUME Received PROVE OneOwner'
  <2>1. /\ evBuf \in Buf /\ recvqueue' = Append(recvqueue, evBuf) /\ evBuf' = NoBuf
        /\ UNCHANGED <<pool, sendqueue, lost, evCopy, rtBuf, rtCopy, stBuf>>
    BY <1>4 DEF Received, Write, SetFd, HandsMatchPc, TypeOK
  <2>2. IsInjective(recvqueue') /\ Range(recvqueue') = Range(recvqueue) \cup {evBuf}
    BY <2>1, AppendToQueue DEF TypeOK
  <2>3. QED
    BY <2>1, <2>2, ZenonT(60)
<1>5. ASSUME RecvFails PROVE OneOwner'
  <2>1. /\ evBuf \in Buf /\ lost' = lost \cup {evBuf} /\ evBuf' = NoBuf
        /\ UNCHANGED <<pool, recvqueue, sendqueue, evCopy, rtBuf, rtCopy, stBuf>>
    BY <1>5 DEF RecvFails, Handling, HandlerReturns, HandsMatchPc, TypeOK
  <2>2. QED
    BY <2>1
<1>6. ASSUME NEW s \in Rosters, TeacherGone(s) PROVE OneOwner'
  BY <1>6 DEF TeacherGone, NextRoom
<1>7. ASSUME NEW s \in Rosters, StudentGone(s) PROVE OneOwner'
  <2>1. /\ Malloc /\ evBuf = NoBuf /\ evBuf' = Head(pool)
        /\ UNCHANGED <<recvqueue, sendqueue, lost, evCopy, rtBuf, rtCopy, stBuf>>
    BY <1>7 DEF StudentGone, NextRoom, CopyOf, HandsMatchPc
  <2>2. /\ IsInjective(pool') /\ Head(pool) \in Range(pool)
        /\ Range(pool') = Range(pool) \ {Head(pool)}
    BY <2>1, TakeFromQueue DEF Malloc, TypeOK
  <2>3. Head(pool) \in Buf
    BY <2>1, PrimitivesKeepTypes
  <2>4. QED
    BY <2>1, <2>2, <2>3
<1>8. ASSUME WhiteGone PROVE OneOwner'
  BY <1>8 DEF WhiteGone, NextRoom
<1>9. ASSUME NotifyMalloc PROVE OneOwner'
  <2>1. /\ Malloc /\ evCopy = NoBuf /\ evCopy' = Head(pool)
        /\ UNCHANGED <<recvqueue, sendqueue, lost, evBuf, rtBuf, rtCopy, stBuf>>
    BY <1>9 DEF NotifyMalloc, NextRoom, CopyOf, HandsMatchPc
  <2>2. /\ IsInjective(pool') /\ Head(pool) \in Range(pool)
        /\ Range(pool') = Range(pool) \ {Head(pool)}
    BY <2>1, TakeFromQueue DEF Malloc, TypeOK
  <2>3. Head(pool) \in Buf
    BY <2>1, PrimitivesKeepTypes
  <2>4. QED
    BY <2>1, <2>2, <2>3
<1>10. ASSUME NotifySend PROVE OneOwner'
  <2>1. /\ evCopy \in Buf /\ sendqueue' = Append(sendqueue, evCopy) /\ evCopy' = NoBuf
        /\ UNCHANGED <<pool, recvqueue, lost, evBuf, rtBuf, rtCopy, stBuf>>
    BY <1>10 DEF NotifySend, HandsMatchPc, TypeOK
  <2>2. IsInjective(sendqueue') /\ Range(sendqueue') = Range(sendqueue) \cup {evCopy}
    BY <2>1, AppendToQueue DEF TypeOK
  <2>3. QED
    BY <2>1, <2>2, ZenonT(60)
<1>11. ASSUME NotifyDone PROVE OneOwner'
  <2>1. CASE evBuf = NoBuf
    BY <1>11, <2>1 DEF NotifyDone
  <2>2. CASE evBuf # NoBuf
    <3>1. /\ evBuf \in Buf /\ evBuf \notin Range(pool)
          /\ Free(evBuf) /\ evBuf' = NoBuf
          /\ UNCHANGED <<recvqueue, sendqueue, lost, evCopy, rtBuf, rtCopy, stBuf>>
      BY <1>11, <2>2 DEF NotifyDone, TypeOK
    <3>2. IsInjective(pool') /\ Range(pool') = Range(pool) \cup {evBuf}
      BY <3>1, AppendToQueue DEF Free, TypeOK
    <3>3. QED
      BY <3>1, <3>2, <2>2
  <2>3. QED
    BY <2>1, <2>2
<1>12. ASSUME RoomsDone PROVE OneOwner'
  BY <1>12 DEF RoomsDone
<1>13. ASSUME EvloopOom PROVE OneOwner'
  BY <1>13 DEF EvloopOom, Stops
<1>14. ASSUME TakeMessage PROVE OneOwner'
  <2>1. /\ recvqueue # <<>> /\ rtBuf = NoBuf
        /\ rtBuf' = Head(recvqueue) /\ recvqueue' = Tail(recvqueue)
        /\ UNCHANGED <<pool, sendqueue, lost, evBuf, evCopy, rtCopy, stBuf>>
    BY <1>14 DEF TakeMessage, HandsMatchPc
  <2>2. /\ IsInjective(recvqueue') /\ Head(recvqueue) \in Range(recvqueue) /\ Head(recvqueue) \in Buf
        /\ Range(recvqueue') = Range(recvqueue) \ {Head(recvqueue)}
    BY <2>1, TakeFromQueue DEF TypeOK
  <2>3. QED
    BY <2>1, <2>2
<1>15. ASSUME Forget PROVE OneOwner'
  <2>1. /\ rtBuf \in Buf /\ lost' = lost \cup {rtBuf} /\ rtBuf' = NoBuf
        /\ UNCHANGED <<pool, recvqueue, sendqueue, evBuf, evCopy, rtCopy, stBuf>>
    BY <1>15 DEF Forget, Handling, HandlerReturns, HandsMatchPc, TypeOK
  <2>2. QED
    BY <2>1
<1>16. ASSUME Reject PROVE OneOwner'
  <2>1. /\ rtBuf \in Buf /\ pool' = Append(pool, rtBuf) /\ rtBuf' = NoBuf
        /\ UNCHANGED <<recvqueue, sendqueue, lost, evBuf, evCopy, rtCopy, stBuf>>
    BY <1>16 DEF Reject, Handling, HandlerReturns, Free, HandsMatchPc, TypeOK
  <2>2. IsInjective(pool') /\ Range(pool') = Range(pool) \cup {rtBuf}
    BY <2>1, AppendToQueue DEF TypeOK
  <2>3. QED
    BY <2>1, <2>2
<1>17. ASSUME Finish PROVE OneOwner'
  <2>1. /\ rtBuf \in Buf /\ pool' = Append(pool, rtBuf) /\ rtBuf' = NoBuf
        /\ UNCHANGED <<recvqueue, sendqueue, lost, evBuf, evCopy, rtCopy, stBuf>>
    BY <1>17 DEF Finish, Handling, HandlerReturns, Free, Zero, HandsMatchPc, TypeOK
  <2>2. IsInjective(pool') /\ Range(pool') = Range(pool) \cup {rtBuf}
    BY <2>1, AppendToQueue DEF TypeOK
  <2>3. QED
    BY <2>1, <2>2
<1>18. ASSUME HouseShare PROVE OneOwner'
  <2>1. CASE pool = <<>>
    <3>1. /\ rtBuf \in Buf /\ lost' = lost \cup {rtBuf} /\ rtBuf' = NoBuf
          /\ UNCHANGED <<pool, recvqueue, sendqueue, evBuf, evCopy, rtCopy, stBuf>>
      BY <1>18, <2>1 DEF HouseShare, Handling, HandlerReturns, HandsMatchPc, TypeOK
    <3>2. QED
      BY <3>1
  <2>2. CASE ~(pool = <<>>)
    BY <1>18, <2>2 DEF HouseShare, Stops
  <2>3. QED
    BY <2>1, <2>2
<1>19. ASSUME NEW f \in Fds \cup {NoFd}, Forward(f) PROVE OneOwner'
  <2>1. /\ rtBuf \in Buf /\ sendqueue' = Append(sendqueue, rtBuf) /\ rtBuf' = NoBuf
        /\ UNCHANGED <<pool, recvqueue, lost, evBuf, evCopy, rtCopy, stBuf>>
    BY <1>19 DEF Forward, Handling, HandlerReturns, Write, SetFd, HandsMatchPc, TypeOK
  <2>2. IsInjective(sendqueue') /\ Range(sendqueue') = Range(sendqueue) \cup {rtBuf}
    BY <2>1, AppendToQueue DEF TypeOK
  <2>3. QED
    BY <2>1, <2>2
<1>20. ASSUME NEW s \in Seq(Fds \cup {NoFd}), NEW then, NEW oom, Post(s, then, oom) PROVE OneOwner'
  BY <1>20 DEF Post, Handling
<1>21. ASSUME PostMalloc PROVE OneOwner'
  <2>1. /\ Malloc /\ rtCopy = NoBuf /\ rtCopy' = Head(pool)
        /\ UNCHANGED <<recvqueue, sendqueue, lost, evBuf, evCopy, rtBuf, stBuf>>
    BY <1>21 DEF PostMalloc, NextRoom, CopyOf, HandsMatchPc
  <2>2. /\ IsInjective(pool') /\ Head(pool) \in Range(pool)
        /\ Range(pool') = Range(pool) \ {Head(pool)}
    BY <2>1, TakeFromQueue DEF Malloc, TypeOK
  <2>3. Head(pool) \in Buf
    BY <2>1, PrimitivesKeepTypes
  <2>4. QED
    BY <2>1, <2>2, <2>3
<1>22. ASSUME PostSend PROVE OneOwner'
  <2>1. /\ rtCopy \in Buf /\ sendqueue' = Append(sendqueue, rtCopy) /\ rtCopy' = NoBuf
        /\ UNCHANGED <<pool, recvqueue, lost, evBuf, evCopy, rtBuf, stBuf>>
    BY <1>22 DEF PostSend, HandsMatchPc, TypeOK
  <2>2. IsInjective(sendqueue') /\ Range(sendqueue') = Range(sendqueue) \cup {rtCopy}
    BY <2>1, AppendToQueue DEF TypeOK
  <2>3. QED
    BY <2>1, <2>2, ZenonT(60)
<1>23. ASSUME PostOom PROVE OneOwner'
  <2>1. CASE rtOom = "skip"
    <3>1. UNCHANGED <<pool, recvqueue, sendqueue, lost, evBuf, evCopy, rtBuf, rtCopy,
                      stBuf>>
      BY <1>23, <2>1 DEF PostOom
    <3>2. QED
      BY <3>1
  <2>2. CASE ~(rtOom = "skip")
    BY <1>23, <2>2 DEF PostOom, Stops
  <2>3. QED
    BY <2>1, <2>2
<1>24. ASSUME PostedSend PROVE OneOwner'
  <2>1. /\ rtBuf \in Buf /\ sendqueue' = Append(sendqueue, rtBuf) /\ rtBuf' = NoBuf
        /\ UNCHANGED <<pool, recvqueue, lost, evBuf, evCopy, rtCopy, stBuf>>
    BY <1>24 DEF PostedSend, Posted, Write, HandlerReturns, HandsMatchPc, TypeOK
  <2>2. IsInjective(sendqueue') /\ Range(sendqueue') = Range(sendqueue) \cup {rtBuf}
    BY <2>1, AppendToQueue DEF TypeOK
  <2>3. QED
    BY <2>1, <2>2
<1>25. ASSUME PostedFree PROVE OneOwner'
  <2>1. /\ rtBuf \in Buf /\ pool' = Append(pool, rtBuf) /\ rtBuf' = NoBuf
        /\ UNCHANGED <<recvqueue, sendqueue, lost, evBuf, evCopy, rtCopy, stBuf>>
    BY <1>25 DEF PostedFree, Posted, Free, HandlerReturns, HandsMatchPc, TypeOK
  <2>2. IsInjective(pool') /\ Range(pool') = Range(pool) \cup {rtBuf}
    BY <2>1, AppendToQueue DEF TypeOK
  <2>3. QED
    BY <2>1, <2>2
<1>26. ASSUME PostedZero PROVE OneOwner'
  <2>1. /\ rtBuf \in Buf /\ pool' = Append(pool, rtBuf) /\ rtBuf' = NoBuf
        /\ UNCHANGED <<recvqueue, sendqueue, lost, evBuf, evCopy, rtCopy, stBuf>>
    BY <1>26 DEF PostedZero, Posted, Zero, Free, HandlerReturns, HandsMatchPc, TypeOK
  <2>2. IsInjective(pool') /\ Range(pool') = Range(pool) \cup {rtBuf}
    BY <2>1, AppendToQueue DEF TypeOK
  <2>3. QED
    BY <2>1, <2>2
<1>27. ASSUME PostedStart PROVE OneOwner'
  <2>1. /\ rtBuf \in Buf /\ pool' = Append(pool, rtBuf) /\ rtBuf' = NoBuf
        /\ UNCHANGED <<recvqueue, sendqueue, lost, evBuf, evCopy, rtCopy, stBuf>>
    BY <1>27 DEF PostedStart, Posted, Zero, Free, HandsMatchPc, TypeOK
  <2>2. IsInjective(pool') /\ Range(pool') = Range(pool) \cup {rtBuf}
    BY <2>1, AppendToQueue DEF TypeOK
  <2>3. QED
    BY <2>1, <2>2
<1>28. ASSUME NEW f \in Fds \cup {NoFd}, StartGames(f) PROVE OneOwner'
  BY <1>28 DEF StartGames
<1>29. ASSUME TakeReply PROVE OneOwner'
  <2>1. /\ sendqueue # <<>> /\ stBuf = NoBuf
        /\ stBuf' = Head(sendqueue) /\ sendqueue' = Tail(sendqueue)
        /\ UNCHANGED <<pool, recvqueue, lost, evBuf, evCopy, rtBuf, rtCopy>>
    BY <1>29 DEF TakeReply, HandsMatchPc
  <2>2. /\ IsInjective(sendqueue') /\ Head(sendqueue) \in Range(sendqueue) /\ Head(sendqueue) \in Buf
        /\ Range(sendqueue') = Range(sendqueue) \ {Head(sendqueue)}
    BY <2>1, TakeFromQueue DEF TypeOK
  <2>3. QED
    BY <2>1, <2>2
<1>30. ASSUME NoReceiver PROVE OneOwner'
  <2>1. /\ stBuf \in Buf /\ pool' = Append(pool, stBuf) /\ stBuf' = NoBuf
        /\ UNCHANGED <<recvqueue, sendqueue, lost, evBuf, evCopy, rtBuf, rtCopy>>
    BY <1>30 DEF NoReceiver, Free, HandsMatchPc, TypeOK
  <2>2. IsInjective(pool') /\ Range(pool') = Range(pool) \cup {stBuf}
    BY <2>1, AppendToQueue DEF TypeOK
  <2>3. QED
    BY <2>1, <2>2
<1>31. ASSUME Transmit PROVE OneOwner'
  BY <1>31 DEF Transmit
<1>32. ASSUME SendBreaks PROVE OneOwner'
  BY <1>32 DEF SendBreaks
<1>33. ASSUME Release PROVE OneOwner'
  <2>1. /\ stBuf \in Buf /\ pool' = Append(pool, stBuf) /\ stBuf' = NoBuf
        /\ UNCHANGED <<recvqueue, sendqueue, lost, evBuf, evCopy, rtBuf, rtCopy>>
    BY <1>33 DEF Release, Zero, Free, HandsMatchPc, TypeOK
  <2>2. IsInjective(pool') /\ Range(pool') = Range(pool) \cup {stBuf}
    BY <2>1, AppendToQueue DEF TypeOK
  <2>3. QED
    BY <2>1, <2>2
<1>34. ASSUME NEW f \in Fds, PeerReads(f) PROVE OneOwner'
  BY <1>34 DEF PeerReads
<1>35. ASSUME PeerResets PROVE OneOwner'
  BY <1>35 DEF PeerResets
<1>90. ASSUME UNCHANGED vars PROVE OneOwner'
  BY <1>90 DEF vars
<1>91. ASSUME Handle PROVE OneOwner'
  BY <1>91, <1>15, <1>16, <1>17, <1>18, <1>19, <1>20, HandlersThatPost, ZenonT(60)
<1>92. ASSUME RecvTaskStep PROVE OneOwner'
  BY <1>92, <1>14, <1>21, <1>22, <1>23, <1>24, <1>25, <1>26, <1>27, <1>28, <1>91
     DEF RecvTaskStep
<1>93. ASSUME EvloopStep PROVE OneOwner'
  BY <1>93, <1>4, <1>5, <1>6, <1>7, <1>8, <1>9, <1>10, <1>11, <1>12, <1>13
     DEF EvloopStep
<1>94. ASSUME SendTaskStep PROVE OneOwner'
  BY <1>94, <1>29, <1>30, <1>31, <1>32, <1>33 DEF SendTaskStep
<1>95. QED
  BY <1>1, <1>2, <1>3, <1>34, <1>35, <1>90, <1>92, <1>93, <1>94
     DEF Next, Clients, Gone

\* Pipeline!OneOwner is an invariant: no Buf is freed twice, handed to two
\* messages, or enqueued while it is free, whatever the handlers do.
THEOREM EveryBufHasOneOwner == Spec => []OneOwner
<1>1. Init => OneOwner
  <2>1. SUFFICES ASSUME Init PROVE OneOwner
    OBVIOUS
  <2>2. IsInjective(pool) /\ Range(pool) = Buf
    BY <2>1 DEF Init, IsInjective, Range
  <2>3. IsInjective(<<>>) /\ Range(<<>>) = {}
    BY DEF IsInjective, Range
  <2>4. QED
    BY <2>1, <2>2, <2>3, NoBufNoFd
       DEF Init, OneOwner, InHands, EvHolds, RtHolds, StHolds
<1>2. TypeOK /\ HandsMatchPc /\ OneOwner /\ [Next]_vars => OneOwner'
  BY StepKeepsOwners
<1>3. QED
  BY <1>1, <1>2, TypeCorrect, PTL DEF Spec

-----------------------------------------------------------------------------
(* Only shared blocks hold another message's text.                         *)

Ready == ToSend \cup Copies

\* A step that changes no Buf, and readies none, keeps blocks apart.
LEMMA QuietSteps ==
    ASSUME BlocksApart, UNCHANGED bufs, UNCHANGED shared, Ready' \subseteq Ready
    PROVE  BlocksApart'
  BY DEF BlocksApart, bufs, Ready

\* Writing through one Buf does not reach another one's block unless the two
\* share it: x is overwritten by t, and may be readied if t is its own text.
LEMMA OverwritingSteps ==
    ASSUME TypeOK, BlocksApart, NEW x \in Buf, NEW t,
           text' = [text EXCEPT ![ptr[x]] = t], UNCHANGED <<ptr, shared>>,
           Ready \subseteq Buf, Ready' \subseteq Ready \cup {x},
           x \in Ready' => t = x
    PROVE  BlocksApart'
<1>1. ASSUME NEW b \in Buf, b # x, ptr[b] \notin shared
      PROVE  text'[b] = text[b]
  <2>1. ptr[b] = b /\ b \notin shared
    BY <1>1 DEF BlocksApart
  <2>2. ptr[x] # b
    BY <1>1, <2>1 DEF BlocksApart
  <2>3. QED
    BY <2>2 DEF TypeOK
<1>2. ASSUME x \in Ready', ptr[x] \notin shared
      PROVE  text'[x] = x
  BY <1>2 DEF BlocksApart, TypeOK
<1>3. ASSUME NEW b \in Ready', ptr[b] \notin shared
      PROVE  text'[b] = b
  <2>1. CASE b = x
    BY <1>2, <1>3, <2>1
  <2>2. CASE b # x
    BY <1>1, <1>3, <2>2 DEF BlocksApart, Ready
  <2>3. QED
    BY <2>1, <2>2
<1>4. \A b \in Buf : ptr'[b] \notin shared' => ptr'[b] = b
  BY DEF BlocksApart
<1>5. QED
  BY <1>3, <1>4 DEF BlocksApart, Ready

\* The copy that a notice makes, unless it is empty, is of a block that is marked
\* as shared.
LEMMA SharingSteps ==
    ASSUME TypeOK, BlocksApart, NEW p \in Buf, NEW pp \in Buf, CopyOf(pp, p),
           text[ptr[p]] # NoBuf,
           Ready \subseteq Buf, Ready' \subseteq Ready \cup {pp}
    PROVE  BlocksApart'
<1>1. /\ \A b \in Buf : ptr'[b] \notin shared' => b # pp /\ ptr'[b] = ptr[b]
      /\ shared \subseteq shared' /\ text' = text
  BY DEF CopyOf, TypeOK
<1>2. QED
  BY <1>1 DEF BlocksApart, Ready

\* The Bufs that SendTask will find, or has found, in sendqueue.
LEMMA ReadyBufs == TypeOK /\ HandsMatchPc => Ready \subseteq Buf
<1>1. SUFFICES ASSUME TypeOK, HandsMatchPc PROVE Ready \subseteq Buf
  OBVIOUS
<1>2. Range(sendqueue) \subseteq Buf
  BY <1>1 DEF Range, TypeOK
<1>3. QED
  BY <1>1, <1>2 DEF Ready, ToSend, Copies, TypeOK, HandsMatchPc

\* What a handler or Evloop holds outside of its copy is not ready.
LEMMA HeldBufs ==
    ASSUME TypeOK, HandsMatchPc, OneOwner
    PROVE  /\ evBuf \notin Ready /\ rtBuf \notin Ready
           /\ stPc # "send" => stBuf \notin Ready
           /\ \A b \in Range(pool) : b \notin Ready
<1>1. NoBuf \notin Ready
  BY ReadyBufs, NoBufNoFd
<1>2. QED
  BY <1>1 DEF Ready, ToSend, Copies, OneOwner, InHands, EvHolds, RtHolds, StHolds,
              HandsMatchPc

\* One step per action, by what it does to the Bufs and to what is ready.
LEMMA StepKeepsBlocks ==
    ASSUME TypeOK, HandsMatchPc, OneOwner, BlocksApart
    PROVE  [Next]_vars => BlocksApart'
<1> USE ReadyBufs, HeldBufs, NoBufNoFd
<1> USE DEF Ready, ToSend, Copies, Running, single, bufs, ghosts, peers, ev, rt, st
<1>1. ASSUME NEW f \in Fds, Accept(f) PROVE BlocksApart'
  BY <1>1, QuietSteps DEF Accept
<1>2. ASSUME NEW f \in Fds, Readable(f) PROVE BlocksApart'
  BY <1>2, QuietSteps DEF Readable
<1>3. ASSUME PoolDry PROVE BlocksApart'
  BY <1>3, QuietSteps DEF PoolDry, Stops
<1>4. ASSUME Received PROVE BlocksApart'
  <2>1. evBuf \in Buf /\ text' = [text EXCEPT ![ptr[evBuf]] = evBuf]
    BY <1>4 DEF Received, Write, HandsMatchPc, TypeOK
  <2>2. Ready' = Ready /\ UNCHANGED <<ptr, shared>>
    BY <1>4 DEF Received
  <2>3. QED
    BY <2>1, <2>2, OverwritingSteps
<1>5. ASSUME RecvFails PROVE BlocksApart'
  <2>1. Ready' = Ready /\ UNCHANGED <<fd, ptr, shared>> /\ evBuf \in Buf
    BY <1>5 DEF RecvFails, HandsMatchPc, TypeOK
  <2>2. CASE UNCHANGED text
    BY <2>1, <2>2, QuietSteps
  <2>3. CASE Write(evBuf)
    BY <2>1, <2>3, OverwritingSteps DEF Write
  <2>4. QED
    BY <1>5, <2>2, <2>3 DEF RecvFails
<1>6. ASSUME NEW s \in Rosters, TeacherGone(s) PROVE BlocksApart'
  BY <1>6, QuietSteps DEF TeacherGone, NextRoom
<1>7. ASSUME NEW s \in Rosters, StudentGone(s) PROVE BlocksApart'
  <2>1. evBuf' \in Buf /\ text' = [text EXCEPT ![ptr[evBuf']] = evBuf']
    BY <1>7, PrimitivesKeepTypes DEF StudentGone, Write
  <2>2. Ready' = Ready /\ UNCHANGED <<ptr, shared>>
    BY <1>7 DEF StudentGone
  <2>3. QED
    BY <2>1, <2>2, OverwritingSteps
<1>8. ASSUME WhiteGone PROVE BlocksApart'
  BY <1>8, QuietSteps DEF WhiteGone, NextRoom
<1>9. ASSUME NotifyMalloc PROVE BlocksApart'
  <2>1. evCopy' \in Buf /\ Ready' \subseteq Ready \cup {evCopy'}
    BY <1>9, PrimitivesKeepTypes DEF NotifyMalloc
  <2>2. CASE evBuf = NoBuf
    <3>1. text' = [text EXCEPT ![ptr[evCopy']] = evCopy'] /\ UNCHANGED <<ptr, shared>>
      BY <1>9, <2>2 DEF NotifyMalloc, Write
    <3>2. QED
      BY <2>1, <3>1, OverwritingSteps
  <2>3. CASE evBuf # NoBuf
    <3>1. evBuf \in Buf /\ CopyOf(evCopy', evBuf)
      BY <1>9, <2>3 DEF NotifyMalloc, TypeOK
    <3>2. CASE text[ptr[evBuf]] = NoBuf
      BY <2>1, <3>1, <3>2, OverwritingSteps DEF CopyOf, Write
    <3>3. CASE text[ptr[evBuf]] # NoBuf
      BY <2>1, <3>1, <3>3, SharingSteps
    <3>4. QED
      BY <3>2, <3>3
  <2>4. QED
    BY <2>2, <2>3
<1>10. ASSUME NotifySend PROVE BlocksApart'
  <2>1. Range(sendqueue') = Range(sendqueue) \cup {evCopy}
    BY <1>10, AppendToQueue DEF NotifySend, TypeOK
  <2>2. QED
    BY <1>10, <2>1, QuietSteps DEF NotifySend
<1>11. ASSUME NotifyDone PROVE BlocksApart'
  <2>1. Ready' = Ready /\ UNCHANGED <<fd, ptr, shared>>
    BY <1>11 DEF NotifyDone
  <2>2. CASE evBuf = NoBuf
    BY <1>11, <2>1, <2>2, QuietSteps DEF NotifyDone
  <2>3. CASE evBuf # NoBuf
    <3>1. evBuf \in Buf /\ text' = [text EXCEPT ![ptr[evBuf]] = NoBuf]
      BY <1>11, <2>3 DEF NotifyDone, Zero, TypeOK
    <3>2. QED
      BY <2>1, <3>1, OverwritingSteps
  <2>4. QED
    BY <2>2, <2>3
<1>12. ASSUME RoomsDone PROVE BlocksApart'
  BY <1>12, QuietSteps DEF RoomsDone
<1>13. ASSUME EvloopOom PROVE BlocksApart'
  BY <1>13, QuietSteps DEF EvloopOom, Stops
<1>14. ASSUME TakeMessage PROVE BlocksApart'
  BY <1>14, QuietSteps DEF TakeMessage
<1>15. ASSUME Forget PROVE BlocksApart'
  BY <1>15, QuietSteps DEF Forget, HandlerReturns
<1>16. ASSUME Reject PROVE BlocksApart'
  BY <1>16, QuietSteps DEF Reject, HandlerReturns
<1>17. ASSUME Finish PROVE BlocksApart'
  <2>1. rtBuf \in Buf /\ text' = [text EXCEPT ![ptr[rtBuf]] = NoBuf]
    BY <1>17 DEF Finish, Handling, Zero, HandsMatchPc, TypeOK
  <2>2. Ready' = Ready /\ UNCHANGED <<ptr, shared>>
    BY <1>17 DEF Finish, HandlerReturns
  <2>3. QED
    BY <2>1, <2>2, OverwritingSteps
<1>18. ASSUME HouseShare PROVE BlocksApart'
  BY <1>18, QuietSteps DEF HouseShare, HandlerReturns, Stops
<1>19. ASSUME NEW f \in Fds \cup {NoFd}, Forward(f) PROVE BlocksApart'
  <2>1. rtBuf \in Buf /\ text' = [text EXCEPT ![ptr[rtBuf]] = rtBuf]
    BY <1>19 DEF Forward, Handling, Write, HandsMatchPc, TypeOK
  <2>2. Range(sendqueue') = Range(sendqueue) \cup {rtBuf}
    BY <1>19, <2>1, AppendToQueue DEF Forward, TypeOK
  <2>3. Ready' \subseteq Ready \cup {rtBuf} /\ UNCHANGED <<ptr, shared>>
    BY <1>19, <2>2 DEF Forward, HandlerReturns
  <2>4. QED
    BY <2>1, <2>3, OverwritingSteps
<1>20. ASSUME NEW s \in Seq(Fds \cup {NoFd}), NEW then, NEW oom, Post(s, then, oom)
       PROVE  BlocksApart'
  BY <1>20, QuietSteps DEF Post
<1>21. ASSUME PostMalloc PROVE BlocksApart'
  <2>1. rtCopy' \in Buf /\ text' = [text EXCEPT ![ptr[rtCopy']] = rtCopy']
    BY <1>21, PrimitivesKeepTypes DEF PostMalloc, Write
  <2>2. Ready' \subseteq Ready \cup {rtCopy'} /\ UNCHANGED <<ptr, shared>>
    BY <1>21 DEF PostMalloc
  <2>3. QED
    BY <2>1, <2>2, OverwritingSteps
<1>22. ASSUME PostSend PROVE BlocksApart'
  <2>1. Range(sendqueue') = Range(sendqueue) \cup {rtCopy}
    BY <1>22, AppendToQueue DEF PostSend, TypeOK
  <2>2. QED
    BY <1>22, <2>1, QuietSteps DEF PostSend
<1>23. ASSUME PostOom PROVE BlocksApart'
  BY <1>23, QuietSteps DEF PostOom, Stops
<1>24. ASSUME PostedSend PROVE BlocksApart'
  <2>1. rtBuf \in Buf /\ text' = [text EXCEPT ![ptr[rtBuf]] = rtBuf]
    BY <1>24 DEF PostedSend, Posted, Write, HandsMatchPc, TypeOK
  <2>2. Range(sendqueue') = Range(sendqueue) \cup {rtBuf}
    BY <1>24, <2>1, AppendToQueue DEF PostedSend, TypeOK
  <2>3. Ready' \subseteq Ready \cup {rtBuf} /\ UNCHANGED <<ptr, shared>>
    BY <1>24, <2>2 DEF PostedSend, HandlerReturns
  <2>4. QED
    BY <2>1, <2>3, OverwritingSteps
<1>25. ASSUME PostedFree PROVE BlocksApart'
  BY <1>25, QuietSteps DEF PostedFree, HandlerReturns
<1>26. ASSUME PostedZero PROVE BlocksApart'
  <2>1. rtBuf \in Buf /\ text' = [text EXCEPT ![ptr[rtBuf]] = NoBuf]
    BY <1>26 DEF PostedZero, Posted, Zero, HandsMatchPc, TypeOK
  <2>2. Ready' = Ready /\ UNCHANGED <<ptr, shared>>
    BY <1>26 DEF PostedZero, HandlerReturns
  <2>3. QED
    BY <2>1, <2>2, OverwritingSteps
<1>27. ASSUME PostedStart PROVE BlocksApart'
  <2>1. rtBuf \in Buf /\ text' = [text EXCEPT ![ptr[rtBuf]] = NoBuf]
    BY <1>27 DEF PostedStart, Posted, Zero, HandsMatchPc, TypeOK
  <2>2. Ready' = Ready /\ UNCHANGED <<ptr, shared>>
    BY <1>27 DEF PostedStart
  <2>3. QED
    BY <2>1, <2>2, OverwritingSteps
<1>28. ASSUME NEW f \in Fds \cup {NoFd}, StartGames(f) PROVE BlocksApart'
  BY <1>28, QuietSteps DEF StartGames
<1>29. ASSUME TakeReply PROVE BlocksApart'
  <2>1. /\ Head(sendqueue) \in Range(sendqueue)
        /\ Range(sendqueue') = Range(sendqueue) \ {Head(sendqueue)}
    BY <1>29, TakeFromQueue DEF TakeReply, OneOwner, TypeOK
  <2>2. QED
    BY <1>29, <2>1, QuietSteps DEF TakeReply
<1>30. ASSUME NoReceiver PROVE BlocksApart'
  BY <1>30, QuietSteps DEF NoReceiver
<1>31. ASSUME Transmit PROVE BlocksApart'
  BY <1>31, QuietSteps DEF Transmit
<1>32. ASSUME SendBreaks PROVE BlocksApart'
  BY <1>32, QuietSteps DEF SendBreaks
<1>33. ASSUME Release PROVE BlocksApart'
  <2>1. stBuf \in Buf /\ text' = [text EXCEPT ![ptr[stBuf]] = NoBuf]
    BY <1>33 DEF Release, Zero, HandsMatchPc, TypeOK
  <2>2. /\ Ready' = Ready /\ UNCHANGED <<ptr, shared>>
        /\ stBuf \notin Ready
    BY <1>33 DEF Release
  <2>3. QED
    BY <2>1, <2>2, OverwritingSteps
<1>34. ASSUME NEW f \in Fds, PeerReads(f) PROVE BlocksApart'
  BY <1>34, QuietSteps DEF PeerReads
<1>35. ASSUME PeerResets PROVE BlocksApart'
  BY <1>35, QuietSteps DEF PeerResets
<1>90. ASSUME UNCHANGED vars PROVE BlocksApart'
  BY <1>90, QuietSteps DEF vars
<1>91. ASSUME Handle PROVE BlocksApart'
  BY <1>91, <1>15, <1>16, <1>17, <1>18, <1>19, <1>20, HandlersThatPost
<1>92. ASSUME RecvTaskStep PROVE BlocksApart'
  BY <1>92, <1>14, <1>21, <1>22, <1>23, <1>24, <1>25, <1>26, <1>27, <1>28, <1>91
     DEF RecvTaskStep
<1>93. ASSUME EvloopStep PROVE BlocksApart'
  BY <1>93, <1>4, <1>5, <1>6, <1>7, <1>8, <1>9, <1>10, <1>11, <1>12, <1>13
     DEF EvloopStep
<1>94. ASSUME SendTaskStep PROVE BlocksApart'
  BY <1>94, <1>29, <1>30, <1>31, <1>32, <1>33 DEF SendTaskStep
<1>95. QED
  BY <1>1, <1>2, <1>3, <1>34, <1>35, <1>90, <1>92, <1>93, <1>94
     DEF Next, Clients, Gone

\* Pipeline!IntactUnlessShared is an invariant: what waits to be sent still
\* has the text that was written for it, but for blocks that went through
\* memcpy (pp, p, ...) in the notice of a disconnect.
THEOREM MessagesStayIntact == Spec => []IntactUnlessShared
<1>1. Init => BlocksApart
  <2>1. SUFFICES ASSUME Init PROVE BlocksApart
    OBVIOUS
  <2>2. Range(<<>>) = {}
    BY DEF Range
  <2>3. QED
    BY <2>1, <2>2 DEF Init, BlocksApart, ToSend, Copies
<1>2. TypeOK /\ HandsMatchPc /\ OneOwner /\ BlocksApart /\ [Next]_vars => BlocksApart'
  BY StepKeepsBlocks
<1>3. TypeOK /\ HandsMatchPc /\ BlocksApart => IntactUnlessShared
  BY ReadyBufs DEF BlocksApart, IntactUnlessShared, Ready
<1>4. QED
  BY <1>1, <1>2, <1>3, TypeCorrect, EveryBufHasOneOwner, PTL DEF Spec

=============================================================================
