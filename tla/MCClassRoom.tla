---------------------------- MODULE MCClassRoom ----------------------------
(***************************************************************************)
(* ClassRoom for TLC.                                                      *)
(***************************************************************************)
EXTENDS ClassRoom

\* The rooms are built in memory that holds no descriptor of a client, and
\* no request outlives its client.
CleanStart == strays = {}

\* At most one stray descriptor, one request in recvqueue, and one room with a
\* teacher or a whiteboard at a time.
SmallSchool ==
    /\ Cardinality(strays) <= 1
    /\ Cardinality(backlog) <= 1
    /\ Cardinality({r \in Rooms : {teacherFd[r], whiteFd[r]} # {NoFd}}) <= 1

\* What is asked of a list: who is online, and whether it was torn.
Says(list) == <<OnlineIn(list), Torn \in list>>

\* Lists and the states of students matter as long as the two threads have
\* taken turns: after an overlap nothing more is claimed of them, and no walk
\* depends on them.
ListsInTurns ==
    <<[r \in Rooms |-> Seated(r)], teacherFd, teacherName, whiteFd, peer,
      rtPc, rtRoom, rtAt, evPc, evRoom, evAt, evFd, strays, overlap, status,
      IF overlap THEN <<>>
      ELSE <<seat, [f \in Fds |-> Says(view[f])], shared, Says(rtList), Says(evList)>>>>

\* SendTask keeps up: a message is sent before anybody else takes its block, so
\* that only the messages of one walk, which share one, tear each other.
PromptSender ==
    \A f \in Fds : view'[f] = {Torn} /\ view[f] # {Torn} => evPc = "tell" /\ evList = {Torn}
=============================================================================
