---------------------------- MODULE MCBuildHouse ----------------------------
(* BuildHouse for TLC.                                                     *)
EXTENDS BuildHouse

\* At most one request in recvqueue, one descriptor that a room keeps too
\* long, and no teacher without a name.
SmallHouse ==
    /\ Cardinality(backlog) <= 1
    /\ Cardinality(strays) <= 1
    /\ \A r \in Rooms : teacherName[r] = NoName => teacherFd[r] = NoFd
    /\ \A r \in Rooms : whiteFd[r] = NoFd

\* What the game does not depend on: the lists of states that are sent, and who
\* was in the rooms at the same time.
HouseView == <<room, peer, rtPc, rtRoom, rtAt, evPc, evRoom, evAt, evFd, strays,
               status, house>>
=============================================================================
