------------------------------ MODULE MCPuzzle ------------------------------
(* Puzzle for TLC.                                                         *)
EXTENDS Puzzle

\* One request in recvqueue, no whiteboard, and no descriptor in a room that its
\* client has left.
BareGame ==
    /\ strays = {} /\ Cardinality(backlog) <= 1
    /\ \A r \in Rooms : whiteFd[r] = NoFd
    /\ \A r \in Rooms : teacherName[r] = NoName => teacherFd[r] = NoFd

\* What the game does not depend on: lists of states and histories of ClassRoom.
WithoutLists == <<room, peer, rtPc, rtRoom, rtAt, evPc, evRoom, evAt, evFd, strays,
                  status, clock, game, scores, deserted, bystander>>
=============================================================================
