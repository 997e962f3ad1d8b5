SPECIFICATION Spec
CONSTANTS
    Fds = {4, 5}
    Sizes = {1, 2}
    Room = 2
    MaxConns = 3
    MaxPosts = 2
INVARIANTS TypeOK WholeAndInOrder OnlyHeirsGetTails
PROPERTY EveryPostEnds
CHECK_DEADLOCK FALSE
