SPECIFICATION Spec
CONSTANTS
    PoolSize = 2
    Fds = {1, 2}
    RoomCount = 1
    MaxPost = 2
INVARIANTS TypeOK OneOwner IntactUnlessShared
PROPERTIES FinitelyManyDisconnects ReceivedIsHandled SentIfClientsRead
