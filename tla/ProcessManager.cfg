SPECIFICATION Spec
CONSTANTS
    Pids = {p1, p2, p3}
    Nobody = Nobody
    Faults = {"open", "ftruncate", "write"}
INVARIANTS TypeOK LockNamesServer
PROPERTIES StopsTheServer StopWorks
