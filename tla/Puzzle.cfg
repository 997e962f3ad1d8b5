SPECIFICATION PuzzleSpec
CONSTANTS
    Fds = {1, 2}
    RoomCount = 1
    Names = {"T"}
    NoName = ""
    Sids = {}
INVARIANTS PuzzleTypeOK NullSeatNeedsDeserter NullClockNeedsBystander
PROPERTY WalksEnd
CONSTRAINT BareGame
VIEW WithoutLists
