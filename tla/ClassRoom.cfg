SPECIFICATION Spec
CONSTANTS
  Fds = {1, 2}
  RoomCount = 2
  Names = {"T"}
  NoName = ""
  Sids = {7}
CONSTRAINT SmallSchool
VIEW ListsInTurns
INVARIANTS TypeOK SeatUnique GoneIsForgotten CurrentUnlessOverlap DanglesOnlyInOverlap
