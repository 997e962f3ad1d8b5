SPECIFICATION Spec
CONSTANTS
  Fds = {1, 2}
  RoomCount = 1
  Names = {"S", "T"}
  NoName = ""
  Sids = {7}
INVARIANT Current
CONSTRAINT CleanStart
