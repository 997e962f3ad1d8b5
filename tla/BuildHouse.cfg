SPECIFICATION HouseSpec
CONSTANTS
  Fds = {1, 2}
  RoomCount = 1
  Names = {"T"}
  NoName = ""
  Sids = {}
  MaxNodes = 2
CONSTRAINT SmallHouse
VIEW HouseView
INVARIANT HouseTypeOK
PROPERTIES IdsAreFresh AllSeatedJoin OrphansNeedHeir
