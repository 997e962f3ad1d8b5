SPECIFICATION Spec
CONSTANTS
  PoolSize = 2
  Fds = {1, 2}
  RoomCount = 1
  MaxPost = 1
PROPERTY GamesStartForAsker
