SPECIFICATION Spec
CONSTANTS
  Fds = {1, 2, 3}
  RoomCount = 1
  Names = {"T"}
  NoName = ""
  Sids = {7}
INVARIANT EachIsInformed
CONSTRAINT CleanStart
ACTION_CONSTRAINT PromptSender
