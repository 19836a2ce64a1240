SPECIFICATION RoomsSpec
CONSTANTS
  sp = sp
  room = room
  Rooms = {sp, room}
  Space = sp
  Others = {1, 2}
  NoAnswer = NoAnswer
  MaxChanges = 5
  MaxUses = 3
  Scenarios <- SomeScenarios
CHECK_DEADLOCK FALSE
INVARIANTS
  ListsAreCurrent
  CallsAreHeard
  ChildrenAreNamed
  InfoIsCurrent
  NotifiedOnce
