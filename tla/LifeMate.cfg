CONSTANTS
  Friends = {1, 2}
  Cooldown = 2
  LongTime = 3
  Retention = 5
  MaxEvents <- OneEach
  Servers = {"x", "y"}
  Renaming = {"x"}
  Names = {"ann", "bea"}
  MaxEdits = 1
  MaxFaults = 1
  MaxCommands = 3
  Called = {0, 1}
  Types = {0}
  Fresh = 2
  MaxPreviews = 2
  MaxWhims = 1
  MaxSlips = 1
  Others = {"p", "q"}
  Calls = {1, 2}
  MaxMarred = 2
  Width = 3
  Height = 4
  MaxSide = 24
  MaxPixels = 400
SPECIFICATION MCSpec
INVARIANTS NothingMisplaced PicturesFit
PROPERTIES EntriesSpaced LooksKept RoundsEnd SameRoomAgain FaceFollows
CHECK_DEADLOCK FALSE
