CONSTANTS
  Friends = {1}
  Cooldown = 1
  LongTime = 1
  Retention = 1
  MaxEvents <- OneEach
  Servers = {"x"}
  Renaming = {"x"}
  Names = {"ann", "bea"}
  MaxEdits = 1
  MaxFaults = 0
  MaxCommands = 2
  Called = {0}
  Types = {0}
  Fresh = 2
  MaxPreviews = 0
  MaxWhims = 0
  MaxSlips = 0
  Others = {"p"}
  Calls = {1}
  MaxMarred = 0
  Width = 1
  Height = 1
  MaxSide = 1
  MaxPixels = 4
SPECIFICATION MCSpec
PROPERTIES IdentityFollows
CHECK_DEADLOCK FALSE
