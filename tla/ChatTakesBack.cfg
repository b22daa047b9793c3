CONSTANTS
  Questions <- Asked
  Letters = {"p"}
  Digits = {}
  Coaching = {}
  Quantity = {}
  CallLists <- NoCalls
  SizeOf <- NoSizes
  Blank = "blank"
  Broken = "broken"
  Nameless = "nameless"
  MaxMemories = 1
  MaxMemoryChars = 1
  MaxHistory = 2
  MaxRounds = 1
  MaxSends = 2
  MaxFailures = 1
  MaxEdits = 0
  MaxLeaves = 1
SPECIFICATION ChatSpec
INVARIANT TakesBackItsOwn
CHECK_DEADLOCK FALSE
