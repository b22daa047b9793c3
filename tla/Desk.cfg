CONSTANTS
  N = 3
  Similar <- Star
  MaxCount = 2
  BatchLimit = 2
  MaxAttempts = 1
  Legacy <- FirstKey
  VerdictCount = 2
  Tries = 2
  Clients = {c1, c2}
  Pages = {p1, p2, p3, p4}
  Stranger = p4
  Home = home
  Away = away
  Spaces = {home, away}
  SpaceOf <- OneAway
  Root = Root
  MaxRequests = 5
  Cards = {"A", "B"}
  NormsOf <- NormsOfCards
  Title <- Titles
  Suggested <- Suggestions
  Replies <- OneReply
  Sessions = {1}
  SlugLimit = 2
  MaxPrompts = 2
  MaxDrafts = 2
  MaxSaves = 2
  OldFindings = {"R1", "R11"}
  MaxTurns = 2
  Questions <- Asked
  Letters <- Ascii
  Digits = {"1"}
  Coaching <- CoachingMarks
  Quantity <- NumberMarks
  CallLists <- Calls
  SizeOf <- Sizes
  Blank = "blank"
  Broken = "broken"
  Nameless = "nameless"
  MaxMemories = 2
  MaxMemoryChars = 7
  MaxHistory = 2
  MaxRounds = 2
  MaxSends = 2
  MaxFailures = 1
  MaxEdits = 1
  MaxLeaves = 1
SPECIFICATION MCSpec
INVARIANTS ShownWasApproved TreeHolds SkillsSafe ChatHolds
PROPERTIES DecisionsHold RetiredForGood LadderClimbs VerdictsComeEventually
CHECK_DEADLOCK FALSE
