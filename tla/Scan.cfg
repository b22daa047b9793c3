\* Up to five days, the second and fourth of them free.
CONSTANTS
  Files = {"a", "b"}
  Origin <- Copy
  Script <- Session
  MinCalls = 1
  MaxAttempts = 1
  MaxChan = 1
  MaxLines = 6
  MaxMishaps = 2
  MaxClicks = 1
  LastDay = 5
  Backlog = 3
  Lookback = 2
  SimilarBack = 4
  SimilarMax = 1
  Rest = {2, 4}
  Plans <- Each
  Findings = {1, 2}
  Drafts <- Laid
  PoolSize = 3
  LastNight = 1
  TalkScans = 2
  MaxWhims = 2
SPECIFICATION MCSpec
INVARIANTS LinesReadRight RaisedIsAnnounced CutInOrder TalkFits
PROPERTIES CountsOnce DiariesVary EventuallyWritten
