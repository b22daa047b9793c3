CONSTANTS
  Plugins = {"docs"}
  Served = {"docs"}
  Catalog = {"docs"}
  Sessions = {"s1", "s2"}
  MinMatched = 2
  JudgeBatch = 1
  MaxTries = 1
  WindowDays = 0
  MaxDay = 2
  MaxMoves = 2
  OpusSessions = {1, 2, 3}
  Silent = {3}
  MinConfirmed = 1
  BurstTurns = 1
  BurstSessions = 3
  CandidateWindow = 1
  AskLimit = 2
  MaxAttempts = 2
  MaxClock = 3
  MaxWork = 3
  MaxDisposals = 1
SPECIFICATION Spec
PROPERTIES AdviceFits AdviceSettles CardGoes DispositionOutlivesRollup
CHECK_DEADLOCK FALSE
