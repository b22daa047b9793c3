\* Two machines of one user and one of another, one failure, one withdrawal;
\* one session in two days, two failures.
CONSTANTS
  Mates = {m1, m2, m3}
  BobsMate = m3
  Ann = ann
  Bob = bob
  Users = {ann, bob}
  UserOf <- Owner
  SearchLimit = 2
  MaxFaults = 1
  MaxWithdrawn = 1
  Struggles = {s1}
  MaxDay = 2
  MaxTurns = 2
  MaxPushFaults = 2
  MaxAdmin = 1
SPECIFICATION MCSpec
INVARIANTS PublishedOnce KnowledgeIsShared
PROPERTIES SharesEnd YesterdayGoesOut RecoveriesTold
CHECK_DEADLOCK FALSE
