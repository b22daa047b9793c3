\* One entry can be answered in a scan; one failed fetch or translation, one quit.
CONSTANTS
  ReplyCap = 1
  MaxPosts = 2
  MaxDeletes = 1
  MaxFaults = 2
  Mixes <- Pairs
  Levels = {0, 6, 9}
  Batch = 1
  MaxFeedFaults = 1
  MaxQuits = 1
SPECIFICATION MCSpec
INVARIANTS EachOnce CardsTell
PROPERTIES AllServed CardsHold ScansCatchUp
CHECK_DEADLOCK FALSE
