CONSTANTS
  Agents = {a1, a2}
  Nobody = Nobody
  GridW = 3
  GridH = 3
  FloorDepth = 3
  Spawn <- MCSpawn
  Pieces <- AllPieces
  LegacyDesigns <- OldDesigns
  SessionWindow = 1
  VisitsMax = 1
  MaxTime = 0
  MaxFaults = 0
  Host = host
  VisitTime = 2
  VisitFaults = 2
SPECIFICATION MCSpec
SYMMETRY Sym
INVARIANTS RoomsFit NothingToLose VisitLogKept
PROPERTIES OnlyInvalidRelocated
