CONSTANTS
  a = a
  b = b
  r = r
  Patches = {a, b}
  ReadRegions = {r}
  Attempts <- Three
  MaxForeign = 1

SPECIFICATION Spec
SYMMETRY Symmetric
INVARIANTS EveryWriteCounts ReturnsPostImage ConflictsAreRaces
PROPERTY ReadsAdvance
CHECK_DEADLOCK FALSE
