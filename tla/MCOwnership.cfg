CONSTANTS
  Partitions = {p1, p2, p3}
  Processors = {x, y}
  Unowned = Unowned
  Strategy = "Balanced"
  MaxChanges = 2
SPECIFICATION OwnershipSpec
SYMMETRY Symmetric
INVARIANTS FreshInv TodoInv
PROPERTIES TakesExpiredOrRicher
CHECK_DEADLOCK FALSE
