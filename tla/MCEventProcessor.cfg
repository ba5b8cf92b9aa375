\* Two processors and one partition: reading on, restarts, losing it, regaining it.
CONSTANTS
  Partitions = {p1}
  Processors = {x, y}
  Unowned = Unowned
  Strategy = "Balanced"
  MaxChanges = 2
  Limits <- AllLimits
SPECIFICATION Spec
SYMMETRY ProcessorSymmetry
INVARIANTS RevokedYieldsOnce NoEventSkipped OneOpenClient MapHasOpenClients
PROPERTY KeepsToOwnership
CHECK_DEADLOCK FALSE
