\* An owned partition whose client is gone.
CONSTANTS
  Partitions = {p1}
  Processors = {x, y}
  Unowned = Unowned
  Strategy = "Balanced"
  MaxChanges = 0
  Limits <- LoseItOnly
SPECIFICATION Spec
SYMMETRY ProcessorSymmetry
PROPERTIES WonIsServed
CHECK_DEADLOCK FALSE
