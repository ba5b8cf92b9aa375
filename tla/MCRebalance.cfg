\* Three processors, each with either strategy, share four partitions.
SPECIFICATION FairGroupSpec
CONSTANTS
  Processors = {a, b, c}
  Partitions = {p1, p2, p3, p4}
  Unowned = Unowned
  MaxTurnover = 2
PROPERTIES Converges NoThrash StealsFromRicher
CHECK_DEADLOCK FALSE
