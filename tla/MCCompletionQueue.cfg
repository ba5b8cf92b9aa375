\* Two operations, two producers; unbounded and bounded queues.
CONSTANTS
  Ops = {a, b}
  Writers = {u, v}
  Capacities <- AllCapacities
SPECIFICATION FairSpec
INVARIANTS InFlightInv UnboundedLosesNothing NoStuckThread CancelledWasRequested
PROPERTIES Delivers DrainCompletes CallsReturn
