\* The timer and an operation, two versions of the account.
SPECIFICATION FairSpec
CONSTANTS
  Timer = timer
  Operations = {o1}
  Regions = {r1}
  Endpoints = {e1}
  NoEndpoint = NoEndpoint
  MaxVersion = 2
  Limits <- AllLimits
INVARIANTS TypeOK SkipsAreSound
PROPERTIES MarksSurvive RoutingCatchesUp
CHECK_DEADLOCK FALSE
