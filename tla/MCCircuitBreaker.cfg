SPECIFICATION FairSpec
CONSTANTS
  a = a
  b = b
  Ops = {a, b}
  Configs <- Accounts
INVARIANT OverrideAvoidsFailed
PROPERTIES RemovedForCause FailsBack
