\* Two requests, each of which may be challenged once.
SPECIFICATION FairSpec
CONSTANTS
  Requests = {r1, r2}
  NoRequest = NoRequest
  Challenges = TRUE
INVARIANTS LockInv NoStampede
PROPERTIES RequestsComplete
CHECK_DEADLOCK FALSE
