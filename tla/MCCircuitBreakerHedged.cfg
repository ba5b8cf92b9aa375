SPECIFICATION FairSpec
CONSTANTS
  a = a
  b = b
  Ops = {a, b}
  Configs <- Accounts
PROPERTY ProbesRestore
