\* One request at a time: three refresh tokens, two reset tokens, one verification token.
CONSTANTS
  r1 = r1  r2 = r2
  Requests = {r1}
  AutoVerify = TRUE
  MaxRefresh = 3
  MaxResets = 2
  MaxVerifications = 1
SPECIFICATION Spec
SYMMETRY Symmetry
INVARIANTS NoSessionOutlivesReset OneUsableReset
PROPERTIES ReuseDropsChain
