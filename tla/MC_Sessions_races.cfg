\* Two requests at once: three refresh tokens, one reset token, one verification token.
CONSTANTS
  r1 = r1  r2 = r2
  Requests = {r1, r2}
  AutoVerify = FALSE
  MaxRefresh = 3
  MaxResets = 1
  MaxVerifications = 1
SPECIFICATION Spec
SYMMETRY Symmetry
INVARIANTS OneLivePerLogin VerificationHolds TrailIsTrue
PROPERTIES SpendsUnusedLink
