\* One request at a time, two sessions that share two cards, any focus.
CONSTANTS
  c1 = c1  c2 = c2  c3 = c3  c4 = c4  s1 = s1  s2 = s2  r1 = r1  r2 = r2
  Cards = {c1, c2}
  Pools <- TwoPools
  Sessions = {s1, s2}
  Requests = {r1}
  Focuses = {"none", "NEW", "HARD", "LEARNING", "EASY"}
  MaxReviews = 4
  NoSession = NoSession  NoCard = NoCard
SPECIFICATION Spec
SYMMETRY Symmetry
INVARIANTS ReviewsCounted
PROPERTIES LeavesOnSecondEasy
