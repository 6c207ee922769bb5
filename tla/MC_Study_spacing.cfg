\* One session of four cards, one request at a time, no focus.
CONSTANTS
  c1 = c1  c2 = c2  c3 = c3  c4 = c4  s1 = s1  s2 = s2  r1 = r1  r2 = r2
  Cards = {c1, c2, c3, c4}
  Pools <- WholePool
  Sessions = {s1}
  Requests = {r1}
  Focuses = {"none"}
  MaxReviews = 9
  NoSession = NoSession  NoCard = NoCard
SPECIFICATION Spec
SYMMETRY CardSymmetry
INVARIANTS OutIffMastered HardComesBack
