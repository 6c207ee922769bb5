\* Fair handlers: one user, two cards that share a question, two attempts, two requests at
\* once, of which one may be dropped half-way.
CONSTANTS
  u1 = u1  u2 = u2  c1 = c1  c2 = c2  q1 = q1  q2 = q2
  a1 = a1  a2 = a2  r1 = r1  r2 = r2  r3 = r3
  Users = {u1}
  Cards = {c1, c2}
  Questions = {q1, q2}
  CardQuestions <- TwoCards
  Attempts = {a1, a2}
  Requests = {r1, r2}
  CanCrash = {r1}
  NoUser = NoUser  NoCard = NoCard  NoAttempt = NoAttempt  NoQuestion = NoQuestion
SPECIFICATION FairSpec
INVARIANTS TypeOK GradeMatchesChoice FinishedFullyGraded ScoreIsEarned
PROPERTIES ScoreKeepsEarlierAnswers ImplementsExamSheet FinishCompletes
