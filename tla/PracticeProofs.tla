--------------------------- MODULE PracticeProofs ---------------------------
(***************************************************************************)
(* Proofs about Practice, for any users, cards, questions, attempts and    *)
(* number of concurrent requests.  The safety invariants are not inductive *)
(* on their own: what a handler read before an await must still be true    *)
(* enough when its next statement runs.  HandlerInv says what survives.    *)
(***************************************************************************)
EXTENDS Practice, FiniteSetTheorems, TLAPS

(* A row that was never inserted is blank, an inserted one has an owner and a card. *)
RowInv ==
  \A a \in Attempts :
    IF attempt[a].phase = "none"
    THEN attempt[a] = NoRow /\ item[a] = [q \in Questions |-> NewItem]
    ELSE /\ attempt[a].user \in Users /\ attempt[a].card \in Cards
         /\ attempt[a].total = Cardinality(Sheet(a))

(* Only questions of the attempt's card are ever graded. *)
GradedInSheet ==
  \A a \in Attempts, q \in Questions : item[a][q].grade # "null" => q \in Sheet(a)

AllGraded(a) == \A q \in Sheet(a) : item[a][q].grade # "null"

(* What a handler that read the attempt before still knows about it. *)
HandlerInv ==
  \A r \in Requests :
    /\ req[r].at = "insert" => req[r].user \in Users /\ req[r].card \in Cards
    /\ req[r].at \in {"record", "mark", "score", "write", "reply"} =>
         req[r].attempt \in Attempts /\ req[r].user \in Users /\ attempt[req[r].attempt].phase # "none"
    /\ req[r].at = "record" => req[r].question \in Sheet(req[r].attempt) /\ req[r].option \in Options
    /\ req[r].at \in {"mark", "score"} => req[r].before <= Score(req[r].attempt)
    /\ req[r].at \in {"score", "write", "reply"} => AllGraded(req[r].attempt)
    /\ req[r].at = "write" => /\ req[r].before <= req[r].score
                              /\ req[r].score <= Score(req[r].attempt)

ScoreBelowItems == \A a \in Attempts : Finished(a) => attempt[a].correct <= Score(a)

IInv ==
  /\ TypeOK
  /\ RowInv
  /\ GradedInSheet
  /\ GradeMatchesChoice
  /\ HandlerInv
  /\ FinishedFullyGraded
  /\ ScoreBelowItems

-----------------------------------------------------------------------------
(* A subset of the questions has a size, and a larger subset no smaller one: scores are
   sizes of such sets. *)
LEMMA SubsetSizes ==
  ASSUME NEW S, NEW T, S \subseteq T, T \subseteq Questions
  PROVE  Cardinality(S) \in Nat /\ Cardinality(T) \in Nat /\ Cardinality(S) <= Cardinality(T)
<1>1. IsFiniteSet(T)
  BY CardsAssumption, FS_Subset
<1> QED
  BY <1>1, FS_Subset, FS_CardinalityType

(* Every score is a natural number. *)
LEMMA ScoreType == \A a \in Attempts : Score(a) \in Nat
  BY SubsetSizes DEF Score, RightItems

(* The initial rows and handlers satisfy the inductive invariant. *)
LEMMA InitInv == Init => IInv
<1> SUFFICES ASSUME Init PROVE IInv
  OBVIOUS
<1> USE DEF Init, NoRow, NewItem, Idle
<1>1. TypeOK
  BY DEF TypeOK, AttemptRow, ItemRow, Handler, Phases, Grades, Options, Steps
<1>2. RowInv /\ GradedInSheet /\ GradeMatchesChoice
  BY DEF RowInv, GradedInSheet, GradeMatchesChoice
<1>3. HandlerInv
  BY DEF HandlerInv
<1>4. FinishedFullyGraded /\ ScoreBelowItems
  BY DEF FinishedFullyGraded, ScoreBelowItems, Finished
<1> QED
  BY <1>1, <1>2, <1>3, <1>4 DEF IInv

(* The types of the state are preserved. *)
LEMMA TypeStep == IInv /\ [Next]_vars => TypeOK'
<1> SUFFICES ASSUME IInv, [Next]_vars PROVE TypeOK'
  OBVIOUS
<1> USE DEF IInv, TypeOK, AttemptRow, ItemRow, Handler, Phases, Grades, Options, Steps
<1>1. ASSUME NEW r \in Requests, NEW u \in Users, NEW c \in Cards, CreateRead(r, u, c)
      PROVE  TypeOK'
  BY <1>1 DEF CreateRead, Idle
<1>2. ASSUME NEW r \in Requests, NEW a \in Attempts, CreateInsert(r, a)
      PROVE  TypeOK'
  <2>1. req[r].user \in Users /\ req[r].card \in Cards
    BY <1>2 DEF CreateInsert, HandlerInv
  <2>2. Cardinality(CardQuestions[req[r].card]) \in Nat
    BY <2>1, SubsetSizes, CardsAssumption
  <2> QED
    BY <1>2, <2>1, <2>2 DEF CreateInsert, Done, Idle
<1>3. ASSUME NEW r \in Requests, NEW u \in Users, NEW a \in Attempts, NEW q \in Questions,
             NEW o \in Options, AnswerRead(r, u, a, q, o)
      PROVE  TypeOK'
  BY <1>3 DEF AnswerRead, Idle
<1>4. ASSUME NEW r \in Requests, AnswerRecord(r) PROVE TypeOK'
  <2>1. req[r].attempt \in Attempts /\ req[r].option \in Options
    BY <1>4 DEF AnswerRecord, HandlerInv
  <2> QED
    BY <1>4, <2>1 DEF AnswerRecord, Done, Idle
<1>5. ASSUME NEW r \in Requests, NEW u \in Users, NEW a \in Attempts, FinishRead(r, u, a)
      PROVE  TypeOK'
  BY <1>5, ScoreType DEF FinishRead, Idle
<1>6. ASSUME NEW r \in Requests, FinishMark(r) PROVE TypeOK'
  <2>1. req[r].attempt \in Attempts
    BY <1>6 DEF FinishMark, HandlerInv
  <2>2. Marked(req[r].attempt) \in [Questions -> ItemRow]
    BY <2>1 DEF Marked
  <2>3. item' \in [Attempts -> [Questions -> ItemRow]]
    BY <1>6, <2>1, <2>2 DEF FinishMark
  <2>4. [req[r] EXCEPT !.at = "score"] \in Handler
    OBVIOUS
  <2> QED
    BY <1>6, <2>3, <2>4 DEF FinishMark
<1>7. ASSUME NEW r \in Requests, FinishScore(r) PROVE TypeOK'
  <2>1. req[r].attempt \in Attempts
    BY <1>7 DEF FinishScore, HandlerInv
  <2>2. [req[r] EXCEPT !.at = "write", !.score = Score(req[r].attempt)] \in Handler
    BY <2>1, ScoreType
  <2> QED
    BY <1>7, <2>2 DEF FinishScore
<1>8. ASSUME NEW r \in Requests, FinishWrite(r) PROVE TypeOK'
  <2>1. req[r].attempt \in Attempts
    BY <1>8 DEF FinishWrite, HandlerInv
  <2>2. Cardinality(Sheet(req[r].attempt)) \in Nat
    BY <2>1, SubsetSizes, CardsAssumption DEF Sheet
  <2>3. [attempt[req[r].attempt] EXCEPT !.phase = "finished", !.correct = req[r].score,
                                        !.total = Cardinality(Sheet(req[r].attempt))] \in AttemptRow
    <3> DEFINE row == attempt[req[r].attempt]
    <3>1. row \in [phase : Phases, user : Users \cup {NoUser}, card : Cards \cup {NoCard},
                   correct : Nat, total : Nat]
      BY <2>1
    <3>2. req[r].score \in Nat
      OBVIOUS
    <3> QED
      BY <3>1, <3>2, <2>2
  <2>4. [req[r] EXCEPT !.at = "reply"] \in Handler
    OBVIOUS
  <2>5. attempt' \in [Attempts -> AttemptRow]
    BY <1>8, <2>1, <2>3 DEF FinishWrite
  <2>6. Idle \in Handler
    BY DEF Idle
  <2>7. req' = [req EXCEPT ![r] = [req[r] EXCEPT !.at = "reply"]] \/ req' = [req EXCEPT ![r] = Idle]
    BY <1>8 DEF FinishWrite, Done
  <2>8. req' \in [Requests -> Handler]
    BY <2>4, <2>6, <2>7
  <2> QED
    BY <1>8, <2>5, <2>8 DEF FinishWrite
<1>9. ASSUME NEW r \in Requests, FinishReply(r) PROVE TypeOK'
  <2>1. req[r].user \in Users /\ attempt[req[r].attempt].card \in Cards
    BY <1>9 DEF FinishReply, HandlerInv, RowInv
  <2> QED
    BY <1>9, <2>1 DEF FinishReply, Done, Idle
<1>10. ASSUME NEW r \in Requests, Abandon(r) PROVE TypeOK'
  BY <1>10 DEF Abandon, Done, Idle
<1>11. ASSUME NEW u \in Users, NEW a \in Attempts, GetAttempt(u, a) PROVE TypeOK'
  BY <1>11 DEF GetAttempt, RowInv
<1>12. ASSUME NEW u \in Users, NEW c \in Cards, AnswerKey(u, c) PROVE TypeOK'
  BY <1>12 DEF AnswerKey
<1>13. CASE UNCHANGED vars
  BY <1>13 DEF vars
<1> QED
  BY <1>1, <1>2, <1>3, <1>4, <1>5, <1>6, <1>7, <1>8, <1>9, <1>10, <1>11, <1>12, <1>13
  DEF Next, Call, Continue, View

-----------------------------------------------------------------------------
(* Which statements write attempts, and which write attempt_items. *)
LEMMA Writers ==
  ASSUME [Next]_vars
  PROVE  /\ \/ attempt' = attempt
            \/ \E r \in Requests, a \in Attempts : CreateInsert(r, a)
            \/ \E r \in Requests : FinishWrite(r)
         /\ \/ item' = item
            \/ \E r \in Requests : AnswerRecord(r) \/ FinishMark(r)
  BY DEF Next, vars, Call, Continue, View, CreateRead, CreateInsert, AnswerRead, AnswerRecord,
         FinishRead, FinishMark, FinishScore, FinishWrite, FinishReply, Abandon, GetAttempt,
         AnswerKey

(* A row keeps its owner and card from its insertion on, and its result once finished. *)
LEMMA AttemptRowsGrow ==
  ASSUME IInv, [Next]_vars, NEW a \in Attempts
  PROVE  /\ attempt[a].phase # "none" =>
              /\ attempt'[a].phase # "none"
              /\ attempt'[a].user = attempt[a].user
              /\ attempt'[a].card = attempt[a].card
         /\ Finished(a) => attempt'[a] = attempt[a]
<1>1. ASSUME NEW r \in Requests, NEW b \in Attempts, CreateInsert(r, b)
      PROVE  attempt[a].phase # "none" => attempt'[a] = attempt[a]
  BY <1>1 DEF CreateInsert, IInv, TypeOK
<1>2. ASSUME NEW r \in Requests, FinishWrite(r)
      PROVE  \/ attempt'[a] = attempt[a]
             \/ /\ attempt[a].phase = "running" /\ attempt'[a].phase = "finished"
                /\ attempt'[a].user = attempt[a].user /\ attempt'[a].card = attempt[a].card
  <2> DEFINE b == req[r].attempt
  <2>1. attempt[a] \in AttemptRow /\ attempt \in [Attempts -> AttemptRow]
    BY DEF IInv, TypeOK
  <2>2. CASE attempt[b].phase = "running" /\ a = b
    <3>1. attempt'[a] = [attempt[a] EXCEPT !.phase = "finished", !.correct = req[r].score,
                                           !.total = Cardinality(Sheet(a))]
      BY <1>2, <2>1, <2>2 DEF FinishWrite
    <3> QED
      BY <3>1, <2>1, <2>2 DEF AttemptRow
  <2>3. CASE ~(attempt[b].phase = "running" /\ a = b)
    BY <1>2, <2>1, <2>3 DEF FinishWrite
  <2> QED
    BY <2>2, <2>3
<1> QED
  BY <1>1, <1>2, Writers DEF Finished

(* An item keeps its option and its correct grade, and is never ungraded again. *)
LEMMA ItemsGrow ==
  ASSUME IInv, [Next]_vars, NEW a \in Attempts, NEW q \in Questions
  PROVE  /\ item[a][q].chosen # "none" => item'[a][q] = item[a][q]
         /\ item[a][q].grade = "correct" => item'[a][q].grade = "correct"
         /\ item[a][q].grade # "null" => item'[a][q].grade # "null"
<1>1. ASSUME NEW r \in Requests, AnswerRecord(r)
      PROVE  \/ item'[a][q] = item[a][q]
             \/ item[a][q].chosen = "none" /\ item'[a][q].grade \in {"correct", "incorrect"}
  BY <1>1 DEF AnswerRecord, IInv, TypeOK, ItemRow
<1>2. ASSUME NEW r \in Requests, FinishMark(r)
      PROVE  \/ item'[a][q] = item[a][q]
             \/ item[a][q].chosen = "none" /\ item'[a][q].grade = "incorrect"
  BY <1>2 DEF FinishMark, Marked, IInv, TypeOK
<1>3. item[a][q].chosen = "none" => item[a][q].grade # "correct"
  BY DEF IInv, GradeMatchesChoice
<1> QED
  BY <1>1, <1>2, <1>3, Writers

(* Hence the sheet of an inserted attempt is fixed and its score never decreases. *)
LEMMA ScoreGrows ==
  ASSUME IInv, [Next]_vars, NEW a \in Attempts
  PROVE  /\ attempt[a].phase # "none" => Sheet(a)' = Sheet(a)
         /\ Score(a) \in Nat /\ Score(a)' \in Nat /\ Score(a) <= Score(a)'
<1>1. attempt[a].phase # "none" => Sheet(a)' = Sheet(a)
  BY AttemptRowsGrow DEF Sheet
<1>2. RightItems(a) \subseteq RightItems(a)' /\ RightItems(a)' \subseteq Questions
  BY ItemsGrow DEF RightItems
<1> QED
  BY <1>1, <1>2, SubsetSizes DEF Score

(* Statements that write items name an inserted attempt and a question of its sheet. *)
LEMMA ItemWritersOnSheet ==
  ASSUME IInv, [Next]_vars, NEW a \in Attempts, NEW q \in Questions, item'[a][q] # item[a][q]
  PROVE  attempt[a].phase # "none" /\ q \in Sheet(a)
<1>1. ASSUME NEW r \in Requests, AnswerRecord(r)
      PROVE  a = req[r].attempt /\ q = req[r].question
  BY <1>1 DEF AnswerRecord, IInv, TypeOK
<1>2. ASSUME NEW r \in Requests, AnswerRecord(r)
      PROVE  attempt[a].phase # "none" /\ q \in Sheet(a)
  BY <1>1, <1>2 DEF AnswerRecord, IInv, HandlerInv
<1>3. ASSUME NEW r \in Requests, FinishMark(r)
      PROVE  attempt[a].phase # "none" /\ q \in Sheet(a)
  <2>1. a = req[r].attempt
    BY <1>3 DEF FinishMark, IInv, TypeOK
  <2>2. item'[a][q] = Marked(a)[q]
    BY <1>3, <2>1 DEF FinishMark, IInv, TypeOK
  <2> QED
    BY <1>3, <2>1, <2>2 DEF FinishMark, Marked, IInv, HandlerInv
<1> QED
  BY <1>2, <1>3, Writers

(* A row without an attempt has no answers, and a finished one carries its total. *)
LEMMA RowStep == IInv /\ [Next]_vars => RowInv'
<1> SUFFICES ASSUME IInv, [Next]_vars, NEW a \in Attempts
             PROVE  IF attempt'[a].phase = "none"
                    THEN attempt'[a] = NoRow /\ item'[a] = [q \in Questions |-> NewItem]
                    ELSE /\ attempt'[a].user \in Users /\ attempt'[a].card \in Cards
                         /\ attempt'[a].total = Cardinality(Sheet(a)')
  BY DEF RowInv
<1> USE DEF IInv
<1>1. ASSUME NEW r \in Requests, NEW b \in Attempts, CreateInsert(r, b), attempt'[a] # attempt[a]
      PROVE  /\ attempt'[a].phase # "none"
             /\ attempt'[a].user \in Users /\ attempt'[a].card \in Cards
             /\ attempt'[a].total = Cardinality(Sheet(a)')
  <2>1. req[r].user \in Users /\ req[r].card \in Cards
    BY <1>1 DEF CreateInsert, HandlerInv
  <2>2. attempt'[a] = [phase |-> "running", user |-> req[r].user, card |-> req[r].card,
                       correct |-> 0, total |-> Cardinality(CardQuestions[req[r].card])]
    BY <1>1 DEF CreateInsert, TypeOK
  <2> QED
    BY <2>1, <2>2, CardsAssumption DEF Sheet
<1>2. ASSUME NEW r \in Requests, FinishWrite(r), attempt'[a] # attempt[a]
      PROVE  attempt[a].phase # "none" /\ attempt'[a].total = Cardinality(Sheet(a))
  <2>1. attempt[a] \in AttemptRow /\ attempt \in [Attempts -> AttemptRow]
    BY DEF TypeOK
  <2>2. attempt[a].phase = "running" /\ attempt'[a] =
          [attempt[a] EXCEPT !.phase = "finished", !.correct = req[r].score,
                             !.total = Cardinality(Sheet(a))]
    BY <1>2, <2>1 DEF FinishWrite
  <2> QED
    BY <2>1, <2>2 DEF AttemptRow
<1>3. CASE attempt[a].phase = "none"
  <2>1. item'[a] = item[a]
    <3>1. item \in [Attempts -> [Questions -> ItemRow]] /\ item' \in [Attempts -> [Questions -> ItemRow]]
      BY TypeStep DEF TypeOK
    <3>2. \A q \in Questions : item'[a][q] = item[a][q]
      BY <1>3, ItemWritersOnSheet
    <3> QED
      BY <3>1, <3>2
  <2>2. attempt[a] = NoRow /\ item[a] = [q \in Questions |-> NewItem]
    BY <1>3 DEF RowInv
  <2> QED
    BY <1>1, <1>2, <1>3, <2>1, <2>2, Writers
<1>4. CASE attempt[a].phase # "none"
  <2>1. attempt[a].user \in Users /\ attempt[a].card \in Cards
        /\ attempt[a].total = Cardinality(Sheet(a))
    BY <1>4 DEF RowInv
  <2>2. Sheet(a)' = Sheet(a)
    BY <1>4, ScoreGrows
  <2>3. attempt'[a].total = Cardinality(Sheet(a)')
    BY <1>1, <1>2, <2>1, <2>2, Writers
  <2> QED
    BY <1>4, <2>1, <2>3, AttemptRowsGrow
<1> QED
  BY <1>3, <1>4

(* Only questions of the sheet are ever graded. *)
LEMMA GradedInSheetStep == IInv /\ [Next]_vars => GradedInSheet'
<1> SUFFICES ASSUME IInv, [Next]_vars, NEW a \in Attempts, NEW q \in Questions,
                    item'[a][q].grade # "null"
             PROVE  q \in Sheet(a)'
  BY DEF GradedInSheet
<1>1. attempt[a].phase = "none" => item[a][q].grade = "null"
  BY DEF IInv, RowInv, NewItem
<1>2. attempt[a].phase # "none" /\ q \in Sheet(a)
  BY <1>1, ItemWritersOnSheet DEF IInv, GradedInSheet
<1> QED
  BY <1>2, ScoreGrows

(* Grades keep matching the options recorded. *)
LEMMA GradeStep == IInv /\ [Next]_vars => GradeMatchesChoice'
<1> SUFFICES ASSUME IInv, [Next]_vars, NEW a \in Attempts, NEW q \in Questions
             PROVE  /\ item'[a][q].chosen = "right" => item'[a][q].grade = "correct"
                    /\ item'[a][q].chosen = "wrong" => item'[a][q].grade = "incorrect"
                    /\ item'[a][q].chosen = "none"  => item'[a][q].grade # "correct"
  BY DEF GradeMatchesChoice
<1> USE DEF IInv
<1>1. ASSUME NEW r \in Requests, AnswerRecord(r), item'[a][q] # item[a][q]
      PROVE  \/ item'[a][q] = [chosen |-> "right", grade |-> "correct"]
             \/ item'[a][q] = [chosen |-> "wrong", grade |-> "incorrect"]
  <2>1. item \in [Attempts -> [Questions -> ItemRow]]
    BY DEF TypeOK
  <2>2. a = req[r].attempt /\ q = req[r].question
    BY <1>1, <2>1 DEF AnswerRecord
  <2>3. req[r].option \in Options
    BY <1>1 DEF AnswerRecord, HandlerInv
  <2>4. item' = [item EXCEPT ![a][q] =
                  [chosen |-> req[r].option,
                   grade  |-> IF req[r].option = "right" THEN "correct" ELSE "incorrect"]]
    BY <1>1, <2>2 DEF AnswerRecord
  <2> QED
    BY <2>1, <2>3, <2>4 DEF Options
<1>2. ASSUME NEW r \in Requests, FinishMark(r), item'[a][q] # item[a][q]
      PROVE  item'[a][q] = [chosen |-> "none", grade |-> "incorrect"]
  <2>1. item \in [Attempts -> [Questions -> ItemRow]]
    BY DEF TypeOK
  <2>2. a = req[r].attempt
    BY <1>2, <2>1 DEF FinishMark
  <2>3. item'[a][q] = Marked(a)[q]
    BY <1>2, <2>1, <2>2 DEF FinishMark
  <2> QED
    BY <1>2, <2>3 DEF Marked
<1>3. CASE item'[a][q] = item[a][q]
  BY <1>3 DEF GradeMatchesChoice
<1>4. CASE item'[a][q] # item[a][q]
  BY <1>1, <1>2, <1>4, Writers
<1> QED
  BY <1>3, <1>4

(* What the handlers know survives every step of the others, and each statement
   establishes what the next one of its handler needs. *)
LEMMA HandlerStep == IInv /\ [Next]_vars => HandlerInv'
<1> DEFINE Knows(r) ==
      /\ req[r].at = "insert" => req[r].user \in Users /\ req[r].card \in Cards
      /\ req[r].at \in {"record", "mark", "score", "write", "reply"} =>
           req[r].attempt \in Attempts /\ req[r].user \in Users /\ attempt[req[r].attempt].phase # "none"
      /\ req[r].at = "record" => req[r].question \in Sheet(req[r].attempt) /\ req[r].option \in Options
      /\ req[r].at \in {"mark", "score"} => req[r].before <= Score(req[r].attempt)
      /\ req[r].at \in {"score", "write", "reply"} => AllGraded(req[r].attempt)
      /\ req[r].at = "write" => /\ req[r].before <= req[r].score
                                /\ req[r].score <= Score(req[r].attempt)
<1> SUFFICES ASSUME IInv, [Next]_vars, NEW r \in Requests PROVE Knows(r)'
  BY DEF HandlerInv
<1> USE DEF IInv
<1>1. Knows(r)
  BY DEF HandlerInv
<1>2. req[r] \in Handler /\ req \in [Requests -> Handler]
  BY DEF TypeOK
<1>3. ASSUME NEW a \in Attempts, attempt[a].phase # "none", AllGraded(a)
      PROVE  AllGraded(a)'
  <2>1. Sheet(a)' = Sheet(a) /\ Sheet(a) \subseteq Questions
    BY <1>3, ScoreGrows, CardsAssumption DEF Sheet, RowInv
  <2> QED
    BY <1>3, <2>1, ItemsGrow DEF AllGraded
<1>4. CASE req'[r] = req[r]
  <2>1. CASE req[r].at \in {"record", "mark", "score", "write", "reply"}
    <3>1. PICK a \in Attempts : a = req[r].attempt /\ attempt[a].phase # "none"
      BY <1>1, <2>1
    <3>2. /\ attempt'[a].phase # "none" /\ Sheet(a)' = Sheet(a)
          /\ Score(a) \in Nat /\ Score(a)' \in Nat /\ Score(a) <= Score(a)'
      BY <3>1, AttemptRowsGrow, ScoreGrows
    <3>3. AllGraded(a) => AllGraded(a)'
      BY <3>1, <1>3
    <3>4. req[r].before \in Nat /\ req[r].score \in Nat
      BY <1>2 DEF Handler
    <3> QED
      BY <1>1, <1>4, <2>1, <3>1, <3>2, <3>3, <3>4
  <2>2. CASE req[r].at \notin {"record", "mark", "score", "write", "reply"}
    BY <1>1, <1>4, <2>2
  <2> QED
    BY <2>1, <2>2
<1>5. CASE req'[r] = Idle
  BY <1>5 DEF Idle
<1>6. ASSUME NEW u \in Users, NEW c \in Cards, CreateRead(r, u, c)
      PROVE  Knows(r)'
  BY <1>2, <1>6 DEF CreateRead, Idle
<1>7. ASSUME NEW u \in Users, NEW a \in Attempts, NEW q \in Questions, NEW o \in Options,
             AnswerRead(r, u, a, q, o)
      PROVE  Knows(r)'
  <2>1. req'[r] = [Idle EXCEPT !.at = "record", !.user = u, !.attempt = a,
                               !.question = q, !.option = o]
    BY <1>2, <1>7 DEF AnswerRead
  <2>2. Sheet(a)' = Sheet(a) /\ attempt'[a] = attempt[a]
    BY <1>7 DEF AnswerRead, Sheet
  <2> QED
    BY <1>7, <2>1, <2>2 DEF AnswerRead, Idle
<1>8. ASSUME NEW u \in Users, NEW a \in Attempts, FinishRead(r, u, a)
      PROVE  Knows(r)'
  <2>1. req'[r] = [Idle EXCEPT !.at = "mark", !.user = u, !.attempt = a, !.before = Score(a)]
    BY <1>2, <1>8 DEF FinishRead
  <2>2. Score(a)' = Score(a) /\ Score(a) \in Nat /\ attempt'[a] = attempt[a]
    BY <1>8, ScoreType DEF FinishRead, Score, RightItems
  <2> QED
    BY <1>8, <2>1, <2>2 DEF FinishRead, Idle
<1>9. CASE FinishMark(r)
  <2>1. PICK a \in Attempts : a = req[r].attempt /\ attempt[a].phase # "none"
    BY <1>1, <1>9 DEF FinishMark
  <2>2. req'[r] = [req[r] EXCEPT !.at = "score"]
    BY <1>2, <1>9 DEF FinishMark
  <2>3. req[r].before <= Score(a) /\ Score(a) <= Score(a)' /\ req[r].before \in Nat
        /\ Score(a) \in Nat /\ Score(a)' \in Nat
    BY <1>1, <1>2, <1>9, <2>1, ScoreGrows DEF FinishMark, Handler
  <2>4. AllGraded(a)'
    <3>1. Sheet(a)' = Sheet(a) /\ Sheet(a) \subseteq Questions
      BY <2>1, ScoreGrows, CardsAssumption DEF Sheet, RowInv
    <3>2. item'[a] = Marked(a)
      BY <1>9, <2>1 DEF FinishMark, TypeOK
    <3>3. \A q \in Sheet(a) : item[a][q].chosen # "none" => item[a][q].grade # "null"
      BY <3>1 DEF GradeMatchesChoice, TypeOK, ItemRow, Options
    <3> QED
      BY <3>1, <3>2, <3>3 DEF AllGraded, Marked
  <2>5. attempt'[a].phase # "none" /\ req[r].user \in Users
    BY <1>1, <1>9, <2>1, AttemptRowsGrow DEF FinishMark
  <2> QED
    BY <1>2, <2>1, <2>2, <2>3, <2>4, <2>5 DEF Handler
<1>10. CASE FinishScore(r)
  <2>1. PICK a \in Attempts : a = req[r].attempt /\ attempt[a].phase # "none"
    BY <1>1, <1>10 DEF FinishScore
  <2>2. req'[r] = [req[r] EXCEPT !.at = "write", !.score = Score(a)]
    BY <1>2, <1>10, <2>1 DEF FinishScore
  <2>3. Score(a)' = Score(a) /\ Score(a) \in Nat /\ req[r].before <= Score(a)
    BY <1>1, <1>10, <2>1, ScoreType DEF FinishScore, Score, RightItems
  <2>4. AllGraded(a)' /\ attempt'[a].phase # "none" /\ req[r].user \in Users
    BY <1>1, <1>3, <1>10, <2>1, AttemptRowsGrow DEF FinishScore
  <2> QED
    BY <1>2, <2>1, <2>2, <2>3, <2>4 DEF Handler
<1>11. CASE FinishWrite(r)
  <2>1. PICK a \in Attempts : a = req[r].attempt /\ attempt[a].phase # "none"
    BY <1>1, <1>11 DEF FinishWrite
  <2>2. req'[r] = [req[r] EXCEPT !.at = "reply"] \/ req'[r] = Idle
    BY <1>2, <1>11 DEF FinishWrite, Done
  <2>3. AllGraded(a)' /\ attempt'[a].phase # "none" /\ req[r].user \in Users
    BY <1>1, <1>3, <1>11, <2>1, AttemptRowsGrow DEF FinishWrite
  <2> QED
    BY <1>2, <1>5, <2>1, <2>2, <2>3 DEF Handler
<1>12. \/ req'[r] = req[r] \/ req'[r] = Idle
       \/ Call(r) \/ FinishMark(r) \/ FinishScore(r) \/ FinishWrite(r)
  <2>1. ASSUME NEW s \in Requests, s # r, Call(s) \/ Continue(s) \/ Abandon(s)
        PROVE  req'[r] = req[r]
    BY <1>2, <2>1 DEF Call, Continue, Abandon, CreateRead, CreateInsert, AnswerRead, AnswerRecord,
       FinishRead, FinishMark, FinishScore, FinishWrite, FinishReply, Done
  <2>2. ASSUME Continue(r) \/ Abandon(r)
        PROVE  req'[r] = Idle \/ FinishMark(r) \/ FinishScore(r) \/ FinishWrite(r)
    BY <1>2, <2>2 DEF Continue, Abandon, CreateInsert, AnswerRecord, FinishReply, Done
  <2>3. View \/ UNCHANGED vars => req'[r] = req[r]
    BY DEF View, GetAttempt, AnswerKey, vars
  <2>4. (\E s \in Requests : Call(s) \/ Continue(s) \/ Abandon(s)) \/ View \/ UNCHANGED vars
    BY DEF Next
  <2>5. CASE \E s \in Requests : s # r /\ (Call(s) \/ Continue(s) \/ Abandon(s))
    BY <2>1, <2>5
  <2> QED
    BY <2>2, <2>3, <2>4, <2>5
<1> QED
  BY <1>4, <1>5, <1>6, <1>7, <1>8, <1>9, <1>10, <1>11, <1>12 DEF Call

(* A finish writes its result only when every item of the sheet is graded, and a score
   the items still bear out. *)
LEMMA FinishStep == IInv /\ [Next]_vars => FinishedFullyGraded' /\ ScoreBelowItems'
<1> SUFFICES ASSUME IInv, [Next]_vars, NEW a \in Attempts, Finished(a)'
             PROVE  AllGraded(a)' /\ attempt'[a].correct <= Score(a)'
  BY DEF FinishedFullyGraded, ScoreBelowItems, AllGraded
<1> USE DEF IInv
<1>1. attempt[a].phase # "none" /\ AllGraded(a) /\ attempt'[a].correct <= Score(a)
      /\ attempt'[a].correct \in Nat
  <2>1. CASE Finished(a)
    <3>1. attempt'[a] = attempt[a]
      BY <2>1, AttemptRowsGrow
    <3> QED
      BY <2>1, <3>1 DEF Finished, FinishedFullyGraded, ScoreBelowItems, AllGraded, TypeOK, AttemptRow
  <2>2. CASE ~Finished(a)
    <3>1. PICK r \in Requests : FinishWrite(r)
      <4>1. ASSUME NEW r \in Requests, NEW b \in Attempts, CreateInsert(r, b)
            PROVE  attempt'[a] = attempt[a] \/ attempt'[a].phase = "running"
        BY <4>1 DEF CreateInsert, TypeOK
      <4> QED
        BY <2>2, <4>1, Writers DEF Finished
    <3>2. a = req[r].attempt /\ req[r].at = "write"
      BY <2>2, <3>1 DEF FinishWrite, Finished, TypeOK
    <3>3. attempt[a].phase # "none" /\ AllGraded(a) /\ req[r].score <= Score(a)
      BY <3>2 DEF HandlerInv
    <3>4. attempt[a] \in AttemptRow /\ req[r].score \in Nat
      BY DEF TypeOK, Handler
    <3>5. attempt'[a] = [attempt[a] EXCEPT !.phase = "finished", !.correct = req[r].score,
                                           !.total = Cardinality(Sheet(a))]
      BY <2>2, <3>1, <3>2 DEF FinishWrite, Finished, TypeOK
    <3> QED
      BY <3>3, <3>4, <3>5 DEF AttemptRow
  <2> QED
    BY <2>1, <2>2
<1>2. AllGraded(a)'
  <2>1. Sheet(a)' = Sheet(a) /\ Sheet(a) \subseteq Questions
    BY <1>1, ScoreGrows, CardsAssumption DEF Sheet, RowInv
  <2> QED
    BY <1>1, <2>1, ItemsGrow DEF AllGraded
<1> QED
  BY <1>1, <1>2, ScoreGrows

(* The invariant is inductive. *)
THEOREM Inductive == Spec => []IInv
<1>1. IInv /\ [Next]_vars => IInv'
  BY TypeStep, RowStep, GradedInSheetStep, GradeStep, HandlerStep, FinishStep DEF IInv
<1> QED
  BY InitInv, <1>1, PTL DEF Spec

(* Type correctness: every row of attempts and attempt_items and every handler's locals. *)
THEOREM TypeCorrect == Spec => []TypeOK
<1>1. IInv => TypeOK
  BY DEF IInv
<1> QED
  BY <1>1, Inductive, PTL

(* GradeMatchesChoice: no interleaving of answers and finishes leaves an item whose grade
   is not the one of its option. *)
THEOREM GradesCorrect == Spec => []GradeMatchesChoice
<1>1. IInv => GradeMatchesChoice
  BY DEF IInv
<1> QED
  BY <1>1, Inductive, PTL

(* FinishedFullyGraded: a finished attempt has no ungraded item. *)
THEOREM FullyGraded == Spec => []FinishedFullyGraded
<1>1. IInv => FinishedFullyGraded
  BY DEF IInv
<1> QED
  BY <1>1, Inductive, PTL

(* ScoreIsEarned: a stored score counts no more items than are graded correct, and no
   more than its total. *)
THEOREM ScoreSound == Spec => []ScoreIsEarned
<1>1. ASSUME IInv PROVE ScoreIsEarned
  <2> SUFFICES ASSUME NEW a \in Attempts, Finished(a)
               PROVE  attempt[a].correct <= Score(a) /\ attempt[a].correct <= attempt[a].total
    BY DEF ScoreIsEarned
  <2>1. attempt[a].correct <= Score(a) /\ attempt[a].correct \in Nat
    BY <1>1 DEF IInv, ScoreBelowItems, TypeOK, AttemptRow
  <2>2. attempt[a].total = Cardinality(Sheet(a)) /\ attempt[a].card \in Cards
    BY <1>1 DEF IInv, RowInv, Finished
  <2>3. RightItems(a) \subseteq Sheet(a) /\ Sheet(a) \subseteq Questions
    BY <1>1, <2>2, CardsAssumption DEF IInv, GradedInSheet, RightItems, Sheet
  <2>4. Score(a) \in Nat /\ Cardinality(Sheet(a)) \in Nat /\ Score(a) <= Cardinality(Sheet(a))
    BY <2>3, SubsetSizes DEF Score
  <2> QED
    BY <2>1, <2>2, <2>4
<1> QED
  BY <1>1, Inductive, PTL

(* AnsweredOnce: a recorded option is never replaced. *)
THEOREM AnswersStick == Spec => AnsweredOnce
<1>1. IInv /\ [Next]_vars =>
        [\A a \in Attempts, q \in Questions :
           item[a][q].chosen # "none" => item'[a][q].chosen = item[a][q].chosen]_vars
  BY ItemsGrow
<1> QED
  BY <1>1, Inductive, PTL DEF Spec, AnsweredOnce

(* ResultIsFinal: the row of a finished attempt never changes. *)
THEOREM ResultsStick == Spec => ResultIsFinal
<1>1. IInv /\ [Next]_vars => [\A a \in Attempts : Finished(a) => attempt'[a] = attempt[a]]_vars
  BY AttemptRowsGrow
<1> QED
  BY <1>1, Inductive, PTL DEF Spec, ResultIsFinal

(* ScoreKeepsEarlierAnswers: the score written counts every item that was right when the
   finish request read the attempt first. *)
THEOREM EarlierAnswersCount == Spec => ScoreKeepsEarlierAnswers
<1>1. ASSUME IInv, [Next]_vars, NEW r \in Requests, req[r].at = "write", req'[r].at = "reply"
      PROVE  attempt'[req[r].attempt].correct >= req[r].before
  <2>1. req \in [Requests -> Handler] /\ attempt \in [Attempts -> AttemptRow] /\ req[r] \in Handler
    BY <1>1 DEF IInv, TypeOK
  <2>2. ASSUME NEW s \in Requests, s # r, Call(s) \/ Continue(s) \/ Abandon(s)
        PROVE  req'[r] = req[r]
    BY <2>1, <2>2 DEF Call, Continue, Abandon, CreateRead, CreateInsert, AnswerRead, AnswerRecord,
       FinishRead, FinishMark, FinishScore, FinishWrite, FinishReply, Done
  <2>3. View \/ UNCHANGED vars => req'[r] = req[r]
    BY DEF View, GetAttempt, AnswerKey, vars
  <2>4. ~Call(r) /\ ~Abandon(r)
    <3>1. Call(r) => req[r] = Idle
      BY DEF Call, CreateRead, AnswerRead, FinishRead
    <3>2. Abandon(r) => req'[r] = Idle
      BY <2>1 DEF Abandon, Done
    <3> QED
      BY <1>1, <3>1, <3>2 DEF Idle
  <2>5. Continue(r)
    BY <1>1, <2>2, <2>3, <2>4 DEF Next
  <2>6. FinishWrite(r) /\ attempt[req[r].attempt].phase = "running"
    BY <1>1, <2>1, <2>5 DEF Continue, CreateInsert, AnswerRecord, FinishMark, FinishScore,
       FinishWrite, FinishReply, Done, Idle
  <2>7. req[r].attempt \in Attempts /\ req[r].before <= req[r].score
    BY <1>1 DEF IInv, HandlerInv
  <2>8. attempt'[req[r].attempt].correct = req[r].score
    <3> DEFINE a == req[r].attempt
    <3>1. attempt' = [attempt EXCEPT ![a] =
            [attempt[a] EXCEPT !.phase = "finished", !.correct = req[r].score,
                               !.total = Cardinality(Sheet(a))]]
      BY <2>6 DEF FinishWrite
    <3>2. attempt[a] \in AttemptRow
      BY <2>1, <2>7
    <3>3. attempt'[req[r].attempt] = [attempt[a] EXCEPT !.phase = "finished",
            !.correct = req[r].score, !.total = Cardinality(Sheet(a))]
      BY <2>1, <2>7, <3>1
    <3> QED
      BY <3>2, <3>3 DEF AttemptRow
  <2> QED
    BY <2>1, <2>7, <2>8 DEF Handler
<1>2. IInv /\ [Next]_vars =>
        [\A r \in Requests :
           LET a == req[r].attempt
           IN (req[r].at = "write" /\ req'[r].at = "reply") => attempt'[a].correct >= req[r].before]_vars
  BY <1>1
<1> QED
  BY <1>2, Inductive, PTL DEF Spec, ScoreKeepsEarlierAnswers

-----------------------------------------------------------------------------
(* The abstract sheet counts with the same cardinality. *)
LEMMA SameCardinality == \A S : Exam!Cardinality(S) = Cardinality(S)
  BY DEF Exam!Cardinality, Cardinality

(* Each step of the component is a step of the abstract sheet, or changes none of it. *)
LEMMA SheetStep == IInv /\ [Next]_vars => [Exam!Next]_(Exam!vars)
<1> SUFFICES ASSUME IInv, [Next]_vars PROVE [Exam!Next]_(Exam!vars)
  OBVIOUS
<1> USE DEF IInv
<1>1. attempt \in [Attempts -> AttemptRow] /\ item \in [Attempts -> [Questions -> ItemRow]]
  BY DEF TypeOK
<1>2. attempt' \in [Attempts -> AttemptRow] /\ item' \in [Attempts -> [Questions -> ItemRow]]
  BY TypeStep DEF TypeOK
<1>3. ASSUME NEW r \in Requests, NEW a \in Attempts, CreateInsert(r, a)
      PROVE  Exam!Next
  <2>1. attempt[a].phase = "none" /\ item' = item
        /\ attempt' = [attempt EXCEPT ![a] =
             [phase |-> "running", user |-> req[r].user, card |-> req[r].card, correct |-> 0,
              total |-> Cardinality(CardQuestions[req[r].card])]]
    BY <1>3 DEF CreateInsert
  <2>2. attempt[a].correct = 0
    BY <2>1 DEF RowInv, NoRow
  <2>3. Exam!Open(a)
    BY <1>1, <2>1, <2>2 DEF Exam!Open
  <2> QED
    BY <2>3 DEF Exam!Next
<1>4. ASSUME NEW r \in Requests, AnswerRecord(r)
      PROVE  Exam!Next \/ UNCHANGED <<attempt, item>>
  <2>1. PICK a \in Attempts, q \in Questions, o \in Options :
          a = req[r].attempt /\ q = req[r].question /\ o = req[r].option
    <3>1. Sheet(req[r].attempt) \subseteq Questions
      BY <1>4, CardsAssumption DEF AnswerRecord, HandlerInv, RowInv, Sheet
    <3> QED
      BY <1>4, <3>1 DEF AnswerRecord, HandlerInv
  <2>2. attempt[a].phase # "none" /\ attempt' = attempt
    BY <1>4, <2>1 DEF AnswerRecord, HandlerInv
  <2>3. CASE item[a][q].chosen = "none"
    <3>1. item' = [item EXCEPT ![a][q] =
            [chosen |-> o, grade |-> IF o = "right" THEN "correct" ELSE "incorrect"]]
      BY <1>4, <2>1, <2>3 DEF AnswerRecord
    <3>2. Exam!Choose(a, q, o)
      BY <1>1, <2>2, <2>3, <3>1 DEF Exam!Choose
    <3> QED
      BY <3>2 DEF Exam!Next, Exam!Choices, Options
  <2>4. CASE item[a][q].chosen # "none"
    BY <1>4, <2>1, <2>2, <2>4 DEF AnswerRecord
  <2> QED
    BY <2>3, <2>4
<1>5. ASSUME NEW r \in Requests, FinishMark(r)
      PROVE  UNCHANGED Exam!vars
  <2>1. PICK a \in Attempts : a = req[r].attempt
    BY <1>5 DEF FinishMark, HandlerInv
  <2>2. attempt' = attempt /\ item' = [item EXCEPT ![a] = Marked(a)]
    BY <1>5, <2>1 DEF FinishMark
  <2>3. \A b \in Attempts, q \in Questions : item'[b][q].chosen = item[b][q].chosen
    BY <1>1, <2>1, <2>2 DEF Marked
  <2> QED
    BY <2>2, <2>3 DEF Exam!vars
<1>6. ASSUME NEW r \in Requests, FinishWrite(r)
      PROVE  Exam!Next \/ UNCHANGED <<attempt, item>>
  <2>1. PICK a \in Attempts : a = req[r].attempt
    BY <1>6 DEF FinishWrite, HandlerInv
  <2>2. item' = item
    BY <1>6 DEF FinishWrite
  <2>3. CASE attempt[a].phase = "running"
    <3>1. attempt' = [attempt EXCEPT ![a] =
            [attempt[a] EXCEPT !.phase = "finished", !.correct = req[r].score,
                               !.total = Cardinality(Sheet(a))]]
      BY <1>6, <2>1, <2>3 DEF FinishWrite
    <3>2. req[r].score \in Nat /\ req[r].score <= Score(a)
      BY <1>6, <2>1 DEF FinishWrite, HandlerInv, TypeOK, Handler
    <3>3. PICK n \in Nat : n = req[r].score
      BY <3>2
    <3>4. RightItems(a) = {q \in Questions : item[a][q].chosen = "right"}
      BY <1>1 DEF RightItems, GradeMatchesChoice, ItemRow, Options
    <3>5. Score(a) \in Nat /\ Cardinality(Questions) \in Nat /\ Score(a) <= Cardinality(Questions)
      BY SubsetSizes DEF Score, RightItems
    <3>6. n \in 0..Cardinality(Questions)
      BY <3>2, <3>3, <3>5
    <3>7. Exam!Rights([q \in Questions |-> item[a][q].chosen]) = Score(a)
      <4>1. {q \in Questions : [p \in Questions |-> item[a][p].chosen][q] = "right"} = RightItems(a)
        BY <3>4
      <4> QED
        BY <4>1, SameCardinality DEF Exam!Rights, Score
    <3>8. Exam!Close(a, n)
      <4>1. attempt'[a].phase = "finished" /\ attempt'[a].correct = n
        BY <1>1, <3>1, <3>3 DEF AttemptRow
      <4>2. \A b \in Attempts : b # a => attempt'[b] = attempt[b]
        BY <1>1, <3>1
      <4>3. /\ [b \in Attempts |-> attempt'[b].phase]
                 = [[b \in Attempts |-> attempt[b].phase] EXCEPT ![a] = "finished"]
            /\ [b \in Attempts |-> attempt'[b].correct]
                 = [[b \in Attempts |-> attempt[b].correct] EXCEPT ![a] = n]
        BY <4>1, <4>2
      <4> QED
        BY <2>2, <2>3, <3>2, <3>3, <3>7, <4>3 DEF Exam!Close
    <3>9. \E m \in 0..Cardinality(Questions) : Exam!Close(a, m)
      BY <3>6, <3>8
    <3> QED
      BY <3>9, SameCardinality DEF Exam!Next
  <2>4. CASE attempt[a].phase # "running"
    BY <1>6, <2>1, <2>2, <2>4 DEF FinishWrite
  <2> QED
    BY <2>3, <2>4
<1>7. UNCHANGED <<attempt, item>> => UNCHANGED Exam!vars
  BY DEF Exam!vars
<1>8. \/ UNCHANGED <<attempt, item>>
      \/ \E r \in Requests : (\E a \in Attempts : CreateInsert(r, a)) \/ AnswerRecord(r)
                               \/ FinishMark(r) \/ FinishWrite(r)
  BY Writers DEF CreateInsert, AnswerRecord, FinishMark, FinishWrite
<1> QED
  BY <1>3, <1>4, <1>5, <1>6, <1>7, <1>8

(* The component implements ExamSheet: an attempt is opened once, its questions answered at
   most once, and it is closed once with a score its answers bear out. *)
THEOREM Refinement == Spec => ImplementsExamSheet
<1>1. Init => Exam!Init
  BY DEF Init, Exam!Init, NoRow, NewItem
<1> QED
  BY <1>1, SheetStep, Inductive, PTL DEF Spec, Exam!Spec, ImplementsExamSheet
=============================================================================
