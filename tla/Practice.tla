------------------------------ MODULE Practice ------------------------------
(***************************************************************************)
(* Practice attempts (src/src/modules/practice).  The state is the rows of *)
(* the tables attempts and attempt_items; every HTTP request is a process  *)
(* that runs one handler of PracticeService, one action per awaited        *)
(* statement.  Statements are atomic, handlers are not: between two of     *)
(* them any other request may run, and a request may be lost with the      *)
(* process (Abandon), which leaves the rows as its last statement left     *)
(* them.                                                                   *)
(*                                                                         *)
(* An option is told apart by its isCorrect flag only ("right", "wrong"),  *)
(* and the shuffled presentation order is left out: no statement of the    *)
(* life of an attempt reads it.                                            *)
(***************************************************************************)
EXTENDS Integers, FiniteSets

CONSTANTS
  Users,          \* users; the tenant of a user never changes, so it is one with the user
  Cards,          \* active cards
  Questions,
  CardQuestions,  \* CardQuestions[c]: the live questions linked to c that have options
  Attempts,       \* identifiers of attempts: bounds how many are ever created
  Requests,       \* request slots: bounds how many handlers run at once
  CanCrash,       \* the requests the process may drop between two statements
  NoUser, NoCard, NoAttempt, NoQuestion

ASSUME CardsAssumption ==
  /\ IsFiniteSet(Questions)
  /\ CardQuestions \in [Cards -> SUBSET Questions]
  /\ CanCrash \subseteq Requests
  /\ NoUser \notin Users /\ NoCard \notin Cards
  /\ NoAttempt \notin Attempts /\ NoQuestion \notin Questions

VARIABLES
  attempt,   \* attempts: phase ("finished" iff finishedAt is set), owner, card, counts
  item,      \* attempt_items: chosenOptionId and isCorrect of each question
  req,       \* the handler each request slot runs and its local variables
  keyShown   \* history: the <<user, card>> whose answer key some payload carried

vars == <<attempt, item, req, keyShown>>

Options == {"right", "wrong"}
Grades  == {"null", "correct", "incorrect"}
Phases  == {"none", "running", "finished"}
Steps   == {"idle", "insert", "record", "mark", "score", "write", "reply"}

AttemptRow == [phase : Phases, user : Users \cup {NoUser}, card : Cards \cup {NoCard},
               correct : Nat, total : Nat]
ItemRow    == [chosen : Options \cup {"none"}, grade : Grades]
Handler    == [at : Steps, user : Users \cup {NoUser}, card : Cards \cup {NoCard},
               attempt : Attempts \cup {NoAttempt}, question : Questions \cup {NoQuestion},
               option : Options \cup {"none"}, before : Nat, score : Nat]

NoRow   == [phase |-> "none", user |-> NoUser, card |-> NoCard, correct |-> 0, total |-> 0]
NewItem == [chosen |-> "none", grade |-> "null"]
Idle    == [at |-> "idle", user |-> NoUser, card |-> NoCard, attempt |-> NoAttempt,
            question |-> NoQuestion, option |-> "none", before |-> 0, score |-> 0]

TypeOK ==
  /\ attempt \in [Attempts -> AttemptRow]
  /\ item \in [Attempts -> [Questions -> ItemRow]]
  /\ req \in [Requests -> Handler]
  /\ keyShown \subseteq Users \X Cards

Init ==
  /\ attempt = [a \in Attempts |-> NoRow]
  /\ item = [a \in Attempts |-> [q \in Questions |-> NewItem]]
  /\ req = [r \in Requests |-> Idle]
  /\ keyShown = {}

-----------------------------------------------------------------------------
Sheet(a)        == IF attempt[a].card = NoCard THEN {} ELSE CardQuestions[attempt[a].card]
RightItems(a)   == {q \in Questions : item[a][q].grade = "correct"}
Score(a)        == Cardinality(RightItems(a))
Holds(a, u, c, phase) ==
  attempt[a].phase = phase /\ attempt[a].user = u /\ attempt[a].card = c
SomeAttempt(u, c, phase) == \E a \in Attempts : Holds(a, u, c, phase)

Done(r) == req' = [req EXCEPT ![r] = Idle]

(* Bound: every insert under way still finds an identifier in Attempts. *)
RoomForInsert ==
  Cardinality({r \in Requests : req[r].at = "insert"})
    < Cardinality({a \in Attempts : attempt[a].phase = "none"})

(* POST /cards/:cardId/attempts: the card and the number of finished attempts are read... *)
CreateRead(r, u, c) ==
  /\ req[r] = Idle
  /\ CardQuestions[c] # {}
  /\ ~SomeAttempt(u, c, "finished")
  /\ RoomForInsert
  /\ req' = [req EXCEPT ![r] = [Idle EXCEPT !.at = "insert", !.user = u, !.card = c]]
  /\ UNCHANGED <<attempt, item, keyShown>>

(* ...and the attempt is inserted with its items, whatever was inserted meanwhile. *)
CreateInsert(r, a) ==
  /\ req[r].at = "insert"
  /\ attempt[a].phase = "none"
  /\ attempt' = [attempt EXCEPT ![a] =
       [phase |-> "running", user |-> req[r].user, card |-> req[r].card, correct |-> 0,
        total |-> Cardinality(CardQuestions[req[r].card])]]
  /\ Done(r)
  /\ UNCHANGED <<item, keyShown>>

(* POST /attempts/:id/answers: the attempt and the item are read and checked... *)
AnswerRead(r, u, a, q, o) ==
  /\ req[r] = Idle
  /\ attempt[a].user = u
  /\ attempt[a].phase = "running"
  /\ q \in Sheet(a)
  /\ item[a][q].chosen = "none"
  /\ req' = [req EXCEPT ![r] = [Idle EXCEPT !.at = "record", !.user = u, !.attempt = a,
                                            !.question = q, !.option = o]]
  /\ UNCHANGED <<attempt, item, keyShown>>

(* Mutant: the update has no chosenOptionId condition. *)
AnswerRecord_Overwrite(r) ==
  /\ req[r].at = "record"
  /\ item' = [item EXCEPT ![req[r].attempt][req[r].question] =
       [chosen |-> req[r].option,
        grade  |-> IF req[r].option = "right" THEN "correct" ELSE "incorrect"]]
  /\ Done(r)
  /\ UNCHANGED <<attempt, keyShown>>

(* ...and the answer recorded where chosenOptionId is still null (else 409).  The update
   does not look at finishedAt.  The count of answers that follows only feeds the reply. *)
AnswerRecord(r) ==
  /\ req[r].at = "record"
  /\ LET a == req[r].attempt
         q == req[r].question
     IN item' = IF item[a][q].chosen = "none"
                THEN [item EXCEPT ![a][q] =
                       [chosen |-> req[r].option,
                        grade  |-> IF req[r].option = "right" THEN "correct" ELSE "incorrect"]]
                ELSE item
  /\ Done(r)
  /\ UNCHANGED <<attempt, keyShown>>

(* Mutants: unanswered items are not marked before scoring; the handler forgets its user. *)
FinishRead_SkipMark(r, u, a) ==
  /\ req[r] = Idle
  /\ attempt[a].user = u
  /\ attempt[a].phase = "running"
  /\ req' = [req EXCEPT ![r] = [Idle EXCEPT !.at = "score", !.user = u, !.attempt = a,
                                            !.before = Score(a)]]
  /\ UNCHANGED <<attempt, item, keyShown>>

FinishRead_NoUser(r, u, a) ==
  /\ req[r] = Idle
  /\ attempt[a].user = u
  /\ attempt[a].phase = "running"
  /\ req' = [req EXCEPT ![r] = [Idle EXCEPT !.at = "mark", !.attempt = a, !.before = Score(a)]]
  /\ UNCHANGED <<attempt, item, keyShown>>

(* POST /attempts/:id/finish: the attempt is read and must be running... *)
FinishRead(r, u, a) ==
  /\ req[r] = Idle
  /\ attempt[a].user = u
  /\ attempt[a].phase = "running"
  /\ req' = [req EXCEPT ![r] = [Idle EXCEPT !.at = "mark", !.user = u, !.attempt = a,
                                            !.before = Score(a)]]
  /\ UNCHANGED <<attempt, item, keyShown>>

(* Mutant: the blanket grade has no chosenOptionId condition. *)
Marked_All(a) ==
  [q \in Questions |-> IF q \in Sheet(a) THEN [item[a][q] EXCEPT !.grade = "incorrect"]
                                         ELSE item[a][q]]

(* ...its unanswered items are graded incorrect... *)
Marked(a) ==
  [q \in Questions |-> IF q \in Sheet(a) /\ item[a][q].chosen = "none"
                       THEN [chosen |-> "none", grade |-> "incorrect"]
                       ELSE item[a][q]]

(* Mutant: a finish with nothing left to mark returns early. *)
FinishMark_EarlyReturn(r) ==
  /\ req[r].at = "mark"
  /\ item' = [item EXCEPT ![req[r].attempt] = Marked(req[r].attempt)]
  /\ IF \A q \in Sheet(req[r].attempt) : item[req[r].attempt][q].chosen # "none"
     THEN Done(r)
     ELSE req' = [req EXCEPT ![r] = [req[r] EXCEPT !.at = "score"]]
  /\ UNCHANGED <<attempt, keyShown>>

FinishMark(r) ==
  /\ req[r].at = "mark"
  /\ item' = [item EXCEPT ![req[r].attempt] = Marked(req[r].attempt)]
  /\ req' = [req EXCEPT ![r] = [req[r] EXCEPT !.at = "score"]]
  /\ UNCHANGED <<attempt, keyShown>>

(* Mutant: counts the answered items instead of the correct ones. *)
FinishScore_Answered(r) ==
  /\ req[r].at = "score"
  /\ req' = [req EXCEPT ![r] = [req[r] EXCEPT !.at = "write", !.score =
       Cardinality({q \in Questions : item[req[r].attempt][q].chosen # "none"})]]
  /\ UNCHANGED <<attempt, item, keyShown>>

(* ...it is read again and scored... *)
FinishScore(r) ==
  /\ req[r].at = "score"
  /\ req' = [req EXCEPT ![r] =
               [req[r] EXCEPT !.at = "write", !.score = Score(req[r].attempt)]]
  /\ UNCHANGED <<attempt, item, keyShown>>

(* ...the score is written where finishedAt is still null (else 409)... *)
FinishWrite(r) ==
  /\ req[r].at = "write"
  /\ LET a == req[r].attempt
     IN IF attempt[a].phase = "running"
        THEN /\ attempt' = [attempt EXCEPT ![a] =
                  [attempt[a] EXCEPT !.phase = "finished", !.correct = req[r].score,
                                     !.total = Cardinality(Sheet(a))]]
             /\ req' = [req EXCEPT ![r] = [req[r] EXCEPT !.at = "reply"]]
        ELSE Done(r) /\ UNCHANGED attempt
  /\ UNCHANGED <<item, keyShown>>

(* ...and the finished attempt is read a third time: the payload carries the answer key. *)
FinishReply(r) ==
  /\ req[r].at = "reply"
  /\ keyShown' = keyShown \cup {<<req[r].user, attempt[req[r].attempt].card>>}
  /\ Done(r)
  /\ UNCHANGED <<attempt, item>>

(* GET /attempts/:id: a finished attempt comes with the answer key, a running one without. *)
GetAttempt(u, a) ==
  /\ attempt[a].user = u
  /\ attempt[a].phase = "finished"
  /\ keyShown' = keyShown \cup {<<u, attempt[a].card>>}
  /\ UNCHANGED <<attempt, item, req>>

(* GET /cards/:cardId/answer-key: refused while an attempt of the card is running. *)
AnswerKey(u, c) ==
  /\ ~SomeAttempt(u, c, "running")
  /\ keyShown' = keyShown \cup {<<u, c>>}
  /\ UNCHANGED <<attempt, item, req>>

(* The process stops, or the connection to the database is lost, before the next statement. *)
Abandon(r) ==
  /\ r \in CanCrash
  /\ req[r] # Idle
  /\ Done(r)
  /\ UNCHANGED <<attempt, item, keyShown>>

Continue(r) ==
  \/ \E a \in Attempts : CreateInsert(r, a)
  \/ AnswerRecord(r)
  \/ FinishMark(r) \/ FinishScore(r) \/ FinishWrite(r) \/ FinishReply(r)

Call(r) ==
  \E u \in Users :
    \/ \E c \in Cards : CreateRead(r, u, c)
    \/ \E a \in Attempts :
         \/ \E q \in Questions, o \in Options : AnswerRead(r, u, a, q, o)
         \/ FinishRead(r, u, a)

View ==
  \E u \in Users :
    \/ \E a \in Attempts : GetAttempt(u, a)
    \/ \E c \in Cards : AnswerKey(u, c)

Next == (\E r \in Requests : Call(r) \/ Continue(r) \/ Abandon(r)) \/ View

Spec == Init /\ [][Next]_vars

(* The event loop resumes a handler whose statement has answered; clients promise nothing. *)
FairSpec == Spec /\ \A r \in Requests : WF_vars(Continue(r))
-----------------------------------------------------------------------------
Finished(a) == attempt[a].phase = "finished"

(* The grade of an item is the one of the option recorded in it, and an item graded
   without an option is graded incorrect: the blanket update of finish never overwrites
   an answer, and an answer that comes after it overwrites the blanket grade. *)
GradeMatchesChoice ==
  \A a \in Attempts, q \in Questions :
    /\ item[a][q].chosen = "right" => item[a][q].grade = "correct"
    /\ item[a][q].chosen = "wrong" => item[a][q].grade = "incorrect"
    /\ item[a][q].chosen = "none"  => item[a][q].grade # "correct"

(* A finished attempt has no ungraded item, however finishes, answers and crashes
   interleave: the answer key of the finish payload says of each question whether it
   was right. *)
FinishedFullyGraded ==
  \A a \in Attempts : Finished(a) => \A q \in Sheet(a) : item[a][q].grade # "null"

(* The stored score never counts more than the items graded correct, and never more
   than the total stored with it. *)
ScoreIsEarned ==
  \A a \in Attempts : Finished(a) =>
    attempt[a].correct <= Score(a) /\ attempt[a].correct <= attempt[a].total

(* A question is answered once: a recorded option is never replaced or removed, not even
   by two answers that both read the item before either recorded ("segundo envio 409"). *)
AnsweredOnce ==
  [][\A a \in Attempts, q \in Questions :
       item[a][q].chosen # "none" => item'[a][q].chosen = item[a][q].chosen]_vars

(* An attempt is finished once: of several concurrent finishes one writes the result and
   no later step changes it ("finish repetido 409"). *)
ResultIsFinal ==
  [][\A a \in Attempts : Finished(a) => attempt'[a] = attempt[a]]_vars

(* Nothing answered right before the finish request began is lost from the score. *)
ScoreKeepsEarlierAnswers ==
  [][\A r \in Requests :
       LET a == req[r].attempt
       IN (req[r].at = "write" /\ req'[r].at = "reply") => attempt'[a].correct >= req[r].before]_vars

(* A finish that passed its first check, in a request that is not dropped, ends with a
   finished attempt: written by it or by the concurrent finish that made its own write a
   409, whatever a dropped request left half done. *)
FinishCompletes ==
  \A a \in Attempts, r \in Requests \ CanCrash :
    (req[r].attempt = a /\ req[r].at \in {"mark", "score", "write"}) ~> Finished(a)

(* The component implements the abstract sheet. *)
Exam == INSTANCE ExamSheet WITH
  phase   <- [a \in Attempts |-> attempt[a].phase],
  answers <- [a \in Attempts |-> [q \in Questions |-> item[a][q].chosen]],
  result  <- [a \in Attempts |-> attempt[a].correct]

ImplementsExamSheet == Exam!Spec

-----------------------------------------------------------------------------
(* "nenhum payload anterior ao finish pode carregar o gabarito": no payload carries the
   key of a card on which the user has a running attempt.  The code does not keep this. *)
NoKeyWhileRunning ==
  [][\A u \in Users, c \in Cards :
       (<<u, c>> \in keyShown' \ keyShown) => ~SomeAttempt(u, c, "running")]_vars
=============================================================================
