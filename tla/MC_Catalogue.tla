----------------------------- MODULE MC_Catalogue -----------------------------
(* Instances of Catalogue for TLC. *)
EXTENDS Catalogue

CONSTANTS b1, b2

Question(quiz, correct) == [quiz |-> quiz, correct |-> correct]

(* The least course in which the place in the array and the place in the quiz differ. *)
OneCourse == <<
  [questions |-> <<Question("1.2", 2), Question("1.1", 1)>>,
   decks |-> [ESSENTIAL |-> <<[code |-> "e1", origin |-> 0, cites |-> <<2>>, links |-> 2]>>,
              EXAM |-> <<[code |-> "x1", origin |-> 2, cites |-> <<2>>, links |-> 0]>>],
   pages |-> 1]>>
=============================================================================
