------------------------------ MODULE ExamSheet ------------------------------
(***************************************************************************)
(* What the practice component promises about an attempt, with none of the *)
(* statements that implement it: a sheet is opened once, every question of *)
(* it is answered at most once, and it is closed once with a result that   *)
(* counts only answers that are right.  The sheet does not promise that a  *)
(* closed sheet takes no more answers: the code checks that the attempt is *)
(* running before it writes and not with it (Practice!AnswerRecord).       *)
(***************************************************************************)
EXTENDS Integers, FiniteSets

CONSTANTS Attempts, Questions

VARIABLES phase, answers, result

vars == <<phase, answers, result>>

Choices == {"right", "wrong"}

Rights(sheet) == Cardinality({q \in Questions : sheet[q] = "right"})

Init ==
  /\ phase = [a \in Attempts |-> "none"]
  /\ answers = [a \in Attempts |-> [q \in Questions |-> "none"]]
  /\ result = [a \in Attempts |-> 0]

Open(a) ==
  /\ phase[a] = "none"
  /\ phase' = [phase EXCEPT ![a] = "running"]
  /\ UNCHANGED <<answers, result>>

Choose(a, q, o) ==
  /\ phase[a] # "none"
  /\ answers[a][q] = "none"
  /\ answers' = [answers EXCEPT ![a][q] = o]
  /\ UNCHANGED <<phase, result>>

Close(a, n) ==
  /\ phase[a] = "running"
  /\ n <= Rights(answers[a])
  /\ phase' = [phase EXCEPT ![a] = "finished"]
  /\ result' = [result EXCEPT ![a] = n]
  /\ UNCHANGED answers

Next ==
  \E a \in Attempts :
    \/ Open(a)
    \/ \E q \in Questions, o \in Choices : Choose(a, q, o)
    \/ \E n \in 0..Cardinality(Questions) : Close(a, n)

Spec == Init /\ [][Next]_vars
=============================================================================
