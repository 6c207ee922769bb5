---------------------------- MODULE PriorityScore ----------------------------
(***************************************************************************)
(* The score of the ranking (priority-score.ts): half the accuracy, 30     *)
(* points for days studied and 20 for attempts made, both capped.  Its     *)
(* parts are IEEE doubles: at 3, 6, 12 and 17 days the part for days comes *)
(* out an ulp low, and a sum that should end in exactly .5 is rounded down *)
(* unless a larger term, or the part for attempts, makes up for the ulp.   *)
(***************************************************************************)
EXTENDS Integers

CapDays     == 20
CapAttempts == 20
HighMin     == 70
MidMin      == 40

AtMost(n, cap) == IF n <= cap THEN n ELSE cap

(* Twice the sum of the parts, as it is on paper. *)
Halves(accuracy, days, attempts) ==
  accuracy + 3 * AtMost(days, CapDays) + 2 * AtMost(attempts, CapAttempts)

(* The ulp survives while the sum stays below the next power of two... *)
NextPower(days) == CASE days = 3 -> 8 [] days = 6 -> 16 [] days \in {12, 17} -> 32 [] OTHER -> 0

(* ...unless the part for attempts is an ulp high (3, 6, 11, 12 or 17 attempts). *)
MadeUp(days, attempts) == <<days, attempts>> \in {<<3, 3>>, <<6, 6>>, <<12, 11>>, <<12, 12>>}

FallsShort(accuracy, days, attempts) ==
  /\ Halves(accuracy, days, attempts) < 2 * NextPower(days)
  /\ ~MadeUp(days, attempts)

(* Math.round of the sum. *)
Score(accuracy, days, attempts) ==
  IF FallsShort(accuracy, days, attempts)
  THEN Halves(accuracy, days, attempts) \div 2
  ELSE (Halves(accuracy, days, attempts) + 1) \div 2

Band(score) == IF score >= HighMin THEN "high" ELSE IF score >= MidMin THEN "mid" ELSE "low"

(* Math.round((correct / total) * 100): rounding half up is what the doubles give for every
   total below 40, the first for which an exact half (23 of 40) comes out an ulp low. *)
Pct(correct, total) == IF total <= 0 THEN 0 ELSE (200 * correct + total) \div (2 * total)
=============================================================================
