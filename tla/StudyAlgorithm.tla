--------------------------- MODULE StudyAlgorithm ---------------------------
(***************************************************************************)
(* The Leitner queue of a study session (study.algorithm.ts and its        *)
(* constants): how a pool of cards becomes a queue and what one review     *)
(* does to the queue and to the progress of the card reviewed.             *)
(***************************************************************************)
EXTENDS Integers, SequencesExt

Ratings == {"HARD", "LEARNING", "EASY"}
Levels  == Ratings \cup {"NEW"}

GAP  == [HARD |-> 2, LEARNING |-> 6, EASY |-> 14]
RANK == ("HARD" :> 0) @@ ("LEARNING" :> 1) @@ ("NEW" :> 2) @@ ("EASY" :> 3)

(* The progress of a card: the columns level, streak and seen of card_states. *)
NewProgress == [level |-> "NEW", streak |-> 0, seen |-> 0]

(* applyHardOnlyFilter: the hard cards, or the whole pool when none is hard. *)
HardOnly(pool, level) ==
  LET hard == {c \in pool : level[c] \in {"HARD", "LEARNING"}}
  IN IF hard = {} THEN pool ELSE hard

(* orderPoolByRank: shuffled, then sorted by rank: any order that respects the ranks. *)
RankOrders(pool, level) ==
  {s \in SetToSeqs(pool) :
     \A i, j \in 1..Len(s) : i < j => RANK[level[s[i]]] <= RANK[level[s[j]]]}

(* findFocusIndex: the first card of the focused level, 0 when there is none. *)
FocusIndex(queue, level, focus) ==
  IF focus = "none" THEN IF queue = <<>> THEN 0 ELSE 1
  ELSE SelectInSeq(queue, LAMBDA c : level[c] = focus)

(* Mutants: a harder rating keeps the streak; a rating that changes nothing is not counted
   as seen. *)
NextProgress_KeepStreak(progress, rating) ==
  [level |-> rating, seen |-> progress.seen + 1,
   streak |-> IF rating # "EASY" THEN progress.streak
              ELSE IF progress.level = "EASY" THEN progress.streak + 1 ELSE 1]
NextProgress_SeenOnce(progress, rating) ==
  [level |-> rating, seen |-> IF rating = progress.level THEN progress.seen ELSE progress.seen + 1,
   streak |-> IF rating # "EASY" THEN 0
              ELSE IF progress.level = "EASY" THEN progress.streak + 1 ELSE 1]

(* applyReview, the progress: two EASY in a row are counted by the streak. *)
NextProgress(progress, rating) ==
  [level  |-> rating,
   streak |-> IF rating # "EASY" THEN 0
              ELSE IF progress.level = "EASY" THEN progress.streak + 1 ELSE 1,
   seen   |-> progress.seen + 1]

(* Mutant: off by one. *)
Retires_Third(progress, rating) == rating = "EASY" /\ NextProgress(progress, rating).streak > 2

Retires(progress, rating) == rating = "EASY" /\ NextProgress(progress, rating).streak >= 2

(* Mutant: the reinsertion counts the gap from the place the card was taken from. *)
NextQueue_FromIndex(queue, index, progress, rating) ==
  LET rest == RemoveAt(queue, index)
  IN IF Retires(progress, rating) THEN rest
     ELSE InsertAt(rest, Min({index + GAP[rating] + 1, Len(rest) + 1}), queue[index])

(* Mutant: a card retires on its first EASY. *)
NextQueue_FirstEasy(queue, index, progress, rating) ==
  LET rest == RemoveAt(queue, index)
  IN IF rating = "EASY" THEN rest
     ELSE InsertAt(rest, Min({GAP[rating], Len(rest)}) + 1, queue[index])

(* applyReview, the queue: the card leaves it, and unless it retires it comes back GAP
   places from the head (at the end of a shorter queue), wherever it was taken from. *)
NextQueue(queue, index, progress, rating) ==
  LET rest == RemoveAt(queue, index)
  IN IF Retires(progress, rating) THEN rest
     ELSE InsertAt(rest, Min({GAP[rating], Len(rest)}) + 1, queue[index])
=============================================================================
