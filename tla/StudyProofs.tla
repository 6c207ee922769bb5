----------------------------- MODULE StudyProofs -----------------------------
(***************************************************************************)
(* Proofs about Study and StudyAlgorithm, for any finite set of cards and  *)
(* any number of sessions, reviews and concurrent requests; the last       *)
(* sections are about one request at a time.                               *)
(***************************************************************************)
EXTENDS Study, Lemmas

-----------------------------------------------------------------------------
(* What a queue is after one of its cards is taken out, and after one is put in. *)
LEMMA Removed ==
  ASSUME NEW S, NEW s \in Seq(S), NEW i \in 1..Len(s)
  PROVE  /\ RemoveAt(s, i) \in Seq(S) /\ Len(RemoveAt(s, i)) = Len(s) - 1
         /\ \A j \in 1..(Len(s) - 1) : RemoveAt(s, i)[j] = IF j < i THEN s[j] ELSE s[j + 1]
<1> DEFINE A == SubSeq(s, 1, i - 1)
           B == SubSeq(s, i + 1, Len(s))
<1>1. Len(s) \in Nat /\ \A j \in 1..Len(s) : s[j] \in S
  BY LenProperties, ElementOfSeq
<1>2. /\ A \in Seq(S) /\ Len(A) = i - 1
      /\ \A j \in 1..(i - 1) : A[j] = s[j]
  <2>1. 1 \in Int /\ i - 1 \in Int /\ \A j \in 1..(i - 1) : s[j] \in S
    BY <1>1
  <2>2. /\ A \in Seq(S) /\ Len(A) = IF 1 <= i - 1 THEN i - 1 - 1 + 1 ELSE 0
        /\ \A j \in 1..(i - 1 - 1 + 1) : A[j] = s[1 + j - 1]
    BY <2>1, SubSeqProperties
  <2> HIDE DEF A
  <2> QED BY <1>1, <2>2
<1>3. /\ B \in Seq(S) /\ Len(B) = Len(s) - i
      /\ \A j \in 1..(Len(s) - i) : B[j] = s[i + j]
  <2>1. i + 1 \in Int /\ Len(s) \in Int /\ \A j \in (i + 1)..Len(s) : s[j] \in S
    BY <1>1
  <2>2. /\ B \in Seq(S) /\ Len(B) = IF i + 1 <= Len(s) THEN Len(s) - (i + 1) + 1 ELSE 0
        /\ \A j \in 1..(Len(s) - (i + 1) + 1) : B[j] = s[(i + 1) + j - 1]
    BY <2>1, SubSeqProperties
  <2> HIDE DEF B
  <2>3. \A j \in 1..(Len(s) - i) : (i + 1) + j - 1 = i + j /\ j \in 1..(Len(s) - (i + 1) + 1)
    BY <1>1
  <2>4. Len(B) = Len(s) - i
    BY <1>1, <2>2
  <2>5. \A j \in 1..(Len(s) - i) : B[j] = s[i + j]
    BY <2>2, <2>3
  <2> QED BY <2>2, <2>4, <2>5
<1>4. RemoveAt(s, i) = A \o B
  BY DEF RemoveAt
<1> HIDE DEF A, B
<1> DEFINE R == A \o B
<1>5. /\ R \in Seq(S) /\ Len(R) = Len(A) + Len(B)
      /\ \A j \in 1..(Len(A) + Len(B)) : R[j] = IF j <= Len(A) THEN A[j] ELSE B[j - Len(A)]
  BY <1>2, <1>3, ConcatProperties
<1> HIDE DEF R
<1>6. ASSUME NEW j \in 1..(Len(s) - 1) PROVE R[j] = IF j < i THEN s[j] ELSE s[j + 1]
  <2>1. j \in Int /\ i \in Int /\ j \in 1..(Len(A) + Len(B))
    BY <1>1, <1>2, <1>3
  <2>2. CASE j < i
    <3>1. j \in 1..(i - 1) /\ j <= Len(A)
      BY <1>2, <2>1, <2>2
    <3> QED BY <1>2, <1>5, <2>1, <2>2, <3>1
  <2>3. CASE j >= i
    <3>1. j - Len(A) \in 1..(Len(s) - i) /\ i + (j - Len(A)) = j + 1 /\ ~(j <= Len(A))
      BY <1>1, <1>2, <2>1, <2>3
    <3>2. R[j] = B[j - Len(A)]
      BY <1>5, <2>1, <3>1
    <3>3. B[j - Len(A)] = s[i + (j - Len(A))]
      BY <1>3, <3>1
    <3> QED BY <2>1, <2>3, <3>1, <3>2, <3>3
  <2> QED BY <2>1, <2>2, <2>3
<1>7. RemoveAt(s, i) = R
  BY <1>4 DEF R
<1>8. Len(R) = Len(s) - 1
  BY <1>1, <1>2, <1>3, <1>5
<1> QED BY <1>5, <1>6, <1>7, <1>8

LEMMA Inserted ==
  ASSUME NEW S, NEW s \in Seq(S), NEW i \in 1..(Len(s) + 1), NEW e \in S
  PROVE  /\ InsertAt(s, i, e) \in Seq(S) /\ Len(InsertAt(s, i, e)) = Len(s) + 1
         /\ \A j \in 1..(Len(s) + 1) :
              InsertAt(s, i, e)[j] = IF j < i THEN s[j] ELSE IF j = i THEN e ELSE s[j - 1]
<1> DEFINE A == SubSeq(s, 1, i - 1)
           B == SubSeq(s, i, Len(s))
           Q == A \o <<e>>
<1>1. Len(s) \in Nat /\ \A j \in 1..Len(s) : s[j] \in S
  BY LenProperties, ElementOfSeq
<1>2. /\ A \in Seq(S) /\ Len(A) = i - 1
      /\ \A j \in 1..(i - 1) : A[j] = s[j]
  <2>1. 1 \in Int /\ i - 1 \in Int /\ \A j \in 1..(i - 1) : s[j] \in S
    BY <1>1
  <2>2. /\ A \in Seq(S) /\ Len(A) = IF 1 <= i - 1 THEN i - 1 - 1 + 1 ELSE 0
        /\ \A j \in 1..(i - 1 - 1 + 1) : A[j] = s[1 + j - 1]
    BY <2>1, SubSeqProperties
  <2> HIDE DEF A
  <2> QED BY <1>1, <2>2
<1>3. /\ B \in Seq(S) /\ Len(B) = Len(s) - i + 1
      /\ \A j \in 1..(Len(s) - i + 1) : B[j] = s[i + j - 1]
  <2>1. i \in Int /\ Len(s) \in Int /\ \A j \in i..Len(s) : s[j] \in S
    BY <1>1
  <2>2. /\ B \in Seq(S) /\ Len(B) = IF i <= Len(s) THEN Len(s) - i + 1 ELSE 0
        /\ \A j \in 1..(Len(s) - i + 1) : B[j] = s[i + j - 1]
    BY <2>1, SubSeqProperties
  <2> HIDE DEF B
  <2> QED BY <1>1, <2>2
<1>4. InsertAt(s, i, e) = Q \o B
  BY DEF InsertAt
<1> HIDE DEF A, B
<1>5. /\ Q \in Seq(S) /\ Len(Q) = i
      /\ \A j \in 1..i : Q[j] = IF j < i THEN s[j] ELSE e
  <2>1. <<e>> \in Seq(S) /\ Len(<<e>>) = 1 /\ <<e>>[1] = e
    OBVIOUS
  <2>2. /\ Q \in Seq(S) /\ Len(Q) = Len(A) + Len(<<e>>)
        /\ \A j \in 1..(Len(A) + Len(<<e>>)) : Q[j] = IF j <= Len(A) THEN A[j] ELSE <<e>>[j - Len(A)]
    BY <1>2, <2>1, ConcatProperties
  <2> HIDE DEF Q
  <2>3. Len(A) + Len(<<e>>) = i /\ i - Len(A) = 1
    BY <1>1, <1>2, <2>1
  <2>4. \A j \in 1..i : j < i => Q[j] = s[j]
    BY <1>1, <1>2, <2>2, <2>3
  <2>5. Q[i] = e
    <3>1. Q[i] = <<e>>[i - Len(A)]
      BY <1>1, <1>2, <2>2, <2>3
    <3> QED BY <2>1, <2>3, <3>1
  <2> QED BY <1>1, <2>2, <2>3, <2>4, <2>5
<1> HIDE DEF Q
<1> DEFINE R == Q \o B
<1>6. /\ R \in Seq(S) /\ Len(R) = Len(Q) + Len(B)
      /\ \A j \in 1..(Len(Q) + Len(B)) : R[j] = IF j <= Len(Q) THEN Q[j] ELSE B[j - Len(Q)]
  BY <1>3, <1>5, ConcatProperties
<1> HIDE DEF R
<1>7. ASSUME NEW j \in 1..(Len(s) + 1)
      PROVE  R[j] = IF j < i THEN s[j] ELSE IF j = i THEN e ELSE s[j - 1]
  <2>1. j \in Int /\ i \in Int /\ j \in 1..(Len(Q) + Len(B))
    BY <1>1, <1>3, <1>5
  <2>2. CASE j <= i
    <3>1. j \in 1..i /\ j <= Len(Q)
      BY <1>5, <2>1, <2>2
    <3> QED BY <1>5, <1>6, <2>1, <2>2, <3>1
  <2>3. CASE j > i
    <3>1. j - i \in 1..(Len(s) - i + 1) /\ i + (j - i) - 1 = j - 1 /\ ~(j <= Len(Q))
      BY <1>1, <1>5, <2>1, <2>3
    <3>2. R[j] = B[j - i]
      BY <1>5, <1>6, <2>1, <3>1
    <3>3. B[j - i] = s[i + (j - i) - 1]
      BY <1>3, <3>1
    <3> QED BY <2>1, <2>3, <3>1, <3>2, <3>3
  <2> QED BY <2>1, <2>2, <2>3
<1>8. InsertAt(s, i, e) = R
  BY <1>4 DEF R
<1> QED BY <1>1, <1>3, <1>5, <1>6, <1>7, <1>8

LEMMA RestOfQueue ==
  ASSUME NEW q \in Seq(Cards), IsInjective(q), NEW i \in 1..Len(q)
  PROVE  /\ RemoveAt(q, i) \in Seq(Cards) /\ Len(RemoveAt(q, i)) = Len(q) - 1
         /\ IsInjective(RemoveAt(q, i)) /\ ToSet(RemoveAt(q, i)) = ToSet(q) \ {q[i]}
<1> DEFINE t == RemoveAt(q, i)
<1>1. /\ Len(q) \in Nat /\ DOMAIN q = 1..Len(q) /\ i \in Int
      /\ t \in Seq(Cards) /\ Len(t) = Len(q) - 1
      /\ \A j \in 1..(Len(q) - 1) : t[j] = IF j < i THEN q[j] ELSE q[j + 1]
  BY LenProperties, Removed
<1>2. DOMAIN t = 1..(Len(q) - 1)
  BY <1>1, LenProperties
<1> HIDE DEF t
<1>3. ASSUME NEW j \in 1..(Len(q) - 1)
      PROVE  \E k \in 1..Len(q) : k # i /\ t[j] = q[k] /\ k = IF j < i THEN j ELSE j + 1
  BY <1>1
<1>4. ASSUME NEW a \in DOMAIN t, NEW b \in DOMAIN t, t[a] = t[b] PROVE a = b
  <2>1. PICK k \in 1..Len(q) : t[a] = q[k] /\ k = IF a < i THEN a ELSE a + 1
    BY <1>2, <1>3
  <2>2. PICK l \in 1..Len(q) : t[b] = q[l] /\ l = IF b < i THEN b ELSE b + 1
    BY <1>2, <1>3
  <2>3. k = l
    BY <1>1, <1>4, <2>1, <2>2 DEF IsInjective
  <2>4. a \in Int /\ b \in Int
    BY <1>1, <1>2
  <2> QED BY <1>1, <2>1, <2>2, <2>3, <2>4
<1>5. ASSUME NEW k \in 1..Len(q), k # i PROVE \E j \in 1..(Len(q) - 1) : t[j] = q[k]
  <2>1. CASE k < i
    <3>1. k \in 1..(Len(q) - 1)
      BY <1>1, <2>1
    <3> QED BY <1>1, <2>1, <3>1
  <2>2. CASE k > i
    <3>1. k - 1 \in 1..(Len(q) - 1) /\ ~(k - 1 < i) /\ (k - 1) + 1 = k
      BY <1>1, <2>2
    <3> QED BY <1>1, <3>1
  <2> QED BY <1>1, <1>5, <2>1, <2>2
<1>6. ToSet(t) = ToSet(q) \ {q[i]}
  <2>1. ASSUME NEW c \in ToSet(t) PROVE c \in ToSet(q) /\ c # q[i]
    <3>1. PICK j \in 1..(Len(q) - 1) : c = t[j]
      BY <1>2, <2>1 DEF ToSet
    <3>2. PICK k \in 1..Len(q) : k # i /\ c = q[k]
      BY <1>3, <3>1
    <3> QED BY <1>1, <3>2 DEF ToSet, IsInjective
  <2>2. ASSUME NEW c \in ToSet(q), c # q[i] PROVE c \in ToSet(t)
    <3>1. PICK k \in 1..Len(q) : c = q[k]
      BY <1>1, <2>2 DEF ToSet
    <3> QED BY <1>2, <1>5, <2>2, <3>1 DEF ToSet
  <2> QED BY <2>1, <2>2
<1> QED BY <1>1, <1>4, <1>6 DEF IsInjective, t

LEMMA CardReturns ==
  ASSUME NEW q \in Seq(Cards), IsInjective(q), NEW i \in 1..(Len(q) + 1),
         NEW c \in Cards, c \notin ToSet(q)
  PROVE  /\ InsertAt(q, i, c) \in Seq(Cards) /\ IsInjective(InsertAt(q, i, c))
         /\ ToSet(InsertAt(q, i, c)) = ToSet(q) \cup {c}
<1> DEFINE t == InsertAt(q, i, c)
<1>1. /\ Len(q) \in Nat /\ DOMAIN q = 1..Len(q) /\ i \in Int
      /\ t \in Seq(Cards) /\ Len(t) = Len(q) + 1
      /\ \A j \in 1..(Len(q) + 1) :
           t[j] = IF j < i THEN q[j] ELSE IF j = i THEN c ELSE q[j - 1]
  <2>1. Len(q) \in Nat /\ DOMAIN q = 1..Len(q)
    BY LenProperties
  <2>2. /\ t \in Seq(Cards) /\ Len(t) = Len(q) + 1
        /\ \A j \in 1..(Len(q) + 1) :
             t[j] = IF j < i THEN q[j] ELSE IF j = i THEN c ELSE q[j - 1]
    BY Inserted
  <2> HIDE DEF t
  <2> QED BY <2>1, <2>2
<1>2. DOMAIN t = 1..(Len(q) + 1)
  BY <1>1, LenProperties
<1> HIDE DEF t
<1>3. t[i] = c
  BY <1>1
<1>4. ASSUME NEW j \in 1..(Len(q) + 1), j # i
      PROVE  \E k \in 1..Len(q) : t[j] = q[k] /\ k = IF j < i THEN j ELSE j - 1
  <2>1. j \in Int
    BY <1>1
  <2>2. CASE j < i
    BY <1>1, <2>1, <2>2
  <2>3. CASE j > i
    <3>1. j - 1 \in 1..Len(q) /\ ~(j < i)
      BY <1>1, <2>1, <2>3
    <3> QED BY <1>1, <1>4, <3>1
  <2> QED BY <1>1, <1>4, <2>1, <2>2, <2>3
<1>5. ASSUME NEW k \in 1..Len(q) PROVE \E j \in 1..(Len(q) + 1) : j # i /\ t[j] = q[k]
  <2>1. CASE k < i
    <3>1. k \in 1..(Len(q) + 1) /\ k # i
      BY <1>1, <2>1
    <3> QED BY <1>1, <2>1, <3>1
  <2>2. CASE k >= i
    <3>1. k + 1 \in 1..(Len(q) + 1) /\ ~(k + 1 < i) /\ k + 1 # i /\ (k + 1) - 1 = k
      BY <1>1, <2>2
    <3> QED BY <1>1, <3>1
  <2> QED BY <1>1, <2>1, <2>2
<1>6. ASSUME NEW a \in DOMAIN t, NEW b \in DOMAIN t, t[a] = t[b] PROVE a = b
  <2>1. CASE a = i \/ b = i
    <3>1. \A j \in DOMAIN t : t[j] = c => j = i
      BY <1>1, <1>2, <1>4 DEF ToSet
    <3> QED BY <1>3, <1>6, <2>1, <3>1
  <2>2. CASE a # i /\ b # i
    <3>1. PICK k \in 1..Len(q) : t[a] = q[k] /\ k = IF a < i THEN a ELSE a - 1
      BY <1>2, <1>4, <2>2
    <3>2. PICK l \in 1..Len(q) : t[b] = q[l] /\ l = IF b < i THEN b ELSE b - 1
      BY <1>2, <1>4, <2>2
    <3>3. k = l
      BY <1>1, <1>6, <3>1, <3>2 DEF IsInjective
    <3>4. a \in Int /\ b \in Int
      BY <1>1, <1>2
    <3> QED BY <1>1, <2>2, <3>1, <3>2, <3>3, <3>4
  <2> QED BY <2>1, <2>2
<1>7. ToSet(t) = ToSet(q) \cup {c}
  <2>1. ASSUME NEW d \in ToSet(t) PROVE d \in ToSet(q) \cup {c}
    <3>1. PICK j \in 1..(Len(q) + 1) : d = t[j]
      BY <1>2, <2>1 DEF ToSet
    <3> QED BY <1>1, <1>3, <1>4, <3>1 DEF ToSet
  <2>2. ASSUME NEW d \in ToSet(q) PROVE d \in ToSet(t)
    <3>1. PICK k \in 1..Len(q) : d = q[k]
      BY <1>1, <2>2 DEF ToSet
    <3> QED BY <1>2, <1>5, <3>1 DEF ToSet
  <2>3. c \in ToSet(t)
    BY <1>1, <1>2, <1>3 DEF ToSet
  <2> QED BY <2>1, <2>2, <2>3
<1> QED BY <1>1, <1>6, <1>7 DEF IsInjective, t

LEMMA MinOfTwo ==
  ASSUME NEW a \in Int, NEW b \in Int
  PROVE  Min({a, b}) = IF a <= b THEN a ELSE b
<1> DEFINE m == IF a <= b THEN a ELSE b
<1>1. m \in {a, b} /\ \A y \in {a, b} : m <= y
  OBVIOUS
<1>2. \A x \in {a, b} : (\A y \in {a, b} : x <= y) => x = m
  OBVIOUS
<1> QED BY <1>1, <1>2 DEF Min

(* A review keeps the cards of a queue, each once, but for the one it retires. *)
LEMMA Requeued ==
  ASSUME NEW q \in Seq(Cards), IsInjective(q), NEW i \in 1..Len(q),
         NEW old, NEW rating \in Ratings
  PROVE  /\ NextQueue(q, i, old, rating) \in Seq(Cards)
         /\ IsInjective(NextQueue(q, i, old, rating))
         /\ ToSet(NextQueue(q, i, old, rating)) =
              IF Retires(old, rating) THEN ToSet(q) \ {q[i]} ELSE ToSet(q)
<1> DEFINE rest  == RemoveAt(q, i)
           place == Min({GAP[rating], Len(rest)}) + 1
<1>1. /\ rest \in Seq(Cards) /\ Len(rest) = Len(q) - 1 /\ Len(rest) \in Nat
      /\ IsInjective(rest) /\ ToSet(rest) = ToSet(q) \ {q[i]}
  BY RestOfQueue, LenProperties
<1>2. q[i] \in Cards /\ q[i] \in ToSet(q)
  BY LenProperties, ElementOfSeq DEF ToSet
<1>3. GAP[rating] \in Nat
  BY DEF Ratings, GAP
<1> HIDE DEF rest
<1>4. place \in 1..(Len(rest) + 1)
  BY <1>1, <1>3, MinOfTwo
<1> HIDE DEF place
<1>5. /\ InsertAt(rest, place, q[i]) \in Seq(Cards) /\ IsInjective(InsertAt(rest, place, q[i]))
      /\ ToSet(InsertAt(rest, place, q[i])) = ToSet(rest) \cup {q[i]}
  BY <1>1, <1>2, <1>4, CardReturns
<1>6. NextQueue(q, i, old, rating) =
        IF Retires(old, rating) THEN rest ELSE InsertAt(rest, place, q[i])
  BY DEF NextQueue, rest, place
<1> QED BY <1>1, <1>2, <1>5, <1>6

(* The first of the places whose card has the focused level. *)
LEMMA FocusPlace ==
  ASSUME NEW q \in Seq(Cards), NEW level, NEW focus
  PROVE  FocusIndex(q, level, focus) \in 0..Len(q)
<1> DEFINE I == {i \in 1..Len(q) : level[q[i]] = focus}
<1>1. Len(q) \in Nat /\ (q # <<>> => Len(q) >= 1)
  BY LenProperties, EmptySeq
<1>2. I \in SUBSET (1..Len(q))
  BY <1>1
<1>3. SelectInSeq(q, LAMBDA c : level[c] = focus) = IF I # {} THEN Min(I) ELSE 0
  BY DEF SelectInSeq
<1>4. I # {} => Min(I) \in I
  BY <1>1, <1>2, LeastPlace
<1> QED BY <1>1, <1>3, <1>4 DEF FocusIndex

(* The queue of a new session holds each card of its pool once. *)
LEMMA FirstQueue ==
  ASSUME NEW S \in SUBSET Cards, IsFiniteSet(S), S # {}, NEW level, NEW q \in RankOrders(S, level)
  PROVE  q \in Seq(Cards) /\ IsInjective(q) /\ q # <<>> /\ ToSet(q) = S
<1> DEFINE n == Cardinality(S)
<1>1. n \in Nat /\ (n = 0 <=> S = {})
  BY FS_CardinalityType, FS_EmptySet
<1>2. IsFiniteSet(1..n) /\ Cardinality(1..n) = n
  BY <1>1, FS_Interval
<1> HIDE DEF n
<1>3. q \in [1..n -> S] /\ \A i, j \in 1..n : i # j => q[i] # q[j]
  BY DEF RankOrders, SetToSeqs, n
<1>4. q \in Seq(Cards) /\ Len(q) = n /\ DOMAIN q = 1..n
  <2>1. q \in [1..n -> Cards]
    BY <1>3
  <2> QED BY <1>1, <2>1, SeqDef, LenProperties
<1>5. q \in Injection(1..n, S)
  BY <1>3 DEF Injection, IsInjective
<1>6. q \in Surjection(1..n, S)
  BY <1>2, <1>5, FS_Injection DEF n
<1>7. ToSet(q) = S
  BY <1>4, <1>6 DEF Surjection, ToSet
<1>8. q # <<>>
  BY <1>1, <1>4
<1> QED BY <1>3, <1>4, <1>7, <1>8 DEF IsInjective

(* What one review makes of the progress of its card. *)
ProgressType == [level : Levels, streak : Nat, seen : Nat]
Coherent(p)  == /\ p.streak > 0 <=> p.level = "EASY"
                /\ p.seen = 0 <=> p.level = "NEW"

LEMMA ProgressSteps ==
  ASSUME NEW p \in ProgressType, NEW rating \in Ratings
  PROVE  /\ NextProgress(p, rating) \in ProgressType /\ Coherent(NextProgress(p, rating))
         /\ NextProgress(p, rating).level = rating /\ NextProgress(p, rating).seen = p.seen + 1
         /\ Retires(p, rating) <=> NextProgress(p, rating).streak >= 2
         /\ Retires(p, rating) =>
              p.level = "EASY" /\ NextProgress(p, rating).streak = p.streak + 1
  BY DEF ProgressType, Coherent, NextProgress, Retires, Ratings, Levels

-----------------------------------------------------------------------------
(* The inductive invariant.  A row is what one handler computed from one reading of the row,
   so every row that a handler has read or will write agrees with itself. *)
RowType == [open : BOOLEAN, ended : BOOLEAN, queue : Seq(Cards), reviews : Nat,
            tally : [Ratings -> Nat]]

RowSound(row, cards) ==
  /\ row \in RowType
  /\ IsInjective(row.queue) /\ ToSet(row.queue) \subseteq cards
  /\ row.reviews = SumFunction(row.tally)

RowInv ==
  /\ \A s \in Sessions : RowSound(session[s], known)
  /\ \A s \in Sessions : ~Open(s) => session[s] = NoRow
  /\ EmptyQueueEnded

ProgressInv ==
  /\ progress \in [Cards -> ProgressType]
  /\ \A c \in Cards : Coherent(progress[c])

SlotInv(r) ==
  /\ req[r].at \in {"idle", "ensure", "insert", "end"} \cup Reviewing
  /\ req[r].at \in {"ensure", "insert"} =>
       /\ req[r] \in [at : {"ensure", "insert"}, queue : Seq(Cards)]
       /\ IsInjective(req[r].queue) /\ req[r].queue # <<>>
  /\ req[r].at = "insert" => ToSet(req[r].queue) \subseteq known
  /\ req[r].at \in Reviewing \cup {"end"} => req[r].id \in Sessions /\ Open(req[r].id)
  /\ req[r].at \in Reviewing =>
       /\ req[r].rating \in Ratings
       /\ RowSound(req[r].row, known) /\ req[r].row.queue # <<>>
  /\ req[r].at \in {"state", "commit"} => req[r].index \in 1..Len(req[r].row.queue)
  /\ req[r].at = "commit" => req[r].old \in ProgressType

IInv ==
  /\ DOMAIN session = Sessions /\ DOMAIN req = Requests /\ known \subseteq Cards
  /\ RowInv /\ ProgressInv
  /\ \A r \in Requests : SlotInv(r)

-----------------------------------------------------------------------------
(* The shape of a slot after a step. *)
LEMMA Slots ==
  ASSUME DOMAIN req = Requests, NEW r \in Requests, NEW local, Becomes(r, local)
  PROVE  /\ DOMAIN req' = Requests /\ req'[r] = local
         /\ \A p \in Requests : p # r => req'[p] = req[p]
BY DEF Becomes

LEMMA SlotDone ==
  ASSUME DOMAIN req = Requests, NEW r \in Requests, Done(r)
  PROVE  /\ DOMAIN req' = Requests /\ req'[r] = Idle
         /\ \A p \in Requests : p # r => req'[p] = req[p]
BY DEF Done

LEMMA MoreKnown ==
  ASSUME NEW row, NEW k, NEW l, k \subseteq l, RowSound(row, k)
  PROVE  RowSound(row, l)
BY DEF RowSound

LEMMA RatingsFinite == IsFiniteSet(Ratings)
<1>1. IsFiniteSet({"HARD"}) /\ IsFiniteSet({"HARD"} \cup {"LEARNING"})
      /\ IsFiniteSet(({"HARD"} \cup {"LEARNING"}) \cup {"EASY"})
  BY FS_Singleton, FS_AddElement
<1>2. Ratings = ({"HARD"} \cup {"LEARNING"}) \cup {"EASY"}
  BY DEF Ratings
<1> QED BY <1>1, <1>2

LEMMA Tallies ==
  ASSUME NEW f \in [Ratings -> Nat], NEW rating \in Ratings
  PROVE  /\ [f EXCEPT ![rating] = @ + 1] \in [Ratings -> Nat]
         /\ SumFunction([f EXCEPT ![rating] = @ + 1]) = SumFunction(f) + 1
BY RatingsFinite, SumPlusOne

(* No row before the session is inserted. *)
LEMMA EmptyRow == \A cards : RowSound(NoRow, cards) /\ ~NoRow.open /\ ~NoRow.ended
<1>1. SumFunction(NoTally) = 0 /\ NoTally \in [Ratings -> Nat]
  BY RatingsFinite, SumOfZeros DEF NoTally
<1>2. <<>> \in Seq(Cards) /\ IsInjective(<<>>) /\ ToSet(<<>>) = {}
  BY EmptySeq DEF IsInjective, ToSet
<1> HIDE DEF NoTally
<1> QED BY <1>1, <1>2 DEF RowSound, RowType, NoRow

(* What a review writes is sound when what it read was. *)
LEMMA ReviewedRow ==
  ASSUME NEW row, NEW cards, RowSound(row, cards), NEW now, now.ended \in BOOLEAN,
         NEW i \in 1..Len(row.queue), NEW old, NEW rating \in Ratings
  PROVE  LET new == Reviewed(row, now, i, old, rating)
         IN /\ RowSound(new, cards) /\ new.open /\ new.reviews = row.reviews + 1
            /\ new.queue = NextQueue(row.queue, i, old, rating)
            /\ new.ended <=> (new.queue = <<>> \/ now.ended)
<1> DEFINE q == NextQueue(row.queue, i, old, rating)
           t == [row.tally EXCEPT ![rating] = @ + 1]
           e == (q = <<>> \/ now.ended)
<1>1. /\ row \in RowType /\ row.queue \in Seq(Cards) /\ IsInjective(row.queue)
      /\ ToSet(row.queue) \subseteq cards /\ row.tally \in [Ratings -> Nat]
      /\ row.reviews = SumFunction(row.tally) /\ row.reviews \in Nat
  BY DEF RowSound, RowType
<1>2. q \in Seq(Cards) /\ IsInjective(q) /\ ToSet(q) \subseteq cards
  BY <1>1, Requeued
<1>3. t \in [Ratings -> Nat] /\ SumFunction(t) = row.reviews + 1
  BY <1>1, Tallies
<1>4. e \in BOOLEAN
  OBVIOUS
<1>5. Reviewed(row, now, i, old, rating) =
        [open |-> TRUE, queue |-> q, reviews |-> row.reviews + 1, tally |-> t, ended |-> e]
  BY DEF Reviewed
<1>6. e <=> (q = <<>> \/ now.ended)
  OBVIOUS
<1> HIDE DEF q, t, e
<1> QED BY <1>1, <1>2, <1>3, <1>4, <1>5, <1>6 DEF RowSound, RowType, q

(* What every step keeps of the sessions. *)
SessionsKept ==
  /\ DOMAIN session' = Sessions /\ known \subseteq known' /\ known' \subseteq Cards
  /\ \A s \in Sessions :
       /\ RowSound(session'[s], known')
       /\ ~session'[s].open => session'[s] = NoRow
       /\ session'[s].open /\ session'[s].queue = <<>> => session'[s].ended
       /\ session[s].open => session'[s].open
       /\ session[s].ended => session'[s].ended

LEMMA SessionsStep == IInv /\ [Next]_vars => SessionsKept
<1> SUFFICES ASSUME IInv, [Next]_vars PROVE SessionsKept
  OBVIOUS
<1>1. /\ DOMAIN session = Sessions /\ DOMAIN req = Requests /\ known \subseteq Cards
      /\ \A r \in Requests : SlotInv(r)
      /\ \A s \in Sessions :
           /\ RowSound(session[s], known)
           /\ ~session[s].open => session[s] = NoRow
           /\ session[s].open /\ session[s].queue = <<>> => session[s].ended
  BY DEF IInv, RowInv, EmptyQueueEnded, Open
<1>2. \A s \in Sessions : session[s] \in RowType
  BY <1>1 DEF RowSound
<1>3. ASSUME session' = session, known \subseteq known', known' \subseteq Cards
      PROVE  SessionsKept
  BY <1>1, <1>3, MoreKnown DEF SessionsKept
<1>4. ASSUME NEW s \in Sessions, NEW row, session' = [session EXCEPT ![s] = row],
             known' = known, RowSound(row, known), row.open,
             row.queue = <<>> => row.ended, session[s].ended => row.ended
      PROVE  SessionsKept
  BY <1>1, <1>4 DEF SessionsKept
<1>5. ASSUME NEW r \in Requests, NEW s \in Sessions, CreateInsert(r, s) PROVE SessionsKept
  <2> DEFINE q == req[r].queue
             row == [NoRow EXCEPT !.open = TRUE, !.queue = q]
  <2>1. q \in Seq(Cards) /\ IsInjective(q) /\ q # <<>> /\ ToSet(q) \subseteq known
    BY <1>1, <1>5 DEF SlotInv, CreateInsert
  <2>2. session' = [session EXCEPT ![s] = row] /\ known' = known /\ ~session[s].open
    BY <1>5 DEF CreateInsert
  <2> HIDE DEF q
  <2>3. NoRow \in RowType /\ NoRow.reviews = SumFunction(NoRow.tally) /\ ~NoRow.ended
    BY EmptyRow DEF RowSound
  <2>4. row.open /\ row.queue = q /\ row.reviews = NoRow.reviews /\ row.tally = NoRow.tally
        /\ row \in RowType
    BY <2>1, <2>3 DEF RowType
  <2> HIDE DEF row
  <2>5. RowSound(row, known)
    BY <2>1, <2>3, <2>4 DEF RowSound
  <2>6. ~session[s].ended
    BY <1>1, <2>2, <2>3
  <2> QED BY <1>4, <2>1, <2>2, <2>4, <2>5, <2>6
<1>6. ASSUME NEW r \in Requests, ReviewCommit(r) PROVE SessionsKept
  <2> DEFINE s == req[r].id
             row == Reviewed(req[r].row, session[s], req[r].index, req[r].old, req[r].rating)
  <2>1. /\ s \in Sessions /\ RowSound(req[r].row, known) /\ req[r].rating \in Ratings
        /\ req[r].index \in 1..Len(req[r].row.queue)
    BY <1>1, <1>6 DEF SlotInv, ReviewCommit, Reviewing
  <2>2. session' = [session EXCEPT ![s] = row] /\ known' = known
    BY <1>6 DEF ReviewCommit
  <2>3. session[s].ended \in BOOLEAN
    BY <1>2, <2>1 DEF RowType
  <2>4. /\ RowSound(row, known) /\ row.open
        /\ row.ended <=> (row.queue = <<>> \/ session[s].ended)
    BY <2>1, <2>3, ReviewedRow
  <2> HIDE DEF s, row
  <2> QED BY <1>4, <2>1, <2>2, <2>4
<1>7. ASSUME NEW r \in Requests, FinishUpdate(r) PROVE SessionsKept
  <2> DEFINE s == req[r].id
             row == [session[s] EXCEPT !.ended = TRUE]
  <2>1. s \in Sessions /\ session[s].open /\ session[s] \in RowType /\ known' = known
    BY <1>1, <1>2, <1>7 DEF SlotInv, FinishUpdate, Open
  <2>2. CASE session' = session
    BY <1>1, <1>3, <2>1, <2>2
  <2>3. CASE session' # session
    <3>1. session' = [session EXCEPT ![s] = row]
      BY <1>7, <2>3 DEF FinishUpdate
    <3>2. /\ row \in RowType /\ row.ended /\ row.open
          /\ row.queue = session[s].queue /\ row.reviews = session[s].reviews
          /\ row.tally = session[s].tally
      BY <2>1 DEF RowType
    <3> HIDE DEF s, row
    <3>3. RowSound(row, known)
      BY <1>1, <2>1, <3>2 DEF RowSound
    <3> QED BY <1>4, <2>1, <3>1, <3>2, <3>3
  <2> QED BY <2>2, <2>3
<1>8. ASSUME NEW r \in Requests, CreateEnsure(r) PROVE SessionsKept
  <2>1. req[r].queue \in Seq(Cards) /\ session' = session
        /\ known' = known \cup ToSet(req[r].queue)
    BY <1>1, <1>8 DEF SlotInv, CreateEnsure
  <2>2. ToSet(req[r].queue) \subseteq Cards
    BY <2>1, LenProperties DEF ToSet
  <2> QED BY <1>1, <1>3, <2>1, <2>2
<1>9. CASE UNCHANGED <<session, known>>
  BY <1>1, <1>3, <1>9
<1> QED BY <1>5, <1>6, <1>7, <1>8, <1>9 DEF Next, Call, Step, CreateRead, ReviewRead, FinishRead,
    ReviewPick, ReviewState, Abandon, vars

LEMMA RowsStep == IInv /\ [Next]_vars =>
  DOMAIN session' = Sessions /\ known' \subseteq Cards /\ RowInv'
BY SessionsStep DEF SessionsKept, RowInv, EmptyQueueEnded, Open

LEMMA ProgressStep == IInv /\ [Next]_vars => ProgressInv'
<1> SUFFICES ASSUME IInv, [Next]_vars PROVE ProgressInv'
  OBVIOUS
<1>1. ProgressInv /\ \A r \in Requests : SlotInv(r)
  BY DEF IInv
<1>2. ASSUME progress' = progress PROVE ProgressInv'
  BY <1>1, <1>2 DEF ProgressInv
<1>3. ASSUME NEW r \in Requests, ReviewCommit(r) PROVE ProgressInv'
  <2> DEFINE card == req[r].row.queue[req[r].index]
             new  == NextProgress(req[r].old, req[r].rating)
  <2>1. progress' = [progress EXCEPT ![card] = new]
    BY <1>3 DEF ReviewCommit
  <2>2. req[r].old \in ProgressType /\ req[r].rating \in Ratings
    BY <1>1, <1>3 DEF SlotInv, ReviewCommit, Reviewing
  <2>3. new \in ProgressType /\ Coherent(new)
    BY <2>2, ProgressSteps
  <2> HIDE DEF card, new
  <2> QED BY <1>1, <2>1, <2>3 DEF ProgressInv
<1> QED BY <1>2, <1>3 DEF Next, Call, Step, CreateRead, ReviewRead, FinishRead,
    ReviewPick, ReviewState, Abandon, CreateEnsure, CreateInsert, FinishUpdate, vars

LEMMA OthersKeep ==
  ASSUME IInv, [Next]_vars, NEW p \in Requests, req'[p] = req[p]
  PROVE  SlotInv(p)'
<1>1. SlotInv(p) /\ known \subseteq known' /\ \A s \in Sessions : Open(s) => Open(s)'
  BY SessionsStep DEF IInv, SessionsKept, Open
<1>2. req[p].at \in Reviewing => RowSound(req[p].row, known')
  BY <1>1, MoreKnown DEF SlotInv
<1> QED BY <1>1, <1>2 DEF SlotInv

(* The pool of a create is not empty, so neither is its queue. *)
LEMMA CreateQueue ==
  ASSUME NEW pool \in Pools, NEW hardOnly, NEW level,
         NEW q \in RankOrders(IF hardOnly THEN HardOnly(pool, level) ELSE pool, level)
  PROVE  /\ q \in Seq(Cards) /\ IsInjective(q) /\ q # <<>>
         /\ (\A c \in pool : level[c] = "NEW") => ToSet(q) = pool
<1> DEFINE S == IF hardOnly THEN HardOnly(pool, level) ELSE pool
<1>1. pool \in SUBSET Cards /\ pool # {} /\ IsFiniteSet(pool)
  BY StudyAssumption, FS_Subset
<1>2. S \subseteq pool /\ S # {} /\ ((\A c \in pool : level[c] = "NEW") => S = pool)
  BY <1>1 DEF HardOnly
<1>3. q \in RankOrders(S, level)
  OBVIOUS
<1> HIDE DEF S
<1>4. IsFiniteSet(S) /\ S \in SUBSET Cards
  BY <1>1, <1>2, FS_Subset
<1>5. q \in Seq(Cards) /\ IsInjective(q) /\ q # <<>> /\ ToSet(q) = S
  BY <1>2, <1>3, <1>4, FirstQueue
<1> QED BY <1>2, <1>5

LEMMA OwnSlot ==
  ASSUME IInv, [Next]_vars, NEW r \in Requests, Call(r) \/ Step(r)
  PROVE  /\ DOMAIN req' = Requests /\ SlotInv(r)'
         /\ \A p \in Requests : p # r => req'[p] = req[p]
<1> DEFINE Mine == /\ DOMAIN req' = Requests /\ SlotInv(r)'
                   /\ \A p \in Requests : p # r => req'[p] = req[p]
<1> SUFFICES Mine
  OBVIOUS
<1>1. /\ DOMAIN req = Requests /\ SlotInv(r) /\ known \subseteq known'
      /\ \A s \in Sessions : RowSound(session[s], known) /\ (Open(s) => Open(s)')
      /\ progress \in [Cards -> ProgressType]
  BY SessionsStep DEF IInv, SessionsKept, RowInv, ProgressInv, Open
<1>2. ASSUME Done(r) PROVE Mine
  BY <1>1, <1>2, SlotDone DEF Idle, SlotInv, Reviewing
<1>3. ASSUME NEW pool \in Pools, NEW hardOnly \in BOOLEAN, CreateRead(r, pool, hardOnly)
      PROVE  Mine
  <2>1. PICK q \in RankOrders(IF hardOnly THEN HardOnly(pool, Level) ELSE pool, Level) :
          Becomes(r, [at |-> "ensure", queue |-> q])
    BY <1>3 DEF CreateRead
  <2>2. q \in Seq(Cards) /\ IsInjective(q) /\ q # <<>>
    BY <2>1, CreateQueue
  <2> QED BY <1>1, <2>1, <2>2, Slots DEF SlotInv, Reviewing
<1>4. CASE CreateEnsure(r)
  <2> DEFINE local == [req[r] EXCEPT !.at = "insert"]
  <2>1. /\ req[r] \in [at : {"ensure", "insert"}, queue : Seq(Cards)]
        /\ IsInjective(req[r].queue) /\ req[r].queue # <<>>
    BY <1>1, <1>4 DEF SlotInv, CreateEnsure
  <2>2. /\ local \in [at : {"ensure", "insert"}, queue : Seq(Cards)]
        /\ local.queue = req[r].queue /\ local.at = "insert"
    BY <2>1
  <2>3. Becomes(r, local) /\ known' = known \cup ToSet(req[r].queue)
    BY <1>4 DEF CreateEnsure
  <2> HIDE DEF local
  <2> QED BY <1>1, <2>1, <2>2, <2>3, Slots DEF SlotInv, Reviewing
<1>5. ASSUME NEW s \in Sessions, NEW rating \in Ratings, NEW focus \in Focuses,
             ReviewRead(r, s, rating, focus)
      PROVE  Mine
  <2> DEFINE local == [at |-> "pick", id |-> s, row |-> session[s], rating |-> rating, focus |-> focus]
  <2>1. /\ local.at = "pick" /\ local.id = s /\ local.row = session[s] /\ local.rating = rating
    OBVIOUS
  <2>2. /\ Becomes(r, local) /\ Open(s) /\ session[s].queue # <<>> /\ session' = session
        /\ known' = known
    BY <1>5 DEF ReviewRead, Open
  <2> HIDE DEF local
  <2>3. req'[r] = local /\ DOMAIN req' = Requests /\ \A p \in Requests : p # r => req'[p] = req[p]
    BY <1>1, <2>2, Slots
  <2> QED BY <1>1, <2>1, <2>2, <2>3 DEF SlotInv, Reviewing
<1>6. CASE ReviewPick(r)
  <2> DEFINE index == FocusIndex(req[r].row.queue, Level, req[r].focus)
             local == [at |-> "state", id |-> req[r].id, row |-> req[r].row,
                       rating |-> req[r].rating, index |-> index]
  <2>1. /\ req[r].id \in Sessions /\ Open(req[r].id) /\ req[r].rating \in Ratings
        /\ RowSound(req[r].row, known) /\ req[r].row.queue # <<>>
    BY <1>1, <1>6 DEF SlotInv, ReviewPick, Reviewing
  <2>2. index \in 0..Len(req[r].row.queue)
    BY <2>1, FocusPlace DEF RowSound, RowType
  <2>3. CASE index = 0
    BY <1>2, <1>6, <2>3 DEF ReviewPick
  <2>4. CASE index # 0
    <3>1. /\ local.at = "state" /\ local.id = req[r].id /\ local.row = req[r].row
          /\ local.rating = req[r].rating /\ local.index = index
      OBVIOUS
    <3>2. Becomes(r, local) /\ session' = session /\ known' = known
      BY <1>6, <2>4 DEF ReviewPick
    <3> HIDE DEF index, local
    <3>3. Len(req[r].row.queue) \in Nat
      BY <2>1, LenProperties DEF RowSound, RowType
    <3>4. index \in 1..Len(req[r].row.queue)
      BY <2>2, <2>4, <3>3
    <3>5. req'[r] = local /\ DOMAIN req' = Requests /\ \A p \in Requests : p # r => req'[p] = req[p]
      BY <1>1, <3>2, Slots
    <3> QED BY <1>1, <2>1, <3>1, <3>2, <3>4, <3>5 DEF SlotInv, Reviewing
  <2> QED BY <2>3, <2>4
<1>7. CASE ReviewState(r)
  <2> DEFINE card  == req[r].row.queue[req[r].index]
             old   == progress[card]
             local == [at |-> "commit", id |-> req[r].id, row |-> req[r].row,
                       rating |-> req[r].rating, index |-> req[r].index, old |-> old]
  <2>1. /\ req[r].id \in Sessions /\ Open(req[r].id) /\ req[r].rating \in Ratings
        /\ RowSound(req[r].row, known) /\ req[r].row.queue # <<>>
        /\ req[r].index \in 1..Len(req[r].row.queue)
    BY <1>1, <1>7 DEF SlotInv, ReviewState, Reviewing
  <2>2. card \in Cards
    BY <2>1, ElementOfSeq DEF RowSound, RowType
  <2>3. old \in ProgressType
    BY <1>1, <2>2
  <2>4. CASE card \notin known
    BY <1>2, <1>7, <2>4 DEF ReviewState
  <2>5. CASE card \in known
    <3>1. /\ local.at = "commit" /\ local.id = req[r].id /\ local.row = req[r].row
          /\ local.rating = req[r].rating /\ local.index = req[r].index /\ local.old = old
      OBVIOUS
    <3>2. Becomes(r, local) /\ session' = session /\ known' = known
      BY <1>7, <2>5 DEF ReviewState
    <3> HIDE DEF card, old, local
    <3>3. req'[r] = local /\ DOMAIN req' = Requests /\ \A p \in Requests : p # r => req'[p] = req[p]
      BY <1>1, <3>2, Slots
    <3> QED BY <1>1, <2>1, <2>3, <3>1, <3>2, <3>3 DEF SlotInv, Reviewing
  <2> QED BY <2>4, <2>5
<1>8. ASSUME NEW s \in Sessions, FinishRead(r, s) PROVE Mine
  <2> DEFINE local == [at |-> "end", id |-> s, row |-> session[s]]
  <2>1. local.at = "end" /\ local.id = s
    OBVIOUS
  <2>2. Becomes(r, local) /\ Open(s)
    BY <1>8 DEF FinishRead, Open
  <2> HIDE DEF local
  <2> QED BY <1>1, <2>1, <2>2, Slots DEF SlotInv, Reviewing
<1>9. CASE ReviewCommit(r) \/ FinishUpdate(r) \/ Abandon(r) \/ \E s \in Sessions : CreateInsert(r, s)
  BY <1>2, <1>9 DEF ReviewCommit, FinishUpdate, Abandon, CreateInsert
<1> QED BY <1>3, <1>4, <1>5, <1>6, <1>7, <1>8, <1>9 DEF Call, Step

LEMMA SlotsStep == IInv /\ [Next]_vars => DOMAIN req' = Requests /\ \A r \in Requests : SlotInv(r)'
<1> SUFFICES ASSUME IInv, [Next]_vars
             PROVE  DOMAIN req' = Requests /\ \A p \in Requests : SlotInv(p)'
  OBVIOUS
<1>1. CASE \E r \in Requests : Call(r) \/ Step(r)
  BY <1>1, OthersKeep, OwnSlot
<1>2. CASE UNCHANGED vars
  BY <1>2, OthersKeep DEF vars, IInv
<1> QED BY <1>1, <1>2 DEF Next

LEMMA StepKeeps == IInv /\ [Next]_vars => IInv'
BY RowsStep, ProgressStep, SlotsStep DEF IInv

LEMMA InitHolds == Init => IInv
<1> SUFFICES ASSUME Init PROVE IInv
  OBVIOUS
<1>1. /\ session = [s \in Sessions |-> NoRow] /\ progress = [c \in Cards |-> NewProgress]
      /\ known = {} /\ req = [r \in Requests |-> Idle]
  BY DEF Init
<1>2. RowInv
  BY <1>1, EmptyRow DEF RowInv, EmptyQueueEnded, Open
<1>3. NewProgress \in ProgressType /\ Coherent(NewProgress)
  BY DEF NewProgress, ProgressType, Coherent, Levels
<1>4. ProgressInv
  BY <1>1, <1>3 DEF ProgressInv
<1>5. \A r \in Requests : SlotInv(r)
  BY <1>1 DEF SlotInv, Idle, Reviewing
<1> QED BY <1>1, <1>2, <1>4, <1>5 DEF IInv

(* The inductive invariant holds in every reachable state, for any number of requests. *)
THEOREM Always == Spec => []IInv
BY InitHolds, StepKeeps, PTL DEF Spec

(* Every row and every slot keeps its type. *)
THEOREM TypeCorrect == Spec => []TypeOK
<1>1. IInv => TypeOK
  <2> SUFFICES ASSUME IInv PROVE TypeOK
    OBVIOUS
  <2>1. \A s \in Sessions : session[s] \in RowType
    BY DEF IInv, RowInv, RowSound
  <2>2. \A s \in Sessions :
          /\ session[s].open \in BOOLEAN /\ session[s].ended \in BOOLEAN
          /\ session[s].queue \in Seq(Cards) /\ session[s].reviews \in Nat
          /\ session[s].tally \in [Ratings -> Nat]
    BY <2>1 DEF RowType
  <2> QED BY <2>2 DEF IInv, ProgressInv, ProgressType, SlotInv, TypeOK
<1> QED BY <1>1, Always, PTL

(* However reviews, finishes, creates and crashes interleave, the row of a session agrees with
   itself and with the cards': a review that overwrites another one loses it whole. *)
THEOREM RowsAreSound == Spec => []RowsSound
<1>1. IInv => QueueSound /\ TallyAddsUp /\ EmptyQueueEnded
  BY DEF IInv, RowInv, RowSound, QueueSound, TallyAddsUp, Queued
<1> QED BY <1>1, TypeCorrect, Always, PTL DEF RowsSound

(* A card has a streak exactly at EASY and is NEW exactly until it is seen, even when a review
   computes its progress from a reading that another one has overwritten. *)
THEOREM ProgressIsCoherent == Spec => []ProgressCoherent
<1>1. IInv => ProgressCoherent
  BY DEF IInv, ProgressInv, Coherent, ProgressCoherent
<1> QED BY <1>1, Always, PTL

(* No review reopens a session that a finish ended after the review had read it: endedAt stays
   set, by whichever of the two wrote it last. *)
THEOREM EndedStays == Spec => EndedForGood
<1>1. IInv /\ [Next]_vars => [\A s \in Sessions : session[s].ended => session'[s].ended]_vars
  BY SessionsStep DEF SessionsKept
<1> QED BY <1>1, Always, PTL DEF Spec, EndedForGood

-----------------------------------------------------------------------------
(* One request at a time: what a handler has read is still there when it commits.  Each of the
   properties below fails with two requests at once. *)
OneAtATime == \A p, q \in Requests : p = q

SerialSlot(r) ==
  /\ req[r].at \in Reviewing => req[r].row = session[req[r].id]
  /\ req[r].at = "commit" => req[r].old = progress[req[r].row.queue[req[r].index]]

Seen == [c \in Cards |-> progress[c].seen]

SerialInv ==
  /\ IInv
  /\ \A r \in Requests : SerialSlot(r)
  /\ committed \in [Sessions -> Nat]
  /\ ReviewsCounted

(* What a commit writes when it is alone: the review of the rows as they are. *)
LEMMA AloneCommit ==
  ASSUME SerialInv, NEW r \in Requests, ReviewCommit(r)
  PROVE  \E s \in Sessions, rating \in Ratings : \E i \in 1..Len(session[s].queue) :
           LET card == session[s].queue[i]
               old  == progress[card]
           IN /\ card \in Cards /\ old \in ProgressType /\ RowSound(session[s], known)
              /\ s = req[r].id /\ i = req[r].index /\ Open(s)
              /\ progress' = [progress EXCEPT ![card] = NextProgress(old, rating)]
              /\ session' = [session EXCEPT ![s] = Reviewed(session[s], session[s], i, old, rating)]
              /\ committed' = [committed EXCEPT ![s] = @ + 1]
<1> DEFINE s == req[r].id
           i == req[r].index
           rating == req[r].rating
           card == req[r].row.queue[i]
<1>1. /\ SlotInv(r) /\ SerialSlot(r) /\ req[r].at = "commit"
      /\ progress \in [Cards -> ProgressType]
  BY DEF SerialInv, IInv, ProgressInv, ReviewCommit
<1>2. /\ s \in Sessions /\ Open(s) /\ rating \in Ratings /\ req[r].row = session[s]
      /\ i \in 1..Len(session[s].queue) /\ req[r].old = progress[card]
      /\ RowSound(session[s], known)
  BY <1>1 DEF SlotInv, SerialSlot, Reviewing
<1>3. card = session[s].queue[i] /\ card \in Cards
  BY <1>2, ElementOfSeq DEF RowSound, RowType
<1>4. progress[card] \in ProgressType
  BY <1>1, <1>3
<1>5. /\ progress' = [progress EXCEPT ![card] = NextProgress(progress[card], rating)]
      /\ session' = [session EXCEPT ![s] = Reviewed(session[s], session[s], i, progress[card], rating)]
      /\ committed' = [committed EXCEPT ![s] = @ + 1]
  BY <1>2 DEF ReviewCommit
<1> HIDE DEF s, i, rating, card
<1>6. card = session[s].queue[i]
  BY <1>3
<1>7. s = req[r].id /\ i = req[r].index
  BY DEF s, i
<1> QED BY <1>2, <1>3, <1>4, <1>5, <1>6, <1>7

LEMMA SerialSlots ==
  ASSUME OneAtATime, SerialInv, [Next]_vars, NEW r \in Requests
  PROVE  SerialSlot(r)'
<1>1. DOMAIN req = Requests /\ SlotInv(r) /\ SerialSlot(r)
  BY DEF SerialInv, IInv
<1>2. ASSUME Done(r) PROVE SerialSlot(r)'
  BY <1>1, <1>2, SlotDone DEF Idle, SerialSlot, Reviewing
<1>3. ASSUME NEW local, Becomes(r, local), session' = session, progress' = progress,
             local.at \in Reviewing => local.row = session[local.id],
             local.at = "commit" => local.old = progress[local.row.queue[local.index]]
      PROVE  SerialSlot(r)'
  BY <1>1, <1>3, Slots DEF SerialSlot
<1>4. CASE ReviewPick(r)
  <2> DEFINE index == FocusIndex(req[r].row.queue, Level, req[r].focus)
             local == [at |-> "state", id |-> req[r].id, row |-> req[r].row,
                       rating |-> req[r].rating, index |-> index]
  <2>1. req[r].row = session[req[r].id]
    BY <1>1, <1>4 DEF ReviewPick, SerialSlot, Reviewing
  <2>2. Done(r) \/ Becomes(r, local)
    BY <1>4 DEF ReviewPick
  <2>3. local.at = "state" /\ local.row = session[local.id]
    BY <2>1
  <2>4. session' = session /\ progress' = progress
    BY <1>4 DEF ReviewPick
  <2> HIDE DEF index, local
  <2> QED BY <1>2, <1>3, <2>2, <2>3, <2>4
<1>5. CASE ReviewState(r)
  <2> DEFINE card == req[r].row.queue[req[r].index]
             local == [at |-> "commit", id |-> req[r].id, row |-> req[r].row,
                       rating |-> req[r].rating, index |-> req[r].index, old |-> progress[card]]
  <2>1. req[r].row = session[req[r].id]
    BY <1>1, <1>5 DEF ReviewState, SerialSlot, Reviewing
  <2>2. Done(r) \/ Becomes(r, local)
    BY <1>5 DEF ReviewState
  <2>3. /\ local.row = session[local.id]
        /\ local.old = progress[local.row.queue[local.index]]
    BY <2>1
  <2>4. session' = session /\ progress' = progress
    BY <1>5 DEF ReviewState
  <2> HIDE DEF card, local
  <2> QED BY <1>2, <1>3, <2>2, <2>3, <2>4
<1>6. ASSUME NEW s \in Sessions, NEW rating \in Ratings, NEW focus \in Focuses,
             ReviewRead(r, s, rating, focus)
      PROVE  SerialSlot(r)'
  <2> DEFINE local == [at |-> "pick", id |-> s, row |-> session[s], rating |-> rating, focus |-> focus]
  <2>1. local.at = "pick" /\ local.row = session[local.id]
    OBVIOUS
  <2>2. Becomes(r, local) /\ session' = session /\ progress' = progress
    BY <1>6 DEF ReviewRead
  <2> HIDE DEF local
  <2> QED BY <1>3, <2>1, <2>2
<1>7. CASE CreateEnsure(r)
  <2> DEFINE local == [req[r] EXCEPT !.at = "insert"]
  <2>1. local.at = "insert"
    BY <1>1, <1>7 DEF CreateEnsure, SlotInv
  <2>2. Becomes(r, local) /\ session' = session /\ progress' = progress
    BY <1>7 DEF CreateEnsure
  <2> HIDE DEF local
  <2> QED BY <1>3, <2>1, <2>2 DEF Reviewing
<1>8. CASE \/ \E pool \in Pools, hardOnly \in BOOLEAN : CreateRead(r, pool, hardOnly)
           \/ \E s \in Sessions : FinishRead(r, s)
  BY <1>3, <1>8 DEF CreateRead, FinishRead, Reviewing
<1>9. CASE ReviewCommit(r) \/ FinishUpdate(r) \/ Abandon(r) \/ \E s \in Sessions : CreateInsert(r, s)
  BY <1>2, <1>9 DEF ReviewCommit, FinishUpdate, Abandon, CreateInsert
<1>10. CASE UNCHANGED vars
  BY <1>1, <1>10 DEF vars, SerialSlot
<1>11. CASE Call(r) \/ Step(r)
  BY <1>4, <1>5, <1>6, <1>7, <1>8, <1>9, <1>11 DEF Call, Step
<1> QED BY <1>10, <1>11 DEF Next, OneAtATime

LEMMA SerialCounts == SerialInv /\ [Next]_vars => committed' \in [Sessions -> Nat] /\ ReviewsCounted'
<1> SUFFICES ASSUME SerialInv, [Next]_vars PROVE committed' \in [Sessions -> Nat] /\ ReviewsCounted'
  OBVIOUS
<1>1. /\ IInv /\ ReviewsCounted /\ committed \in [Sessions -> Nat]
      /\ \A s \in Sessions : RowSound(session[s], known)
      /\ \A s \in Sessions : ~Open(s) => session[s] = NoRow
      /\ DOMAIN session = Sessions /\ progress \in [Cards -> ProgressType]
  BY DEF SerialInv, IInv, RowInv, ProgressInv
<1>2. IsFiniteSet(Cards) /\ IsFiniteSet(Sessions)
  BY StudyAssumption
<1>3. SeenTotal = SumFunction(Seen) /\ SeenTotal' = SumFunction(Seen')
  BY DEF SeenTotal, Seen
<1>4. Seen \in [Cards -> Nat]
  BY <1>1 DEF Seen, ProgressType
<1>5. ASSUME progress' = progress, committed' = committed,
             \A s \in Sessions : session'[s].reviews = session[s].reviews
      PROVE  committed' \in [Sessions -> Nat] /\ ReviewsCounted'
  BY <1>1, <1>5 DEF ReviewsCounted, SeenTotal
<1>6. ASSUME NEW r \in Requests, ReviewCommit(r)
      PROVE  committed' \in [Sessions -> Nat] /\ ReviewsCounted'
  <2>1. PICK s \in Sessions, rating \in Ratings : \E i \in 1..Len(session[s].queue) :
           LET card == session[s].queue[i]
               old  == progress[card]
           IN /\ card \in Cards /\ old \in ProgressType /\ RowSound(session[s], known)
              /\ s = req[r].id /\ i = req[r].index /\ Open(s)
              /\ progress' = [progress EXCEPT ![card] = NextProgress(old, rating)]
              /\ session' = [session EXCEPT ![s] = Reviewed(session[s], session[s], i, old, rating)]
              /\ committed' = [committed EXCEPT ![s] = @ + 1]
    BY <1>6, AloneCommit
  <2>2. PICK i \in 1..Len(session[s].queue) :
           LET card == session[s].queue[i]
               old  == progress[card]
           IN /\ card \in Cards /\ old \in ProgressType /\ RowSound(session[s], known)
              /\ progress' = [progress EXCEPT ![card] = NextProgress(old, rating)]
              /\ session' = [session EXCEPT ![s] = Reviewed(session[s], session[s], i, old, rating)]
              /\ committed' = [committed EXCEPT ![s] = @ + 1]
    BY <2>1
  <2> DEFINE card == session[s].queue[i]
             row  == Reviewed(session[s], session[s], i, progress[card], rating)
             next == NextProgress(progress[card], rating)
  <2>3. row.reviews = session[s].reviews + 1
    BY DEF Reviewed
  <2>4. next.seen = progress[card].seen + 1
    BY DEF NextProgress
  <2>5. /\ progress' = [progress EXCEPT ![card] = next] /\ card \in Cards
        /\ session' = [session EXCEPT ![s] = row]
        /\ committed' = [committed EXCEPT ![s] = @ + 1]
    BY <2>2
  <2> HIDE DEF card, row, next
  <2>6. Seen' = [Seen EXCEPT ![card] = @ + 1]
    BY <1>1, <2>4, <2>5 DEF Seen
  <2>7. SumFunction(Seen') = SumFunction(Seen) + 1
    BY <1>2, <1>4, <2>5, <2>6, SumPlusOne
  <2>8. committed' \in [Sessions -> Nat] /\ SumFunction(committed') = SumFunction(committed) + 1
    <3> DEFINE g == [committed EXCEPT ![s] = @ + 1]
    <3>1. g \in [Sessions -> Nat] /\ SumFunction(g) = SumFunction(committed) + 1
      BY <1>1, <1>2, SumPlusOne
    <3>2. committed' = g
      BY <2>5
    <3> HIDE DEF g
    <3> QED BY <3>1, <3>2
  <2>9. SeenTotal' = SumFunction(committed')
    BY <1>1, <1>3, <2>7, <2>8 DEF ReviewsCounted
  <2>10. \A t \in Sessions : session'[t].reviews = committed'[t]
    BY <1>1, <2>3, <2>5 DEF ReviewsCounted
  <2> QED BY <2>8, <2>9, <2>10 DEF ReviewsCounted
<1>7. ASSUME NEW r \in Requests, NEW s \in Sessions, CreateInsert(r, s)
      PROVE  committed' \in [Sessions -> Nat] /\ ReviewsCounted'
  <2>1. session[s] = NoRow
    BY <1>1, <1>7 DEF CreateInsert, Open
  <2>2. \A t \in Sessions : session'[t].reviews = session[t].reviews
    BY <1>1, <1>7, <2>1 DEF CreateInsert, NoRow
  <2> QED BY <1>5, <1>7, <2>2 DEF CreateInsert
<1>8. ASSUME NEW r \in Requests, FinishUpdate(r)
      PROVE  committed' \in [Sessions -> Nat] /\ ReviewsCounted'
  <2>1. \A s \in Sessions : session[s] \in RowType
    BY <1>1 DEF RowSound
  <2>2. \A s \in Sessions : session'[s].reviews = session[s].reviews
    BY <1>1, <1>8, <2>1 DEF FinishUpdate, RowType
  <2> QED BY <1>5, <1>8, <2>2 DEF FinishUpdate
<1>9. CASE UNCHANGED <<session, progress, committed>>
  BY <1>5, <1>9
<1> QED BY <1>6, <1>7, <1>8, <1>9 DEF Next, Call, Step, CreateRead, ReviewRead, FinishRead,
    CreateEnsure, ReviewPick, ReviewState, Abandon, vars

LEMMA SerialInit == Init => SerialInv
<1> SUFFICES ASSUME Init PROVE SerialInv
  OBVIOUS
<1>1. IInv
  BY InitHolds
<1>2. /\ session = [s \in Sessions |-> NoRow] /\ progress = [c \in Cards |-> NewProgress]
      /\ req = [r \in Requests |-> Idle] /\ committed = [s \in Sessions |-> 0]
  BY DEF Init
<1>3. \A r \in Requests : SerialSlot(r)
  BY <1>2 DEF SerialSlot, Idle, Reviewing
<1>4. [c \in Cards |-> progress[c].seen] = [c \in Cards |-> 0]
  BY <1>2 DEF NewProgress
<1>5. SeenTotal = 0 /\ SumFunction(committed) = 0
  BY <1>2, <1>4, StudyAssumption, SumOfZeros DEF SeenTotal
<1>6. ReviewsCounted
  BY <1>2, <1>5 DEF ReviewsCounted, NoRow
<1> QED BY <1>1, <1>2, <1>3, <1>6 DEF SerialInv

LEMMA SerialStep ==
  ASSUME OneAtATime, SerialInv, [Next]_vars
  PROVE  SerialInv'
BY StepKeeps, SerialSlots, SerialCounts DEF SerialInv

LEMMA SerialAlways ==
  ASSUME OneAtATime
  PROVE  Spec => []SerialInv
<1>1. SerialInv /\ [Next]_vars => SerialInv'
  BY SerialStep
<1> QED BY <1>1, SerialInit, PTL DEF Spec

(* One request at a time, no review is lost: the counters of the sessions and those of the
   cards count the same reviews, each once. *)
THEOREM NoReviewLost ==
  ASSUME OneAtATime
  PROVE  Spec => []ReviewsCounted
<1>1. SerialInv => ReviewsCounted
  BY DEF SerialInv
<1> QED BY <1>1, SerialAlways, PTL

(* The card of a review leaves its queue when the review makes its streak two, that is when it
   was EASY and is rated EASY again; the queues keep all others. *)
LEMMA AloneQueue ==
  ASSUME SerialInv, NEW r \in Requests, ReviewCommit(r)
  PROVE  \E s \in Sessions, card \in Cards :
           /\ Open(s) /\ session'[s].open /\ card \in ToSet(session[s].queue)
           /\ \A c \in Cards \ {card} : progress'[c] = progress[c]
           /\ progress'[card].streak >= 2 =>
                progress[card].level = "EASY" /\ progress'[card].streak = progress[card].streak + 1
           /\ ToSet(session'[s].queue) = IF progress'[card].streak >= 2
                                         THEN ToSet(session[s].queue) \ {card}
                                         ELSE ToSet(session[s].queue)
           /\ \A t \in Sessions \ {s} : session'[t] = session[t]
<1>1. PICK s \in Sessions, rating \in Ratings : \E i \in 1..Len(session[s].queue) :
         LET card == session[s].queue[i]
             old  == progress[card]
         IN /\ card \in Cards /\ old \in ProgressType /\ RowSound(session[s], known)
            /\ s = req[r].id /\ i = req[r].index /\ Open(s)
            /\ progress' = [progress EXCEPT ![card] = NextProgress(old, rating)]
            /\ session' = [session EXCEPT ![s] = Reviewed(session[s], session[s], i, old, rating)]
            /\ committed' = [committed EXCEPT ![s] = @ + 1]
  BY AloneCommit
<1>2. PICK i \in 1..Len(session[s].queue) :
         LET card == session[s].queue[i]
             old  == progress[card]
         IN /\ card \in Cards /\ old \in ProgressType /\ RowSound(session[s], known)
            /\ Open(s)
            /\ progress' = [progress EXCEPT ![card] = NextProgress(old, rating)]
            /\ session' = [session EXCEPT ![s] = Reviewed(session[s], session[s], i, old, rating)]
  BY <1>1
<1> DEFINE q    == session[s].queue
           card == q[i]
           old  == progress[card]
           new  == NextProgress(old, rating)
           row  == Reviewed(session[s], session[s], i, old, rating)
<1>3. q \in Seq(Cards) /\ IsInjective(q) /\ card \in ToSet(q)
  BY <1>2, LenProperties DEF RowSound, RowType, ToSet
<1>4. /\ new.streak >= 2 <=> Retires(old, rating)
      /\ Retires(old, rating) => old.level = "EASY" /\ new.streak = old.streak + 1
  BY <1>2, ProgressSteps
<1>5. ToSet(NextQueue(q, i, old, rating)) =
        IF Retires(old, rating) THEN ToSet(q) \ {card} ELSE ToSet(q)
  BY <1>3, Requeued
<1>6. row.open /\ row.queue = NextQueue(q, i, old, rating)
  BY DEF Reviewed
<1>7. /\ progress \in [Cards -> ProgressType] /\ DOMAIN session = Sessions /\ card \in Cards
      /\ progress' = [progress EXCEPT ![card] = new] /\ session' = [session EXCEPT ![s] = row]
      /\ Open(s)
  BY <1>2 DEF SerialInv, IInv, ProgressInv
<1>8. old = progress[card] /\ q = session[s].queue
  OBVIOUS
<1> HIDE DEF q, card, old, new, row
<1>9. progress'[card] = new /\ session'[s] = row
  BY <1>7
<1>10. ToSet(session'[s].queue) = IF progress'[card].streak >= 2
                                  THEN ToSet(session[s].queue) \ {card}
                                  ELSE ToSet(session[s].queue)
  BY <1>4, <1>5, <1>6, <1>8, <1>9
<1>11. progress'[card].streak >= 2 =>
         progress[card].level = "EASY" /\ progress'[card].streak = progress[card].streak + 1
  BY <1>4, <1>8, <1>9
<1>12. /\ \A c \in Cards \ {card} : progress'[c] = progress[c]
       /\ \A t \in Sessions \ {s} : session'[t] = session[t]
       /\ session'[s].open /\ card \in ToSet(session[s].queue)
  BY <1>3, <1>6, <1>7, <1>8, <1>9
<1> QED BY <1>7, <1>10, <1>11, <1>12

(* A card leaves a queue by its second EASY in a row and in no other way: not by a rating of
   another card, not by a finish and not by a create. *)
THEOREM SecondEasyLeaves ==
  ASSUME OneAtATime
  PROVE  Spec => LeavesOnSecondEasy
<1> DEFINE Leaves(s, c) == c \in ToSet(session[s].queue) /\ c \notin ToSet(session'[s].queue)
           Easy(c) == progress[c].level = "EASY" /\ progress'[c].streak = progress[c].streak + 1
<1>1. ASSUME SerialInv, [Next]_vars, NEW s \in Sessions, NEW c \in Cards, Leaves(s, c)
      PROVE  Easy(c)
  <2>1. /\ DOMAIN session = Sessions
        /\ \A t \in Sessions : session[t] \in RowType /\ (~session[t].open => session[t] = NoRow)
    BY <1>1 DEF SerialInv, IInv, RowInv, RowSound, Open
  <2>2. ASSUME NEW r \in Requests, ReviewCommit(r) PROVE Easy(c)
    <3>1. PICK t \in Sessions, card \in Cards :
           /\ progress'[card].streak >= 2 =>
                progress[card].level = "EASY" /\ progress'[card].streak = progress[card].streak + 1
           /\ ToSet(session'[t].queue) = IF progress'[card].streak >= 2
                                         THEN ToSet(session[t].queue) \ {card}
                                         ELSE ToSet(session[t].queue)
           /\ \A u \in Sessions \ {t} : session'[u] = session[u]
      BY <1>1, <2>2, AloneQueue
    <3>2. s = t /\ c = card /\ progress'[card].streak >= 2
      BY <1>1, <3>1
    <3> QED BY <3>1, <3>2
  <2>3. ASSUME NEW r \in Requests, NEW t \in Sessions, CreateInsert(r, t) PROVE Easy(c)
    <3>1. s # t
      BY <1>1, <2>1, <2>3 DEF CreateInsert, NoRow, ToSet
    <3>2. session'[s] = session[s]
      BY <2>1, <2>3, <3>1 DEF CreateInsert
    <3> QED BY <1>1, <3>2
  <2>4. ASSUME NEW r \in Requests, FinishUpdate(r) PROVE Easy(c)
    <3>1. session'[s].queue = session[s].queue
      BY <2>1, <2>4 DEF FinishUpdate, RowType
    <3> QED BY <1>1, <3>1
  <2>5. CASE session' = session
    BY <1>1, <2>5
  <2> QED BY <1>1, <2>2, <2>3, <2>4, <2>5 DEF Next, Call, Step, CreateRead, ReviewRead,
      FinishRead, CreateEnsure, ReviewPick, ReviewState, Abandon, vars
<1>2. SerialInv /\ [Next]_vars =>
        [\A s \in Sessions, c \in Cards :
           c \in Queued(s) /\ c \notin Queued(s)' =>
             progress[c].level = "EASY" /\ progress'[c].streak = progress[c].streak + 1]_vars
  BY <1>1 DEF Queued
<1> QED BY <1>2, SerialAlways, PTL DEF Spec, LeavesOnSecondEasy

-----------------------------------------------------------------------------
(* One session, one request at a time: the cards stay new until the session is there, and then
   only its reviews rate them. *)
OneSession == \A s, t \in Sessions : s = t
WholePool  == \A pool \in Pools : pool = Cards
NoFocus    == \A focus \in Focuses : focus = "none"

NewUntilOpen ==
  \A s \in Sessions, c \in Cards : ~Open(s) => progress[c] = NewProgress

LEMMA NewStep ==
  ASSUME OneAtATime, OneSession, SerialInv, NewUntilOpen, [Next]_vars
  PROVE  NewUntilOpen'
<1>1. \A s \in Sessions : ~Open(s)' => ~Open(s)
  BY SessionsStep DEF SerialInv, SessionsKept, Open
<1>2. ASSUME progress' = progress PROVE NewUntilOpen'
  BY <1>1, <1>2 DEF NewUntilOpen
<1>3. ASSUME NEW r \in Requests, ReviewCommit(r) PROVE NewUntilOpen'
  <2>1. \E s \in Sessions : session'[s].open
    BY <1>3, AloneQueue
  <2> QED BY <2>1 DEF OneSession, NewUntilOpen, Open
<1> QED BY <1>2, <1>3 DEF Next, Call, Step, CreateRead, ReviewRead, FinishRead, CreateEnsure,
    CreateInsert, FinishUpdate, ReviewPick, ReviewState, Abandon, vars

(* A create begins only where there is a session to insert. *)
LEMMA RoomMeansNew ==
  ASSUME OneAtATime, SerialInv, NewUntilOpen, RoomForSession
  PROVE  \A c \in Cards : progress[c] = NewProgress
<1> DEFINE Busy == {r \in Requests : req[r].at \in {"ensure", "insert"}}
           Free == {s \in Sessions : ~session[s].open}
<1>1. Busy = {} \/ \E r \in Requests : Busy = {r}
  BY DEF OneAtATime
<1>2. IsFiniteSet(Busy)
  BY <1>1, FS_EmptySet, FS_Singleton
<1>3. Cardinality(Busy) \in Nat /\ Cardinality(Busy) < Cardinality(Free)
  BY <1>2, FS_CardinalityType DEF RoomForSession
<1>4. Free # {}
  BY <1>3, FS_EmptySet
<1> QED BY <1>4 DEF NewUntilOpen, Open

MasteryInv ==
  /\ SerialInv /\ NewUntilOpen /\ OutIffMastered
  /\ \A r \in Requests : req[r].at \in {"ensure", "insert"} => ToSet(req[r].queue) = Cards

LEMMA WholeQueues ==
  ASSUME OneAtATime, WholePool, MasteryInv, [Next]_vars, NEW r \in Requests,
         req'[r].at \in {"ensure", "insert"}
  PROVE  ToSet(req'[r].queue) = Cards
<1>1. /\ DOMAIN req = Requests /\ SlotInv(r)
      /\ req[r].at \in {"ensure", "insert"} => ToSet(req[r].queue) = Cards
  BY DEF MasteryInv, SerialInv, IInv
<1>2. ASSUME Done(r) PROVE FALSE
  BY <1>1, <1>2, SlotDone DEF Idle
<1>3. ASSUME NEW local, Becomes(r, local), local.at \notin {"ensure", "insert"} PROVE FALSE
  BY <1>1, <1>3, Slots
<1>4. ASSUME NEW pool \in Pools, NEW hardOnly \in BOOLEAN, CreateRead(r, pool, hardOnly)
      PROVE  ToSet(req'[r].queue) = Cards
  <2>1. PICK q \in RankOrders(IF hardOnly THEN HardOnly(pool, Level) ELSE pool, Level) :
          Becomes(r, [at |-> "ensure", queue |-> q])
    BY <1>4 DEF CreateRead
  <2>2. \A c \in Cards : progress[c] = NewProgress
    BY <1>4, RoomMeansNew DEF CreateRead, MasteryInv
  <2>3. pool = Cards
    BY DEF WholePool
  <2>4. \A c \in pool : Level[c] = "NEW"
    BY <2>2, <2>3 DEF Level, NewProgress
  <2>5. ToSet(q) = Cards
    BY <2>1, <2>3, <2>4, CreateQueue
  <2> QED BY <1>1, <2>1, <2>5, Slots
<1>5. CASE CreateEnsure(r)
  <2> DEFINE local == [req[r] EXCEPT !.at = "insert"]
  <2>1. local.queue = req[r].queue /\ req[r].at = "ensure" /\ Becomes(r, local)
    BY <1>1, <1>5 DEF CreateEnsure, SlotInv
  <2> HIDE DEF local
  <2> QED BY <1>1, <2>1, Slots
<1>6. CASE ReviewPick(r)
  <2> DEFINE index == FocusIndex(req[r].row.queue, Level, req[r].focus)
             local == [at |-> "state", id |-> req[r].id, row |-> req[r].row,
                       rating |-> req[r].rating, index |-> index]
  <2>1. local.at = "state" /\ (Done(r) \/ Becomes(r, local))
    BY <1>6 DEF ReviewPick
  <2> HIDE DEF index, local
  <2> QED BY <1>2, <1>3, <2>1
<1>7. CASE ReviewState(r)
  <2> DEFINE card == req[r].row.queue[req[r].index]
             local == [at |-> "commit", id |-> req[r].id, row |-> req[r].row,
                       rating |-> req[r].rating, index |-> req[r].index, old |-> progress[card]]
  <2>1. local.at = "commit" /\ (Done(r) \/ Becomes(r, local))
    BY <1>7 DEF ReviewState
  <2> HIDE DEF card, local
  <2> QED BY <1>2, <1>3, <2>1
<1>8. CASE \E s \in Sessions : \/ \E rating \in Ratings, focus \in Focuses : ReviewRead(r, s, rating, focus)
                               \/ FinishRead(r, s)
  BY <1>3, <1>8 DEF ReviewRead, FinishRead
<1>9. CASE ReviewCommit(r) \/ FinishUpdate(r) \/ Abandon(r) \/ \E s \in Sessions : CreateInsert(r, s)
  BY <1>2, <1>9 DEF ReviewCommit, FinishUpdate, Abandon, CreateInsert
<1>10. CASE UNCHANGED vars
  BY <1>1, <1>10 DEF vars
<1>11. CASE Call(r) \/ Step(r)
  BY <1>4, <1>5, <1>6, <1>7, <1>8, <1>9, <1>11 DEF Call, Step
<1> QED BY <1>10, <1>11 DEF Next, OneAtATime

LEMMA MasteryStep ==
  ASSUME OneAtATime, OneSession, WholePool, MasteryInv, [Next]_vars
  PROVE  OutIffMastered'
<1>1. /\ SerialInv /\ IInv /\ DOMAIN session = Sessions /\ NewUntilOpen /\ OutIffMastered
      /\ \A t \in Sessions : session[t] \in RowType
      /\ \A r \in Requests : req[r].at \in {"ensure", "insert"} => ToSet(req[r].queue) = Cards
      /\ progress \in [Cards -> ProgressType]
  BY DEF MasteryInv, SerialInv, IInv, RowInv, RowSound, ProgressInv
<1>2. ASSUME progress' = progress,
             \A s \in Sessions : /\ session'[s].queue = session[s].queue
                                 /\ session'[s].open = session[s].open
      PROVE  OutIffMastered'
  BY <1>1, <1>2 DEF OutIffMastered, Open, Queued
<1>3. ASSUME NEW r \in Requests, NEW s \in Sessions, CreateInsert(r, s) PROVE OutIffMastered'
  <2> DEFINE row == [NoRow EXCEPT !.open = TRUE, !.queue = req[r].queue]
  <2>1. row.queue = req[r].queue
    BY DEF NoRow
  <2>2. /\ session' = [session EXCEPT ![s] = row] /\ progress' = progress /\ ~Open(s)
        /\ req[r].at = "insert"
    BY <1>3 DEF CreateInsert, Open
  <2> HIDE DEF row
  <2>3. ToSet(session'[s].queue) = Cards
    BY <1>1, <2>1, <2>2
  <2>4. \A c \in Cards : progress'[c].streak = 0
    BY <1>1, <2>2 DEF NewUntilOpen, NewProgress
  <2> QED BY <2>3, <2>4 DEF OneSession, OutIffMastered, Queued
<1>4. ASSUME NEW r \in Requests, ReviewCommit(r) PROVE OutIffMastered'
  <2>1. PICK s \in Sessions, card \in Cards :
           /\ Open(s) /\ card \in ToSet(session[s].queue)
           /\ \A c \in Cards \ {card} : progress'[c] = progress[c]
           /\ ToSet(session'[s].queue) = IF progress'[card].streak >= 2
                                         THEN ToSet(session[s].queue) \ {card}
                                         ELSE ToSet(session[s].queue)
    BY <1>1, <1>4, AloneQueue
  <2>2. \A c \in Cards : c \notin ToSet(session[s].queue) <=> progress[c].streak >= 2
    BY <1>1, <2>1 DEF OutIffMastered, Queued
  <2>3. \A c \in Cards : c \notin ToSet(session'[s].queue) <=> progress'[c].streak >= 2
    BY <2>1, <2>2
  <2> QED BY <2>3 DEF OneSession, OutIffMastered, Queued
<1>5. ASSUME NEW r \in Requests, FinishUpdate(r) PROVE OutIffMastered'
  BY <1>1, <1>2, <1>5 DEF FinishUpdate, RowType
<1>6. CASE UNCHANGED <<session, progress>>
  BY <1>2, <1>6
<1> QED BY <1>3, <1>4, <1>5, <1>6 DEF Next, Call, Step, CreateRead, ReviewRead, FinishRead,
    CreateEnsure, ReviewPick, ReviewState, Abandon, vars

(* In the only session of new cards, the cards out of the queue are those mastered in it, for
   any number of cards and any focus. *)
THEOREM MasteredLeave ==
  ASSUME OneAtATime, OneSession, WholePool
  PROVE  Spec => []OutIffMastered
<1>1. Init => MasteryInv
  BY SerialInit DEF Init, MasteryInv, NewUntilOpen, OutIffMastered, Open, NoRow, Idle
<1>2. MasteryInv /\ [Next]_vars => MasteryInv'
  <2> SUFFICES ASSUME MasteryInv, [Next]_vars PROVE MasteryInv'
    OBVIOUS
  <2>1. SerialInv' /\ NewUntilOpen'
    BY SerialStep, NewStep DEF MasteryInv
  <2>2. OutIffMastered' /\ \A r \in Requests :
          req'[r].at \in {"ensure", "insert"} => ToSet(req'[r].queue) = Cards
    BY MasteryStep, WholeQueues
  <2> QED BY <2>1, <2>2 DEF MasteryInv
<1>3. MasteryInv => OutIffMastered
  BY DEF MasteryInv
<1> QED BY <1>1, <1>2, <1>3, PTL DEF Spec

-----------------------------------------------------------------------------
(* A review of the head moves the cards behind it up by one place at least, or leaves them
   where they are, behind the gap of its rating. *)
Near(q, c) == \E i \in 1..(GAP.HARD + 1) : i <= Len(q) /\ q[i] = c

LEMMA HeadReviewed ==
  ASSUME NEW q \in Seq(Cards), IsInjective(q), 1 \in 1..Len(q), NEW old, NEW rating \in Ratings,
         NEW c \in Cards
  PROVE  /\ c # q[1] /\ Near(q, c) => Near(NextQueue(q, 1, old, rating), c)
         /\ c = q[1] /\ rating = "HARD" => Near(NextQueue(q, 1, old, rating), c)
<1> DEFINE rest  == RemoveAt(q, 1)
           place == Min({GAP[rating], Len(rest)}) + 1
           back  == InsertAt(rest, place, q[1])
           next  == NextQueue(q, 1, old, rating)
<1>1. Len(q) \in Nat /\ Len(q) >= 1 /\ q[1] \in Cards
  BY LenProperties, ElementOfSeq
<1>2. /\ rest \in Seq(Cards) /\ Len(rest) = Len(q) - 1
      /\ \A j \in 1..(Len(q) - 1) : rest[j] = q[j + 1]
  BY <1>1, Removed
<1>3. GAP[rating] \in Nat /\ GAP[rating] >= 2 /\ GAP.HARD = 2 /\ GAP["HARD"] = 2
  BY DEF Ratings, GAP
<1>4. next = IF Retires(old, rating) THEN rest ELSE back
  BY DEF NextQueue
<1> HIDE DEF rest
<1>5. place = IF GAP[rating] <= Len(rest) THEN GAP[rating] + 1 ELSE Len(rest) + 1
  BY <1>1, <1>2, <1>3, MinOfTwo
<1> HIDE DEF place
<1>6. place \in 1..(Len(rest) + 1)
  BY <1>1, <1>2, <1>3, <1>5
<1>7. /\ Len(back) = Len(q)
      /\ \A j \in 1..Len(q) : back[j] = IF j < place THEN rest[j]
                                        ELSE IF j = place THEN q[1] ELSE rest[j - 1]
  <2>1. /\ Len(back) = Len(rest) + 1
        /\ \A j \in 1..(Len(rest) + 1) : back[j] = IF j < place THEN rest[j]
                                          ELSE IF j = place THEN q[1] ELSE rest[j - 1]
    <3>1. rest \in Seq(Cards) /\ q[1] \in Cards
      BY <1>1, <1>2
    <3> HIDE DEF back
    <3>2. back = InsertAt(rest, place, q[1])
      BY DEF back
    <3> QED BY <1>6, <3>1, <3>2, Inserted
  <2> HIDE DEF back
  <2>2. Len(rest) + 1 = Len(q)
    BY <1>1, <1>2
  <2> QED BY <2>1, <2>2
<1> HIDE DEF back, next
<1>8. ASSUME c # q[1], Near(q, c) PROVE Near(next, c)
  <2>1. PICK i \in 1..3 : i <= Len(q) /\ q[i] = c /\ i # 1
    BY <1>3, <1>8 DEF Near
  <2>2. i - 1 \in 1..(Len(q) - 1) /\ i - 1 \in 1..3 /\ i \in 1..Len(q) /\ (i - 1) + 1 = i
    BY <1>1, <2>1
  <2>3. rest[i - 1] = c
    BY <1>2, <2>1, <2>2
  <2>4. CASE Retires(old, rating)
    BY <1>2, <1>3, <1>4, <2>2, <2>3, <2>4 DEF Near
  <2>5. CASE ~Retires(old, rating)
    <3>1. place \in Int
      BY <1>1, <1>2, <1>6
    <3>2. CASE i - 1 < place
      <4>1. i - 1 \in 1..Len(q) /\ i - 1 <= Len(q)
        BY <1>1, <2>2
      <4>2. back[i - 1] = c
        BY <1>7, <2>3, <3>2, <4>1
      <4> QED BY <1>3, <1>4, <1>7, <2>2, <2>5, <4>1, <4>2 DEF Near
    <3>3. CASE i - 1 >= place
      <4>1. ~(i < place) /\ i # place
        BY <2>1, <3>1, <3>3
      <4>2. back[i] = c
        BY <1>7, <2>2, <2>3, <4>1
      <4> QED BY <1>3, <1>4, <1>7, <2>1, <2>5, <4>2 DEF Near
    <3> QED BY <2>1, <3>1, <3>2, <3>3
  <2> QED BY <2>4, <2>5
<1>9. ASSUME c = q[1], rating = "HARD" PROVE Near(next, c)
  <2>1. ~Retires(old, rating)
    BY <1>9 DEF Retires
  <2>2. place \in 1..3 /\ place \in 1..Len(q) /\ place <= Len(q)
    BY <1>1, <1>2, <1>3, <1>5, <1>6, <1>9
  <2>3. back[place] = c
    BY <1>7, <1>9, <2>2
  <2> QED BY <1>3, <1>4, <1>7, <2>1, <2>2, <2>3 DEF Near
<1> QED BY <1>8, <1>9 DEF next

SpacingInv ==
  /\ SerialInv /\ NewUntilOpen /\ HardComesBack
  /\ \A r \in Requests :
       /\ req[r].at = "pick" => req[r].focus = "none"
       /\ req[r].at \in {"state", "commit"} => req[r].index = 1

(* Without a focus every review is one of the head of the queue. *)
LEMMA HeadSlots ==
  ASSUME OneAtATime, NoFocus, SpacingInv, [Next]_vars, NEW r \in Requests
  PROVE  /\ req'[r].at = "pick" => req'[r].focus = "none"
         /\ req'[r].at \in {"state", "commit"} => req'[r].index = 1
<1> DEFINE Fronts == /\ req'[r].at = "pick" => req'[r].focus = "none"
                     /\ req'[r].at \in {"state", "commit"} => req'[r].index = 1
<1> SUFFICES Fronts
  OBVIOUS
<1>1. /\ DOMAIN req = Requests /\ SlotInv(r)
      /\ req[r].at = "pick" => req[r].focus = "none"
      /\ req[r].at \in {"state", "commit"} => req[r].index = 1
  BY DEF SpacingInv, SerialInv, IInv
<1>2. ASSUME Done(r) PROVE Fronts
  BY <1>1, <1>2, SlotDone DEF Idle
<1>3. ASSUME NEW local, Becomes(r, local), local.at \notin {"pick", "state", "commit"} PROVE Fronts
  BY <1>1, <1>3, Slots
<1>4. ASSUME NEW s \in Sessions, NEW rating \in Ratings, NEW focus \in Focuses,
             ReviewRead(r, s, rating, focus)
      PROVE  Fronts
  <2> DEFINE local == [at |-> "pick", id |-> s, row |-> session[s], rating |-> rating, focus |-> focus]
  <2>1. local.at = "pick" /\ local.focus = "none"
    BY DEF NoFocus
  <2>2. Becomes(r, local)
    BY <1>4 DEF ReviewRead
  <2> HIDE DEF local
  <2> QED BY <1>1, <2>1, <2>2, Slots
<1>5. CASE ReviewPick(r)
  <2> DEFINE index == FocusIndex(req[r].row.queue, Level, req[r].focus)
             local == [at |-> "state", id |-> req[r].id, row |-> req[r].row,
                       rating |-> req[r].rating, index |-> index]
  <2>1. req[r].focus = "none" /\ req[r].row.queue \in Seq(Cards)
    BY <1>1, <1>5 DEF ReviewPick, SlotInv, Reviewing, RowSound, RowType
  <2>2. index # 0 => index = 1
    BY <2>1 DEF FocusIndex
  <2>3. Done(r) \/ (index # 0 /\ Becomes(r, local))
    BY <1>5 DEF ReviewPick
  <2>4. local.at = "state" /\ local.index = index
    OBVIOUS
  <2> HIDE DEF index, local
  <2> QED BY <1>1, <1>2, <2>2, <2>3, <2>4, Slots
<1>6. CASE ReviewState(r)
  <2> DEFINE card == req[r].row.queue[req[r].index]
             local == [at |-> "commit", id |-> req[r].id, row |-> req[r].row,
                       rating |-> req[r].rating, index |-> req[r].index, old |-> progress[card]]
  <2>1. local.at = "commit" /\ local.index = 1 /\ (Done(r) \/ Becomes(r, local))
    BY <1>1, <1>6 DEF ReviewState
  <2> HIDE DEF card, local
  <2> QED BY <1>1, <1>2, <2>1, Slots
<1>7. CASE CreateEnsure(r)
  <2> DEFINE local == [req[r] EXCEPT !.at = "insert"]
  <2>1. local.at = "insert" /\ Becomes(r, local)
    BY <1>1, <1>7 DEF CreateEnsure, SlotInv
  <2> HIDE DEF local
  <2> QED BY <1>3, <2>1
<1>8. CASE \/ \E pool \in Pools, hardOnly \in BOOLEAN : CreateRead(r, pool, hardOnly)
           \/ \E s \in Sessions : FinishRead(r, s)
  BY <1>3, <1>8 DEF CreateRead, FinishRead
<1>9. CASE ReviewCommit(r) \/ FinishUpdate(r) \/ Abandon(r) \/ \E s \in Sessions : CreateInsert(r, s)
  BY <1>2, <1>9 DEF ReviewCommit, FinishUpdate, Abandon, CreateInsert
<1>10. CASE UNCHANGED vars
  BY <1>1, <1>10 DEF vars
<1>11. CASE Call(r) \/ Step(r)
  BY <1>4, <1>5, <1>6, <1>7, <1>8, <1>9, <1>11 DEF Call, Step
<1> QED BY <1>10, <1>11 DEF Next, OneAtATime

LEMMA SpacingStep ==
  ASSUME OneAtATime, OneSession, SpacingInv, [Next]_vars
  PROVE  HardComesBack'
<1>1. /\ SerialInv /\ IInv /\ DOMAIN session = Sessions /\ NewUntilOpen
      /\ \A t \in Sessions : session[t] \in RowType
      /\ progress \in [Cards -> ProgressType]
      /\ \A r \in Requests : req[r].at = "commit" => req[r].index = 1
  BY DEF SpacingInv, SerialInv, IInv, RowInv, RowSound, ProgressInv
<1>2. \A s \in Sessions, c \in Cards :
        Open(s) /\ progress[c].level = "HARD" => Near(session[s].queue, c)
  BY DEF SpacingInv, HardComesBack, Near
<1>3. ASSUME \A s \in Sessions, c \in Cards :
               session'[s].open /\ progress'[c].level = "HARD" => Near(session'[s].queue, c)
      PROVE  HardComesBack'
  BY <1>3 DEF HardComesBack, Near, Open
<1>4. ASSUME progress' = progress,
             \A s \in Sessions : /\ session'[s].queue = session[s].queue
                                 /\ session'[s].open = session[s].open
      PROVE  HardComesBack'
  BY <1>2, <1>3, <1>4 DEF Open
<1>5. ASSUME NEW r \in Requests, NEW s \in Sessions, CreateInsert(r, s) PROVE HardComesBack'
  <2>1. ~Open(s) /\ progress' = progress
    BY <1>5 DEF CreateInsert, Open
  <2>2. \A c \in Cards : progress'[c].level = "NEW"
    BY <1>1, <2>1 DEF NewUntilOpen, NewProgress
  <2> QED BY <1>3, <2>2
<1>6. ASSUME NEW r \in Requests, ReviewCommit(r) PROVE HardComesBack'
  <2>1. PICK s \in Sessions, rating \in Ratings : \E i \in 1..Len(session[s].queue) :
           LET card == session[s].queue[i]
               old  == progress[card]
           IN /\ card \in Cards /\ old \in ProgressType /\ RowSound(session[s], known)
              /\ s = req[r].id /\ i = req[r].index /\ Open(s)
              /\ progress' = [progress EXCEPT ![card] = NextProgress(old, rating)]
              /\ session' = [session EXCEPT ![s] = Reviewed(session[s], session[s], i, old, rating)]
              /\ committed' = [committed EXCEPT ![s] = @ + 1]
    BY <1>1, <1>6, AloneCommit
  <2> DEFINE q    == session[s].queue
             card == q[1]
             old  == progress[card]
             new  == NextProgress(old, rating)
             row  == Reviewed(session[s], session[s], 1, old, rating)
  <2>2. req[r].index = 1
    BY <1>1, <1>6 DEF ReviewCommit
  <2>3. /\ 1 \in 1..Len(q) /\ card \in Cards /\ RowSound(session[s], known) /\ Open(s)
        /\ progress' = [progress EXCEPT ![card] = new]
        /\ session' = [session EXCEPT ![s] = row]
    BY <2>1, <2>2
  <2>4. q \in Seq(Cards) /\ IsInjective(q)
    BY <2>3 DEF RowSound, RowType
  <2>5. row.queue = NextQueue(q, 1, old, rating) /\ new.level = rating
    BY DEF Reviewed, NextProgress
  <2>6. \A c \in Cards : /\ c # card /\ Near(q, c) => Near(row.queue, c)
                         /\ c = card /\ rating = "HARD" => Near(row.queue, c)
    BY <2>3, <2>4, <2>5, HeadReviewed
  <2>7. \A c \in Cards : progress[c].level = "HARD" => Near(q, c)
    BY <1>2, <2>3
  <2> HIDE DEF q, card, old, new, row
  <2>8. session'[s] = row /\ progress'[card].level = rating
        /\ \A c \in Cards \ {card} : progress'[c] = progress[c]
    BY <1>1, <2>3, <2>5
  <2>9. \A c \in Cards : progress'[c].level = "HARD" => Near(session'[s].queue, c)
    BY <2>6, <2>7, <2>8
  <2> QED BY <1>3, <2>9 DEF OneSession
<1>7. ASSUME NEW r \in Requests, FinishUpdate(r) PROVE HardComesBack'
  BY <1>1, <1>4, <1>7 DEF FinishUpdate, RowType
<1>8. CASE UNCHANGED <<session, progress>>
  BY <1>4, <1>8
<1> QED BY <1>5, <1>6, <1>7, <1>8 DEF Next, Call, Step, CreateRead, ReviewRead, FinishRead,
    CreateEnsure, ReviewPick, ReviewState, Abandon, vars

(* In the only session of new cards, without a focus, a card rated HARD is at most GAP.HARD
   reviews from the head, for any number of cards and whatever the others are rated. *)
THEOREM HardIsNear ==
  ASSUME OneAtATime, OneSession, NoFocus
  PROVE  Spec => []HardComesBack
<1>1. Init => SpacingInv
  BY SerialInit DEF Init, SpacingInv, NewUntilOpen, HardComesBack, Open, NoRow, Idle
<1>2. SpacingInv /\ [Next]_vars => SpacingInv'
  <2> SUFFICES ASSUME SpacingInv, [Next]_vars PROVE SpacingInv'
    OBVIOUS
  <2>1. SerialInv' /\ NewUntilOpen'
    BY SerialStep, NewStep DEF SpacingInv
  <2>2. HardComesBack' /\ \A r \in Requests :
          /\ req'[r].at = "pick" => req'[r].focus = "none"
          /\ req'[r].at \in {"state", "commit"} => req'[r].index = 1
    BY SpacingStep, HeadSlots
  <2> QED BY <2>1, <2>2 DEF SpacingInv
<1>3. SpacingInv => HardComesBack
  BY DEF SpacingInv
<1> QED BY <1>1, <1>2, <1>3, PTL DEF Spec
=============================================================================
