----------------------------- MODULE StatsProofs -----------------------------
(* What the views promise of any rows, and what the score of the ranking promises for every
   accuracy, number of days and of attempts. *)
EXTENDS Stats, Lemmas

(* Halving is all the arithmetic of the score beyond sums. *)
LEMMA HalfBounds ==
  ASSUME NEW n \in Nat
  PROVE  n \div 2 \in Nat /\ 2 * (n \div 2) <= n /\ n <= 2 * (n \div 2) + 1
BY SMT

LEMMA HalvesNat ==
  ASSUME NEW p \in 0..100, NEW d \in Nat, NEW a \in Nat
  PROVE  Halves(p, d, a) \in 0..200
BY SMT DEF Halves, AtMost, CapDays, CapAttempts

(* The parts only grow with what they are computed from. *)
LEMMA HalvesMonotone ==
  ASSUME NEW p \in 0..100, NEW d \in Nat, NEW a \in Nat,
         NEW q \in 0..100, NEW e \in Nat, NEW b \in Nat,
         p <= q, d <= e, a <= b
  PROVE  Halves(p, d, a) <= Halves(q, e, b)
BY SMT DEF Halves, AtMost, CapDays, CapAttempts

(* The score of priority-score.ts is within half a point of the sum of its parts, whatever the
   doubles do to it. *)
THEOREM ScoreIsRounded ==
  ASSUME NEW p \in 0..100, NEW d \in Nat, NEW a \in Nat
  PROVE  /\ Score(p, d, a) \in 0..100
         /\ 2 * Score(p, d, a) <= Halves(p, d, a) + 1
         /\ Halves(p, d, a) <= 2 * Score(p, d, a) + 1
<1>1. Halves(p, d, a) \in 0..200
  BY HalvesNat
<1> DEFINE h == Halves(p, d, a)
<1>2. h \div 2 \in Nat /\ 2 * (h \div 2) <= h /\ h <= 2 * (h \div 2) + 1
  BY <1>1, HalfBounds
<1>3. (h + 1) \div 2 \in Nat /\ 2 * ((h + 1) \div 2) <= h + 1 /\ h + 1 <= 2 * ((h + 1) \div 2) + 1
  <2>1. h + 1 \in Nat
    BY <1>1
  <2> QED BY <2>1, HalfBounds
<1>4. Score(p, d, a) = h \div 2 \/ Score(p, d, a) = (h + 1) \div 2
  BY DEF Score
<1> HIDE DEF h
<1>5. h = Halves(p, d, a)
  BY DEF h
<1> QED BY <1>1, <1>2, <1>3, <1>4, <1>5, SMT

(* Where two inputs have the same parts, one of which grew only beyond its cap, the doubles
   fall short for both or for neither. *)
LEMMA SameFall ==
  ASSUME NEW p \in 0..100, NEW d \in Nat, NEW a \in Nat,
         NEW q \in 0..100, NEW e \in Nat, NEW b \in Nat,
         p <= q, d <= e, a <= b,
         Halves(p, d, a) = Halves(q, e, b), FallsShort(q, e, b)
  PROVE  FallsShort(p, d, a)
<1>1. AtMost(d, CapDays) = AtMost(e, CapDays) /\ AtMost(a, CapAttempts) = AtMost(b, CapAttempts)
  BY SMT DEF Halves, AtMost, CapDays, CapAttempts
<1>2. Halves(q, e, b) \in 0..200
  BY HalvesNat
<1>3. e \in {3, 6, 12, 17}
  <2>1. SUFFICES ASSUME e \notin {3, 6, 12, 17} PROVE FALSE
    OBVIOUS
  <2>2. NextPower(e) = 0
    BY <2>1, SMT DEF NextPower
  <2> QED BY <1>2, <2>2, SMT DEF FallsShort
<1>4. d = e
  BY <1>1, <1>3, SMT DEF AtMost, CapDays
<1>5. MadeUp(d, a) => MadeUp(e, b)
  <2>1. a \in {3, 6, 11, 12} => a = b
    BY <1>1, SMT DEF AtMost, CapAttempts
  <2>2. MadeUp(d, a) => a \in {3, 6, 11, 12}
    BY DEF MadeUp
  <2> QED BY <1>4, <2>1, <2>2
<1> QED BY <1>4, <1>5 DEF FallsShort

(* Nobody is scored lower for more days, more attempts or a better accuracy, although the
   doubles round some sums down and others up. *)
THEOREM ScoreMonotone ==
  ASSUME NEW p \in 0..100, NEW d \in Nat, NEW a \in Nat,
         NEW q \in 0..100, NEW e \in Nat, NEW b \in Nat,
         p <= q, d <= e, a <= b
  PROVE  Score(p, d, a) <= Score(q, e, b)
<1>1. Halves(p, d, a) \in 0..200 /\ Halves(q, e, b) \in 0..200
  BY HalvesNat
<1>2. Halves(p, d, a) <= Halves(q, e, b)
  BY HalvesMonotone
<1>3. CASE Halves(p, d, a) = Halves(q, e, b)
  <2>1. FallsShort(q, e, b) => FallsShort(p, d, a)
    BY <1>3, SameFall
  <2>2. PICK h \in 0..200 : h = Halves(p, d, a)
    BY <1>1
  <2>3. h \div 2 <= (h + 1) \div 2
    BY <2>2, SMT
  <2>4. PICK low \in Int, high \in Int : low = h \div 2 /\ high = (h + 1) \div 2
    BY <2>2, SMT
  <2>5. Score(p, d, a) = IF FallsShort(p, d, a) THEN low ELSE high
    BY <2>2, <2>4 DEF Score
  <2>6. Score(q, e, b) = IF FallsShort(q, e, b) THEN low ELSE high
    BY <1>3, <2>2, <2>4 DEF Score
  <2>7. low <= high
    BY <2>3, <2>4
  <2>8. CASE FallsShort(q, e, b)
    BY <2>1, <2>4, <2>5, <2>6, <2>8, SMT
  <2>9. CASE ~FallsShort(q, e, b)
    BY <2>4, <2>5, <2>6, <2>7, <2>9, SMT
  <2> QED BY <2>8, <2>9
<1>4. CASE Halves(p, d, a) # Halves(q, e, b)
  <2>1. PICK h \in 0..200, k \in 0..200 : h = Halves(p, d, a) /\ k = Halves(q, e, b)
    BY <1>1
  <2>2. h < k
    BY <1>1, <1>2, <1>4, <2>1, SMT
  <2>3. (h + 1) \div 2 <= k \div 2 /\ h \div 2 <= k \div 2
          /\ (h + 1) \div 2 <= (k + 1) \div 2 /\ h \div 2 <= (k + 1) \div 2
    BY <2>1, <2>2, SMT
  <2>4. Score(p, d, a) \in {h \div 2, (h + 1) \div 2} /\ Score(q, e, b) \in {k \div 2, (k + 1) \div 2}
    BY <2>1 DEF Score
  <2> QED BY <2>3, <2>4
<1> QED BY <1>3, <1>4

(* "Caps so a single spike cannot dominate" (priority-score.spec.ts): the high band takes both
   an accuracy of 39 or more and days and attempts worth as much. *)
THEOREM SpikeCannotDominate ==
  ASSUME NEW p \in 0..100, NEW d \in Nat, NEW a \in Nat,
         Band(Score(p, d, a)) = "high"
  PROVE  p >= 39 /\ 3 * d + 2 * a >= 39
<1>1. Score(p, d, a) \in 0..100 /\ 2 * Score(p, d, a) <= Halves(p, d, a) + 1
  BY ScoreIsRounded
<1>2. Score(p, d, a) >= 70
  BY <1>1, SMT DEF Band, HighMin, MidMin
<1>3. Halves(p, d, a) >= 139
  <2>1. Halves(p, d, a) \in 0..200
    BY HalvesNat
  <2> QED BY <1>1, <1>2, <2>1, SMT
<1> QED BY <1>3, SMT DEF Halves, AtMost, CapDays, CapAttempts

-----------------------------------------------------------------------------
(* The rows: attempts is a sequence, which TypeOK does not say. *)
AttemptType == [user : Users, card : Ids, correct : Nat, at : Nat]

IInv == TypeOK /\ attempts \in Seq(AttemptType)

LEMMA CardFacts ==
  ASSUME NEW c \in Ids
  PROVE  LET own == {m \in Modules : m.course = Cards[c].course}
         IN /\ Total(c) \in Nat /\ Total(c) > 0 /\ DOMAIN Cards[c].cites = 1..Total(c)
            /\ \A n \in 1..Total(c) : Cards[c].cites[n] \in own
            /\ Cards[c].origin \in own \union {NoModule}
<1> DEFINE own == {m \in Modules : m.course = Cards[c].course}
<1>1. Cards[c].cites \in Seq(own) /\ Cards[c].cites # <<>> /\ Cards[c].origin \in own \union {NoModule}
  BY StatsAssumption
<1> HIDE DEF own
<1>2. Len(Cards[c].cites) \in Nat /\ Len(Cards[c].cites) # 0
  BY <1>1, LenProperties, EmptySeq
<1>3. Total(c) \in Nat /\ Total(c) > 0
  BY <1>2 DEF Total
<1>4. DOMAIN Cards[c].cites = 1..Total(c) /\ \A n \in 1..Total(c) : Cards[c].cites[n] \in own
  BY <1>1, LenProperties, ElementOfSeq DEF Total
<1> QED BY <1>1, <1>3, <1>4 DEF own

LEMMA InitHolds == Init => IInv
<1> SUFFICES ASSUME Init PROVE IInv
  OBVIOUS
<1>1. 1 \in 1..MaxTicks
  BY StatsAssumption
<1>2. attempts \in Seq(AttemptType) /\ DOMAIN attempts = {}
  BY DEF Init
<1> QED BY <1>1, <1>2 DEF Init, IInv, TypeOK

LEMMA StepKeeps == IInv /\ [Next]_vars => IInv'
<1> SUFFICES ASSUME IInv, [Next]_vars PROVE IInv'
  OBVIOUS
<1> USE DEF IInv
<1>1. ASSUME NEW u \in Busy, NEW c \in Ids, NEW correct \in 0..Total(c), Finish(u, c, correct)
      PROVE  IInv'
  <2> DEFINE row == [user |-> u, card |-> c, correct |-> correct, at |-> now]
  <2>1. Total(c) \in Nat /\ u \in Users /\ now \in Nat /\ now \in 1..now
    BY CardFacts, StatsAssumption DEF TypeOK
  <2>2. row \in AttemptType
    BY <2>1 DEF AttemptType
  <2>3. row.user = u /\ row.card = c /\ row.correct = correct /\ row.at = now
    OBVIOUS
  <2>4. attempts' = Append(attempts, row)
    BY <1>1 DEF Finish
  <2> HIDE DEF row
  <2>5. /\ attempts' \in Seq(AttemptType) /\ Len(attempts') = Len(attempts) + 1
        /\ DOMAIN attempts' = 1..(Len(attempts) + 1) /\ DOMAIN attempts = 1..Len(attempts)
        /\ Len(attempts) \in Nat
        /\ \A i \in 1..Len(attempts) : attempts'[i] = attempts[i]
        /\ attempts'[Len(attempts) + 1] = row
    BY <2>2, <2>4, AppendProperties, LenProperties
  <2>6. ASSUME NEW i \in DOMAIN attempts'
        PROVE  /\ attempts'[i].user \in Users /\ attempts'[i].card \in Ids
               /\ attempts'[i].correct \in 0..Total(attempts'[i].card)
               /\ attempts'[i].at \in 1..now
    <3>1. CASE i = Len(attempts) + 1
      BY <2>1, <2>3, <2>5, <3>1
    <3>2. CASE i \in DOMAIN attempts
      BY <2>5, <3>2 DEF TypeOK, Total
    <3> QED BY <2>5, <3>1, <3>2
  <2> QED BY <1>1, <2>5, <2>6 DEF Finish, TypeOK, Total
<1>2. ASSUME NEW u \in Busy, NEW pool \in Pools, NEW c \in pool,
             NEW rating \in {"HARD", "LEARNING", "EASY"}, StartAndRate(u, pool, c, rating)
      PROVE  IInv'
  <2>1. u \in Users /\ now \in 1..now
    BY StatsAssumption DEF TypeOK
  <2>2. sessions' \subseteq Users \X (1..now)
    BY <1>2, <2>1 DEF StartAndRate, TypeOK
  <2>3. level' \in [Users -> [Ids -> {"none", "NEW", "HARD", "LEARNING", "EASY"}]]
    <3>1. level' = [level EXCEPT ![u] = [d \in Ids |-> IF d = c THEN rating
                                                       ELSE IF d \in pool /\ @[d] = "none" THEN "NEW"
                                                       ELSE @[d]]]
      BY <1>2 DEF StartAndRate
    <3>2. level[u] \in [Ids -> {"none", "NEW", "HARD", "LEARNING", "EASY"}]
      BY <2>1 DEF TypeOK
    <3> QED BY <3>1, <3>2 DEF TypeOK
  <2> QED BY <1>2, <2>2, <2>3 DEF StartAndRate, TypeOK
<1>3. CASE Tick
  <2>1. MaxTicks \in Nat /\ now \in 1..MaxTicks /\ now < MaxTicks /\ now' = now + 1
    BY <1>3, StatsAssumption DEF Tick, TypeOK
  <2>2. now' \in 1..MaxTicks /\ 1..now \subseteq 1..now'
    BY <2>1
  <2>3. UNCHANGED <<profile, attempts, sessions, level>>
    BY <1>3 DEF Tick
  <2>4. /\ profile' \in Profiles /\ attempts' \in Seq(AttemptType)
        /\ level' \in [Users -> [Ids -> {"none", "NEW", "HARD", "LEARNING", "EASY"}]]
    BY <2>3 DEF TypeOK
  <2>5. sessions' \subseteq Users \X (1..now')
    BY <2>2, <2>3 DEF TypeOK
  <2>6. ASSUME NEW i \in DOMAIN attempts'
        PROVE  /\ attempts'[i].user \in Users /\ attempts'[i].card \in Ids
               /\ attempts'[i].correct \in 0..Len(Cards[attempts'[i].card].cites)
               /\ attempts'[i].at \in 1..now'
    BY <2>2, <2>3 DEF TypeOK
  <2> QED BY <2>2, <2>4, <2>5, <2>6 DEF TypeOK
<1>4. CASE UNCHANGED vars
  BY <1>4 DEF vars, TypeOK
<1> QED BY <1>1, <1>2, <1>3, <1>4 DEF Next, Read

THEOREM Always == Spec => []IInv
BY InitHolds, StepKeeps, PTL DEF Spec

-----------------------------------------------------------------------------
(* What counts where. *)
LEMMA ModuleFacts ==
  ASSUME IInv, NEW i \in DOMAIN attempts
  PROVE  ModuleOf(i) \in Modules /\ ModuleOf(i).course = Cards[attempts[i].card].course
<1> DEFINE c == attempts[i].card
           own == {m \in Modules : m.course = Cards[c].course}
<1>1. c \in Ids
  BY DEF IInv, TypeOK
<1>2. /\ Total(c) \in Nat /\ Total(c) > 0
      /\ \A n \in 1..Total(c) : Cards[c].cites[n] \in own
      /\ Cards[c].origin \in own \union {NoModule}
  BY <1>1, CardFacts
<1>3. 1 \in 1..Total(c)
  BY <1>2
<1>4. Cards[c].cites[1] \in own
  BY <1>2, <1>3
<1>5. ModuleOf(i) = IF Cards[c].origin # NoModule THEN Cards[c].origin ELSE Cards[c].cites[1]
  BY DEF ModuleOf
<1>6. ModuleOf(i) \in own
  BY <1>2, <1>4, <1>5
<1> QED BY <1>6

(* The lines of the profile with a result in them are none or the one of its module. *)
LEMMA CountsOnce == IInv => EachResultCountsOnce
<1> SUFFICES ASSUME IInv, NEW u \in Users, NEW i \in DOMAIN attempts, attempts[i].user = u,
                    NEW course \in {Course(m) : m \in Modules} \union {Every}
             PROVE  Cardinality({m \in ProfileModules(course) : i \in ProfileLine(u, course, m)})
                      = IF course \in {Every, Cards[attempts[i].card].course} THEN 1 ELSE 0
  BY DEF EachResultCountsOnce
<1> DEFINE lines == {m \in ProfileModules(course) : i \in ProfileLine(u, course, m)}
<1>1. ModuleOf(i) \in Modules /\ ModuleOf(i).course = Cards[attempts[i].card].course
  BY ModuleFacts
<1>2. CASE course \in {Every, Cards[attempts[i].card].course}
  <2>1. lines = {ModuleOf(i)}
    BY <1>1, <1>2 DEF ProfileModules, ProfileLine
  <2> QED BY <1>2, <2>1, FS_Singleton
<1>3. CASE course \notin {Every, Cards[attempts[i].card].course}
  <2>1. lines = {}
    BY <1>1, <1>3 DEF ProfileModules, ProfileLine
  <2> QED BY <1>3, <2>1, FS_EmptySet
<1> QED BY <1>2, <1>3

LEMMA WithinRanking == IInv => ProfileWithinRanking
<1> SUFFICES ASSUME IInv, NEW u \in Users, NEW m \in Modules, NEW i \in ProfileLine(u, Every, m)
             PROVE  i \in GroupAttempts(u, [course |-> m.course, code |-> m.code])
  BY DEF ProfileWithinRanking
<1> DEFINE scope == [course |-> m.course, code |-> m.code]
           c == attempts[i].card
<1>1. i \in DOMAIN attempts /\ attempts[i].user = u /\ ModuleOf(i) = m
  BY DEF ProfileLine
<1>2. c \in Ids
  BY <1>1 DEF IInv, TypeOK
<1>3. m \in ModuleFilter(scope)
  BY DEF ModuleFilter
<1>4. Cards[c].origin # NoModule => Cards[c].origin = m
  BY <1>1 DEF ModuleOf
<1>5. Cards[c].origin = NoModule => CitesSome(c, ModuleFilter(scope))
  <2> SUFFICES ASSUME Cards[c].origin = NoModule PROVE CitesSome(c, ModuleFilter(scope))
    OBVIOUS
  <2>1. Cards[c].cites[1] = m
    BY <1>1 DEF ModuleOf
  <2>2. 1 \in DOMAIN Cards[c].cites
    BY <1>2, CardFacts
  <2> QED BY <1>3, <2>1, <2>2 DEF CitesSome
<1>6. InAttemptScope(c, scope)
  BY <1>3, <1>4, <1>5 DEF InAttemptScope
<1> QED BY <1>1, <1>6 DEF GroupAttempts

(* Every result counts once where a student looks, and there where the ranking does. *)
THEOREM EveryResultCounted == Spec => []ResultsCounted
<1>1. IInv => ResultsCounted
  BY CountsOnce, WithinRanking DEF IInv, ResultsCounted
<1> QED BY <1>1, Always, PTL

-----------------------------------------------------------------------------
(* The rows of a query: all of them, each once. *)
Lists(s, S) ==
  /\ s \in Seq(S) /\ Len(s) = Cardinality(S) /\ Cardinality(S) \in Nat /\ Range(s) = S
  /\ DOMAIN s = 1..Cardinality(S)
  /\ \A i, j \in 1..Cardinality(S) : s[i] = s[j] => i = j

LEMMA Ascending ==
  ASSUME NEW S \in SUBSET Nat, IsFiniteSet(S)
  PROVE  /\ Lists(InOrder(S, Less), S)
         /\ \A i, j \in 1..Cardinality(S) : i < j => InOrder(S, Less)[i] < InOrder(S, Less)[j]
<1> DEFINE R == {p \in S \X S : p[1] < p[2]}
           n == Cardinality(S)
           Fits(s) == s \in [1..n -> S] /\ \A i, j \in DOMAIN s : i < j => s[i] < s[j]
           rows == CHOOSE s \in [1..n -> S] : \A i, j \in DOMAIN s : i < j => s[i] < s[j]
<1>1. \A x, y \in S : <<x, y>> \in R <=> x < y
  OBVIOUS
<1> HIDE DEF R
<1>2. \E s \in [1..n -> S] : \A i, j \in 1..n : i < j => <<s[i], s[j]>> \in R
  <2>1. \A x \in S : <<x, x>> \notin R
    BY <1>1
  <2>2. \A x, y \in S : x # y => <<x, y>> \in R \/ <<y, x>> \in R
    BY <1>1
  <2>3. \A x, y, z \in S : <<x, y>> \in R /\ <<y, z>> \in R => <<x, z>> \in R
    <3> SUFFICES ASSUME NEW x \in S, NEW y \in S, NEW z \in S, <<x, y>> \in R, <<y, z>> \in R
                 PROVE  <<x, z>> \in R
      OBVIOUS
    <3> QED BY <1>1
  <2> QED BY <2>1, <2>2, <2>3, Arranged
<1>3. \E s \in [1..n -> S] : \A i, j \in DOMAIN s : i < j => s[i] < s[j]
  BY <1>1, <1>2
<1>4. Fits(rows)
  BY <1>3
<1>5. rows = InOrder(S, Less)
  BY DEF InOrder, Less
<1> HIDE DEF rows
<1>6. rows \in [1..n -> S] /\ \A i, j \in 1..n : i < j => rows[i] < rows[j]
  BY <1>4
<1>7. \A i, j \in 1..n : i < j => rows[i] # rows[j]
  <2> SUFFICES ASSUME NEW i \in 1..n, NEW j \in 1..n, i < j PROVE rows[i] # rows[j]
    OBVIOUS
  <2>1. rows[i] < rows[j] /\ rows[i] \in Nat /\ rows[j] \in Nat
    BY <1>6
  <2> QED BY <2>1
<1>8. Lists(rows, S)
  BY <1>6, <1>7, Listed DEF Lists
<1> QED BY <1>5, <1>6, <1>8

(* The first rows of a list, and the last. *)
LEMMA FirstCut ==
  ASSUME NEW S, NEW s \in Seq(S), NEW n \in Nat
  PROVE  /\ FirstOf(s, n) \in Seq(S) /\ Len(FirstOf(s, n)) = AtMost(n, Len(s))
         /\ \A i \in 1..AtMost(n, Len(s)) : FirstOf(s, n)[i] = s[i]
<1> DEFINE m == AtMost(n, Len(s))
<1>1. m \in Nat /\ m <= Len(s) /\ Len(s) \in Nat /\ 1 \in Int /\ m \in Int
  BY LenProperties DEF AtMost
<1>2. FirstOf(s, n) = SubSeq(s, 1, m)
  BY DEF FirstOf
<1> HIDE DEF m
<1>3. \A i \in 1..m : s[i] \in S
  BY <1>1, ElementOfSeq
<1> DEFINE cut == SubSeq(s, 1, m)
<1>4. /\ cut \in Seq(S) /\ Len(cut) = IF 1 <= m THEN m - 1 + 1 ELSE 0
      /\ \A i \in 1..(m - 1 + 1) : cut[i] = s[1 + i - 1]
  BY <1>1, <1>3, SubSeqProperties
<1> HIDE DEF cut
<1>5. Len(cut) = m /\ \A i \in 1..m : cut[i] = s[i]
  BY <1>1, <1>4
<1> QED BY <1>2, <1>4, <1>5 DEF m, cut

LEMMA LastCut ==
  ASSUME NEW S, NEW s \in Seq(S), NEW n \in Nat
  PROVE  /\ LastOf(s, n) \in Seq(S) /\ Len(LastOf(s, n)) = AtMost(n, Len(s))
         /\ \A i \in 1..AtMost(n, Len(s)) : LastOf(s, n)[i] = s[Len(s) - AtMost(n, Len(s)) + i]
<1> DEFINE m == AtMost(n, Len(s))
           k == Len(s)
           a == k - m + 1
<1>1. m \in Nat /\ k \in Nat /\ m <= k /\ a \in Int
  BY LenProperties DEF AtMost
<1>2. LastOf(s, n) = SubSeq(s, a, k)
  BY DEF LastOf
<1>3. \A i \in a..k : s[i] \in S
  <2> SUFFICES ASSUME NEW i \in a..k PROVE s[i] \in S
    OBVIOUS
  <2>1. i \in 1..Len(s)
    BY <1>1
  <2> QED BY <2>1, ElementOfSeq
<1>4. k - m + 1 = a
  OBVIOUS
<1> HIDE DEF m, a
<1> DEFINE cut == SubSeq(s, a, k)
<1>5. /\ cut \in Seq(S) /\ Len(cut) = IF a <= k THEN k - a + 1 ELSE 0
      /\ \A i \in 1..(k - a + 1) : cut[i] = s[a + i - 1]
  BY <1>1, <1>3, SubSeqProperties
<1> HIDE DEF cut, k
<1>6. Len(cut) = m
  BY <1>1, <1>4, <1>5
<1>7. ASSUME NEW i \in 1..m PROVE cut[i] = s[k - m + i]
  <2>1. i \in 1..(k - a + 1) /\ a + i - 1 = k - m + i
    BY <1>1, <1>4
  <2> QED BY <1>5, <2>1
<1> QED BY <1>2, <1>5, <1>6, <1>7 DEF m, cut, k

(* What a cut leaves of the rows. *)
LEMMA CutRows ==
  ASSUME NEW S, NEW s, Lists(s, S), NEW n \in Nat
  PROVE  /\ Range(FirstOf(s, n)) \subseteq S
         /\ Len(FirstOf(s, n)) = AtMost(n, Cardinality(S))
         /\ IsFiniteSet(Range(FirstOf(s, n)))
         /\ Lists(FirstOf(s, n), Range(FirstOf(s, n)))
         /\ Cardinality(S) <= n => Range(FirstOf(s, n)) = S
<1> DEFINE t == FirstOf(s, n)
           k == Cardinality(S)
           m == AtMost(n, k)
<1>1. /\ s \in Seq(S) /\ Len(s) = k /\ k \in Nat /\ Range(s) = S /\ DOMAIN s = 1..k
      /\ \A i, j \in 1..k : s[i] = s[j] => i = j
  BY DEF Lists
<1>2. m \in Nat /\ m <= k /\ (k <= n => m = k)
  BY <1>1 DEF AtMost
<1>3. t \in Seq(S) /\ Len(t) = m /\ \A i \in 1..m : t[i] = s[i]
  <2>1. m = AtMost(n, Len(s)) /\ s \in Seq(S)
    BY <1>1
  <2> HIDE DEF m
  <2> QED BY <2>1, FirstCut
<1>4. DOMAIN t = 1..m /\ t \in [1..m -> S]
  BY <1>3, LenProperties
<1> HIDE DEF t, m
<1>5. \A i, j \in 1..m : t[i] = t[j] => i = j
  BY <1>1, <1>2, <1>3
<1>6. t \in Bijection(1..m, Range(t))
  <2>1. t \in [1..m -> Range(t)] /\ \A y \in Range(t) : \E i \in 1..m : t[i] = y
    BY <1>4 DEF Range
  <2> QED BY <1>5, <2>1 DEF Bijection, Injection, Surjection, IsInjective
<1>7. IsFiniteSet(Range(t)) /\ Cardinality(Range(t)) = m
  <2>1. ExistsBijection(1..m, Range(t))
    BY <1>6 DEF ExistsBijection
  <2>2. IsFiniteSet(1..m) /\ Cardinality(1..m) = m
    BY <1>2, FS_Interval
  <2> QED BY <2>1, <2>2, FS_Bijection
<1>8. t \in Seq(Range(t))
  <2>1. t \in [1..m -> Range(t)]
    BY <1>4 DEF Range
  <2> QED BY <1>2, <2>1, SeqDef
<1>9. Range(t) \subseteq S
  BY <1>4 DEF Range
<1>10. k <= n => Range(t) = S
  BY <1>1, <1>2, <1>3, <1>4 DEF Range
<1> QED BY <1>2, <1>3, <1>4, <1>5, <1>7, <1>8, <1>9, <1>10 DEF Lists, t, m

-----------------------------------------------------------------------------
(* An order by a key, downwards, then by what tells any two rows apart. *)
LEMMA Keyed ==
  ASSUME NEW S, IsFiniteSet(S), NEW key \in [S -> Int], NEW id \in [S -> Int],
         \A x, y \in S : id[x] = id[y] => x = y
  PROVE  \E s \in [1..Cardinality(S) -> S] : \A i, j \in 1..Cardinality(S) : i < j =>
           \/ key[s[i]] > key[s[j]]
           \/ key[s[i]] = key[s[j]] /\ id[s[i]] < id[s[j]]
<1> DEFINE After(x, y) == key[x] > key[y] \/ (key[x] = key[y] /\ id[x] < id[y])
           R == {p \in S \X S : After(p[1], p[2])}
<1>1. \A x \in S : key[x] \in Int /\ id[x] \in Int
  OBVIOUS
<1>2. \A x, y \in S : <<x, y>> \in R <=> After(x, y)
  OBVIOUS
<1>3. \A x \in S : ~After(x, x)
  BY <1>1
<1>4. ASSUME NEW x \in S, NEW y \in S, x # y PROVE After(x, y) \/ After(y, x)
  <2>1. id[x] # id[y] /\ key[x] \in Int /\ key[y] \in Int /\ id[x] \in Int /\ id[y] \in Int
    BY <1>1, <1>4
  <2> QED BY <2>1
<1>5. ASSUME NEW x \in S, NEW y \in S, NEW z \in S, After(x, y), After(y, z) PROVE After(x, z)
  <2>1. /\ key[x] \in Int /\ key[y] \in Int /\ key[z] \in Int
        /\ id[x] \in Int /\ id[y] \in Int /\ id[z] \in Int
    BY <1>1
  <2> QED BY <1>5, <2>1
<1> HIDE DEF After, R
<1>6. \E s \in [1..Cardinality(S) -> S] :
        \A i, j \in 1..Cardinality(S) : i < j => <<s[i], s[j]>> \in R
  BY <1>2, <1>3, <1>4, <1>5, Arranged
<1>7. PICK s \in [1..Cardinality(S) -> S] :
        \A i, j \in 1..Cardinality(S) : i < j => <<s[i], s[j]>> \in R
  BY <1>6
<1>8. \A i, j \in 1..Cardinality(S) : i < j => After(s[i], s[j])
  BY <1>2, <1>7
<1> QED BY <1>8 DEF After

(* A sequence in the order of a key lists its set. *)
LEMMA KeyedLists ==
  ASSUME NEW S, IsFiniteSet(S), NEW key \in [S -> Int], NEW id \in [S -> Int],
         NEW s \in [1..Cardinality(S) -> S],
         \A i, j \in 1..Cardinality(S) : i < j =>
           \/ key[s[i]] > key[s[j]]
           \/ key[s[i]] = key[s[j]] /\ id[s[i]] < id[s[j]]
  PROVE  Lists(s, S)
<1>1. ASSUME NEW i \in 1..Cardinality(S), NEW j \in 1..Cardinality(S), i < j
      PROVE  s[i] # s[j]
  <2>1. key[s[i]] \in Int /\ id[s[i]] \in Int
    OBVIOUS
  <2>2. ~(key[s[i]] > key[s[i]]) /\ ~(id[s[i]] < id[s[i]])
    BY <2>1
  <2>3. \/ key[s[i]] > key[s[j]]
        \/ key[s[i]] = key[s[j]] /\ id[s[i]] < id[s[j]]
    BY <1>1
  <2> QED BY <2>2, <2>3
<1> QED BY <1>1, Listed DEF Lists

LEMMA Largest ==
  ASSUME NEW n \in Nat, NEW S \in SUBSET (0..n), S # {}
  PROVE  Max(S) \in S /\ \A x \in S : x <= Max(S)
<1> DEFINE R == {p \in S \X S : p[1] > p[2]}
<1>1. IsFiniteSet(S)
  <2>1. IsFiniteSet(0..n)
    BY FS_Interval
  <2> QED BY <2>1, FS_Subset
<1>2. \A x, y \in S : <<x, y>> \in R <=> x > y
  OBVIOUS
<1>3. \A x \in S : x \in Nat
  OBVIOUS
<1> HIDE DEF R
<1>4. \A x \in S : <<x, x>> \notin R
  BY <1>2, <1>3
<1>5. \A x, y \in S : x # y => <<x, y>> \in R \/ <<y, x>> \in R
  BY <1>2, <1>3
<1>6. \A x, y, z \in S : <<x, y>> \in R /\ <<y, z>> \in R => <<x, z>> \in R
  <2> SUFFICES ASSUME NEW x \in S, NEW y \in S, NEW z \in S, <<x, y>> \in R, <<y, z>> \in R
               PROVE  <<x, z>> \in R
    OBVIOUS
  <2> QED BY <1>2, <1>3
<1>7. PICK s \in [1..Cardinality(S) -> S] :
        \A i, j \in 1..Cardinality(S) : i < j => <<s[i], s[j]>> \in R
  BY <1>1, <1>4, <1>5, <1>6, Arranged
<1>8. \A i, j \in 1..Cardinality(S) : i < j => s[i] # s[j]
  BY <1>4, <1>7
<1>9. Range(s) = S /\ Cardinality(S) \in Nat
  BY <1>1, <1>8, Listed
<1>10. Cardinality(S) # 0
  BY <1>1, FS_EmptySet
<1>11. ASSUME NEW y \in S PROVE s[1] >= y
  <2>1. PICK j \in 1..Cardinality(S) : s[j] = y
    BY <1>9 DEF Range
  <2>2. CASE j = 1
    BY <1>3, <2>1, <2>2
  <2>3. CASE j # 1
    <3>1. 1 < j /\ 1 \in 1..Cardinality(S)
      BY <1>9, <1>10, <2>3
    <3>2. s[1] > y
      BY <1>2, <1>7, <2>1, <3>1
    <3>3. s[1] \in Nat /\ y \in Nat
      BY <1>3, <1>7, <3>1
    <3> QED BY <3>2, <3>3
  <2> QED BY <2>2, <2>3
<1>12. s[1] \in S
  BY <1>7, <1>9, <1>10
<1>13. \E x \in S : \A y \in S : x >= y
  BY <1>11, <1>12
<1>14. Max(S) \in S /\ \A y \in S : Max(S) >= y
  BY <1>13 DEF Max
<1> QED BY <1>3, <1>14

-----------------------------------------------------------------------------
(* The list of a manada. *)
LEMMA UsersFinite ==
  /\ IsFiniteSet(Users) /\ Cardinality(Users) = Members /\ Members \in Nat
  /\ Users \subseteq Nat
  /\ \A S \in SUBSET Users : IsFiniteSet(S) /\ S \in SUBSET Nat
<1>1. Members \in Nat
  BY StatsAssumption
<1>2. IsFiniteSet(Users) /\ Cardinality(Users) = Members
  BY <1>1, FS_Interval DEF Users
<1>3. Users \subseteq Nat
  BY DEF Users
<1> QED BY <1>1, <1>2, <1>3, FS_Subset

LEMMA LastActiveNat ==
  ASSUME IInv, NEW u \in Users, NEW is \in SUBSET (DOMAIN attempts)
  PROVE  LastActive(u, is) \in Nat
<1> DEFINE moments == {0} \union {attempts[i].at : i \in is}
                          \union {s[2] : s \in {s \in sessions : s[1] = u}}
<1>1. now \in Nat /\ sessions \subseteq Users \X (1..now)
  BY DEF IInv, TypeOK
<1>2. \A i \in is : attempts[i].at \in 1..now
  BY DEF IInv, TypeOK
<1>3. 1..now \subseteq 0..now /\ 0 \in 0..now
  BY <1>1
<1>4. moments \in SUBSET (0..now) /\ moments # {}
  BY <1>1, <1>2, <1>3
<1>5. LastActive(u, is) = Max(moments)
  BY DEF LastActive
<1> HIDE DEF moments
<1>6. Max(moments) \in 0..now
  BY <1>1, <1>4, Largest
<1> QED BY <1>1, <1>5, <1>6

LEMMA MembersListed ==
  ASSUME IInv, NEW viewer \in Users, profile[viewer].manada # NoManada
  PROVE  Range(MembersOf(viewer, "lastActiveAt"))
           = Range(FirstOf(ByName(InManada(profile[viewer].manada)), MemberCap))
<1> DEFINE S == Range(FirstOf(ByName(InManada(profile[viewer].manada)), MemberCap))
           last == [u \in Users |-> Metrics(u, NoScope).last]
           before(u, v) == IF "lastActiveAt" = "lastActiveAt" /\ last[u] # last[v]
                           THEN last[u] > last[v] ELSE u < v
           rows == CHOOSE s \in [1..Cardinality(S) -> S] :
                     \A i, j \in DOMAIN s : i < j => before(s[i], s[j])
<1>1. InManada(profile[viewer].manada) \in SUBSET Users
  BY DEF InManada
<1>2. S \in SUBSET Users /\ IsFiniteSet(S)
  <2> DEFINE M == InManada(profile[viewer].manada)
  <2>1. M \in SUBSET Nat /\ IsFiniteSet(M)
    BY <1>1, UsersFinite
  <2>2. Lists(InOrder(M, Less), M)
    BY <2>1, Ascending
  <2>3. MemberCap \in Nat
    BY StatsAssumption
  <2> HIDE DEF M
  <2>4. Range(FirstOf(InOrder(M, Less), MemberCap)) \subseteq M
        /\ IsFiniteSet(Range(FirstOf(InOrder(M, Less), MemberCap)))
    BY <2>2, <2>3, CutRows
  <2> QED BY <1>1, <2>4 DEF ByName, M
<1>3. MembersOf(viewer, "lastActiveAt") = rows
  BY DEF MembersOf, InOrder
<1>4. last \in [Users -> Nat]
  <2> SUFFICES ASSUME NEW u \in Users PROVE Metrics(u, NoScope).last \in Nat
    OBVIOUS
  <2>1. GroupAttempts(u, NoScope) \in SUBSET (DOMAIN attempts)
    BY DEF GroupAttempts
  <2> QED BY <2>1, LastActiveNat DEF Metrics
<1> HIDE DEF S, last
<1> DEFINE key == [u \in S |-> last[u]]
           id == [u \in S |-> u]
<1>5. /\ key \in [S -> Int] /\ id \in [S -> Int]
      /\ \A u \in S : u \in Int /\ last[u] \in Int /\ key[u] = last[u] /\ id[u] = u
  BY <1>2, <1>4, UsersFinite
<1> HIDE DEF key, id
<1>6. ASSUME NEW u \in S, NEW v \in S
      PROVE  before(u, v) <=> key[u] > key[v] \/ (key[u] = key[v] /\ id[u] < id[v])
  BY <1>5, <1>6
<1>7. \E s \in [1..Cardinality(S) -> S] : \A i, j \in 1..Cardinality(S) : i < j =>
         \/ key[s[i]] > key[s[j]]
         \/ key[s[i]] = key[s[j]] /\ id[s[i]] < id[s[j]]
  BY <1>2, <1>5, Keyed
<1> HIDE DEF before
<1>8. \E s \in [1..Cardinality(S) -> S] : \A i, j \in DOMAIN s : i < j => before(s[i], s[j])
  BY <1>6, <1>7
<1>9. rows \in [1..Cardinality(S) -> S] /\ \A i, j \in DOMAIN rows : i < j => before(rows[i], rows[j])
  BY <1>8
<1> HIDE DEF rows
<1>10. \A i, j \in 1..Cardinality(S) : i < j =>
         \/ key[rows[i]] > key[rows[j]]
         \/ key[rows[i]] = key[rows[j]] /\ id[rows[i]] < id[rows[j]]
  BY <1>6, <1>9
<1>11. Lists(rows, S)
  BY <1>2, <1>5, <1>9, <1>10, KeyedLists
<1> QED BY <1>3, <1>11 DEF Lists, S

(* Whom a student finds in the list of the manada the student may open, and the other way
   round while the list is not cut. *)
THEOREM ListedMayBeOpened == Spec => []MembersAreViewable
<1>1. ASSUME IInv, NEW viewer \in Users, ~profile[viewer].admin
      PROVE  LET listed == Range(MembersOf(viewer, "lastActiveAt"))
                 viewable == {u \in Users : CanViewPeer(viewer, u)}
             IN /\ listed \subseteq viewable
                /\ Cardinality(viewable) <= MemberCap => listed \union {viewer} = viewable
  <2> DEFINE listed == Range(MembersOf(viewer, "lastActiveAt"))
             viewable == {u \in Users : CanViewPeer(viewer, u)}
             M == InManada(profile[viewer].manada)
  <2>1. CASE profile[viewer].manada = NoManada
    <3>1. listed = {}
      BY <2>1 DEF MembersOf, Range
    <3>2. viewable = {viewer}
      BY <1>1, <2>1 DEF CanViewPeer
    <3> HIDE DEF listed, viewable
    <3> QED BY <3>1, <3>2 DEF listed, viewable
  <2>2. CASE profile[viewer].manada # NoManada
    <3>1. viewable = M /\ viewer \in M
      BY <1>1, <2>2 DEF CanViewPeer, InManada
    <3>2. M \in SUBSET Nat /\ IsFiniteSet(M) /\ MemberCap \in Nat
      <4>1. M \in SUBSET Users
        BY DEF InManada
      <4> HIDE DEF M
      <4> QED BY <4>1, UsersFinite, StatsAssumption
    <3>3. listed = Range(FirstOf(ByName(M), MemberCap))
      BY <1>1, <2>2, MembersListed
    <3> HIDE DEF M, listed, viewable
    <3>4. Lists(ByName(M), M)
      BY <3>2, Ascending DEF ByName
    <3>5. /\ Range(FirstOf(ByName(M), MemberCap)) \subseteq M
          /\ Cardinality(M) <= MemberCap => Range(FirstOf(ByName(M), MemberCap)) = M
      BY <3>2, <3>4, CutRows
    <3> QED BY <3>1, <3>3, <3>5 DEF listed, viewable
  <2> QED BY <2>1, <2>2
<1>2. IInv => MembersAreViewable
  BY <1>1 DEF MembersAreViewable
<1> QED BY <1>2, Always, PTL

-----------------------------------------------------------------------------
(* The ranking: the numbers of a user are of the types the score asks for. *)
LEMMA PctBounded ==
  ASSUME NEW c \in Nat, NEW t \in Nat, c <= t
  PROVE  Pct(c, t) \in 0..100
<1>1. CASE t = 0
  BY <1>1 DEF Pct
<1>2. CASE t > 0
  <2> DEFINE d == 2 * t
             n == 200 * c + t
             q == n \div d
  <2>1. d \in Nat /\ d > 0 /\ n \in Nat /\ n < 101 * d
    BY <1>2
  <2>2. Pct(c, t) = q
    BY <1>2 DEF Pct
  <2> HIDE DEF d, n
  <2>3. q \in Int /\ d * q <= n /\ q >= 0
    BY <2>1, SMTT(30)
  <2>4. q < 101
    <3>1. SUFFICES ASSUME q >= 101 PROVE FALSE
      BY <2>3
    <3> HIDE DEF q
    <3>2. PICK e \in Nat : q = 101 + e
      <4>1. q - 101 \in Nat /\ q = 101 + (q - 101)
        BY <2>3, <3>1
      <4> QED BY <4>1
    <3>3. d * q = 101 * d + d * e /\ d * e >= 0
      BY <2>1, <3>2, SMTT(30)
    <3> QED BY <2>1, <2>3, <3>3
  <2> QED BY <2>2, <2>3, <2>4
<1> QED BY <1>1, <1>2

LEMMA MetricsTyped ==
  ASSUME IInv, NEW u \in Users, NEW scope
  PROVE  /\ Metrics(u, scope).accuracy \in 0..100
         /\ Metrics(u, scope).days \in Nat
         /\ Metrics(u, scope).attempts \in Nat
<1> DEFINE is == GroupAttempts(u, scope)
           right == [i \in is |-> attempts[i].correct]
           outOf == [i \in is |-> Total(attempts[i].card)]
           days == {Day(s[2]) : s \in {s \in sessions : s[1] = u /\ s[2] >= now - WindowTicks}}
<1>1. is \subseteq DOMAIN attempts
  BY DEF GroupAttempts
<1>2. IsFiniteSet(DOMAIN attempts)
  <2>1. DOMAIN attempts = 1..Len(attempts) /\ Len(attempts) \in Nat
    BY LenProperties DEF IInv
  <2> QED BY <2>1, FS_Interval
<1>3. IsFiniteSet(is) /\ Cardinality(is) \in Nat
  BY <1>1, <1>2, FS_Subset, FS_CardinalityType
<1>4. \A i \in is : /\ Total(attempts[i].card) \in Nat
                    /\ attempts[i].correct \in 0..Total(attempts[i].card)
  BY <1>1, CardFacts DEF IInv, TypeOK, Total
<1> HIDE DEF is
<1>5. /\ right \in [is -> Nat] /\ outOf \in [is -> Nat]
      /\ \A i \in is : right[i] <= outOf[i]
  BY <1>4
<1>6. Right(is) = SumFunction(right) /\ OutOf(is) = SumFunction(outOf)
  BY DEF Right, OutOf
<1> HIDE DEF right, outOf
<1>7. Right(is) \in Nat /\ OutOf(is) \in Nat /\ Right(is) <= OutOf(is)
  BY <1>3, <1>5, <1>6, SumNotMore
<1>8. Pct(Right(is), OutOf(is)) \in 0..100
  BY <1>7, PctBounded
<1>9. ActiveDays(u) \in Nat
  <2>1. now \in Nat /\ sessions \subseteq Users \X (1..now)
    BY DEF IInv, TypeOK
  <2>2. \A tick \in 1..now : Day(tick) \in 0..now
    BY <2>1 DEF Day
  <2>3. days \subseteq 0..now
    BY <2>1, <2>2
  <2>4. IsFiniteSet(0..now)
    BY <2>1, FS_Interval
  <2>5. ActiveDays(u) = Cardinality(days)
    BY DEF ActiveDays
  <2> HIDE DEF days
  <2> QED BY <2>3, <2>4, <2>5, FS_Subset, FS_CardinalityType
<1> QED BY <1>3, <1>8, <1>9 DEF Metrics, is

Entry(u, scope)   == [user |-> u, study |-> Metrics(u, scope)]
Entries(us, scope) == {Entry(u, scope) : u \in us}

LEMMA EntriesFinite ==
  ASSUME NEW us, IsFiniteSet(us), NEW scope
  PROVE  /\ IsFiniteSet(Entries(us, scope)) /\ Cardinality(Entries(us, scope)) = Cardinality(us)
         /\ \A x \in Entries(us, scope) : x.user \in us /\ x = Entry(x.user, scope)
<1> DEFINE f == [u \in us |-> Entry(u, scope)]
<1>1. \A u \in us : Entry(u, scope).user = u
  BY DEF Entry
<1>2. \A u \in us : f[u] = Entry(u, scope) /\ f[u].user = u
  BY <1>1
<1>3. f \in [us -> Entries(us, scope)]
  BY DEF Entries
<1>4. \A x \in Entries(us, scope) : \E u \in us : f[u] = x
  BY DEF Entries
<1> HIDE DEF f
<1>5. f \in Bijection(us, Entries(us, scope))
  <2>1. \A u, v \in us : f[u] = f[v] => u = v
    BY <1>2
  <2> QED BY <1>3, <1>4, <2>1 DEF Bijection, Injection, Surjection, IsInjective
<1>6. IsFiniteSet(Entries(us, scope)) /\ Cardinality(Entries(us, scope)) = Cardinality(us)
  <2>1. ExistsBijection(us, Entries(us, scope))
    BY <1>5 DEF ExistsBijection
  <2> QED BY <2>1, FS_Bijection
<1> QED BY <1>2, <1>4, <1>6

Enough(us, scope) == {x \in Entries(us, scope) : x.study.attempts >= MinAttempts}
Few(us, scope)    == {x \in Entries(us, scope) : x.study.attempts < MinAttempts}

LEMMA EntryScore ==
  ASSUME IInv, NEW us \in SUBSET Users, NEW scope, NEW x \in Entries(us, scope)
  PROVE  /\ x.study.accuracy \in 0..100 /\ x.study.days \in Nat /\ x.study.attempts \in Nat
         /\ ItemScore(x.study) \in 0..100
         /\ x.user \in Users /\ x.user \in Nat
<1>1. PICK u \in us : x = Entry(u, scope)
  BY DEF Entries
<1>2. u \in Users /\ x.user = u /\ x.study = Metrics(u, scope)
  BY <1>1 DEF Entry
<1>3. x.study.accuracy \in 0..100 /\ x.study.days \in Nat /\ x.study.attempts \in Nat
  BY <1>2, MetricsTyped
<1>4. ItemScore(x.study) \in 0..100
  BY <1>3, ScoreIsRounded DEF ItemScore
<1> QED BY <1>2, <1>3, <1>4, UsersFinite

(* Those with base are all in the list, each once, and in its order. *)
LEMMA RankedRows ==
  ASSUME IInv, NEW us \in SUBSET Users, NEW scope
  PROVE  LET rows == InOrder(Enough(us, scope), LAMBDA x, y : RanksAbove(x, y, "priority"))
         IN /\ Lists(rows, Enough(us, scope))
            /\ \A i, j \in DOMAIN rows : i < j => RanksAbove(rows[i], rows[j], "priority")
<1> DEFINE S == Enough(us, scope)
           rows == CHOOSE s \in [1..Cardinality(S) -> S] :
                     \A i, j \in DOMAIN s : i < j => RanksAbove(s[i], s[j], "priority")
           key == [x \in S |-> ItemScore(x.study)]
           id == [x \in S |-> x.user]
<1>1. IsFiniteSet(us)
  BY UsersFinite
<1>2. IsFiniteSet(S)
  BY <1>1, EntriesFinite, FS_Subset DEF Enough
<1>3. rows = InOrder(S, LAMBDA x, y : RanksAbove(x, y, "priority"))
  BY DEF InOrder
<1>4. ASSUME NEW x \in S
      PROVE  /\ ItemScore(x.study) \in Int /\ x.user \in Int /\ x = Entry(x.user, scope)
             /\ RankKey(x.study, "priority") = ItemScore(x.study)
  <2>1. x \in Entries(us, scope)
    BY DEF Enough
  <2>2. RankKey(x.study, "priority") = ItemScore(x.study)
    BY DEF RankKey
  <2> QED BY <1>1, <2>1, <2>2, EntryScore, EntriesFinite
<1> HIDE DEF S
<1>5. /\ key \in [S -> Int] /\ id \in [S -> Int]
      /\ \A x \in S : key[x] = ItemScore(x.study) /\ id[x] = x.user
  BY <1>4
<1>6. \A x, y \in S : id[x] = id[y] => x = y
  BY <1>4, <1>5
<1> HIDE DEF key, id
<1>7. ASSUME NEW x \in S, NEW y \in S
      PROVE  RanksAbove(x, y, "priority")
               <=> key[x] > key[y] \/ (key[x] = key[y] /\ id[x] < id[y])
  <2>1. /\ key[x] \in Int /\ key[y] \in Int
        /\ RankKey(x.study, "priority") = key[x] /\ RankKey(y.study, "priority") = key[y]
        /\ id[x] = x.user /\ id[y] = y.user
    BY <1>4, <1>5
  <2> QED BY <2>1 DEF RanksAbove
<1>8. \E s \in [1..Cardinality(S) -> S] : \A i, j \in 1..Cardinality(S) : i < j =>
         \/ key[s[i]] > key[s[j]]
         \/ key[s[i]] = key[s[j]] /\ id[s[i]] < id[s[j]]
  <2>1. key \in [S -> Int] /\ id \in [S -> Int]
    BY <1>5
  <2> HIDE DEF rows
  <2>2. IsFiniteSet(S)
    BY <1>2
  <2>3. \A x, y \in S : id[x] = id[y] => x = y
    BY <1>6
  <2> QED BY <2>1, <2>2, <2>3, Keyed
<1>9. \E s \in [1..Cardinality(S) -> S] : \A i, j \in DOMAIN s : i < j => RanksAbove(s[i], s[j], "priority")
  BY <1>7, <1>8
<1>10. /\ rows \in [1..Cardinality(S) -> S]
       /\ \A i, j \in DOMAIN rows : i < j => RanksAbove(rows[i], rows[j], "priority")
  BY <1>9
<1> HIDE DEF rows
<1>11. \A i, j \in 1..Cardinality(S) : i < j =>
         \/ key[rows[i]] > key[rows[j]]
         \/ key[rows[i]] = key[rows[j]] /\ id[rows[i]] < id[rows[j]]
  BY <1>7, <1>10
<1>12. Lists(rows, S)
  BY <1>2, <1>5, <1>10, <1>11, KeyedLists
<1> QED BY <1>3, <1>10, <1>12 DEF S

LEMMA FewRows ==
  ASSUME IInv, NEW us \in SUBSET Users, NEW scope
  PROVE  Lists(InOrder(Few(us, scope), LAMBDA x, y : x.user < y.user), Few(us, scope))
<1> DEFINE S == Few(us, scope)
           rows == CHOOSE s \in [1..Cardinality(S) -> S] : \A i, j \in DOMAIN s : i < j => s[i].user < s[j].user
           key == [x \in S |-> 0]
           id == [x \in S |-> x.user]
<1>1. IsFiniteSet(us)
  BY UsersFinite
<1>2. IsFiniteSet(S)
  BY <1>1, EntriesFinite, FS_Subset DEF Few
<1>3. rows = InOrder(S, LAMBDA x, y : x.user < y.user)
  BY DEF InOrder
<1>4. \A x \in S : x.user \in Int /\ x = Entry(x.user, scope)
  BY <1>1, EntryScore, EntriesFinite DEF Few
<1> HIDE DEF S
<1>5. key \in [S -> Int] /\ id \in [S -> Int] /\ \A x \in S : key[x] = 0 /\ id[x] = x.user
  BY <1>4
<1>6. \A x, y \in S : id[x] = id[y] => x = y
  BY <1>4, <1>5
<1> HIDE DEF key, id
<1>7. \E s \in [1..Cardinality(S) -> S] : \A i, j \in 1..Cardinality(S) : i < j =>
         \/ key[s[i]] > key[s[j]]
         \/ key[s[i]] = key[s[j]] /\ id[s[i]] < id[s[j]]
  <2>1. key \in [S -> Int] /\ id \in [S -> Int]
    BY <1>5
  <2> HIDE DEF rows
  <2>2. IsFiniteSet(S)
    BY <1>2
  <2>3. \A x, y \in S : id[x] = id[y] => x = y
    BY <1>6
  <2> QED BY <2>1, <2>2, <2>3, Keyed
<1>8. \E s \in [1..Cardinality(S) -> S] : \A i, j \in DOMAIN s : i < j => s[i].user < s[j].user
  <2>1. PICK s \in [1..Cardinality(S) -> S] : \A i, j \in 1..Cardinality(S) : i < j =>
           \/ key[s[i]] > key[s[j]]
           \/ key[s[i]] = key[s[j]] /\ id[s[i]] < id[s[j]]
    BY <1>7
  <2>2. \A i \in 1..Cardinality(S) : key[s[i]] = 0 /\ id[s[i]] = s[i].user
    BY <1>5
  <2>3. \A i, j \in DOMAIN s : i < j => s[i].user < s[j].user
    BY <2>1, <2>2
  <2> QED BY <2>3
<1>9. /\ rows \in [1..Cardinality(S) -> S]
      /\ \A i, j \in DOMAIN rows : i < j => rows[i].user < rows[j].user
  BY <1>8
<1> HIDE DEF rows
<1>10. \A i, j \in 1..Cardinality(S) : i < j =>
         \/ key[rows[i]] > key[rows[j]]
         \/ key[rows[i]] = key[rows[j]] /\ id[rows[i]] < id[rows[j]]
  BY <1>5, <1>9
<1>11. Lists(rows, S)
  BY <1>2, <1>5, <1>9, <1>10, KeyedLists
<1> QED BY <1>3, <1>11 DEF S

Asked(manada) == IF manada = NoManada THEN Users ELSE InManada(manada)

(* The users of a ranking are those asked for, cut at MEMBER_CAP; it is told whether the cut
   left somebody out, because one more than the cap is fetched. *)
LEMMA CandidatesFacts ==
  ASSUME NEW manada
  PROVE  LET us == Range(Candidates(manada).users)
         IN /\ us \subseteq Asked(manada) /\ us \subseteq Users
            /\ Candidates(manada).truncated <=> us # Asked(manada)
<1> DEFINE all == Asked(manada)
           rows == ByName(all)
           found == FirstOf(rows, Take)
           cut == FirstOf(found, MemberCap)
           n == Cardinality(all)
<1>1. all \subseteq Users /\ all \in SUBSET Nat /\ IsFiniteSet(all)
  <2>1. all \in SUBSET Users
    BY DEF Asked, InManada
  <2> HIDE DEF all
  <2> QED BY <2>1, UsersFinite
<1>2. n \in Nat /\ MemberCap \in Nat /\ Take = MemberCap + 1 /\ Take \in Nat
  BY <1>1, FS_CardinalityType, StatsAssumption DEF Take
<1>3. /\ Candidates(manada).users = cut
      /\ Candidates(manada).truncated <=> Len(found) > MemberCap
  BY DEF Candidates, Asked
<1> HIDE DEF all
<1>4. Lists(rows, all)
  BY <1>1, Ascending DEF ByName
<1> HIDE DEF rows
<1>5. /\ Range(found) \subseteq all /\ Len(found) = AtMost(Take, n) /\ IsFiniteSet(Range(found))
      /\ Lists(found, Range(found)) /\ (n <= Take => Range(found) = all)
  BY <1>2, <1>4, CutRows
<1> HIDE DEF found
<1>6. Cardinality(Range(found)) = Len(found)
  BY <1>5 DEF Lists
<1>7. /\ Range(cut) \subseteq Range(found) /\ Len(cut) = AtMost(MemberCap, Len(found))
      /\ Lists(cut, Range(cut)) /\ (Len(found) <= MemberCap => Range(cut) = Range(found))
  <2>1. Lists(found, Range(found)) /\ MemberCap \in Nat
    BY <1>2, <1>5
  <2> DEFINE R == Range(found)
  <2> HIDE DEF R
  <2>2. Lists(found, R) /\ MemberCap \in Nat
    BY <2>1 DEF R
  <2>3. /\ Range(cut) \subseteq R /\ Len(cut) = AtMost(MemberCap, Cardinality(R))
        /\ Lists(cut, Range(cut)) /\ (Cardinality(R) <= MemberCap => Range(cut) = R)
    BY <2>2, CutRows
  <2> QED BY <1>6, <2>3 DEF R
<1> HIDE DEF cut, n
<1>8. CASE Len(found) > MemberCap
  <2>1. Len(cut) = MemberCap /\ n > MemberCap
    BY <1>2, <1>5, <1>7, <1>8 DEF AtMost
  <2>2. Cardinality(Range(cut)) # n
    BY <1>2, <1>7, <2>1 DEF Lists
  <2> QED BY <1>1, <1>3, <1>5, <1>7, <1>8, <2>2 DEF all, n
<1>9. CASE ~(Len(found) > MemberCap)
  <2>1. Len(found) \in Nat
    BY <1>2, <1>5 DEF AtMost
  <2>2. Len(found) <= MemberCap /\ n <= Take
    BY <1>2, <1>5, <1>9, <2>1 DEF AtMost
  <2> QED BY <1>1, <1>3, <1>5, <1>7, <1>9, <2>2 DEF all
<1> QED BY <1>8, <1>9

(* What the ranking shows: the entries of its candidates, those with base and the others. *)
LEMMA RankingShows ==
  ASSUME IInv, NEW manada, NEW scope
  PROVE  LET us == Range(Candidates(manada).users)
             ranking == Ranking(manada, scope, "priority")
         IN /\ Lists(ranking.ranked, Enough(us, scope))
            /\ Lists(ranking.insufficient, Few(us, scope))
            /\ ranking.truncated = Candidates(manada).truncated
            /\ \A i, j \in DOMAIN ranking.ranked :
                 i < j => RanksAbove(ranking.ranked[i], ranking.ranked[j], "priority")
<1> DEFINE us == Range(Candidates(manada).users)
           ranking == Ranking(manada, scope, "priority")
<1>1. us \in SUBSET Users
  BY CandidatesFacts
<1>2. /\ ranking.ranked = InOrder(Enough(us, scope), LAMBDA x, y : RanksAbove(x, y, "priority"))
      /\ ranking.insufficient = InOrder(Few(us, scope), LAMBDA x, y : x.user < y.user)
      /\ ranking.truncated = Candidates(manada).truncated
  BY DEF Ranking, Enough, Few, Entries, Entry
<1> HIDE DEF us, ranking
<1>3. Lists(ranking.insufficient, Few(us, scope))
  BY <1>1, <1>2, FewRows
<1>4. /\ Lists(ranking.ranked, Enough(us, scope))
      /\ \A i, j \in DOMAIN ranking.ranked :
           i < j => RanksAbove(ranking.ranked[i], ranking.ranked[j], "priority")
  BY <1>1, <1>2, RankedRows
<1> QED BY <1>2, <1>3, <1>4 DEF us, ranking

(* Everybody asked for is shown once, or the ranking says that somebody is not. *)
THEOREM RankingAccountsForAll == Spec => []RankingAccounts
<1>1. ASSUME IInv, NEW manada \in Manadas \union {NoManada}, NEW scope \in Scopes
      PROVE  LET ranking == Ranking(manada, scope, "priority")
                 asked == IF manada = NoManada THEN Users ELSE InManada(manada)
                 shown == {x.user : x \in Range(ranking.ranked) \union Range(ranking.insufficient)}
             IN /\ shown \subseteq asked
                /\ Len(ranking.ranked) + Len(ranking.insufficient) = Cardinality(shown)
                /\ ranking.truncated <=> shown # asked
  <2> DEFINE ranking == Ranking(manada, scope, "priority")
             us == Range(Candidates(manada).users)
             asked == Asked(manada)
             shown == {x.user : x \in Range(ranking.ranked) \union Range(ranking.insufficient)}
             E == Enough(us, scope)
             F == Few(us, scope)
             all == Entries(us, scope)
  <2>1. us \subseteq asked /\ us \in SUBSET Users /\ (Candidates(manada).truncated <=> us # asked)
    BY CandidatesFacts
  <2>2. Lists(ranking.ranked, E) /\ Lists(ranking.insufficient, F)
        /\ ranking.truncated = Candidates(manada).truncated
    BY <1>1, RankingShows
  <2> HIDE DEF us, ranking, asked
  <2>3. IsFiniteSet(us)
    BY <2>1, UsersFinite
  <2>4. /\ IsFiniteSet(all) /\ Cardinality(all) = Cardinality(us)
        /\ \A x \in all : x.user \in us /\ x = Entry(x.user, scope)
    BY <2>3, EntriesFinite
  <2>5. all = E \cup F /\ E \cap F = {} /\ E \subseteq all /\ F \subseteq all
    <3>1. \A x \in all : x.study.attempts \in Nat
      BY <1>1, <2>1, EntryScore
    <3>2. MinAttempts \in Nat
      BY StatsAssumption
    <3> HIDE DEF all
    <3>3. E = {x \in all : x.study.attempts >= MinAttempts}
          /\ F = {x \in all : x.study.attempts < MinAttempts}
      BY DEF Enough, Few, all
    <3>4. \A x \in all : (x \in E <=> ~(x \in F)) /\ (x \in E \/ x \in F)
      BY <3>1, <3>2, <3>3
    <3> HIDE DEF E, F
    <3> QED BY <3>3, <3>4
  <2>6. ASSUME NEW u \in us PROVE \E x \in all : x.user = u
    <3>1. Entry(u, scope) \in all
      BY DEF Entries
    <3>2. Entry(u, scope).user = u
      BY DEF Entry
    <3> QED BY <3>1, <3>2
  <2> HIDE DEF E, F, all
  <2>7. Range(ranking.ranked) \union Range(ranking.insufficient) = all
    BY <2>2, <2>5 DEF Lists
  <2>8. shown = us
    BY <2>4, <2>6, <2>7
  <2>9. Cardinality(all) = Cardinality(E) + Cardinality(F)
    <3>1. IsFiniteSet(E) /\ IsFiniteSet(F)
      BY <2>4, <2>5, FS_Subset
    <3>2. Cardinality(E \cap F) = 0 /\ Cardinality(E) \in Nat /\ Cardinality(F) \in Nat
      BY <2>5, <3>1, FS_EmptySet, FS_CardinalityType
    <3>3. Cardinality(E \cup F) = Cardinality(E) + Cardinality(F) - Cardinality(E \cap F)
      BY <3>1, FS_Union
    <3> QED BY <2>5, <3>2, <3>3
  <2>10. Len(ranking.ranked) + Len(ranking.insufficient) = Cardinality(us)
    BY <2>2, <2>4, <2>9 DEF Lists
  <2>11. shown \subseteq asked /\ (ranking.truncated <=> shown # asked)
    BY <2>1, <2>2, <2>8
  <2> QED BY <2>8, <2>10, <2>11 DEF ranking, asked, Asked
<1>2. IInv => RankingAccounts
  BY <1>1 DEF RankingAccounts
<1> QED BY <1>2, Always, PTL

(* Who has at least as much of everything is not put behind, but for a tie of the score: it is
   monotone, whatever its doubles do (ScoreMonotone). *)
THEOREM EffortIsRespected == Spec => []RankRespectsEffort
<1>1. ASSUME IInv, NEW scope \in Scopes
      PROVE  LET ranked == Ranking(NoManada, scope, "priority").ranked
                 atLeast(m, n) == /\ m.accuracy >= n.accuracy /\ m.days >= n.days
                                  /\ m.attempts >= n.attempts
             IN \A a, b \in DOMAIN ranked :
                  a < b /\ atLeast(ranked[b].study, ranked[a].study)
                    => /\ ItemScore(ranked[a].study) = ItemScore(ranked[b].study)
                       /\ ranked[a].user < ranked[b].user
  <2> DEFINE ranked == Ranking(NoManada, scope, "priority").ranked
             us == Range(Candidates(NoManada).users)
  <2>1. /\ Lists(ranked, Enough(us, scope))
        /\ \A i, j \in DOMAIN ranked : i < j => RanksAbove(ranked[i], ranked[j], "priority")
    BY <1>1, RankingShows
  <2>2. us \in SUBSET Users
    BY CandidatesFacts
  <2> HIDE DEF ranked, us
  <2>3. SUFFICES ASSUME NEW a \in DOMAIN ranked, NEW b \in DOMAIN ranked, a < b,
                        ranked[b].study.accuracy >= ranked[a].study.accuracy,
                        ranked[b].study.days >= ranked[a].study.days,
                        ranked[b].study.attempts >= ranked[a].study.attempts
                 PROVE  /\ ItemScore(ranked[a].study) = ItemScore(ranked[b].study)
                        /\ ranked[a].user < ranked[b].user
    BY DEF ranked
  <2>4. ranked[a] \in Entries(us, scope) /\ ranked[b] \in Entries(us, scope)
    BY <2>1 DEF Lists, Range, Enough
  <2> DEFINE m == ranked[a].study
             n == ranked[b].study
  <2>5. /\ m.accuracy \in 0..100 /\ m.days \in Nat /\ m.attempts \in Nat
        /\ n.accuracy \in 0..100 /\ n.days \in Nat /\ n.attempts \in Nat
        /\ ItemScore(m) \in 0..100 /\ ItemScore(n) \in 0..100
    BY <1>1, <2>2, <2>4, EntryScore
  <2>6. m.accuracy <= n.accuracy /\ m.days <= n.days /\ m.attempts <= n.attempts
    BY <2>3, <2>5
  <2>7. RanksAbove(ranked[a], ranked[b], "priority")
    BY <2>1, <2>3
  <2> HIDE DEF m, n
  <2>8. ItemScore(m) <= ItemScore(n)
    BY <2>5, <2>6, ScoreMonotone DEF ItemScore
  <2>9. \/ ItemScore(m) - ItemScore(n) > 0
        \/ ItemScore(m) - ItemScore(n) = 0 /\ ranked[a].user < ranked[b].user
    BY <2>7 DEF RanksAbove, RankKey, m, n
  <2>10. ItemScore(m) = ItemScore(n) /\ ranked[a].user < ranked[b].user
    BY <2>5, <2>8, <2>9
  <2> QED BY <2>10 DEF m, n
<1>2. IInv => RankRespectsEffort
  BY <1>1 DEF RankRespectsEffort
<1> QED BY <1>2, Always, PTL

-----------------------------------------------------------------------------
(* The history of a card: there is one ascending list of a set, because the k-th element is
   the one that k of them do not exceed. *)
LEMMA PlaceCounts ==
  ASSUME NEW S \in SUBSET Nat, IsFiniteSet(S), NEW s \in [1..Cardinality(S) -> S],
         \A i, j \in 1..Cardinality(S) : i < j => s[i] < s[j],
         NEW k \in 1..Cardinality(S)
  PROVE  /\ IsFiniteSet({x \in S : x <= s[k]})
         /\ Cardinality({x \in S : x <= s[k]}) = k
<1> DEFINE A == {x \in S : x <= s[k]}
           n == Cardinality(S)
           f == [j \in 1..k |-> s[j]]
<1>1. n \in Nat /\ \A i \in 1..n : s[i] \in Nat /\ s[i] \in S
  BY FS_CardinalityType
<1>2. \A i, j \in 1..n : i < j => s[i] < s[j]
  OBVIOUS
<1>3. Range(s) = S
  <2>1. ASSUME NEW i \in 1..n, NEW j \in 1..n, i < j PROVE s[i] # s[j]
    <3>1. s[i] < s[j] /\ s[i] \in Nat /\ s[j] \in Nat
      BY <1>1, <1>2, <2>1
    <3> QED BY <3>1
  <2> QED BY <2>1, Listed
<1>4. k \in Nat /\ k <= n /\ k \in 1..n
  BY <1>1
<1> HIDE DEF n
<1>5. ASSUME NEW j \in 1..n PROVE s[j] \in A <=> j <= k
  <2>1. s[j] \in Nat /\ s[k] \in Nat /\ s[j] \in S
    BY <1>1, <1>4
  <2>2. CASE j < k
    BY <1>2, <1>4, <2>1, <2>2
  <2>3. CASE j = k
    BY <1>4, <2>1, <2>3
  <2>4. CASE j > k
    <3>1. s[k] < s[j]
      BY <1>2, <1>4, <2>4
    <3> QED BY <2>1, <2>4, <3>1, <1>4
  <2> QED BY <1>4, <2>2, <2>3, <2>4
<1>6. /\ \A j \in 1..k : f[j] = s[j] /\ j \in 1..n
      /\ f \in [1..k -> A]
  <2>1. \A j \in 1..k : j \in 1..n /\ j <= k
    BY <1>1, <1>4
  <2> HIDE DEF A
  <2>2. \A j \in 1..k : s[j] \in A
    BY <1>5, <2>1
  <2> QED BY <2>1, <2>2
<1>7. \A x \in A : \E j \in 1..k : f[j] = x
  <2> SUFFICES ASSUME NEW x \in A PROVE \E j \in 1..k : f[j] = x
    OBVIOUS
  <2>1. PICK j \in DOMAIN s : s[j] = x
    BY <1>3 DEF Range
  <2>2. j \in 1..n
    BY <2>1 DEF n
  <2>3. j <= k
    BY <1>5, <2>1, <2>2
  <2> QED BY <1>4, <1>6, <2>1, <2>2, <2>3
<1> HIDE DEF f, A
<1>8. f \in Bijection(1..k, A)
  <2>1. \A i, j \in 1..k : f[i] = f[j] => i = j
    <3> SUFFICES ASSUME NEW i \in 1..k, NEW j \in 1..k, i # j PROVE f[i] # f[j]
      OBVIOUS
    <3>1. i \in 1..n /\ j \in 1..n /\ f[i] = s[i] /\ f[j] = s[j]
      BY <1>6
    <3>2. s[i] \in Nat /\ s[j] \in Nat /\ (s[i] < s[j] \/ s[j] < s[i])
      BY <1>1, <1>2, <3>1
    <3> QED BY <3>1, <3>2
  <2> QED BY <1>6, <1>7, <2>1 DEF Bijection, Injection, Surjection, IsInjective
<1>9. IsFiniteSet(A) /\ Cardinality(A) = k
  <2>1. ExistsBijection(1..k, A)
    BY <1>8 DEF ExistsBijection
  <2>2. IsFiniteSet(1..k) /\ Cardinality(1..k) = k
    BY <1>4, FS_Interval
  <2> QED BY <2>1, <2>2, FS_Bijection
<1> QED BY <1>9 DEF A

LEMMA OneAscending ==
  ASSUME NEW S \in SUBSET Nat, IsFiniteSet(S),
         NEW s \in [1..Cardinality(S) -> S], NEW t \in [1..Cardinality(S) -> S],
         \A i, j \in 1..Cardinality(S) : i < j => s[i] < s[j],
         \A i, j \in 1..Cardinality(S) : i < j => t[i] < t[j]
  PROVE  s = t
<1>1. ASSUME NEW k \in 1..Cardinality(S) PROVE s[k] = t[k]
  <2> DEFINE A == {x \in S : x <= s[k]}
             B == {x \in S : x <= t[k]}
  <2>1. IsFiniteSet(A) /\ Cardinality(A) = k
    BY PlaceCounts
  <2>2. IsFiniteSet(B) /\ Cardinality(B) = k
    BY PlaceCounts
  <2>3. s[k] \in S /\ t[k] \in S /\ s[k] \in Nat /\ t[k] \in Nat
    OBVIOUS
  <2>4. s[k] \in A /\ t[k] \in B
    BY <2>3
  <2>5. A \subseteq B \/ B \subseteq A
    <3>1. \A x \in S : x \in Nat
      OBVIOUS
    <3>2. s[k] <= t[k] \/ t[k] <= s[k]
      BY <2>3
    <3>3. CASE s[k] <= t[k]
      <4>1. \A x \in S : x <= s[k] => x <= t[k]
        BY <2>3, <3>1, <3>3
      <4> QED BY <4>1
    <3>4. CASE t[k] <= s[k]
      <4>1. \A x \in S : x <= t[k] => x <= s[k]
        BY <2>3, <3>1, <3>4
      <4> QED BY <4>1
    <3> QED BY <3>2, <3>3, <3>4
  <2>6. A = B
    <3> HIDE DEF A, B
    <3> QED BY <2>1, <2>2, <2>5, FS_Subset
  <2>7. s[k] <= t[k] /\ t[k] <= s[k]
    BY <2>4, <2>6
  <2> QED BY <2>3, <2>7
<1>2. \A k \in 1..Cardinality(S) : s[k] = t[k]
  BY <1>1
<1> DEFINE n == Cardinality(S)
<1>3. \A k \in 1..n : s[k] = t[k]
  BY <1>2
<1>4. s = [k \in 1..n |-> s[k]] /\ t = [k \in 1..n |-> t[k]]
  OBVIOUS
<1> HIDE DEF n
<1>5. [k \in 1..n |-> s[k]] = [k \in 1..n |-> t[k]]
  BY <1>3
<1> QED BY <1>4, <1>5

LEMMA NewestIsLast ==
  ASSUME NEW S \in SUBSET Nat, IsFiniteSet(S), NEW i \in S, \A j \in S : j <= i
  PROVE  InOrder(S, Less) = Append(InOrder(S \ {i}, Less), i)
<1> DEFINE n == Cardinality(S)
           s == InOrder(S, Less)
           R == S \ {i}
           r == InOrder(R, Less)
           t == Append(r, i)
<1>1. n \in Nat /\ R \in SUBSET Nat /\ IsFiniteSet(R) /\ Cardinality(R) = n - 1 /\ R \subseteq S
  BY FS_CardinalityType, FS_RemoveElement
<1>2. s \in [1..n -> S] /\ \A a, b \in 1..n : a < b => s[a] < s[b]
  BY Ascending, LenProperties DEF Lists
<1> HIDE DEF R
<1>3. /\ Lists(r, R)
      /\ \A a, b \in 1..Cardinality(R) : a < b => r[a] < r[b]
  BY <1>1, Ascending
<1>4. r \in Seq(R) /\ Len(r) = n - 1 /\ n - 1 \in Nat
  BY <1>1, <1>3 DEF Lists
<1> HIDE DEF r, s, n
<1>5. r \in Seq(S) /\ \A a \in 1..(n - 1) : r[a] \in R
  <2> DEFINE m == n - 1
  <2>1. r \in [1..m -> R] /\ m \in Nat
    BY <1>4, LenProperties
  <2> HIDE DEF m
  <2>2. r \in [1..m -> S]
    BY <1>1, <2>1
  <2>3. r \in Seq(S)
    BY <2>1, <2>2, SeqDef
  <2> QED BY <2>1, <2>3 DEF m
<1>6. /\ t \in Seq(S) /\ Len(t) = n - 1 + 1
      /\ \A a \in 1..(n - 1) : t[a] = r[a]
      /\ t[n - 1 + 1] = i
  BY <1>4, <1>5, AppendProperties
<1> HIDE DEF t
<1>7. t \in [1..n -> S]
  <2>1. n - 1 + 1 = n
    BY <1>1
  <2> QED BY <1>6, <2>1, LenProperties
<1>8. ASSUME NEW a \in 1..n, NEW b \in 1..n, a < b PROVE t[a] < t[b]
  <2>1. a \in 1..(n - 1) /\ t[a] = r[a] /\ r[a] \in R
    BY <1>1, <1>5, <1>6, <1>8
  <2>2. CASE b = n
    <3>1. t[b] = i /\ n - 1 + 1 = n
      BY <1>1, <1>6, <2>2
    <3>2. r[a] <= i /\ r[a] # i /\ r[a] \in Nat /\ i \in Nat
      BY <1>1, <2>1 DEF R
    <3> QED BY <2>1, <3>1, <3>2
  <2>3. CASE b # n
    <3>1. b \in 1..(n - 1) /\ t[b] = r[b]
      BY <1>1, <1>6, <2>3
    <3> QED BY <1>1, <1>3, <1>8, <2>1, <3>1
  <2> QED BY <2>2, <2>3
<1>9. s = t
  BY <1>2, <1>7, <1>8, OneAscending DEF n
<1> QED BY <1>9 DEF s, t, r, R

(* To cut the last rows off one more row is to cut one less before it. *)
LEMMA LastOfOneMore ==
  ASSUME NEW S, NEW p \in Seq(S), NEW i \in S, NEW h \in Nat, h > 0
  PROVE  LastOf(Append(p, i), h) = Append(LastOf(p, h - 1), i)
<1> DEFINE q == Append(p, i)
           a == LastOf(q, h)
           b == LastOf(p, h - 1)
           c == Append(b, i)
           k == Len(p)
           m == AtMost(h - 1, k)
<1>1. k \in Nat /\ h - 1 \in Nat /\ m \in Nat /\ m <= k
  BY LenProperties DEF AtMost
<1>2. /\ q \in Seq(S) /\ Len(q) = k + 1 /\ q[k + 1] = i
      /\ \A j \in 1..k : q[j] = p[j]
  BY AppendProperties
<1>3. AtMost(h, k + 1) = m + 1
  BY <1>1 DEF AtMost
<1> HIDE DEF q, k, m
<1>4. /\ a \in Seq(S) /\ Len(a) = m + 1
      /\ \A j \in 1..(m + 1) : a[j] = q[(k + 1) - (m + 1) + j]
  <2>1. q \in Seq(S) /\ h \in Nat
    BY <1>2
  <2>2. AtMost(h, Len(q)) = m + 1
    BY <1>2, <1>3
  <2>3. /\ LastOf(q, h) \in Seq(S) /\ Len(LastOf(q, h)) = AtMost(h, Len(q))
        /\ \A j \in 1..AtMost(h, Len(q)) :
             LastOf(q, h)[j] = q[Len(q) - AtMost(h, Len(q)) + j]
    BY <2>1, LastCut
  <2> HIDE DEF a
  <2> QED BY <1>2, <2>2, <2>3 DEF a
<1> HIDE DEF a
<1>5. b \in Seq(S) /\ Len(b) = m /\ \A j \in 1..m : b[j] = p[k - m + j]
  BY <1>1, LastCut DEF m, k
<1> HIDE DEF b
<1>6. /\ c \in Seq(S) /\ Len(c) = m + 1
      /\ \A j \in 1..m : c[j] = b[j]
      /\ c[m + 1] = i
  BY <1>1, <1>5, AppendProperties
<1> HIDE DEF c
<1>7. ASSUME NEW j \in 1..(m + 1) PROVE a[j] = c[j]
  <2>1. (k + 1) - (m + 1) + j = k - m + j
    BY <1>1
  <2>2. CASE j = m + 1
    <3>1. k - m + j = k + 1
      BY <1>1, <2>2
    <3> QED BY <1>2, <1>4, <1>6, <2>1, <2>2, <3>1
  <2>3. CASE j # m + 1
    <3>1. j \in 1..m /\ k - m + j \in 1..k
      BY <1>1, <2>3
    <3>2. a[j] = q[k - m + j]
      BY <1>4, <2>1
    <3>3. q[k - m + j] = p[k - m + j]
      BY <1>2, <3>1
    <3>4. p[k - m + j] = c[j]
      BY <1>5, <1>6, <3>1
    <3> QED BY <3>2, <3>3, <3>4
  <2> QED BY <2>2, <2>3
<1>8. a = [j \in 1..(m + 1) |-> a[j]] /\ c = [j \in 1..(m + 1) |-> c[j]]
  BY <1>4, <1>6, LenProperties
<1>9. [j \in 1..(m + 1) |-> a[j]] = [j \in 1..(m + 1) |-> c[j]]
  BY <1>7
<1> QED BY <1>8, <1>9 DEF a, q, c, b

(* The two queries behind a result and behind the history of its card agree. *)
THEOREM HistoriesAlwaysAgree == Spec => []HistoriesAgree
<1>1. ASSUME IInv, NEW i \in DOMAIN attempts
      PROVE  LET view == FinishedView(i)
                 n == Len(view.history)
             IN /\ Newest(i) => view.history = History(attempts[i].user, attempts[i].card)
                /\ n > 1 => /\ view.previous = view.history[n - 1]
                            /\ view.delta = Percent(i) - Percent(view.history[n - 1])
                /\ Newest(i) /\ n = 1 => Cardinality(ResultsOf(attempts[i].user, attempts[i].card)) = 1
  <2> DEFINE S == ResultsOf(attempts[i].user, attempts[i].card)
             R == S \ {i}
             rest == InOrder(R, Less)
             prior == Prior(i, HistoryLimit - 1)
             h == Append(prior, i)
             last == Len(prior)
             view == FinishedView(i)
             n == Len(h)
  <2>1. /\ S \in SUBSET Nat /\ IsFiniteSet(S) /\ i \in S
        /\ IsFiniteSet(R) /\ Cardinality(R) = Cardinality(S) - 1 /\ R \in SUBSET Nat
        /\ Cardinality(S) \in Nat /\ Cardinality(R) \in Nat
    <3>1. DOMAIN attempts = 1..Len(attempts) /\ Len(attempts) \in Nat
      BY <1>1, LenProperties DEF IInv
    <3>2. IsFiniteSet(1..Len(attempts)) /\ 1..Len(attempts) \subseteq Nat
      BY <3>1, FS_Interval
    <3>3. S \subseteq 1..Len(attempts) /\ i \in S
      BY <1>1, <3>1 DEF ResultsOf
    <3> HIDE DEF S
    <3>4. S \in SUBSET Nat /\ IsFiniteSet(S)
      BY <3>2, <3>3, FS_Subset
    <3>5. IsFiniteSet(R) /\ Cardinality(R) = Cardinality(S) - 1
      BY <3>3, <3>4, FS_RemoveElement
    <3> QED BY <3>3, <3>4, <3>5, FS_CardinalityType
  <2>2. HistoryLimit \in Nat /\ HistoryLimit > 1
    BY StatsAssumption
  <2>3. prior = LastOf(rest, HistoryLimit - 1)
    BY DEF Prior
  <2>4. /\ view.history = h
        /\ view.previous = IF last = 0 THEN 0 ELSE prior[last]
        /\ view.delta = IF last = 0 THEN 0 ELSE Percent(i) - Percent(prior[last])
    BY DEF FinishedView
  <2>5. Newest(i) => \A j \in S : j <= i
    BY DEF Newest, ResultsOf
  <2> HIDE DEF S, R, rest
  <2>6. rest \in Seq(R) /\ Len(rest) = Cardinality(R)
    BY <2>1, Ascending DEF Lists, rest
  <2>7. HistoryLimit - 1 \in Nat /\ HistoryLimit - 1 > 0
    BY <2>2
  <2> HIDE DEF prior, view
  <2>8. prior \in Seq(R) /\ Len(prior) = AtMost(HistoryLimit - 1, Cardinality(R))
    BY <2>3, <2>6, <2>7, LastCut
  <2>9. R \subseteq S /\ rest \in Seq(S) /\ prior \in Seq(S)
    <3>1. R \subseteq S
      BY DEF R
    <3> QED BY <2>6, <2>8, <3>1, SeqDef, LenProperties
  <2>10. /\ last \in Nat /\ n = last + 1 /\ h[n] = i
         /\ \A j \in 1..last : h[j] = prior[j]
    BY <2>1, <2>9, AppendProperties, LenProperties
  <2> HIDE DEF h, last, n
  <2>11. Newest(i) => h = History(attempts[i].user, attempts[i].card)
    <3> SUFFICES ASSUME Newest(i) PROVE h = History(attempts[i].user, attempts[i].card)
      OBVIOUS
    <3>1. InOrder(S, Less) = Append(rest, i)
      BY <2>1, <2>5, NewestIsLast DEF R, rest
    <3>2. History(attempts[i].user, attempts[i].card) = LastOf(InOrder(S, Less), HistoryLimit)
      BY DEF History, S
    <3>3. LastOf(Append(rest, i), HistoryLimit) = Append(LastOf(rest, HistoryLimit - 1), i)
      <4>1. rest \in Seq(S) /\ i \in S /\ HistoryLimit \in Nat /\ HistoryLimit > 0
        BY <2>1, <2>2, <2>9
      <4> QED BY <4>1, LastOfOneMore
    <3> QED BY <2>3, <3>1, <3>2, <3>3 DEF h
  <2>12. n > 1 => /\ view.previous = h[n - 1]
                  /\ view.delta = Percent(i) - Percent(h[n - 1])
    <3> SUFFICES ASSUME n > 1
                 PROVE  view.previous = h[n - 1] /\ view.delta = Percent(i) - Percent(h[n - 1])
      OBVIOUS
    <3>1. last # 0 /\ last \in 1..last /\ n - 1 = last
      BY <2>10
    <3> QED BY <2>4, <2>10, <3>1
  <2>13. n = 1 => Cardinality(S) = 1
    <3> SUFFICES ASSUME n = 1 PROVE Cardinality(S) = 1
      OBVIOUS
    <3>1. AtMost(HistoryLimit - 1, Cardinality(R)) = 0
      BY <2>8, <2>10 DEF last
    <3>2. Cardinality(R) = 0
      BY <2>1, <2>7, <3>1 DEF AtMost
    <3> QED BY <2>1, <3>2
  <2> QED BY <2>4, <2>11, <2>12, <2>13 DEF n, view, S
<1>2. IInv => HistoriesAgree
  BY <1>1 DEF HistoriesAgree
<1> QED BY <1>2, Always, PTL
=============================================================================
