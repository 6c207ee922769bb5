--------------------------- MODULE CatalogueProofs ---------------------------
(***************************************************************************)
(* Proofs about Catalogue, for any files that the assumption allows, any   *)
(* number of containers and of crashes.                                    *)
(***************************************************************************)
EXTENDS Catalogue, Lemmas

-----------------------------------------------------------------------------
(* What the order of the statements is good for.  A place of the program has a mark, the last
   question before it: its course and its place in the file, which is how much of which index
   a boot holds there. *)
Marks == ({0} \cup DOMAIN Courses) \X Nat
Questions(c) == Courses[c].questions
Decks(c)     == Courses[c].decks
Full(c)      == <<c, Len(Questions(c))>>

CardKey(c, kind, k) == <<c, kind, Decks(c)[kind][k].code>>

IsQuestion(s) ==
  \E c \in DOMAIN Courses : \E i \in DOMAIN Questions(c) :
    s = [do |-> "question", course |-> c, i |-> i]

IsOption(s) ==
  \E c \in DOMAIN Courses : \E i \in DOMAIN Questions(c), o \in 1..Options :
    s = [do |-> "option", course |-> c, i |-> i, ord |-> o]

IsCard(s) ==
  \E c \in DOMAIN Courses : \E kind \in DOMAIN Decks(c) : \E k \in DOMAIN Decks(c)[kind] :
    s = [do |-> "card", key |-> CardKey(c, kind, k),
         origin |-> IF kind = "EXAM" THEN Decks(c)[kind][k].origin ELSE 0]

IsCite(s) ==
  \E c \in DOMAIN Courses : \E kind \in DOMAIN Decks(c) : \E k \in DOMAIN Decks(c)[kind] :
    \E i \in DOMAIN Questions(c), n \in Nat :
      s = [do |-> "cite", key |-> CardKey(c, kind, k), i |-> i, rank |-> n]

IsLink(s) ==
  \E c \in DOMAIN Courses : \E kind \in DOMAIN Decks(c) : \E k \in DOMAIN Decks(c)[kind] :
    \E n \in Nat : s = [do |-> "link", key |-> CardKey(c, kind, k), ord |-> n]

(* The card of a citation or a link was written by an earlier statement. *)
Preceded(P, x, key) == \E y \in 1..(x - 1) : P[y].do = "card" /\ P[y].key = key

(* A question has all its options. *)
OptionOf(s, o) == [do |-> "option", course |-> s.course, i |-> s.i, ord |-> o]
Answered(P, s) == \A o \in 1..Options : \E y \in 1..Len(P) : P[y] = OptionOf(s, o)

(* A statement between the marks u and v finds in the index what it looks up there. *)
Follows(P, x, u, v) ==
  LET s == P[x]
  IN \/ s.do = "upsert" /\ v = u
     \/ /\ IsQuestion(s) /\ v = <<s.course, s.i>>
        /\ s.i = 1 \/ u = <<s.course, s.i - 1>>
        /\ Answered(P, s)
     \/ IsOption(s) /\ u = <<s.course, s.i>> /\ v = u
     \/ IsCard(s) /\ (s.origin # 0 => u = Full(s.key[1])) /\ v = u
     \/ IsCite(s) /\ u = Full(s.key[1]) /\ Preceded(P, x, s.key) /\ v = u
     \/ IsLink(s) /\ Preceded(P, x, s.key) /\ v = u

Marked(P, t) ==
  /\ t \in [1..(Len(P) + 1) -> Marks]
  /\ \A x \in 1..Len(P) : Follows(P, x, t[x], t[x + 1])

Path(P, u, v) ==
  \E S, t : P \in Seq(S) /\ Marked(P, t) /\ t[1] = u /\ t[Len(P) + 1] = v

LEMMA SameFollows ==
  ASSUME NEW P, NEW R, NEW x, NEW y, NEW u, NEW v, R[y] = P[x],
         \A key : Preceded(P, x, key) => Preceded(R, y, key),
         \A s : Answered(P, s) => Answered(R, s),
         Follows(P, x, u, v)
  PROVE  Follows(R, y, u, v)
BY DEF Follows

LEMMA Wider ==
  ASSUME NEW S, NEW T, S \subseteq T, NEW P \in Seq(S)
  PROVE  P \in Seq(T)
<1>1. Len(P) \in Nat /\ P \in [1..Len(P) -> S]
  BY LenProperties
<1>2. P \in [1..Len(P) -> T]
  BY <1>1
<1> QED BY <1>1, <1>2, SeqDef

(* Two parts of the program, one after the other. *)
LEMMA Joined ==
  ASSUME NEW P, NEW R, NEW u, NEW v, NEW w, Path(P, u, v), Path(R, v, w)
  PROVE  Path(P \o R, u, w)
<1>1. PICK S, t : P \in Seq(S) /\ Marked(P, t) /\ t[1] = u /\ t[Len(P) + 1] = v
  BY DEF Path
<1>2. PICK T, r : R \in Seq(T) /\ Marked(R, r) /\ r[1] = v /\ r[Len(R) + 1] = w
  BY DEF Path
<1> DEFINE m == Len(P)
           n == Len(R)
           Q == P \o R
           z == [x \in 1..(m + n + 1) |-> IF x <= m + 1 THEN t[x] ELSE r[x - m]]
<1>3. P \in Seq(S \cup T) /\ R \in Seq(S \cup T)
  BY <1>1, <1>2, Wider
<1>4. m \in Nat /\ n \in Nat
  BY <1>1, <1>2, LenProperties
<1>5. /\ Q \in Seq(S \cup T) /\ Len(Q) = m + n
      /\ \A x \in 1..(m + n) : Q[x] = IF x <= m THEN P[x] ELSE R[x - m]
  BY <1>3, ConcatProperties
<1>6. t \in [1..(m + 1) -> Marks] /\ r \in [1..(n + 1) -> Marks] /\ t[m + 1] = r[1]
  BY <1>1, <1>2 DEF Marked
<1>7. /\ \A x \in 1..m : Follows(P, x, t[x], t[x + 1])
      /\ \A x \in 1..n : Follows(R, x, r[x], r[x + 1])
  BY <1>1, <1>2 DEF Marked
<1>8. t[1] = u /\ r[n + 1] = w
  BY <1>1, <1>2
<1> HIDE DEF m, n, Q
<1>9. z \in [1..(m + n + 1) -> Marks]
  BY <1>4, <1>6
<1>10. \A x \in 1..(m + 1) : z[x] = t[x]
  BY <1>4
<1>11. \A x \in 1..(n + 1) : z[m + x] = r[x]
  BY <1>4, <1>6
<1> HIDE DEF z
<1>12. z[1] = u /\ z[m + n + 1] = w
  <2>1. 1 \in 1..(m + 1) /\ n + 1 \in 1..(n + 1) /\ m + (n + 1) = m + n + 1
    BY <1>4
  <2>2. z[1] = t[1] /\ z[m + (n + 1)] = r[n + 1]
    BY <1>10, <1>11, <2>1
  <2> QED BY <1>8, <2>1, <2>2
<1>13. ASSUME NEW x \in 1..m PROVE Follows(Q, x, z[x], z[x + 1])
  <2>1. Q[x] = P[x] /\ z[x] = t[x] /\ z[x + 1] = t[x + 1]
    BY <1>4, <1>5, <1>10
  <2>2. \A y \in 1..(x - 1) : Q[y] = P[y]
    BY <1>4, <1>5
  <2>3. \A key : Preceded(P, x, key) => Preceded(Q, x, key)
    BY <2>2 DEF Preceded
  <2>4. Follows(P, x, z[x], z[x + 1])
    BY <1>7, <2>1
  <2>5. ASSUME NEW s, Answered(P, s) PROVE Answered(Q, s)
    <3>1. \A y \in 1..Len(P) : y \in 1..Len(Q) /\ Q[y] = P[y]
      BY <1>4, <1>5 DEF m
    <3> QED BY <2>5, <3>1 DEF Answered
  <2> QED BY <2>1, <2>3, <2>4, <2>5, SameFollows
<1>14. ASSUME NEW x \in 1..n PROVE Follows(Q, m + x, z[m + x], z[m + x + 1])
  <2>1. Q[m + x] = R[x] /\ z[m + x] = r[x] /\ z[m + (x + 1)] = r[x + 1]
    BY <1>4, <1>5, <1>11
  <2>2. \A y \in 1..(x - 1) : m + y \in 1..(m + x - 1) /\ Q[m + y] = R[y]
    BY <1>4, <1>5
  <2>3. ASSUME NEW key, Preceded(R, x, key) PROVE Preceded(Q, m + x, key)
    <3>1. PICK y \in 1..(x - 1) : R[y].do = "card" /\ R[y].key = key
      BY <2>3 DEF Preceded
    <3>2. m + y \in 1..((m + x) - 1) /\ Q[m + y] = R[y]
      BY <1>4, <2>2
    <3> QED BY <3>1, <3>2 DEF Preceded
  <2>4. m + (x + 1) = m + x + 1
    BY <1>4
  <2>5. Follows(R, x, z[m + x], z[m + x + 1])
    BY <1>7, <2>1, <2>4
  <2>6. ASSUME NEW s, Answered(R, s) PROVE Answered(Q, s)
    <3>1. \A y \in 1..Len(R) : m + y \in 1..Len(Q) /\ Q[m + y] = R[y]
      BY <1>4, <1>5 DEF n
    <3> QED BY <2>6, <3>1 DEF Answered
  <2> QED BY <2>1, <2>3, <2>5, <2>6, SameFollows
<1>15. ASSUME NEW x \in 1..(m + n) PROVE Follows(Q, x, z[x], z[x + 1])
  <2>1. CASE x <= m
    BY <1>4, <1>13, <2>1
  <2>2. CASE x > m
    <3>1. x - m \in 1..n /\ m + (x - m) = x
      BY <1>4, <2>2
    <3> QED BY <1>14, <3>1
  <2> QED BY <1>4, <2>1, <2>2
<1>16. Marked(Q, z)
  BY <1>5, <1>9, <1>15 DEF Marked
<1> QED BY <1>5, <1>12, <1>16 DEF Path, Q

(* The recursive function behind FlattenSeq is defined at every place. *)
FlatUpTo(seqs, k, f) ==
  f = [i \in 1..k |-> IF i = 1 THEN seqs[i] ELSE f[i - 1] \o seqs[i]]

LEMMA FlattenDefined ==
  ASSUME NEW n \in Nat, NEW seqs
  PROVE  \E f : FlatUpTo(seqs, n, f)
<1> DEFINE K == {k \in 1..n : \E f : FlatUpTo(seqs, k, f)}
<1>1. ASSUME n # 0 PROVE 1 \in K
  <2>1. FlatUpTo(seqs, 1, [i \in 1..1 |-> seqs[i]])
    BY DEF FlatUpTo
  <2> QED BY <1>1, <2>1
<1>2. ASSUME NEW k \in 1..n, k \in K, k # n PROVE k + 1 \in K
  <2>1. PICK f : FlatUpTo(seqs, k, f)
    BY <1>2
  <2> DEFINE g == [i \in 1..(k + 1) |-> IF i = k + 1 THEN f[k] \o seqs[i] ELSE f[i]]
  <2>2. \A i \in 1..k : g[i] = f[i]
    OBVIOUS
  <2>3. \A i \in 1..(k + 1) : g[i] = IF i = 1 THEN seqs[i] ELSE g[i - 1] \o seqs[i]
    <3> TAKE i \in 1..(k + 1)
    <3>1. CASE i = k + 1
      <4>1. i # 1 /\ i - 1 = k /\ k \in 1..k
        BY <3>1
      <4> QED BY <2>2, <3>1, <4>1
    <3>2. CASE i # k + 1
      <4>1. i \in 1..k /\ (i # 1 => i - 1 \in 1..k)
        BY <3>2
      <4>2. f[i] = IF i = 1 THEN seqs[i] ELSE f[i - 1] \o seqs[i]
        BY <2>1, <4>1 DEF FlatUpTo
      <4> QED BY <2>2, <4>1, <4>2
    <3> QED BY <3>1, <3>2
  <2>4. g = [i \in 1..(k + 1) |-> g[i]]
    OBVIOUS
  <2> HIDE DEF g
  <2>5. FlatUpTo(seqs, k + 1, g)
    BY <2>3, <2>4 DEF FlatUpTo
  <2>6. k + 1 \in 1..n
    BY <1>2
  <2> QED BY <2>5, <2>6
<1> HIDE DEF K
<1>3. 1..n \subseteq K
  BY <1>1, <1>2, Climb
<1>4. CASE n = 0
  <2>1. FlatUpTo(seqs, 0, [i \in 1..0 |-> 0])
    BY DEF FlatUpTo
  <2> QED BY <1>4, <2>1
<1>5. CASE n # 0
  <2>1. n \in K
    BY <1>3, <1>5
  <2> QED BY <2>1 DEF K
<1> QED BY <1>4, <1>5

(* A part made of pieces, each of which can be taken from wherever the one before it ends: A
   tells the marks there may be after a number of pieces. *)
LEMMA Flattened ==
  ASSUME NEW n \in Nat, NEW seqs, Len(seqs) = n, n = 0 => seqs = <<>>, NEW A,
         \A k \in 1..n : \A u \in Marks :
           <<k - 1, u>> \in A => \E v \in Marks : <<k, v>> \in A /\ Path(seqs[k], u, v),
         NEW u \in Marks, <<0, u>> \in A
  PROVE  \E v \in Marks : <<n, v>> \in A /\ Path(FlattenSeq(seqs), u, v)
<1>1. CASE n = 0
  <2>1. FlattenSeq(seqs) = <<>>
    BY <1>1 DEF FlattenSeq
  <2> DEFINE t == [x \in 1..1 |-> u]
  <2>2. <<>> \in Seq({}) /\ Len(<<>>) = 0
    BY EmptySeq
  <2>3. Marked(<<>>, t) /\ t[1] = u
    BY <2>2 DEF Marked
  <2> QED BY <1>1, <2>1, <2>2, <2>3 DEF Path
<1>2. CASE n # 0
  <2> DEFINE g == CHOOSE f : FlatUpTo(seqs, Len(seqs), f)
             Reach(k) == \E v \in Marks : <<k, v>> \in A /\ Path(g[k], u, v)
             K == {k \in 1..n : Reach(k)}
  <2>1. FlattenSeq(seqs) = g[n]
    BY <1>2 DEF FlattenSeq, FlatUpTo
  <2>2. \E f : FlatUpTo(seqs, Len(seqs), f)
    BY FlattenDefined
  <2>3. FlatUpTo(seqs, n, g)
    BY <2>2
  <2> HIDE DEF g
  <2>4. \A i \in 1..n : g[i] = IF i = 1 THEN seqs[i] ELSE g[i - 1] \o seqs[i]
    BY <2>3 DEF FlatUpTo
  <2>5. 1 \in K
    <3>1. PICK v \in Marks : <<1, v>> \in A /\ Path(seqs[1], u, v)
      BY <1>2
    <3> QED BY <1>2, <2>4, <3>1
  <2>6. ASSUME NEW k \in 1..n, k \in K, k # n PROVE k + 1 \in K
    <3>1. PICK v \in Marks : <<k, v>> \in A /\ Path(g[k], u, v)
      BY <2>6
    <3>2. k + 1 \in 1..n /\ k + 1 # 1 /\ (k + 1) - 1 = k
      BY <2>6
    <3>3. PICK w \in Marks : <<k + 1, w>> \in A /\ Path(seqs[k + 1], v, w)
      BY <3>1, <3>2
    <3>4. Path(g[k] \o seqs[k + 1], u, w)
      BY <3>1, <3>3, Joined
    <3>5. g[k + 1] = g[k] \o seqs[k + 1]
      BY <2>4, <3>2
    <3> QED BY <3>2, <3>3, <3>4, <3>5
  <2> HIDE DEF K
  <2>7. 1..n \subseteq K
    BY <2>5, <2>6, Climb
  <2>8. n \in K
    BY <1>2, <2>7
  <2> QED BY <2>1, <2>8 DEF K
<1> QED BY <1>1, <1>2

-----------------------------------------------------------------------------
(* The parts of the program, one by one. *)
LEMMA Files ==
  ASSUME NEW c \in DOMAIN Courses
  PROVE  /\ Len(Courses) \in Nat /\ DOMAIN Courses = 1..Len(Courses)
         /\ Len(Questions(c)) \in Nat /\ DOMAIN Questions(c) = 1..Len(Questions(c))
         /\ \A kind \in DOMAIN Decks(c) :
              /\ Len(Decks(c)[kind]) \in Nat /\ DOMAIN Decks(c)[kind] = 1..Len(Decks(c)[kind])
              /\ \A k \in DOMAIN Decks(c)[kind] :
                   /\ Decks(c)[kind][k].origin \in 0..Len(Questions(c))
                   /\ Decks(c)[kind][k].cites \in Seq(1..Len(Questions(c)))
                   /\ Decks(c)[kind][k].links \in Nat
         /\ Courses[c].pages \in Nat /\ "ESSENTIAL" \in DOMAIN Decks(c)
<1>1. Courses \in Seq(Range(Courses))
  BY CatalogueAssumption DEF IsList
<1>2. Questions(c) \in Seq(Range(Questions(c)))
  BY CatalogueAssumption DEF IsList, Questions
<1>3. /\ \A kind \in DOMAIN Decks(c) :
           /\ Decks(c)[kind] \in Seq(Range(Decks(c)[kind]))
           /\ \A k \in DOMAIN Decks(c)[kind] :
                /\ Decks(c)[kind][k].origin \in 0..Len(Questions(c))
                /\ Decks(c)[kind][k].cites \in Seq(1..Len(Questions(c)))
                /\ Decks(c)[kind][k].links \in Nat
      /\ Courses[c].pages \in Nat /\ "ESSENTIAL" \in DOMAIN Decks(c)
  BY CatalogueAssumption DEF IsList, Questions, Decks
<1>4. Len(Courses) \in Nat /\ DOMAIN Courses = 1..Len(Courses)
  BY <1>1, LenProperties
<1>5. Len(Questions(c)) \in Nat /\ DOMAIN Questions(c) = 1..Len(Questions(c))
  BY <1>2, LenProperties
<1>6. \A kind \in DOMAIN Decks(c) :
        Len(Decks(c)[kind]) \in Nat /\ DOMAIN Decks(c)[kind] = 1..Len(Decks(c)[kind])
  BY <1>3, LenProperties
<1> QED BY <1>3, <1>4, <1>5, <1>6

(* A part that leaves the mark where it is. *)
LEMMA Still ==
  ASSUME NEW S, NEW P \in Seq(S), NEW u \in Marks, \A x \in 1..Len(P) : Follows(P, x, u, u)
  PROVE  Path(P, u, u)
<1> DEFINE t == [x \in 1..(Len(P) + 1) |-> u]
<1>1. Len(P) \in Nat
  BY LenProperties
<1>2. t[1] = u /\ t[Len(P) + 1] = u /\ \A x \in 1..Len(P) : t[x] = u /\ t[x + 1] = u
  BY <1>1
<1>3. t \in [1..(Len(P) + 1) -> Marks]
  OBVIOUS
<1> HIDE DEF t
<1>4. Marked(P, t)
  BY <1>2, <1>3 DEF Marked
<1> QED BY <1>2, <1>4 DEF Path

LEMMA UpsertPath ==
  ASSUME NEW key, NEW u \in Marks
  PROVE  Path(Upsert(key), u, u)
<1> DEFINE s == [do |-> "upsert", key |-> key]
           P == <<s>>
<1>1. P \in Seq({s}) /\ Len(P) = 1 /\ P[1] = s /\ s.do = "upsert"
  OBVIOUS
<1> HIDE DEF s
<1>2. \A x \in 1..Len(P) : P[x].do = "upsert"
  BY <1>1
<1> HIDE DEF P
<1>3. \A x \in 1..Len(P) : Follows(P, x, u, u)
  BY <1>2 DEF Follows
<1>4. Path(P, u, u)
  BY <1>1, <1>3, Still
<1> QED BY <1>4 DEF P, s, Upsert

(* Rows that have no more to them, a list of them. *)
LEMMA UpsertsPath ==
  ASSUME NEW n \in Nat, NEW seqs, Len(seqs) = n, n = 0 => seqs = <<>>,
         \A k \in 1..n : \E key : seqs[k] = Upsert(key), NEW u \in Marks
  PROVE  Path(FlattenSeq(seqs), u, u)
<1> DEFINE A == (0..n) \X {u}
<1>1. ASSUME NEW k \in 1..n, NEW v \in Marks, <<k - 1, v>> \in A
      PROVE  \E w \in Marks : <<k, w>> \in A /\ Path(seqs[k], v, w)
  <2>1. v = u /\ <<k, u>> \in A
    BY <1>1
  <2>2. Path(seqs[k], u, u)
    BY UpsertPath
  <2> QED BY <2>1, <2>2
<1>2. <<0, u>> \in A
  OBVIOUS
<1>3. \A v : <<n, v>> \in A => v = u
  OBVIOUS
<1> HIDE DEF A
<1>4. \E v \in Marks : <<n, v>> \in A /\ Path(FlattenSeq(seqs), u, v)
  BY <1>1, <1>2, Flattened
<1> QED BY <1>3, <1>4

LEMMA ListLen ==
  ASSUME NEW n \in Nat, NEW f, f = [k \in 1..n |-> f[k]]
  PROVE  Len(f) = n /\ f \in Seq(Range(f)) /\ (n = 0 => f = <<>>)
<1>1. f \in [1..n -> Range(f)]
  BY DEF Range
<1>2. f \in Seq(Range(f))
  BY <1>1, SeqDef
<1>3. Len(f) = n
  BY <1>1, <1>2, LenProperties
<1>4. n = 0 => f = <<>>
  BY <1>2, <1>3, EmptySeq
<1> QED BY <1>2, <1>3, <1>4

(* A question with its options moves the mark to itself. *)
QuestionPart(c, i) ==
  <<[do |-> "question", course |-> c, i |-> i]>>
    \o [o \in 1..Options |-> [do |-> "option", course |-> c, i |-> i, ord |-> o]]

LEMMA QuestionPath ==
  ASSUME NEW c \in DOMAIN Courses, NEW i \in DOMAIN Questions(c), NEW u \in Marks,
         i = 1 \/ u = <<c, i - 1>>
  PROVE  <<c, i>> \in Marks /\ Path(QuestionPart(c, i), u, <<c, i>>)
<1> DEFINE s == [do |-> "question", course |-> c, i |-> i]
           P == <<s>>
           R == [o \in 1..Options |-> [do |-> "option", course |-> c, i |-> i, ord |-> o]]
           Q == P \o R
           v == <<c, i>>
           t == [x \in 1..(Options + 2) |-> IF x = 1 THEN u ELSE v]
<1>1. v \in Marks
  BY Files DEF Marks
<1>2. P \in Seq({s}) /\ Len(P) = 1 /\ P[1] = s
  OBVIOUS
<1>3. IsQuestion(s) /\ s.course = c /\ s.i = i
  BY DEF IsQuestion
<1>4. Options \in Nat
  BY CatalogueAssumption
<1>5. R = [o \in 1..Options |-> R[o]] /\ \A o \in 1..Options : R[o] = OptionOf(s, o)
  BY DEF OptionOf
<1>6. \A o \in 1..Options : IsOption(R[o]) /\ R[o].course = c /\ R[o].i = i
  BY DEF IsOption
<1> HIDE DEF s, P, R
<1>7. Len(R) = Options /\ R \in Seq(Range(R))
  BY <1>4, <1>5, ListLen
<1> DEFINE S == {s} \cup Range(R)
<1>8. P \in Seq(S) /\ R \in Seq(S)
  BY <1>2, <1>7, Wider
<1> HIDE DEF S
<1>9. /\ Q \in Seq(S) /\ Len(Q) = 1 + Options
      /\ Q[1] = s /\ \A o \in 1..Options : Q[1 + o] = R[o]
  <2>1. /\ Q \in Seq(S) /\ Len(Q) = 1 + Options
        /\ \A x \in 1..(1 + Options) : Q[x] = IF x <= 1 THEN P[x] ELSE R[x - 1]
    <3>1. /\ Q \in Seq(S) /\ Len(Q) = Len(P) + Len(R)
          /\ \A x \in 1..(Len(P) + Len(R)) :
               Q[x] = IF x <= Len(P) THEN P[x] ELSE R[x - Len(P)]
      BY <1>8, ConcatProperties
    <3> HIDE DEF Q
    <3> QED BY <1>2, <1>7, <3>1
  <2>2. \A o \in 1..Options : 1 + o \in 1..(1 + Options) /\ ~(1 + o <= 1) /\ (1 + o) - 1 = o
    BY <1>4
  <2>3. 1 \in 1..(1 + Options)
    BY <1>4
  <2> HIDE DEF Q
  <2> QED BY <1>2, <2>1, <2>2, <2>3
<1>10. /\ t \in [1..(Options + 2) -> Marks] /\ t[1] = u /\ t[Options + 2] = v
       /\ \A x \in 2..(Options + 2) : t[x] = v
  BY <1>1, <1>4
<1> HIDE DEF Q, t
<1>11. Answered(Q, s)
  <2>1. \A o \in 1..Options : 1 + o \in 1..Len(Q) /\ Q[1 + o] = OptionOf(s, o)
    BY <1>4, <1>5, <1>9
  <2> QED BY <2>1 DEF Answered
<1>12. Follows(Q, 1, u, v)
  BY <1>3, <1>9, <1>11 DEF Follows
<1>13. ASSUME NEW x \in 1..Len(Q) PROVE Follows(Q, x, t[x], t[x + 1])
  <2>1. CASE x = 1
    <3>1. 2 \in 2..(Options + 2)
      BY <1>4
    <3> QED BY <1>10, <1>12, <2>1, <3>1
  <2>2. CASE x # 1
    <3>1. /\ x - 1 \in 1..Options /\ 1 + (x - 1) = x
          /\ x \in 2..(Options + 2) /\ x + 1 \in 2..(Options + 2)
      BY <1>4, <1>9, <2>2
    <3>2. IsOption(Q[x]) /\ Q[x].course = c /\ Q[x].i = i
      BY <1>6, <1>9, <3>1
    <3>3. t[x] = v /\ t[x + 1] = v
      BY <1>10, <3>1
    <3> QED BY <3>2, <3>3 DEF Follows
  <2> QED BY <2>1, <2>2
<1>14. Len(Q) + 1 = Options + 2
  BY <1>4, <1>9
<1>15. Path(Q, u, v)
  BY <1>9, <1>10, <1>13, <1>14 DEF Path, Marked
<1> QED BY <1>1, <1>15 DEF Q, P, s, R, QuestionPart

(* After the questions of a course the index holds them all (a course without any leaves the
   index of the one before, which nothing looks at). *)
Finished(c, u, v) == v = IF Len(Questions(c)) = 0 THEN u ELSE Full(c)

LEMMA QuestionsPath ==
  ASSUME NEW c \in DOMAIN Courses, NEW u \in Marks
  PROVE  \E v \in Marks : Finished(c, u, v) /\ Path(QuestionsOf(c), u, v)
<1> DEFINE n == Len(Questions(c))
           quizzes == {Questions(c)[i].quiz : i \in DOMAIN Questions(c)}
           m == Cardinality(quizzes)
           Q == [i \in 1..m |-> Upsert(<<"quiz", c, SetToSeq(quizzes)[i]>>)]
           R == [i \in DOMAIN Questions(c) |-> QuestionPart(c, i)]
           A == {<<0, u>>} \cup {<<k, <<c, k>>>> : k \in 1..n}
<1>1. n \in Nat /\ DOMAIN Questions(c) = 1..n
  BY Files
<1>2. m \in Nat
  <2> DEFINE f == [i \in 1..n |-> Questions(c)[i].quiz]
  <2>1. f \in Surjection(1..n, quizzes)
    BY <1>1 DEF Surjection
  <2>2. IsFiniteSet(1..n)
    BY <1>1, FS_Interval
  <2>3. IsFiniteSet(quizzes)
    BY <2>1, <2>2, FS_Surjection
  <2> QED BY <2>3, FS_CardinalityType
<1>3. Q = [i \in 1..m |-> Q[i]] /\ \A i \in 1..m : \E key : Q[i] = Upsert(key)
  OBVIOUS
<1>4. R = [i \in 1..n |-> R[i]] /\ \A i \in 1..n : R[i] = QuestionPart(c, i)
  BY <1>1
<1>5. QuestionsOf(c) = (Upsert(<<"module", c>>) \o FlattenSeq(Q)) \o FlattenSeq(R)
  BY DEF QuestionsOf, QuestionPart, Questions
<1> HIDE DEF m, Q, R, n
<1>6. Path(Upsert(<<"module", c>>), u, u)
  BY UpsertPath
<1>7. Path(FlattenSeq(Q), u, u)
  <2>1. Len(Q) = m /\ (m = 0 => Q = <<>>)
    BY <1>2, <1>3, ListLen
  <2> QED BY <1>2, <1>3, <2>1, UpsertsPath
<1>8. ASSUME NEW k \in 1..n, NEW v \in Marks, <<k - 1, v>> \in A
      PROVE  \E w \in Marks : <<k, w>> \in A /\ Path(R[k], v, w)
  <2>1. k \in DOMAIN Questions(c) /\ R[k] = QuestionPart(c, k) /\ <<k, <<c, k>>>> \in A
    BY <1>1, <1>4
  <2>2. k = 1 \/ v = <<c, k - 1>>
    BY <1>1, <1>8
  <2>3. <<c, k>> \in Marks /\ Path(R[k], v, <<c, k>>)
    BY <2>1, <2>2, QuestionPath
  <2> QED BY <2>1, <2>3
<1>9. <<0, u>> \in A
  OBVIOUS
<1>10. \A v : <<n, v>> \in A => Finished(c, u, v)
  <2> SUFFICES ASSUME NEW v, <<n, v>> \in A PROVE Finished(c, u, v)
    OBVIOUS
  <2>1. IF n = 0 THEN v = u ELSE v = <<c, n>>
    <3>1. CASE <<n, v>> = <<0, u>>
      BY <3>1
    <3>2. CASE \E k \in 1..n : <<n, v>> = <<k, <<c, k>>>>
      BY <1>1, <3>2
    <3> QED BY <3>1, <3>2
  <2> QED BY <2>1 DEF Finished, Full, n
<1> HIDE DEF A
<1>11. \E v \in Marks : <<n, v>> \in A /\ Path(FlattenSeq(R), u, v)
  <2>1. Len(R) = n /\ (n = 0 => R = <<>>)
    BY <1>1, <1>4, ListLen
  <2> QED BY <1>1, <1>8, <1>9, <2>1, Flattened
<1>12. PICK v \in Marks : Finished(c, u, v) /\ Path(FlattenSeq(R), u, v)
  BY <1>10, <1>11
<1>13. Path(Upsert(<<"module", c>>) \o FlattenSeq(Q), u, u)
  BY <1>6, <1>7, Joined
<1>14. Path(QuestionsOf(c), u, v)
  BY <1>5, <1>12, <1>13, Joined
<1> QED BY <1>12, <1>14

(* A card, what it cites and its links need the index of its own course. *)
CardPart(c, kind, k) ==
  LET file == Decks(c)[kind]
  IN (<<[do |-> "card", key |-> CardKey(c, kind, k),
         origin |-> IF kind = "EXAM" THEN file[k].origin ELSE 0]>>
       \o [n \in DOMAIN file[k].cites |->
             [do |-> "cite", key |-> CardKey(c, kind, k), i |-> file[k].cites[n], rank |-> n]])
       \o [n \in 1..file[k].links |-> [do |-> "link", key |-> CardKey(c, kind, k), ord |-> n]]

LEMMA CardPath ==
  ASSUME NEW c \in DOMAIN Courses, NEW kind \in DOMAIN Decks(c), NEW k \in DOMAIN Decks(c)[kind],
         NEW u \in Marks, Len(Questions(c)) = 0 \/ u = Full(c)
  PROVE  Path(CardPart(c, kind, k), u, u)
<1> DEFINE row == Decks(c)[kind][k]
           key == CardKey(c, kind, k)
           s == [do |-> "card", key |-> key, origin |-> IF kind = "EXAM" THEN row.origin ELSE 0]
           P == <<s>>
           Q == [n \in DOMAIN row.cites |->
                   [do |-> "cite", key |-> key, i |-> row.cites[n], rank |-> n]]
           R == [n \in 1..row.links |-> [do |-> "link", key |-> key, ord |-> n]]
           W == (P \o Q) \o R
           S == {s} \cup Range(Q) \cup Range(R)
           p == Len(row.cites)
           q == row.links
<1>1. /\ Len(Questions(c)) \in Nat /\ DOMAIN Questions(c) = 1..Len(Questions(c))
      /\ row.origin \in 0..Len(Questions(c)) /\ row.cites \in Seq(1..Len(Questions(c)))
      /\ row.links \in Nat
  BY Files
<1>2. /\ p \in Nat /\ DOMAIN row.cites = 1..p /\ q \in Nat
      /\ \A n \in 1..p : row.cites[n] \in DOMAIN Questions(c)
  BY <1>1, LenProperties, ElementOfSeq
<1>3. IsCard(s) /\ s.do = "card" /\ s.key = key
  BY DEF IsCard
<1>4. s.origin # 0 => u = Full(c)
  <2>1. s.origin = 0 \/ s.origin = row.origin
    OBVIOUS
  <2> QED BY <1>1, <2>1
<1>5. \A n \in 1..p : IsCite(Q[n]) /\ Q[n].key = key /\ u = Full(c)
  BY <1>1, <1>2 DEF IsCite
<1>6. \A n \in 1..q : IsLink(R[n]) /\ R[n].key = key
  BY <1>2 DEF IsLink
<1>7. Q = [n \in 1..p |-> Q[n]] /\ R = [n \in 1..q |-> R[n]]
  BY <1>2
<1>8. P = <<s>> /\ Len(P) = 1 /\ P[1] = s /\ P \in Seq({s}) /\ key[1] = c
  BY DEF CardKey
<1>9. CardPart(c, kind, k) = W
  BY DEF CardPart
<1> HIDE DEF P, Q, R, s, p, q, key
<1>10. Len(Q) = p /\ Q \in Seq(Range(Q)) /\ Len(R) = q /\ R \in Seq(Range(R))
  BY <1>2, <1>7, ListLen
<1> HIDE DEF S, W
<1>11. P \in Seq(S) /\ Q \in Seq(S) /\ R \in Seq(S)
  <2>1. {s} \subseteq S /\ Range(Q) \subseteq S /\ Range(R) \subseteq S
    BY DEF S
  <2> QED BY <1>8, <1>10, <2>1, Wider
<1> DEFINE V == P \o Q
<1>12. /\ V \in Seq(S) /\ Len(V) = 1 + p
       /\ \A x \in 1..(1 + p) : V[x] = IF x <= 1 THEN P[x] ELSE Q[x - 1]
  BY <1>8, <1>10, <1>11, ConcatProperties
<1>13. W = V \o R
  BY DEF W
<1> HIDE DEF V
<1>14. /\ W \in Seq(S) /\ Len(W) = 1 + p + q
       /\ \A x \in 1..(1 + p + q) : W[x] = IF x <= 1 + p THEN V[x] ELSE R[x - (1 + p)]
  <2>1. /\ V \o R \in Seq(S) /\ Len(V \o R) = Len(V) + Len(R)
        /\ \A x \in 1..(Len(V) + Len(R)) :
             (V \o R)[x] = IF x <= Len(V) THEN V[x] ELSE R[x - Len(V)]
    BY <1>11, <1>12, ConcatProperties
  <2> QED BY <1>10, <1>12, <1>13, <2>1
<1>15. /\ W[1] = s
       /\ \A x \in 2..(1 + p) : x - 1 \in 1..p /\ W[x] = Q[x - 1]
       /\ \A x \in (2 + p)..(1 + p + q) : x - (1 + p) \in 1..q /\ W[x] = R[x - (1 + p)]
  BY <1>2, <1>8, <1>12, <1>14
<1>16. \A x \in 2..Len(W) : Preceded(W, x, key)
  BY <1>3, <1>15 DEF Preceded
<1>17. ASSUME NEW x \in 1..Len(W) PROVE Follows(W, x, u, u)
  <2>1. CASE x = 1
    BY <1>3, <1>4, <1>8, <1>15, <2>1 DEF Follows
  <2>2. CASE x \in 2..(1 + p)
    <3>1. IsCite(W[x]) /\ W[x].key = key /\ u = Full(c)
      BY <1>5, <1>15, <2>2
    <3> QED BY <1>8, <1>16, <2>2, <3>1 DEF Follows
  <2>3. CASE x \in (2 + p)..(1 + p + q)
    <3>1. x - (1 + p) \in 1..q /\ W[x] = R[x - (1 + p)] /\ x \in 2..Len(W)
      BY <1>2, <1>14, <1>15, <2>3
    <3>2. IsLink(W[x]) /\ W[x].key = key
      BY <1>6, <3>1
    <3> QED BY <1>16, <3>1, <3>2 DEF Follows
  <2> QED BY <1>2, <1>14, <2>1, <2>2, <2>3
<1>18. Path(W, u, u)
  BY <1>14, <1>17, Still
<1> QED BY <1>9, <1>18

LEMMA DeckPath ==
  ASSUME NEW c \in DOMAIN Courses, NEW kind \in DOMAIN Decks(c),
         NEW u \in Marks, Len(Questions(c)) = 0 \/ u = Full(c)
  PROVE  Path(DeckOf(c, kind), u, u)
<1> DEFINE R == [k \in DOMAIN Decks(c)[kind] |-> CardPart(c, kind, k)]
           n == Len(Decks(c)[kind])
           A == (0..n) \X {u}
<1>1. n \in Nat /\ DOMAIN Decks(c)[kind] = 1..n
  BY Files
<1>2. DeckOf(c, kind) = Upsert(<<"deck", c, kind>>) \o FlattenSeq(R)
  BY DEF DeckOf, CardPart, CardKey, Decks
<1>3. R = [k \in 1..n |-> R[k]] /\ \A k \in 1..n : R[k] = CardPart(c, kind, k)
  BY <1>1
<1> HIDE DEF R, n
<1>4. Len(R) = n /\ (n = 0 => R = <<>>)
  BY <1>1, <1>3, ListLen
<1>5. ASSUME NEW k \in 1..n, NEW v \in Marks, <<k - 1, v>> \in A
      PROVE  \E w \in Marks : <<k, w>> \in A /\ Path(R[k], v, w)
  <2>1. v = u /\ <<k, u>> \in A /\ k \in DOMAIN Decks(c)[kind]
    BY <1>1, <1>5
  <2>2. Path(R[k], u, u)
    BY <1>3, <2>1, CardPath
  <2> QED BY <2>1, <2>2
<1>6. <<0, u>> \in A /\ \A v : <<n, v>> \in A => v = u
  BY <1>1
<1> HIDE DEF A
<1>7. \E v \in Marks : <<n, v>> \in A /\ Path(FlattenSeq(R), u, v)
  BY <1>1, <1>4, <1>5, <1>6, Flattened
<1>8. Path(FlattenSeq(R), u, u)
  BY <1>6, <1>7
<1>9. Path(Upsert(<<"deck", c, kind>>), u, u)
  BY UpsertPath
<1> QED BY <1>2, <1>8, <1>9, Joined

LEMMA PagesPath ==
  ASSUME NEW c \in DOMAIN Courses, NEW u \in Marks
  PROVE  Path(PagesOf(c), u, u)
<1> DEFINE n == Courses[c].pages
           R == [p \in 1..n |-> Upsert(<<"page", c, p>>)]
<1>1. n \in Nat
  BY Files
<1>2. R = [p \in 1..n |-> R[p]] /\ \A p \in 1..n : \E key : R[p] = Upsert(key)
  OBVIOUS
<1>3. PagesOf(c) = FlattenSeq(R)
  BY DEF PagesOf
<1> HIDE DEF R, n
<1>4. Len(R) = n /\ (n = 0 => R = <<>>)
  BY <1>1, <1>2, ListLen
<1> QED BY <1>1, <1>2, <1>3, <1>4, UpsertsPath

CoursePart(c) ==
  Upsert(<<"course", c>>) \o QuestionsOf(c) \o DeckOf(c, "ESSENTIAL")
    \o (IF "EXAM" \in DOMAIN Decks(c) THEN DeckOf(c, "EXAM") ELSE <<>>)
    \o PagesOf(c)

LEMMA CoursePath ==
  ASSUME NEW c \in DOMAIN Courses, NEW u \in Marks
  PROVE  \E v \in Marks : Path(CoursePart(c), u, v)
<1> DEFINE exam == IF "EXAM" \in DOMAIN Decks(c) THEN DeckOf(c, "EXAM") ELSE <<>>
<1>1. PICK v \in Marks : Finished(c, u, v) /\ Path(QuestionsOf(c), u, v)
  BY QuestionsPath
<1>2. Len(Questions(c)) = 0 \/ v = Full(c)
  BY <1>1 DEF Finished
<1>3. Path(Upsert(<<"course", c>>) \o QuestionsOf(c), u, v)
  BY <1>1, UpsertPath, Joined
<1>4. Path(DeckOf(c, "ESSENTIAL"), v, v)
  BY <1>2, Files, DeckPath
<1>5. Path(exam, v, v)
  <2>1. CASE "EXAM" \in DOMAIN Decks(c)
    BY <1>2, <2>1, DeckPath
  <2>2. CASE "EXAM" \notin DOMAIN Decks(c)
    <3>1. <<>> \in Seq({}) /\ 1..Len(<<>>) = {}
      BY EmptySeq
    <3>2. Path(<<>>, v, v)
      BY <3>1, Still
    <3> QED BY <2>2, <3>2
  <2> QED BY <2>1, <2>2
<1>6. Path(PagesOf(c), v, v)
  BY PagesPath
<1> HIDE DEF exam
<1>7. Path(Upsert(<<"course", c>>) \o QuestionsOf(c) \o DeckOf(c, "ESSENTIAL"), u, v)
  BY <1>3, <1>4, Joined
<1>8. Path(Upsert(<<"course", c>>) \o QuestionsOf(c) \o DeckOf(c, "ESSENTIAL") \o exam, u, v)
  BY <1>5, <1>7, Joined
<1>9. Path(Upsert(<<"course", c>>) \o QuestionsOf(c) \o DeckOf(c, "ESSENTIAL") \o exam
             \o PagesOf(c), u, v)
  BY <1>6, <1>8, Joined
<1> QED BY <1>9 DEF exam, CoursePart

(* The whole program begins with an empty index, and each of its statements finds what it
   looks up. *)
LEMMA ProgramPath == Len(Program) # 0 /\ \E v \in Marks : Path(Program, <<0, 0>>, v)
<1> DEFINE R == [c \in DOMAIN Courses |-> CoursePart(c)]
           n == Len(Courses)
           A == (0..n) \X Marks
           u == <<0, 0>>
<1>1. n \in Nat /\ DOMAIN Courses = 1..n
  <2>1. Courses \in Seq(Range(Courses))
    BY CatalogueAssumption DEF IsList
  <2> QED BY <2>1, LenProperties
<1>2. R = [c \in 1..n |-> R[c]] /\ \A c \in 1..n : R[c] = CoursePart(c)
  BY <1>1
<1>3. Program = Upsert(<<"tenant">>) \o FlattenSeq(R)
  BY DEF Program, CoursePart, Decks
<1> HIDE DEF R, n
<1>4. Len(R) = n /\ (n = 0 => R = <<>>)
  BY <1>1, <1>2, ListLen
<1>5. u \in Marks
  BY DEF Marks
<1> HIDE DEF u
<1>6. ASSUME NEW k \in 1..n, NEW v \in Marks, <<k - 1, v>> \in A
      PROVE  \E w \in Marks : <<k, w>> \in A /\ Path(R[k], v, w)
  <2>1. PICK w \in Marks : Path(R[k], v, w)
    BY <1>1, <1>2, CoursePath
  <2>2. <<k, w>> \in A
    BY <1>1
  <2> QED BY <2>1, <2>2
<1>7. <<0, u>> \in A
  BY <1>1, <1>5
<1> HIDE DEF A
<1>8. PICK v \in Marks : Path(FlattenSeq(R), u, v)
  BY <1>1, <1>4, <1>5, <1>6, <1>7, Flattened
<1>9. Path(Upsert(<<"tenant">>), u, u)
  BY <1>5, UpsertPath
<1>10. Path(Program, u, v)
  BY <1>3, <1>8, <1>9, Joined
<1>11. Len(Program) # 0
  <2> DEFINE s == [do |-> "upsert", key |-> <<"tenant">>]
             P == Upsert(<<"tenant">>)
             F == FlattenSeq(R)
  <2>1. PICK S : F \in Seq(S)
    BY <1>8 DEF Path
  <2>2. P \in Seq({s}) /\ Len(P) = 1
    BY DEF Upsert
  <2> HIDE DEF s, P, F
  <2>3. P \in Seq(S \cup {s}) /\ F \in Seq(S \cup {s})
    BY <2>1, <2>2, Wider
  <2>4. Len(P \o F) = Len(P) + Len(F) /\ Len(F) \in Nat
    BY <2>3, ConcatProperties, LenProperties
  <2>5. Len(P \o F) # 0
    BY <2>2, <2>4
  <2> QED BY <1>3, <2>5 DEF P, F
<1> QED BY <1>10, <1>11 DEF u

LEMMA Fields ==
  ASSUME NEW s
  PROVE  /\ IsQuestion(s) => /\ s.do = "question" /\ s.course \in DOMAIN Courses
                             /\ s.i \in DOMAIN Questions(s.course)
         /\ IsOption(s) => /\ s.do = "option" /\ s.course \in DOMAIN Courses
                           /\ s.i \in DOMAIN Questions(s.course) /\ s.ord \in 1..Options
         /\ IsCard(s) => /\ s.do = "card" /\ s.key[1] \in DOMAIN Courses
                         /\ s.origin \in 0..Len(Questions(s.key[1]))
         /\ IsCite(s) => /\ s.do = "cite" /\ s.key[1] \in DOMAIN Courses
                         /\ s.i \in DOMAIN Questions(s.key[1]) /\ s.rank \in Nat
         /\ IsLink(s) => s.do = "link"
<1>1. IsQuestion(s) => /\ s.do = "question" /\ s.course \in DOMAIN Courses
                       /\ s.i \in DOMAIN Questions(s.course)
  BY DEF IsQuestion
<1>2. IsOption(s) => /\ s.do = "option" /\ s.course \in DOMAIN Courses
                     /\ s.i \in DOMAIN Questions(s.course) /\ s.ord \in 1..Options
  BY DEF IsOption
<1>3. ASSUME IsCard(s)
      PROVE  /\ s.do = "card" /\ s.key[1] \in DOMAIN Courses
             /\ s.origin \in 0..Len(Questions(s.key[1]))
  <2>1. PICK c \in DOMAIN Courses : \E kind \in DOMAIN Decks(c) : \E k \in DOMAIN Decks(c)[kind] :
          s = [do |-> "card", key |-> CardKey(c, kind, k),
               origin |-> IF kind = "EXAM" THEN Decks(c)[kind][k].origin ELSE 0]
    BY <1>3 DEF IsCard
  <2>2. PICK kind \in DOMAIN Decks(c) : \E k \in DOMAIN Decks(c)[kind] :
          s = [do |-> "card", key |-> CardKey(c, kind, k),
               origin |-> IF kind = "EXAM" THEN Decks(c)[kind][k].origin ELSE 0]
    BY <2>1
  <2>3. PICK k \in DOMAIN Decks(c)[kind] :
          s = [do |-> "card", key |-> CardKey(c, kind, k),
               origin |-> IF kind = "EXAM" THEN Decks(c)[kind][k].origin ELSE 0]
    BY <2>2
  <2>4. /\ Decks(c)[kind][k].origin \in 0..Len(Questions(c)) /\ Len(Questions(c)) \in Nat
    BY Files
  <2>5. s.do = "card" /\ s.key[1] = c
    BY <2>3 DEF CardKey
  <2>6. s.origin = IF kind = "EXAM" THEN Decks(c)[kind][k].origin ELSE 0
    BY <2>3
  <2> QED BY <2>4, <2>5, <2>6
<1>4. IsCite(s) => /\ s.do = "cite" /\ s.key[1] \in DOMAIN Courses
                   /\ s.i \in DOMAIN Questions(s.key[1]) /\ s.rank \in Nat
  BY DEF IsCite, CardKey
<1>5. IsLink(s) => s.do = "link"
  BY DEF IsLink
<1> QED BY <1>1, <1>2, <1>3, <1>4, <1>5

(* The mark of every place of the program. *)
Place == CHOOSE t : Marked(Program, t) /\ t[1] = <<0, 0>>

LEMMA Places ==
  /\ Len(Program) \in Nat \ {0} /\ DOMAIN Program = 1..Len(Program)
  /\ Place \in [1..(Len(Program) + 1) -> Marks] /\ Place[1] = <<0, 0>>
  /\ \A x \in 1..Len(Program) : /\ Program[x] \in Range(Program)
                                /\ Follows(Program, x, Place[x], Place[x + 1])
<1>1. PICK S, t : Program \in Seq(S) /\ Marked(Program, t) /\ t[1] = <<0, 0>>
  BY ProgramPath DEF Path
<1>2. Len(Program) \in Nat \ {0} /\ DOMAIN Program = 1..Len(Program)
  BY <1>1, ProgramPath, LenProperties
<1>3. Marked(Program, Place) /\ Place[1] = <<0, 0>>
  BY <1>1 DEF Place
<1>4. \A x \in 1..Len(Program) : Program[x] \in Range(Program)
  BY <1>2 DEF Range
<1> HIDE DEF Place
<1> QED BY <1>2, <1>3, <1>4 DEF Marked

LEMMA Kinds ==
  ASSUME NEW s \in Range(Program)
  PROVE  /\ s.do = "question" => IsQuestion(s)
         /\ s.do = "option" => IsOption(s)
         /\ s.do = "card" => IsCard(s)
         /\ s.do = "cite" => IsCite(s)
         /\ s.do = "link" => IsLink(s)
<1>1. PICK x \in 1..Len(Program) : s = Program[x]
  BY Places DEF Range
<1>2. Follows(Program, x, Place[x], Place[x + 1])
  BY Places
<1> QED BY <1>1, <1>2, Fields DEF Follows

(* The place of a question in its quiz tells the questions of a quiz apart. *)
LEMMA OrdTells ==
  ASSUME NEW c \in DOMAIN Courses, NEW i \in DOMAIN Questions(c), NEW j \in DOMAIN Questions(c),
         Questions(c)[i].quiz = Questions(c)[j].quiz, Ord(c, i) = Ord(c, j)
  PROVE  i = j
<1> DEFINE Upto(n) == {x \in 1..n : Questions(c)[x].quiz = Questions(c)[n].quiz}
<1>1. i \in Nat \ {0} /\ j \in Nat \ {0}
  BY Files
<1>2. ASSUME NEW a \in Nat \ {0}, NEW b \in Nat \ {0}, a < b,
             Questions(c)[a].quiz = Questions(c)[b].quiz
      PROVE  Cardinality(Upto(a)) # Cardinality(Upto(b))
  <2>1. IsFiniteSet(1..b)
    BY FS_Interval
  <2>2. IsFiniteSet(Upto(b))
    BY <2>1, FS_Subset
  <2>3. Upto(a) \in SUBSET Upto(b) /\ b \in Upto(b) /\ b \notin Upto(a)
    BY <1>2
  <2> QED BY <2>2, <2>3, FS_Subset
<1>3. Ord(c, i) = Cardinality(Upto(i)) /\ Ord(c, j) = Cardinality(Upto(j))
  BY DEF Ord, Questions
<1>4. Cardinality(Upto(i)) = Cardinality(Upto(j))
  BY <1>3
<1> HIDE DEF Upto
<1>5. ~(i < j)
  BY <1>1, <1>2, <1>4
<1>6. ~(j < i)
  BY <1>1, <1>2, <1>4
<1> QED BY <1>1, <1>5, <1>6

-----------------------------------------------------------------------------
(* The rows are those of the files, from statements of the program. *)
Row(c, i) == [course |-> c, quiz |-> Questions(c)[i].quiz, ord |-> Ord(c, i), text |-> <<c, i>>]

QuestionRows == {Row(s.course, s.i) : s \in QuestionsToBe}
LinkRows     == {<<s.key, s.ord>> : s \in LinksToBe}

RowInv ==
  /\ keyed \subseteq {s.key : s \in Upserts}
  /\ questions \in Seq(QuestionRows)
  /\ DOMAIN cards \subseteq {s.key : s \in CardsToBe}
  /\ links \in Seq(LinkRows)
  /\ RowsMatchFiles

(* What a statement is for. *)
Present(s) ==
  /\ s.do = "upsert" => s.key \in keyed
  /\ s.do = "question" => \E q \in DOMAIN questions : Text(q) = <<s.course, s.i>>
  /\ s.do = "option" => \E o \in options : Text(o[1]) = <<s.course, s.i>> /\ o[2] = s.ord
  /\ s.do = "card" => s.key \in DOMAIN cards
  /\ s.do = "cite" => \E ref \in refs : ref[1] = s.key /\ Text(ref[2]) = <<s.key[1], s.i>>
  /\ s.do = "link" => \E l \in DOMAIN links : links[l] = <<s.key, s.ord>>

(* The index of a boot holds the questions of the file up to the mark, and what the statements
   before its place are for is there, although each looks only for what it inserts. *)
BootInv(b) ==
  LET pc == boot[b].pc
      index == boot[b].index
  IN /\ pc \in 1..(Len(Program) + 1) /\ (boot[b].at = "off" => pc = 1)
     /\ Len(index) = Place[pc][2]
     /\ \A j \in 1..Len(index) :
          index[j] \in DOMAIN questions /\ Text(index[j]) = <<Place[pc][1], j>>
     /\ \A x \in 1..(pc - 1) : Present(Program[x])

IInv == RowInv /\ \A b \in Boots : BootInv(b)

(* What the statement at hand finds in the index. *)
LEMMA Here ==
  ASSUME IInv, NEW b \in Boots, Running(b)
  PROVE  LET s == Statement(b)
             index == boot[b].index
         IN /\ boot[b].pc \in 1..Len(Program) /\ s \in Range(Program)
            /\ Follows(Program, boot[b].pc, Place[boot[b].pc], Place[boot[b].pc + 1])
            /\ s.do = "question" => /\ IsQuestion(s)
                                    /\ Place[boot[b].pc + 1] = <<s.course, s.i>>
                                    /\ s.i # 1 => Place[boot[b].pc] = <<s.course, s.i - 1>>
            /\ s.do # "question" => Place[boot[b].pc + 1] = Place[boot[b].pc]
            /\ s.do = "option" => /\ IsOption(s) /\ index[s.i] \in DOMAIN questions
                                  /\ Text(index[s.i]) = <<s.course, s.i>>
            /\ s.do = "card" => /\ IsCard(s)
                                /\ s.origin # 0 =>
                                     /\ index[s.origin] \in DOMAIN questions
                                     /\ Text(index[s.origin]) = <<s.key[1], s.origin>>
            /\ s.do = "cite" => /\ IsCite(s) /\ s.key \in DOMAIN cards
                                /\ index[s.i] \in DOMAIN questions
                                /\ Text(index[s.i]) = <<s.key[1], s.i>>
            /\ s.do = "link" => IsLink(s) /\ s.key \in DOMAIN cards
<1> DEFINE pc == boot[b].pc
           s == Statement(b)
           index == boot[b].index
           u == Place[pc]
<1>1. BootInv(b)
  BY DEF IInv
<1>2. pc \in 1..Len(Program) /\ s = Program[pc] /\ pc \in Nat
  BY <1>1, Places DEF BootInv, Running, Statement
<1>3. s \in Range(Program) /\ Follows(Program, pc, u, Place[pc + 1])
  BY <1>2, Places
<1>4. /\ Len(index) = u[2]
      /\ \A j \in 1..Len(index) : index[j] \in DOMAIN questions /\ Text(index[j]) = <<u[1], j>>
      /\ \A x \in 1..(pc - 1) : Present(Program[x])
  BY <1>1 DEF BootInv
<1> HIDE DEF pc, s, index, u
<1>5. /\ s.do = "question" => IsQuestion(s) /\ Place[pc + 1] = <<s.course, s.i>>
                              /\ (s.i # 1 => u = <<s.course, s.i - 1>>)
      /\ s.do # "question" => Place[pc + 1] = u
      /\ s.do = "option" => IsOption(s) /\ u = <<s.course, s.i>>
      /\ s.do = "card" => IsCard(s) /\ (s.origin # 0 => u = Full(s.key[1]))
      /\ s.do = "cite" => IsCite(s) /\ u = Full(s.key[1]) /\ Preceded(Program, pc, s.key)
      /\ s.do = "link" => IsLink(s) /\ Preceded(Program, pc, s.key)
  BY <1>2, <1>3, Fields DEF Follows
<1>6. \A c \in DOMAIN Courses : /\ Len(Questions(c)) \in Nat
                                /\ DOMAIN Questions(c) = 1..Len(Questions(c))
  BY Files
<1>7. ASSUME s.do = "option"
      PROVE  index[s.i] \in DOMAIN questions /\ Text(index[s.i]) = <<s.course, s.i>>
  <2>1. u = <<s.course, s.i>> /\ s.i \in 1..s.i
    BY <1>5, <1>6, <1>7, Fields
  <2> QED BY <1>4, <2>1
<1>8. ASSUME NEW c \in DOMAIN Courses, u = Full(c), NEW i \in DOMAIN Questions(c)
      PROVE  index[i] \in DOMAIN questions /\ Text(index[i]) = <<c, i>>
  <2>1. i \in 1..Len(index) /\ u[1] = c
    BY <1>4, <1>6, <1>8 DEF Full
  <2> QED BY <1>4, <2>1
<1>9. ASSUME s.do = "card", s.origin # 0
      PROVE  index[s.origin] \in DOMAIN questions /\ Text(index[s.origin]) = <<s.key[1], s.origin>>
  <2>1. /\ s.key[1] \in DOMAIN Courses /\ u = Full(s.key[1])
        /\ s.origin \in DOMAIN Questions(s.key[1])
    BY <1>5, <1>6, <1>9, Fields
  <2> QED BY <1>8, <2>1
<1>10. ASSUME s.do = "cite"
       PROVE  index[s.i] \in DOMAIN questions /\ Text(index[s.i]) = <<s.key[1], s.i>>
  <2>1. /\ s.key[1] \in DOMAIN Courses /\ u = Full(s.key[1])
        /\ s.i \in DOMAIN Questions(s.key[1])
    BY <1>5, <1>10, Fields
  <2> QED BY <1>8, <2>1
<1>11. ASSUME Preceded(Program, pc, s.key) PROVE s.key \in DOMAIN cards
  <2>1. PICK y \in 1..(pc - 1) : Program[y].do = "card" /\ Program[y].key = s.key
    BY <1>11 DEF Preceded
  <2>2. Present(Program[y])
    BY <1>4
  <2> QED BY <2>1, <2>2 DEF Present
<1> QED BY <1>2, <1>3, <1>5, <1>7, <1>9, <1>10, <1>11 DEF pc, s, index, u

-----------------------------------------------------------------------------
(* Each table is written by one action. *)
LEMMA Writers ==
  ASSUME [Next]_vars
  PROVE  /\ keyed' = keyed \/ \E b \in Boots : UpsertKey(b)
         /\ questions' = questions \/ \E b \in Boots : InsertQuestion(b)
         /\ options' = options \/ \E b \in Boots : UpsertOption(b)
         /\ cards' = cards \/ \E b \in Boots : UpsertCard(b)
         /\ refs' = refs \/ \E b \in Boots : UpsertCite(b)
         /\ links' = links \/ \E b \in Boots : InsertLink(b)
<1>1. CASE UNCHANGED vars
  BY <1>1 DEF vars, rows
<1>2. ASSUME NEW b \in Boots, Boot(b) \/ Serve(b) \/ Crash(b) \/ FindQuestion(b) \/ FindLink(b)
      PROVE  UNCHANGED rows
  BY <1>2 DEF Boot, Serve, Crash, FindQuestion, FindLink, rows
<1>3. ASSUME NEW b \in Boots, UpsertKey(b) PROVE UNCHANGED <<questions, options, cards, refs, links>>
  BY <1>3 DEF UpsertKey
<1>4. ASSUME NEW b \in Boots, InsertQuestion(b) PROVE UNCHANGED <<keyed, options, cards, refs, links>>
  BY <1>4 DEF InsertQuestion
<1>5. ASSUME NEW b \in Boots, UpsertOption(b) PROVE UNCHANGED <<keyed, questions, cards, refs, links>>
  BY <1>5 DEF UpsertOption
<1>6. ASSUME NEW b \in Boots, UpsertCard(b) PROVE UNCHANGED <<keyed, questions, options, refs, links>>
  BY <1>6 DEF UpsertCard
<1>7. ASSUME NEW b \in Boots, UpsertCite(b) PROVE UNCHANGED <<keyed, questions, options, cards, links>>
  BY <1>7 DEF UpsertCite
<1>8. ASSUME NEW b \in Boots, InsertLink(b) PROVE UNCHANGED <<keyed, questions, options, cards, refs>>
  BY <1>8 DEF InsertLink
<1> QED BY <1>1, <1>2, <1>3, <1>4, <1>5, <1>6, <1>7, <1>8 DEF Next, Step, rows

(* What a step inserts. *)
LEMMA Inserted ==
  ASSUME IInv, NEW b \in Boots
  PROVE  /\ InsertQuestion(b) =>
              \E s \in QuestionsToBe : /\ s = Statement(b)
                                       /\ questions' = Append(questions, Row(s.course, s.i))
         /\ InsertLink(b) =>
              \E s \in LinksToBe : s = Statement(b) /\ links' = Append(links, <<s.key, s.ord>>)
         /\ InsertQuestion(b) \/ InsertLink(b) => Running(b)
<1>1. Running(b) => Statement(b) \in Range(Program)
  BY Here
<1>2. InsertQuestion(b) \/ InsertLink(b) => Running(b)
  BY DEF InsertQuestion, InsertLink
<1>3. ASSUME InsertQuestion(b)
      PROVE  /\ Statement(b) \in QuestionsToBe
             /\ questions' = Append(questions, Row(Statement(b).course, Statement(b).i))
  BY <1>1, <1>3 DEF InsertQuestion, Row, Questions, QuestionsToBe, Statements
<1>4. ASSUME InsertLink(b)
      PROVE  /\ Statement(b) \in LinksToBe
             /\ links' = Append(links, <<Statement(b).key, Statement(b).ord>>)
  BY <1>1, <1>4 DEF InsertLink, LinksToBe, Statements
<1> QED BY <1>2, <1>3, <1>4

(* No row goes, and a question and a link stay as they were inserted. *)
Grows ==
  /\ keyed \subseteq keyed' /\ options \subseteq options' /\ refs \subseteq refs'
  /\ DOMAIN cards \subseteq DOMAIN cards'
  /\ DOMAIN questions \subseteq DOMAIN questions'
  /\ \A q \in DOMAIN questions : questions'[q] = questions[q]
  /\ DOMAIN links \subseteq DOMAIN links'
  /\ \A l \in DOMAIN links : links'[l] = links[l]

LEMMA Longer ==
  ASSUME NEW S, NEW s \in Seq(S), NEW e \in S
  PROVE  /\ Append(s, e) \in Seq(S) /\ Len(s) \in Nat
         /\ DOMAIN s = 1..Len(s) /\ DOMAIN Append(s, e) = 1..(Len(s) + 1)
         /\ \A i \in DOMAIN s : Append(s, e)[i] = s[i]
         /\ Append(s, e)[Len(s) + 1] = e
<1>1. Append(s, e) \in Seq(S) /\ Len(Append(s, e)) = Len(s) + 1
  BY AppendProperties
<1>2. Len(s) \in Nat /\ DOMAIN s = 1..Len(s)
  BY LenProperties
<1>3. DOMAIN Append(s, e) = 1..(Len(s) + 1)
  BY <1>1, LenProperties
<1> QED BY <1>1, <1>2, <1>3, AppendProperties

LEMMA GrowStep ==
  ASSUME IInv, [Next]_vars
  PROVE  Grows /\ questions' \in Seq(QuestionRows) /\ links' \in Seq(LinkRows)
<1>1. questions \in Seq(QuestionRows) /\ links \in Seq(LinkRows)
  BY DEF IInv, RowInv
<1>2. ASSUME NEW b \in Boots, InsertQuestion(b)
      PROVE  /\ questions' \in Seq(QuestionRows) /\ DOMAIN questions \subseteq DOMAIN questions'
             /\ \A q \in DOMAIN questions : questions'[q] = questions[q]
  <2>1. PICK s \in QuestionsToBe : questions' = Append(questions, Row(s.course, s.i))
    BY <1>2, Inserted
  <2>2. Row(s.course, s.i) \in QuestionRows
    BY DEF QuestionRows
  <2>3. /\ Append(questions, Row(s.course, s.i)) \in Seq(QuestionRows) /\ Len(questions) \in Nat
        /\ DOMAIN questions = 1..Len(questions)
        /\ DOMAIN Append(questions, Row(s.course, s.i)) = 1..(Len(questions) + 1)
        /\ \A q \in DOMAIN questions : Append(questions, Row(s.course, s.i))[q] = questions[q]
    BY <1>1, <2>2, Longer
  <2> QED BY <2>1, <2>3
<1>3. ASSUME NEW b \in Boots, InsertLink(b)
      PROVE  /\ links' \in Seq(LinkRows) /\ DOMAIN links \subseteq DOMAIN links'
             /\ \A l \in DOMAIN links : links'[l] = links[l]
  <2>1. PICK s \in LinksToBe : links' = Append(links, <<s.key, s.ord>>)
    BY <1>3, Inserted
  <2>2. <<s.key, s.ord>> \in LinkRows
    BY DEF LinkRows
  <2>3. /\ Append(links, <<s.key, s.ord>>) \in Seq(LinkRows) /\ Len(links) \in Nat
        /\ DOMAIN links = 1..Len(links)
        /\ DOMAIN Append(links, <<s.key, s.ord>>) = 1..(Len(links) + 1)
        /\ \A l \in DOMAIN links : Append(links, <<s.key, s.ord>>)[l] = links[l]
    BY <1>1, <2>2, Longer
  <2> QED BY <2>1, <2>3
<1>4. /\ \A b \in Boots : UpsertKey(b) => keyed \subseteq keyed'
      /\ \A b \in Boots : UpsertOption(b) => options \subseteq options'
      /\ \A b \in Boots : UpsertCard(b) => DOMAIN cards \subseteq DOMAIN cards'
      /\ \A b \in Boots : UpsertCite(b) => refs \subseteq refs'
  BY DEF UpsertKey, UpsertOption, UpsertCard, UpsertCite
<1> QED BY <1>1, <1>2, <1>3, <1>4, Writers DEF Grows

(* The types of the seeds. *)
BootRow == [at : {"off", "run", "insert"}, pc : Nat, index : Seq(Nat)]

LEMMA QuestionFacts ==
  ASSUME IInv
  PROVE  /\ Len(questions) \in Nat /\ DOMAIN questions = 1..Len(questions)
         /\ \A q \in DOMAIN questions :
              \E s \in QuestionsToBe : IsQuestion(s) /\ questions[q] = Row(s.course, s.i)
<1>1. questions \in Seq(QuestionRows)
  BY DEF IInv, RowInv
<1>2. Len(questions) \in Nat /\ DOMAIN questions = 1..Len(questions)
  BY <1>1, LenProperties
<1>3. \A q \in DOMAIN questions : questions[q] \in QuestionRows
  BY <1>1, <1>2, ElementOfSeq
<1>4. \A s \in QuestionsToBe : IsQuestion(s)
  BY Kinds DEF QuestionsToBe, Statements
<1> QED BY <1>2, <1>3, <1>4 DEF QuestionRows

(* The question found at a place of a quiz is the one of the file. *)
LEMMA FoundIsIt ==
  ASSUME IInv, NEW c \in DOMAIN Courses, NEW i \in DOMAIN Questions(c)
  PROVE  /\ \A q \in SameQuestion(c, i) : q \in DOMAIN questions /\ Text(q) = <<c, i>>
         /\ \A q \in DOMAIN questions : Text(q) = <<c, i>> => q \in SameQuestion(c, i)
<1>1. ASSUME NEW q \in DOMAIN questions
      PROVE  \E d \in DOMAIN Courses : \E j \in DOMAIN Questions(d) : questions[q] = Row(d, j)
  BY QuestionFacts, Fields
<1>2. ASSUME NEW q \in SameQuestion(c, i) PROVE q \in DOMAIN questions /\ Text(q) = <<c, i>>
  <2>1. /\ q \in DOMAIN questions /\ questions[q].course = c
        /\ questions[q].quiz = Questions(c)[i].quiz /\ questions[q].ord = Ord(c, i)
    BY DEF SameQuestion, Questions
  <2>2. PICK d \in DOMAIN Courses : \E j \in DOMAIN Questions(d) : questions[q] = Row(d, j)
    BY <1>1, <2>1
  <2>3. PICK j \in DOMAIN Questions(d) : questions[q] = Row(d, j)
    BY <2>2
  <2>4. d = c /\ Questions(c)[i].quiz = Questions(c)[j].quiz /\ Ord(c, i) = Ord(c, j)
    BY <2>1, <2>3 DEF Row
  <2>5. i = j
    BY <2>4, OrdTells
  <2> QED BY <2>1, <2>3, <2>4, <2>5 DEF Row, Text
<1>3. ASSUME NEW q \in DOMAIN questions, Text(q) = <<c, i>> PROVE q \in SameQuestion(c, i)
  <2>1. PICK d \in DOMAIN Courses : \E j \in DOMAIN Questions(d) : questions[q] = Row(d, j)
    BY <1>1
  <2>2. PICK j \in DOMAIN Questions(d) : questions[q] = Row(d, j)
    BY <2>1
  <2>3. d = c /\ j = i
    BY <1>3, <2>2 DEF Row, Text
  <2> QED BY <2>2, <2>3 DEF Row, SameQuestion, Questions
<1> QED BY <1>2, <1>3

(* What a step does to the seed that takes it. *)
Stays(b)  ==
  boot'[b].at # "off" /\ boot'[b].pc = boot[b].pc /\ boot'[b].index = boot[b].index
Passes(b) ==
  /\ Running(b) /\ Statement(b).do # "question"
  /\ \E s \in Range(Program) : s = Statement(b) /\ Present(s)'
  /\ boot'[b].at = "run" /\ boot'[b].pc = boot[b].pc + 1 /\ boot'[b].index = boot[b].index
Indexes(b) ==
  /\ Running(b) /\ Statement(b).do = "question"
  /\ \E q \in DOMAIN questions' :
       /\ questions'[q].text = <<Statement(b).course, Statement(b).i>>
       /\ boot'[b] = [at |-> "run", pc |-> boot[b].pc + 1,
                      index |-> Append(IF Statement(b).i = 1 THEN <<>> ELSE boot[b].index, q)]

Moves(b) ==
  /\ \A p \in Boots : p # b => boot'[p] = boot[p]
  /\ \/ boot'[b] = Off
     \/ Stays(b)
     \/ Passes(b)
     \/ Indexes(b)

LEMMA OffRow == Off \in BootRow
<1>1. <<>> \in Seq(Nat)
  BY EmptySeq
<1> QED BY <1>1 DEF Off, BootRow

LEMMA BootKept ==
  ASSUME IInv, NEW b \in Boots
  PROVE  /\ boot \in [Boots -> BootRow] /\ Off \in BootRow
         /\ Advance(b) =>
              /\ boot' \in [Boots -> BootRow] /\ \A p \in Boots : p # b => boot'[p] = boot[p]
              /\ boot'[b].at = "run" /\ boot'[b].pc = boot[b].pc + 1
              /\ boot'[b].index = boot[b].index
         /\ \A at \in {"run", "insert"} :
              boot' = [boot EXCEPT ![b].at = at] =>
                /\ boot' \in [Boots -> BootRow] /\ \A p \in Boots : p # b => boot'[p] = boot[p]
                /\ boot'[b].at = at /\ Stays(b)
         /\ \A q \in Nat : \A i : Index(b, i, q) =>
              /\ boot' \in [Boots -> BootRow] /\ \A p \in Boots : p # b => boot'[p] = boot[p]
              /\ boot'[b] = [at |-> "run", pc |-> boot[b].pc + 1,
                             index |-> Append(IF i = 1 THEN <<>> ELSE boot[b].index, q)]
<1>1. boot \in [Boots -> BootRow]
  BY DEF IInv, RowInv, RowsMatchFiles, TypeOK, BootRow
<1>2. <<>> \in Seq(Nat)
  BY EmptySeq
<1>3. Off \in BootRow
  BY OffRow
<1>4. /\ boot[b] \in BootRow /\ boot[b].pc + 1 \in Nat
      /\ boot[b] = [at |-> boot[b].at, pc |-> boot[b].pc, index |-> boot[b].index]
  BY <1>1 DEF BootRow
<1>5. ASSUME Advance(b)
      PROVE  /\ boot' \in [Boots -> BootRow] /\ \A p \in Boots : p # b => boot'[p] = boot[p]
             /\ boot'[b].at = "run" /\ boot'[b].pc = boot[b].pc + 1
             /\ boot'[b].index = boot[b].index
  BY <1>1, <1>4, <1>5 DEF Advance, BootRow
<1>6. ASSUME NEW at \in {"run", "insert"}, boot' = [boot EXCEPT ![b].at = at]
      PROVE  /\ boot' \in [Boots -> BootRow] /\ \A p \in Boots : p # b => boot'[p] = boot[p]
             /\ boot'[b].at = at /\ Stays(b)
  BY <1>1, <1>4, <1>6 DEF BootRow, Stays
<1>7. ASSUME NEW q \in Nat, NEW i, Index(b, i, q)
      PROVE  /\ boot' \in [Boots -> BootRow] /\ \A p \in Boots : p # b => boot'[p] = boot[p]
             /\ boot'[b] = [at |-> "run", pc |-> boot[b].pc + 1,
                            index |-> Append(IF i = 1 THEN <<>> ELSE boot[b].index, q)]
  <2> DEFINE old == IF i = 1 THEN <<>> ELSE boot[b].index
             new == Append(old, q)
  <2>1. old \in Seq(Nat)
    BY <1>2, <1>4 DEF BootRow
  <2>2. new \in Seq(Nat)
    BY <2>1, AppendProperties
  <2>3. boot' = [boot EXCEPT ![b].at = "run", ![b].pc = @ + 1, ![b].index = new]
    BY <1>1, <1>7 DEF Index, BootRow
  <2> HIDE DEF new
  <2>4. /\ boot' \in [Boots -> BootRow] /\ \A p \in Boots : p # b => boot'[p] = boot[p]
        /\ boot'[b] = [at |-> "run", pc |-> boot[b].pc + 1, index |-> new]
    BY <1>1, <1>4, <2>2, <2>3 DEF BootRow
  <2> QED BY <2>4 DEF new
<1> QED BY <1>1, <1>3, <1>5, <1>6, <1>7

-----------------------------------------------------------------------------
(* The rows of each table, after a step. *)
LEMMA TextStays ==
  ASSUME IInv, [Next]_vars, NEW q \in DOMAIN questions
  PROVE  q \in DOMAIN questions' /\ questions'[q].text = Text(q)
<1>1. Grows
  BY GrowStep
<1> QED BY <1>1 DEF Grows, Text

LEMMA KeyRows ==
  ASSUME IInv, [Next]_vars
  PROVE  keyed' \subseteq {s.key : s \in Upserts}
<1>1. keyed \subseteq {s.key : s \in Upserts}
  BY DEF IInv, RowInv
<1>2. ASSUME NEW b \in Boots, UpsertKey(b) PROVE keyed' \subseteq {s.key : s \in Upserts}
  <2>1. Running(b) /\ Statement(b).do = "upsert" /\ keyed' = keyed \cup {Statement(b).key}
    BY <1>2 DEF UpsertKey
  <2>2. Statement(b) \in Upserts
    BY <2>1, Here DEF Upserts, Statements
  <2> QED BY <1>1, <2>1, <2>2
<1> QED BY <1>1, <1>2, Writers

LEMMA OptionRows ==
  ASSUME IInv, [Next]_vars
  PROVE  /\ options' \subseteq (DOMAIN questions') \X (1..Options) \X BOOLEAN
         /\ \A o \in options' : o[3] = (o[2] = File(questions'[o[1]].text).correct)
<1>1. /\ options \subseteq (DOMAIN questions) \X (1..Options) \X BOOLEAN
      /\ \A o \in options : o[3] = (o[2] = File(Text(o[1])).correct)
  BY DEF IInv, RowInv, RowsMatchFiles, TypeOK
<1>2. ASSUME NEW o \in options
      PROVE  /\ o \in (DOMAIN questions') \X (1..Options) \X BOOLEAN
             /\ o[3] = (o[2] = File(questions'[o[1]].text).correct)
  <2>1. o \in (DOMAIN questions) \X (1..Options) \X BOOLEAN /\ o[1] \in DOMAIN questions
    BY <1>1
  <2>2. o[1] \in DOMAIN questions' /\ questions'[o[1]].text = Text(o[1])
    BY <2>1, TextStays
  <2> QED BY <1>1, <2>1, <2>2
<1>3. ASSUME NEW b \in Boots, UpsertOption(b), NEW o \in options', o \notin options
      PROVE  /\ o \in (DOMAIN questions') \X (1..Options) \X BOOLEAN
             /\ o[3] = (o[2] = File(questions'[o[1]].text).correct)
  <2> DEFINE s == Statement(b)
             q == boot[b].index[s.i]
  <2>1. /\ Running(b) /\ s.do = "option"
        /\ o = <<q, s.ord, s.ord = Courses[s.course].questions[s.i].correct>>
    BY <1>3 DEF UpsertOption
  <2>2. IsOption(s) /\ q \in DOMAIN questions /\ Text(q) = <<s.course, s.i>>
    BY <2>1, Here
  <2>3. s.ord \in 1..Options
    BY <2>2, Fields
  <2> HIDE DEF q, s
  <2>4. q \in DOMAIN questions' /\ questions'[q].text = <<s.course, s.i>>
    BY <2>2, TextStays
  <2>5. File(questions'[q].text).correct = Courses[s.course].questions[s.i].correct
    BY <2>4 DEF File
  <2> QED BY <2>1, <2>3, <2>4, <2>5
<1> QED BY <1>2, <1>3, Writers

(* The codes of a deck are distinct, so that a card has one origin. *)
LEMMA OneOrigin ==
  ASSUME NEW s \in CardsToBe, NEW t \in CardsToBe, s.key = t.key
  PROVE  s.origin = t.origin
<1> DEFINE Origin(c, kind, k) == IF kind = "EXAM" THEN Decks(c)[kind][k].origin ELSE 0
<1>1. IsCard(s) /\ IsCard(t)
  BY Kinds DEF CardsToBe, Statements
<1>2. ASSUME NEW r, IsCard(r)
      PROVE  \E c \in DOMAIN Courses : \E kind \in DOMAIN Decks(c) : \E k \in DOMAIN Decks(c)[kind] :
               r.key = CardKey(c, kind, k) /\ r.origin = Origin(c, kind, k)
  BY <1>2 DEF IsCard
<1> HIDE DEF Origin
<1>3. PICK c \in DOMAIN Courses : \E kind \in DOMAIN Decks(c) : \E k \in DOMAIN Decks(c)[kind] :
        s.key = CardKey(c, kind, k) /\ s.origin = Origin(c, kind, k)
  BY <1>1, <1>2
<1>4. PICK d \in DOMAIN Courses : \E kind \in DOMAIN Decks(d) : \E k \in DOMAIN Decks(d)[kind] :
        t.key = CardKey(d, kind, k) /\ t.origin = Origin(d, kind, k)
  BY <1>1, <1>2
<1>5. PICK kind \in DOMAIN Decks(c) : \E k \in DOMAIN Decks(c)[kind] :
        s.key = CardKey(c, kind, k) /\ s.origin = Origin(c, kind, k)
  BY <1>3
<1>6. PICK sort \in DOMAIN Decks(d) : \E k \in DOMAIN Decks(d)[sort] :
        t.key = CardKey(d, sort, k) /\ t.origin = Origin(d, sort, k)
  BY <1>4
<1>7. PICK k \in DOMAIN Decks(c)[kind] : s.key = CardKey(c, kind, k) /\ s.origin = Origin(c, kind, k)
  BY <1>5
<1>8. PICK j \in DOMAIN Decks(d)[sort] : t.key = CardKey(d, sort, j) /\ t.origin = Origin(d, sort, j)
  BY <1>6
<1>9. c = d /\ kind = sort /\ Decks(c)[kind][k].code = Decks(c)[kind][j].code
  <2>1. CardKey(c, kind, k) = CardKey(d, sort, j)
    BY <1>7, <1>8
  <2>2. c = d /\ kind = sort /\ Decks(c)[kind][k].code = Decks(d)[sort][j].code
    BY <2>1 DEF CardKey
  <2> QED BY <2>2
<1>10. k = j
  BY <1>7, <1>8, <1>9, CatalogueAssumption DEF Decks
<1> QED BY <1>7, <1>8, <1>9, <1>10

OriginMatches(s, origin, text) ==
  IF s.origin = 0 THEN origin = 0 ELSE origin # 0 /\ text = <<s.key[1], s.origin>>

LEMMA CardRows ==
  ASSUME IInv, [Next]_vars
  PROVE  /\ DOMAIN cards' \subseteq {s.key : s \in CardsToBe}
         /\ cards' \in [DOMAIN cards' -> {0} \cup DOMAIN questions']
         /\ \A s \in CardsToBe : s.key \in DOMAIN cards' =>
              OriginMatches(s, cards'[s.key], questions'[cards'[s.key]].text)
<1>1. /\ DOMAIN cards \subseteq {s.key : s \in CardsToBe}
      /\ \A k \in DOMAIN cards : cards[k] \in {0} \cup DOMAIN questions
      /\ \A s \in CardsToBe : s.key \in DOMAIN cards =>
           OriginMatches(s, cards[s.key], Text(cards[s.key]))
  BY DEF IInv, RowInv, RowsMatchFiles, TypeOK, OriginMatches
<1>2. ASSUME NEW k \in DOMAIN cards, k \in DOMAIN cards', cards'[k] = cards[k]
      PROVE  /\ k \in {s.key : s \in CardsToBe} /\ cards'[k] \in {0} \cup DOMAIN questions'
             /\ \A s \in CardsToBe : s.key = k =>
                  OriginMatches(s, cards'[k], questions'[cards'[k]].text)
  <2>1. cards[k] = 0 \/ /\ cards[k] \in DOMAIN questions /\ cards[k] \in DOMAIN questions'
                        /\ questions'[cards[k]].text = Text(cards[k])
    BY <1>1, TextStays
  <2>2. \A s \in CardsToBe : s.key = k => OriginMatches(s, cards[k], Text(cards[k]))
    BY <1>1
  <2>3. \A s \in CardsToBe : s.key = k /\ cards[k] = 0 => s.origin = 0
    BY <2>2 DEF OriginMatches
  <2> QED BY <1>1, <1>2, <2>1, <2>2, <2>3 DEF OriginMatches
<1>3. ASSUME NEW b \in Boots, UpsertCard(b), NEW k \in DOMAIN cards'
      PROVE  \/ k \in DOMAIN cards /\ cards'[k] = cards[k]
             \/ /\ k \in {s.key : s \in CardsToBe} /\ cards'[k] \in {0} \cup DOMAIN questions'
                /\ \A s \in CardsToBe : s.key = k =>
                     OriginMatches(s, cards'[k], questions'[cards'[k]].text)
  <2> DEFINE s == Statement(b)
             q == boot[b].index[s.origin]
  <2>1. /\ Running(b) /\ s.do = "card"
        /\ cards' = [x \in DOMAIN cards \cup {s.key} |->
                       IF x # s.key THEN cards[x] ELSE IF s.origin = 0 THEN 0 ELSE q]
    BY <1>3 DEF UpsertCard
  <2>2. /\ s \in CardsToBe /\ IsCard(s)
        /\ s.origin # 0 => q \in DOMAIN questions /\ Text(q) = <<s.key[1], s.origin>>
    BY <2>1, Here DEF CardsToBe, Statements
  <2> HIDE DEF q, s
  <2>3. CASE k # s.key
    BY <1>3, <2>1, <2>3
  <2>4. CASE k = s.key
    <3>1. cards'[k] = IF s.origin = 0 THEN 0 ELSE q
      BY <1>3, <2>1, <2>4
    <3>2. s.origin # 0 => /\ q \in DOMAIN questions' /\ q # 0
                          /\ questions'[q].text = <<s.key[1], s.origin>>
      BY <2>2, TextStays, QuestionFacts
    <3>3. \A r \in CardsToBe : r.key = k => r.origin = s.origin
      BY <2>2, <2>4, OneOrigin
    <3> QED BY <2>2, <2>4, <3>1, <3>2, <3>3 DEF OriginMatches
  <2> QED BY <2>3, <2>4
<1>4. ASSUME NEW k \in DOMAIN cards'
      PROVE  /\ k \in {s.key : s \in CardsToBe} /\ cards'[k] \in {0} \cup DOMAIN questions'
             /\ \A s \in CardsToBe : s.key = k =>
                  OriginMatches(s, cards'[k], questions'[cards'[k]].text)
  BY <1>2, <1>3, Writers
<1>5. cards' = [k \in DOMAIN cards' |-> cards'[k]]
  <2>1. cards = [k \in DOMAIN cards |-> cards[k]]
    BY DEF IInv, RowInv, RowsMatchFiles, TypeOK
  <2>2. ASSUME NEW b \in Boots, UpsertCard(b) PROVE cards' = [k \in DOMAIN cards' |-> cards'[k]]
    BY <2>2 DEF UpsertCard
  <2> QED BY <2>1, <2>2, Writers
<1> QED BY <1>4, <1>5

LEMMA CiteRows ==
  ASSUME IInv, [Next]_vars
  PROVE  /\ refs' \subseteq (DOMAIN cards') \X (DOMAIN questions') \X Nat
         /\ \A ref \in refs' : \E s \in CitesToBe :
              s.key = ref[1] /\ s.rank = ref[3] /\ questions'[ref[2]].text = <<s.key[1], s.i>>
<1>1. /\ refs \subseteq (DOMAIN cards) \X (DOMAIN questions) \X Nat
      /\ \A ref \in refs : \E s \in CitesToBe :
           s.key = ref[1] /\ s.rank = ref[3] /\ Text(ref[2]) = <<s.key[1], s.i>>
  BY DEF IInv, RowInv, RowsMatchFiles, TypeOK
<1>2. DOMAIN cards \subseteq DOMAIN cards'
  BY GrowStep DEF Grows
<1>3. ASSUME NEW ref \in refs
      PROVE  /\ ref \in (DOMAIN cards') \X (DOMAIN questions') \X Nat
             /\ \E s \in CitesToBe : /\ s.key = ref[1] /\ s.rank = ref[3]
                                     /\ questions'[ref[2]].text = <<s.key[1], s.i>>
  <2>1. ref \in (DOMAIN cards) \X (DOMAIN questions) \X Nat /\ ref[2] \in DOMAIN questions
    BY <1>1
  <2>2. ref[2] \in DOMAIN questions' /\ questions'[ref[2]].text = Text(ref[2])
    BY <2>1, TextStays
  <2> QED BY <1>1, <1>2, <2>1, <2>2
<1>4. ASSUME NEW b \in Boots, UpsertCite(b), NEW ref \in refs', ref \notin refs
      PROVE  /\ ref \in (DOMAIN cards') \X (DOMAIN questions') \X Nat
             /\ \E s \in CitesToBe : /\ s.key = ref[1] /\ s.rank = ref[3]
                                     /\ questions'[ref[2]].text = <<s.key[1], s.i>>
  <2> DEFINE s == Statement(b)
             q == boot[b].index[s.i]
  <2>1. Running(b) /\ s.do = "cite" /\ ref = <<s.key, q, s.rank>>
    BY <1>4 DEF UpsertCite
  <2>2. /\ s \in CitesToBe /\ IsCite(s) /\ s.key \in DOMAIN cards
        /\ q \in DOMAIN questions /\ Text(q) = <<s.key[1], s.i>>
    BY <2>1, Here DEF CitesToBe, Statements
  <2>3. s.rank \in Nat
    BY <2>2, Fields
  <2> HIDE DEF q, s
  <2>4. q \in DOMAIN questions' /\ questions'[q].text = <<s.key[1], s.i>>
    BY <2>2, TextStays
  <2> QED BY <1>2, <2>1, <2>2, <2>3, <2>4
<1> QED BY <1>3, <1>4, Writers

LEMMA LinkKeys ==
  ASSUME IInv, [Next]_vars
  PROVE  \A l \in DOMAIN links' : links'[l][1] \in DOMAIN cards'
<1>1. /\ \A l \in DOMAIN links : links[l][1] \in DOMAIN cards
      /\ links \in Seq(LinkRows)
  BY DEF IInv, RowInv, RowsMatchFiles, TypeOK
<1>2. /\ DOMAIN cards \subseteq DOMAIN cards'
      /\ \A l \in DOMAIN links : links'[l] = links[l]
  BY GrowStep DEF Grows
<1>3. ASSUME NEW b \in Boots, InsertLink(b), NEW l \in DOMAIN links', l \notin DOMAIN links
      PROVE  links'[l][1] \in DOMAIN cards'
  <2>1. PICK s \in LinksToBe : s = Statement(b) /\ links' = Append(links, <<s.key, s.ord>>)
    BY <1>3, Inserted
  <2>2. s.do = "link" /\ Running(b)
    BY <1>3, Inserted, <2>1 DEF LinksToBe, Statements
  <2>3. s.key \in DOMAIN cards
    BY <2>1, <2>2, Here
  <2>4. <<s.key, s.ord>> \in LinkRows
    BY DEF LinkRows
  <2>5. /\ Len(links) \in Nat /\ DOMAIN links = 1..Len(links)
        /\ DOMAIN Append(links, <<s.key, s.ord>>) = 1..(Len(links) + 1)
        /\ Append(links, <<s.key, s.ord>>)[Len(links) + 1] = <<s.key, s.ord>>
    BY <1>1, <2>4, Longer
  <2>6. l = Len(links) + 1
    BY <1>3, <2>1, <2>5
  <2> QED BY <1>2, <2>1, <2>3, <2>5, <2>6
<1> QED BY <1>1, <1>2, <1>3, Writers

(* A statement that has been executed has done what it is for. *)
LEMMA KeyDone ==
  ASSUME IInv, NEW b \in Boots, UpsertKey(b)
  PROVE  Advance(b) /\ Passes(b)
<1>1. PICK s \in Range(Program) : s = Statement(b)
  BY Here DEF UpsertKey
<1>2. Running(b) /\ s.do = "upsert" /\ s.key \in keyed' /\ Advance(b)
  BY <1>1 DEF UpsertKey
<1>3. Present(s)'
  BY <1>2 DEF Present
<1> QED BY <1>1, <1>2, <1>3, BootKept DEF Passes

LEMMA OptionDone ==
  ASSUME IInv, NEW b \in Boots, UpsertOption(b)
  PROVE  Advance(b) /\ Passes(b)
<1> DEFINE q == boot[b].index[Statement(b).i]
<1>1. PICK s \in Range(Program) : s = Statement(b)
  BY Here DEF UpsertOption
<1>2. /\ Running(b) /\ s.do = "option" /\ Advance(b) /\ UNCHANGED questions
      /\ \E o \in options' : o[1] = q /\ o[2] = s.ord
  <2> DEFINE new == <<q, s.ord, s.ord = Courses[s.course].questions[s.i].correct>>
  <2>1. /\ Running(b) /\ s.do = "option" /\ Advance(b) /\ UNCHANGED questions
        /\ options' = IF \E o \in options : o[1] = q /\ o[2] = s.ord THEN options
                      ELSE options \cup {new}
    BY <1>1 DEF UpsertOption
  <2>2. new[1] = q /\ new[2] = s.ord
    OBVIOUS
  <2> HIDE DEF new, q
  <2>3. CASE \E o \in options : o[1] = q /\ o[2] = s.ord
    BY <2>1, <2>3
  <2>4. CASE ~ \E o \in options : o[1] = q /\ o[2] = s.ord
    <3>1. new \in options'
      BY <2>1, <2>4
    <3> QED BY <2>1, <2>2, <3>1
  <2> QED BY <2>3, <2>4
<1>3. Text(q) = <<s.course, s.i>>
  BY <1>1, <1>2, Here
<1> HIDE DEF q
<1>4. \E o \in options' : questions'[o[1]].text = <<s.course, s.i>> /\ o[2] = s.ord
  BY <1>2, <1>3 DEF Text
<1>5. Present(s)'
  BY <1>2, <1>4 DEF Present, Text
<1> QED BY <1>1, <1>2, <1>5, BootKept DEF Passes

LEMMA CardDone ==
  ASSUME IInv, NEW b \in Boots, UpsertCard(b)
  PROVE  Advance(b) /\ Passes(b)
<1>1. PICK s \in Range(Program) : s = Statement(b)
  BY Here DEF UpsertCard
<1>2. Running(b) /\ s.do = "card" /\ s.key \in DOMAIN cards' /\ Advance(b)
  BY <1>1 DEF UpsertCard
<1>3. Present(s)'
  BY <1>2 DEF Present
<1> QED BY <1>1, <1>2, <1>3, BootKept DEF Passes

LEMMA CiteDone ==
  ASSUME IInv, NEW b \in Boots, UpsertCite(b)
  PROVE  Advance(b) /\ Passes(b)
<1> DEFINE q == boot[b].index[Statement(b).i]
<1>1. PICK s \in Range(Program) : s = Statement(b)
  BY Here DEF UpsertCite
<1>2. /\ Running(b) /\ s.do = "cite" /\ Advance(b) /\ UNCHANGED questions
      /\ \E ref \in refs' : ref[1] = s.key /\ ref[2] = q
  <2> DEFINE new == <<s.key, q, s.rank>>
  <2>1. /\ Running(b) /\ s.do = "cite" /\ Advance(b) /\ UNCHANGED questions
        /\ refs' = IF \E ref \in refs : ref[1] = s.key /\ ref[2] = q THEN refs
                   ELSE refs \cup {new}
    BY <1>1 DEF UpsertCite
  <2>2. new[1] = s.key /\ new[2] = q
    OBVIOUS
  <2> HIDE DEF new, q
  <2>3. CASE \E ref \in refs : ref[1] = s.key /\ ref[2] = q
    BY <2>1, <2>3
  <2>4. CASE ~ \E ref \in refs : ref[1] = s.key /\ ref[2] = q
    <3>1. new \in refs'
      BY <2>1, <2>4
    <3> QED BY <2>1, <2>2, <3>1
  <2> QED BY <2>3, <2>4
<1>3. Text(q) = <<s.key[1], s.i>>
  BY <1>1, <1>2, Here
<1> HIDE DEF q
<1>4. \E ref \in refs' : ref[1] = s.key /\ questions'[ref[2]].text = <<s.key[1], s.i>>
  BY <1>2, <1>3 DEF Text
<1>5. Present(s)'
  BY <1>2, <1>4 DEF Present, Text
<1> QED BY <1>1, <1>2, <1>5, BootKept DEF Passes

LEMMA LinkDone ==
  ASSUME IInv, NEW b \in Boots,
         \/ InsertLink(b)
         \/ FindLink(b) /\ \E l \in DOMAIN links : links[l] = <<Statement(b).key, Statement(b).ord>>
  PROVE  Advance(b) /\ Passes(b)
<1>1. Running(b) /\ Statement(b).do = "link" /\ Advance(b)
  BY DEF InsertLink, FindLink
<1>2. PICK s \in Range(Program) : s = Statement(b)
  BY <1>1, Here
<1>3. ASSUME InsertLink(b) PROVE \E l \in DOMAIN links' : links'[l] = <<s.key, s.ord>>
  <2>1. links \in Seq(LinkRows) /\ links' = Append(links, <<s.key, s.ord>>) /\ s \in LinksToBe
    BY <1>1, <1>2, <1>3 DEF IInv, RowInv, InsertLink, LinksToBe, Statements
  <2>2. <<s.key, s.ord>> \in LinkRows
    BY <2>1 DEF LinkRows
  <2>3. /\ Len(links) \in Nat /\ DOMAIN Append(links, <<s.key, s.ord>>) = 1..(Len(links) + 1)
        /\ Append(links, <<s.key, s.ord>>)[Len(links) + 1] = <<s.key, s.ord>>
    BY <2>1, <2>2, Longer
  <2>4. Len(links) + 1 \in DOMAIN links' /\ links'[Len(links) + 1] = <<s.key, s.ord>>
    BY <2>1, <2>3
  <2> QED BY <2>4
<1>4. ASSUME FindLink(b), \E l \in DOMAIN links : links[l] = <<s.key, s.ord>>
      PROVE  \E l \in DOMAIN links' : links'[l] = <<s.key, s.ord>>
  BY <1>4 DEF FindLink, rows
<1>5. \E l \in DOMAIN links' : links'[l] = <<s.key, s.ord>>
  BY <1>2, <1>3, <1>4
<1>6. Present(s)'
  BY <1>1, <1>2, <1>5 DEF Present
<1> QED BY <1>1, <1>2, <1>6, BootKept DEF Passes

(* A question that was looked up, or inserted, is indexed. *)
LEMMA Indexed ==
  ASSUME IInv, NEW b \in Boots, Running(b), Statement(b).do = "question",
         NEW q \in Nat, Index(b, Statement(b).i, q), q \in DOMAIN questions',
         questions'[q].text = <<Statement(b).course, Statement(b).i>>
  PROVE  Indexes(b)
BY BootKept DEF Indexes

LEMMA QuestionFound ==
  ASSUME IInv, NEW b \in Boots, FindQuestion(b)
  PROVE  /\ boot' \in [Boots -> BootRow]
         /\ \A p \in Boots : p # b => boot'[p] = boot[p]
         /\ Stays(b) \/ Indexes(b)
<1> DEFINE c == Statement(b).course
           i == Statement(b).i
<1>1. Running(b) /\ Statement(b).do = "question" /\ UNCHANGED questions
  BY DEF FindQuestion, rows
<1>2. c \in DOMAIN Courses /\ i \in DOMAIN Questions(c)
  BY <1>1, Here, Fields
<1>3. \A q \in SameQuestion(c, i) : q \in DOMAIN questions /\ Text(q) = <<c, i>>
  BY <1>2, FoundIsIt
<1>4. CASE boot' = [boot EXCEPT ![b].at = "insert"]
  BY <1>4, BootKept
<1>5. ASSUME NEW q \in SameQuestion(c, i), Index(b, i, q)
      PROVE  /\ boot' \in [Boots -> BootRow]
             /\ \A p \in Boots : p # b => boot'[p] = boot[p]
             /\ Indexes(b)
  <2>1. q \in Nat /\ q \in DOMAIN questions' /\ questions'[q].text = <<c, i>>
    BY <1>1, <1>3, QuestionFacts DEF Text
  <2>2. Indexes(b)
    BY <1>1, <1>5, <2>1, Indexed
  <2> QED BY <1>5, <2>1, <2>2, BootKept
<1>6. boot' = [boot EXCEPT ![b].at = "insert"] \/ \E q \in SameQuestion(c, i) : Index(b, i, q)
  BY DEF FindQuestion
<1> QED BY <1>4, <1>5, <1>6

LEMMA QuestionInserted ==
  ASSUME IInv, NEW b \in Boots, InsertQuestion(b)
  PROVE  /\ boot' \in [Boots -> BootRow]
         /\ \A p \in Boots : p # b => boot'[p] = boot[p]
         /\ Indexes(b)
<1> DEFINE s == Statement(b)
           q == Len(questions) + 1
<1>1. Running(b) /\ s.do = "question" /\ Index(b, s.i, q)
  BY DEF InsertQuestion
<1>2. s \in QuestionsToBe /\ questions' = Append(questions, Row(s.course, s.i))
  BY Inserted
<1>3. questions \in Seq(QuestionRows) /\ Row(s.course, s.i) \in QuestionRows
  BY <1>2 DEF IInv, RowInv, QuestionRows
<1>4. /\ Len(questions) \in Nat
      /\ DOMAIN Append(questions, Row(s.course, s.i)) = 1..(Len(questions) + 1)
      /\ Append(questions, Row(s.course, s.i))[Len(questions) + 1] = Row(s.course, s.i)
  BY <1>3, Longer
<1>5. q \in Nat /\ q \in DOMAIN questions' /\ questions'[q].text = <<s.course, s.i>>
  BY <1>2, <1>4 DEF Row
<1> HIDE DEF q
<1> QED BY <1>1, <1>5, BootKept, Indexed

LEMMA BootStep ==
  ASSUME IInv, [Next]_vars
  PROVE  /\ boot' \in [Boots -> BootRow] /\ crashes' \in 0..MaxCrashes /\ overlap' \in BOOLEAN
         /\ boot' = boot \/ \E b \in Boots : Moves(b)
<1>1. /\ boot \in [Boots -> BootRow] /\ Off \in BootRow
      /\ crashes \in 0..MaxCrashes /\ overlap \in BOOLEAN
  <2>1. /\ boot \in [Boots -> BootRow]
        /\ crashes \in 0..MaxCrashes /\ overlap \in BOOLEAN
    BY DEF IInv, RowInv, RowsMatchFiles, TypeOK, BootRow
  <2> QED BY <2>1, OffRow
<1>2. CASE UNCHANGED vars
  BY <1>1, <1>2 DEF vars
<1>3. ASSUME NEW b \in Boots, Boot(b)
      PROVE  boot' \in [Boots -> BootRow] /\ Moves(b) /\ crashes' = crashes /\ overlap' \in BOOLEAN
  BY <1>3, BootKept DEF Boot, Moves
<1>4. ASSUME NEW b \in Boots, Serve(b) \/ Crash(b)
      PROVE  /\ boot' \in [Boots -> BootRow] /\ Moves(b)
             /\ crashes' \in 0..MaxCrashes /\ overlap' = overlap
  <2>1. boot' = [boot EXCEPT ![b] = Off]
    BY <1>4 DEF Serve, Crash
  <2>2. crashes' \in 0..MaxCrashes /\ overlap' = overlap
    BY <1>1, <1>4, CatalogueAssumption DEF Serve, Crash
  <2>3. boot'[b] = Off /\ \A p \in Boots : p # b => boot'[p] = boot[p]
    BY <1>1, <2>1
  <2> QED BY <1>1, <2>1, <2>2, <2>3 DEF Moves
<1>5. ASSUME NEW b \in Boots, UpsertKey(b) \/ UpsertOption(b) \/ UpsertCard(b) \/ UpsertCite(b)
      PROVE  /\ boot' \in [Boots -> BootRow] /\ Moves(b)
             /\ crashes' = crashes /\ overlap' = overlap
  <2>1. Advance(b) /\ Passes(b)
    BY <1>5, KeyDone, OptionDone, CardDone, CiteDone
  <2>2. crashes' = crashes /\ overlap' = overlap
    BY <1>5 DEF UpsertKey, UpsertOption, UpsertCard, UpsertCite
  <2> QED BY <2>1, <2>2, BootKept DEF Moves
<1>6. ASSUME NEW b \in Boots, FindLink(b) \/ InsertLink(b)
      PROVE  /\ boot' \in [Boots -> BootRow] /\ Moves(b)
             /\ crashes' = crashes /\ overlap' = overlap
  <2>1. crashes' = crashes /\ overlap' = overlap
    BY <1>6 DEF FindLink, InsertLink
  <2>2. CASE FindLink(b) /\ boot' = [boot EXCEPT ![b].at = "insert"]
    BY <2>1, <2>2, BootKept DEF Moves
  <2>3. ASSUME Advance(b) /\ Passes(b)
        PROVE  boot' \in [Boots -> BootRow] /\ Moves(b)
    BY <2>3, BootKept DEF Moves
  <2>4. CASE FindLink(b) /\ \E l \in DOMAIN links : links[l] = <<Statement(b).key, Statement(b).ord>>
    BY <2>1, <2>3, <2>4, LinkDone
  <2>5. CASE InsertLink(b)
    BY <2>1, <2>3, <2>5, LinkDone
  <2> QED BY <1>6, <2>2, <2>4, <2>5 DEF FindLink
<1>7. ASSUME NEW b \in Boots, FindQuestion(b) \/ InsertQuestion(b)
      PROVE  /\ boot' \in [Boots -> BootRow] /\ Moves(b)
             /\ crashes' = crashes /\ overlap' = overlap
  <2>1. crashes' = crashes /\ overlap' = overlap
    BY <1>7 DEF FindQuestion, InsertQuestion
  <2> QED BY <1>7, <2>1, QuestionFound, QuestionInserted DEF Moves
<1> QED BY <1>1, <1>2, <1>3, <1>4, <1>5, <1>6, <1>7 DEF Next, Step

-----------------------------------------------------------------------------
(* The invariant, and that the rows match the files. *)
LEMMA PresentStays ==
  ASSUME IInv, [Next]_vars, NEW s, Present(s)
  PROVE  Present(s)'
<1>1. Grows
  BY GrowStep
<1>2. /\ \A q \in DOMAIN questions : q \in DOMAIN questions' /\ questions'[q].text = Text(q)
      /\ \A o \in options : o[1] \in DOMAIN questions
      /\ \A ref \in refs : ref[2] \in DOMAIN questions
  BY TextStays DEF IInv, RowInv, RowsMatchFiles, TypeOK
<1>3. s.do = "upsert" => s.key \in keyed'
  BY <1>1 DEF Grows, Present
<1>4. s.do = "question" => \E q \in DOMAIN questions' : questions'[q].text = <<s.course, s.i>>
  BY <1>2 DEF Present
<1>5. s.do = "option" =>
        \E o \in options' : questions'[o[1]].text = <<s.course, s.i>> /\ o[2] = s.ord
  BY <1>1, <1>2 DEF Grows, Present
<1>6. s.do = "card" => s.key \in DOMAIN cards'
  BY <1>1 DEF Grows, Present
<1>7. s.do = "cite" =>
        \E ref \in refs' : ref[1] = s.key /\ questions'[ref[2]].text = <<s.key[1], s.i>>
  BY <1>1, <1>2 DEF Grows, Present
<1>8. s.do = "link" => \E l \in DOMAIN links' : links'[l] = <<s.key, s.ord>>
  BY <1>1 DEF Grows, Present
<1> QED BY <1>3, <1>4, <1>5, <1>6, <1>7, <1>8 DEF Present, Text

LEMMA RowsStep ==
  ASSUME IInv, [Next]_vars
  PROVE  RowInv'
<1>1. questions' \in Seq(QuestionRows) /\ links' \in Seq(LinkRows)
  BY GrowStep
<1>2. \A q \in DOMAIN questions' : questions'[q].course \in DOMAIN Courses
  <2>1. TAKE q \in DOMAIN questions'
  <2>2. questions'[q] \in QuestionRows
    BY <1>1, LenProperties, ElementOfSeq
  <2>3. PICK s \in QuestionsToBe : questions'[q] = Row(s.course, s.i)
    BY <2>2 DEF QuestionRows
  <2>4. s.course \in DOMAIN Courses
    BY Kinds, Fields DEF QuestionsToBe, Statements
  <2> QED BY <2>3, <2>4 DEF Row
<1>3. TypeOK'
  BY <1>2, OptionRows, CardRows, CiteRows, LinkKeys, BootStep DEF TypeOK, BootRow
<1>4. RowsMatchFiles'
  <2>1. \A o \in options' : o[3] = (o[2] = File(questions'[o[1]].text).correct)
    BY OptionRows
  <2>2. \A s \in CardsToBe : s.key \in DOMAIN cards' =>
          IF s.origin = 0 THEN cards'[s.key] = 0
          ELSE cards'[s.key] # 0 /\ questions'[cards'[s.key]].text = <<s.key[1], s.origin>>
    BY CardRows DEF OriginMatches
  <2>3. \A ref \in refs' : \E s \in CitesToBe :
          s.key = ref[1] /\ s.rank = ref[3] /\ questions'[ref[2]].text = <<s.key[1], s.i>>
    BY CiteRows
  <2> QED BY <1>3, <2>1, <2>2, <2>3 DEF RowsMatchFiles, Text
<1> QED BY <1>1, <1>4, KeyRows, CardRows DEF RowInv

(* The seed that takes the step... *)
LEMMA MovedBoot ==
  ASSUME IInv, [Next]_vars, NEW b \in Boots, Moves(b)
  PROVE  BootInv(b)'
<1> DEFINE pc == boot[b].pc
           index == boot[b].index
           u == Place[pc]
<1>1. /\ pc \in 1..(Len(Program) + 1) /\ Len(index) = u[2]
      /\ \A j \in 1..Len(index) : index[j] \in DOMAIN questions /\ Text(index[j]) = <<u[1], j>>
      /\ \A x \in 1..(pc - 1) : Present(Program[x])
  BY DEF IInv, BootInv
<1>2. /\ Len(Program) \in Nat /\ Place[1] = <<0, 0>>
  BY Places
<1>3. index \in Seq(Nat) /\ Len(index) \in Nat
  <2>1. index \in Seq(Nat)
    BY BootKept DEF BootRow
  <2> QED BY <2>1, LenProperties
<1>4. \A x \in 1..(pc - 1) : Present(Program[x])'
  BY <1>1, PresentStays
<1>5. \A j \in 1..Len(index) :
        index[j] \in DOMAIN questions' /\ questions'[index[j]].text = <<u[1], j>>
  BY <1>1, TextStays
<1>6. ASSUME boot'[b] = Off PROVE BootInv(b)'
  <2>1. boot'[b].pc = 1 /\ boot'[b].index = <<>>
    BY <1>6 DEF Off
  <2>2. Len(<<>>) = 0
    BY EmptySeq
  <2> QED BY <1>2, <2>1, <2>2 DEF BootInv
<1>7. ASSUME Stays(b) PROVE BootInv(b)'
  <2>1. boot'[b].at # "off" /\ boot'[b].pc = pc /\ boot'[b].index = index
    BY <1>7 DEF Stays
  <2> HIDE DEF pc, index, u
  <2> QED BY <1>1, <1>4, <1>5, <2>1 DEF BootInv, Text, u
<1>8. ASSUME Passes(b) PROVE BootInv(b)'
  <2>1. /\ Running(b) /\ Statement(b).do # "question"
        /\ boot'[b].at # "off" /\ boot'[b].pc = pc + 1 /\ boot'[b].index = index
    BY <1>8 DEF Passes
  <2>2. PICK s \in Range(Program) : s = Statement(b) /\ Present(s)'
    BY <1>8 DEF Passes
  <2>3. pc \in 1..Len(Program) /\ Place[pc + 1] = u
    BY <2>1, Here
  <2>4. s = Program[pc]
    BY <2>2 DEF Statement
  <2> HIDE DEF pc, index, u
  <2>5. pc + 1 \in 1..(Len(Program) + 1) /\ \A x \in 1..((pc + 1) - 1) : x = pc \/ x \in 1..(pc - 1)
    BY <1>2, <2>3
  <2>6. \A x \in 1..((pc + 1) - 1) : Present(Program[x])'
    BY <1>4, <2>2, <2>4, <2>5
  <2> QED BY <1>1, <1>5, <2>1, <2>3, <2>5, <2>6 DEF BootInv, Text
<1>9. ASSUME Indexes(b) PROVE BootInv(b)'
  <2>1. PICK s \in Range(Program) : s = Statement(b)
    BY <1>9, Here DEF Indexes
  <2> DEFINE old == IF s.i = 1 THEN <<>> ELSE index
  <2>2. PICK q \in DOMAIN questions' :
          /\ questions'[q].text = <<s.course, s.i>>
          /\ boot'[b] = [at |-> "run", pc |-> pc + 1, index |-> Append(old, q)]
    BY <1>9, <2>1 DEF Indexes
  <2>3. /\ pc \in 1..Len(Program) /\ IsQuestion(s) /\ s.do = "question"
        /\ Place[pc + 1] = <<s.course, s.i>> /\ (s.i # 1 => u = <<s.course, s.i - 1>>)
        /\ s = Program[pc]
    BY <1>9, <2>1, Here DEF Indexes, Statement
  <2>4. s.i \in Nat \ {0}
    BY <2>3, Fields, Files
  <2>5. q \in Nat
    <3>1. questions' \in Seq(QuestionRows)
      BY GrowStep
    <3> QED BY <3>1, LenProperties
  <2> HIDE DEF pc, index, u
  <2>6. /\ old \in Seq(Nat) /\ Len(old) = s.i - 1
        /\ \A j \in 1..(s.i - 1) :
             old[j] \in DOMAIN questions' /\ questions'[old[j]].text = <<s.course, j>>
    <3>1. CASE s.i = 1
      <4>1. old = <<>> /\ <<>> \in Seq(Nat) /\ Len(<<>>) = 0 /\ 1..(s.i - 1) = {}
        BY <3>1, EmptySeq
      <4> QED BY <3>1, <4>1
    <3>2. CASE s.i # 1
      <4>1. old = index /\ u[1] = s.course /\ u[2] = s.i - 1
        BY <2>3, <3>2
      <4> QED BY <1>1, <1>3, <1>5, <4>1
    <3> QED BY <3>1, <3>2
  <2> HIDE DEF old
  <2> DEFINE new == Append(old, q)
  <2>7. /\ Len(new) = s.i /\ new[s.i] = q
        /\ \A j \in 1..(s.i - 1) : new[j] = old[j]
    BY <2>4, <2>5, <2>6, AppendProperties
  <2> HIDE DEF new
  <2>8. \A j \in 1..Len(new) :
          new[j] \in DOMAIN questions' /\ questions'[new[j]].text = <<s.course, j>>
    <3>1. TAKE j \in 1..Len(new)
    <3>2. CASE j = s.i
      BY <2>2, <2>7, <3>2
    <3>3. CASE j # s.i
      <4>1. j \in 1..(s.i - 1)
        BY <2>4, <2>7, <3>3
      <4> QED BY <2>6, <2>7, <4>1
    <3> QED BY <3>2, <3>3
  <2>9. boot'[b].at # "off" /\ boot'[b].pc = pc + 1 /\ boot'[b].index = new
    BY <2>2 DEF new
  <2>10. pc + 1 \in 1..(Len(Program) + 1) /\ \A x \in 1..((pc + 1) - 1) : x = pc \/ x \in 1..(pc - 1)
    BY <1>2, <2>3
  <2>11. Present(s)'
    BY <2>2, <2>3 DEF Present, Text
  <2>12. \A x \in 1..((pc + 1) - 1) : Present(Program[x])'
    BY <1>4, <2>3, <2>10, <2>11
  <2>13. Place[pc + 1][1] = s.course /\ Place[pc + 1][2] = s.i
    BY <2>3
  <2> QED BY <2>7, <2>8, <2>9, <2>10, <2>12, <2>13 DEF BootInv, Text
<1> QED BY <1>6, <1>7, <1>8, <1>9 DEF Moves

(* ...and another one. *)
LEMMA OtherBoot ==
  ASSUME IInv, [Next]_vars, NEW p \in Boots, boot'[p] = boot[p]
  PROVE  BootInv(p)'
<1>1. BootInv(p)
  BY DEF IInv
<1>2. \A x \in 1..(boot[p].pc - 1) : Present(Program[x])'
  BY <1>1, PresentStays DEF BootInv
<1>3. \A j \in 1..Len(boot[p].index) :
        /\ boot[p].index[j] \in DOMAIN questions'
        /\ questions'[boot[p].index[j]].text = <<Place[boot[p].pc][1], j>>
  BY <1>1, TextStays DEF BootInv
<1> QED BY <1>1, <1>2, <1>3 DEF BootInv, Text

LEMMA InductiveStep == IInv /\ [Next]_vars => IInv'
<1> SUFFICES ASSUME IInv, [Next]_vars PROVE IInv'
  OBVIOUS
<1>1. RowInv'
  BY RowsStep
<1>2. ASSUME NEW p \in Boots PROVE BootInv(p)'
  <2>1. CASE boot' = boot
    BY <2>1, OtherBoot
  <2>2. ASSUME NEW b \in Boots, Moves(b) PROVE BootInv(p)'
    <3>1. CASE p = b
      BY <2>2, <3>1, MovedBoot
    <3>2. CASE p # b
      BY <2>2, <3>2, OtherBoot DEF Moves
    <3> QED BY <3>1, <3>2
  <2> QED BY <2>1, <2>2, BootStep
<1> QED BY <1>1, <1>2 DEF IInv

LEMMA InductiveInit == Init => IInv
<1> SUFFICES ASSUME Init PROVE IInv
  OBVIOUS
<1>1. <<>> \in Seq(QuestionRows) /\ <<>> \in Seq(LinkRows) /\ DOMAIN <<>> = {} /\ Len(<<>>) = 0
  BY EmptySeq
<1>2. /\ questions = <<>> /\ links = <<>> /\ cards = <<>> /\ keyed = {} /\ options = {} /\ refs = {}
      /\ boot = [b \in Boots |-> Off] /\ crashes = 0 /\ overlap = FALSE
  BY DEF Init
<1>3. boot \in [Boots -> BootRow]
  BY <1>2, OffRow
<1>4. TypeOK
  <2>1. DOMAIN questions = {} /\ DOMAIN cards = {} /\ DOMAIN links = {}
    BY <1>1, <1>2
  <2>2. crashes \in 0..MaxCrashes
    BY <1>2, CatalogueAssumption
  <2>3. boot \in [Boots -> [at : {"off", "run", "insert"}, pc : Nat, index : Seq(Nat)]]
    BY <1>3 DEF BootRow
  <2>4. options = {} /\ refs = {} /\ overlap \in BOOLEAN
    BY <1>2
  <2> QED BY <2>1, <2>2, <2>3, <2>4 DEF TypeOK
<1>5. RowInv
  BY <1>1, <1>2, <1>4 DEF RowInv, RowsMatchFiles
<1>6. ASSUME NEW b \in Boots PROVE BootInv(b)
  <2>1. boot[b].pc = 1 /\ boot[b].index = <<>>
    BY <1>2 DEF Off
  <2> QED BY <1>1, <2>1, Places DEF BootInv
<1> QED BY <1>5, <1>6 DEF IInv

(* The invariant: rows only of the files and as the files have them; and each seed, wherever
   others have been or failed, with the index of its mark and all it has passed in place. *)
THEOREM Invariant == Spec => []IInv
<1> QED BY InductiveInit, InductiveStep, PTL DEF Spec

(* RowsMatchFiles: whatever crashes and overlaps, the types of the rows, the correct option of
   a question, and the question a card comes from or cites, are those of the files
   (seedModulesAndQuestions, seedDeck). *)
THEOREM RowsAreOfTheFiles == Spec => []RowsMatchFiles
<1>1. IInv => RowsMatchFiles
  BY DEF IInv, RowInv
<1> QED BY <1>1, Invariant, PTL

-----------------------------------------------------------------------------
(* What the count at the end tells.  A seed that gets there has made everything present, so
   that only rows too many can be wrong, and questions are the one table where there can be:
   as many of them as in the files are each there once. *)
LEMMA AllPresent ==
  ASSUME IInv, NEW b \in Boots, boot[b].pc > Len(Program), NEW s \in Range(Program)
  PROVE  Present(s)
<1>1. BootInv(b)
  BY DEF IInv
<1>2. PICK x \in 1..Len(Program) : s = Program[x]
  BY Places DEF Range
<1>3. boot[b].pc \in 1..(Len(Program) + 1) /\ Len(Program) \in Nat
  BY <1>1, Places DEF BootInv
<1>4. x \in 1..(boot[b].pc - 1)
  BY <1>3
<1> QED BY <1>1, <1>2, <1>4 DEF BootInv

LEMMA ProgramFinite == IsFiniteSet(Range(Program))
<1> DEFINE f == [x \in 1..Len(Program) |-> Program[x]]
<1>1. f \in Surjection(1..Len(Program), Range(Program))
  BY Places DEF Surjection, Range
<1>2. IsFiniteSet(1..Len(Program))
  BY Places, FS_Interval
<1> HIDE DEF f
<1> QED BY <1>1, <1>2, FS_Surjection

LEMMA OneRow ==
  ASSUME IInv, \A s \in QuestionsToBe : Present(s),
         Len(questions) = Cardinality(QuestionsToBe),
         NEW p \in DOMAIN questions, NEW q \in DOMAIN questions, Text(p) = Text(q)
  PROVE  p = q
<1> DEFINE f == [r \in DOMAIN questions |->
                   [do |-> "question", course |-> Text(r)[1], i |-> Text(r)[2]]]
<1>1. ASSUME NEW s \in QuestionsToBe
      PROVE  s = [do |-> "question", course |-> s.course, i |-> s.i]
  <2>1. IsQuestion(s)
    BY Kinds DEF QuestionsToBe, Statements
  <2> QED BY <2>1 DEF IsQuestion
<1>2. ASSUME NEW r \in DOMAIN questions PROVE f[r] \in QuestionsToBe
  <2>1. PICK s \in QuestionsToBe : questions[r] = Row(s.course, s.i)
    BY QuestionFacts
  <2>2. Text(r) = <<s.course, s.i>>
    BY <2>1 DEF Row, Text
  <2> QED BY <1>1, <2>2
<1>3. ASSUME NEW s \in QuestionsToBe PROVE \E r \in DOMAIN questions : f[r] = s
  <2>1. s.do = "question"
    BY DEF QuestionsToBe, Statements
  <2>2. PICK r \in DOMAIN questions : Text(r) = <<s.course, s.i>>
    BY <2>1 DEF Present
  <2> QED BY <1>1, <2>2
<1>4. f[p] = f[q]
  OBVIOUS
<1>5. f = [r \in DOMAIN questions |-> f[r]]
  OBVIOUS
<1> HIDE DEF f
<1>6. f \in Surjection(DOMAIN questions, QuestionsToBe)
  BY <1>2, <1>3, <1>5 DEF Surjection
<1>7. IsFiniteSet(DOMAIN questions) /\ Cardinality(DOMAIN questions) = Len(questions)
  BY QuestionFacts, FS_Interval
<1>8. f \in Injection(DOMAIN questions, QuestionsToBe)
  BY <1>6, <1>7, FS_SurjSameCardinalityImpliesInj
<1> QED BY <1>4, <1>8 DEF Injection, IsInjective

OneRowEach == \A p, q \in DOMAIN questions : Text(p) = Text(q) => p = q

LEMMA PresentIsComplete ==
  ASSUME IInv, NEW b \in Boots, boot[b].pc > Len(Program), OneRowEach
  PROVE  Complete
<1>1. \A s \in Range(Program) : Present(s)
  BY AllPresent
<1>2. keyed = {s.key : s \in Upserts}
  <2>1. \A s \in Upserts : s.key \in keyed
    BY <1>1 DEF Upserts, Statements, Present
  <2> QED BY <2>1 DEF IInv, RowInv
<1>3. DOMAIN cards = {s.key : s \in CardsToBe}
  <2>1. \A s \in CardsToBe : s.key \in DOMAIN cards
    BY <1>1 DEF CardsToBe, Statements, Present
  <2> QED BY <2>1 DEF IInv, RowInv
<1>4. \A s \in CitesToBe : \E ref \in refs : ref[1] = s.key /\ Text(ref[2]) = <<s.key[1], s.i>>
  BY <1>1 DEF CitesToBe, Statements, Present
<1>5. \A s \in LinksToBe : LinkPlaces(s) # {}
  BY <1>1 DEF LinksToBe, Statements, Present, LinkPlaces
<1>6. ASSUME NEW s \in QuestionsToBe
      PROVE  \E q \in DOMAIN questions :
               /\ {p \in DOMAIN questions : Text(p) = <<s.course, s.i>>} = {q}
               /\ {o \in options : o[1] = q} = {<<q, n, n = File(Text(q)).correct>> : n \in 1..Options}
  <2>1. s \in Range(Program) /\ s.do = "question" /\ IsQuestion(s)
    BY Kinds DEF QuestionsToBe, Statements
  <2>2. PICK q \in DOMAIN questions : Text(q) = <<s.course, s.i>>
    BY <1>1, <2>1 DEF Present
  <2>3. ASSUME NEW p \in DOMAIN questions, Text(p) = <<s.course, s.i>> PROVE p = q
    BY <2>2, <2>3 DEF OneRowEach
  <2>4. /\ options \subseteq (DOMAIN questions) \X (1..Options) \X BOOLEAN
        /\ \A o \in options : o[3] = (o[2] = File(Text(o[1])).correct)
    BY DEF IInv, RowInv, RowsMatchFiles, TypeOK
  <2> DEFINE Right(n) == n = File(Text(q)).correct
  <2>5. ASSUME NEW o \in options, o[1] = q PROVE o[2] \in 1..Options /\ o = <<q, o[2], Right(o[2])>>
    <3>1. o \in (DOMAIN questions) \X (1..Options) \X BOOLEAN /\ o[3] = Right(o[2])
      BY <2>4, <2>5
    <3> HIDE DEF Right
    <3>2. o = <<o[1], o[2], o[3]>> /\ o[2] \in 1..Options
      BY <3>1
    <3> QED BY <2>5, <3>1, <3>2
  <2>6. ASSUME NEW n \in 1..Options PROVE <<q, n, Right(n)>> \in options
    <3>1. PICK x \in 1..Len(Program) : Program[x] = OptionOf(s, n)
      <4>1. PICK x \in 1..Len(Program) : s = Program[x]
        BY <2>1, Places DEF Range
      <4>2. Follows(Program, x, Place[x], Place[x + 1])
        BY Places
      <4>3. Answered(Program, s)
        BY <2>1, <4>1, <4>2, Fields DEF Follows
      <4> QED BY <4>3 DEF Answered
    <3>2. Present(OptionOf(s, n))
      BY <1>1, <3>1, Places
    <3>3. PICK o \in options : Text(o[1]) = <<s.course, s.i>> /\ o[2] = n
      BY <3>2 DEF Present, OptionOf
    <3>4. o[1] \in DOMAIN questions
      BY <2>4
    <3>5. o[1] = q
      BY <2>3, <3>3, <3>4
    <3> QED BY <2>5, <3>3, <3>5
  <2>7. {p \in DOMAIN questions : Text(p) = <<s.course, s.i>>} = {q}
    BY <2>2, <2>3
  <2>8. {o \in options : o[1] = q} = {<<q, n, Right(n)>> : n \in 1..Options}
    <3>1. \A n : <<q, n, Right(n)>>[1] = q
      OBVIOUS
    <3> HIDE DEF Right
    <3> QED BY <2>5, <2>6, <3>1
  <2> QED BY <2>7, <2>8
<1> QED BY <1>2, <1>3, <1>4, <1>5, <1>6 DEF Complete

LEMMA GateStep ==
  ASSUME IInv, NEW b \in Boots, boot[b].pc > Len(Program), Gate
  PROVE  Complete
<1>1. \A s \in QuestionsToBe : Present(s)
  BY AllPresent DEF QuestionsToBe, Statements
<1>2. Len(questions) = Cardinality(QuestionsToBe)
  BY DEF Gate
<1>3. OneRowEach
  BY <1>1, <1>2, OneRow DEF OneRowEach
<1> QED BY <1>3, PresentIsComplete

(* GateMeansComplete: a seed whose rows pass the counts of printValidation leaves the catalogue
   of the files, with what the counts do not look at: the texts, the options and the links. *)
THEOREM CountIsEnough == Spec => []GateMeansComplete
<1>1. IInv => GateMeansComplete
  BY GateStep DEF GateMeansComplete
<1> QED BY <1>1, Invariant, PTL

-----------------------------------------------------------------------------
(* A boot on a whole catalogue.  Unless two have overlapped there is one seed at most, and what
   it is about to insert is not there. *)
Alone == \A b, p \in Boots : boot[b].at # "off" /\ boot[p].at # "off" => b = p
Fresh == \A b \in Boots : boot[b].at = "insert" /\ Running(b) => ~Present(Statement(b))

FreshInv == ~overlap => Alone /\ Fresh

LEMMA IndexRuns ==
  ASSUME IInv, NEW b \in Boots, NEW i, NEW q \in Nat, Index(b, i, q)
  PROVE  boot'[b].at = "run" /\ \A p \in Boots : p # b => boot'[p] = boot[p]
<1> DEFINE new == Append(IF i = 1 THEN <<>> ELSE boot[b].index, q)
<1>1. /\ \A p \in Boots : p # b => boot'[p] = boot[p]
      /\ boot'[b] = [at |-> "run", pc |-> boot[b].pc + 1, index |-> new]
  BY BootKept
<1> HIDE DEF new
<1> QED BY <1>1

(* A seed that looked for something and did not find it. *)
LEMMA NotThere ==
  ASSUME IInv, NEW b \in Boots, FindQuestion(b) \/ FindLink(b), boot'[b].at = "insert"
  PROVE  ~Present(Statement(b))
<1> DEFINE s == Statement(b)
<1>1. ASSUME FindLink(b) PROVE ~Present(s)
  <2>1. s.do = "link" /\ ~ \E l \in DOMAIN links : links[l] = <<s.key, s.ord>>
    BY <1>1, BootKept DEF FindLink
  <2> QED BY <2>1 DEF Present
<1>2. ASSUME FindQuestion(b) PROVE ~Present(s)
  <2>1. Running(b) /\ s.do = "question"
    BY <1>2 DEF FindQuestion
  <2>2. s.course \in DOMAIN Courses /\ s.i \in DOMAIN Questions(s.course)
    BY <2>1, Here, Fields
  <2>3. ASSUME NEW q \in SameQuestion(s.course, s.i), Index(b, s.i, q) PROVE FALSE
    <3>1. q \in Nat
      BY <2>2, <2>3, FoundIsIt, QuestionFacts
    <3>2. boot'[b].at = "run"
      BY <2>3, <3>1, IndexRuns
    <3> QED BY <3>2
  <2>4. SameQuestion(s.course, s.i) = {}
    BY <1>2, <2>3 DEF FindQuestion
  <2>5. ~ \E q \in DOMAIN questions : Text(q) = <<s.course, s.i>>
    BY <2>2, <2>4, FoundIsIt
  <2> QED BY <2>1, <2>5 DEF Present
<1> QED BY <1>1, <1>2

(* A step of a seed leaves the others where they are, and itself not about to insert, unless it
   has just looked. *)
LEMMA SeedStep ==
  ASSUME IInv, NEW b \in Boots, Step(b) \/ Crash(b)
  PROVE  /\ boot[b].at # "off" /\ overlap' = overlap
         /\ \A p \in Boots : p # b => boot'[p] = boot[p]
         /\ boot'[b].at = "insert" => (FindQuestion(b) \/ FindLink(b)) /\ Stays(b)
<1>1. boot \in [Boots -> BootRow]
  BY BootKept
<1>2. CASE Serve(b) \/ Crash(b)
  <2>1. boot' = [boot EXCEPT ![b] = Off] /\ overlap' = overlap
    BY <1>2 DEF Serve, Crash
  <2>2. boot'[b] = Off /\ \A p \in Boots : p # b => boot'[p] = boot[p]
    BY <1>1, <2>1
  <2>3. boot[b].at # "off"
    BY <1>2, Places DEF Serve, Crash, IInv, BootInv
  <2> QED BY <2>1, <2>2, <2>3 DEF Off
<1>3. CASE UpsertKey(b) \/ UpsertOption(b) \/ UpsertCard(b) \/ UpsertCite(b) \/ InsertLink(b)
  <2>1. Advance(b) /\ Running(b) /\ overlap' = overlap
    BY <1>3 DEF UpsertKey, UpsertOption, UpsertCard, UpsertCite, InsertLink
  <2> QED BY <2>1, BootKept DEF Running
<1>4. CASE InsertQuestion(b)
  <2>1. Running(b) /\ overlap' = overlap /\ Index(b, Statement(b).i, Len(questions) + 1)
    BY <1>4 DEF InsertQuestion
  <2>2. Len(questions) + 1 \in Nat
    BY QuestionFacts
  <2> QED BY <2>1, <2>2, IndexRuns DEF Running
<1>5. CASE FindLink(b)
  <2>1. /\ Running(b) /\ overlap' = overlap
        /\ Advance(b) \/ boot' = [boot EXCEPT ![b].at = "insert"]
    BY <1>5 DEF FindLink
  <2> QED BY <1>5, <2>1, BootKept DEF Running
<1>6. CASE FindQuestion(b)
  <2> DEFINE s == Statement(b)
  <2>1. /\ Running(b) /\ s.do = "question" /\ overlap' = overlap
        /\ \/ \E q \in SameQuestion(s.course, s.i) : Index(b, s.i, q)
           \/ boot' = [boot EXCEPT ![b].at = "insert"]
    BY <1>6 DEF FindQuestion
  <2>2. s.course \in DOMAIN Courses /\ s.i \in DOMAIN Questions(s.course)
    BY <2>1, Here, Fields
  <2>3. \A q \in SameQuestion(s.course, s.i) : q \in Nat
    BY <2>2, FoundIsIt, QuestionFacts
  <2>4. /\ boot'[b].at = "insert" => Stays(b)
        /\ \A p \in Boots : p # b => boot'[p] = boot[p]
    <3>1. CASE \E q \in SameQuestion(s.course, s.i) : Index(b, s.i, q)
      BY <2>3, <3>1, IndexRuns
    <3>2. CASE boot' = [boot EXCEPT ![b].at = "insert"]
      BY <3>2, BootKept
    <3> QED BY <2>1, <3>1, <3>2
  <2> QED BY <1>6, <2>1, <2>4 DEF Running
<1> QED BY <1>2, <1>3, <1>4, <1>5, <1>6 DEF Step

LEMMA FreshStep ==
  ASSUME IInv, FreshInv, [Next]_vars
  PROVE  FreshInv'
<1> SUFFICES ASSUME ~overlap' PROVE Alone' /\ Fresh'
  BY DEF FreshInv
<1>1. boot \in [Boots -> BootRow] /\ overlap \in BOOLEAN
  BY DEF IInv, RowInv, RowsMatchFiles, TypeOK, BootRow
<1>2. CASE UNCHANGED vars
  <2>1. /\ boot' = boot /\ overlap' = overlap
        /\ UNCHANGED <<keyed, questions, options, cards, refs, links>>
    BY <1>2 DEF vars, rows
  <2>2. Alone /\ Fresh
    BY <2>1 DEF FreshInv
  <2> QED BY <2>1, <2>2 DEF Alone, Fresh, Running, Statement, Present, Text
<1>3. ASSUME NEW b \in Boots, Boot(b) PROVE Alone' /\ Fresh'
  <2>1. /\ \A p \in Boots : boot[p].at = "off"
        /\ boot' = [boot EXCEPT ![b].at = "run"]
    BY <1>3 DEF Boot
  <2>2. boot'[b].at = "run" /\ \A p \in Boots : p # b => boot'[p] = boot[p]
    BY <2>1, BootKept
  <2> QED BY <2>1, <2>2 DEF Alone, Fresh
<1>4. ASSUME NEW b \in Boots, Step(b) \/ Crash(b) PROVE Alone' /\ Fresh'
  <2>1. /\ boot[b].at # "off" /\ overlap' = overlap
        /\ \A p \in Boots : p # b => boot'[p] = boot[p]
        /\ boot'[b].at = "insert" => (FindQuestion(b) \/ FindLink(b)) /\ Stays(b)
    BY <1>4, SeedStep
  <2>2. Alone /\ Fresh
    BY <2>1 DEF FreshInv
  <2>3. \A p \in Boots : boot'[p].at # "off" => boot[p].at # "off"
    BY <2>1
  <2>4. Alone'
    BY <2>2, <2>3 DEF Alone
  <2>5. ASSUME NEW p \in Boots, boot'[p].at = "insert", Running(p)' PROVE ~Present(Statement(p))'
    <3>1. p = b
      <4>1. boot[p].at # "off"
        BY <2>3, <2>5
      <4> QED BY <2>1, <2>2, <4>1 DEF Alone
    <3>2. (FindQuestion(b) \/ FindLink(b)) /\ Stays(b)
      BY <2>1, <2>5, <3>1
    <3>3. ~Present(Statement(b))
      BY <2>5, <3>1, <3>2, NotThere
    <3>4. UNCHANGED <<keyed, questions, options, cards, refs, links>>
      BY <3>2 DEF FindQuestion, FindLink, rows
    <3> QED BY <3>1, <3>2, <3>3, <3>4 DEF Stays, Statement, Present, Text
  <2> QED BY <2>4, <2>5 DEF Fresh
<1> QED BY <1>2, <1>3, <1>4 DEF Next

LEMMA FreshInit == Init => FreshInv
<1> SUFFICES ASSUME Init PROVE Alone /\ Fresh
  BY DEF FreshInv
<1>1. \A b \in Boots : boot[b].at = "off"
  BY DEF Init, Off
<1> QED BY <1>1 DEF Alone, Fresh

(* On a whole catalogue a text has one row, and the row its options. *)
LEMMA WholeRows ==
  ASSUME IInv, Complete, NEW q \in DOMAIN questions
  PROVE  /\ \A p \in DOMAIN questions : Text(p) = Text(q) => p = q
         /\ \A n \in 1..Options : \E o \in options : o[1] = q /\ o[2] = n
<1>1. PICK s \in QuestionsToBe : questions[q] = Row(s.course, s.i)
  BY QuestionFacts
<1>2. Text(q) = <<s.course, s.i>>
  BY <1>1 DEF Row, Text
<1>3. PICK r \in DOMAIN questions :
        /\ {p \in DOMAIN questions : Text(p) = <<s.course, s.i>>} = {r}
        /\ {o \in options : o[1] = r} = {<<r, n, n = File(Text(r)).correct>> : n \in 1..Options}
  BY DEF Complete
<1>4. \A p \in DOMAIN questions : Text(p) = <<s.course, s.i>> => p = r
  BY <1>3
<1>5. q = r
  BY <1>2, <1>4
<1>6. ASSUME NEW n \in 1..Options PROVE \E o \in options : o[1] = q /\ o[2] = n
  <2> DEFINE o == <<r, n, n = File(Text(r)).correct>>
  <2>1. o[1] = r /\ o[2] = n
    OBVIOUS
  <2>2. o \in {o2 \in options : o2[1] = r}
    BY <1>3
  <2> HIDE DEF o
  <2> QED BY <1>5, <2>1, <2>2
<1> QED BY <1>2, <1>4, <1>5, <1>6

LEMMA WholeStays ==
  ASSUME IInv, FreshInv, Complete, overlap => \A b \in Boots : boot[b].at # "insert",
         NEW b \in Boots
  PROVE  /\ UpsertKey(b) => keyed' = keyed
         /\ UpsertOption(b) => options' = options
         /\ UpsertCard(b) => cards' = cards
         /\ UpsertCite(b) => refs' = refs
         /\ ~InsertQuestion(b) /\ ~InsertLink(b)
<1> DEFINE s == Statement(b)
           index == boot[b].index
<1>1. ASSUME UpsertKey(b) PROVE keyed' = keyed
  <2>1. Running(b) /\ s.do = "upsert" /\ keyed' = keyed \cup {s.key}
    BY <1>1 DEF UpsertKey
  <2>2. s \in Upserts
    BY <2>1, Here DEF Upserts, Statements
  <2>3. s.key \in keyed
    BY <2>2 DEF Complete
  <2> QED BY <2>1, <2>3
<1>2. ASSUME UpsertOption(b) PROVE options' = options
  <2>1. Running(b) /\ s.do = "option"
    BY <1>2 DEF UpsertOption
  <2>2. IsOption(s) /\ index[s.i] \in DOMAIN questions
    BY <2>1, Here
  <2>3. \E o \in options : o[1] = index[s.i] /\ o[2] = s.ord
    BY <2>2, Fields, WholeRows
  <2> QED BY <1>2, <2>3 DEF UpsertOption
<1>3. ASSUME UpsertCard(b) PROVE cards' = cards
  <2> DEFINE q == index[s.origin]
  <2>1. /\ Running(b) /\ s.do = "card"
        /\ cards' = [x \in DOMAIN cards \cup {s.key} |->
                       IF x # s.key THEN cards[x] ELSE IF s.origin = 0 THEN 0 ELSE q]
    BY <1>3 DEF UpsertCard
  <2>2. /\ s \in CardsToBe
        /\ s.origin # 0 => q \in DOMAIN questions /\ Text(q) = <<s.key[1], s.origin>>
    BY <2>1, Here DEF CardsToBe, Statements
  <2>3. s.key \in DOMAIN cards
    BY <2>2 DEF Complete
  <2>4. /\ cards \in [DOMAIN cards -> {0} \cup DOMAIN questions]
        /\ IF s.origin = 0 THEN cards[s.key] = 0
           ELSE cards[s.key] # 0 /\ Text(cards[s.key]) = <<s.key[1], s.origin>>
    BY <2>2, <2>3 DEF IInv, RowInv, RowsMatchFiles, TypeOK
  <2>5. s.origin # 0 => cards[s.key] = q
    BY <2>2, <2>3, <2>4, WholeRows
  <2> HIDE DEF q, s
  <2>6. cards[s.key] = IF s.origin = 0 THEN 0 ELSE q
    BY <2>4, <2>5
  <2> QED BY <2>1, <2>3, <2>4, <2>6
<1>4. ASSUME UpsertCite(b) PROVE refs' = refs
  <2>1. Running(b) /\ s.do = "cite"
    BY <1>4 DEF UpsertCite
  <2>2. /\ s \in CitesToBe /\ index[s.i] \in DOMAIN questions
        /\ Text(index[s.i]) = <<s.key[1], s.i>>
    BY <2>1, Here DEF CitesToBe, Statements
  <2>3. PICK ref \in refs : ref[1] = s.key /\ Text(ref[2]) = <<s.key[1], s.i>>
    BY <2>2 DEF Complete
  <2>4. ref[2] \in DOMAIN questions
    BY DEF IInv, RowInv, RowsMatchFiles, TypeOK
  <2>5. ref[2] = index[s.i]
    BY <2>2, <2>3, <2>4, WholeRows
  <2> QED BY <1>4, <2>3, <2>5 DEF UpsertCite
<1>5. ASSUME boot[b].at = "insert", Running(b) PROVE ~Present(s)
  BY <1>5 DEF FreshInv, Fresh
<1>6. ASSUME InsertQuestion(b) PROVE FALSE
  <2>1. Running(b) /\ boot[b].at = "insert" /\ s.do = "question"
    BY <1>6 DEF InsertQuestion
  <2>2. s \in QuestionsToBe
    BY <2>1, Here DEF QuestionsToBe, Statements
  <2>3. PICK q \in DOMAIN questions : {p \in DOMAIN questions : Text(p) = <<s.course, s.i>>} = {q}
    BY <2>2 DEF Complete
  <2>4. Text(q) = <<s.course, s.i>>
    BY <2>3
  <2>5. Present(s)
    BY <2>1, <2>4 DEF Present
  <2> QED BY <1>5, <2>1, <2>5
<1>7. ASSUME InsertLink(b) PROVE FALSE
  <2>1. Running(b) /\ boot[b].at = "insert" /\ s.do = "link"
    BY <1>7 DEF InsertLink
  <2>2. s \in LinksToBe
    BY <2>1, Here DEF LinksToBe, Statements
  <2>3. LinkPlaces(s) # {}
    BY <2>2 DEF Complete
  <2>4. Present(s)
    BY <2>1, <2>3 DEF Present, LinkPlaces
  <2> QED BY <1>5, <2>1, <2>4
<1> QED BY <1>1, <1>2, <1>3, <1>4, <1>6, <1>7

(* RerunChangesNothing, "idempotente por contrato" (entrypoint.sh): on a whole catalogue no
   statement of a boot changes a row; where two have overlapped, provided that none has an
   insert left that it decided on before. *)
THEOREM RerunIsIdle == Spec => RerunChangesNothing
<1> DEFINE Idle == Complete /\ (overlap => \A b \in Boots : boot[b].at # "insert")
<1>1. IInv /\ FreshInv /\ [Next]_vars => (Idle => UNCHANGED rows)
  <2> SUFFICES ASSUME IInv, FreshInv, [Next]_vars, Idle PROVE UNCHANGED rows
    OBVIOUS
  <2> QED BY WholeStays, Writers DEF rows
<1>2. FreshInv /\ IInv /\ [Next]_vars => FreshInv'
  BY FreshStep
<1>3. Spec => []FreshInv
  BY <1>2, FreshInit, Invariant, PTL DEF Spec
<1>4. (Idle => UNCHANGED rows) => [Idle => UNCHANGED rows]_vars
  OBVIOUS
<1> QED BY <1>1, <1>3, Invariant, PTL DEF Spec, RerunChangesNothing

-----------------------------------------------------------------------------
(* Without two seeds at once nothing is inserted twice. *)
Once ==
  ~overlap => /\ OneRowEach
              /\ \A l, m \in DOMAIN links : links[l] = links[m] => l = m

LEMMA OnceStep ==
  ASSUME IInv, FreshInv, Once, [Next]_vars
  PROVE  Once'
<1>1. overlap' = FALSE => overlap = FALSE
  <2>1. overlap \in BOOLEAN
    BY DEF IInv, RowInv, RowsMatchFiles, TypeOK
  <2>2. CASE UNCHANGED vars
    BY <2>2 DEF vars
  <2>3. ASSUME NEW b \in Boots, Boot(b) PROVE overlap' = FALSE => overlap = FALSE
    BY <2>1, <2>3 DEF Boot
  <2>4. ASSUME NEW b \in Boots, Step(b) \/ Crash(b) PROVE overlap' = overlap
    BY <2>4, SeedStep
  <2> QED BY <2>2, <2>3, <2>4 DEF Next
<1> SUFFICES ASSUME ~overlap'
             PROVE  /\ OneRowEach'
                    /\ \A l, m \in DOMAIN links' : links'[l] = links'[m] => l = m
  BY DEF Once
<1>2. ~overlap
  BY <1>1, BootStep
<1>3. OneRowEach /\ \A l, m \in DOMAIN links : links[l] = links[m] => l = m
  BY <1>2 DEF Once
<1>4. \A b \in Boots : boot[b].at = "insert" /\ Running(b) => ~Present(Statement(b))
  BY <1>2 DEF FreshInv, Fresh
<1>5. questions \in Seq(QuestionRows) /\ links \in Seq(LinkRows)
  BY DEF IInv, RowInv
<1>6. ASSUME NEW b \in Boots, InsertQuestion(b) PROVE OneRowEach'
  <2>1. PICK s \in QuestionsToBe :
          s = Statement(b) /\ questions' = Append(questions, Row(s.course, s.i))
    BY <1>6, Inserted
  <2>2. Row(s.course, s.i) \in QuestionRows /\ Row(s.course, s.i).text = <<s.course, s.i>>
    BY DEF QuestionRows, Row
  <2>3. /\ Len(questions) \in Nat /\ DOMAIN questions = 1..Len(questions)
        /\ DOMAIN questions' = 1..(Len(questions) + 1)
        /\ \A q \in DOMAIN questions : questions'[q] = questions[q]
        /\ questions'[Len(questions) + 1] = Row(s.course, s.i)
    BY <1>5, <2>1, <2>2, Longer
  <2>4. ~Present(s)
    BY <1>4, <1>6, <2>1, Inserted DEF InsertQuestion
  <2>5. \A q \in DOMAIN questions : Text(q) # <<s.course, s.i>>
    BY <2>4 DEF Present, QuestionsToBe, Statements
  <2>6. ASSUME NEW p \in DOMAIN questions', NEW q \in DOMAIN questions',
               questions'[p].text = questions'[q].text
        PROVE  p = q
    <3>1. \A r \in DOMAIN questions' : r = Len(questions) + 1 \/ r \in DOMAIN questions
      BY <2>3
    <3>2. questions'[Len(questions) + 1].text = <<s.course, s.i>>
      BY <2>2, <2>3
    <3>3. \A r \in DOMAIN questions : questions'[r].text = Text(r)
      BY <2>3 DEF Text
    <3>4. \A r, t \in DOMAIN questions : Text(r) = Text(t) => r = t
      BY <1>3 DEF OneRowEach
    <3> QED BY <2>5, <2>6, <3>1, <3>2, <3>3, <3>4
  <2> QED BY <2>6 DEF OneRowEach, Text
<1>7. ASSUME NEW b \in Boots, InsertLink(b)
      PROVE  \A l, m \in DOMAIN links' : links'[l] = links'[m] => l = m
  <2>1. PICK s \in LinksToBe : s = Statement(b) /\ links' = Append(links, <<s.key, s.ord>>)
    BY <1>7, Inserted
  <2>2. <<s.key, s.ord>> \in LinkRows
    BY DEF LinkRows
  <2>3. /\ Len(links) \in Nat /\ DOMAIN links = 1..Len(links)
        /\ DOMAIN links' = 1..(Len(links) + 1)
        /\ \A l \in DOMAIN links : links'[l] = links[l]
        /\ links'[Len(links) + 1] = <<s.key, s.ord>>
    BY <1>5, <2>1, <2>2, Longer
  <2>4. ~Present(s)
    BY <1>4, <1>7, <2>1, Inserted DEF InsertLink
  <2>5. \A l \in DOMAIN links : links[l] # <<s.key, s.ord>>
    BY <2>4 DEF Present, LinksToBe, Statements
  <2>6. \A l \in DOMAIN links' : l = Len(links) + 1 \/ l \in DOMAIN links
    BY <2>3
  <2> QED BY <1>3, <2>3, <2>5, <2>6
<1>8. CASE questions' = questions
  <2>1. OneRowEach'
    BY <1>3, <1>8 DEF OneRowEach, Text
  <2> QED BY <1>3, <1>7, <2>1, Writers
<1>9. CASE links' = links
  <2>1. OneRowEach'
    BY <1>6, <1>8, <1>3, Writers DEF OneRowEach, Text
  <2> QED BY <1>3, <1>9, <2>1
<1>10. ASSUME NEW b \in Boots, InsertQuestion(b) PROVE links' = links
  BY <1>10 DEF InsertQuestion
<1> QED BY <1>8, <1>9, <1>10, Writers

(* A seed that ends, wherever the ones before it were cut short, leaves the catalogue whole and
   with no link twice, as long as two have never run at once: the catalogue of the files is
   what a boot is for, and a lookup before each insert is enough to get there by retrying. *)
AloneIsComplete ==
  ~overlap => \A b \in Boots : boot[b].pc > Len(Program) =>
    /\ Complete
    /\ \A s \in LinksToBe : \A l, m \in LinkPlaces(s) : l = m

THEOREM RetriesComplete == Spec => []AloneIsComplete
<1>1. Init => Once
  <2> SUFFICES ASSUME Init PROVE Once
    OBVIOUS
  <2>1. questions = <<>> /\ links = <<>> /\ DOMAIN <<>> = {}
    BY DEF Init
  <2> QED BY <2>1 DEF Once, OneRowEach
<1>2. IInv /\ FreshInv /\ Once /\ [Next]_vars => FreshInv' /\ Once'
  BY FreshStep, OnceStep
<1>3. IInv /\ Once => AloneIsComplete
  <2> SUFFICES ASSUME IInv, Once, ~overlap, NEW b \in Boots, boot[b].pc > Len(Program)
               PROVE  /\ Complete
                      /\ \A s \in LinksToBe : \A l, m \in LinkPlaces(s) : l = m
    BY DEF AloneIsComplete
  <2>1. OneRowEach /\ \A l, m \in DOMAIN links : links[l] = links[m] => l = m
    BY DEF Once
  <2>2. Complete
    BY <2>1, PresentIsComplete
  <2> QED BY <2>1, <2>2 DEF LinkPlaces
<1> QED BY <1>1, <1>2, <1>3, FreshInit, Invariant, PTL DEF Spec
=============================================================================
