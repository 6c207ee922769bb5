-------------------------------- MODULE Lemmas --------------------------------
(***************************************************************************)
(* What the proofs need of finite sets, of sums over them and of sequences *)
(* and the library does not state.                                         *)
(***************************************************************************)
EXTENDS Integers, SequencesExt, SequenceTheorems, FiniteSetTheorems, FunctionTheorems, TLAPS

-----------------------------------------------------------------------------
(* The sum of a function counts its units: f[x] of them for each x.  A set of counters that
   are all incremented one by one is easier to count than to fold. *)
Units(f, s)   == {u \in s \X Nat : u[2] \in 1..f[u[1]]}
Column(f, x)  == {x} \X (1..f[x])

LEMMA UnitsOf ==
  ASSUME NEW D, NEW f \in [D -> Nat], NEW s \in SUBSET D, NEW x \in s
  PROVE  /\ Units(f, s) = Units(f, s \ {x}) \cup Column(f, x)
         /\ Units(f, s \ {x}) \cap Column(f, x) = {}
         /\ IsFiniteSet(Column(f, x)) /\ Cardinality(Column(f, x)) = f[x]
<1>1. f[x] \in Nat
  OBVIOUS
<1>2. \A k \in 1..f[x] : k \in Nat
  BY <1>1
<1>3. Units(f, s) = Units(f, s \ {x}) \cup Column(f, x)
  BY <1>2 DEF Units, Column
<1>4. Units(f, s \ {x}) \cap Column(f, x) = {}
  BY DEF Units, Column
<1>5. IsFiniteSet({x}) /\ Cardinality({x}) = 1
  BY FS_Singleton
<1>6. IsFiniteSet(1..f[x]) /\ Cardinality(1..f[x]) = f[x]
  BY <1>1, FS_Interval
<1>7. IsFiniteSet(Column(f, x)) /\ Cardinality(Column(f, x)) = 1 * f[x]
  BY <1>5, <1>6, FS_Product DEF Column
<1> QED BY <1>1, <1>3, <1>4, <1>7

LEMMA UnitsFinite ==
  ASSUME NEW D, NEW f \in [D -> Nat], NEW s \in SUBSET D, IsFiniteSet(s)
  PROVE  IsFiniteSet(Units(f, s))
<1> DEFINE g == [x \in s |-> Column(f, x)]
           T == {g[x] : x \in s}
<1>1. g \in Surjection(s, T)
  BY DEF Surjection
<1>2. IsFiniteSet(T)
  BY <1>1, FS_Surjection
<1>3. \A x \in s : IsFiniteSet(g[x])
  BY UnitsOf
<1>4. IsFiniteSet(UNION T)
  BY <1>2, <1>3, FS_UNION
<1>5. Units(f, s) \subseteq UNION T
  BY DEF Units, Column
<1> QED BY <1>4, <1>5, FS_Subset

LEMMA UnitsGrow ==
  ASSUME NEW D, NEW f \in [D -> Nat], NEW s \in SUBSET D, IsFiniteSet(s), NEW x \in s
  PROVE  /\ Cardinality(Units(f, s)) = f[x] + Cardinality(Units(f, s \ {x}))
         /\ Cardinality(Units(f, s)) \in Nat /\ Cardinality(Units(f, s \ {x})) \in Nat
<1> DEFINE A == Units(f, s \ {x})
           B == Column(f, x)
<1>1. IsFiniteSet(A) /\ s \ {x} \in SUBSET D
  BY UnitsFinite, FS_RemoveElement
<1>2. Units(f, s) = A \cup B /\ A \cap B = {} /\ IsFiniteSet(B) /\ Cardinality(B) = f[x]
  BY UnitsOf
<1>3. IsFiniteSet(A \cup B)
      /\ Cardinality(A \cup B) = Cardinality(A) + Cardinality(B) - Cardinality(A \cap B)
  BY <1>1, <1>2, FS_Union
<1>4. Cardinality(A \cap B) = 0 /\ Cardinality(A) \in Nat /\ f[x] \in Nat
  BY <1>1, <1>2, FS_EmptySet, FS_CardinalityType
<1> HIDE DEF A, B
<1>5. Cardinality(Units(f, s)) = f[x] + Cardinality(A)
  BY <1>2, <1>3, <1>4
<1> QED BY <1>4, <1>5 DEF A

(* Whichever order the fold takes them in, it adds up every value once. *)
LEMMA SumIsCount ==
  ASSUME NEW D, IsFiniteSet(D), NEW f \in [D -> Nat]
  PROVE  SumFunction(f) = Cardinality(Units(f, D))
<1> DEFINE c(s) == CHOOSE x \in s : TRUE
           Sum(g) == g = [s \in SUBSET D |-> IF s = {} THEN 0 ELSE f[c(s)] + g[s \ {c(s)}]]
           iter == CHOOSE g : Sum(g)
           total == [s \in SUBSET D |-> Cardinality(Units(f, s))]
<1>1. SumFunction(f) = iter[D]
  BY DEF SumFunction, SumFunctionOnSet, FoldFunctionOnSet, MapThenFoldSet
<1>2. \A s : s # {} => c(s) \in s
  OBVIOUS
<1> HIDE DEF c
<1>3. \A s \in SUBSET D : IsFiniteSet(s) /\ s \ {c(s)} \in SUBSET D
  BY FS_Subset
<1>4. \A s \in SUBSET D :
        Cardinality(Units(f, s)) =
          IF s = {} THEN 0 ELSE f[c(s)] + Cardinality(Units(f, s \ {c(s)}))
  <2> TAKE s \in SUBSET D
  <2>1. CASE s = {}
    <3>1. Units(f, s) = {}
      BY <2>1 DEF Units
    <3> QED BY <2>1, <3>1, FS_EmptySet
  <2>2. CASE s # {}
    BY <1>2, <1>3, <2>2, UnitsGrow
  <2> QED BY <2>1, <2>2
<1>5. Sum(total)
  <2>1. total = [s \in SUBSET D |-> total[s]]
        /\ \A s \in SUBSET D : total[s] = IF s = {} THEN 0 ELSE f[c(s)] + total[s \ {c(s)}]
    BY <1>3, <1>4
  <2> HIDE DEF total
  <2>2. total = [s \in SUBSET D |-> IF s = {} THEN 0 ELSE f[c(s)] + total[s \ {c(s)}]]
    BY <2>1
  <2> QED BY <2>2
<1>6. Sum(iter)
  BY <1>5
<1> HIDE DEF iter, total
<1>7. \A s \in SUBSET D : iter[s] = IF s = {} THEN 0 ELSE f[c(s)] + iter[s \ {c(s)}]
  BY <1>6
<1> HIDE DEF Sum
<1> DEFINE Wrong == {s \in SUBSET D : iter[s] # Cardinality(Units(f, s))}
<1>8. Wrong = {}
  <2> SUFFICES ASSUME Wrong # {} PROVE FALSE
    OBVIOUS
  <2>1. Wrong \subseteq FiniteSubsetsOf(D)
    BY <1>3 DEF FiniteSubsetsOf
  <2>2. IsWellFoundedOn(StrictSubsetOrdering(D), FiniteSubsetsOf(D))
    BY FS_StrictSubsetOrderingWellFounded
  <2> HIDE DEF Wrong
  <2>3. PICK s \in Wrong : \A t \in Wrong : ~(<<t, s>> \in StrictSubsetOrdering(D))
    BY <2>1, <2>2, WFMin
  <2> USE DEF Wrong
  <2>4. CASE s = {}
    BY <1>4, <1>7, <2>3, <2>4
  <2>5. CASE s # {}
    <3> DEFINE t == s \ {c(s)}
    <3>1. t \in SUBSET D /\ t \subseteq s /\ t # s
      BY <1>2, <2>5
    <3>2. <<t, s>> \in StrictSubsetOrdering(D)
      BY <3>1 DEF StrictSubsetOrdering
    <3>3. iter[t] = Cardinality(Units(f, t))
      BY <2>3, <3>1, <3>2
    <3> QED BY <1>4, <1>7, <2>5, <3>3
  <2> QED BY <2>4, <2>5
<1> QED BY <1>1, <1>8

(* One more of anything is one more in all, and nothing at all is none. *)
LEMMA SumPlusOne ==
  ASSUME NEW D, IsFiniteSet(D), NEW f \in [D -> Nat], NEW x \in D
  PROVE  /\ [f EXCEPT ![x] = @ + 1] \in [D -> Nat]
         /\ SumFunction([f EXCEPT ![x] = @ + 1]) = SumFunction(f) + 1
         /\ SumFunction(f) \in Nat
<1> DEFINE g == [f EXCEPT ![x] = @ + 1]
<1>1. /\ g \in [D -> Nat] /\ f[x] \in Nat /\ g[x] = f[x] + 1
      /\ \A y \in D : y # x => g[y] = f[y]
  OBVIOUS
<1> HIDE DEF g
<1>2. Units(g, D \ {x}) = Units(f, D \ {x})
  BY <1>1 DEF Units
<1>3. /\ Cardinality(Units(f, D)) = f[x] + Cardinality(Units(f, D \ {x}))
      /\ Cardinality(Units(g, D)) = g[x] + Cardinality(Units(g, D \ {x}))
      /\ Cardinality(Units(f, D)) \in Nat /\ Cardinality(Units(f, D \ {x})) \in Nat
  BY <1>1, UnitsGrow
<1>4. SumFunction(f) = Cardinality(Units(f, D)) /\ SumFunction(g) = Cardinality(Units(g, D))
  BY <1>1, SumIsCount
<1>5. SumFunction(g) = SumFunction(f) + 1 /\ SumFunction(f) \in Nat
  BY <1>1, <1>2, <1>3, <1>4
<1> QED BY <1>1, <1>5 DEF g

LEMMA SumOfZeros ==
  ASSUME NEW D, IsFiniteSet(D)
  PROVE  SumFunction([x \in D |-> 0]) = 0
<1> DEFINE f == [x \in D |-> 0]
<1>1. f \in [D -> Nat] /\ \A x \in D : f[x] = 0
  OBVIOUS
<1> HIDE DEF f
<1>2. Units(f, D) = {}
  BY <1>1 DEF Units
<1>3. SumFunction(f) = 0
  BY <1>1, <1>2, SumIsCount, FS_EmptySet
<1> QED BY <1>3 DEF f

(* A sum is not more than one that exceeds it term by term. *)
LEMMA SumNotMore ==
  ASSUME NEW D, IsFiniteSet(D), NEW f \in [D -> Nat], NEW g \in [D -> Nat],
         \A x \in D : f[x] <= g[x]
  PROVE  SumFunction(f) \in Nat /\ SumFunction(g) \in Nat /\ SumFunction(f) <= SumFunction(g)
<1>1. IsFiniteSet(Units(f, D)) /\ IsFiniteSet(Units(g, D))
  BY UnitsFinite
<1>2. Units(f, D) \subseteq Units(g, D)
  <2> SUFFICES ASSUME NEW x \in D, NEW k \in Nat, k \in 1..f[x] PROVE k \in 1..g[x]
    BY DEF Units
  <2>1. f[x] \in Nat /\ g[x] \in Nat /\ f[x] <= g[x]
    OBVIOUS
  <2> QED BY <2>1
<1> QED BY <1>1, <1>2, SumIsCount, FS_Subset, FS_CardinalityType

-----------------------------------------------------------------------------
(* Any finite set can be put in any total order: an element's place is how many do not come
   after it. *)
LEMMA Arranged ==
  ASSUME NEW S, IsFiniteSet(S), NEW R,
         \A x \in S : <<x, x>> \notin R,
         \A x, y \in S : x # y => <<x, y>> \in R \/ <<y, x>> \in R,
         \A x, y, z \in S : <<x, y>> \in R /\ <<y, z>> \in R => <<x, z>> \in R
  PROVE  \E s \in [1..Cardinality(S) -> S] :
           \A i, j \in 1..Cardinality(S) : i < j => <<s[i], s[j]>> \in R
<1> DEFINE UpTo(x) == {y \in S : <<y, x>> \in R \/ y = x}
           n == Cardinality(S)
           place == [x \in S |-> Cardinality(UpTo(x))]
<1>1. n \in Nat
  BY FS_CardinalityType
<1>2. \A x \in S : IsFiniteSet(UpTo(x)) /\ Cardinality(UpTo(x)) \in 1..n
  <2> TAKE x \in S
  <2>1. IsFiniteSet(UpTo(x)) /\ Cardinality(UpTo(x)) <= n
    BY FS_Subset
  <2>2. Cardinality(UpTo(x)) \in Nat /\ UpTo(x) # {}
    BY <2>1, FS_CardinalityType
  <2>3. Cardinality(UpTo(x)) # 0
    BY <2>1, <2>2, FS_EmptySet
  <2> QED BY <1>1, <2>1, <2>2, <2>3
<1>3. \A x, y \in S : <<x, y>> \in R => place[x] < place[y]
  <2> SUFFICES ASSUME NEW x \in S, NEW y \in S, <<x, y>> \in R PROVE place[x] < place[y]
    OBVIOUS
  <2>1. UpTo(x) \in SUBSET UpTo(y) /\ y \in UpTo(y) /\ y \notin UpTo(x)
    OBVIOUS
  <2>2. /\ Cardinality(UpTo(x)) <= Cardinality(UpTo(y))
        /\ Cardinality(UpTo(y)) # Cardinality(UpTo(x))
    BY <1>2, <2>1, FS_Subset
  <2>3. Cardinality(UpTo(x)) \in Nat /\ Cardinality(UpTo(y)) \in Nat
    BY <1>2
  <2> QED BY <2>2, <2>3
<1>4. place \in [S -> 1..n]
  BY <1>2
<1> HIDE DEF place, UpTo
<1>5. ASSUME NEW x \in S, NEW y \in S, x # y PROVE place[x] # place[y]
  <2>1. <<x, y>> \in R \/ <<y, x>> \in R
    BY <1>5
  <2>2. place[x] \in Int /\ place[y] \in Int
    BY <1>1, <1>4
  <2>3. place[x] < place[y] \/ place[y] < place[x]
    BY <1>3, <2>1
  <2> QED BY <2>2, <2>3
<1>6. place \in Surjection(S, 1..n)
  <2>1. place \in Injection(S, 1..n)
    BY <1>4, <1>5 DEF Injection, IsInjective
  <2>2. IsFiniteSet(1..n) /\ Cardinality(1..n) = n
    BY <1>1, FS_Interval
  <2> QED BY <2>1, <2>2, FS_Injection
<1>7. \A i \in 1..n : \E x \in S : place[x] = i
  BY <1>6 DEF Surjection
<1> DEFINE s == [i \in 1..n |-> CHOOSE x \in S : place[x] = i]
<1>8. s \in [1..n -> S] /\ \A i \in 1..n : place[s[i]] = i
  BY <1>7
<1> HIDE DEF s
<1>9. ASSUME NEW i \in 1..n, NEW j \in 1..n, i < j PROVE <<s[i], s[j]>> \in R
  <2>1. i # j /\ ~(j < i) /\ s[i] \in S /\ s[j] \in S
    BY <1>1, <1>8, <1>9
  <2>2. s[i] # s[j] /\ ~(<<s[j], s[i]>> \in R)
    BY <1>3, <1>8, <2>1
  <2> QED BY <2>1, <2>2
<1> QED BY <1>8, <1>9 DEF n

(* A sequence as long as a set, of elements of it and no two alike, holds all of them. *)
LEMMA Listed ==
  ASSUME NEW S, IsFiniteSet(S), NEW s \in [1..Cardinality(S) -> S],
         \A i, j \in 1..Cardinality(S) : i < j => s[i] # s[j]
  PROVE  /\ Cardinality(S) \in Nat
         /\ s \in Seq(S) /\ Len(s) = Cardinality(S) /\ DOMAIN s = 1..Cardinality(S)
         /\ Range(s) = S
         /\ \A i, j \in 1..Cardinality(S) : s[i] = s[j] => i = j
<1> DEFINE n == Cardinality(S)
<1>1. n \in Nat
  BY FS_CardinalityType
<1>2. IsFiniteSet(1..n) /\ Cardinality(1..n) = n
  BY <1>1, FS_Interval
<1>3. \A i, j \in 1..n : s[i] = s[j] => i = j
  BY <1>1
<1>4. s \in Injection(1..n, S)
  BY <1>3 DEF Injection, IsInjective
<1>5. s \in Surjection(1..n, S)
  BY <1>2, <1>4, FS_Injection
<1>6. Range(s) = S
  BY <1>5 DEF Range, Surjection
<1>7. s \in Seq(S) /\ Len(s) = n
  BY <1>1, SeqDef, LenProperties
<1> QED BY <1>1, <1>3, <1>6, <1>7

-----------------------------------------------------------------------------
(* The least of some places: the prefixes of 1..n are well-founded. *)
LEMMA LeastPlace ==
  ASSUME NEW n \in Nat, NEW I \in SUBSET (1..n), I # {}
  PROVE  Min(I) \in I /\ \A i \in I : Min(I) <= i
<1> DEFINE Starts == {1..k : k \in I}
<1>1. IsFiniteSet(1..n)
  BY FS_Interval
<1>2. Starts \subseteq FiniteSubsetsOf(1..n)
  BY <1>1, FS_Subset DEF FiniteSubsetsOf
<1>3. IsWellFoundedOn(StrictSubsetOrdering(1..n), FiniteSubsetsOf(1..n))
  BY <1>1, FS_StrictSubsetOrderingWellFounded
<1>4. Starts # {}
  OBVIOUS
<1> HIDE DEF Starts
<1>5. PICK s \in Starts : \A t \in Starts : ~(<<t, s>> \in StrictSubsetOrdering(1..n))
  BY <1>2, <1>3, <1>4, WFMin
<1>6. PICK x \in I : s = 1..x
  BY <1>5 DEF Starts
<1>7. ASSUME NEW y \in I PROVE x <= y
  <2> SUFFICES ASSUME y < x PROVE FALSE
    OBVIOUS
  <2>1. 1..y \subseteq 1..n /\ 1..x \subseteq 1..n /\ 1..y \subseteq 1..x /\ 1..y # 1..x
    OBVIOUS
  <2>2. <<1..y, 1..x>> \in StrictSubsetOrdering(1..n)
    BY <2>1 DEF StrictSubsetOrdering
  <2>3. 1..y \in Starts
    BY DEF Starts
  <2> QED BY <1>5, <1>6, <2>2, <2>3
<1> QED BY <1>7 DEF Min

(* A set of places that holds the first, and with each the next, holds all. *)
LEMMA Climb ==
  ASSUME NEW n \in Nat, NEW K, n # 0 => 1 \in K,
         \A k \in 1..n : k \in K /\ k # n => k + 1 \in K
  PROVE  1..n \subseteq K
<1> DEFINE I == (1..n) \ K
<1> SUFFICES ASSUME I # {} PROVE FALSE
  OBVIOUS
<1>1. I \in SUBSET (1..n)
  OBVIOUS
<1>2. Min(I) \in I /\ \A i \in I : Min(I) <= i
  BY <1>1, LeastPlace
<1> DEFINE k == Min(I)
<1>3. k \in 1..n /\ k \notin K /\ \A i \in I : k <= i
  BY <1>2
<1> HIDE DEF k
<1>4. k # 1 /\ k - 1 \in 1..n /\ k - 1 # n /\ (k - 1) + 1 = k
  BY <1>3
<1>5. k - 1 \in K
  BY <1>3, <1>4
<1> QED BY <1>3, <1>4, <1>5
=============================================================================
