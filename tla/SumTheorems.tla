----------------------------- MODULE SumTheorems -----------------------------
(***************************************************************************)
(* Induction over numbers and over finite sets, with sets in place of      *)
(* formulas, and what MapThenSumSet of the community modules adds up: the  *)
(* sum of natural numbers over a finite set is the number of pairs of an   *)
(* element and a number up to its own, that of integers the difference of  *)
(* two such numbers.                                                       *)
(***************************************************************************)
EXTENDS Integers, FiniteSetsExt, FiniteSetTheorems, WellFoundedInduction, TLAPS

\* Every set of natural numbers that is not empty has a least element.
LEMMA LeastNumber ==
  ASSUME NEW T \in SUBSET Nat, T # {}
  PROVE  \E n \in T : \A m \in T : n <= m
<1> DEFINE Less == {ss \in Nat \X Nat : ss[1] < ss[2]}
<1>1. IsWellFoundedOn(Less, Nat)
  BY NatLessThanWellFounded DEF OpToRel
<1>2. \A i, j \in Nat : i < j => <<i, j>> \in Less
  OBVIOUS
<1> HIDE DEF Less
<1>3. PICK n \in T : \A m \in T : <<m, n>> \notin Less
  BY <1>1, WFMin
<1>4. \A m \in T : m \in Nat /\ n \in Nat /\ ~(m < n)
  BY <1>2, <1>3
<1>5. \A m \in T : n <= m
  BY <1>4
<1> QED BY <1>5

\* A set of numbers that has 0 and the successors of its members has them all.
LEMMA NumberInduction ==
  ASSUME NEW P \in SUBSET Nat, 0 \in P, \A n \in P : n + 1 \in P
  PROVE  P = Nat
<1> SUFFICES ASSUME Nat \ P # {} PROVE FALSE
  OBVIOUS
<1>1. PICK n \in Nat \ P : \A m \in Nat \ P : n <= m
  BY LeastNumber
<1>2. n # 0 /\ n - 1 \in Nat
  BY <1>1
<1>3. n - 1 \in P
  BY <1>1, <1>2
<1> QED BY <1>1, <1>2, <1>3

\* A set of subsets of a finite set that has the empty one, and with each one
\* those with one element more, has them all.
LEMMA SetInduction ==
  ASSUME NEW S, IsFiniteSet(S), NEW P \in SUBSET (SUBSET S), {} \in P,
         \A T \in P : \A x \in S : T \cup {x} \in P
  PROVE  P = SUBSET S
<1> DEFINE N == {n \in Nat : \A T \in SUBSET S : Cardinality(T) = n => T \in P}
<1>0. \A T \in SUBSET S : IsFiniteSet(T) /\ Cardinality(T) \in Nat
  BY FS_Subset, FS_CardinalityType
<1>1. 0 \in N
  BY <1>0, FS_EmptySet
<1>2. ASSUME NEW n \in N PROVE n + 1 \in N
  <2> SUFFICES ASSUME NEW T \in SUBSET S, Cardinality(T) = n + 1 PROVE T \in P
    OBVIOUS
  <2>0. n \in Nat /\ IsFiniteSet(T)
    BY <1>0
  <2>1. PICK x \in T : TRUE
    BY <2>0, FS_EmptySet
  <2>2. T \ {x} \in SUBSET S /\ Cardinality(T \ {x}) = n
    <3>1. Cardinality(T \ {x}) = Cardinality(T) - 1
      BY <2>0, FS_RemoveElement
    <3> QED BY <2>0, <3>1
  <2>3. T \ {x} \in P
    BY <2>2
  <2>4. T = (T \ {x}) \cup {x}
    BY <2>1
  <2> QED BY <2>1, <2>3, <2>4
<1>3. N \in SUBSET Nat
  OBVIOUS
<1> HIDE DEF N
<1>4. N = Nat
  BY <1>1, <1>2, <1>3, NumberInduction
<1> QED BY <1>0, <1>4 DEF N

-----------------------------------------------------------------------------
Pairs(f, S) == UNION {{x} \X (1..f[x]) : x \in S}

Total(f, S) == Cardinality(Pairs(f, S))

\* What the fold of MapThenSumSet satisfies on the subsets of S.
Pick(s) == CHOOSE x \in s : TRUE

IsSum(sum, f, S) ==
    sum = [s \in SUBSET S |-> IF s = {} THEN 0 ELSE f[Pick(s)] + sum[s \ {Pick(s)}]]

\* The pairs of one element more.
LEMMA PairsOfMore ==
  ASSUME NEW D, NEW f \in [D -> Nat], NEW S \in SUBSET D, NEW x \in D,
         IsFiniteSet(Pairs(f, S))
  PROVE  /\ IsFiniteSet(Pairs(f, S \cup {x}))
         /\ x \notin S => Total(f, S \cup {x}) = Total(f, S) + f[x]
<1> DEFINE Q == {x} \X (1..f[x])
<1>1. Pairs(f, S \cup {x}) = Pairs(f, S) \cup Q
  BY DEF Pairs
<1>2. IsFiniteSet(Q) /\ Cardinality(Q) = f[x]
  <2>1. IsFiniteSet({x}) /\ Cardinality({x}) = 1
    BY FS_Singleton
  <2>2. f[x] \in Nat
    OBVIOUS
  <2>3. IsFiniteSet(1..f[x]) /\ Cardinality(1..f[x]) = f[x]
    BY <2>2, FS_Interval
  <2>4. IsFiniteSet(Q) /\ Cardinality(Q) = Cardinality({x}) * Cardinality(1..f[x])
    BY <2>1, <2>3, FS_Product
  <2> QED BY <2>1, <2>2, <2>3, <2>4
<1>3. x \notin S => Pairs(f, S) \cap Q = {}
  BY DEF Pairs
<1> HIDE DEF Q
<1>4. /\ IsFiniteSet(Pairs(f, S) \cup Q)
      /\ Cardinality(Pairs(f, S) \cup Q)
           = Cardinality(Pairs(f, S)) + Cardinality(Q) - Cardinality(Pairs(f, S) \cap Q)
  BY <1>2, FS_Union
<1>5. Cardinality(Pairs(f, S)) \in Nat /\ f[x] \in Nat
  BY FS_CardinalityType
<1>6. x \notin S => Cardinality(Pairs(f, S) \cap Q) = 0
  BY <1>3, FS_EmptySet
<1>7. x \notin S => Cardinality(Pairs(f, S) \cup Q) = Cardinality(Pairs(f, S)) + f[x]
  BY <1>2, <1>4, <1>5, <1>6
<1> QED BY <1>1, <1>4, <1>7 DEF Total

\* Over a finite set a total is a number; it is 0 over none, and an element
\* more adds its value.
LEMMA TotalFacts ==
  ASSUME NEW D, NEW f \in [D -> Nat], NEW S \in SUBSET D, IsFiniteSet(S)
  PROVE  /\ Total(f, S) \in Nat
         /\ Total(f, {}) = 0
         /\ \A x \in D \ S : Total(f, S \cup {x}) = Total(f, S) + f[x]
         /\ \A x \in S : Total(f, S) = Total(f, S \ {x}) + f[x]
<1> DEFINE P == {T \in SUBSET S : IsFiniteSet(Pairs(f, T))}
<1>1. {} \in P /\ Total(f, {}) = 0
  <2>1. Pairs(f, {}) = {}
    BY DEF Pairs
  <2> QED BY <2>1, FS_EmptySet DEF Total
<1>2. ASSUME NEW T \in P, NEW x \in S PROVE T \cup {x} \in P
  BY PairsOfMore
<1>3. P \in SUBSET (SUBSET S)
  OBVIOUS
<1>4. P = SUBSET S
  <2> HIDE DEF P
  <2> QED BY <1>1, <1>2, <1>3, SetInduction
<1>5. \A T \in SUBSET S : IsFiniteSet(Pairs(f, T)) /\ T \in SUBSET D
  BY <1>4
<1>6. Total(f, S) \in Nat
  BY <1>5, FS_CardinalityType DEF Total
<1>7. \A x \in D \ S : Total(f, S \cup {x}) = Total(f, S) + f[x]
  BY <1>5, PairsOfMore
<1>8. ASSUME NEW x \in S PROVE Total(f, S) = Total(f, S \ {x}) + f[x]
  <2>1. (S \ {x}) \cup {x} = S /\ S \ {x} \in SUBSET D /\ x \in D
    OBVIOUS
  <2>2. IsFiniteSet(Pairs(f, S \ {x}))
    BY <1>5
  <2> QED BY <2>1, <2>2, PairsOfMore
<1> QED BY <1>1, <1>6, <1>7, <1>8

\* Values outside the set do not count.
LEMMA TotalAgrees ==
  ASSUME NEW S, NEW f, NEW g, \A x \in S : f[x] = g[x]
  PROVE  Total(f, S) = Total(g, S)
<1>1. Pairs(f, S) = Pairs(g, S)
  BY DEF Pairs
<1> QED BY <1>1 DEF Total

\* What satisfies the equation of a sum on the subsets of S, whichever element
\* it takes first, is the fold, and there is one.
LEMMA SumIsUnique ==
  ASSUME NEW S, IsFiniteSet(S), NEW f \in [S -> Int],
         NEW total \in [SUBSET S -> Int], total[{}] = 0,
         \A s \in SUBSET S : \A x \in s : total[s] = f[x] + total[s \ {x}]
  PROVE  /\ \E sum : IsSum(sum, f, S)
         /\ \A sum : IsSum(sum, f, S) => sum[S] = total[S]
<1>1. \A s \in SUBSET S : s # {} => Pick(s) \in s
  BY DEF Pick
<1>2. \A s \in SUBSET S : IsFiniteSet(s) /\ Cardinality(s) \in Nat
  BY FS_Subset, FS_CardinalityType
<1>3. \A s \in SUBSET S :
        total[s] = IF s = {} THEN 0 ELSE f[Pick(s)] + total[s \ {Pick(s)}]
  BY <1>1
<1>4. \E sum : IsSum(sum, f, S)
  <2>1. total = [s \in SUBSET S |-> total[s]]
    OBVIOUS
  <2>2. total = [s \in SUBSET S |->
                   IF s = {} THEN 0 ELSE f[Pick(s)] + total[s \ {Pick(s)}]]
    BY <1>3, <2>1
  <2> QED BY <2>2 DEF IsSum
<1>5. ASSUME NEW sum, IsSum(sum, f, S) PROVE sum[S] = total[S]
  <2>1. \A s \in SUBSET S :
          sum[s] = IF s = {} THEN 0 ELSE f[Pick(s)] + sum[s \ {Pick(s)}]
    BY <1>5 DEF IsSum
  <2> DEFINE N == {n \in Nat : \A s \in SUBSET S : Cardinality(s) = n => sum[s] = total[s]}
  <2>2. 0 \in N
    BY <1>2, <1>3, <2>1, FS_EmptySet
  <2>3. ASSUME NEW n \in N PROVE n + 1 \in N
    <3> SUFFICES ASSUME NEW s \in SUBSET S, Cardinality(s) = n + 1
                 PROVE  sum[s] = total[s]
      OBVIOUS
    <3>0. n \in Nat /\ IsFiniteSet(s)
      BY <1>2
    <3>1. s # {}
      BY <3>0, FS_EmptySet
    <3>2. PICK x \in s : x = Pick(s)
      BY <1>1, <3>1
    <3>3. s \ {x} \in SUBSET S /\ Cardinality(s \ {x}) = n
      <4>1. Cardinality(s \ {x}) = Cardinality(s) - 1
        BY <3>0, FS_RemoveElement
      <4> QED BY <3>0, <4>1
    <3>4. sum[s] = f[x] + sum[s \ {x}]
      BY <2>1, <3>1, <3>2
    <3>5. sum[s \ {x}] = total[s \ {x}]
      BY <3>3
    <3> QED BY <3>4, <3>5
  <2>4. N \in SUBSET Nat
    OBVIOUS
  <2> HIDE DEF N
  <2>5. N = Nat
    BY <2>2, <2>3, <2>4, NumberInduction
  <2> QED BY <1>2, <2>5 DEF N
<1> QED BY <1>4, <1>5

\* The sum of natural numbers is the total.
LEMMA SumIsTotal ==
  ASSUME NEW S, IsFiniteSet(S), NEW f \in [S -> Nat]
  PROVE  /\ \E sum : IsSum(sum, f, S)
         /\ \A sum : IsSum(sum, f, S) => sum[S] = Total(f, S)
<1>1. \A s \in SUBSET S : IsFiniteSet(s) /\ f \in [S -> Nat]
  BY FS_Subset
<1>2. PICK total : total = [s \in SUBSET S |-> Total(f, s)]
  OBVIOUS
<1>3. ASSUME NEW s \in SUBSET S, NEW x \in s
      PROVE  Total(f, s) = f[x] + Total(f, s \ {x})
  <2>1. s \ {x} \in SUBSET S /\ f[x] \in Nat
    OBVIOUS
  <2>2. Total(f, s) = Total(f, s \ {x}) + f[x]
    BY <1>1, TotalFacts
  <2>3. Total(f, s \ {x}) \in Nat
    BY <1>1, <2>1, TotalFacts
  <2> QED BY <2>1, <2>2, <2>3
<1>4. total \in [SUBSET S -> Int]
  <2>1. \A s \in SUBSET S : Total(f, s) \in Int
    BY <1>1, TotalFacts
  <2> QED BY <1>2, <2>1
<1>5. total[{}] = 0 /\ total[S] = Total(f, S)
  BY <1>2, TotalFacts
<1>6. \A s \in SUBSET S : \A x \in s : total[s] = f[x] + total[s \ {x}]
  BY <1>2, <1>3
<1>7. f \in [S -> Int]
  OBVIOUS
<1> QED BY <1>4, <1>5, <1>6, <1>7, SumIsUnique

-----------------------------------------------------------------------------
Gains(f) == [x \in DOMAIN f |-> IF f[x] > 0 THEN f[x] ELSE 0]
Losses(f) == [x \in DOMAIN f |-> IF f[x] > 0 THEN 0 ELSE -f[x]]

Balance(f, S) == Total(Gains(f), S) - Total(Losses(f), S)

\* Over a finite set a balance is an integer; it is 0 over none, and an element
\* more adds its value.
LEMMA BalanceFacts ==
  ASSUME NEW D, NEW f \in [D -> Int], NEW S \in SUBSET D, IsFiniteSet(S)
  PROVE  /\ Balance(f, S) \in Int
         /\ Balance(f, {}) = 0
         /\ \A x \in D \ S : Balance(f, S \cup {x}) = Balance(f, S) + f[x]
         /\ \A x \in S : Balance(f, S) = Balance(f, S \ {x}) + f[x]
<1>1. PICK g, h : g = Gains(f) /\ h = Losses(f)
  OBVIOUS
<1>2. /\ g \in [D -> Nat] /\ h \in [D -> Nat]
      /\ \A x \in D : f[x] = g[x] - h[x]
  BY <1>1 DEF Gains, Losses
<1>3. \A s : Balance(f, s) = Total(g, s) - Total(h, s)
  BY <1>1 DEF Balance
<1>4. ASSUME NEW k \in [D -> Nat] PROVE Total(k, {}) = 0 /\ Total(k, S) \in Nat
  BY TotalFacts
<1>5. /\ Total(g, {}) = 0 /\ Total(h, {}) = 0
      /\ Total(g, S) \in Nat /\ Total(h, S) \in Nat
  BY <1>2, <1>4
<1>6. ASSUME NEW x \in D \ S PROVE Balance(f, S \cup {x}) = Balance(f, S) + f[x]
  <2>0. ASSUME NEW k \in [D -> Nat] PROVE Total(k, S \cup {x}) = Total(k, S) + k[x]
    BY <1>6, TotalFacts
  <2>1. /\ Total(g, S \cup {x}) = Total(g, S) + g[x]
        /\ Total(h, S \cup {x}) = Total(h, S) + h[x]
    BY <1>2, <2>0
  <2>2. g[x] \in Nat /\ h[x] \in Nat /\ f[x] = g[x] - h[x]
    BY <1>2
  <2> QED BY <1>3, <1>5, <2>1, <2>2
<1>7. ASSUME NEW x \in S PROVE Balance(f, S) = Balance(f, S \ {x}) + f[x]
  <2>1. S \ {x} \in SUBSET D /\ IsFiniteSet(S \ {x})
    BY FS_RemoveElement
  <2>0. ASSUME NEW k \in [D -> Nat]
        PROVE  Total(k, S) = Total(k, S \ {x}) + k[x] /\ Total(k, S \ {x}) \in Nat
    BY <1>7, <2>1, TotalFacts
  <2>2. /\ Total(g, S) = Total(g, S \ {x}) + g[x]
        /\ Total(h, S) = Total(h, S \ {x}) + h[x]
    BY <1>2, <2>0
  <2>3. Total(g, S \ {x}) \in Nat /\ Total(h, S \ {x}) \in Nat
    BY <1>2, <2>0
  <2>4. g[x] \in Nat /\ h[x] \in Nat /\ f[x] = g[x] - h[x]
    BY <1>2
  <2> QED BY <1>3, <2>2, <2>3, <2>4
<1>8. Balance(f, S) \in Int /\ Balance(f, {}) = 0
  BY <1>3, <1>5
<1> QED BY <1>6, <1>7, <1>8

\* Values outside the set do not count.
LEMMA BalanceAgrees ==
  ASSUME NEW D, NEW f \in [D -> Int], NEW S \in SUBSET D, NEW g \in [S -> Int],
         \A x \in S : f[x] = g[x]
  PROVE  Balance(f, S) = Balance(g, S)
<1>1. /\ \A x \in S : Gains(f)[x] = Gains(g)[x]
      /\ \A x \in S : Losses(f)[x] = Losses(g)[x]
  BY DEF Gains, Losses
<1>2. /\ Total(Gains(f), S) = Total(Gains(g), S)
      /\ Total(Losses(f), S) = Total(Losses(g), S)
  BY <1>1, TotalAgrees
<1> QED BY <1>2 DEF Balance

\* The sum of integers is the balance.
LEMMA SumIsBalance ==
  ASSUME NEW S, IsFiniteSet(S), NEW f \in [S -> Int]
  PROVE  /\ \E sum : IsSum(sum, f, S)
         /\ \A sum : IsSum(sum, f, S) => sum[S] = Balance(f, S)
<1>1. \A s \in SUBSET S : IsFiniteSet(s) /\ f \in [S -> Int]
  BY FS_Subset
<1>2. PICK total : total = [s \in SUBSET S |-> Balance(f, s)]
  OBVIOUS
<1>3. ASSUME NEW s \in SUBSET S, NEW x \in s
      PROVE  Balance(f, s) = f[x] + Balance(f, s \ {x})
  <2>1. s \ {x} \in SUBSET S /\ f[x] \in Int
    OBVIOUS
  <2>2. Balance(f, s) = Balance(f, s \ {x}) + f[x]
    BY <1>1, BalanceFacts
  <2>3. Balance(f, s \ {x}) \in Int
    BY <1>1, <2>1, BalanceFacts
  <2> QED BY <2>1, <2>2, <2>3
<1>4. total \in [SUBSET S -> Int]
  <2>1. \A s \in SUBSET S : Balance(f, s) \in Int
    BY <1>1, BalanceFacts
  <2> QED BY <1>2, <2>1
<1>5. total[{}] = 0 /\ total[S] = Balance(f, S)
  BY <1>2, BalanceFacts
<1>6. \A s \in SUBSET S : \A x \in s : total[s] = f[x] + total[s \ {x}]
  BY <1>2, <1>3
<1> QED BY <1>4, <1>5, <1>6, SumIsUnique

Combined(a, f, b, g, c, h, S) == [x \in S |-> a * f[x] + b * g[x] + c * h[x]]

\* A sum of combinations is the combination of the sums.
LEMMA BalanceIsLinear ==
  ASSUME NEW S, IsFiniteSet(S)
  PROVE  \A f, g, h \in [S -> Int] : \A a, b, c \in Int :
           Balance(Combined(a, f, b, g, c, h, S), S)
             = a * Balance(f, S) + b * Balance(g, S) + c * Balance(h, S)
<1> SUFFICES ASSUME NEW f \in [S -> Int], NEW g \in [S -> Int], NEW h \in [S -> Int],
                    NEW a \in Int, NEW b \in Int, NEW c \in Int
             PROVE  Balance(Combined(a, f, b, g, c, h, S), S)
                      = a * Balance(f, S) + b * Balance(g, S) + c * Balance(h, S)
  OBVIOUS
<1>1. PICK q : q = Combined(a, f, b, g, c, h, S)
  OBVIOUS
<1>2. /\ q \in [S -> Int]
      /\ \A x \in S : q[x] = a * f[x] + b * g[x] + c * h[x]
  BY <1>1 DEF Combined
<1> DEFINE P == {T \in SUBSET S :
                   Balance(q, T) = a * Balance(f, T) + b * Balance(g, T) + c * Balance(h, T)}
<1>3. {} \in P
  BY <1>2, BalanceFacts
<1>4. ASSUME NEW T \in P, NEW x \in S PROVE T \cup {x} \in P
  <2>0. T \in SUBSET S /\ IsFiniteSet(T)
    BY FS_Subset
  <2>1. CASE x \in T
    <3>1. T \cup {x} = T
      BY <2>1
    <3> QED BY <3>1
  <2>2. CASE x \notin T
    <3>1. PICK A, B, C, Q : A = Balance(f, T) /\ B = Balance(g, T)
                            /\ C = Balance(h, T) /\ Q = Balance(q, T)
      OBVIOUS
    <3>2. A \in Int /\ B \in Int /\ C \in Int /\ Q = a * A + b * B + c * C
      BY <2>0, <3>1, BalanceFacts
    <3>0. ASSUME NEW k \in [S -> Int] PROVE Balance(k, T \cup {x}) = Balance(k, T) + k[x]
      BY <2>0, <2>2, BalanceFacts
    <3>3. /\ Balance(f, T \cup {x}) = A + f[x]
          /\ Balance(g, T \cup {x}) = B + g[x]
          /\ Balance(h, T \cup {x}) = C + h[x]
          /\ Balance(q, T \cup {x}) = Q + q[x]
      BY <1>2, <3>0, <3>1
    <3>4. PICK u, v, w : u = f[x] /\ v = g[x] /\ w = h[x]
      OBVIOUS
    <3>5. u \in Int /\ v \in Int /\ w \in Int /\ q[x] = a * u + b * v + c * w
      BY <1>2, <3>4
    <3>6. (a * A + b * B + c * C) + (a * u + b * v + c * w)
            = a * (A + u) + b * (B + v) + c * (C + w)
      BY <3>2, <3>5
    <3> QED BY <2>0, <3>2, <3>3, <3>4, <3>5, <3>6
  <2> QED BY <2>1, <2>2
<1>5. P \in SUBSET (SUBSET S)
  OBVIOUS
<1> HIDE DEF P
<1>6. P = SUBSET S
  BY <1>3, <1>4, <1>5, SetInduction
<1> QED BY <1>1, <1>6 DEF P
=============================================================================
