---------------------------- MODULE FieldProofs -----------------------------
(***************************************************************************)
(* What is proved of NmeaFields for every value of its constants and every *)
(* text: what the parsers return is what the text writes, and what they    *)
(* refuse is ill-formed or out of range.  An induction over the digits is  *)
(* one over a set of natural numbers: SetInduction below.                  *)
(***************************************************************************)
EXTENDS NmeaFields, FiniteSetTheorems, TLAPS

-----------------------------------------------------------------------------
(***************************************************************************)
(* Limits and quotients.                                                   *)
(***************************************************************************)

\* An upper bound that is a member is the maximum, and so with the minimum.
LEMMA MaxIs ==
  ASSUME NEW S \in SUBSET Int, NEW m \in S, \A x \in S : x <= m
  PROVE  Max(S) = m
<1>1. m \in S /\ \A x \in S : m >= x
  OBVIOUS
<1>2. Max(S) \in S /\ \A x \in S : Max(S) >= x
  BY <1>1, Zenon DEF Max
<1> DEFINE k == Max(S)
<1>3. k \in Int /\ m \in Int /\ k >= m /\ k <= m
  BY <1>1, <1>2
<1> HIDE DEF k
<1>4. k = m
  BY <1>3
<1> QED  BY <1>4 DEF k

LEMMA MinIs ==
  ASSUME NEW S \in SUBSET Int, NEW m \in S, \A x \in S : m <= x
  PROVE  Min(S) = m
<1>1. m \in S /\ \A x \in S : m =< x
  OBVIOUS
<1>2. Min(S) \in S /\ \A x \in S : Min(S) =< x
  BY <1>1, Zenon DEF Min
<1> DEFINE k == Min(S)
<1>3. k \in Int /\ m \in Int /\ k >= m /\ k <= m
  BY <1>1, <1>2
<1> HIDE DEF k
<1>4. k = m
  BY <1>3
<1> QED  BY <1>4 DEF k

LEMMA Quotient ==
  ASSUME NEW x \in Nat, NEW s \in Nat \ {0}
  PROVE  /\ x \div s \in Nat /\ x % s \in 0 .. s - 1
         /\ x = s * (x \div s) + (x % s)
<1>1. x \div s \in Nat
  OBVIOUS
<1>2. x % s \in 0 .. s - 1
  OBVIOUS
<1>3. x = s * (x \div s) + (x % s)
  OBVIOUS
<1> QED  BY <1>1, <1>2, <1>3, Zenon

LEMMA QuotientIs ==
  ASSUME NEW s \in Nat \ {0}, NEW q \in Nat, NEW r \in 0 .. s - 1
  PROVE  (q * s + r) \div s = q /\ (q * s + r) % s = r
OBVIOUS

LEMMA PairLimits ==
  ASSUME NEW a \in Int, NEW b \in Int
  PROVE  /\ Min({a, b}) = IF a <= b THEN a ELSE b
         /\ Max({a, b}) = IF a <= b THEN b ELSE a
<1> DEFINE S == {a, b}
<1>1. S \in SUBSET Int /\ a \in S /\ b \in S
  OBVIOUS
<1>2. CASE a <= b
  <2>1. (\A x \in S : a <= x) /\ (\A x \in S : x <= b)
    BY <1>2
  <2> HIDE DEF S
  <2>2. Min(S) = a /\ Max(S) = b
    BY <1>1, <2>1, MinIs, MaxIs
  <2> QED  BY <1>2, <2>2 DEF S
<1>3. CASE ~(a <= b)
  <2>1. (\A x \in S : b <= x) /\ (\A x \in S : x <= a)
    BY <1>3
  <2> HIDE DEF S
  <2>2. Min(S) = b /\ Max(S) = a
    BY <1>1, <2>1, MinIs, MaxIs
  <2> QED  BY <1>3, <2>2 DEF S
<1> QED  BY <1>2, <1>3

-----------------------------------------------------------------------------
(***************************************************************************)
(* Induction.                                                              *)
(***************************************************************************)

\* The least member of a set is found where it contains no smaller part of the set.
LEMMA LeastMember ==
  ASSUME NEW n \in Nat, NEW S \in SUBSET (0 .. n), S # {}
  PROVE  \E m \in S : \A x \in S : m <= x
<1> DEFINE Upto(m) == S \cap 0 .. m
           F == {Upto(m) : m \in S}
<1>1. IsFiniteSet(S)
  <2>1. IsFiniteSet(0 .. n)
    BY FS_Interval
  <2> QED  BY <2>1, FS_Subset
<1>2. F \subseteq FiniteSubsetsOf(S)
  <2> SUFFICES ASSUME NEW m \in S PROVE Upto(m) \in FiniteSubsetsOf(S)
    OBVIOUS
  <2> QED  BY <1>1, FS_Subset DEF FiniteSubsetsOf
<1>3. F # {}
  OBVIOUS
<1>4. IsWellFoundedOn(StrictSubsetOrdering(S), FiniteSubsetsOf(S))
  BY FS_StrictSubsetOrderingWellFounded
<1> HIDE DEF F
<1>5. PICK U \in F : \A V \in F : <<V, U>> \notin StrictSubsetOrdering(S)
  BY <1>2, <1>3, <1>4, WFMin
<1> USE DEF F
<1>6. PICK m \in S : U = Upto(m)
  OBVIOUS
<1>7. ASSUME NEW x \in S, x < m PROVE FALSE
  <2>1. Upto(x) \subseteq Upto(m)
    BY <1>7
  <2>2. m \in Upto(m) /\ m \notin Upto(x)
    BY <1>7
  <2>3. <<Upto(x), U>> \in StrictSubsetOrdering(S)
    BY <1>6, <2>1, <2>2 DEF StrictSubsetOrdering
  <2> QED  BY <1>5, <2>3
<1> QED  BY <1>7

\* Induction, with a set for what holds.
LEMMA SetInduction ==
  ASSUME NEW S, 0 \in S, \A k \in Nat : k \in S => k + 1 \in S
  PROVE  Nat \subseteq S
<1> SUFFICES ASSUME NEW n \in Nat, n \notin S PROVE FALSE
  OBVIOUS
<1> DEFINE T == (0 .. n) \ S
<1>1. T \in SUBSET (0 .. n) /\ T # {}
  OBVIOUS
<1> HIDE DEF T
<1>2. PICK m \in T : \A x \in T : m <= x
  BY <1>1, LeastMember
<1> USE DEF T
<1>3. m \in Nat /\ m # 0 /\ m <= n /\ m \notin S
  OBVIOUS
<1>4. m - 1 \in 0 .. n /\ m - 1 \in Nat /\ ~(m <= m - 1) /\ (m - 1) + 1 = m
  BY <1>3
<1>5. m - 1 \in S
  BY <1>2, <1>4
<1> QED  BY <1>3, <1>4, <1>5

\* A function is defined by its first value and a step from each value to the next.
Steps(f, n, V, start, step) ==
  /\ f \in [0 .. n -> V] /\ f[0] = start
  /\ \A k \in 1 .. n : f[k] = step[<<k, f[k - 1]>>]

LEMMA StepsExist ==
  ASSUME NEW V, NEW start \in V, NEW step \in [Nat \X V -> V], NEW n \in Nat
  PROVE  \E f : Steps(f, n, V, start, step)
<1> DEFINE S == {k \in Nat : \E f : Steps(f, k, V, start, step)}
<1>1. 0 \in S
  <2>1. Steps([k \in 0 .. 0 |-> start], 0, V, start, step)
    BY DEF Steps
  <2> QED  BY <2>1
<1>2. ASSUME NEW k \in Nat, k \in S PROVE k + 1 \in S
  <2>1. PICK f : Steps(f, k, V, start, step)
    BY <1>2
  <2> DEFINE g == [i \in 0 .. k + 1 |-> IF i <= k THEN f[i] ELSE step[<<k + 1, f[k]>>]]
  <2>2. f[k] \in V /\ <<k + 1, f[k]>> \in Nat \X V
    BY <2>1 DEF Steps
  <2>3. step[<<k + 1, f[k]>>] \in V
    BY <2>2
  <2>4. g \in [0 .. k + 1 -> V]
    BY <2>1, <2>3 DEF Steps
  <2>5. \A i \in 0 .. k : g[i] = f[i]
    OBVIOUS
  <2>6. g[k + 1] = step[<<k + 1, f[k]>>]
    OBVIOUS
  <2> HIDE DEF g
  <2>7. ASSUME NEW i \in 1 .. k + 1 PROVE g[i] = step[<<i, g[i - 1]>>]
    <3>1. i - 1 \in 0 .. k /\ g[i - 1] = f[i - 1]
      BY <2>5
    <3>2. CASE i = k + 1
      BY <2>6, <3>1, <3>2
    <3>3. CASE i # k + 1
      <4>1. i \in 1 .. k
        BY <3>3
      <4>2. f[i] = step[<<i, f[i - 1]>>]
        BY <2>1, <4>1 DEF Steps
      <4> QED  BY <2>5, <3>1, <4>1, <4>2
    <3> QED  BY <3>2, <3>3
  <2>8. g[0] = start
    BY <2>1, <2>5 DEF Steps
  <2>9. Steps(g, k + 1, V, start, step)
    BY <2>4, <2>7, <2>8, Zenon DEF Steps
  <2> QED  BY <2>9
<1> HIDE DEF S
<1>3. Nat \subseteq S
  BY <1>1, <1>2, SetInduction
<1> QED  BY <1>3 DEF S

\* Two functions defined by the same steps agree as far as both reach.
LEMMA StepsAgree ==
  ASSUME NEW V, NEW start, NEW step, NEW n \in Nat, NEW m \in Nat, NEW f, NEW g,
         Steps(f, n, V, start, step), Steps(g, m, V, start, step)
  PROVE  \A k \in Nat : k <= n /\ k <= m => f[k] = g[k]
<1> DEFINE S == {k \in Nat : k <= n /\ k <= m => f[k] = g[k]}
<1>1. 0 \in S
  BY DEF Steps
<1>2. ASSUME NEW k \in Nat, k \in S PROVE k + 1 \in S
  <2> SUFFICES ASSUME k + 1 <= n, k + 1 <= m PROVE f[k + 1] = g[k + 1]
    OBVIOUS
  <2>1. k <= n /\ k <= m /\ k + 1 \in 1 .. n /\ k + 1 \in 1 .. m /\ (k + 1) - 1 = k
    OBVIOUS
  <2>2. f[k] = g[k]
    BY <1>2, <2>1
  <2>3. f[k + 1] = step[<<k + 1, f[(k + 1) - 1]>>] /\ g[k + 1] = step[<<k + 1, g[(k + 1) - 1]>>]
    BY <2>1, Zenon DEF Steps
  <2> QED  BY <2>1, <2>2, <2>3
<1> HIDE DEF S
<1>3. Nat \subseteq S
  BY <1>1, <1>2, SetInduction
<1> QED  BY <1>3 DEF S

StepsForever(f, V, start, step) ==
  /\ f \in [Nat -> V] /\ f[0] = start
  /\ \A k \in Nat \ {0} : f[k] = step[<<k, f[k - 1]>>]

LEMMA StepsExistForever ==
  ASSUME NEW V, NEW start \in V, NEW step \in [Nat \X V -> V]
  PROVE  \E f : StepsForever(f, V, start, step)
<1> DEFINE Upto(n) == CHOOSE f : Steps(f, n, V, start, step)
           g == [n \in Nat |-> Upto(n)[n]]
<1>1. ASSUME NEW n \in Nat PROVE Steps(Upto(n), n, V, start, step)
  BY StepsExist
<1> HIDE DEF Upto
<1>2. g \in [Nat -> V]
  <2> SUFFICES ASSUME NEW n \in Nat PROVE Upto(n)[n] \in V
    OBVIOUS
  <2> QED  BY <1>1 DEF Steps
<1>3. g[0] = start
  BY <1>1 DEF Steps
<1>4. ASSUME NEW k \in Nat \ {0} PROVE g[k] = step[<<k, g[k - 1]>>]
  <2>1. k - 1 \in Nat /\ k \in 1 .. k /\ k - 1 <= k /\ k - 1 <= k - 1 /\ k \in Nat
    OBVIOUS
  <2>2. Steps(Upto(k), k, V, start, step) /\ Steps(Upto(k - 1), k - 1, V, start, step)
    BY <1>1, <2>1
  <2>3. Upto(k)[k - 1] = Upto(k - 1)[k - 1]
    BY <2>1, <2>2, StepsAgree
  <2>4. Upto(k)[k] = step[<<k, Upto(k)[k - 1]>>]
    BY <2>1, <2>2, Zenon DEF Steps
  <2> QED  BY <2>1, <2>3, <2>4
<1> HIDE DEF g
<1>5. StepsForever(g, V, start, step)
  BY <1>2, <1>3, <1>4, Zenon DEF StepsForever
<1> QED  BY <1>5

LEMMA Powers ==
  /\ Power10 \in [Nat -> Nat \ {0}] /\ Power10[0] = 1
  /\ \A k \in Nat : Power10[k + 1] = 10 * Power10[k]
<1> DEFINE V == Nat \ {0}
           step == [x \in Nat \X V |-> 10 * x[2]]
<1>1. step \in [Nat \X V -> V] /\ 1 \in V
  OBVIOUS
<1> HIDE DEF step, V
<1>2. PICK f : StepsForever(f, V, 1, step)
  BY <1>1, StepsExistForever
<1> USE DEF V, StepsForever
<1>3. ASSUME NEW k \in Nat \ {0} PROVE f[k] = 10 * f[k - 1]
  <2>1. k - 1 \in Nat /\ f[k - 1] \in V
    BY <1>2
  <2>2. step[<<k, f[k - 1]>>] = 10 * f[k - 1]
    BY <2>1 DEF step
  <2> QED  BY <1>2, <2>2
<1>4. f = [k \in Nat |-> IF k = 0 THEN 1 ELSE 10 * f[k - 1]]
  <2>1. f \in [Nat -> V] /\ f[0] = 1
    BY <1>2
  <2> HIDE DEF StepsForever, V
  <2>2. \A k \in Nat : f[k] = IF k = 0 THEN 1 ELSE 10 * f[k - 1]
    BY <1>3, <2>1
  <2> QED  BY <2>1, <2>2
<1>5. Power10 = [k \in Nat |-> IF k = 0 THEN 1 ELSE 10 * Power10[k - 1]]
  BY <1>4, Zenon DEF Power10
<1>6. DOMAIN Power10 = Nat /\ Power10[0] = 1
  BY <1>5
<1>7. ASSUME NEW k \in Nat PROVE Power10[k + 1] = 10 * Power10[k]
  <2>1. k + 1 \in Nat /\ k + 1 # 0 /\ (k + 1) - 1 = k
    OBVIOUS
  <2>2. Power10[k + 1] = 10 * Power10[(k + 1) - 1]
    BY <1>5, <2>1
  <2> QED  BY <2>1, <2>2
<1> DEFINE S == {k \in Nat : Power10[k] \in V}
<1>8. Nat \subseteq S
  <2>1. 0 \in S
    BY <1>6
  <2>2. ASSUME NEW k \in Nat, k \in S PROVE k + 1 \in S
    BY <1>7, <2>2
  <2> HIDE DEF S
  <2> QED  BY <2>1, <2>2, SetInduction
<1>9. Power10 = [k \in Nat |-> Power10[k]]
  BY <1>5
<1> QED  BY <1>6, <1>7, <1>8, <1>9

-----------------------------------------------------------------------------
(***************************************************************************)
(* Digits.                                                                 *)
(***************************************************************************)

LEMMA NumberSteps ==
  ASSUME NEW t \in Seq(Nat), NEW i \in Nat \ {0}
  PROVE  \A j \in 0 .. Len(t) :
           /\ Number(t, i, j) \in Int
           /\ j < i => Number(t, i, j) = 0
           /\ i <= j => Number(t, i, j) = 10 * Number(t, i, j - 1) + (t[j] - Zero)
<1> DEFINE n == Len(t)
           next(k, x) == IF k \in i .. n THEN 10 * x + (t[k] - Zero) ELSE 0
           step == [x \in Nat \X Int |-> next(x[1], x[2])]
           Recursive(f) == f = [k \in 0 .. n |-> IF k < i THEN 0 ELSE 10 * f[k - 1] + (t[k] - Zero)]
           N == CHOOSE f : Recursive(f)
<1>1. n \in Nat /\ \A k \in 1 .. n : t[k] \in Nat
  OBVIOUS
<1>2. \A k \in Nat, x \in Int : next(k, x) \in Int
  <2> SUFFICES ASSUME NEW k \in Nat, NEW x \in Int, k \in i .. n
               PROVE  10 * x + (t[k] - Zero) \in Int
    BY DEF Zero
  <2>1. t[k] \in Nat
    BY <1>1
  <2> QED  BY <2>1 DEF Zero
<1>3. step \in [Nat \X Int -> Int]
  <2> HIDE DEF next
  <2> QED  BY <1>2
<1> HIDE DEF step, n
<1>4. PICK f : Steps(f, n, Int, 0, step)
  <2>1. n \in Nat /\ 0 \in Int
    BY <1>1
  <2> QED  BY <1>3, <2>1, StepsExist, Zenon
<1>5. \A k \in 0 .. n : f[k] = IF k < i THEN 0 ELSE 10 * f[k - 1] + (t[k] - Zero)
  <2> SUFFICES ASSUME NEW k \in 0 .. n
               PROVE  f[k] = IF k < i THEN 0 ELSE 10 * f[k - 1] + (t[k] - Zero)
    OBVIOUS
  <2>1. CASE k = 0
    BY <1>4, <2>1 DEF Steps
  <2>2. CASE k # 0
    <3>1. k \in 1 .. n /\ k - 1 \in 0 .. n /\ k \in Nat /\ (~(k < i) <=> k \in i .. n)
      BY <1>1, <2>2
    <3>2. f[k] = step[<<k, f[k - 1]>>] /\ f[k - 1] \in Int
      BY <1>4, <3>1 DEF Steps
    <3>3. step[<<k, f[k - 1]>>] = next(k, f[k - 1])
      BY <3>1, <3>2 DEF step
    <3> QED  BY <3>1, <3>2, <3>3
  <2> QED  BY <2>1, <2>2
<1>6. f = [k \in 0 .. n |-> f[k]] /\ \A k \in 0 .. n : f[k] \in Int
  BY <1>4 DEF Steps
<1>7. Recursive(f)
  BY <1>5, <1>6
<1>8. Recursive(N)
  <2> HIDE DEF Recursive
  <2> QED  BY <1>7
<1>9. \A j \in 0 .. n : Number(t, i, j) = N[j]
  BY Zenon DEF Number, n
<1> HIDE DEF N
<1>10. \A k \in 0 .. n : N[k] = IF k < i THEN 0 ELSE 10 * N[k - 1] + (t[k] - Zero)
  BY <1>8
<1> DEFINE S == {k \in Nat : k <= n => N[k] \in Int}
<1>11. Nat \subseteq S
  <2>1. 0 \in S
    BY <1>1, <1>10
  <2>2. ASSUME NEW k \in Nat, k \in S PROVE k + 1 \in S
    <3> SUFFICES ASSUME k + 1 <= n PROVE N[k + 1] \in Int
      OBVIOUS
    <3>1. k + 1 \in 0 .. n /\ k + 1 \in 1 .. n /\ (k + 1) - 1 = k /\ k <= n
      BY <1>1
    <3>2. N[k + 1] = IF k + 1 < i THEN 0 ELSE 10 * N[k] + (t[k + 1] - Zero)
      BY <1>10, <3>1
    <3>3. PICK x \in Int, c \in Nat : x = N[k] /\ c = t[k + 1]
      BY <1>1, <2>2, <3>1
    <3>4. 0 \in Int /\ 10 * x + (c - Zero) \in Int
      BY DEF Zero
    <3> QED  BY <3>2, <3>3, <3>4, Zenon
  <2> HIDE DEF S
  <2> QED  BY <2>1, <2>2, SetInduction
<1> SUFFICES ASSUME NEW j \in 0 .. n
             PROVE  /\ Number(t, i, j) \in Int
                    /\ j < i => Number(t, i, j) = 0
                    /\ i <= j => Number(t, i, j) = 10 * Number(t, i, j - 1) + (t[j] - Zero)
  BY DEF n
<1>12. Number(t, i, j) = N[j] /\ N[j] \in Int /\ j \in Int
  BY <1>1, <1>9, <1>11
<1>13. ASSUME i <= j PROVE Number(t, i, j) = 10 * Number(t, i, j - 1) + (t[j] - Zero)
  <2>1. j - 1 \in 0 .. n /\ ~(j < i)
    BY <1>1, <1>13
  <2> QED  BY <1>9, <1>10, <1>12, <2>1
<1> QED  BY <1>10, <1>12, <1>13

\* F is the walk over the digits behind the point.
FractionWalk(t, i, scale, F) ==
  /\ F \in [0 .. Len(t) -> [sum : Int, scale : Nat]]
  /\ \A j \in 0 .. Len(t) :
       /\ Fraction(t, i, j, scale) = F[j].sum
       /\ j < i => F[j] = [sum |-> 0, scale |-> scale \div 10]
       /\ i <= j => F[j] = [sum |-> F[j - 1].sum + (t[j] - Zero) * F[j - 1].scale,
                           scale |-> F[j - 1].scale \div 10]

LEMMA FractionSteps ==
  ASSUME NEW t \in Seq(Nat), NEW i \in Nat \ {0}, NEW scale \in Nat
  PROVE  \E F : FractionWalk(t, i, scale, F)
<1> DEFINE n == Len(t)
           V == [sum : Int, scale : Nat]
           first == [sum |-> 0, scale |-> scale \div 10]
           after(k, x) == [sum |-> x.sum + (t[k] - Zero) * x.scale, scale |-> x.scale \div 10]
           next(k, x) == IF k \in i .. n THEN after(k, x) ELSE first
           step == [x \in Nat \X V |-> next(x[1], x[2])]
           Recursive(f) == f = [k \in 0 .. n |-> IF k < i THEN first ELSE after(k, f[k - 1])]
           N == CHOOSE f : Recursive(f)
<1>1. n \in Nat /\ \A k \in 1 .. n : t[k] \in Nat
  OBVIOUS
<1>2. first \in V
  <2>1. scale \div 10 \in Nat
    OBVIOUS
  <2> QED  BY <2>1
<1>3. \A k \in 1 .. n, x \in V : after(k, x) \in V
  <2> SUFFICES ASSUME NEW k \in 1 .. n, NEW x \in V PROVE after(k, x) \in V
    OBVIOUS
  <2>1. x.sum \in Int
    OBVIOUS
  <2>2. PICK y \in Nat : y = x.scale
    OBVIOUS
  <2>3. PICK c \in Int : c = t[k] - Zero
    BY <1>1 DEF Zero
  <2>4. y \div 10 \in Nat /\ c * y \in Int
    OBVIOUS
  <2>5. x.sum + c * y \in Int
    BY <2>1, <2>4
  <2>6. after(k, x) = [sum |-> x.sum + c * y, scale |-> y \div 10]
    BY <2>2, <2>3, Zenon
  <2> QED  BY <2>4, <2>5, <2>6
<1> HIDE DEF V, first, after, n
<1>4. \A k \in Nat, x \in V : next(k, x) \in V
  BY <1>1, <1>2, <1>3
<1> HIDE DEF next
<1>5. step \in [Nat \X V -> V]
  BY <1>4
<1> HIDE DEF step
<1>6. PICK f : Steps(f, n, V, first, step)
  BY <1>1, <1>2, <1>5, StepsExist
<1>7. \A k \in 0 .. n : f[k] = IF k < i THEN first ELSE after(k, f[k - 1])
  <2> SUFFICES ASSUME NEW k \in 0 .. n
               PROVE  f[k] = IF k < i THEN first ELSE after(k, f[k - 1])
    OBVIOUS
  <2>1. CASE k = 0
    BY <1>6, <2>1 DEF Steps
  <2>2. CASE k # 0
    <3>1. k \in 1 .. n /\ k - 1 \in 0 .. n /\ k \in Nat /\ (~(k < i) <=> k \in i .. n)
      BY <1>1, <2>2
    <3>2. f[k] = step[<<k, f[k - 1]>>] /\ f[k - 1] \in V
      BY <1>6, <3>1 DEF Steps
    <3>3. step[<<k, f[k - 1]>>] = next(k, f[k - 1])
      BY <3>1, <3>2 DEF step
    <3>4. next(k, f[k - 1]) = IF k < i THEN first ELSE after(k, f[k - 1])
      BY <3>1 DEF next
    <3> QED  BY <3>2, <3>3, <3>4
  <2> QED  BY <2>1, <2>2
<1>8. f = [k \in 0 .. n |-> f[k]]
  BY <1>6 DEF Steps
<1>9. Recursive(f)
  BY <1>7, <1>8
<1>10. Recursive(N)
  <2> HIDE DEF Recursive
  <2> QED  BY <1>9
<1>11. \A j \in 0 .. n : Fraction(t, i, j, scale) = N[j].sum
  BY Zenon DEF Fraction, n, first, after
<1> HIDE DEF N
<1>12. /\ N = [k \in 0 .. n |-> N[k]]
       /\ \A k \in 0 .. n : N[k] = IF k < i THEN first ELSE after(k, N[k - 1])
  BY <1>10
<1> DEFINE S == {k \in Nat : k <= n => N[k] \in V}
<1>13. Nat \subseteq S
  <2>1. 0 \in S
    <3>1. 0 \in 0 .. n /\ 0 < i
      BY <1>1
    <3>2. N[0] = first
      BY <1>12, <3>1
    <3> QED  BY <1>2, <3>2
  <2>2. ASSUME NEW k \in Nat, k \in S PROVE k + 1 \in S
    <3> SUFFICES ASSUME k + 1 <= n PROVE N[k + 1] \in V
      OBVIOUS
    <3>1. k + 1 \in 0 .. n /\ k + 1 \in 1 .. n /\ (k + 1) - 1 = k /\ k <= n
      BY <1>1
    <3>2. N[k + 1] = IF k + 1 < i THEN first ELSE after(k + 1, N[k])
      BY <1>12, <3>1
    <3>3. N[k] \in V
      BY <2>2, <3>1
    <3> QED  BY <1>2, <1>3, <3>1, <3>2, <3>3
  <2> HIDE DEF S
  <2> QED  BY <2>1, <2>2, SetInduction
<1>14. N \in [0 .. n -> V]
  BY <1>1, <1>12, <1>13
<1>15. \A j \in 0 .. n : j < i => N[j] = first
  BY <1>12
<1>16. \A j \in 0 .. n : i <= j => N[j] = after(j, N[j - 1])
  <2>1. \A j \in 0 .. n : i <= j => ~(j < i)
    BY <1>1
  <2> QED  BY <1>12, <2>1
<1>17. FractionWalk(t, i, scale, N)
  BY <1>11, <1>14, <1>15, <1>16, Zenon DEF FractionWalk, V, first, after, n
<1> QED  BY <1>17

LEMMA PowerPositive ==
  ASSUME NEW k \in Nat
  PROVE  Power10[k] \in Nat /\ 0 < Power10[k]
BY Powers

LEMMA DigitValue ==
  ASSUME NEW c \in Digits
  PROVE  c - Zero \in Nat /\ c - Zero <= 9 /\ (c - Zero = 0 <=> c = Zero)
BY DEF Digits, Zero

LEMMA NextNumber ==
  ASSUME NEW x \in Nat, NEW p \in Nat, x < p, NEW c \in Nat, c <= 9
  PROVE  /\ 10 * x + c \in Nat /\ 10 * x + c < 10 * p
         /\ 10 * x + c = 0 <=> x = 0 /\ c = 0
OBVIOUS

LEMMA NumberBounds ==
  ASSUME NEW t \in Seq(Nat), NEW i \in Nat \ {0}, NEW d \in Nat,
         i - 1 + d <= Len(t), AllDigits(t, i, i - 1 + d)
  PROVE  /\ Number(t, i, i - 1 + d) \in Nat
         /\ Number(t, i, i - 1 + d) < Power10[d]
         /\ Number(t, i, i - 1 + d) = 0 <=> \A k \in i .. i - 1 + d : t[k] = Zero
<1> DEFINE n == Len(t)
           N(k) == Number(t, i, i - 1 + k)
           Zeros(k) == \A x \in i .. i - 1 + k : t[x] = Zero
           Right(k) == N(k) \in Nat /\ N(k) < Power10[k] /\ (N(k) = 0 <=> Zeros(k))
           S == {k \in Nat : k <= d => Right(k)}
<1>1. n \in Nat /\ i - 1 + d <= n
  OBVIOUS
<1> HIDE DEF n
<1>2. \A j \in 0 .. n : /\ j < i => Number(t, i, j) = 0
                        /\ i <= j => Number(t, i, j) = 10 * Number(t, i, j - 1) + (t[j] - Zero)
  BY NumberSteps DEF n
<1>3. 0 \in S
  <2>1. PICK j \in 0 .. n : j = i - 1 + 0
    BY <1>1
  <2>2. N(0) = 0
    BY <1>2, <2>1
  <2>3. Zeros(0)
    OBVIOUS
  <2>4. Power10[0] = 1
    BY Powers
  <2> HIDE DEF N, Zeros
  <2>5. Right(0)
    BY <2>2, <2>3, <2>4
  <2> QED  BY <2>5, Zenon
<1>4. ASSUME NEW k \in Nat, k \in S PROVE k + 1 \in S
  <2> SUFFICES ASSUME k + 1 <= d PROVE Right(k + 1)
    OBVIOUS
  <2>1. PICK j \in 0 .. n : j = i - 1 + (k + 1)
    BY <1>1
  <2>2. /\ i <= j /\ j - 1 = i - 1 + k /\ k <= d
        /\ j \in i .. i - 1 + d /\ i .. j = (i .. i - 1 + k) \cup {j}
    BY <1>1, <2>1
  <2>3. t[j] \in Digits
    BY <2>2, Zenon DEF AllDigits
  <2>4. PICK c \in 0 .. 9 : t[j] - Zero = c /\ (c = 0 <=> t[j] = Zero)
    BY <2>3 DEF Digits, Zero
  <2>5. N(k + 1) = 10 * N(k) + c
    BY <1>2, <2>1, <2>2, <2>4
  <2>6. Zeros(k + 1) <=> Zeros(k) /\ t[j] = Zero
    BY <2>1, <2>2
  <2>7. N(k) \in Nat /\ N(k) < Power10[k] /\ (N(k) = 0 <=> Zeros(k))
    BY <1>4, <2>2
  <2>8. Power10[k + 1] = 10 * Power10[k] /\ Power10[k] \in Nat
    BY Powers
  <2> HIDE DEF N, Zeros
  <2>9. /\ N(k + 1) \in Nat /\ N(k + 1) < Power10[k + 1]
        /\ N(k + 1) = 0 <=> N(k) = 0 /\ c = 0
    <3>1. c \in Nat /\ c <= 9
      OBVIOUS
    <3>2. /\ 10 * N(k) + c \in Nat /\ 10 * N(k) + c < 10 * Power10[k]
          /\ 10 * N(k) + c = 0 <=> N(k) = 0 /\ c = 0
      BY <2>7, <2>8, <3>1, NextNumber
    <3> QED  BY <2>5, <2>8, <3>2
  <2> QED  BY <2>4, <2>6, <2>7, <2>9
<1> HIDE DEF S
<1>5. d \in S
  BY <1>3, <1>4, SetInduction
<1> QED  BY <1>5 DEF S

LEMMA PowersAdd ==
  ASSUME NEW a \in Nat, NEW b \in Nat
  PROVE  Power10[a + b] = Power10[a] * Power10[b]
<1> DEFINE S == {k \in Nat : Power10[a + k] = Power10[a] * Power10[k]}
<1>1. 0 \in S
  BY Powers
<1>2. ASSUME NEW k \in Nat, k \in S PROVE k + 1 \in S
  <2>1. Power10[a + k] = Power10[a] * Power10[k]
    BY <1>2
  <2>2. a + k \in Nat /\ a + (k + 1) = (a + k) + 1
    OBVIOUS
  <2>3. Power10[a + (k + 1)] = 10 * Power10[a + k] /\ Power10[k + 1] = 10 * Power10[k]
    BY <2>2, Powers
  <2>4. Power10[a] \in Nat /\ Power10[k] \in Nat
    BY Powers
  <2>5. Power10[a + (k + 1)] = Power10[a] * Power10[k + 1]
    BY <2>1, <2>3, <2>4
  <2> QED  BY <2>5
<1> HIDE DEF S
<1>3. b \in S
  BY <1>1, <1>2, SetInduction
<1> QED  BY <1>3 DEF S

LEMMA TenthOfPower ==
  ASSUME NEW k \in Nat
  PROVE  Power10[k] \div 10 = IF k = 0 THEN 0 ELSE Power10[k - 1]
<1>1. CASE k = 0
  BY <1>1, Powers
<1>2. CASE k # 0
  <2>1. PICK p \in Nat : p = Power10[k - 1] /\ Power10[k] = 10 * p
    <3>1. k - 1 \in Nat /\ (k - 1) + 1 = k
      BY <1>2
    <3>2. Power10[(k - 1) + 1] = 10 * Power10[k - 1] /\ Power10[k - 1] \in Nat
      BY <3>1, Powers
    <3> QED  BY <3>1, <3>2
  <2>2. (10 * p) \div 10 = p
    OBVIOUS
  <2> QED  BY <1>2, <2>1, <2>2
<1> QED  BY <1>1, <1>2

\* The digits that Fraction has summed up, while there is a scale and after that.
FractionRight(N, F, k, K) ==
  /\ k < K => F.scale = Power10[K - 1 - k] /\ F.sum = N * Power10[K - k]
  /\ K <= k => /\ F.scale = 0 /\ F.sum \in Nat
               /\ \E r \in Nat : r < Power10[k - K] /\ N = F.sum * Power10[k - K] + r

LEMMA FractionRightStep ==
  ASSUME NEW N \in Nat, NEW sum \in Int, NEW scale \in Nat, NEW k \in Nat, NEW K \in Nat,
         NEW c \in Nat, c <= 9,
         FractionRight(N, [sum |-> sum, scale |-> scale], k, K)
  PROVE  FractionRight(10 * N + c, [sum |-> sum + c * scale, scale |-> scale \div 10], k + 1, K)
<1>1. CASE k + 1 < K
  <2>1. /\ k < K /\ K - 1 - k \in Nat /\ K - 1 - k # 0 /\ (K - 1 - k) - 1 = K - 1 - (k + 1)
        /\ K - k = (K - 1 - k) + 1 /\ K - (k + 1) = K - 1 - k /\ ~(K <= k + 1)
    BY <1>1
  <2>2. scale = Power10[K - 1 - k] /\ sum = N * Power10[K - k]
    BY <2>1 DEF FractionRight
  <2>3. scale \div 10 = Power10[K - 1 - (k + 1)]
    BY <2>1, <2>2, TenthOfPower
  <2>4. Power10[K - k] = 10 * scale
    BY <2>1, <2>2, Powers
  <2>5. sum + c * scale = (10 * N + c) * scale
    <3>1. sum = N * (10 * scale)
      BY <2>2, <2>4
    <3>2. N * (10 * scale) + c * scale = (10 * N + c) * scale
      OBVIOUS
    <3> QED  BY <3>1, <3>2
  <2> QED  BY <2>1, <2>2, <2>3, <2>5 DEF FractionRight
<1>2. CASE k + 1 = K
  <2>1. k < K /\ K - 1 - k = 0 /\ K - k = 1 /\ K <= k + 1 /\ (k + 1) - K = 0 /\ ~(k + 1 < K)
    BY <1>2
  <2>2. scale = 1 /\ sum = N * Power10[1]
    BY <2>1, Powers DEF FractionRight
  <2>3. Power10[0] = 1 /\ Power10[1] = 10
    <3>1. Power10[0] = 1 /\ Power10[0 + 1] = 10 * Power10[0] /\ 0 + 1 = 1
      BY Powers
    <3> QED  BY <3>1
  <2>4. sum + c * scale = 10 * N + c /\ scale \div 10 = 0
    BY <2>2, <2>3
  <2>5. 10 * N + c \in Nat /\ 10 * N + c = (10 * N + c) * 1 + 0
    OBVIOUS
  <2>6. 0 \in Nat /\ 0 < Power10[0]
    BY <2>3
  <2> QED  BY <2>1, <2>3, <2>4, <2>5, <2>6 DEF FractionRight
<1>3. CASE K <= k
  <2>1. /\ K <= k + 1 /\ ~(k + 1 < K) /\ k - K \in Nat /\ (k + 1) - K = (k - K) + 1
    BY <1>3
  <2>2. scale = 0 /\ sum \in Nat
    BY <1>3 DEF FractionRight
  <2>3. PICK r \in Nat : r < Power10[k - K] /\ N = sum * Power10[k - K] + r
    BY <1>3 DEF FractionRight
  <2>4. PICK p \in Nat : p = Power10[k - K] /\ Power10[(k + 1) - K] = 10 * p
    BY <2>1, Powers
  <2>5. 10 * r + c \in Nat /\ 10 * r + c < 10 * p
    BY <2>3, <2>4, NextNumber
  <2>6. 10 * N + c = sum * (10 * p) + (10 * r + c)
    <3>1. N = sum * p + r
      BY <2>3, <2>4
    <3>2. 10 * (sum * p + r) + c = sum * (10 * p) + (10 * r + c)
      BY <2>2
    <3> QED  BY <3>1, <3>2
  <2>7. sum + c * scale = sum /\ scale \div 10 = 0
    BY <2>2
  <2>8. \E x \in Nat : x < Power10[(k + 1) - K] /\ 10 * N + c = sum * Power10[(k + 1) - K] + x
    BY <2>4, <2>5, <2>6
  <2> QED  BY <2>1, <2>2, <2>7, <2>8 DEF FractionRight
<1> QED  BY <1>1, <1>2, <1>3

LEMMA FractionRightBounds ==
  ASSUME NEW m \in Nat, NEW F, NEW d \in Nat, NEW K \in Nat, FractionRight(m, F, d, K)
  PROVE  \E x \in Nat : /\ F.sum = x /\ x * Power10[d] <= m * Power10[K]
                        /\ m * Power10[K] < (x + 1) * Power10[d]
<1>1. PICK p \in Nat : p = Power10[d] /\ 0 < p
  BY PowerPositive
<1>2. PICK scale \in Nat : scale = Power10[K] /\ 0 < scale
  BY PowerPositive
<1>3. CASE d < K
  <2>1. PICK e \in Nat : e = K - d /\ d + e = K
    BY <1>3
  <2>2. PICK q \in Nat : q = Power10[e]
    BY PowerPositive
  <2>3. scale = p * q
    BY <1>1, <1>2, <2>1, <2>2, PowersAdd
  <2>4. F.sum = m * q
    BY <1>3, <2>1, <2>2 DEF FractionRight
  <2>5. m * q \in Nat /\ (m * q) * p = m * scale
    BY <2>3
  <2>6. (m * q + 1) * p = (m * q) * p + p
    OBVIOUS
  <2>7. m * scale < (m * q + 1) * p
    <3>1. m * scale \in Nat
      OBVIOUS
    <3> QED  BY <1>1, <2>5, <2>6, <3>1
  <2>8. (m * q) * p <= m * scale
    <3>1. m * scale \in Nat
      OBVIOUS
    <3> QED  BY <2>5, <3>1
  <2> QED  BY <1>1, <1>2, <2>4, <2>5, <2>7, <2>8
<1>4. CASE K <= d
  <2>1. PICK e \in Nat : e = d - K /\ e + K = d
    BY <1>4
  <2>2. PICK q \in Nat : q = Power10[e]
    BY PowerPositive
  <2>3. p = q * scale
    BY <1>1, <1>2, <2>1, <2>2, PowersAdd
  <2>4. PICK x \in Nat, r \in Nat : F.sum = x /\ r < q /\ m = x * q + r
    BY <1>4, <2>1, <2>2 DEF FractionRight
  <2>5. m * scale = x * p + r * scale
    <3>1. (x * q + r) * scale = x * (q * scale) + r * scale
      OBVIOUS
    <3> QED  BY <2>3, <2>4, <3>1
  <2>6. r * scale \in Nat /\ r * scale < q * scale
    BY <1>2, <2>4
  <2>7. (x + 1) * p = x * p + p /\ x * p \in Nat
    OBVIOUS
  <2>8. x * p <= m * scale /\ m * scale < (x + 1) * p
    BY <2>3, <2>5, <2>6, <2>7
  <2> QED  BY <1>1, <1>2, <2>4, <2>8
<1> QED  BY <1>3, <1>4

\* What Fraction returns is the fraction in units of 1 / scale, cut off.
LEMMA FractionWithin ==
  ASSUME NEW t \in Seq(Nat), NEW i \in Nat \ {0}, NEW d \in Nat, NEW K \in Nat,
         i - 1 + d <= Len(t), AllDigits(t, i, i - 1 + d)
  PROVE  \E x \in Nat :
           /\ Fraction(t, i, i - 1 + d, Power10[K]) = x
           /\ x * Power10[d] <= Number(t, i, i - 1 + d) * Power10[K]
           /\ Number(t, i, i - 1 + d) * Power10[K] < (x + 1) * Power10[d]
<1> DEFINE n == Len(t)
           N(k) == Number(t, i, i - 1 + k)
<1>0. n \in Nat /\ i - 1 + d <= n
  OBVIOUS
<1>1. PICK scale \in Nat : scale = Power10[K]
  BY PowerPositive
<1>r. PICK F : FractionWalk(t, i, scale, F)
  BY <1>1, FractionSteps
<1>2. /\ F \in [0 .. n -> [sum : Int, scale : Nat]]
      /\ \A j \in 0 .. n :
           /\ Fraction(t, i, j, scale) = F[j].sum
           /\ j < i => F[j] = [sum |-> 0, scale |-> scale \div 10]
           /\ i <= j => F[j] = [sum |-> F[j - 1].sum + (t[j] - Zero) * F[j - 1].scale,
                               scale |-> F[j - 1].scale \div 10]
  BY <1>r, Zenon DEF FractionWalk
<1> HIDE DEF n
<1>3. \A j \in 0 .. n : /\ j < i => Number(t, i, j) = 0
                        /\ i <= j => Number(t, i, j) = 10 * Number(t, i, j - 1) + (t[j] - Zero)
  BY NumberSteps DEF n
<1>4. ASSUME NEW k \in Nat, k <= d PROVE N(k) \in Nat /\ N(k) < Power10[k]
  <2>1. i - 1 + k <= Len(t) /\ i .. i - 1 + k \subseteq i .. i - 1 + d
    BY <1>0, <1>4 DEF n
  <2>2. AllDigits(t, i, i - 1 + k)
    BY <2>1, Zenon DEF AllDigits
  <2> QED  BY <2>1, <2>2, NumberBounds
<1> DEFINE S == {k \in Nat : k <= d => FractionRight(N(k), F[i - 1 + k], k, K)}
<1>5. 0 \in S
  <2>1. PICK j \in 0 .. n : j = i - 1 + 0
    BY <1>0
  <2>2. N(0) = 0 /\ F[i - 1 + 0] = [sum |-> 0, scale |-> scale \div 10]
    BY <1>2, <1>3, <2>1
  <2>3. FractionRight(0, [sum |-> 0, scale |-> scale \div 10], 0, K)
    <3>1. scale \div 10 = IF K = 0 THEN 0 ELSE Power10[K - 1]
      BY <1>1, TenthOfPower
    <3>2. CASE K = 0
      <4>1. 0 \in Nat /\ 0 < Power10[0 - 0] /\ 0 = 0 * Power10[0 - 0] + 0
        <5>1. 0 - 0 = 0 /\ Power10[0] = 1
          BY Powers
        <5> QED  BY <5>1
      <4>2. scale \div 10 = 0 /\ ~(0 < K) /\ 0 - K = 0 - 0
        BY <3>1, <3>2
      <4> QED  BY <4>1, <4>2 DEF FractionRight
    <3>3. CASE K # 0
      <4>1. K - 1 - 0 = K - 1 /\ ~(K <= 0) /\ K - 0 = K /\ 0 * scale = 0
        BY <3>3
      <4>2. scale \div 10 = Power10[K - 1] /\ 0 * Power10[K] = 0
        BY <1>1, <3>1, <3>3, <4>1
      <4> QED  BY <4>1, <4>2 DEF FractionRight
    <3> QED  BY <3>2, <3>3
  <2> QED  BY <2>2, <2>3
<1>6. ASSUME NEW k \in Nat, k \in S PROVE k + 1 \in S
  <2> SUFFICES ASSUME k + 1 <= d PROVE FractionRight(N(k + 1), F[i - 1 + (k + 1)], k + 1, K)
    OBVIOUS
  <2>1. PICK j \in 0 .. n : j = i - 1 + (k + 1)
    BY <1>0
  <2>2. i <= j /\ j - 1 = i - 1 + k /\ k <= d /\ j \in i .. i - 1 + d /\ j - 1 \in 0 .. n
    BY <1>0, <2>1
  <2>3. t[j] \in Digits
    BY <2>2, Zenon DEF AllDigits
  <2>4. PICK c \in Nat : t[j] - Zero = c /\ c <= 9
    BY <2>3, DigitValue
  <2>5. N(k + 1) = 10 * N(k) + c
    BY <1>3, <2>1, <2>2, <2>4
  <2>6. PICK sum \in Int, s \in Nat : F[j - 1] = [sum |-> sum, scale |-> s]
    <3>1. F[j - 1] \in [sum : Int, scale : Nat]
      BY <1>2, <2>2, Zenon
    <3> QED  BY <3>1
  <2>7. F[j] = [sum |-> sum + c * s, scale |-> s \div 10]
    <3>1. F[j - 1].sum = sum /\ F[j - 1].scale = s
      BY <2>6
    <3>2. F[j] = [sum |-> F[j - 1].sum + (t[j] - Zero) * F[j - 1].scale,
                  scale |-> F[j - 1].scale \div 10]
      BY <1>2, <2>2, Zenon
    <3> QED  BY <2>4, <3>1, <3>2
  <2>8. FractionRight(N(k), [sum |-> sum, scale |-> s], k, K)
    BY <1>6, <2>2, <2>6
  <2>9. N(k) \in Nat
    BY <1>4, <2>2
  <2> HIDE DEF N
  <2>10. FractionRight(10 * N(k) + c, [sum |-> sum + c * s, scale |-> s \div 10], k + 1, K)
    BY <2>4, <2>6, <2>8, <2>9, FractionRightStep
  <2> QED  BY <2>1, <2>5, <2>7, <2>10
<1> HIDE DEF S
<1>7. d \in S
  BY <1>5, <1>6, SetInduction
<1>8. FractionRight(N(d), F[i - 1 + d], d, K) /\ N(d) \in Nat /\ N(d) < Power10[d]
  BY <1>4, <1>7 DEF S
<1>10. Fraction(t, i, i - 1 + d, scale) = F[i - 1 + d].sum
  <2>1. i - 1 + d \in 0 .. n
    BY <1>0
  <2> QED  BY <1>2, <2>1
<1>12. \E x \in Nat : /\ F[i - 1 + d].sum = x /\ x * Power10[d] <= N(d) * Power10[K]
                     /\ N(d) * Power10[K] < (x + 1) * Power10[d]
  BY <1>8, FractionRightBounds
<1> QED  BY <1>1, <1>10, <1>12

-----------------------------------------------------------------------------
(***************************************************************************)
(* What a number looks like.                                               *)
(***************************************************************************)

LEMMA DigitsEndIs ==
  ASSUME NEW t \in Seq(Nat), NEW i \in 1 .. Len(t) + 1
  PROVE  /\ DigitsEnd(t, i) \in i .. Len(t) + 1
         /\ AllDigits(t, i, DigitsEnd(t, i) - 1)
         /\ DigitsEnd(t, i) <= Len(t) => t[DigitsEnd(t, i)] \notin Digits
<1> DEFINE n == Len(t)
           S == {j \in i .. n + 1 : j = n + 1 \/ t[j] \notin Digits}
<1>1. n \in Nat /\ i \in 1 .. n + 1
  OBVIOUS
<1> HIDE DEF n
<1>2. PICK last \in Nat : last = n + 1
  BY <1>1
<1>3. S # {} /\ S \in SUBSET (0 .. last) /\ S \in SUBSET Int
  <2>1. n + 1 \in S
    BY <1>1
  <2>2. i .. n + 1 \subseteq 0 .. last /\ i .. n + 1 \subseteq Int
    BY <1>1, <1>2
  <2>3. S \subseteq i .. n + 1
    OBVIOUS
  <2> QED  BY <2>1, <2>2, <2>3, Zenon
<1> HIDE DEF S
<1>4. PICK k \in S : \A x \in S : k <= x
  BY <1>2, <1>3, LeastMember
<1>5. Min(S) = k
  BY <1>3, <1>4, MinIs
<1>6. DigitsEnd(t, i) = k
  BY <1>5 DEF DigitsEnd, S, n
<1>7. k \in i .. n + 1 /\ (k <= n => t[k] \notin Digits)
  BY <1>1 DEF S
<1>8. ASSUME NEW x \in i .. k - 1 PROVE t[x] \in Digits
  <2>1. x \in i .. n + 1 /\ x < k
    BY <1>1, <1>7
  <2>2. x \notin S
    BY <1>1, <1>4, <1>7, <2>1
  <2> QED  BY <2>1, <2>2 DEF S
<1> QED  BY <1>6, <1>7, <1>8 DEF AllDigits, n

\* Where digits end is determined.
LEMMA DigitsEndAt ==
  ASSUME NEW t \in Seq(Nat), NEW i \in 1 .. Len(t) + 1, NEW p \in i .. Len(t) + 1,
         AllDigits(t, i, p - 1), p <= Len(t) => t[p] \notin Digits
  PROVE  DigitsEnd(t, i) = p
<1> DEFINE n == Len(t)
<1>0. n \in Nat
  OBVIOUS
<1>1. PICK e \in i .. n + 1 : /\ e = DigitsEnd(t, i)
                              /\ AllDigits(t, i, e - 1)
                              /\ e <= n => t[e] \notin Digits
  BY DigitsEndIs
<1> HIDE DEF n
<1>2. p \in i .. n + 1
  BY DEF n
<1>3. ASSUME e < p PROVE FALSE
  <2>1. e \in i .. p - 1 /\ e <= n
    BY <1>0, <1>2, <1>3
  <2> QED  BY <1>1, <2>1 DEF AllDigits
<1>4. ASSUME p < e PROVE FALSE
  <2>1. p \in i .. e - 1 /\ p <= n
    BY <1>0, <1>2, <1>4
  <2> QED  BY <1>1, <2>1 DEF AllDigits, n
<1>5. e = p
  BY <1>0, <1>2, <1>3, <1>4
<1> QED  BY <1>1, <1>5

\* A number is written from i on, and p is its point or the end.
Written(t, i, p) ==
  /\ p \in i .. Len(t) + 1 /\ AllDigits(t, i, p - 1)
  /\ p <= Len(t) => t[p] = Dot /\ AllDigits(t, p + 1, Len(t))

LEMMA FractionEnds ==
  ASSUME NEW t \in Seq(Nat), NEW p \in 1 .. Len(t) + 1
  PROVE  /\ FractionEnd(t, p) > Len(t) <=>
              (p <= Len(t) => t[p] = Dot /\ AllDigits(t, p + 1, Len(t)))
         /\ FractionEnd(t, p) > Len(t) => FractionEnd(t, p) = Len(t) + 1
<1>1. PICK n \in Nat : n = Len(t)
  OBVIOUS
<1>2. CASE p <= n /\ t[p] = Dot
  <2>1. p + 1 \in 1 .. n + 1
    BY <1>1, <1>2
  <2>2. PICK e \in p + 1 .. n + 1 : /\ e = DigitsEnd(t, p + 1)
                                    /\ AllDigits(t, p + 1, e - 1)
                                    /\ e <= n => t[e] \notin Digits
    BY <1>1, <2>1, DigitsEndIs
  <2>3. FractionEnd(t, p) = e
    BY <1>1, <1>2, <2>2 DEF FractionEnd
  <2>4. ASSUME e > n PROVE e = n + 1 /\ AllDigits(t, p + 1, n)
    <3>1. e = n + 1 /\ e - 1 = n
      BY <2>4
    <3> QED  BY <2>2, <3>1
  <2>5. ASSUME AllDigits(t, p + 1, n) PROVE e > n
    <3>1. e <= n => e \in p + 1 .. n
      OBVIOUS
    <3> QED  BY <2>2, <2>5, <3>1 DEF AllDigits
  <2> QED  BY <1>1, <1>2, <2>3, <2>4, <2>5
<1>3. CASE ~(p <= n /\ t[p] = Dot)
  <2>1. FractionEnd(t, p) = p
    BY <1>1, <1>3 DEF FractionEnd
  <2> QED  BY <1>1, <1>3, <2>1
<1> QED  BY <1>2, <1>3

LEMMA WrittenFrom ==
  ASSUME NEW t \in Seq(Nat), NEW i \in Nat \ {0}, NEW p, Written(t, i, p), NEW k \in i .. p
  PROVE  Written(t, k, p)
<1>1. PICK n \in Nat : n = Len(t)
  OBVIOUS
<1>2. p \in k .. n + 1 /\ k .. p - 1 \subseteq i .. p - 1
  BY <1>1 DEF Written
<1>3. AllDigits(t, k, p - 1)
  BY <1>2 DEF Written, AllDigits
<1> QED  BY <1>1, <1>2, <1>3 DEF Written

LEMMA NoDigit == Dot \notin Digits /\ Plus \notin Digits /\ Minus \notin Digits /\ Dot \notin {Plus, Minus}
BY DEF Dot, Plus, Minus, Digits

\* No point stands before i.
WholeFrom(t, i) == \A k \in 1 .. i - 1 : t[k] # Dot

LEMMA PointsOfWritten ==
  ASSUME NEW t \in Seq(Nat), NEW i \in Nat \ {0}, NEW p, Written(t, i, p), WholeFrom(t, i)
  PROVE  /\ Points(t) = IF p <= Len(t) THEN {p} ELSE {}
         /\ Point(t) = p /\ Decimals(t) = IF p <= Len(t) THEN Len(t) - p ELSE 0
<1>1. PICK n \in Nat : n = Len(t) /\ DOMAIN t = 1 .. n
  OBVIOUS
<1>2. p \in i .. n + 1
  BY <1>1 DEF Written
<1>3. ASSUME NEW k \in Points(t) PROVE k = p /\ k <= n
  <2>1. k \in 1 .. n /\ t[k] = Dot
    BY <1>1 DEF Points
  <2>2. t[k] \notin Digits
    BY <2>1, NoDigit
  <2>3. ~(k \in 1 .. i - 1)
    BY <2>1 DEF WholeFrom
  <2>4. ~(k \in i .. p - 1)
    BY <2>2 DEF Written, AllDigits
  <2>5. ~(p <= n /\ k \in p + 1 .. n)
    BY <1>1, <2>2 DEF Written, AllDigits
  <2> QED  BY <1>2, <2>1, <2>3, <2>4, <2>5
<1>4. p <= n => p \in Points(t)
  <2> SUFFICES ASSUME p <= n PROVE p \in Points(t)
    OBVIOUS
  <2>1. p \in 1 .. n /\ t[p] = Dot
    BY <1>1, <1>2 DEF Written
  <2> QED  BY <1>1, <2>1 DEF Points
<1>5. Points(t) = IF p <= n THEN {p} ELSE {}
  BY <1>3, <1>4
<1>6. CASE p <= n
  <2>1. {p} \in SUBSET Int /\ p \in {p} /\ \A x \in {p} : x <= p
    BY <1>2
  <2>2. Max({p}) = p
    BY <2>1, MaxIs
  <2>3. Points(t) = {p} /\ Points(t) # {}
    BY <1>5, <1>6
  <2>4. Point(t) = p
    BY <2>2, <2>3 DEF Point
  <2> QED  BY <1>1, <1>5, <1>6, <2>3, <2>4 DEF Decimals
<1>7. CASE ~(p <= n)
  <2>1. Points(t) = {} /\ p = n + 1
    BY <1>2, <1>5, <1>7
  <2> QED  BY <1>1, <1>5, <1>7, <2>1 DEF Point, Decimals
<1> QED  BY <1>6, <1>7

LEMMA UnsignedOfWritten ==
  ASSUME NEW t \in Seq(Nat), NEW i \in Nat \ {0}, NEW p, Written(t, i, p), WholeFrom(t, i), i < p
  PROVE  Unsigned(t, i)
<1>1. PICK n \in Nat : n = Len(t)
  OBVIOUS
<1>2. p \in i .. n + 1
  BY <1>1 DEF Written
<1>3. Points(t) = IF p <= n THEN {p} ELSE {}
  BY <1>1, PointsOfWritten
<1>4. i <= n /\ i \in i .. p - 1
  BY <1>1, <1>2
<1>5. t[i] \in Digits
  BY <1>4 DEF Written, AllDigits
<1>6. \A k, q \in Points(t) : k = q
  BY <1>3
<1>7. ASSUME NEW k \in (i .. n) \ Points(t) PROVE t[k] \in Digits
  <2>1. k # p
    BY <1>3, <1>7
  <2>2. k \in i .. p - 1 \/ (p <= n /\ k \in p + 1 .. n)
    BY <1>1, <1>2, <2>1
  <2> QED  BY <1>1, <2>2 DEF Written, AllDigits
<1> QED  BY <1>1, <1>4, <1>5, <1>6, <1>7 DEF Unsigned

LEMMA WrittenOfUnsigned ==
  ASSUME NEW t \in Seq(Nat), NEW i \in Nat \ {0}, Unsigned(t, i), WholeFrom(t, i)
  PROVE  \E p \in Nat : Written(t, i, p) /\ i < p
<1>1. PICK n \in Nat : n = Len(t) /\ DOMAIN t = 1 .. n
  OBVIOUS
<1>2. /\ i <= n /\ t[i] \in Digits /\ \A p, q \in Points(t) : p = q
      /\ \A k \in (i .. n) \ Points(t) : t[k] \in Digits
  BY <1>1 DEF Unsigned
<1>3. CASE Points(t) = {}
  <2>1. AllDigits(t, i, (n + 1) - 1) /\ n + 1 \in i .. n + 1 /\ ~(n + 1 <= n) /\ i < n + 1
    BY <1>1, <1>2, <1>3 DEF AllDigits
  <2> QED  BY <1>1, <2>1 DEF Written
<1>4. CASE Points(t) # {}
  <2>1. PICK p : p \in Points(t) /\ \A q \in Points(t) : q = p
    BY <1>2, <1>4
  <2>2. p \in 1 .. n /\ t[p] = Dot
    BY <1>1, <2>1 DEF Points
  <2>3. p > i
    <3>1. p # i
      BY <1>2, <2>2, NoDigit
    <3>2. ~(p \in 1 .. i - 1)
      BY <2>2 DEF WholeFrom
    <3> QED  BY <1>1, <2>2, <3>1, <3>2
  <2>4. \A k \in i .. n : k # p => t[k] \in Digits
    BY <1>2, <2>1
  <2>5. AllDigits(t, i, p - 1)
    <3>1. \A k \in i .. p - 1 : k \in i .. n /\ k # p
      BY <1>1, <2>2
    <3> QED  BY <2>4, <3>1 DEF AllDigits
  <2>6. AllDigits(t, p + 1, n)
    <3>1. \A k \in p + 1 .. n : k \in i .. n /\ k # p
      BY <1>1, <2>2, <2>3
    <3> QED  BY <2>4, <3>1 DEF AllDigits
  <2>7. p \in i .. n + 1 /\ p \in Nat
    BY <1>1, <2>2, <2>3
  <2> QED  BY <1>1, <2>2, <2>3, <2>5, <2>6, <2>7 DEF Written
<1> QED  BY <1>3, <1>4

\* The parts of a written number, and what parse code makes of its fraction.
Parts(t, i, p, S, W, N, P, F) ==
  /\ Number(t, i, p - 1) = W /\ W < Power10[p - i]
  /\ Number(t, p + 1, Len(t)) = N /\ (N = 0 <=> \A k \in p + 1 .. Len(t) : t[k] = Zero)
  /\ Power10[Decimals(t)] = P /\ 0 < P /\ N < P
  /\ Units(t, i) = W * P + N
  /\ Fraction(t, p + 1, Len(t), S) = F /\ F * P <= N * S /\ N * S < (F + 1) * P

LEMMA PartsOfWritten ==
  ASSUME NEW t \in Seq(Nat), NEW i \in Nat \ {0}, NEW p, Written(t, i, p), WholeFrom(t, i),
         NEW K \in Nat
  PROVE  \E W, N, P, F \in Nat : Parts(t, i, p, Power10[K], W, N, P, F)
<1>1. PICK n \in Nat : n = Len(t)
  OBVIOUS
<1>2. p \in i .. n + 1 /\ p \in Nat /\ p \in Int
  BY <1>1 DEF Written
<1>3. PICK S \in Nat : S = Power10[K] /\ 0 < S
  BY PowerPositive
<1>4. PICK W \in Nat : Number(t, i, p - 1) = W /\ W < Power10[p - i]
  <2>1. PICK d \in Nat : d = p - i /\ i - 1 + d = p - 1 /\ i - 1 + d <= n
    BY <1>2
  <2>2. AllDigits(t, i, i - 1 + d)
    BY <2>1 DEF Written
  <2>3. Number(t, i, i - 1 + d) \in Nat /\ Number(t, i, i - 1 + d) < Power10[d]
    BY <1>1, <2>1, <2>2, NumberBounds
  <2> QED  BY <2>1, <2>3
<1>5. PICK N \in Nat, P \in Nat, F \in Nat :
        /\ Number(t, p + 1, n) = N /\ (N = 0 <=> \A k \in p + 1 .. n : t[k] = Zero)
        /\ Power10[Decimals(t)] = P /\ 0 < P /\ N < P
        /\ Fraction(t, p + 1, n, S) = F /\ F * P <= N * S /\ N * S < (F + 1) * P
  <2>1. CASE p <= n
    <3>1. PICK d \in Nat, a \in Nat \ {0} :
            d = n - p /\ a = p + 1 /\ a - 1 + d = n /\ a - 1 + d <= n
      BY <1>2, <2>1
    <3>2. Decimals(t) = d
      BY <1>1, <2>1, <3>1, PointsOfWritten
    <3>3. AllDigits(t, a, a - 1 + d)
      BY <1>1, <2>1, <3>1 DEF Written
    <3>4. PICK N \in Nat : /\ Number(t, a, a - 1 + d) = N /\ N < Power10[d]
                           /\ (N = 0 <=> \A k \in a .. a - 1 + d : t[k] = Zero)
      <4>1. /\ Number(t, a, a - 1 + d) \in Nat
            /\ Number(t, a, a - 1 + d) < Power10[d]
            /\ Number(t, a, a - 1 + d) = 0 <=> \A k \in a .. a - 1 + d : t[k] = Zero
        BY <1>1, <3>1, <3>3, NumberBounds
      <4> QED  BY <4>1, Zenon
    <3>5. PICK x \in Nat :
            /\ Fraction(t, a, a - 1 + d, Power10[K]) = x
            /\ x * Power10[d] <= Number(t, a, a - 1 + d) * Power10[K]
            /\ Number(t, a, a - 1 + d) * Power10[K] < (x + 1) * Power10[d]
      BY <1>1, <3>1, <3>3, FractionWithin
    <3>6. PICK P \in Nat : P = Power10[d] /\ 0 < P
      BY PowerPositive
    <3>7. /\ Number(t, p + 1, n) = N /\ (N = 0 <=> \A k \in p + 1 .. n : t[k] = Zero)
          /\ Power10[Decimals(t)] = P /\ N < P /\ Fraction(t, p + 1, n, S) = x
      BY <1>3, <3>1, <3>2, <3>4, <3>5, <3>6
    <3>8. x * P <= N * S /\ N * S < (x + 1) * P
      BY <1>3, <3>4, <3>5, <3>6
    <3> QED  BY <3>6, <3>7, <3>8
  <2>2. CASE ~(p <= n)
    <3>1. PICK a \in Nat \ {0} : a = p + 1 /\ n < a /\ n \in 0 .. n /\ p + 1 .. n = {}
      BY <1>2, <2>2
    <3>2. Number(t, a, n) = 0
      BY <1>1, <3>1, NumberSteps
    <3>3. PICK f : FractionWalk(t, a, S, f)
      BY <1>3, <3>1, FractionSteps
    <3>4. Fraction(t, a, n, S) = 0
      <4>1. \A j \in 0 .. n : /\ Fraction(t, a, j, S) = f[j].sum
                              /\ j < a => f[j] = [sum |-> 0, scale |-> S \div 10]
        BY <1>1, <3>3, Zenon DEF FractionWalk
      <4>2. Fraction(t, a, n, S) = f[n].sum /\ f[n] = [sum |-> 0, scale |-> S \div 10]
        BY <3>1, <4>1
      <4> QED  BY <4>2
    <3>5. Power10[Decimals(t)] = 1
      <4>1. Decimals(t) = 0
        BY <1>1, <2>2, PointsOfWritten
      <4> QED  BY <4>1, Powers
    <3>6. 0 * 1 <= 0 * S /\ 0 * S < (0 + 1) * 1
      OBVIOUS
    <3>7. 0 = 0 <=> \A k \in p + 1 .. n : t[k] = Zero
      BY <3>1
    <3>8. 0 \in Nat /\ 1 \in Nat /\ 0 < 1
      OBVIOUS
    <3>9. Number(t, p + 1, n) = 0 /\ Fraction(t, p + 1, n, S) = 0
      BY <3>1, <3>2, <3>4
    <3> QED  BY <3>5, <3>6, <3>7, <3>8, <3>9
  <2> QED  BY <2>1, <2>2
<1>6. Point(t) = p
  BY PointsOfWritten
<1>7. Units(t, i) = W * P + N
  BY <1>1, <1>4, <1>5, <1>6 DEF Units
<1>8. Parts(t, i, p, S, W, N, P, F)
  BY <1>1, <1>4, <1>5, <1>7, Zenon DEF Parts
<1> QED  BY <1>3, <1>8

-----------------------------------------------------------------------------
(***************************************************************************)
(* Signed decimal numbers.                                                 *)
(***************************************************************************)

LEMMA QuotientBetween ==
  ASSUME NEW s \in Nat \ {0}, NEW q \in Nat, NEW a \in Nat, q * s <= a, a < (q + 1) * s
  PROVE  a \div s = q
<1>1. (q + 1) * s = q * s + s /\ q * s \in Nat
  OBVIOUS
<1>2. PICK r \in 0 .. s - 1 : a = q * s + r
  BY <1>1
<1> QED  BY <1>2, QuotientIs

\* A whole number that is refused would not fit: neither sign's limit is passed
\* over, for the lower one is no multiple of the scale.
LEMMA Overflow ==
  ASSUME NEW S \in Nat \ {0}, NEW M \in Nat, NEW W \in Nat, ~(W <= M \div S), (M + 1) % S # 0
  PROVE  W * S >= M + 2
<1>1. PICK q \in Nat, r \in 0 .. S - 1 : q = M \div S /\ M = S * q + r
  BY Quotient
<1>2. W * S >= S * q + S /\ W * S \in Nat
  <2>1. PICK e \in Nat : W = q + 1 + e
    <3>1. W >= q + 1 /\ W - (q + 1) \in Nat /\ W = q + 1 + (W - (q + 1))
      BY <1>1
    <3> QED  BY <3>1
  <2>2. W * S = S * q + S + e * S /\ e * S \in Nat /\ S * q \in Nat
    BY <2>1
  <2> QED  BY <2>2
<1>3. W * S # M + 1
  <2>1. 0 \in 0 .. S - 1
    OBVIOUS
  <2>2. (W * S + 0) % S = 0
    BY <2>1, QuotientIs
  <2>3. W * S + 0 = W * S
    OBVIOUS
  <2> QED  BY <2>2, <2>3
<1>4. S * q \in Nat
  OBVIOUS
<1> QED  BY <1>1, <1>2, <1>3, <1>4

LEMMA SignedStart ==
  ASSUME NEW t \in Seq(Nat)
  PROVE  FixedStart(t) \in 1 .. Len(t) + 1 /\ WholeFrom(t, FixedStart(t))
<1>1. PICK n \in Nat : n = Len(t) /\ (t # <<>> => n >= 1)
  OBVIOUS
<1>2. CASE t # <<>> /\ t[1] \in {Plus, Minus}
  <2>1. FixedStart(t) = 2
    BY <1>2 DEF FixedStart
  <2>2. \A k \in 1 .. 2 - 1 : k = 1
    OBVIOUS
  <2>3. t[1] # Dot
    BY <1>2, NoDigit
  <2> QED  BY <1>1, <1>2, <2>1, <2>2, <2>3 DEF WholeFrom
<1>3. CASE ~(t # <<>> /\ t[1] \in {Plus, Minus})
  <2>1. FixedStart(t) = 1 /\ 1 .. 1 - 1 = {}
    BY <1>3 DEF FixedStart
  <2> QED  BY <1>1, <2>1 DEF WholeFrom
<1> QED  BY <1>2, <1>3

\* The form that parse_fixed_milli accepts.
LEMMA FixedForm ==
  ASSUME NEW t \in Seq(Nat), NEW i \in 1 .. Len(t) + 1, WholeFrom(t, i)
  PROVE  LET p == DigitsEnd(t, i) IN
           /\ i < p /\ FractionEnd(t, p) > Len(t) <=> Unsigned(t, i)
           /\ Unsigned(t, i) => Written(t, i, p) /\ FractionEnd(t, p) = Len(t) + 1
<1>1. PICK n \in Nat : n = Len(t)
  OBVIOUS
<1>2. PICK p \in i .. n + 1 : /\ p = DigitsEnd(t, i) /\ AllDigits(t, i, p - 1)
                              /\ p <= n => t[p] \notin Digits
  BY <1>1, DigitsEndIs
<1>3. p \in 1 .. n + 1 /\ i \in Nat \ {0}
  BY <1>1, <1>2
<1>4. /\ FractionEnd(t, p) > n <=> (p <= n => t[p] = Dot /\ AllDigits(t, p + 1, n))
      /\ FractionEnd(t, p) > n => FractionEnd(t, p) = n + 1
  BY <1>1, <1>3, FractionEnds
<1>5. FractionEnd(t, p) > n <=> Written(t, i, p)
  BY <1>1, <1>2, <1>4 DEF Written
<1>6. ASSUME i < p, FractionEnd(t, p) > n PROVE Unsigned(t, i)
  BY <1>3, <1>5, <1>6, UnsignedOfWritten
<1>7. ASSUME Unsigned(t, i) PROVE i < p /\ FractionEnd(t, p) > n
  <2>1. PICK q \in Nat : Written(t, i, q) /\ i < q
    BY <1>3, <1>7, WrittenOfUnsigned
  <2>2. q \in i .. Len(t) + 1 /\ AllDigits(t, i, q - 1) /\ (q <= Len(t) => t[q] \notin Digits)
    BY <2>1, NoDigit DEF Written
  <2>3. q = p
    BY <1>2, <2>2, DigitsEndAt
  <2> QED  BY <1>5, <2>1, <2>3
<1> QED  BY <1>1, <1>2, <1>4, <1>5, <1>6, <1>7

LEMMA FieldNumbers ==
  /\ FixedScale \in Nat \ {0} /\ IntMax \in Nat \ {0} /\ MinuteScale \in Nat \ {0}
  /\ DegreeScale \in Nat \ {0} /\ BufferRoom \in Nat \ {0}
  /\ \E k \in Nat : FixedScale = Power10[k]
  /\ \E k \in Nat : MinuteScale = Power10[k]
<1>1. /\ FixedScale \in Nat \ {0} /\ IntMax \in Nat \ {0} /\ MinuteScale \in Nat \ {0}
      /\ DegreeScale \in Nat \ {0} /\ BufferRoom \in Nat \ {0}
  BY FieldAssumption
<1>2. 0 .. FixedScale \subseteq Nat /\ 0 .. MinuteScale \subseteq Nat
  BY <1>1
<1> QED  BY <1>1, <1>2, ScaleAssumption

LEMMA FixedExact ==
  ASSUME text \in Seq(Nat)
  PROVE  FixedRight
<1>1. PICK n \in Nat : n = Len(text)
  OBVIOUS
<1>2. PICK i \in 1 .. n + 1 : i = FixedStart(text) /\ WholeFrom(text, i)
  BY <1>1, SignedStart
<1>3. PICK p : p = DigitsEnd(text, i)
  OBVIOUS
<1>4. /\ i < p /\ FractionEnd(text, p) > n <=> Unsigned(text, i)
      /\ Unsigned(text, i) => Written(text, i, p) /\ FractionEnd(text, p) = n + 1
  BY <1>1, <1>2, <1>3, FixedForm
<1> DEFINE range == -IntMax - 1 .. IntMax
           sign == IF text[1] = Minus THEN -1 ELSE 1
           whole == Number(text, i, p - 1)
           fraction == Fraction(text, p + 1, FractionEnd(text, p) - 1, FixedScale)
<1>5. FixedMilli(text) =
        IF i < p /\ FractionEnd(text, p) > n /\ whole <= IntMax \div FixedScale
        THEN {sign * (whole * FixedScale + fraction)} \cap range
        ELSE {}
  BY <1>1, <1>2, <1>3, Zenon DEF FixedMilli, FixedValue
<1>6. CASE ~Unsigned(text, i)
  BY <1>2, <1>4, <1>5, <1>6 DEF FixedRight
<1>7. CASE Unsigned(text, i)
  <2>1. PICK K \in Nat : FixedScale = Power10[K]
    BY FieldNumbers
  <2>2. Written(text, i, p) /\ FractionEnd(text, p) - 1 = n /\ i \in Nat \ {0}
    BY <1>1, <1>4, <1>7
  <2>3. PICK W \in Nat, N \in Nat, P \in Nat, F \in Nat : Parts(text, i, p, FixedScale, W, N, P, F)
    BY <1>2, <2>1, <2>2, PartsOfWritten
  <2>4. /\ whole = W /\ fraction = F /\ Power10[Decimals(text)] = P /\ 0 < P
        /\ Units(text, i) = W * P + N /\ F * P <= N * FixedScale /\ N * FixedScale < (F + 1) * P
    BY <1>1, <2>2, <2>3, Zenon DEF Parts
  <2> HIDE DEF whole, fraction
  <2>5. PICK S \in Nat \ {0}, M \in Nat : S = FixedScale /\ M = IntMax /\ (M + 1) % S # 0
    BY FieldNumbers, ScaleAssumption
  <2>6. PICK v \in Nat : v = W * S + F
    OBVIOUS
  <2>7. (Units(text, i) * FixedScale) \div Power10[Decimals(text)] = v
    <3>1. (W * P + N) * S = (W * S) * P + N * S /\ (W * S + F) * P = (W * S) * P + F * P
      OBVIOUS
    <3>2. (W * S + F + 1) * P = (W * S) * P + (F + 1) * P
      OBVIOUS
    <3>3. (W * S) * P \in Nat /\ F * P \in Nat /\ N * S \in Nat /\ (F + 1) * P \in Nat
      OBVIOUS
    <3>4. F * P <= N * S /\ N * S < (F + 1) * P
      BY <2>4, <2>5
    <3>5. v * P <= (W * P + N) * S /\ (W * P + N) * S < (v + 1) * P
      BY <2>6, <3>1, <3>2, <3>3, <3>4
    <3>6. (W * P + N) * S \in Nat /\ P \in Nat \ {0}
      <4>1. PICK u \in Nat : u = W * P + N
        OBVIOUS
      <4>2. u * S \in Nat
        OBVIOUS
      <4>3. P \in Nat \ {0}
        BY <2>4
      <4> QED  BY <4>1, <4>2, <4>3, Zenon
    <3>7. ((W * P + N) * S) \div P = v
      BY <3>5, <3>6, QuotientBetween
    <3> QED  BY <2>4, <2>5, <3>7
  <2>8. FixedMilli(text) = IF W <= M \div S THEN {sign * v} \cap range ELSE {}
    BY <1>4, <1>5, <1>7, <2>4, <2>5, <2>6
  <2> DEFINE signed == IF text[1] = Minus THEN -v ELSE v
  <2>9. sign * v = signed
    OBVIOUS
  <2>10. ASSUME ~(W <= M \div S) PROVE {signed} \cap range = {}
    <3>1. W * S >= M + 2
      BY <2>5, <2>10, Overflow
    <3>2. W * S \in Nat
      OBVIOUS
    <3>3. v >= M + 2
      BY <2>6, <3>1, <3>2
    <3>4. ~(v \in range) /\ ~(-v \in range)
      BY <2>5, <3>3
    <3> QED  BY <3>4
  <2>11. FixedMilli(text) = {signed} \cap range
    <3> HIDE DEF signed, sign, range
    <3> QED  BY <2>8, <2>9, <2>10
  <2>12. FixedMilli(text) = {IF text[1] = Minus THEN -v ELSE v} \cap (-IntMax - 1 .. IntMax)
    BY <2>11
  <2> QED  BY <1>2, <1>7, <2>7, <2>12, Zenon DEF FixedRight
<1> QED  BY <1>6, <1>7

-----------------------------------------------------------------------------
(***************************************************************************)
(* Coordinates.                                                            *)
(***************************************************************************)

\* Digits up to q - 1, and then the end or a point and more digits.
LEMMA PlaceForm ==
  ASSUME NEW t \in Seq(Nat), NEW q \in Nat, q > 1
  PROVE  /\ Written(t, 1, q) <=>
              Len(t) >= q - 1 /\ AllDigits(t, 1, q - 1) /\ FractionEnd(t, q) > Len(t)
         /\ Written(t, 1, q) =>
              FractionEnd(t, q) = Len(t) + 1 /\ \A i \in 1 .. q : WholeFrom(t, i)
         /\ Written(t, 1, q) <=>
              Unsigned(t, 1) /\ ((Points(t) = {} /\ Len(t) = q - 1) \/ Points(t) = {q})
<1>1. PICK n \in Nat : n = Len(t)
  OBVIOUS
<1>2. WholeFrom(t, 1) /\ 1 \in Nat \ {0}
  BY DEF WholeFrom
<1>3. ASSUME q <= n + 1
      PROVE  /\ Written(t, 1, q) <=> AllDigits(t, 1, q - 1) /\ FractionEnd(t, q) > n
             /\ Written(t, 1, q) => FractionEnd(t, q) = n + 1
  <2>1. q \in 1 .. n + 1
    BY <1>1, <1>3
  <2>2. /\ FractionEnd(t, q) > n <=> (q <= n => t[q] = Dot /\ AllDigits(t, q + 1, n))
        /\ FractionEnd(t, q) > n => FractionEnd(t, q) = n + 1
    BY <1>1, <2>1, FractionEnds
  <2> QED  BY <1>1, <2>1, <2>2 DEF Written
<1>4. Written(t, 1, q) => q <= n + 1
  BY <1>1 DEF Written
<1>5. q <= n + 1 <=> n >= q - 1
  BY <1>1
<1>6. ASSUME Written(t, 1, q), NEW i \in 1 .. q PROVE WholeFrom(t, i)
  <2> SUFFICES ASSUME NEW k \in 1 .. i - 1 PROVE t[k] # Dot
    BY DEF WholeFrom
  <2>1. k \in 1 .. q - 1
    OBVIOUS
  <2>2. t[k] \in Digits
    BY <1>6, <2>1 DEF Written, AllDigits
  <2> QED  BY <2>2, NoDigit
<1>7. ASSUME Written(t, 1, q)
      PROVE  Unsigned(t, 1) /\ ((Points(t) = {} /\ n = q - 1) \/ Points(t) = {q})
  <2>1. Unsigned(t, 1)
    BY <1>2, <1>7, UnsignedOfWritten
  <2>2. Points(t) = IF q <= n THEN {q} ELSE {}
    BY <1>1, <1>2, <1>7, PointsOfWritten
  <2>3. ~(q <= n) => n = q - 1
    BY <1>1, <1>4, <1>7
  <2> QED  BY <2>1, <2>2, <2>3
<1>8. ASSUME Unsigned(t, 1), (Points(t) = {} /\ n = q - 1) \/ Points(t) = {q}
      PROVE  Written(t, 1, q)
  <2>1. PICK p \in Nat : Written(t, 1, p) /\ 1 < p
    BY <1>2, <1>8, WrittenOfUnsigned
  <2>2. Points(t) = IF p <= n THEN {p} ELSE {}
    BY <1>1, <1>2, <2>1, PointsOfWritten
  <2>3. p <= n + 1
    BY <1>1, <2>1 DEF Written
  <2>4. p = q
    <3>1. CASE p <= n
      <4>1. p \in Points(t) /\ Points(t) # {}
        BY <2>2, <3>1
      <4> QED  BY <1>8, <4>1
    <3>2. CASE ~(p <= n)
      <4>1. Points(t) = {} /\ p = n + 1
        BY <2>2, <2>3, <3>2
      <4>2. n = q - 1
        BY <1>8, <4>1
      <4> QED  BY <4>1, <4>2
    <3> QED  BY <3>1, <3>2
  <2> QED  BY <2>1, <2>4
<1> QED  BY <1>1, <1>3, <1>4, <1>5, <1>6, <1>7, <1>8

LEMMA MinutesArithmetic ==
  ASSUME NEW S \in Nat \ {0}, NEW P \in Nat \ {0}, NEW m \in Nat, NEW M \in Nat,
         m * P <= M * S, M * S < (m + 1) * P, NEW g \in Nat, NEW limit \in Nat
  PROVE  /\ m < 60 * S <=> M < 60 * P
         /\ ((g * (60 * P) + M) * S) \div P = g * 60 * S + m
         /\ m < 60 * S => (g * 60 * S + m <= limit * 60 * S <=> g < limit \/ (g = limit /\ m = 0))
<1>1. ASSUME m < 60 * S PROVE M < 60 * P
  <2>1. PICK e \in Nat : 60 * S = m + 1 + e
    <3>1. 60 * S - (m + 1) \in Nat /\ 60 * S = m + 1 + (60 * S - (m + 1))
      BY <1>1
    <3> QED  BY <3>1
  <2>2. (60 * S) * P = (m + 1) * P + e * P /\ e * P \in Nat /\ M * S \in Nat /\ (m + 1) * P \in Nat
    BY <2>1
  <2>3. M * S < (60 * P) * S
    <3>1. (60 * S) * P = (60 * P) * S
      OBVIOUS
    <3> QED  BY <2>2, <3>1
  <2> SUFFICES ASSUME 60 * P <= M PROVE FALSE
    OBVIOUS
  <2>4. PICK f \in Nat : M = 60 * P + f
    <3>1. M - 60 * P \in Nat /\ M = 60 * P + (M - 60 * P)
      OBVIOUS
    <3> QED  BY <3>1
  <2>5. M * S = (60 * P) * S + f * S /\ f * S \in Nat /\ (60 * P) * S \in Nat
    BY <2>4
  <2> QED  BY <2>3, <2>5
<1>2. ASSUME M < 60 * P PROVE m < 60 * S
  <2>1. PICK e \in Nat : 60 * P = M + 1 + e
    <3>1. 60 * P - (M + 1) \in Nat /\ 60 * P = M + 1 + (60 * P - (M + 1))
      BY <1>2
    <3> QED  BY <3>1
  <2>2. (60 * P) * S = M * S + S + e * S /\ e * S \in Nat /\ M * S \in Nat
    BY <2>1
  <2>3. m * P < (60 * S) * P
    <3>1. (60 * S) * P = (60 * P) * S /\ m * P \in Nat
      OBVIOUS
    <3> QED  BY <2>2, <3>1
  <2> SUFFICES ASSUME 60 * S <= m PROVE FALSE
    OBVIOUS
  <2>4. PICK f \in Nat : m = 60 * S + f
    <3>1. m - 60 * S \in Nat /\ m = 60 * S + (m - 60 * S)
      OBVIOUS
    <3> QED  BY <3>1
  <2>5. m * P = (60 * S) * P + f * P /\ f * P \in Nat /\ (60 * S) * P \in Nat
    BY <2>4
  <2> QED  BY <2>3, <2>5
<1>3. ((g * (60 * P) + M) * S) \div P = g * 60 * S + m
  <2>1. PICK G \in Nat : G = g * 60 * S
    OBVIOUS
  <2>2. (g * (60 * P) + M) * S = G * P + M * S
    BY <2>1
  <2>3. (G + m) * P = G * P + m * P /\ (G + m + 1) * P = G * P + (m + 1) * P
    OBVIOUS
  <2>4. G * P \in Nat /\ M * S \in Nat /\ m * P \in Nat /\ (m + 1) * P \in Nat
    OBVIOUS
  <2>5. (G + m) * P <= G * P + M * S /\ G * P + M * S < (G + m + 1) * P
    BY <2>3, <2>4
  <2>6. (G * P + M * S) \div P = G + m
    BY <2>4, <2>5, QuotientBetween
  <2> QED  BY <2>1, <2>2, <2>6
<1>4. ASSUME m < 60 * S
      PROVE  g * 60 * S + m <= limit * 60 * S <=> g < limit \/ (g = limit /\ m = 0)
  <2>1. PICK H \in Nat : H = 60 * S /\ m < H
    BY <1>4
  <2>2. g * 60 * S = g * H /\ limit * 60 * S = limit * H
    BY <2>1
  <2>3. g * H \in Nat /\ limit * H \in Nat
    OBVIOUS
  <2>4. CASE g < limit
    <3>1. PICK e \in Nat : limit = g + 1 + e
      <4>1. limit - (g + 1) \in Nat /\ limit = g + 1 + (limit - (g + 1))
        BY <2>4
      <4> QED  BY <4>1
    <3>2. limit * H = g * H + H + e * H /\ e * H \in Nat
      BY <3>1
    <3> QED  BY <2>1, <2>2, <2>3, <2>4, <3>2
  <2>5. CASE g = limit
    BY <2>2, <2>3, <2>5
  <2>6. CASE g > limit
    <3>1. PICK e \in Nat : g = limit + 1 + e
      <4>1. g - (limit + 1) \in Nat /\ g = limit + 1 + (g - (limit + 1))
        BY <2>6
      <4> QED  BY <4>1
    <3>2. g * H = limit * H + H + e * H /\ e * H \in Nat
      BY <3>1
    <3>3. H > 0
      BY <2>1
    <3> QED  BY <2>2, <2>3, <2>6, <3>2, <3>3
  <2> QED  BY <2>4, <2>5, <2>6
<1> QED  BY <1>1, <1>2, <1>3, <1>4

\* Minutes rounded to the scale of degrees.
LEMMA RoundedMinutes ==
  ASSUME NEW S \in Nat \ {0}, NEW D \in Nat \ {0}, NEW m \in Nat, m < 60 * S
  PROVE  \E v \in Nat, r \in Nat :
           /\ v = (m * D + 30 * S) \div (60 * S) /\ v <= D /\ (m = 0 => v = 0)
           /\ r < 60 * S /\ v * (60 * S) + r = m * D + 30 * S
<1>1. PICK H \in Nat \ {0} : H = 60 * S /\ m < H
  OBVIOUS
<1>2. PICK a \in Nat : a = m * D + 30 * S
  OBVIOUS
<1>3. PICK v \in Nat, r \in 0 .. H - 1 : v = a \div H /\ a = H * v + r
  BY Quotient
<1>4. v <= D
  <2>1. PICK e \in Nat : H = m + 1 + e
    <3>1. H - (m + 1) \in Nat /\ H = m + 1 + (H - (m + 1))
      BY <1>1
    <3> QED  BY <3>1
  <2>2. H * D = m * D + D + e * D /\ e * D \in Nat /\ m * D \in Nat
    BY <2>1
  <2>3. a < H * D + H
    BY <1>1, <1>2, <2>2
  <2> SUFFICES ASSUME D < v PROVE FALSE
    OBVIOUS
  <2>4. PICK f \in Nat : v = D + 1 + f
    <3>1. v - (D + 1) \in Nat /\ v = D + 1 + (v - (D + 1))
      OBVIOUS
    <3> QED  BY <3>1
  <2>5. H * v = H * D + H + H * f /\ H * f \in Nat /\ H * D \in Nat
    BY <2>4
  <2> QED  BY <1>3, <2>3, <2>5
<1>5. m = 0 => v = 0
  <2> SUFFICES ASSUME m = 0 PROVE v = 0
    OBVIOUS
  <2>1. a = 30 * S
    BY <1>2
  <2>2. 0 * H <= a /\ a < (0 + 1) * H
    BY <1>1, <2>1
  <2>3. a \div H = 0
    BY <2>2, QuotientBetween
  <2> QED  BY <1>3, <2>3
<1>6. v * H + r = a /\ r < H
  BY <1>3
<1> QED  BY <1>1, <1>2, <1>3, <1>4, <1>5, <1>6

\* Half of the last place from rounding, the rest from minutes that are cut off.
LEMMA RoundingBound ==
  ASSUME NEW S \in Nat \ {0}, NEW D \in Nat \ {0}, NEW P \in Nat \ {0}, NEW g \in Nat,
         NEW m \in Nat, NEW M \in Nat, m * P <= M * S, M * S < (m + 1) * P,
         NEW v \in Nat, NEW r \in Nat, r < 60 * S, v * (60 * S) + r = m * D + 30 * S,
         NEW off \in Int, off = (g * D + v) * (60 * P) - (g * (60 * P) + M) * D,
         NEW bound \in Int, bound = (60 * P) * (60 * S + 2 * D)
  PROVE  off * 120 * S < bound /\ (-off) * 120 * S < bound
<1>1. PICK s \in Nat : M * S = m * P + s /\ s < P
  <2>1. (m + 1) * P = m * P + P
    OBVIOUS
  <2>2. PICK a \in Nat, b \in Nat : a = m * P /\ b = M * S
    OBVIOUS
  <2>3. a <= b /\ b < a + P
    BY <2>1, <2>2
  <2>4. b - a \in Nat /\ b = a + (b - a) /\ b - a < P
    BY <2>3
  <2> QED  BY <2>2, <2>4
<1>3. off = v * (60 * P) - M * D
  OBVIOUS
<1>4. off * S = (v * (60 * S)) * P - (M * S) * D
  BY <1>3
<1>5. v * (60 * S) = m * D + 30 * S - r
  OBVIOUS
<1>6. off * S = (m * D + 30 * S - r) * P - (m * P + s) * D
  BY <1>1, <1>4, <1>5
<1>7. (m * D + 30 * S - r) * P - (m * P + s) * D = 30 * (S * P) - r * P - s * D
  OBVIOUS
<1>8. r * P \in Nat /\ s * D \in Nat /\ S * P \in Nat /\ P * D \in Nat /\ 0 < P * D
  OBVIOUS
<1>9. s * D < P * D
  <2>1. PICK e \in Nat : P = s + 1 + e
    <3>1. P - (s + 1) \in Nat /\ P = s + 1 + (P - (s + 1))
      BY <1>1
    <3> QED  BY <3>1
  <2>2. P * D = s * D + D + e * D /\ e * D \in Nat
    BY <2>1
  <2> QED  BY <1>8, <2>2
<1>10. r * P < 60 * (S * P)
  <2>1. PICK e \in Nat : 60 * S = r + 1 + e
    <3>1. 60 * S - (r + 1) \in Nat /\ 60 * S = r + 1 + (60 * S - (r + 1))
      OBVIOUS
    <3> QED  BY <3>1
  <2>2. (60 * S) * P = r * P + P + e * P /\ e * P \in Nat /\ (60 * S) * P = 60 * (S * P)
    BY <2>1
  <2> QED  BY <1>8, <2>2
<1>11. off * S < 30 * (S * P) + P * D /\ -(off * S) < 30 * (S * P) + P * D
  <2>1. off * S = 30 * (S * P) - r * P - s * D
    BY <1>6, <1>7
  <2> QED  BY <1>8, <1>9, <1>10, <2>1
<1>12. bound = 120 * (30 * (S * P) + P * D)
  OBVIOUS
<1>13. off * 120 * S = 120 * (off * S) /\ (-off) * 120 * S = 120 * (-(off * S))
  OBVIOUS
<1>14. off * S \in Int /\ -(off * S) \in Int /\ 30 * (S * P) + P * D \in Int
  OBVIOUS
<1> QED  BY <1>11, <1>12, <1>13, <1>14

\* Digits to the left of a place write a number.
LEMMA LeadingNumber ==
  ASSUME NEW t \in Seq(Nat), NEW q \in Nat, Written(t, 1, q), NEW j \in Nat, j < q
  PROVE  Number(t, 1, j) \in Nat
<1>1. PICK n \in Nat : n = Len(t)
  OBVIOUS
<1>2. 1 - 1 + j = j /\ 1 - 1 + j <= n /\ 1 .. j \subseteq 1 .. q - 1
  BY <1>1 DEF Written
<1>3. AllDigits(t, 1, 1 - 1 + j)
  BY <1>2 DEF Written, AllDigits
<1>4. 1 \in Nat \ {0}
  OBVIOUS
<1>5. Number(t, 1, 1 - 1 + j) \in Nat
  BY <1>1, <1>2, <1>3, <1>4, NumberBounds
<1> QED  BY <1>2, <1>5

LEMMA CoordinatesExact ==
  ASSUME text \in Seq(Nat)
  PROVE  CoordinatesRight
<1> DEFINE limitOf(n) == IF n = 2 THEN 90 ELSE 180
           places == Power10[Decimals(text)]
           unit == 60 * places
           minutesOf(n) == Units(text, n + 1)
           writtenOf(n) == Number(text, 1, n) * unit + minutesOf(n)
           Accepted(n, h) == /\ h # "A"
                             /\ Unsigned(text, 1)
                             /\ (Points(text) = {} /\ Len(text) = n + 2) \/ Points(text) = {n + 3}
                             /\ minutesOf(n) < unit
                             /\ (writtenOf(n) * MinuteScale) \div places
                                  <= limitOf(n) * 60 * MinuteScale
           degreesOf(value, h) == IF h = "W" THEN -value ELSE value
           offOf(value, n, h) == degreesOf(value, h) * unit - writtenOf(n) * DegreeScale
           Near(value, n, h) ==
             /\ degreesOf(value, h) \in 0 .. limitOf(n) * DegreeScale
             /\ Max({offOf(value, n, h), -offOf(value, n, h)}) * 120 * MinuteScale
                  < unit * (60 * MinuteScale + 2 * DegreeScale)
<1>1. SUFFICES ASSUME NEW n \in {2, 3}, NEW h \in {"N", "W", "A"}
               PROVE  /\ Coordinate(text, n, h) # {} <=> Accepted(n, h)
                      /\ \A value \in Coordinate(text, n, h) : Near(value, n, h)
  BY Zenon DEF CoordinatesRight
<1> HIDE DEF Accepted, Near
<1>2. PICK len \in Nat : len = Len(text)
  OBVIOUS
<1>3. PICK q \in Nat, limit \in Nat : q = n + 3 /\ q - 1 = n + 2 /\ q > 1 /\ limit = limitOf(n)
  OBVIOUS
<1> DEFINE degrees == Number(text, 1, n)
           end == FractionEnd(text, n + 3)
           minutes == Number(text, n + 1, n + 2) * MinuteScale
                        + Fraction(text, n + 4, end - 1, MinuteScale)
           value == degrees * DegreeScale
                      + (minutes * DegreeScale + 30 * MinuteScale) \div (60 * MinuteScale)
           signed == IF h \in {"S", "W"} THEN -value ELSE value
           Accepts == /\ len >= n + 2 /\ AllDigits(text, 1, n + 2) /\ end > len
                      /\ minutes < 60 * MinuteScale
                      /\ degrees < limit \/ (degrees = limit /\ minutes = 0)
                      /\ h \in {"N", "E", "S", "W"}
<1>4. Coordinate(text, n, h) = IF Accepts THEN {signed} ELSE {}
  BY <1>2, <1>3, Zenon DEF Coordinate
<1>5. h \in {"N", "E", "S", "W"} <=> h # "A"
  OBVIOUS
<1>6. /\ Written(text, 1, q) <=> len >= n + 2 /\ AllDigits(text, 1, n + 2) /\ end > len
      /\ Written(text, 1, q) => end = len + 1 /\ \A i \in 1 .. q : WholeFrom(text, i)
      /\ Written(text, 1, q) <=>
           Unsigned(text, 1) /\ ((Points(text) = {} /\ len = n + 2) \/ Points(text) = {n + 3})
  BY <1>2, <1>3, PlaceForm
<1>7. CASE ~Written(text, 1, q)
  <2>1. ~Accepts
    BY <1>6, <1>7
  <2>2. ~Accepted(n, h)
    BY <1>2, <1>6, <1>7 DEF Accepted
  <2> HIDE DEF Accepts
  <2> QED  BY <1>4, <2>1, <2>2
<1>8. CASE Written(text, 1, q)
  <2>1. PICK K \in Nat, S \in Nat \ {0}, D \in Nat \ {0} :
          MinuteScale = Power10[K] /\ S = MinuteScale /\ D = DegreeScale
    BY FieldNumbers
  <2>2. PICK i \in Nat \ {0} : i = n + 1 /\ i \in 1 .. q
    BY <1>3
  <2>3. Written(text, i, q) /\ WholeFrom(text, i)
    <3>1. 1 \in Nat \ {0}
      OBVIOUS
    <3> QED  BY <1>6, <1>8, <2>2, <3>1, WrittenFrom
  <2>4. PICK W \in Nat, N \in Nat, P \in Nat, F \in Nat :
          Parts(text, i, q, MinuteScale, W, N, P, F)
    BY <2>1, <2>3, PartsOfWritten
  <2>5. /\ Number(text, n + 1, n + 2) = W /\ Fraction(text, n + 4, end - 1, MinuteScale) = F
        /\ places = P /\ 0 < P /\ minutesOf(n) = W * P + N
        /\ F * P <= N * S /\ N * S < (F + 1) * P
    <3>1. end - 1 = len /\ q + 1 = n + 4
      BY <1>3, <1>6, <1>8
    <3> HIDE DEF end, places, minutesOf
    <3>2. /\ Number(text, i, q - 1) = W /\ Fraction(text, q + 1, Len(text), MinuteScale) = F
          /\ Power10[Decimals(text)] = P /\ 0 < P /\ Units(text, i) = W * P + N
          /\ F * P <= N * MinuteScale /\ N * MinuteScale < (F + 1) * P
      BY <2>4, Zenon DEF Parts
    <3> QED  BY <1>2, <1>3, <2>1, <2>2, <3>1, <3>2 DEF places, minutesOf
  <2>6. PICK g \in Nat : g = degrees
    <3>1. n \in Nat /\ n < q
      BY <1>3
    <3> QED  BY <1>8, <3>1, LeadingNumber
  <2>7. PICK m \in Nat, M \in Nat : m = W * S + F /\ M = W * P + N
    OBVIOUS
  <2>8. minutes = m /\ minutesOf(n) = M
    BY <2>1, <2>5, <2>7
  <2> HIDE DEF degrees, end, minutes
  <2>9. m * P <= M * S /\ M * S < (m + 1) * P /\ P \in Nat \ {0}
    <3>1. /\ m * P = (W * S) * P + F * P /\ (m + 1) * P = (W * S) * P + (F + 1) * P
          /\ M * S = (W * S) * P + N * S
      BY <2>7
    <3>2. (W * S) * P \in Nat /\ F * P \in Nat /\ (F + 1) * P \in Nat /\ N * S \in Nat
      OBVIOUS
    <3>3. 0 < P /\ F * P <= N * S /\ N * S < (F + 1) * P
      BY <2>5
    <3>4. m * P <= M * S /\ M * S < (m + 1) * P
      BY <3>1, <3>2, <3>3
    <3> QED  BY <3>3, <3>4
  <2>10. /\ m < 60 * S <=> M < 60 * P
         /\ ((g * (60 * P) + M) * S) \div P = g * 60 * S + m
         /\ m < 60 * S => (g * 60 * S + m <= limit * 60 * S <=> g < limit \/ (g = limit /\ m = 0))
    BY <2>9, MinutesArithmetic
  <2>11. writtenOf(n) = g * (60 * P) + M /\ unit = 60 * P
    BY <2>5, <2>6, <2>8 DEF degrees
  <2>12. Accepted(n, h) <=>
           /\ h # "A" /\ m < 60 * S
           /\ g < limit \/ (g = limit /\ m = 0)
    <3>1. Accepted(n, h) <=>
            /\ h # "A" /\ minutesOf(n) < unit
            /\ (writtenOf(n) * MinuteScale) \div places <= limitOf(n) * 60 * MinuteScale
      <4> HIDE DEF minutesOf, unit, writtenOf, places, limitOf
      <4> QED  BY <1>2, <1>6, <1>8 DEF Accepted
    <3> HIDE DEF minutesOf, unit, writtenOf, places, limitOf
    <3>2. Accepted(n, h) <=>
            /\ h # "A" /\ M < 60 * P
            /\ ((g * (60 * P) + M) * S) \div P <= limit * 60 * S
      BY <1>3, <2>1, <2>5, <2>8, <2>11, <3>1
    <3> QED  BY <2>10, <3>2
  <2>13. Accepts <=> h # "A" /\ m < 60 * S /\ (g < limit \/ (g = limit /\ m = 0))
    BY <1>5, <1>6, <1>8, <2>1, <2>6, <2>8
  <2> HIDE DEF Accepts
  <2>14. ASSUME Accepts PROVE Near(signed, n, h)
    <3>1. h # "A" /\ m < 60 * S /\ (g < limit \/ (g = limit /\ m = 0))
      BY <2>13, <2>14
    <3>2. PICK v \in Nat, r \in Nat :
            /\ v = (m * D + 30 * S) \div (60 * S) /\ v <= D /\ (m = 0 => v = 0)
            /\ r < 60 * S /\ v * (60 * S) + r = m * D + 30 * S
      BY <3>1, RoundedMinutes
    <3>3. PICK x \in Nat : x = g * D + v
      OBVIOUS
    <3>4. value = x
      BY <2>1, <2>6, <2>8, <3>2, <3>3
    <3> HIDE DEF value
    <3>5. degreesOf(signed, h) = x
      BY <3>1, <3>4
    <3>6. x <= limit * D
      <4>1. CASE g < limit
        <5>1. PICK e \in Nat : limit = g + 1 + e
          <6>1. limit - (g + 1) \in Nat /\ limit = g + 1 + (limit - (g + 1))
            BY <4>1
          <6> QED  BY <6>1
        <5>2. limit * D = g * D + D + e * D /\ e * D \in Nat /\ g * D \in Nat
          BY <5>1
        <5>3. v <= D
          BY <3>2
        <5> QED  BY <3>3, <5>2, <5>3
      <4>2. CASE g = limit /\ m = 0
        <5>1. v = 0
          BY <3>2, <4>2
        <5> QED  BY <3>3, <4>2, <5>1
      <4> QED  BY <3>1, <4>1, <4>2
    <3>7. PICK off \in Int : off = x * (60 * P) - (g * (60 * P) + M) * D
      <4>1. x * (60 * P) - (g * (60 * P) + M) * D \in Int
        OBVIOUS
      <4> QED  BY <4>1, Zenon
    <3>8. PICK bound \in Int : bound = (60 * P) * (60 * S + 2 * D)
      <4>1. (60 * P) * (60 * S + 2 * D) \in Int
        OBVIOUS
      <4> QED  BY <4>1, Zenon
    <3>9. off * 120 * S < bound /\ (-off) * 120 * S < bound
      <4>1. P \in Nat \ {0} /\ m * P <= M * S /\ M * S < (m + 1) * P
        BY <2>9
      <4>2. r < 60 * S /\ v * (60 * S) + r = m * D + 30 * S
        BY <3>2
      <4>3. off = (g * D + v) * (60 * P) - (g * (60 * P) + M) * D
        BY <3>3, <3>7
      <4> QED  BY <3>8, <4>1, <4>2, <4>3, RoundingBound
    <3>10. Max({off, -off}) * 120 * S < bound
      <4>1. -off \in Int
        OBVIOUS
      <4>2. Max({off, -off}) = IF off <= -off THEN -off ELSE off
        BY <4>1, PairLimits
      <4> QED  BY <3>9, <4>2
    <3>11. offOf(signed, n, h) = off
      <4> HIDE DEF degreesOf, unit, writtenOf
      <4> QED  BY <2>1, <2>11, <3>5, <3>7
    <3>12. x \in 0 .. limit * D
      BY <3>6
    <3> HIDE DEF degreesOf, offOf, unit, limitOf
    <3> QED  BY <1>3, <2>1, <2>11, <3>5, <3>8, <3>10, <3>11, <3>12 DEF Near
  <2> HIDE DEF signed
  <2> QED  BY <1>4, <2>12, <2>13, <2>14
<1> QED  BY <1>7, <1>8

-----------------------------------------------------------------------------
(***************************************************************************)
(* Times of day.                                                           *)
(***************************************************************************)

LEMMA TwoDigits ==
  ASSUME NEW t \in Seq(Nat), NEW i \in Nat \ {0}, i + 1 <= Len(t)
  PROVE  Number(t, i, i + 1) = 10 * (t[i] - Zero) + (t[i + 1] - Zero)
<1>0. PICK n \in Nat : n = Len(t)
  OBVIOUS
<1>1. PICK a \in 0 .. n, b \in 0 .. n, c \in 0 .. n : a = i - 1 /\ b = i /\ c = i + 1
  BY <1>0
<1>2. \A j \in 0 .. n : /\ Number(t, i, j) \in Int
                        /\ j < i => Number(t, i, j) = 0
                        /\ i <= j => Number(t, i, j) = 10 * Number(t, i, j - 1) + (t[j] - Zero)
  BY <1>0, NumberSteps
<1>3. Number(t, i, a) = 0
  BY <1>1, <1>2
<1>4. Number(t, i, b) = 10 * Number(t, i, a) + (t[b] - Zero)
  BY <1>1, <1>2
<1>5. Number(t, i, c) = 10 * Number(t, i, b) + (t[c] - Zero)
  BY <1>1, <1>2
<1>6. t[b] \in Nat /\ t[c] \in Nat
  BY <1>0, <1>1
<1> QED  BY <1>1, <1>3, <1>4, <1>5, <1>6 DEF Zero

LEMMA SixDigits ==
  ASSUME NEW t \in Seq(Nat), Len(t) >= 6
  PROVE  Number(t, 1, 2) * 10000 + Number(t, 3, 4) * 100 + Number(t, 5, 6) = Number(t, 1, 6)
<1>1. PICK n \in Nat : n = Len(t) /\ 6 <= n
  OBVIOUS
<1>2. \A j \in 0 .. n : 1 <= j => Number(t, 1, j) = 10 * Number(t, 1, j - 1) + (t[j] - Zero)
  <2>1. 1 \in Nat \ {0}
    OBVIOUS
  <2> QED  BY <1>1, <2>1, NumberSteps
<1>3. ASSUME NEW j \in Nat, 1 <= j, j <= 6
      PROVE  Number(t, 1, j) = 10 * Number(t, 1, j - 1) + (t[j] - Zero)
  <2>1. j \in 0 .. n
    BY <1>1, <1>3
  <2> QED  BY <1>2, <1>3, <2>1
<1>4. /\ Number(t, 1, 6) = 10 * Number(t, 1, 5) + (t[6] - Zero)
      /\ Number(t, 1, 5) = 10 * Number(t, 1, 4) + (t[5] - Zero)
      /\ Number(t, 1, 4) = 10 * Number(t, 1, 3) + (t[4] - Zero)
      /\ Number(t, 1, 3) = 10 * Number(t, 1, 2) + (t[3] - Zero)
  <2>1. /\ 6 - 1 = 5 /\ 5 - 1 = 4 /\ 4 - 1 = 3 /\ 3 - 1 = 2
        /\ {3, 4, 5, 6} \subseteq Nat
    OBVIOUS
  <2>2. Number(t, 1, 6) = 10 * Number(t, 1, 6 - 1) + (t[6] - Zero)
    BY <1>3, <2>1
  <2>3. Number(t, 1, 5) = 10 * Number(t, 1, 5 - 1) + (t[5] - Zero)
    BY <1>3, <2>1
  <2>4. Number(t, 1, 4) = 10 * Number(t, 1, 4 - 1) + (t[4] - Zero)
    BY <1>3, <2>1
  <2>5. Number(t, 1, 3) = 10 * Number(t, 1, 3 - 1) + (t[3] - Zero)
    BY <1>3, <2>1
  <2> QED  BY <2>1, <2>2, <2>3, <2>4, <2>5
<1>5. Number(t, 3, 4) = 10 * (t[3] - Zero) + (t[4] - Zero)
  <2>1. 3 \in Nat \ {0} /\ 3 + 1 = 4 /\ 3 + 1 <= Len(t)
    BY <1>1
  <2>2. Number(t, 3, 3 + 1) = 10 * (t[3] - Zero) + (t[3 + 1] - Zero)
    BY <2>1, TwoDigits
  <2> QED  BY <2>1, <2>2
<1>6. Number(t, 5, 6) = 10 * (t[5] - Zero) + (t[6] - Zero)
  <2>1. 5 \in Nat \ {0} /\ 5 + 1 = 6 /\ 5 + 1 <= Len(t)
    BY <1>1
  <2>2. Number(t, 5, 5 + 1) = 10 * (t[5] - Zero) + (t[5 + 1] - Zero)
    BY <2>1, TwoDigits
  <2> QED  BY <2>1, <2>2
<1>7. Number(t, 1, 2) \in Int
  <2>1. 2 \in 0 .. n /\ 1 \in Nat \ {0}
    BY <1>1
  <2> QED  BY <1>1, <2>1, NumberSteps
<1>8. t[3] \in Nat /\ t[4] \in Nat /\ t[5] \in Nat /\ t[6] \in Nat
  BY <1>1
<1>9. PICK a \in Int, b \in Int, c \in Int, d \in Int, e \in Int :
        /\ a = Number(t, 1, 2) /\ b = t[3] - Zero /\ c = t[4] - Zero
        /\ d = t[5] - Zero /\ e = t[6] - Zero
  <2>1. /\ t[3] - Zero \in Int /\ t[4] - Zero \in Int
        /\ t[5] - Zero \in Int /\ t[6] - Zero \in Int
    <3>1. \A x \in Nat : x - Zero \in Int
      BY DEF Zero
    <3> QED  BY <1>8, <3>1, Zenon
  <2> QED  BY <1>7, <2>1, Zenon
<1>10. Number(t, 1, 6) = 10 * (10 * (10 * (10 * a + b) + c) + d) + e
  BY <1>4, <1>9
<1>11. Number(t, 3, 4) = 10 * b + c /\ Number(t, 5, 6) = 10 * d + e
  BY <1>5, <1>6, <1>9
<1>12. a * 10000 + (10 * b + c) * 100 + (10 * d + e)
         = 10 * (10 * (10 * (10 * a + b) + c) + d) + e
  OBVIOUS
<1> QED  BY <1>9, <1>10, <1>11, <1>12

LEMMA UtcForm ==
  ASSUME NEW t \in Seq(Nat)
  PROVE  Len(t) >= 6 /\ AllDigits(t, 1, 6) /\ WholeSecond(t) <=>
           /\ Written(t, 1, 7) /\ (7 <= Len(t) => Len(t) > 7)
           /\ \A k \in 8 .. Len(t) : t[k] = Zero
<1>1. PICK n \in Nat : n = Len(t)
  OBVIOUS
<1>2. Zero \in Digits
  BY DEF Zero, Digits
<1>3. ASSUME n >= 6, AllDigits(t, 1, 6), WholeSecond(t)
      PROVE  Written(t, 1, 7) /\ (7 <= n => n > 7) /\ \A k \in 8 .. n : t[k] = Zero
  <2>1. 7 \in 1 .. n + 1 /\ 7 - 1 = 6 /\ 7 + 1 = 8 /\ (7 <= n <=> n > 6)
    BY <1>3
  <2>2. n > 6 => t[7] = Dot /\ n > 7 /\ \A k \in 8 .. n : t[k] = Zero
    BY <1>1, <1>3 DEF WholeSecond
  <2>3. ~(n > 6) => 8 .. n = {}
    OBVIOUS
  <2>4. \A k \in 8 .. n : t[k] = Zero
    BY <2>2, <2>3
  <2>5. AllDigits(t, 8, n)
    BY <1>2, <2>4 DEF AllDigits
  <2> QED  BY <1>1, <1>3, <2>1, <2>2, <2>4, <2>5 DEF Written
<1>4. ASSUME Written(t, 1, 7), 7 <= n => n > 7, \A k \in 8 .. n : t[k] = Zero
      PROVE  n >= 6 /\ AllDigits(t, 1, 6) /\ WholeSecond(t)
  <2>1. 7 \in 1 .. n + 1 /\ 7 - 1 = 6 /\ (7 <= n => t[7] = Dot) /\ AllDigits(t, 1, 7 - 1)
    BY <1>1, <1>4 DEF Written
  <2>2. n >= 6 /\ (n > 6 => 7 <= n)
    BY <2>1
  <2> QED  BY <1>1, <1>4, <2>1, <2>2 DEF WholeSecond
<1> QED  BY <1>1, <1>3, <1>4

LEMMA UtcExact ==
  ASSUME text \in Seq(Nat)
  PROVE  /\ \A t \in UtcField(text) :
              t.hour * 10000 + t.minute * 100 + t.second = Number(text, 1, 6)
         /\ UtcField(text) # {} <=> WholeSecondWritten
<1>1. PICK n \in Nat : n = Len(text)
  OBVIOUS
<1> DEFINE hour == Number(text, 1, 2)
           minute == Number(text, 3, 4)
           second == Number(text, 5, 6)
           Form == n >= 6 /\ AllDigits(text, 1, 6) /\ WholeSecond(text)
           zeros == \A k \in 8 .. n : text[k] = Zero
<1>2. UtcField(text) = IF Form /\ hour <= 23 /\ minute <= 59 /\ second <= 59
                       THEN {[hour |-> hour, minute |-> minute, second |-> second]}
                       ELSE {}
  BY <1>1, Zenon DEF UtcField
<1>3. Form <=> Written(text, 1, 7) /\ (7 <= n => n > 7) /\ zeros
  BY <1>1, UtcForm
<1>4. Form => hour * 10000 + minute * 100 + second = Number(text, 1, 6)
  BY <1>1, SixDigits
<1> HIDE DEF Form, zeros
<1>5. ASSUME NEW t \in UtcField(text)
      PROVE  t.hour * 10000 + t.minute * 100 + t.second = Number(text, 1, 6)
  <2>1. Form /\ t = [hour |-> hour, minute |-> minute, second |-> second]
    <3> HIDE DEF hour, minute, second
    <3> QED  BY <1>2
  <2> HIDE DEF hour, minute, second
  <2>2. t.hour = hour /\ t.minute = minute /\ t.second = second
    BY <2>1
  <2> QED  BY <1>4, <2>1, <2>2
<1>6. UtcField(text) # {} <=> Form /\ hour <= 23 /\ minute <= 59 /\ second <= 59
  BY <1>2
<1>7. /\ Written(text, 1, 7) => \A i \in 1 .. 7 : WholeFrom(text, i)
      /\ Written(text, 1, 7) <=>
           Unsigned(text, 1) /\ ((Points(text) = {} /\ n = 6) \/ Points(text) = {7})
  <2>1. 7 \in Nat /\ 7 > 1 /\ 7 - 1 = 6
    OBVIOUS
  <2>2. /\ Written(text, 1, 7) => \A i \in 1 .. 7 : WholeFrom(text, i)
        /\ Written(text, 1, 7) <=>
             Unsigned(text, 1) /\ ((Points(text) = {} /\ n = 7 - 1) \/ Points(text) = {7})
    BY <1>1, <2>1, PlaceForm
  <2> QED  BY <2>1, <2>2
<1> DEFINE unit == Power10[Decimals(text)]
           seconds == Units(text, 5)
<1>8. WholeSecondWritten <=>
        /\ Unsigned(text, 1)
        /\ (Points(text) = {} /\ n = 6) \/ (Points(text) = {7} /\ n > 7)
        /\ hour < 24 /\ minute < 60
        /\ seconds < 60 * unit /\ seconds % unit = 0
  BY <1>1 DEF WholeSecondWritten
<1>9. CASE ~Written(text, 1, 7)
  <2>1. ~Form
    BY <1>3, <1>9
  <2>2. ~WholeSecondWritten
    <3> HIDE DEF unit, seconds, hour, minute
    <3> QED  BY <1>7, <1>8, <1>9
  <2> QED  BY <1>5, <1>6, <2>1, <2>2
<1>10. CASE Written(text, 1, 7)
  <2>1. 5 \in Nat \ {0} /\ 1 \in Nat \ {0} /\ 5 \in 1 .. 7 /\ 0 \in Nat
    OBVIOUS
  <2>2. Written(text, 5, 7)
    BY <1>10, <2>1, WrittenFrom
  <2>3. PICK W \in Nat, N \in Nat, P \in Nat, F \in Nat :
          Parts(text, 5, 7, Power10[0], W, N, P, F)
    BY <1>7, <1>10, <2>1, <2>2, PartsOfWritten
  <2>4. /\ second = W /\ (N = 0 <=> zeros) /\ unit = P /\ N < P /\ seconds = W * P + N
    <3>1. 7 - 1 = 6 /\ 7 + 1 = 8
      OBVIOUS
    <3>2. /\ Number(text, 5, 7 - 1) = W /\ (N = 0 <=> \A k \in 7 + 1 .. n : text[k] = Zero)
          /\ unit = P /\ N < P /\ seconds = W * P + N
      BY <1>1, <2>3, Zenon DEF Parts
    <3> HIDE DEF unit, seconds
    <3> QED  BY <3>1, <3>2 DEF zeros
  <2>5. hour \in Nat
    <3>1. 2 \in Nat /\ 2 < 7 /\ 7 \in Nat
      OBVIOUS
    <3> QED  BY <1>10, <3>1, LeadingNumber
  <2>6. minute \in Int
    <3>1. n >= 6
      BY <1>1, <1>10 DEF Written
    <3>2. 4 \in 0 .. n /\ 3 \in Nat \ {0}
      BY <3>1
    <3> QED  BY <1>1, <3>2, NumberSteps
  <2> HIDE DEF hour, minute, second, unit, seconds
  <2>7. seconds % unit = N
    <3>1. P \in Nat \ {0} /\ N \in 0 .. P - 1
      BY <2>4
    <3>2. (W * P + N) % P = N
      BY <3>1, QuotientIs
    <3> QED  BY <2>4, <3>2
  <2>8. seconds < 60 * unit <=> second <= 59
    <3>1. N < P
      BY <2>4
    <3>2. CASE W <= 59
      <4>1. PICK e \in Nat : 60 = W + 1 + e
        <5>1. 59 - W \in Nat /\ 60 = W + 1 + (59 - W)
          BY <3>2
        <5> QED  BY <5>1
      <4>2. 60 * P = W * P + P + e * P /\ e * P \in Nat /\ W * P \in Nat
        BY <4>1
      <4> QED  BY <2>4, <3>1, <3>2, <4>2
    <3>3. CASE ~(W <= 59)
      <4>1. PICK e \in Nat : W = 60 + e
        <5>1. W - 60 \in Nat /\ W = 60 + (W - 60)
          BY <3>3
        <5> QED  BY <5>1
      <4>2. W * P = 60 * P + e * P /\ e * P \in Nat
        BY <4>1
      <4> QED  BY <2>4, <3>3, <4>2
    <3> QED  BY <3>2, <3>3
  <2>9. hour < 24 <=> hour <= 23
    BY <2>5
  <2>10. minute < 60 <=> minute <= 59
    BY <2>6
  <2>11. Points(text) = IF 7 <= n THEN {7} ELSE {}
    BY <1>1, <1>7, <1>10, <2>1, PointsOfWritten
  <2>12. (Points(text) = {} /\ n = 6) \/ (Points(text) = {7} /\ n > 7) <=> (7 <= n => n > 7)
    <3>1. n + 1 >= 7
      BY <1>1, <1>10 DEF Written
    <3>2. CASE 7 <= n
      BY <2>11, <3>2
    <3>3. CASE ~(7 <= n)
      BY <2>11, <3>1, <3>3
    <3> QED  BY <3>2, <3>3
  <2>13. WholeSecondWritten <=>
           (7 <= n => n > 7) /\ hour <= 23 /\ minute <= 59 /\ second <= 59 /\ N = 0
    BY <1>7, <1>8, <1>10, <2>7, <2>8, <2>9, <2>10, <2>12
  <2>14. Form <=> (7 <= n => n > 7) /\ N = 0
    BY <1>3, <1>10, <2>4
  <2> QED  BY <1>5, <1>6, <2>13, <2>14
<1> QED  BY <1>9, <1>10

-----------------------------------------------------------------------------
(***************************************************************************)
(* Fields.                                                                 *)
(***************************************************************************)
CommasOf(s) == {i \in DOMAIN s : s[i] = Comma}
CommasUpto(s, a) == {c \in CommasOf(s) : c <= a}

LEMMA CommasFinite ==
  ASSUME NEW s \in Seq(Nat)
  PROVE  /\ CommasOf(s) \subseteq 1 .. Len(s) /\ IsFiniteSet(CommasOf(s))
         /\ Cardinality(CommasOf(s)) \in Nat
         /\ \A a : CommasUpto(s, a) \subseteq CommasOf(s) /\ IsFiniteSet(CommasUpto(s, a))
                   /\ Cardinality(CommasUpto(s, a)) \in Nat
                   /\ Cardinality(CommasUpto(s, a)) <= Cardinality(CommasOf(s))
<1>1. CommasOf(s) \subseteq 1 .. Len(s)
  BY DEF CommasOf
<1>2. IsFiniteSet(1 .. Len(s))
  <2>1. 1 \in Int /\ Len(s) \in Int
    OBVIOUS
  <2> QED  BY <2>1, FS_Interval
<1>3. IsFiniteSet(CommasOf(s))
  BY <1>1, <1>2, FS_Subset
<1>4. ASSUME NEW a
      PROVE  /\ CommasUpto(s, a) \subseteq CommasOf(s) /\ IsFiniteSet(CommasUpto(s, a))
             /\ Cardinality(CommasUpto(s, a)) <= Cardinality(CommasOf(s))
  <2>1. CommasUpto(s, a) \in SUBSET CommasOf(s)
    BY DEF CommasUpto
  <2> QED  BY <1>3, <2>1, FS_Subset
<1> QED  BY <1>1, <1>3, <1>4, FS_CardinalityType

\* The number of a comma is its own.
LEMMA CommaUnique ==
  ASSUME NEW s \in Seq(Nat), NEW a \in CommasOf(s), NEW b \in CommasOf(s),
         Cardinality(CommasUpto(s, a)) = Cardinality(CommasUpto(s, b))
  PROVE  a = b
<1>1. a \in Nat /\ b \in Nat
  <2>1. CommasOf(s) \subseteq 1 .. Len(s) /\ 1 .. Len(s) \subseteq Nat
    BY CommasFinite
  <2> QED  BY <2>1
<1>2. ASSUME NEW x \in CommasOf(s), NEW y \in CommasOf(s), x \in Nat, y \in Nat, x < y,
             Cardinality(CommasUpto(s, x)) = Cardinality(CommasUpto(s, y))
      PROVE  FALSE
  <2>1. CommasUpto(s, x) \in SUBSET CommasUpto(s, y)
    <3>1. \A c \in 1 .. Len(s) : c <= x => c <= y
      BY <1>2
    <3> QED  BY <3>1, CommasFinite DEF CommasUpto
  <2>2. y \in CommasUpto(s, y) /\ y \notin CommasUpto(s, x)
    BY <1>2 DEF CommasUpto
  <2>3. IsFiniteSet(CommasUpto(s, y))
    BY CommasFinite
  <2>4. CommasUpto(s, x) = CommasUpto(s, y)
    BY <1>2, <2>1, <2>3, FS_Subset
  <2> QED  BY <2>2, <2>4
<1> QED  BY <1>1, <1>2

\* The comma behind a, if there is one.
NextComma(s, a) ==
  LET later == {j \in DOMAIN s : j > a /\ s[j] = Comma}
  IN  IF later = {} THEN 0 ELSE Min(later)

LEMMA NextCommaIs ==
  ASSUME NEW s \in Seq(Nat), NEW a \in Nat
  PROVE  \/ /\ NextComma(s, a) = 0 /\ CommasUpto(s, a) = CommasOf(s)
         \/ /\ NextComma(s, a) \in CommasOf(s) /\ NextComma(s, a) > a
            /\ Cardinality(CommasUpto(s, NextComma(s, a))) = Cardinality(CommasUpto(s, a)) + 1
<1>1. PICK n \in Nat : n = Len(s) /\ DOMAIN s = 1 .. n
  OBVIOUS
<1> DEFINE later == {j \in DOMAIN s : j > a /\ s[j] = Comma}
<1>2. \A j : j \in later <=> j \in CommasOf(s) /\ j > a
  BY DEF CommasOf
<1>3. later \in SUBSET (0 .. n) /\ later \in SUBSET Int /\ CommasOf(s) \subseteq 1 .. n
  BY <1>1 DEF CommasOf
<1>4. NextComma(s, a) = IF later = {} THEN 0 ELSE Min(later)
  BY DEF NextComma
<1> HIDE DEF later
<1>5. CASE later = {}
  <2>1. \A j \in CommasOf(s) : j <= a
    BY <1>2, <1>3, <1>5
  <2>2. CommasUpto(s, a) = CommasOf(s)
    BY <2>1 DEF CommasUpto
  <2> QED  BY <1>4, <1>5, <2>2
<1>6. CASE later # {}
  <2>1. PICK m \in later : \A x \in later : m <= x
    BY <1>3, <1>6, LeastMember
  <2>2. Min(later) = m
    BY <1>3, <2>1, MinIs
  <2>3. NextComma(s, a) = m /\ m \in CommasOf(s) /\ m > a /\ m \in Nat
    BY <1>2, <1>3, <1>4, <1>6, <2>2
  <2>4. CommasUpto(s, m) = CommasUpto(s, a) \cup {m}
    <3>1. ASSUME NEW c \in CommasOf(s) PROVE c <= m <=> c <= a \/ c = m
      <4>1. c \in Nat
        BY <1>3
      <4>2. c > a => m <= c
        BY <1>2, <2>1
      <4> QED  BY <2>3, <4>1, <4>2
    <3> QED  BY <2>3, <3>1 DEF CommasUpto
  <2>5. m \notin CommasUpto(s, a)
    BY <2>3 DEF CommasUpto
  <2>6. IsFiniteSet(CommasUpto(s, a))
    BY CommasFinite
  <2>7. Cardinality(CommasUpto(s, m)) = Cardinality(CommasUpto(s, a)) + 1
    BY <2>4, <2>5, <2>6, FS_AddElement
  <2> QED  BY <2>3, <2>7
<1> QED  BY <1>5, <1>6

LEMMA CommaSteps ==
  ASSUME NEW s \in Seq(Nat), NEW n \in Nat
  PROVE  \E next : /\ next \in [0 .. n -> Nat] /\ next[0] = 0 /\ CommaNumber(s, n) = next[n]
                   /\ \A i \in 1 .. n : next[i] = IF i > 1 /\ next[i - 1] = 0 THEN 0
                                                  ELSE NextComma(s, next[i - 1])
<1> DEFINE after(i, a) == IF i > 1 /\ a = 0 THEN 0 ELSE NextComma(s, a)
           step == [x \in Nat \X Nat |-> after(x[1], x[2])]
           body(f, i) == LET later == {j \in DOMAIN s : j > f[i - 1] /\ s[j] = Comma}
                         IN  IF (i > 1 /\ f[i - 1] = 0) \/ later = {} THEN 0 ELSE Min(later)
           Recursive(f) == f = [i \in 0 .. n |-> IF i = 0 THEN 0 ELSE body(f, i)]
           N == CHOOSE f : Recursive(f)
<1>1. \A i \in Nat, a \in Nat : after(i, a) \in Nat
  <2> SUFFICES ASSUME NEW a \in Nat PROVE NextComma(s, a) \in Nat
    OBVIOUS
  <2>1. CommasOf(s) \subseteq 1 .. Len(s) /\ 1 .. Len(s) \subseteq Nat
    BY CommasFinite
  <2> QED  BY <2>1, NextCommaIs
<1>2. step \in [Nat \X Nat -> Nat]
  <2> HIDE DEF after
  <2> QED  BY <1>1
<1>3. \A f, i : body(f, i) = after(i, f[i - 1])
  BY DEF NextComma
<1> HIDE DEF step, body
<1>4. PICK f : Steps(f, n, Nat, 0, step)
  <2>1. n \in Nat /\ 0 \in Nat
    OBVIOUS
  <2> QED  BY <1>2, <2>1, StepsExist, Zenon
<1>5. \A i \in 0 .. n : f[i] = IF i = 0 THEN 0 ELSE body(f, i)
  <2> SUFFICES ASSUME NEW i \in 0 .. n PROVE f[i] = IF i = 0 THEN 0 ELSE body(f, i)
    OBVIOUS
  <2>1. CASE i = 0
    BY <1>4, <2>1 DEF Steps
  <2>2. CASE i # 0
    <3>1. i \in 1 .. n /\ i - 1 \in 0 .. n /\ i \in Nat
      BY <2>2
    <3>2. f[i] = step[<<i, f[i - 1]>>] /\ f[i - 1] \in Nat
      BY <1>4, <3>1 DEF Steps
    <3> HIDE DEF after
    <3>3. step[<<i, f[i - 1]>>] = after(i, f[i - 1])
      BY <3>1, <3>2 DEF step
    <3> QED  BY <1>3, <2>2, <3>2, <3>3
  <2> QED  BY <2>1, <2>2
<1>6. f = [i \in 0 .. n |-> f[i]]
  BY <1>4 DEF Steps
<1>7. Recursive(f)
  BY <1>5, <1>6
<1>8. Recursive(N)
  <2> HIDE DEF Recursive
  <2> QED  BY <1>7
<1>9. CommaNumber(s, n) = N[n]
  BY Zenon DEF CommaNumber, body
<1> HIDE DEF N
<1>10. DOMAIN N = 0 .. n /\ N = [i \in 0 .. n |-> N[i]] /\ N[0] = 0
       /\ \A i \in 0 .. n : i # 0 => N[i] = body(N, i)
  <2>1. DOMAIN N = 0 .. n /\ N = [i \in 0 .. n |-> N[i]]
    BY <1>8
  <2>2. \A i \in 0 .. n : N[i] = IF i = 0 THEN 0 ELSE body(N, i)
    BY <1>8
  <2> HIDE DEF Recursive
  <2> QED  BY <2>1, <2>2
<1>11. \A i \in 1 .. n : N[i] = after(i, N[i - 1])
  <2> SUFFICES ASSUME NEW i \in 1 .. n PROVE N[i] = after(i, N[i - 1])
    OBVIOUS
  <2>1. i \in 0 .. n /\ i # 0
    OBVIOUS
  <2> HIDE DEF after
  <2> QED  BY <1>3, <1>10, <2>1
<1> DEFINE S == {k \in Nat : k <= n => N[k] \in Nat}
<1>12. Nat \subseteq S
  <2>1. 0 \in S
    BY <1>10
  <2>2. ASSUME NEW k \in Nat, k \in S PROVE k + 1 \in S
    <3> SUFFICES ASSUME k + 1 <= n PROVE N[k + 1] \in Nat
      OBVIOUS
    <3>1. k + 1 \in 1 .. n /\ (k + 1) - 1 = k /\ k <= n /\ k + 1 \in Nat
      OBVIOUS
    <3>2. N[k] \in Nat
      BY <2>2, <3>1
    <3> HIDE DEF after
    <3>3. N[k + 1] = after(k + 1, N[k])
      BY <1>11, <3>1
    <3> QED  BY <1>1, <3>1, <3>2, <3>3
  <2> HIDE DEF S
  <2> QED  BY <2>1, <2>2, SetInduction
<1>13. N \in [0 .. n -> Nat]
  <2>1. \A i \in 0 .. n : N[i] \in Nat
    BY <1>12
  <2> QED  BY <1>10, <2>1
<1> QED  BY <1>9, <1>10, <1>11, <1>13

\* strchr repeated n times reaches the n-th comma, if there is one.
LEMMA CommaNumberIs ==
  ASSUME NEW s \in Seq(Nat), NEW n \in Nat \ {0}
  PROVE  \/ CommaNumber(s, n) = 0 /\ Cardinality(CommasOf(s)) < n
         \/ CommaNumber(s, n) \in CommasOf(s) /\ CommaNumber(s, n) > 0
            /\ Cardinality(CommasUpto(s, CommaNumber(s, n))) = n
<1>1. PICK next : /\ next \in [0 .. n -> Nat] /\ next[0] = 0 /\ CommaNumber(s, n) = next[n]
                  /\ \A i \in 1 .. n : next[i] = IF i > 1 /\ next[i - 1] = 0 THEN 0
                                                 ELSE NextComma(s, next[i - 1])
  BY CommaSteps
<1> DEFINE Total == Cardinality(CommasOf(s))
           Rank(a) == Cardinality(CommasUpto(s, a))
           Right(k, a) == \/ a = 0 /\ Total < k
                          \/ ((k = 0 /\ a = 0) \/ (k > 0 /\ a > 0 /\ a \in CommasOf(s))) /\ Rank(a) = k
           S == {k \in Nat : k <= n => Right(k, next[k])}
<1>2. Total \in Nat /\ \A a : Rank(a) \in Nat /\ Rank(a) <= Total
  BY CommasFinite
<1>3. ASSUME NEW a \in Nat
      PROVE  \/ NextComma(s, a) = 0 /\ CommasUpto(s, a) = CommasOf(s)
             \/ /\ NextComma(s, a) \in CommasOf(s) /\ NextComma(s, a) > a
                /\ Rank(NextComma(s, a)) = Rank(a) + 1
  BY NextCommaIs
<1>4. Rank(0) = 0
  <2>1. CommasUpto(s, 0) = {}
    <3>1. CommasOf(s) \subseteq 1 .. Len(s)
      BY CommasFinite
    <3>2. \A c \in 1 .. Len(s) : ~(c <= 0)
      OBVIOUS
    <3> QED  BY <3>1, <3>2 DEF CommasUpto
  <2> QED  BY <2>1, FS_EmptySet
<1> HIDE DEF Total, Rank
<1>5. 0 \in S
  <2>1. next[0] = 0
    BY <1>1
  <2>2. Right(0, next[0])
    BY <1>4, <2>1
  <2> HIDE DEF Right
  <2> QED  BY <2>2
<1>6. ASSUME NEW k \in Nat, k \in S PROVE k + 1 \in S
  <2> SUFFICES ASSUME k + 1 <= n PROVE Right(k + 1, next[k + 1])
    OBVIOUS
  <2>1. /\ k + 1 \in 1 .. n /\ k <= n /\ (k + 1) - 1 = k /\ k \in 0 .. n /\ (k + 1 > 1 <=> k > 0)
        /\ k + 1 > 0 /\ k + 1 \in Nat
    OBVIOUS
  <2>2. PICK a \in Nat : a = next[k]
    BY <1>1, <2>1
  <2>3. PICK b : b = next[k + 1]
    OBVIOUS
  <2>4. b = IF k + 1 > 1 /\ next[(k + 1) - 1] = 0 THEN 0 ELSE NextComma(s, next[(k + 1) - 1])
    BY <1>1, <2>1, <2>3, Zenon
  <2>5. b = IF k > 0 /\ a = 0 THEN 0 ELSE NextComma(s, a)
    BY <2>1, <2>2, <2>4
  <2>6. Right(k, a)
    BY <1>6, <2>1, <2>2
  <2>7. CASE k > 0 /\ a = 0
    <3>1. b = 0 /\ Total < k
      BY <2>5, <2>6, <2>7
    <3>2. Total < k + 1
      BY <1>2, <3>1
    <3> QED  BY <2>3, <3>1, <3>2
  <2>8. CASE ~(k > 0 /\ a = 0)
    <3>1. Rank(a) = k
      <4>1. ~(Total < 0)
        BY <1>2
      <4> QED  BY <2>6, <2>8, <4>1
    <3>2. b = NextComma(s, a)
      BY <2>5, <2>8
    <3>3. \/ b = 0 /\ CommasUpto(s, a) = CommasOf(s)
          \/ b \in CommasOf(s) /\ b > a /\ Rank(b) = k + 1
      BY <1>3, <3>1, <3>2
    <3>4. CASE b = 0 /\ CommasUpto(s, a) = CommasOf(s)
      <4>1. Total = k
        BY <3>1, <3>4 DEF Total, Rank
      <4> QED  BY <2>3, <3>4, <4>1
    <3>5. CASE b \in CommasOf(s) /\ b > a /\ Rank(b) = k + 1
      <4>1. b > 0
        <5>1. CommasOf(s) \subseteq 1 .. Len(s) /\ \A c \in 1 .. Len(s) : c > 0
          BY CommasFinite
        <5> QED  BY <3>5, <5>1
      <4> QED  BY <2>1, <2>3, <3>5, <4>1
    <3> QED  BY <3>3, <3>4, <3>5
  <2> QED  BY <2>7, <2>8
<1> HIDE DEF S
<1>7. Nat \subseteq S
  BY <1>5, <1>6, SetInduction
<1>8. Right(n, next[n]) /\ n > 0
  BY <1>7 DEF S
<1> QED  BY <1>1, <1>8 DEF Total, Rank

\* Behind a comma before the checksum, a field ends at the next comma or at the star.
FieldEnd(s, a) == Min({j \in a + 1 .. Len(s) + 1 : j = Len(s) + 1 \/ s[j] \in {Comma, Star}})
StarOf(s) == Min({i \in DOMAIN s : s[i] = Star} \cup {Len(s) + 1})

LEMMA StarIs ==
  ASSUME NEW s \in Seq(Nat)
  PROVE  /\ StarOf(s) \in 1 .. Len(s) + 1
         /\ StarOf(s) <= Len(s) => s[StarOf(s)] = Star
         /\ \A i \in 1 .. Len(s) : s[i] = Star => StarOf(s) <= i
<1>1. PICK n \in Nat : n = Len(s) /\ DOMAIN s = 1 .. n
  OBVIOUS
<1>2. PICK last \in Nat : last = n + 1
  OBVIOUS
<1> DEFINE T == {i \in DOMAIN s : s[i] = Star} \cup {Len(s) + 1}
<1>3. T # {} /\ T \in SUBSET (0 .. last) /\ T \in SUBSET Int
  BY <1>1, <1>2
<1>4. \A i : i \in T <=> (i \in 1 .. n /\ s[i] = Star) \/ i = n + 1
  BY <1>1
<1>5. StarOf(s) = Min(T)
  BY DEF StarOf
<1> HIDE DEF T
<1>6. PICK k \in T : \A x \in T : k <= x
  BY <1>2, <1>3, LeastMember
<1>7. StarOf(s) = k
  BY <1>3, <1>5, <1>6, MinIs
<1>8. k \in 1 .. n + 1 /\ (k <= n => s[k] = Star)
  BY <1>4
<1>9. \A i \in 1 .. n : s[i] = Star => k <= i
  BY <1>4, <1>6
<1> QED  BY <1>1, <1>7, <1>8, <1>9

LEMMA FieldEndIs ==
  ASSUME NEW s \in Seq(Nat), NEW a \in CommasOf(s), CommasOf(s) \subseteq 1 .. StarOf(s)
  PROVE  /\ FieldEnd(s, a) \in CommasOf(s) \cup {StarOf(s)} /\ a < FieldEnd(s, a)
         /\ CommasOf(s) \cap (a + 1 .. FieldEnd(s, a) - 1) = {}
         /\ FieldEnd(s, a) \in Nat /\ FieldEnd(s, a) <= Len(s) + 1
         /\ \A j \in CommasOf(s) \cup {StarOf(s)} :
              a < j /\ CommasOf(s) \cap (a + 1 .. j - 1) = {} => j = FieldEnd(s, a)
<1>1. PICK n \in Nat : n = Len(s) /\ DOMAIN s = 1 .. n
  OBVIOUS
<1>2. PICK last \in Nat : last = n + 1
  OBVIOUS
<1>3. PICK star \in 1 .. n + 1 : /\ star = StarOf(s) /\ (star <= n => s[star] = Star)
                                 /\ \A i \in 1 .. n : s[i] = Star => star <= i
  BY <1>1, StarIs
<1>4. \A c : c \in CommasOf(s) <=> c \in 1 .. n /\ s[c] = Comma
  BY <1>1 DEF CommasOf
<1>5. Comma # Star
  BY DEF Comma, Star
<1>6. \A c \in CommasOf(s) : c \in 1 .. n /\ c < star
  <2> SUFFICES ASSUME NEW c \in CommasOf(s) PROVE c \in 1 .. n /\ c < star
    OBVIOUS
  <2>1. c \in 1 .. n /\ s[c] = Comma /\ c <= star
    BY <1>3, <1>4
  <2>2. c # star
    BY <1>3, <1>5, <2>1
  <2> QED  BY <2>1, <2>2
<1>7. a \in 1 .. n /\ a < star
  BY <1>6
<1> DEFINE T == {j \in a + 1 .. Len(s) + 1 : j = Len(s) + 1 \/ s[j] \in {Comma, Star}}
<1>8. T # {} /\ T \in SUBSET (0 .. last) /\ T \in SUBSET Int
  <2>1. n + 1 \in T
    BY <1>1, <1>7
  <2>2. \A j \in T : j \in a + 1 .. n + 1
    BY <1>1
  <2>3. a + 1 .. n + 1 \subseteq 0 .. last
    BY <1>2, <1>7
  <2> HIDE DEF T
  <2> QED  BY <2>1, <2>2, <2>3
<1>9. \A j : j \in T <=> j \in a + 1 .. n + 1 /\ (j = n + 1 \/ s[j] = Comma \/ s[j] = Star)
  BY <1>1
<1>10. FieldEnd(s, a) = Min(T)
  BY DEF FieldEnd
<1> HIDE DEF T
<1>11. PICK e \in T : \A x \in T : e <= x
  BY <1>2, <1>8, LeastMember
<1>12. FieldEnd(s, a) = e
  BY <1>8, <1>10, <1>11, MinIs
<1>13. e \in a + 1 .. n + 1 /\ (e = n + 1 \/ s[e] = Comma \/ s[e] = Star)
  BY <1>9
<1>14. star \in T
  <2>1. star \in a + 1 .. n + 1 /\ (star <= n \/ star = n + 1)
    BY <1>7
  <2> QED  BY <1>3, <1>9, <2>1
<1>15. e <= star
  BY <1>11, <1>14
<1>16. e \in CommasOf(s) \cup {star}
  <2>1. CASE e = n + 1
    BY <1>13, <1>15, <2>1
  <2>2. CASE e # n + 1 /\ s[e] = Comma
    <3>1. e \in 1 .. n
      BY <1>7, <1>13, <2>2
    <3> QED  BY <1>4, <2>2, <3>1
  <2>3. CASE e # n + 1 /\ s[e] = Star
    <3>1. e \in 1 .. n
      BY <1>7, <1>13, <2>3
    <3>2. star <= e
      BY <1>3, <2>3, <3>1
    <3> QED  BY <1>13, <1>15, <3>2
  <2> QED  BY <1>13, <2>1, <2>2, <2>3
<1>17. ASSUME NEW c \in CommasOf(s), a < c PROVE e <= c
  <2>1. c \in a + 1 .. n + 1 /\ s[c] = Comma
    BY <1>4, <1>6, <1>7, <1>17
  <2> QED  BY <1>9, <1>11, <2>1
<1>18. CommasOf(s) \cap (a + 1 .. e - 1) = {}
  <2> SUFFICES ASSUME NEW c \in CommasOf(s), c \in a + 1 .. e - 1 PROVE FALSE
    OBVIOUS
  <2>1. a < c /\ ~(e <= c)
    BY <1>7, <1>13
  <2> QED  BY <1>17, <2>1
<1>19. ASSUME NEW j \in CommasOf(s) \cup {star}, a < j, CommasOf(s) \cap (a + 1 .. j - 1) = {}
       PROVE  j = e
  <2>1. j \in 1 .. n + 1 /\ j <= star
    BY <1>6
  <2>2. e <= j
    <3>1. CASE j = star
      BY <1>15, <3>1
    <3>2. CASE j \in CommasOf(s)
      BY <1>17, <1>19, <3>2
    <3> QED  BY <3>1, <3>2
  <2>3. ASSUME e < j PROVE FALSE
    <3>1. e # star
      BY <1>13, <2>1, <2>3
    <3>2. e \in CommasOf(s)
      BY <1>16, <3>1
    <3>3. e \in a + 1 .. j - 1
      BY <1>13, <2>1, <2>3
    <3> QED  BY <1>19, <3>2, <3>3
  <2> QED  BY <1>13, <2>1, <2>2, <2>3
<1>20. a < e /\ e \in Nat /\ e <= Len(s) + 1
  BY <1>1, <1>7, <1>13
<1>21. star = StarOf(s)
  BY <1>3
<1> QED  BY <1>12, <1>16, <1>18, <1>19, <1>20, <1>21, Zenon

\* The n-th field, by the commas in front of it.
Separated(s, n, i, j) ==
  /\ i < j /\ Cardinality(CommasUpto(s, i)) = n
  /\ CommasOf(s) \cap (i + 1 .. j - 1) = {}

LEMMA FieldFound ==
  ASSUME NEW s \in Seq(Nat), CommasOf(s) \subseteq 1 .. StarOf(s), NEW n \in Nat \ {0}
  PROVE  GetField(s, n) = {SubSeq(s, p[1] + 1, p[2] - 1) :
           p \in {q \in CommasOf(s) \X (CommasOf(s) \cup {StarOf(s)}) : Separated(s, n, q[1], q[2])}}
<1> DEFINE Pairs == CommasOf(s) \X (CommasOf(s) \cup {StarOf(s)})
           Q == {q \in Pairs : Separated(s, n, q[1], q[2])}
           Text(p) == SubSeq(s, p[1] + 1, p[2] - 1)
<1>1. PICK a : a = CommaNumber(s, n)
  OBVIOUS
<1>2. GetField(s, n) = IF a = 0 THEN {} ELSE {SubSeq(s, a + 1, FieldEnd(s, a) - 1)}
  BY <1>1 DEF GetField, FieldEnd
<1>3. \/ a = 0 /\ Cardinality(CommasOf(s)) < n
      \/ a \in CommasOf(s) /\ a > 0 /\ Cardinality(CommasUpto(s, a)) = n
  BY <1>1, CommaNumberIs
<1>4. CASE a = 0 /\ Cardinality(CommasOf(s)) < n
  <2>1. ASSUME NEW i PROVE Cardinality(CommasUpto(s, i)) # n
    <3>1. /\ Cardinality(CommasUpto(s, i)) \in Nat /\ Cardinality(CommasOf(s)) \in Nat
          /\ Cardinality(CommasUpto(s, i)) <= Cardinality(CommasOf(s))
      BY CommasFinite
    <3> QED  BY <1>4, <3>1
  <2>2. Q = {}
    BY <2>1 DEF Separated
  <2>3. {Text(p) : p \in Q} = {}
    <3> HIDE DEF Q
    <3> QED  BY <2>2
  <2> QED  BY <1>2, <1>4, <2>3
<1>5. CASE a \in CommasOf(s) /\ a > 0 /\ Cardinality(CommasUpto(s, a)) = n
  <2>1. PICK e : e = FieldEnd(s, a)
    OBVIOUS
  <2>2. /\ e \in CommasOf(s) \cup {StarOf(s)} /\ a < e
        /\ CommasOf(s) \cap (a + 1 .. e - 1) = {}
        /\ \A j \in CommasOf(s) \cup {StarOf(s)} :
             a < j /\ CommasOf(s) \cap (a + 1 .. j - 1) = {} => j = e
    BY <1>5, <2>1, FieldEndIs
  <2>3. <<a, e>> \in Q
    BY <1>5, <2>2 DEF Separated
  <2>4. ASSUME NEW q \in Q PROVE q = <<a, e>>
    <3>1. PICK i \in CommasOf(s), j \in CommasOf(s) \cup {StarOf(s)} : q = <<i, j>>
      OBVIOUS
    <3>2. Separated(s, n, i, j)
      BY <3>1
    <3>3. i = a
      BY <1>5, <3>2, CommaUnique DEF Separated
    <3>4. j = e
      BY <2>2, <3>2, <3>3, Zenon DEF Separated
    <3> QED  BY <3>1, <3>3, <3>4
  <2>5. Text(<<a, e>>) = SubSeq(s, a + 1, e - 1)
    OBVIOUS
  <2> HIDE DEF Q, Text
  <2>6. {Text(p) : p \in Q} = {Text(<<a, e>>)}
    BY <2>3, <2>4
  <2>7. GetField(s, n) = {SubSeq(s, a + 1, e - 1)}
    BY <1>2, <1>5, <2>1
  <2>8. GetField(s, n) = {Text(p) : p \in Q}
    BY <2>5, <2>6, <2>7
  <2> QED  BY <2>8 DEF Q, Text
<1> QED  BY <1>3, <1>4, <1>5

\* A field has a length, and without one it is empty.
LEMMA FieldIsText ==
  ASSUME NEW s \in Seq(Nat), CommasOf(s) \subseteq 1 .. StarOf(s), NEW n \in Nat \ {0},
         NEW f \in GetField(s, n)
  PROVE  Len(f) \in Nat /\ (Len(f) = 0 => f = <<>>)
<1>1. PICK a : a = CommaNumber(s, n)
  OBVIOUS
<1>2. GetField(s, n) = IF a = 0 THEN {} ELSE {SubSeq(s, a + 1, FieldEnd(s, a) - 1)}
  BY <1>1 DEF GetField, FieldEnd
<1>3. a \in CommasOf(s) /\ f = SubSeq(s, a + 1, FieldEnd(s, a) - 1)
  BY <1>1, <1>2, CommaNumberIs
<1>4. PICK e \in Nat : e = FieldEnd(s, a) /\ a < e /\ e <= Len(s) + 1
  BY <1>3, FieldEndIs
<1>5. a \in Nat /\ a > 0
  <2>1. CommasOf(s) \subseteq 1 .. Len(s) /\ \A c \in 1 .. Len(s) : c \in Nat /\ c > 0
    BY CommasFinite
  <2> QED  BY <1>3, <2>1
<1>6. f \in Seq(Nat)
  <2>1. a \in Nat /\ a > 0 /\ a < e /\ e <= Len(s) + 1 /\ Len(s) \in Nat
    BY <1>4, <1>5
  <2>2. PICK x \in Nat : x = a + 1 /\ x >= 1
    BY <2>1
  <2>3. PICK y \in Nat : y = e - 1 /\ y <= Len(s)
    BY <2>1
  <2>4. SubSeq(s, x, y) \in Seq(Nat)
    BY <2>2, <2>3
  <2>5. f = SubSeq(s, x, y)
    BY <1>3, <1>4, <2>2, <2>3, Zenon
  <2> QED  BY <2>4, <2>5
<1> QED  BY <1>6

LEMMA SeparateExact ==
  ASSUME text \in Seq(Nat)
  PROVE  FieldsSeparate
<1> DEFINE star == Min({i \in DOMAIN text : text[i] = Star} \cup {Len(text) + 1})
           commas == {i \in DOMAIN text : text[i] = Comma}
           Field(n, i, j) ==
             /\ i < j /\ Cardinality({c \in commas : c <= i}) = n
             /\ commas \cap (i + 1 .. j - 1) = {}
<1>1. star = StarOf(text)
  BY DEF StarOf
<1>2. commas = CommasOf(text)
  BY DEF CommasOf
<1>3. ASSUME commas \subseteq 1 .. star, NEW n \in 1 .. Len(text)
      PROVE  /\ GetField(text, n) = {SubSeq(text, p[1] + 1, p[2] - 1) :
                  p \in {q \in commas \X (commas \cup {star}) : Field(n, q[1], q[2])}}
             /\ CopyField(text, n) \subseteq GetField(text, n)
             /\ \A f \in GetField(text, n) \ CopyField(text, n) :
                  f = <<>> \/ Len(f) > BufferRoom
  <2>1. n \in Nat \ {0} /\ CommasOf(text) \subseteq 1 .. StarOf(text)
    BY <1>1, <1>2, <1>3
  <2>2. \A i, j : Field(n, i, j) <=> Separated(text, n, i, j)
    <3> HIDE DEF commas
    <3> QED  BY <1>2 DEF Separated, CommasUpto
  <2> HIDE DEF star, commas, Field
  <2>3. GetField(text, n) = {SubSeq(text, p[1] + 1, p[2] - 1) :
          p \in {q \in CommasOf(text) \X (CommasOf(text) \cup {StarOf(text)}) :
                   Separated(text, n, q[1], q[2])}}
    BY <2>1, FieldFound
  <2>4. GetField(text, n) = {SubSeq(text, p[1] + 1, p[2] - 1) :
          p \in {q \in commas \X (commas \cup {star}) : Field(n, q[1], q[2])}}
    BY <1>1, <1>2, <2>2, <2>3
  <2>5. CopyField(text, n) \subseteq GetField(text, n)
    BY DEF CopyField
  <2>6. ASSUME NEW f \in GetField(text, n) \ CopyField(text, n)
        PROVE  f = <<>> \/ Len(f) > BufferRoom
    <3>1. Len(f) \in Nat /\ (Len(f) = 0 => f = <<>>)
      BY <2>1, FieldIsText
    <3>2. Len(f) \notin 1 .. BufferRoom
      BY DEF CopyField
    <3>3. BufferRoom \in Nat
      BY FieldNumbers
    <3> QED  BY <3>1, <3>2, <3>3
  <2> QED  BY <2>4, <2>5, <2>6
<1> HIDE DEF star, commas, Field
<1>4. commas \subseteq 1 .. star =>
        \A n \in 1 .. Len(text) :
          /\ GetField(text, n) = {SubSeq(text, p[1] + 1, p[2] - 1) :
               p \in {q \in commas \X (commas \cup {star}) : Field(n, q[1], q[2])}}
          /\ CopyField(text, n) \subseteq GetField(text, n)
          /\ \A f \in GetField(text, n) \ CopyField(text, n) : f = <<>> \/ Len(f) > BufferRoom
  BY <1>3
<1> QED  BY <1>4, Zenon DEF FieldsSeparate, star, commas, Field

-----------------------------------------------------------------------------
\* The text tried is a sequence of characters.
FieldInv == sample \in Samples /\ text \in Seq(Nat)

LEMMA FieldInvariant == FieldSpec => []FieldInv
<1>1. FieldInit => FieldInv
  BY DEF FieldInit, FieldInv
<1>2. FieldInv /\ [NextCharacter]_fieldVars => FieldInv'
  <2> SUFFICES ASSUME FieldInv, [NextCharacter]_fieldVars PROVE FieldInv'
    OBVIOUS
  <2>1. CASE NextCharacter
    <3>1. PICK c \in sample.characters : text' = Append(text, c) /\ sample' = sample
      BY <2>1 DEF NextCharacter
    <3>2. sample \in Samples /\ text \in Seq(Nat)
      BY DEF FieldInv
    <3>3. sample.characters \subseteq Nat
      <4>1. sample \in [characters : SUBSET (32 .. 126), length : Nat]
        BY <3>2, FieldAssumption, Zenon
      <4>2. sample.characters \in SUBSET (32 .. 126)
        BY <4>1
      <4>3. 32 .. 126 \subseteq Nat
        OBVIOUS
      <4> QED  BY <4>2, <4>3, Zenon
    <3>4. c \in Nat
      BY <3>3
    <3> QED  BY <3>1, <3>2, <3>4 DEF FieldInv
  <2>2. CASE UNCHANGED fieldVars
    BY <2>2 DEF FieldInv, fieldVars
  <2> QED  BY <2>1, <2>2
<1> QED  BY <1>1, <1>2, PTL DEF FieldSpec

\* Whatever the text, the value of a decimal number, the position, the time of day
\* and each field are what is written, and what is refused is not well formed or
\* out of range.
THEOREM FieldsAlwaysRead == FieldSpec => []FieldsRead
<1>1. FieldInv => FieldsRead
  BY FixedExact, CoordinatesExact, UtcExact, SeparateExact DEF FieldInv, FieldsRead, LabelsRead
<1> QED  BY <1>1, FieldInvariant, PTL
=============================================================================
