----------------------------- MODULE SumProofs ------------------------------
(***************************************************************************)
(* Induction over numbers, as the other proofs need it: a set of numbers   *)
(* has a least one, so that the least counterexample of a claim can be     *)
(* taken; and what follows for the totals of Sums, for lists of any length:*)
(* that they exist, how they grow, and what bounds them.                   *)
(***************************************************************************)
EXTENDS Sums, NaturalsInduction, WellFoundedInduction, TLAPS

\* A set of numbers has a least one.
LEMMA NatMin == ASSUME NEW X, X \subseteq Nat, X # {} PROVE \E n \in X : \A m \in X : n <= m
  <1>1. PICK less : less = OpToRel(<, Nat)
    OBVIOUS
  <1>2. IsWellFoundedOn(less, Nat)
    BY <1>1, NatLessThanWellFounded
  <1>3. PICK n \in X : \A m \in X : <<m, n>> \notin less
    BY <1>2, WFMin
  <1>4. \A m \in X : m < n => <<m, n>> \in less
    BY <1>1 DEF OpToRel
  <1>5. \A m \in X : n <= m
    <2>. SUFFICES ASSUME NEW m \in X PROVE n <= m
      OBVIOUS
    <2>1. ~(m < n)
      BY <1>3, <1>4
    <2>2. m \in Nat /\ n \in Nat
      OBVIOUS
    <2>. QED  BY <2>1, <2>2
  <1>. QED BY <1>5

-----------------------------------------------------------------------------
(* The totals of Sums.                                                     *)

\* s holds the totals of the first 0, 1, ..., n elements.
IsSum(s, f, n) == s = [k \in 0..n |-> IF k = 0 THEN 0 ELSE s[k - 1] + f[k]]

\* There are such totals: they can be continued from those of one element less.
LEMMA SumsExist == 
  ASSUME NEW f, NEW n \in Nat, \A i \in 1..n : f[i] \in Int
  PROVE  \E s \in [0..n -> Int] : IsSum(s, f, n)
  <1>. SUFFICES ASSUME ~ \E s \in [0..n -> Int] : IsSum(s, f, n) PROVE FALSE
    OBVIOUS
  <1>1. PICK X : X = {m \in 0..n : ~ \E s \in [0..m -> Int] : IsSum(s, f, m)}
    OBVIOUS
  <1>2. PICK m \in X : \A l \in X : m <= l
    <2>1. n \in X /\ X \subseteq Nat
      BY <1>1
    <2>. QED  BY <2>1, NatMin
  <1>3. m \in 0..n /\ ~ \E s \in [0..m -> Int] : IsSum(s, f, m)
    BY <1>1
  <1>4. CASE m = 0
    <2>1. PICK s : s = [k \in 0..0 |-> 0]
      OBVIOUS
    <2>2. s \in [0..m -> Int] /\ IsSum(s, f, m)
      BY <1>4, <2>1 DEF IsSum
    <2>. QED  BY <1>3, <2>2
  <1>5. CASE m > 0
    <2>1. m - 1 \in 0..n /\ ~(m <= m - 1)
      BY <1>3, <1>5
    <2>2. PICK s \in [0..(m - 1) -> Int] : IsSum(s, f, m - 1)
      BY <1>1, <1>2, <2>1
    <2>3. PICK t : t = [k \in 0..m |-> IF k = m THEN s[m - 1] + f[m] ELSE s[k]]
      OBVIOUS
    <2>4. m \in 1..n /\ m - 1 \in 0..(m - 1) /\ s[m - 1] \in Int /\ f[m] \in Int
      BY <1>3, <1>5
    <2>5. t \in [0..m -> Int]
      BY <2>3, <2>4
    <2>6. \A k \in 0..m : t[k] = IF k = 0 THEN 0 ELSE t[k - 1] + f[k]
      <3>. SUFFICES ASSUME NEW k \in 0..m PROVE t[k] = IF k = 0 THEN 0 ELSE t[k - 1] + f[k]
        OBVIOUS
      <3>1. CASE k = m
        BY <1>3, <1>5, <2>3, <2>4, <3>1
      <3>2. CASE k # m
        <4>1. k \in 0..(m - 1) /\ t[k] = s[k]
          BY <1>3, <2>3, <3>2
        <4>2. s[k] = IF k = 0 THEN 0 ELSE s[k - 1] + f[k]
          BY <2>2, <4>1 DEF IsSum
        <4>3. k # 0 => k - 1 \in 0..m /\ k - 1 # m /\ t[k - 1] = s[k - 1]
          BY <1>3, <2>3, <4>1
        <4>. QED  BY <4>1, <4>2, <4>3
      <3>. QED  BY <3>1, <3>2
    <2>7. IsSum(t, f, m)
      BY <2>5, <2>6 DEF IsSum
    <2>. QED  BY <1>3, <2>5, <2>7
  <1>. QED  BY <1>3, <1>4, <1>5

\* Two sums agree as far as both go.
LEMMA SumsAgree ==
  ASSUME NEW f, NEW n \in Nat, NEW l \in 0..n, NEW s, NEW t, IsSum(s, f, n), IsSum(t, f, l)
  PROVE  \A k \in 0..l : s[k] = t[k]
  <1>. SUFFICES ASSUME ~ \A k \in 0..l : s[k] = t[k] PROVE FALSE
    OBVIOUS
  <1>1. PICK X : X = {k \in 0..l : s[k] # t[k]}
    OBVIOUS
  <1>2. PICK m \in X : \A k \in X : m <= k
    <2>1. X \subseteq Nat /\ X # {}
      BY <1>1
    <2>. QED  BY <2>1, NatMin
  <1>3. m \in 0..l /\ m \in 0..n /\ s[m] # t[m]
    BY <1>1
  <1>4. /\ s[m] = IF m = 0 THEN 0 ELSE s[m - 1] + f[m]
        /\ t[m] = IF m = 0 THEN 0 ELSE t[m - 1] + f[m]
    BY <1>3 DEF IsSum
  <1>5. m # 0
    BY <1>3, <1>4
  <1>6. m - 1 \in 0..l /\ ~(m <= m - 1)
    BY <1>3, <1>5
  <1>7. s[m - 1] = t[m - 1]
    BY <1>1, <1>2, <1>6
  <1>. QED  BY <1>3, <1>4, <1>5, <1>7

\* SumTo is the last of them.
LEMMA SumToIs ==
  ASSUME NEW f, NEW n \in Nat, \A i \in 1..n : f[i] \in Int
  PROVE  \E s \in [0..n -> Int] : IsSum(s, f, n) /\ SumTo(f, n) = s[n]
  <1>1. PICK s : s = CHOOSE t : t = [k \in 0..n |-> IF k = 0 THEN 0 ELSE t[k - 1] + f[k]]
    OBVIOUS
  <1>2. PICK u : IsSum(u, f, n)
    BY SumsExist
  <1>3. u = [k \in 0..n |-> IF k = 0 THEN 0 ELSE u[k - 1] + f[k]]
    BY <1>2 DEF IsSum
  <1>4. s = [k \in 0..n |-> IF k = 0 THEN 0 ELSE s[k - 1] + f[k]]
    BY <1>1, <1>3
  <1>5. SumTo(f, n) = s[n]
    BY <1>1 DEF SumTo
  <1>6. IsSum(s, f, n)
    BY <1>4 DEF IsSum
  <1>7. s \in [0..n -> Int]
    <2>1. PICK v \in [0..n -> Int] : IsSum(v, f, n)
      BY SumsExist
    <2>2. \A k \in 0..n : s[k] = v[k]
      BY <1>6, <2>1, SumsAgree
    <2>3. \A k \in 0..n : s[k] \in Int
      BY <2>1, <2>2
    <2>4. s = [k \in 0..n |-> s[k]]
      BY <1>4
    <2>. QED  BY <2>3, <2>4
  <1>. QED BY <1>5, <1>6, <1>7

\* What the sum of the first n is, step by step.
LEMMA SumZero == ASSUME NEW f PROVE SumTo(f, 0) = 0
  <1>1. PICK s \in [0..0 -> Int] : IsSum(s, f, 0) /\ SumTo(f, 0) = s[0]
    <2>1. 0 \in Nat /\ \A i \in 1..0 : f[i] \in Int
      OBVIOUS
    <2>. QED  BY <2>1, SumToIs
  <1>2. s[0] = 0
    BY <1>1 DEF IsSum
  <1>. QED  BY <1>1, <1>2

LEMMA SumNext ==
  ASSUME NEW f, NEW n \in Nat, \A i \in 1..(n + 1) : f[i] \in Int
  PROVE  SumTo(f, n + 1) = SumTo(f, n) + f[n + 1]
  <1>0. n + 1 \in Nat /\ \A i \in 1..n : f[i] \in Int
    OBVIOUS
  <1>1. PICK s \in [0..(n + 1) -> Int] : IsSum(s, f, n + 1) /\ SumTo(f, n + 1) = s[n + 1]
    BY <1>0, SumToIs
  <1>2. PICK t \in [0..n -> Int] : IsSum(t, f, n) /\ SumTo(f, n) = t[n]
    BY <1>0, SumToIs
  <1>3. n \in 0..(n + 1) /\ n \in 0..n
    OBVIOUS
  <1>4. s[n] = t[n]
    BY <1>0, <1>1, <1>2, <1>3, SumsAgree
  <1>5. s[n + 1] = s[n] + f[n + 1]
    <2>1. n + 1 \in 0..(n + 1) /\ n + 1 # 0 /\ n + 1 - 1 = n
      OBVIOUS
    <2>2. s[n + 1] = IF n + 1 = 0 THEN 0 ELSE s[n + 1 - 1] + f[n + 1]
      BY <1>1, <2>1 DEF IsSum
    <2>. QED  BY <2>1, <2>2
  <1>. QED  BY <1>1, <1>2, <1>4, <1>5

LEMMA SumInt ==
  ASSUME NEW f, NEW n \in Nat, \A i \in 1..n : f[i] \in Int
  PROVE  SumTo(f, n) \in Int
  <1>1. PICK s \in [0..n -> Int] : IsSum(s, f, n) /\ SumTo(f, n) = s[n]
    BY SumToIs
  <1>. QED  BY <1>1

\* A sum of numbers of low..high lies between n times the one and n times the other.
LEMMA SumBetween ==
  ASSUME NEW f, NEW n \in Nat, NEW low \in Int, NEW high \in Int,
         \A i \in 1..n : f[i] \in Int /\ low <= f[i] /\ f[i] <= high
  PROVE  low * n <= SumTo(f, n) /\ SumTo(f, n) <= high * n
  <1>. SUFFICES ASSUME ~(low * n <= SumTo(f, n) /\ SumTo(f, n) <= high * n) PROVE FALSE
    OBVIOUS
  <1>1. PICK X : X = {k \in 0..n : ~(low * k <= SumTo(f, k) /\ SumTo(f, k) <= high * k)}
    OBVIOUS
  <1>2. PICK m \in X : \A k \in X : m <= k
    <2>1. X \subseteq Nat /\ X # {}
      BY <1>1
    <2>. QED  BY <2>1, NatMin
  <1>3. m \in 0..n /\ ~(low * m <= SumTo(f, m) /\ SumTo(f, m) <= high * m)
    BY <1>1
  <1>4. m # 0
    BY <1>3, SumZero
  <1>5. PICK p \in 0..n : m = p + 1
    BY <1>3, <1>4
  <1>6. low * p <= SumTo(f, p) /\ SumTo(f, p) <= high * p
    <2>1. ~(m <= p)
      BY <1>5
    <2>. QED  BY <1>1, <1>2, <2>1
  <1>7. SumTo(f, m) = SumTo(f, p) + f[m] /\ SumTo(f, p) \in Int
    <2>1. p \in Nat /\ \A i \in 1..(p + 1) : f[i] \in Int
      BY <1>3, <1>5
    <2>. QED  BY <1>5, <2>1, SumNext, SumInt
  <1>8. f[m] \in Int /\ low <= f[m] /\ f[m] <= high
    BY <1>3, <1>4
  <1>9. low * m = low * p + low /\ high * m = high * p + high
    BY <1>5
  <1>10. low * p \in Int /\ high * p \in Int
    OBVIOUS
  <1>. QED  BY <1>3, <1>6, <1>7, <1>8, <1>9, <1>10

LEMMA SumNat ==
  ASSUME NEW f, NEW n \in Nat, \A i \in 1..n : f[i] \in Nat
  PROVE  SumTo(f, n) \in Nat
  <1>. SUFFICES ASSUME ~(SumTo(f, n) \in Nat) PROVE FALSE
    OBVIOUS
  <1>1. PICK X : X = {k \in 0..n : ~(SumTo(f, k) \in Nat)}
    OBVIOUS
  <1>2. PICK m \in X : \A k \in X : m <= k
    <2>1. X \subseteq Nat /\ X # {}
      BY <1>1
    <2>. QED  BY <2>1, NatMin
  <1>3. m \in 0..n /\ ~(SumTo(f, m) \in Nat)
    BY <1>1
  <1>4. m # 0
    BY <1>3, SumZero
  <1>5. PICK p \in 0..n : m = p + 1
    BY <1>3, <1>4
  <1>6. SumTo(f, p) \in Nat
    <2>1. ~(m <= p)
      BY <1>5
    <2>. QED  BY <1>1, <1>2, <2>1
  <1>7. SumTo(f, m) = SumTo(f, p) + f[m]
    <2>1. p \in Nat /\ \A i \in 1..(p + 1) : f[i] \in Int
      BY <1>3, <1>5
    <2>. QED  BY <1>5, <2>1, SumNext
  <1>8. f[m] \in Nat
    BY <1>3, <1>4
  <1>. QED  BY <1>3, <1>6, <1>7, <1>8

\* A total of greater elements is no less.
LEMMA SumMonotone ==
  ASSUME NEW f, NEW g, NEW n \in Nat,
         \A i \in 1..n : f[i] \in Int /\ g[i] \in Int /\ f[i] <= g[i]
  PROVE  SumTo(f, n) <= SumTo(g, n)
  <1>. SUFFICES ASSUME ~(SumTo(f, n) <= SumTo(g, n)) PROVE FALSE
    OBVIOUS
  <1>1. PICK X : X = {k \in 0..n : ~(SumTo(f, k) <= SumTo(g, k))}
    OBVIOUS
  <1>2. PICK m \in X : \A k \in X : m <= k
    <2>1. X \subseteq Nat /\ X # {}
      BY <1>1
    <2>. QED  BY <2>1, NatMin
  <1>3. m \in 0..n /\ ~(SumTo(f, m) <= SumTo(g, m))
    BY <1>1
  <1>4. m # 0
    <2>1. SumTo(f, 0) = 0 /\ SumTo(g, 0) = 0
      BY SumZero
    <2>. QED  BY <1>3, <2>1
  <1>5. PICK p \in 0..n : m = p + 1
    BY <1>3, <1>4
  <1>6. SumTo(f, p) <= SumTo(g, p)
    <2>1. ~(m <= p)
      BY <1>5
    <2>. QED  BY <1>1, <1>2, <2>1
  <1>7. /\ SumTo(f, m) = SumTo(f, p) + f[m] /\ SumTo(f, p) \in Int
        /\ SumTo(g, m) = SumTo(g, p) + g[m] /\ SumTo(g, p) \in Int
    <2>1. p \in Nat /\ \A i \in 1..(p + 1) : f[i] \in Int /\ g[i] \in Int
      BY <1>3, <1>5
    <2>2. SumTo(f, p + 1) = SumTo(f, p) + f[p + 1] /\ SumTo(g, p + 1) = SumTo(g, p) + g[p + 1]
      BY <2>1, SumNext
    <2>3. SumTo(f, p) \in Int /\ SumTo(g, p) \in Int
      BY <2>1, SumInt
    <2>. QED  BY <1>5, <2>2, <2>3
  <1>8. f[m] \in Int /\ g[m] \in Int /\ f[m] <= g[m]
    BY <1>3, <1>4
  <1>. QED  BY <1>3, <1>6, <1>7, <1>8

\* No element is more than the total of all.
LEMMA SumCovers ==
  ASSUME NEW f, NEW n \in Nat, \A i \in 1..n : f[i] \in Nat, NEW j \in 1..n
  PROVE  f[j] <= SumTo(f, n)
  <1>. SUFFICES ASSUME ~(f[j] <= SumTo(f, n)) PROVE FALSE
    OBVIOUS
  <1>1. PICK X : X = {k \in j..n : ~(f[j] <= SumTo(f, k))}
    OBVIOUS
  <1>2. PICK m \in X : \A k \in X : m <= k
    <2>1. X \subseteq Nat /\ X # {}
      BY <1>1
    <2>. QED  BY <2>1, NatMin
  <1>3. m \in j..n /\ ~(f[j] <= SumTo(f, m))
    BY <1>1
  <1>4. PICK p \in 0..n : m = p + 1
    BY <1>3
  <1>5. SumTo(f, m) = SumTo(f, p) + f[m] /\ SumTo(f, p) \in Nat
    <2>1. p \in Nat /\ \A i \in 1..(p + 1) : f[i] \in Int
      BY <1>3, <1>4
    <2>2. \A i \in 1..p : f[i] \in Nat
      BY <1>3, <1>4
    <2>. QED  BY <1>4, <2>1, <2>2, SumNext, SumNat
  <1>6. f[m] \in Nat /\ f[j] \in Nat
    BY <1>3
  <1>7. CASE m = j
    BY <1>3, <1>5, <1>6, <1>7
  <1>8. CASE m # j
    <2>1. p \in j..n /\ ~(m <= p)
      BY <1>3, <1>4, <1>8
    <2>2. f[j] <= SumTo(f, p)
      BY <1>1, <1>2, <2>1
    <2>. QED  BY <1>3, <1>5, <1>6, <2>2
  <1>. QED  BY <1>7, <1>8

LEMMA SumOne == ASSUME NEW f, f[1] \in Int PROVE SumTo(f, 1) = f[1]
  <1>1. 0 \in Nat /\ \A i \in 1..(0 + 1) : f[i] \in Int
    OBVIOUS
  <1>2. SumTo(f, 0 + 1) = SumTo(f, 0) + f[0 + 1]
    BY <1>1, SumNext
  <1>. QED  BY <1>2, SumZero

-----------------------------------------------------------------------------
(* Division, whose divisor may be any number.                              *)

LEMMA QuotientAtLeast ==
  ASSUME NEW a \in Int, NEW m \in Nat, m > 0, NEW c \in Int, c * m <= a
  PROVE  c <= a \div m
  OBVIOUS

LEMMA QuotientAtMost ==
  ASSUME NEW a \in Int, NEW m \in Nat, m > 0, NEW c \in Int, a < (c + 1) * m
  PROVE  a \div m <= c
  OBVIOUS
=============================================================================
