--------------------------- MODULE RunningTotals ---------------------------
(* What several proof modules need: induction over the natural numbers,      *)
(* least numbers, arithmetic modulo a range, and sums that are defined by    *)
(* recursive functions, as SizeOf() and Weight() of FrameBlasting and        *)
(* TotalSize() of FastQueue are.                                             *)
EXTENDS Integers, NaturalsInduction, WellFoundedInduction, TLAPS

\* Induction over the natural numbers, for a set: the library's theorem is
\* about an operator, which the provers cannot instantiate.
LEMMA SetInduction ==
    ASSUME NEW S, 0 \in S, \A n \in Nat : n \in S => n + 1 \in S
    PROVE  \A n \in Nat : n \in S
<1> DEFINE R == {p \in Nat \X Nat : p[1] < p[2]}
           T == Nat \ S
<1>1. IsWellFoundedOn(R, Nat)
  BY NatLessThanWellFounded DEF OpToRel
<1> SUFFICES ASSUME T # {} PROVE FALSE
  OBVIOUS
<1> HIDE DEF R
<1>2. PICK x \in T : \A y \in T : ~(<<y, x>> \in R)
  BY <1>1, WFMin
<1>3. x - 1 \in Nat /\ x - 1 + 1 = x
  BY <1>2
<1>4. x - 1 \in T
  BY <1>3
<1>5. <<x - 1, x>> \in R
  BY <1>2, <1>3 DEF R
<1> QED
  BY <1>2, <1>4, <1>5

\* A set of numbers that is not empty has a least one.
LEMMA LeastExists ==
    ASSUME NEW S \in SUBSET Nat, S # {}
    PROVE  \E k \in S : \A j \in S : k <= j
<1> DEFINE R == {p \in Nat \X Nat : p[1] < p[2]}
<1>1. IsWellFoundedOn(R, Nat)
  BY NatLessThanWellFounded DEF OpToRel
<1> HIDE DEF R
<1>2. PICK k \in S : \A j \in S : ~(<<j, k>> \in R)
  BY <1>1, WFMin
<1>3. \A j \in S : ~(j < k)
  BY <1>2 DEF R
<1> QED
  BY <1>3

\* s lists the running totals of g, from 0 to the sum of its N numbers.
Totals(s, g, N) == s = [n \in 0 .. N |-> IF n = 0 THEN 0 ELSE s[n - 1] + g[n]]

\* From one total to the next.
LEMMA TotalsAt ==
    ASSUME NEW N \in Nat, NEW g, NEW s, Totals(s, g, N)
    PROVE  /\ s[0] = 0
           /\ \A n \in 1 .. N : s[n] = s[n - 1] + g[n]
<1> DEFINE step(n) == IF n = 0 THEN 0 ELSE s[n - 1] + g[n]
<1>1. s = [n \in 0 .. N |-> step(n)]
  BY DEF Totals
<1> HIDE DEF step
<1>2. \A n \in 0 .. N : s[n] = step(n)
  BY <1>1
<1> QED
  BY <1>2 DEF step

\* Totals of natural numbers are natural numbers.
LEMMA TotalsNat ==
    ASSUME NEW N \in Nat, NEW g, NEW s, Totals(s, g, N),
           \A n \in 1 .. N : g[n] \in Nat
    PROVE  \A n \in 0 .. N : s[n] \in Nat
<1> DEFINE S == {n \in Nat : n <= N => s[n] \in Nat}
<1>1. 0 \in S
  BY TotalsAt
<1>2. ASSUME NEW n \in Nat, n \in S PROVE n + 1 \in S
  <2> SUFFICES ASSUME n + 1 <= N PROVE s[n + 1] \in Nat
    OBVIOUS
  <2>1. n + 1 \in 1 .. N /\ (n + 1) - 1 = n /\ s[n] \in Nat
    BY <1>2
  <2>2. s[n + 1] = s[n] + g[n + 1]
    BY <2>1, TotalsAt
  <2> QED
    BY <2>1, <2>2
<1> HIDE DEF S
<1>3. \A n \in Nat : n \in S
  BY <1>1, <1>2, SetInduction
<1> QED
  BY <1>3 DEF S

\* There are totals: a recursive function that adds up is well defined.
LEMMA TotalsExist ==
    ASSUME NEW N \in Nat, NEW g
    PROVE  \E s : Totals(s, g, N)
<1> DEFINE S == {m \in Nat : \E s : Totals(s, g, m)}
<1>1. 0 \in S
  <2> DEFINE s == [n \in 0 .. 0 |-> 0]
  <2>1. Totals(s, g, 0)
    BY DEF Totals
  <2> QED
    BY <2>1
<1>2. ASSUME NEW m \in Nat, m \in S PROVE m + 1 \in S
  <2>1. PICK s : Totals(s, g, m)
    BY <1>2
  <2> DEFINE t == [n \in 0 .. m + 1 |-> IF n = m + 1 THEN s[m] + g[n] ELSE s[n]]
  <2>2. s[0] = 0 /\ \A n \in 1 .. m : s[n] = s[n - 1] + g[n]
    BY <2>1, TotalsAt
  <2>3. \A n \in 0 .. m + 1 : t[n] = IF n = 0 THEN 0 ELSE t[n - 1] + g[n]
    BY <2>2
  <2>4. t = [n \in 0 .. m + 1 |-> t[n]]
    OBVIOUS
  <2> HIDE DEF t
  <2>5. Totals(t, g, m + 1)
    BY <2>3, <2>4 DEF Totals
  <2> QED
    BY <2>5
<1> HIDE DEF S
<1>3. \A n \in Nat : n \in S
  BY <1>1, <1>2, SetInduction
<1> QED
  BY <1>3 DEF S

\* h is g but for d more in one place, up to K.
MoreAt(h, g, k, d, K) ==
    \A n \in 1 .. K : h[n] = IF n = k THEN g[n] + d ELSE g[n]

\* Then their totals differ by d.
LEMMA TotalsDiffer ==
    ASSUME NEW N \in Nat, NEW g, NEW s, Totals(s, g, N),
           NEW M \in Nat, NEW h, NEW t, Totals(t, h, M), 
           \A n \in 1 .. N : g[n] \in Nat,
           NEW k \in Nat, NEW d \in Int,
           NEW K \in Nat, K <= N, K <= M, MoreAt(h, g, k, d, K)
    PROVE  t[K] = IF k \in 1 .. K THEN s[K] + d ELSE s[K]
<1> DEFINE S == {n \in Nat : n <= K =>
                     t[n] = IF k \in 1 .. n THEN s[n] + d ELSE s[n]}
<1>0. \A n \in 0 .. N : s[n] \in Nat
  BY TotalsNat
<1>1. 0 \in S
  BY TotalsAt
<1>2. ASSUME NEW n \in Nat, n \in S PROVE n + 1 \in S
  <2> SUFFICES ASSUME n + 1 <= K
               PROVE  t[n + 1] = IF k \in 1 .. n + 1 THEN s[n + 1] + d ELSE s[n + 1]
    OBVIOUS
  <2>1. /\ n + 1 \in 1 .. N /\ n + 1 \in 1 .. M /\ n + 1 \in 1 .. K 
        /\ (n + 1) - 1 = n /\ n \in 0 .. N
        /\ t[n] = IF k \in 1 .. n THEN s[n] + d ELSE s[n]
    BY <1>2
  <2>2. s[n + 1] = s[n] + g[n + 1] /\ t[n + 1] = t[n] + h[n + 1]
    BY <2>1, TotalsAt
  <2>3. s[n] \in Nat /\ g[n + 1] \in Nat
    BY <2>1, <1>0
  <2>4. h[n + 1] = IF n + 1 = k THEN g[n + 1] + d ELSE g[n + 1]
    BY <2>1 DEF MoreAt
  <2>5. CASE n + 1 = k
    BY <2>1, <2>2, <2>3, <2>4, <2>5
  <2>6. CASE n + 1 # k
    BY <2>1, <2>2, <2>3, <2>4, <2>6
  <2> QED
    BY <2>5, <2>6
<1> HIDE DEF S
<1>3. \A n \in Nat : n \in S
  BY <1>1, <1>2, SetInduction
<1> QED
  BY <1>3 DEF S

(***************************************************************************)
(* Sums modulo R.                                                          *)
(***************************************************************************)

\* The division of natural numbers.
LEMMA Division ==
    ASSUME NEW R \in Nat \ {0}, NEW a \in Nat
    PROVE  /\ a % R \in 0 .. R - 1 /\ a \div R \in Nat
           /\ a = R * (a \div R) + (a % R)
OBVIOUS

\* The rest of a division is unique.
LEMMA QuotientUnique ==
    ASSUME NEW R \in Nat \ {0}, NEW p \in Nat, NEW q \in Nat,
           NEW x \in 0 .. R - 1, NEW y \in 0 .. R - 1,
           R * p + x = R * q + y
    PROVE  x = y
<1>1. CASE p = q
  <2>1. R * p = R * q
    BY <1>1
  <2>2. R * p \in Nat
    OBVIOUS
  <2> QED BY <2>1, <2>2
<1>2. ASSUME NEW u \in Nat, NEW v \in Nat, u < v PROVE R * u + R <= R * v
  <2>1. PICK w \in Nat : v = u + 1 + w
    <3>1. v - u - 1 \in Nat /\ v = u + 1 + (v - u - 1)
      BY <1>2
    <3> QED BY <3>1
  <2>2. R * (u + 1 + w) = R * u + R + R * w
    OBVIOUS
  <2>3. R * w \in Nat /\ R * u \in Nat
    OBVIOUS
  <2> QED BY <2>1, <2>2, <2>3
<1>3. R * p \in Nat /\ R * q \in Nat
  OBVIOUS
<1>4. CASE p < q
  BY <1>2, <1>3, <1>4
<1>5. CASE q < p
  BY <1>2, <1>3, <1>5
<1> QED BY <1>1, <1>4, <1>5

\* Adding modulo R.
LEMMA AddMod ==
    ASSUME NEW R \in Nat \ {0}, NEW a \in Nat, NEW b \in Nat
    PROVE  ((a % R) + b) % R = (a + b) % R
<1> DEFINE r == a % R
           c == r + b
<1>1. r \in 0 .. R - 1 /\ a \div R \in Nat /\ a = R * (a \div R) + r
  BY Division
<1>2. c \in Nat /\ a + b \in Nat
  BY <1>1
<1>3. c % R \in 0 .. R - 1 /\ c \div R \in Nat /\ c = R * (c \div R) + (c % R)
  <2> HIDE DEF c
  <2> QED BY <1>2, Division
<1>4. (a + b) % R \in 0 .. R - 1 /\ (a + b) \div R \in Nat
      /\ a + b = R * ((a + b) \div R) + ((a + b) % R)
  BY <1>2, Division
<1> DEFINE k == a \div R
           l == c \div R
<1>5. a + b = R * k + c
  BY <1>1
<1>6. R * (k + l) = R * k + R * l /\ k + l \in Nat /\ R * k \in Nat /\ R * l \in Nat
  BY <1>1, <1>3
<1>7. a + b = R * (k + l) + (c % R)
  <2> HIDE DEF k, l
  <2>1. c = R * l + (c % R) BY <1>3 DEF l
  <2> HIDE DEF c
  <2> QED BY <1>2, <1>3, <1>5, <1>6, <2>1
<1> HIDE DEF k, l, c, r
<1>8. c % R = (a + b) % R
  BY <1>3, <1>4, <1>6, <1>7, QuotientUnique
<1> QED BY <1>8 DEF c, r

\* The rest modulo C of a rest modulo a multiple of C.
LEMMA ModMod ==
    ASSUME NEW C \in Nat \ {0}, NEW R \in Nat \ {0}, R % C = 0, NEW a \in Nat
    PROVE  (a % R) % C = a % C
<1> DEFINE r == a % R
           q == R \div C
           k == a \div R
           l == r \div C
           m == a \div C
<1>1. r \in 0 .. R - 1 /\ k \in Nat /\ a = R * k + r
  BY Division
<1>2. q \in Nat /\ R = C * q
  <2>1. q \in Nat /\ R = C * q + (R % C)
    BY Division
  <2>2. C * q \in Nat
    BY <2>1
  <2> HIDE DEF q
  <2> QED
    BY <2>1, <2>2
<1>3. r \in Nat
  BY <1>1
<1>4. r % C \in 0 .. C - 1 /\ l \in Nat /\ r = C * l + (r % C)
  <2> HIDE DEF r
  <2> QED
    BY <1>3, Division
<1>5. a % C \in 0 .. C - 1 /\ m \in Nat /\ a = C * m + (a % C)
  BY Division
<1> HIDE DEF r, q, k, l, m
<1>6. R * k = C * (q * k) /\ q * k \in Nat
  BY <1>1, <1>2
<1>7. C * (q * k + l) = C * (q * k) + C * l /\ q * k + l \in Nat
  <2> DEFINE e == q * k
  <2>1. e \in Nat
    BY <1>6
  <2> HIDE DEF e
  <2> QED
    BY <1>4, <2>1 DEF e
<1>8. C * (q * k + l) + (r % C) = C * m + (a % C)
  <2> DEFINE e == C * (q * k)
             f == C * l
  <2>1. e \in Nat /\ f \in Nat
    BY <1>4, <1>6
  <2>2. a = e + r /\ r = f + (r % C)
    BY <1>1, <1>4, <1>6
  <2> HIDE DEF e, f
  <2>3. a = (e + f) + (r % C)
    BY <1>3, <1>4, <2>1, <2>2
  <2> QED
    BY <1>5, <1>7, <2>3 DEF e, f
<1>9. r % C = a % C
  BY <1>4, <1>5, <1>7, <1>8, QuotientUnique
<1> QED
  BY <1>9 DEF r

\* Numbers that are less than C apart have different rests.
LEMMA RestsDiffer ==
    ASSUME NEW C \in Nat \ {0}, NEW a \in Nat, NEW d \in 1 .. C - 1
    PROVE  (a + d) % C # a % C
<1> DEFINE k == a \div C
           m == (a + d) \div C
           r == a % C
<1> SUFFICES ASSUME (a + d) % C = r PROVE FALSE
  OBVIOUS
<1>1. r \in 0 .. C - 1 /\ k \in Nat /\ a = C * k + r
  BY Division
<1>2. a + d \in Nat
  OBVIOUS
<1>3. m \in Nat /\ a + d = C * m + r
  BY <1>2, Division
<1> HIDE DEF k, m, r
<1>4. C * k \in Nat /\ C * m \in Nat
  BY <1>1, <1>3
<1>5. C * m = C * k + d
  BY <1>1, <1>3, <1>4
<1>6. CASE m <= k
  <2>1. k - m \in Nat /\ C * (k - m) \in Nat /\ C * k = C * m + C * (k - m)
    BY <1>1, <1>3, <1>6
  <2> QED
    BY <1>4, <1>5, <2>1
<1>7. CASE m > k
  <2>1. m - k - 1 \in Nat
    BY <1>1, <1>3, <1>7
  <2>2. C * (m - k - 1) \in Nat /\ C * m = C * k + C + C * (m - k - 1)
    BY <1>1, <1>3, <2>1
  <2> QED
    BY <1>4, <1>5, <2>2
<1> QED
  BY <1>1, <1>3, <1>6, <1>7

\* Numbers that are C apart have the same rest, as have numbers less than C.
LEMMA RestsAgree ==
    ASSUME NEW C \in Nat \ {0}, NEW a \in Nat
    PROVE  /\ (a + C) % C = a % C
           /\ a < C => a % C = a
<1>1. a % C \in 0 .. C - 1 /\ a \div C \in Nat /\ a = C * (a \div C) + (a % C)
  BY Division
<1>2. /\ (a + C) % C \in 0 .. C - 1 /\ (a + C) \div C \in Nat
      /\ a + C = C * ((a + C) \div C) + ((a + C) % C)
  <2>1. a + C \in Nat
    OBVIOUS
  <2> QED
    BY <2>1, Division
<1> DEFINE k == a \div C
           m == (a + C) \div C
           r == a % C
           t == (a + C) % C
<1>3. C * k \in Nat /\ C * (k + 1) = C * k + C /\ k + 1 \in Nat
  BY <1>1
<1>4. C * (k + 1) + r = C * m + t
  <2> HIDE DEF k, m, r, t
  <2>1. a = C * k + r /\ a + C = C * m + t /\ r \in Nat
    BY <1>1, <1>2 DEF k, m, r, t
  <2> QED
    BY <1>3, <2>1
<1>5. (a + C) % C = a % C
  <2> HIDE DEF k, m, r, t
  <2>1. r \in 0 .. C - 1 /\ t \in 0 .. C - 1 /\ m \in Nat
    BY <1>1, <1>2 DEF r, t, m
  <2>2. r = t
    BY <1>3, <1>4, <2>1, QuotientUnique
  <2> QED
    BY <2>2 DEF r, t
<1>6. a < C => a % C = a
  OBVIOUS
<1> QED
  BY <1>5, <1>6

(***************************************************************************)
(* Other recursive functions over the numbers up to N.                     *)
(***************************************************************************)

\* f is what becomes of a in N steps.
Folds(f, a, step, N) ==
    f = [n \in 0 .. N |-> IF n = 0 THEN a ELSE step[n][f[n - 1]]]

\* From one step to the next.
LEMMA FoldsAt ==
    ASSUME NEW N \in Nat, NEW a, NEW step, NEW f, Folds(f, a, step, N)
    PROVE  /\ f[0] = a
           /\ \A n \in 1 .. N : f[n] = step[n][f[n - 1]]
<1> DEFINE next(n) == IF n = 0 THEN a ELSE step[n][f[n - 1]]
<1>1. f = [n \in 0 .. N |-> next(n)]
  BY DEF Folds
<1> HIDE DEF next
<1>2. \A n \in 0 .. N : f[n] = next(n)
  BY <1>1
<1> QED
  BY <1>2 DEF next

\* There is such a function.
LEMMA FoldsExist ==
    ASSUME NEW N \in Nat, NEW a, NEW step
    PROVE  \E f : Folds(f, a, step, N)
<1> DEFINE S == {m \in Nat : \E f : Folds(f, a, step, m)}
<1>1. 0 \in S
  <2> DEFINE f == [n \in 0 .. 0 |-> a]
  <2>1. Folds(f, a, step, 0)
    BY DEF Folds
  <2> QED
    BY <2>1
<1>2. ASSUME NEW m \in Nat, m \in S PROVE m + 1 \in S
  <2>1. PICK f : Folds(f, a, step, m)
    BY <1>2
  <2> DEFINE g == [n \in 0 .. m + 1 |->
                      IF n = m + 1 THEN step[m + 1][f[m]] ELSE f[n]]
  <2>2. f[0] = a /\ \A n \in 1 .. m : f[n] = step[n][f[n - 1]]
    BY <2>1, FoldsAt
  <2>3. \A n \in 0 .. m + 1 : g[n] = IF n = 0 THEN a ELSE step[n][g[n - 1]]
    BY <2>2
  <2>4. g = [n \in 0 .. m + 1 |-> g[n]]
    OBVIOUS
  <2> HIDE DEF g
  <2>5. Folds(g, a, step, m + 1)
    BY <2>3, <2>4 DEF Folds
  <2> QED
    BY <2>5
<1> HIDE DEF S
<1>3. \A n \in Nat : n \in S
  BY <1>1, <1>2, SetInduction
<1> QED
  BY <1>3 DEF S
=============================================================================
