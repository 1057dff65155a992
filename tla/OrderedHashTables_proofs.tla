---------------------- MODULE OrderedHashTables_proofs ----------------------
(***************************************************************************)
(* What the loops of the hash table do to an array of buckets: where a     *)
(* search ends, and that insertion, redistribution, renumbering and        *)
(* shifting back keep the entries and their order.  The arrays have n      *)
(* buckets, for any n.                                                     *)
(***************************************************************************)
EXTENDS OrderedHash, Integers, TLAPS, FiniteSetTheorems, WellFoundedInduction

-----------------------------------------------------------------------------
(* Natural numbers and loops.                                              *)

(* Every nonempty set of natural numbers has a least element.              *)
LEMMA LeastIs ==
  ASSUME NEW T \in SUBSET Nat, T # {}
  PROVE  Least(T) \in T /\ \A y \in T : Least(T) <= y
<1> DEFINE R == {p \in Nat \X Nat : p[1] < p[2]}
<1>1. OpToRel(<, Nat) = R
  BY DEF OpToRel
<1>2. IsWellFoundedOn(R, Nat)
  BY <1>1, NatLessThanWellFounded
<1>3. PICK x \in T : \A y \in T : ~(<<y, x>> \in R)
  <2> HIDE DEF R
  <2> QED BY <1>2, WFMin
<1>4. \A y \in T : <<y, x>> \in Nat \X Nat /\ ~(y < x)
  BY <1>3
<1>5. ASSUME NEW y \in T PROVE x <= y
  <2>1. x \in Nat /\ y \in Nat
    OBVIOUS
  <2>2. ~(y < x)
    BY <1>4
  <2> HIDE DEF R
  <2> QED BY <2>1, <2>2
<1> QED BY <1>5 DEF Least

(* What holds at 0 and is handed on holds everywhere.                      *)
LEMMA NatSteps ==
  ASSUME NEW P, 0 \in P, \A j \in Nat : j \in P => j + 1 \in P
  PROVE  \A j \in Nat : j \in P
<1> DEFINE T == Nat \ P
<1>1. T = {}
  <2> SUFFICES ASSUME T # {} PROVE FALSE
    OBVIOUS
  <2>1. Least(T) \in T /\ \A y \in T : Least(T) <= y
    BY LeastIs
  <2>2. Least(T) - 1 \in Nat /\ Least(T) - 1 \notin T
    BY <2>1
  <2> QED BY <2>1, <2>2
<1> QED BY <1>1

(* The same within 0..n.                                                   *)
LEMMA Steps ==
  ASSUME NEW n \in Nat, NEW P, 0 \in P,
         \A j \in 0..n : j \in P /\ j < n => j + 1 \in P
  PROVE  \A j \in 0..n : j \in P
<1> DEFINE Q == {j \in Nat : j \in 0..n => j \in P}
<1>1. 0 \in Q
  OBVIOUS
<1>2. ASSUME NEW j \in Nat, j \in Q PROVE j + 1 \in Q
  BY <1>2
<1>3. \A j \in Nat : j \in Q
  <2> HIDE DEF Q
  <2> QED BY <1>1, <1>2, NatSteps
<1> QED BY <1>3

(* A loop of n steps from x, whose state stays in S, has a run f.          *)
IsLoop(S, x, F, n) == n \in Nat /\ x \in S /\ F \in [1..n -> [S -> S]]

IsRun(f, S, x, F, n) ==
  f \in [0..n -> S] /\ f[0] = x /\ \A j \in 1..n : f[j] = F[j][f[j - 1]]

LEMMA LoopRuns ==
  ASSUME NEW S, NEW x, NEW F, NEW n, IsLoop(S, x, F, n)
  PROVE  \E f : IsRun(f, S, x, F, n)
<1> USE DEF IsLoop
<1> DEFINE P == {m \in 0..n : \E f \in [0..m -> S] :
                   f[0] = x /\ \A j \in 1..m : f[j] = F[j][f[j - 1]]}
<1>1. 0 \in P
  <2> DEFINE z == [j \in 0..0 |-> x]
  <2>1. z \in [0..0 -> S] /\ z[0] = x
    OBVIOUS
  <2>2. \A j \in 1..0 : z[j] = F[j][z[j - 1]]
    OBVIOUS
  <2> HIDE DEF z
  <2> QED BY <2>1, <2>2
<1>2. ASSUME NEW m \in 0..n, m \in P, m < n PROVE m + 1 \in P
  <2>1. PICK f \in [0..m -> S] : f[0] = x /\ \A j \in 1..m : f[j] = F[j][f[j - 1]]
    BY <1>2
  <2> DEFINE g == [j \in 0..(m + 1) |-> IF j = m + 1 THEN F[j][f[m]] ELSE f[j]]
  <2>2. F[m + 1][f[m]] \in S
    BY <1>2, <2>1
  <2>3. m \in Nat /\ m + 1 # 0
    OBVIOUS
  <2>4. \A j \in 0..(m + 1) : j # m + 1 => j \in 0..m /\ g[j] = f[j]
    BY <2>3
  <2>5. g \in [0..(m + 1) -> S] /\ g[m + 1] = F[m + 1][f[m]]
    BY <2>1, <2>2, <2>3
  <2>6. g[0] = x
    BY <2>1, <2>3, <2>4
  <2>7. ASSUME NEW j \in 1..(m + 1) PROVE g[j] = F[j][g[j - 1]]
    <3> HIDE DEF g
    <3>1. CASE j = m + 1
      BY <2>3, <2>4, <2>5, <3>1
    <3>2. CASE j # m + 1
      BY <2>1, <2>3, <2>4, <3>2
    <3> QED BY <3>1, <3>2
  <2>8. \E f1 \in [0..(m + 1) -> S] :
          f1[0] = x /\ \A j \in 1..(m + 1) : f1[j] = F[j][f1[j - 1]]
    <3> HIDE DEF g
    <3> QED BY <2>5, <2>6, <2>7
  <2>9. m + 1 \in 0..n
    BY <1>2
  <2> QED BY <2>8, <2>9
<1>3. n \in P
  <2>1. \A m \in 0..n : m \in P /\ m < n => m + 1 \in P
    BY <1>2
  <2>2. \A m \in 0..n : m \in P
    <3> HIDE DEF P
    <3> QED BY <1>1, <2>1, Steps
  <2> QED BY <2>2
<1> QED BY <1>3 DEF IsRun

-----------------------------------------------------------------------------
(* Division, and numbers that wrap around.                                 *)

LEMMA DivMod ==
  ASSUME NEW a \in Nat, NEW p \in Nat \ {0}
  PROVE  a \div p \in Nat /\ a % p \in 0..(p - 1) /\ a = p * (a \div p) + (a % p)
OBVIOUS

LEMMA Multiples ==
  ASSUME NEW p \in Nat \ {0}, NEW x \in Int
  PROVE  (x >= 1 => p * x >= p) /\ (x <= -1 => p * x <= -p)
OBVIOUS

LEMMA Distributes ==
  ASSUME NEW p \in Int, NEW x \in Int, NEW y \in Int
  PROVE  p * (x - y) = p * x - p * y /\ p * (x + y) = p * x + p * y
OBVIOUS

LEMMA Remainder ==
  ASSUME NEW p \in Nat \ {0}, NEW q \in Nat, NEW r \in 0..(p - 1)
  PROVE  (p * q + r) % p = r
<1> DEFINE a == p * q + r
           d == a \div p
           m == a % p
<1>1. p * q \in Nat /\ a \in Nat
  OBVIOUS
<1>2. d \in Nat /\ m \in 0..(p - 1) /\ p * q + r = p * d + m
  BY <1>1, DivMod
<1>3. q - d \in Int /\ p * (q - d) = p * q - p * d /\ p * d \in Int
  BY <1>2, Distributes
<1> HIDE DEF d, m, a
<1>4. p * (q - d) = m - r
  BY <1>1, <1>2, <1>3
<1>5. ~(q - d >= 1) /\ ~(q - d <= -1)
  BY <1>2, <1>3, <1>4, Multiples
<1>6. q = d
  BY <1>2, <1>3, <1>5
<1> QED BY <1>1, <1>2, <1>6 DEF a, d, m

(* Once around at most.                                                    *)
LEMMA Wrap ==
  ASSUME NEW n \in Nat \ {0}, NEW x \in 0..(2 * n - 1)
  PROVE  x % n = IF x < n THEN x ELSE x - n
<1>1. CASE x < n
  <2>1. x \in 0..(n - 1) /\ n * 0 + x = x
    BY <1>1
  <2> QED BY <1>1, <2>1, Remainder
<1>2. CASE ~(x < n)
  <2>1. x - n \in 0..(n - 1) /\ n * 1 + (x - n) = x
    BY <1>2
  <2> QED BY <1>2, <2>1, Remainder
<1> QED BY <1>1, <1>2

-----------------------------------------------------------------------------
(* Powers of two.                                                          *)

LEMMA Pow2Is ==
  /\ Pow2 \in [Nat -> Nat \ {0}]
  /\ Pow2[0] = 1
  /\ \A e \in Nat : Pow2[e + 1] = 2 * Pow2[e]
<1> DEFINE Run(m, f) == f[0] = 1 /\ \A j \in 1..m : f[j] = 2 * f[j - 1]
           h == [m \in Nat |-> CHOOSE f \in [0..m -> Nat \ {0}] : Run(m, f)]
           G == [e \in Nat |-> h[e][e]]
<1>1. ASSUME NEW m \in Nat PROVE h[m] \in [0..m -> Nat \ {0}] /\ Run(m, h[m])
  <2> DEFINE S == Nat \ {0}
             F == [j \in 1..m |-> [s \in S |-> 2 * s]]
             x == 1
  <2>1. \A j \in 1..m : \A s \in S : F[j][s] = 2 * s
    OBVIOUS
  <2>4. IsLoop(S, x, F, m)
    BY DEF IsLoop
  <2>5. PICK f : IsRun(f, S, x, F, m)
    <3> HIDE DEF F, S, x
    <3> QED BY <2>4, LoopRuns
  <2>3. f \in [0..m -> S] /\ f[0] = x /\ \A j \in 1..m : f[j] = F[j][f[j - 1]]
    BY <2>5 DEF IsRun
  <2>6. ASSUME NEW j \in 1..m PROVE f[j] = 2 * f[j - 1]
    <3>1. j - 1 \in 0..m
      OBVIOUS
    <3> HIDE DEF F
    <3> QED BY <2>1, <2>3, <3>1
  <2>7. Run(m, f)
    BY <2>3, <2>6
  <2> QED BY <2>3, <2>7
<1> HIDE DEF h
<1>2. ASSUME NEW m \in Nat PROVE h[m + 1][m] = h[m][m]
  <2> DEFINE P == {j \in 0..m : h[m + 1][j] = h[m][j]}
  <2>1. Run(m, h[m]) /\ Run(m + 1, h[m + 1])
    <3>1. m + 1 \in Nat
      OBVIOUS
    <3> HIDE DEF Run
    <3> QED BY <1>1, <3>1
  <2>2. 0 \in P
    BY <2>1
  <2>3. ASSUME NEW j \in 0..m, j \in P, j < m PROVE j + 1 \in P
    <3>1. j + 1 \in 1..m /\ j + 1 \in 1..(m + 1) /\ (j + 1) - 1 = j /\ j + 1 \in 0..m
      BY <2>3
    <3> QED BY <2>1, <2>3, <3>1
  <2>4. m \in P
    <3> HIDE DEF P
    <3> QED BY <2>2, <2>3, Steps
  <2> QED BY <2>4
<1>3. G[0] = 1 /\ \A e \in Nat : G[e] \in Nat \ {0}
  BY <1>1
<1>4. ASSUME NEW e \in Nat PROVE G[e + 1] = 2 * G[e]
  <2>1. e + 1 \in 1..(e + 1) /\ (e + 1) - 1 = e /\ e + 1 \in Nat
    OBVIOUS
  <2>2. h[e + 1][e + 1] = 2 * h[e + 1][e]
    BY <1>1, <2>1
  <2> QED BY <1>2, <2>1, <2>2
<1>5. G = [e \in Nat |-> IF e = 0 THEN 1 ELSE 2 * G[e - 1]]
  <2>1. ASSUME NEW e \in Nat PROVE G[e] = IF e = 0 THEN 1 ELSE 2 * G[e - 1]
    <3>1. CASE e = 0
      BY <1>3, <3>1
    <3>2. CASE e # 0
      <4>1. e - 1 \in Nat /\ (e - 1) + 1 = e
        BY <3>2
      <4> HIDE DEF G
      <4> QED BY <1>4, <3>2, <4>1
    <3> QED BY <3>1, <3>2
  <2> QED BY <2>1
<1> HIDE DEF G
<1>6. Pow2 = [e \in Nat |-> IF e = 0 THEN 1 ELSE 2 * Pow2[e - 1]]
  <2>1. Pow2 = CHOOSE g : g = [e \in Nat |-> IF e = 0 THEN 1 ELSE 2 * g[e - 1]]
    BY DEF Pow2
  <2> QED BY <1>5, <2>1
<1>7. Pow2[0] = 1
  BY <1>6
<1>8. ASSUME NEW e \in Nat PROVE Pow2[e + 1] = 2 * Pow2[e]
  <2>1. e + 1 \in Nat /\ e + 1 # 0 /\ (e + 1) - 1 = e
    OBVIOUS
  <2> QED BY <1>6, <2>1
<1>9. \A e \in Nat : Pow2[e] \in Nat \ {0}
  <2> DEFINE P == {e \in Nat : Pow2[e] \in Nat \ {0}}
  <2>1. 0 \in P
    BY <1>7
  <2>2. \A j \in Nat : j \in P => j + 1 \in P
    BY <1>8
  <2> HIDE DEF P
  <2>3. \A j \in Nat : j \in P
    BY <2>1, <2>2, NatSteps
  <2> QED BY <2>3 DEF P
<1>10. Pow2 \in [Nat -> Nat \ {0}]
  BY <1>6, <1>9
<1> QED BY <1>7, <1>8, <1>10

LEMMA Pow2Grows == \A e \in Nat : Pow2[e] > e
<1> DEFINE P == {e \in Nat : Pow2[e] > e}
<1>1. 0 \in P
  BY Pow2Is
<1>2. \A j \in Nat : j \in P => j + 1 \in P
  BY Pow2Is
<1> HIDE DEF P
<1>3. \A j \in Nat : j \in P
  BY <1>1, <1>2, NatSteps
<1> QED BY <1>3 DEF P

(* The smaller of two powers of two divides the larger.                    *)
LEMMA Pow2Divides ==
  ASSUME NEW a \in Nat, NEW b \in Nat, Pow2[a] <= Pow2[b]
  PROVE  \E q \in Nat : Pow2[b] = Pow2[a] * q
<1>1. ASSUME NEW x \in Nat
      PROVE  \A c \in Nat : \E q \in Nat \ {0} : Pow2[x + c] = Pow2[x] * q /\ (c > 0 => q > 1)
  <2> DEFINE P == {c \in Nat : \E q \in Nat \ {0} : Pow2[x + c] = Pow2[x] * q /\ (c > 0 => q > 1)}
  <2>1. 0 \in P
    <3>1. x + 0 = x /\ Pow2[x] = Pow2[x] * 1
      BY Pow2Is
    <3> QED BY <3>1
  <2>2. ASSUME NEW c \in Nat, c \in P PROVE c + 1 \in P
    <3>1. PICK q \in Nat \ {0} : Pow2[x + c] = Pow2[x] * q
      BY <2>2
    <3>2. x + (c + 1) = (x + c) + 1 /\ x + c \in Nat
      OBVIOUS
    <3>3. Pow2[x + (c + 1)] = 2 * Pow2[x + c]
      BY <3>2, Pow2Is
    <3>4. Pow2[x] * (2 * q) = 2 * (Pow2[x] * q)
      BY Pow2Is
    <3>5. 2 * q \in Nat \ {0} /\ 2 * q > 1 /\ Pow2[x + (c + 1)] = Pow2[x] * (2 * q)
      BY <3>1, <3>3, <3>4
    <3> QED BY <3>5
  <2> HIDE DEF P
  <2>3. \A j \in Nat : j \in P
    BY <2>1, <2>2, NatSteps
  <2> QED BY <2>3 DEF P
<1>2. CASE a <= b
  <2>1. b - a \in Nat /\ a + (b - a) = b
    BY <1>2
  <2>2. PICK q \in Nat \ {0} : Pow2[a + (b - a)] = Pow2[a] * q
    BY <1>1, <2>1
  <2> QED BY <2>1, <2>2
<1>3. CASE b < a
  <2>1. a - b \in Nat /\ a - b > 0 /\ b + (a - b) = a
    BY <1>3
  <2>2. PICK q \in Nat \ {0} : Pow2[b + (a - b)] = Pow2[b] * q /\ q > 1
    BY <1>1, <2>1
  <2>3. Pow2[a] = Pow2[b] * q /\ Pow2[b] \in Nat \ {0} /\ q - 1 \in Int /\ q - 1 >= 1
    BY <2>1, <2>2, Pow2Is
  <2>4. Pow2[b] * (q - 1) >= Pow2[b] /\ Pow2[b] * (q - 1) = Pow2[b] * q - Pow2[b] * 1
    BY <2>3, Multiples, Distributes
  <2>5. FALSE
    BY <2>3, <2>4, Pow2Is
  <2> QED BY <2>5
<1> QED BY <1>2, <1>3

LEMMA RoundUpIs ==
  ASSUME NEW n \in Nat
  PROVE  /\ RoundUp(n) \in Nat \ {0} /\ RoundUp(n) >= n
         /\ \E e \in Nat : RoundUp(n) = Pow2[e]
<1> DEFINE T == {p \in {Pow2[e] : e \in 0..n} : p >= n}
<1>1. \A e \in 0..n : e \in Nat /\ Pow2[e] \in Nat
  BY Pow2Is
<1>2. T \in SUBSET Nat
  BY <1>1
<1>3. Pow2[n] \in T
  BY <1>1, Pow2Grows
<1>4. RoundUp(n) \in T
  <2> HIDE DEF T
  <2>1. Least(T) \in T
    BY <1>2, <1>3, LeastIs
  <2> QED BY <2>1 DEF RoundUp, T
<1> QED BY <1>4, Pow2Is

(* The truncated hash of a key points to the same bucket as its hash.      *)
LEMMA TruncatedFits ==
  ASSUME NEW h \in Nat, NEW e \in Nat, Pow2[e] <= MaxBuckets
  PROVE  truncate_hash(h) \in Nat /\ truncate_hash(h) % Pow2[e] = h % Pow2[e]
<1> DEFINE p == Pow2[e]
           T == TruncatedHashes
<1>1. PICK t \in Nat : T = Pow2[t]
  BY HashAssumption
<1>2. p \in Nat \ {0} /\ T \in Nat \ {0} /\ p <= T
  BY <1>1, HashAssumption, Pow2Is
<1>3. PICK q \in Nat : T = p * q
  BY <1>1, <1>2, Pow2Divides
<1> HIDE DEF T, p
<1> DEFINE r == h % T
           d == h \div T
           s == r % p
           u == r \div p
<1>4. d \in Nat /\ r \in Nat /\ h = T * d + r
  <2>1. d \in Nat /\ r \in 0..(T - 1) /\ h = T * d + r
    BY <1>2, DivMod
  <2> HIDE DEF r, d
  <2> QED BY <1>2, <2>1
<1>5. u \in Nat /\ s \in 0..(p - 1) /\ r = p * u + s
  BY <1>2, <1>4, DivMod
<1> HIDE DEF r, d, s, u
<1>6. T * d = p * (q * d) /\ q * d \in Nat
  BY <1>2, <1>3, <1>4
<1>7. h = p * (q * d + u) + s
  <2>1. p * (q * d + u) = p * (q * d) + p * u
    BY <1>2, <1>5, <1>6, Distributes
  <2>2. p * u \in Nat /\ p * (q * d) \in Nat
    BY <1>2, <1>5, <1>6
  <2> QED BY <1>4, <1>5, <1>6, <2>1, <2>2
<1>8. h % p = s
  <2>1. q * d + u \in Nat
    BY <1>5, <1>6
  <2>2. (p * (q * d + u) + s) % p = s
    BY <1>2, <1>5, <2>1, Remainder
  <2> QED BY <1>7, <2>2
<1>9. r % p = s
  BY DEF s
<1> QED BY <1>4, <1>8, <1>9 DEF truncate_hash, r, p, T

-----------------------------------------------------------------------------
(* Buckets: the one d after bucket i, how far i is after h, and the next.  *)

Slots(n) == 0..(n - 1)

At(i, d, n) == IF i + d < n THEN i + d ELSE i + d - n

Off(h, i, n) == IF i >= h THEN i - h ELSE n + i - h

Fwd(i, n) == IF i = n - 1 THEN 0 ELSE i + 1

LEMMA AtIs ==
  ASSUME NEW n \in Nat \ {0}, NEW i \in Slots(n), NEW d \in Slots(n)
  PROVE  /\ At(i, d, n) \in Slots(n)
         /\ Off(i, At(i, d, n), n) = d
         /\ d < n - 1 => Fwd(At(i, d, n), n) = At(i, d + 1, n)
         /\ d = n - 1 => Fwd(At(i, d, n), n) = i
         /\ d = 0 => At(i, d, n) = i
BY DEF Slots, At, Off, Fwd

LEMMA OffIs ==
  ASSUME NEW n \in Nat \ {0}, NEW h \in Slots(n), NEW i \in Slots(n)
  PROVE  /\ Off(h, i, n) \in Slots(n)
         /\ At(h, Off(h, i, n), n) = i
         /\ Off(h, Fwd(i, n), n) = IF Off(h, i, n) = n - 1 THEN 0 ELSE Off(h, i, n) + 1
         /\ (Off(h, i, n) = 0) <=> (i = h)
BY DEF Slots, At, Off, Fwd

LEMMA FwdIs ==
  ASSUME NEW n \in Nat \ {0}, NEW i \in Slots(n)
  PROVE  Fwd(i, n) \in Slots(n) /\ i \in Nat /\ i < n
BY DEF Slots, Fwd

LEMMA AtAt ==
  ASSUME NEW n \in Nat \ {0}, NEW i \in Slots(n), NEW d \in Slots(n), NEW x \in 0..d
  PROVE  At(At(i, x, n), d - x, n) = At(i, d, n)
BY DEF Slots, At

-----------------------------------------------------------------------------
(* Arrays of buckets.                                                      *)

Cell == [index : 0..MaxSize, hash : 0..(TruncatedHashes - 1), full : BOOLEAN]

Tables(n) == [Slots(n) -> Cell]

Home(e, n) == e.hash % n

Away(e, i, n) == Off(Home(e, n), i, n)

(* 0 for an empty bucket, 1 for an entry in its ideal bucket, 2 for one    *)
(* that is one away, and so on.                                            *)
Rank(b, i, n) == IF b[i].full THEN Away(b[i], i, n) + 1 ELSE 0

(* The robin hood order: from one bucket to the next the rank grows by one *)
(* at most.                                                                *)
Ordered(b, n) == \A i \in Slots(n) : Rank(b, Fwd(i, n), n) <= Rank(b, i, n) + 1

LEMMA Numbers ==
  /\ MaxSize \in Nat /\ TruncatedHashes \in Nat \ {0} /\ MaxBuckets \in Nat
  /\ Empty \in Cell /\ ~Empty.full
<1>1. PICK t \in Nat : TruncatedHashes = Pow2[t]
  BY HashAssumption
<1>2. TruncatedHashes \in Nat \ {0}
  BY <1>1, Pow2Is
<1> QED BY <1>2, HashAssumption DEF Cell, Empty

LEMMA SizeIs ==
  ASSUME NEW n \in Nat, NEW b, DOMAIN b = Slots(n)
  PROVE  Size(b) = n
<1>1. n - 1 \in Int
  OBVIOUS
<1>2. Cardinality(0..(n - 1)) = IF 0 > n - 1 THEN 0 ELSE (n - 1) - 0 + 1
  BY <1>1, FS_Interval
<1> QED BY <1>2 DEF Size, Slots

LEMMA CellIs ==
  ASSUME NEW e \in Cell, NEW n \in Nat \ {0}, NEW i \in Slots(n)
  PROVE  /\ e.hash \in Nat /\ e.index \in 0..MaxSize /\ e.full \in BOOLEAN
         /\ Home(e, n) \in Slots(n)
         /\ Away(e, i, n) \in Slots(n)
         /\ At(Home(e, n), Away(e, i, n), n) = i
         /\ Away(e, Fwd(i, n), n) = IF Away(e, i, n) = n - 1 THEN 0 ELSE Away(e, i, n) + 1
<1>1. e.hash \in Nat /\ e.index \in 0..MaxSize /\ e.full \in BOOLEAN
  BY Numbers DEF Cell
<1>2. Home(e, n) \in Slots(n)
  BY <1>1, DivMod DEF Home, Slots
<1> QED BY <1>1, <1>2, OffIs, FwdIs DEF Away

LEMMA RankIs ==
  ASSUME NEW n \in Nat \ {0}, NEW b \in Tables(n), NEW i \in Slots(n)
  PROVE  /\ Rank(b, i, n) \in 0..n
         /\ b[i] \in Cell
         /\ b[i].full => Rank(b, i, n) = Away(b[i], i, n) + 1
         /\ (Rank(b, i, n) = 0) <=> ~b[i].full
<1>1. b[i] \in Cell
  BY DEF Tables
<1>2. Away(b[i], i, n) \in 0..(n - 1)
  BY <1>1, CellIs DEF Slots
<1> QED BY <1>1, <1>2 DEF Rank

(* The operators of the model over an array of n buckets.                  *)
LEMMA TableIs ==
  ASSUME NEW n \in Nat \ {0}, NEW b \in Tables(n), NEW i \in Slots(n)
  PROVE  /\ Size(b) = n /\ DOMAIN b = Slots(n)
         /\ next_bucket(b, i) = Fwd(i, n)
         /\ Distance(b, i) = Away(b[i], i, n)
         /\ \A h \in Nat : bucket_for_hash(b, h) = h % n
<1>1. DOMAIN b = Slots(n) /\ Size(b) = n
  BY SizeIs DEF Tables
<1>2. next_bucket(b, i) = Fwd(i, n)
  <2> DEFINE x == i + 1
  <2>1. i \in 0..(n - 1) /\ x \in 0..(2 * n - 1)
    BY DEF Slots
  <2>2. x % n = IF x < n THEN x ELSE x - n
    <3> HIDE DEF x
    <3> QED BY <2>1, Wrap
  <2>3. x % n = Fwd(i, n)
    BY <2>1, <2>2 DEF Fwd
  <2> QED BY <1>1, <2>3 DEF next_bucket
<1>3. \A h \in Nat : bucket_for_hash(b, h) = h % n
  BY <1>1 DEF bucket_for_hash
<1>4. b[i].hash \in Nat
  BY RankIs, CellIs
<1>5. Distance(b, i) = Away(b[i], i, n)
  BY <1>1, <1>3, <1>4 DEF Distance, Away, Off, Home
<1> QED BY <1>1, <1>2, <1>3, <1>5

LEMMA RobinHoodIs ==
  ASSUME NEW n \in Nat \ {0}, buckets \in Tables(n)
  PROVE  Ordered(buckets, n) => RobinHood
<1> SUFFICES ASSUME Ordered(buckets, n), NEW i \in DOMAIN buckets,
                    buckets[i].full, Distance(buckets, i) > 0
             PROVE  LET j == (i + Size(buckets) - 1) % Size(buckets) IN
                    buckets[j].full /\ Distance(buckets, j) + 1 >= Distance(buckets, i)
  BY DEF RobinHood
<1>1. i \in Slots(n) /\ Size(buckets) = n
  BY SizeIs DEF Tables
<1> DEFINE j == (i + n - 1) % n
<1>2. j = IF i = 0 THEN n - 1 ELSE i - 1
  <2>1. i \in Nat /\ i + n - 1 \in 0..(2 * n - 1)
    BY <1>1 DEF Slots
  <2>2. j = IF i + n - 1 < n THEN i + n - 1 ELSE i + n - 1 - n
    BY <2>1, Wrap
  <2> QED BY <1>1, <2>2 DEF Slots
<1> HIDE DEF j
<1>3. j \in Slots(n) /\ Fwd(j, n) = i
  BY <1>1, <1>2 DEF Slots, Fwd
<1>4. Rank(buckets, i, n) <= Rank(buckets, j, n) + 1
  BY <1>3 DEF Ordered
<1>5. Distance(buckets, i) = Away(buckets[i], i, n) /\ Distance(buckets, j) = Away(buckets[j], j, n)
  BY <1>1, <1>3, TableIs
<1>6. Away(buckets[i], i, n) \in Slots(n) /\ Away(buckets[j], j, n) \in Slots(n)
  BY <1>1, <1>3, RankIs, CellIs
<1>7. Rank(buckets, i, n) = Away(buckets[i], i, n) + 1
  BY <1>1, RankIs
<1>8. buckets[j].full
  <2>1. Rank(buckets, j, n) \in 0..n /\ (Rank(buckets, j, n) = 0 <=> ~buckets[j].full)
    BY <1>3, RankIs
  <2> QED BY <1>4, <1>5, <1>6, <1>7, <2>1 DEF Slots
<1>9. Rank(buckets, j, n) = Away(buckets[j], j, n) + 1
  BY <1>3, <1>8, RankIs
<1>10. buckets[j].full /\ Distance(buckets, j) + 1 >= Distance(buckets, i)
  BY <1>4, <1>5, <1>6, <1>7, <1>8, <1>9 DEF Slots
<1> QED BY <1>1, <1>10 DEF j

(* Over d buckets the rank grows by d at most.                             *)
LEMMA Climb ==
  ASSUME NEW n \in Nat \ {0}, NEW b \in Tables(n), Ordered(b, n), NEW i \in Slots(n)
  PROVE  \A d \in 0..(n - 1) : Rank(b, At(i, d, n), n) <= Rank(b, i, n) + d
<1> DEFINE P == {d \in 0..(n - 1) : Rank(b, At(i, d, n), n) <= Rank(b, i, n) + d}
<1>1. 0 \in P
  <2>1. 0 \in Slots(n) /\ 0 \in 0..(n - 1)
    BY DEF Slots
  <2>2. At(i, 0, n) = i
    BY <2>1, AtIs
  <2>3. Rank(b, i, n) \in 0..n
    BY RankIs
  <2> QED BY <2>1, <2>2, <2>3
<1>2. ASSUME NEW d \in 0..(n - 1), d \in P, d < n - 1 PROVE d + 1 \in P
  <2>1. d \in Slots(n) /\ d + 1 \in 0..(n - 1)
    BY <1>2 DEF Slots
  <2> DEFINE j == At(i, d, n)
  <2>2. j \in Slots(n) /\ Fwd(j, n) = At(i, d + 1, n) /\ Fwd(j, n) \in Slots(n)
    BY <1>2, <2>1, AtIs, FwdIs
  <2>3. Rank(b, Fwd(j, n), n) <= Rank(b, j, n) + 1
    BY <2>2 DEF Ordered
  <2>4. Rank(b, j, n) \in 0..n /\ Rank(b, Fwd(j, n), n) \in 0..n /\ Rank(b, i, n) \in 0..n
    BY <2>2, RankIs
  <2>5. Rank(b, j, n) <= Rank(b, i, n) + d
    BY <1>2
  <2> HIDE DEF j
  <2>6. Rank(b, At(i, d + 1, n), n) <= Rank(b, i, n) + (d + 1)
    BY <2>1, <2>2, <2>3, <2>4, <2>5
  <2> QED BY <2>1, <2>6
<1>3. n - 1 \in Nat
  OBVIOUS
<1>4. \A d \in 0..(n - 1) : d \in P
  <2> HIDE DEF P
  <2> QED BY <1>1, <1>2, <1>3, Steps
<1> QED BY <1>4

(* On the way from its ideal bucket to an entry every bucket is taken by   *)
(* an entry that is not closer to its own.                                 *)
LEMMA Chain ==
  ASSUME NEW n \in Nat \ {0}, NEW b \in Tables(n), Ordered(b, n),
         NEW i \in Slots(n), b[i].full, NEW d \in 0..Away(b[i], i, n)
  PROVE  d \in Slots(n) /\ Rank(b, At(Home(b[i], n), d, n), n) > d
<1> DEFINE D == Away(b[i], i, n)
           h == Home(b[i], n)
           j == At(h, d, n)
<1>1. b[i] \in Cell /\ D \in Slots(n) /\ h \in Slots(n) /\ At(h, D, n) = i
  BY RankIs, CellIs
<1>2. d \in Slots(n) /\ D - d \in 0..(n - 1)
  BY <1>1 DEF Slots
<1>3. j \in Slots(n) /\ At(j, D - d, n) = At(h, D, n)
  <2> HIDE DEF D, h
  <2>1. j \in Slots(n)
    BY <1>1, <1>2, AtIs
  <2>2. d \in 0..D
    BY DEF D
  <2>3. At(At(h, d, n), D - d, n) = At(h, D, n)
    BY <1>1, <2>2, AtAt
  <2> QED BY <2>1, <2>3
<1> HIDE DEF j
<1>4. Rank(b, i, n) <= Rank(b, j, n) + (D - d)
  BY <1>1, <1>2, <1>3, Climb
<1>5. Rank(b, i, n) = D + 1 /\ Rank(b, j, n) \in 0..n
  BY <1>3, RankIs
<1>6. Rank(b, j, n) > d
  BY <1>1, <1>2, <1>4, <1>5 DEF Slots
<1> QED BY <1>2, <1>6 DEF j

(* With an empty bucket somewhere no entry is more than n - 2 away.        *)
LEMMA RankBound ==
  ASSUME NEW n \in Nat \ {0}, NEW b \in Tables(n), Ordered(b, n),
         NEW m \in Slots(n), ~b[m].full, NEW i \in Slots(n)
  PROVE  Rank(b, i, n) <= n - 1
<1>1. Off(m, i, n) \in Slots(n) /\ At(m, Off(m, i, n), n) = i
  BY OffIs
<1>2. Rank(b, m, n) = 0 /\ Rank(b, i, n) \in 0..n
  BY RankIs
<1>3. Rank(b, i, n) <= Rank(b, m, n) + Off(m, i, n)
  BY <1>1, Climb DEF Slots
<1> QED BY <1>1, <1>2, <1>3 DEF Slots

-----------------------------------------------------------------------------
(* Searching.                                                              *)

(* The bucket counts that occur.                                           *)
IsCount(n) == n \in Nat \ {0} /\ n <= MaxBuckets /\ \E e \in Nat : n = Pow2[e]

Entries == Keys \X Vals

(* The entries belong to the values: each to one, with its position and    *)
(* its truncated hash, and every value has one.                            *)
Belongs(b, vs, i) ==
  /\ b[i].index < Len(vs)
  /\ b[i].hash = truncate_hash(Hash[vs[b[i].index + 1][1]])

Distinct(b, n) ==
  \A i, j \in Slots(n) : b[i].full /\ b[j].full /\ b[i].index = b[j].index => i = j

IndexedIn(b, vs, n) ==
  /\ \A i \in Slots(n) : b[i].full => Belongs(b, vs, i)
  /\ Distinct(b, n)
  /\ \A p \in 0..(Len(vs) - 1) : \E i \in Slots(n) : b[i].full /\ b[i].index = p

LEMMA ProbeIs ==
  ASSUME NEW n \in Nat \ {0}, NEW b \in Tables(n), NEW k \in Keys, NEW d \in 0..n
  PROVE  /\ Hash[k] \in Nat /\ Hash[k] % n \in Slots(n)
         /\ Probe(b, k, d) = At(Hash[k] % n, d, n)
         /\ Probe(b, k, d) \in Slots(n)
<1> DEFINE h == Hash[k] % n
           x == h + d
<1>1. Hash[k] \in Nat
  BY HashAssumption
<1>2. h \in 0..(n - 1)
  BY <1>1, DivMod
<1>3. Size(b) = n
  BY SizeIs DEF Tables
<1>4. bucket_for_hash(b, Hash[k]) = h
  BY <1>3 DEF bucket_for_hash
<1> HIDE DEF h
<1>5. x \in 0..(2 * n - 1)
  BY <1>2
<1>6. x % n = IF x < n THEN x ELSE x - n
  <2> HIDE DEF x
  <2> QED BY <1>5, Wrap
<1>7. Probe(b, k, d) = x % n
  BY <1>3, <1>4 DEF Probe
<1>8. x % n = At(h, d, n) /\ At(h, d, n) \in Slots(n)
  BY <1>2, <1>6 DEF At, Slots
<1> QED BY <1>1, <1>2, <1>7, <1>8 DEF h, Slots

LEMMA StopIs ==
  ASSUME NEW n \in Nat \ {0}, NEW b \in Tables(n), NEW vs, NEW k \in Keys
  PROVE  /\ StopAt(b, vs, k) \in 0..n
         /\ LET i == Probe(b, k, StopAt(b, vs, k))
            IN  Matches(b, vs, k, i) \/ StopAt(b, vs, k) >= Rank(b, i, n)
         /\ \A d \in 0..n : d < StopAt(b, vs, k) => Rank(b, Probe(b, k, d), n) > d
         /\ \A d \in 0..n : Matches(b, vs, k, Probe(b, k, d)) => StopAt(b, vs, k) <= d
         /\ \A d \in 0..n : ~b[Probe(b, k, d)].full => StopAt(b, vs, k) <= d
<1> DEFINE Stops == {d \in 0..n : \/ Matches(b, vs, k, Probe(b, k, d))
                                  \/ d >= Rank(b, Probe(b, k, d), n)}
           s == StopAt(b, vs, k)
<1>1. ASSUME NEW d \in 0..n
      PROVE  /\ Rank(b, Probe(b, k, d), n) \in 0..n
             /\ ~b[Probe(b, k, d)].full => Rank(b, Probe(b, k, d), n) = 0
             /\ ~b[Probe(b, k, d)].full \/ d > Distance(b, Probe(b, k, d))
                  <=> d >= Rank(b, Probe(b, k, d), n)
  <2> DEFINE i == Probe(b, k, d)
  <2>1. i \in Slots(n)
    BY ProbeIs
  <2> HIDE DEF i
  <2>2. Distance(b, i) = Away(b[i], i, n) /\ Away(b[i], i, n) \in Slots(n) /\ b[i].full \in BOOLEAN
    BY <2>1, TableIs, RankIs, CellIs
  <2>3. Distance(b, i) \in Nat
    BY <2>2 DEF Slots
  <2>4. Rank(b, i, n) = IF b[i].full THEN Distance(b, i) + 1 ELSE 0
    BY <2>2 DEF Rank
  <2>5. Rank(b, i, n) \in 0..n
    BY <2>1, RankIs
  <2> QED BY <2>2, <2>3, <2>4, <2>5 DEF i
<1>2. Size(b) = n
  BY SizeIs DEF Tables
<1>3. s = Least({d \in 0..n : LET i == Probe(b, k, d) IN
                    ~b[i].full \/ Matches(b, vs, k, i) \/ d > Distance(b, i)})
  BY <1>2 DEF StopAt
<1>4. {d \in 0..n : LET i == Probe(b, k, d) IN
                    ~b[i].full \/ Matches(b, vs, k, i) \/ d > Distance(b, i)} = Stops
  BY <1>1
<1>5. Stops \in SUBSET Nat /\ n \in Stops
  BY <1>1
<1>6. s \in Stops /\ \A y \in Stops : s <= y
  <2> HIDE DEF Stops
  <2> QED BY <1>3, <1>4, <1>5, LeastIs
<1> HIDE DEF s
<1>7. \A d \in 0..n : d < s => Rank(b, Probe(b, k, d), n) > d
  <2> SUFFICES ASSUME NEW d \in 0..n, d < s, ~(Rank(b, Probe(b, k, d), n) > d) PROVE FALSE
    OBVIOUS
  <2>1. d \in Stops
    BY <1>1
  <2> QED BY <1>6, <2>1
<1>8. \A d \in 0..n : Matches(b, vs, k, Probe(b, k, d)) => s <= d
  BY <1>6
<1>9. \A d \in 0..n : ~b[Probe(b, k, d)].full => s <= d
  BY <1>1, <1>6
<1> QED BY <1>6, <1>7, <1>8, <1>9 DEF s

LEMMA HomeOfKey ==
  ASSUME NEW n, IsCount(n), NEW b, NEW vs \in Seq(Entries), NEW i, Belongs(b, vs, i),
         b[i].index \in Nat
  PROVE  /\ b[i].index + 1 \in DOMAIN vs
         /\ vs[b[i].index + 1][1] \in Keys
         /\ Home(b[i], n) = Hash[vs[b[i].index + 1][1]] % n
<1>1. b[i].index + 1 \in DOMAIN vs /\ vs[b[i].index + 1] \in Entries
  BY DEF Belongs
<1>2. vs[b[i].index + 1][1] \in Keys
  BY <1>1 DEF Entries
<1>3. Hash[vs[b[i].index + 1][1]] \in Nat
  BY <1>2, HashAssumption
<1>4. PICK e \in Nat : n = Pow2[e]
  BY DEF IsCount
<1>5. truncate_hash(Hash[vs[b[i].index + 1][1]]) % n = Hash[vs[b[i].index + 1][1]] % n
  BY <1>3, <1>4, TruncatedFits DEF IsCount
<1> QED BY <1>1, <1>2, <1>5 DEF Belongs, Home

(* A search finds the keys that are there and no others.                   *)
LEMMA FindKeyIs ==
  ASSUME NEW n, IsCount(n), NEW b \in Tables(n), Ordered(b, n),
         NEW vs \in Seq(Entries), IndexedIn(b, vs, n), NEW k \in Keys
  PROVE  /\ find_key(b, vs, k) # Size(b) <=> \E p \in DOMAIN vs : vs[p][1] = k
         /\ find_key(b, vs, k) # Size(b) =>
              /\ find_key(b, vs, k) \in Slots(n)
              /\ b[find_key(b, vs, k)].full
              /\ b[find_key(b, vs, k)].index + 1 \in DOMAIN vs
              /\ vs[b[find_key(b, vs, k)].index + 1][1] = k
<1> DEFINE s == StopAt(b, vs, k)
           i == Probe(b, k, s)
<1>1. n \in Nat \ {0} /\ Size(b) = n
  BY SizeIs DEF Tables, IsCount
<1>2. s \in 0..n /\ i \in Slots(n)
  BY <1>1, StopIs, ProbeIs
<1>3. find_key(b, vs, k) = IF b[i].full /\ Matches(b, vs, k, i) THEN i ELSE n
  BY <1>1 DEF find_key
<1>4. n \notin Slots(n)
  BY <1>1 DEF Slots
<1>5. (Matches(b, vs, k, i) \/ s >= Rank(b, i, n)) /\ Rank(b, i, n) \in 0..n
  BY <1>1, <1>2, StopIs, RankIs
<1>6. ASSUME NEW p \in DOMAIN vs, vs[p][1] = k PROVE b[i].full /\ Matches(b, vs, k, i)
  <2>1. p - 1 \in 0..(Len(vs) - 1)
    OBVIOUS
  <2>2. PICK j \in Slots(n) : b[j].full /\ b[j].index = p - 1
    BY <2>1 DEF IndexedIn
  <2>3. Belongs(b, vs, j)
    BY <2>2 DEF IndexedIn
  <2>4. b[j].index + 1 = p /\ b[j].index \in Nat
    BY <2>1, <2>2
  <2>5. Home(b[j], n) = Hash[k] % n
    BY <1>6, <2>3, <2>4, HomeOfKey
  <2>6. Matches(b, vs, k, j)
    BY <1>6, <2>3, <2>4 DEF Matches, Belongs, Map!KeyAt
  <2> DEFINE D == Away(b[j], j, n)
  <2>7. D \in Slots(n) /\ At(Hash[k] % n, D, n) = j
    BY <1>1, <2>5, RankIs, CellIs
  <2>8. D \in 0..n
    BY <1>1, <2>7 DEF Slots
  <2>9. Probe(b, k, D) = j
    BY <1>1, <2>7, <2>8, ProbeIs
  <2> HIDE DEF D
  <2>10. s <= D
    BY <1>1, <2>6, <2>8, <2>9, StopIs
  <2>11. s \in 0..D
    BY <1>2, <2>8, <2>10
  <2>12. Rank(b, At(Home(b[j], n), s, n), n) > s
    BY <1>1, <2>2, <2>11, Chain DEF D
  <2>13. i = At(Home(b[j], n), s, n)
    BY <1>1, <1>2, <2>5, ProbeIs
  <2>14. Rank(b, i, n) > s
    BY <2>12, <2>13
  <2>15. b[i].full
    BY <1>1, <1>2, <1>5, <2>14, RankIs
  <2> HIDE DEF s, i
  <2> QED BY <1>2, <1>5, <2>14, <2>15
<1>7. ASSUME b[i].full, Matches(b, vs, k, i)
      PROVE  b[i].index + 1 \in DOMAIN vs /\ vs[b[i].index + 1][1] = k
  <2>1. b[i] \in Cell
    BY <1>2 DEF Tables
  <2>2. b[i].index \in Nat
    BY <2>1, Numbers DEF Cell
  <2> QED BY <1>7, <2>2 DEF Matches, Map!KeyAt
<1> HIDE DEF i
<1> QED BY <1>1, <1>2, <1>3, <1>4, <1>6, <1>7

-----------------------------------------------------------------------------
(* Inserting.  The entry in hand counts as a bucket n: each step swaps it  *)
(* with a bucket or passes by.                                             *)

Hat(b, e, n) == [x \in 0..n |-> IF x = n THEN e ELSE b[x]]

IsPermutation(g, n) ==
  /\ g \in [0..n -> 0..n]
  /\ \A x, y \in 0..n : g[x] = g[y] => x = y
  /\ \A y \in 0..n : \E x \in 0..n : g[x] = y

(* b and the hand e have the entries of H.                                 *)
Rearranged(b, e, H, n) ==
  \E g : IsPermutation(g, n) /\ \A x \in 0..n : Hat(b, e, n)[x] = H[g[x]]

(* b has the entries of b0 and e0, nothing is in hand.                     *)
Permuted(b0, e0, b, n) ==
  \E g : /\ IsPermutation(g, n)
         /\ \A x \in Slots(n) : b[x] = Hat(b0, e0, n)[g[x]]
         /\ ~Hat(b0, e0, n)[g[n]].full

(* e, which is d away from its ideal bucket, may stay in bucket i: the     *)
(* entry before it is not closer to its own by more than one.              *)
Fits(b, e, i, d, n) ==
  /\ d = Away(e, i, n)
  /\ \A m \in Slots(n) : Fwd(m, n) = i => d <= Rank(b, m, n)

States(n) ==
  [b : Tables(n), e : Cell, i : Slots(n), d : Nat, done : BOOLEAN, grow : BOOLEAN]

Inserting(s, b0, e0, i0, j, n) ==
  /\ s.i = At(i0, j, n)
  /\ s.e.full
  /\ Fits(s.b, s.e, s.i, s.d, n)
  /\ \A x \in Slots(n) : s.b[x].full <=> b0[x].full
  /\ Rearranged(s.b, s.e, Hat(b0, e0, n), n)

LEMMA FwdInjective ==
  ASSUME NEW n \in Nat \ {0}, NEW i \in Slots(n), NEW m \in Slots(n), Fwd(m, n) = Fwd(i, n)
  PROVE  m = i
BY DEF Fwd, Slots

LEMMA PutRank ==
  ASSUME NEW n \in Nat \ {0}, NEW b \in Tables(n), NEW i \in Slots(n), NEW e \in Cell, e.full,
         NEW m \in Slots(n)
  PROVE  /\ [b EXCEPT ![i] = e] \in Tables(n)
         /\ Rank([b EXCEPT ![i] = e], m, n) = IF m = i THEN Away(e, i, n) + 1 ELSE Rank(b, m, n)
BY DEF Tables, Rank

(* The entry takes the bucket of one that is closer to its own.            *)
LEMMA PutOrdered ==
  ASSUME NEW n \in Nat \ {0}, NEW b \in Tables(n), Ordered(b, n), NEW i \in Slots(n),
         NEW e \in Cell, e.full, NEW d, Fits(b, e, i, d, n), Rank(b, i, n) <= d
  PROVE  Ordered([b EXCEPT ![i] = e], n)
<1> DEFINE c == [b EXCEPT ![i] = e]
<1> HIDE DEF c
<1> SUFFICES ASSUME NEW x \in Slots(n)
             PROVE  Rank(c, Fwd(x, n), n) <= Rank(c, x, n) + 1
  BY DEF Ordered, c
<1>1. Fwd(x, n) \in Slots(n) /\ Rank(b, Fwd(x, n), n) <= Rank(b, x, n) + 1
  BY FwdIs DEF Ordered
<1>2. Rank(c, x, n) = IF x = i THEN d + 1 ELSE Rank(b, x, n)
  BY PutRank DEF c, Fits
<1>3. Rank(c, Fwd(x, n), n) = IF Fwd(x, n) = i THEN d + 1 ELSE Rank(b, Fwd(x, n), n)
  BY <1>1, PutRank DEF c, Fits
<1>4. Rank(b, x, n) \in 0..n /\ Rank(b, Fwd(x, n), n) \in 0..n /\ Rank(b, i, n) \in 0..n
  BY <1>1, RankIs
<1>5. d \in 0..(n - 1)
  BY CellIs DEF Fits, Slots
<1>6. Fwd(x, n) = i => d <= Rank(b, x, n)
  BY DEF Fits
<1> QED BY <1>1, <1>2, <1>3, <1>4, <1>5, <1>6

LEMMA Swapped ==
  ASSUME NEW n \in Nat \ {0}, NEW b \in Tables(n), NEW e, NEW H, NEW i \in Slots(n),
         Rearranged(b, e, H, n)
  PROVE  Rearranged([b EXCEPT ![i] = e], b[i], H, n)
<1>1. PICK g : IsPermutation(g, n) /\ \A x \in 0..n : Hat(b, e, n)[x] = H[g[x]]
  BY DEF Rearranged
<1> DEFINE b1 == [b EXCEPT ![i] = e]
           f == [x \in 0..n |-> IF x = i THEN g[n] ELSE IF x = n THEN g[i] ELSE g[x]]
<1>2. i \in 0..n /\ n \in 0..n /\ i # n
  BY DEF Slots
<1>3. f \in [0..n -> 0..n]
  BY <1>1, <1>2 DEF IsPermutation
<1>4. f[i] = g[n] /\ f[n] = g[i] /\ \A x \in 0..n : x # i /\ x # n => f[x] = g[x]
  BY <1>2
<1>10. \A x \in Slots(n) : b1[x] = IF x = i THEN e ELSE b[x]
  BY DEF Tables
<1> HIDE DEF f, b1
<1>5. ASSUME NEW x \in 0..n, NEW y \in 0..n, f[x] = f[y] PROVE x = y
  <2>1. \A u, w \in 0..n : g[u] = g[w] => u = w
    BY <1>1 DEF IsPermutation
  <2>2. CASE x = i
    BY <1>2, <1>4, <1>5, <2>1, <2>2
  <2>3. CASE x = n
    BY <1>2, <1>4, <1>5, <2>1, <2>3
  <2>4. CASE x # i /\ x # n
    BY <1>2, <1>4, <1>5, <2>1, <2>4
  <2> QED BY <2>2, <2>3, <2>4
<1>6. ASSUME NEW y \in 0..n PROVE \E x \in 0..n : f[x] = y
  <2>1. PICK x \in 0..n : g[x] = y
    BY <1>1 DEF IsPermutation
  <2> QED BY <1>2, <1>4, <2>1
<1>7. ASSUME NEW x \in 0..n PROVE Hat(b1, b[i], n)[x] = H[f[x]]
  <2>1. Hat(b, e, n)[i] = b[i] /\ Hat(b, e, n)[n] = e
    BY <1>2 DEF Hat
  <2>2. CASE x = i
    BY <1>1, <1>2, <1>4, <1>10, <2>1, <2>2 DEF Hat
  <2>3. CASE x = n
    BY <1>1, <1>2, <1>4, <2>1, <2>3 DEF Hat
  <2>4. CASE x # i /\ x # n
    <3>1. x \in Slots(n)
      BY <2>4 DEF Slots
    <3>2. Hat(b1, b[i], n)[x] = b[x] /\ Hat(b, e, n)[x] = b[x]
      BY <1>10, <2>4, <3>1 DEF Hat
    <3> QED BY <1>1, <1>4, <2>4, <3>2
  <2> QED BY <2>2, <2>3, <2>4
<1>8. IsPermutation(f, n)
  BY <1>3, <1>5, <1>6 DEF IsPermutation
<1> QED BY <1>7, <1>8 DEF Rearranged, b1

LEMMA InsertStepType ==
  ASSUME NEW n \in Nat \ {0}, NEW s \in States(n), NEW v
  PROVE  insert_step(s, v) \in States(n)
<1> DEFINE dist == Distance(s.b, s.i)
           t == insert_step(s, v)
<1>1. s.b \in Tables(n) /\ s.i \in Slots(n) /\ s.e \in Cell /\ s.d \in Nat
  BY DEF States
<1>2. dist \in Nat /\ s.b[s.i] \in Cell /\ next_bucket(s.b, s.i) \in Slots(n)
  <2>1. dist = Away(s.b[s.i], s.i, n) /\ s.b[s.i] \in Cell /\ next_bucket(s.b, s.i) = Fwd(s.i, n)
    BY <1>1, TableIs, RankIs
  <2>2. Away(s.b[s.i], s.i, n) \in Slots(n) /\ Fwd(s.i, n) \in Slots(n)
    BY <1>1, <2>1, CellIs, FwdIs
  <2> QED BY <2>1, <2>2 DEF Slots
<1>3. [s.b EXCEPT ![s.i] = s.e] \in Tables(n)
  BY <1>1 DEF Tables
<1> HIDE DEF dist
<1>4. CASE s.done
  BY <1>4 DEF insert_step
<1>5. CASE ~s.done /\ ~s.b[s.i].full
  <2>1. t = [b |-> [s.b EXCEPT ![s.i] = s.e], e |-> s.e, i |-> s.i, d |-> s.d,
             done |-> TRUE, grow |-> s.grow]
    BY <1>5 DEF insert_step
  <2> QED BY <1>1, <1>3, <2>1 DEF States
<1>6. CASE ~s.done /\ s.b[s.i].full
  <2> DEFINE rich == s.d > dist
             d1 == (IF rich THEN dist ELSE s.d) + 1
             g1 == s.grow \/ (d1 > NPROBES /\ v * 100 >= MinLoad * Size(s.b))
  <2>1. t = [b    |-> IF rich THEN [s.b EXCEPT ![s.i] = s.e] ELSE s.b,
             e    |-> IF rich THEN s.b[s.i] ELSE s.e,
             i    |-> next_bucket(s.b, s.i),
             d    |-> d1,
             done |-> FALSE,
             grow |-> g1]
    BY <1>6 DEF insert_step, dist
  <2>2. d1 \in Nat
    BY <1>1, <1>2
  <2>3. g1 \in BOOLEAN
    OBVIOUS
  <2> HIDE DEF d1, g1
  <2> QED BY <1>1, <1>2, <1>3, <2>1, <2>2, <2>3 DEF States
<1> QED BY <1>4, <1>5, <1>6

(* A step that goes on.                                                    *)
LEMMA InsertStepOn ==
  ASSUME NEW n \in Nat \ {0}, NEW b0, NEW e0, NEW i0 \in Slots(n), NEW j \in Slots(n), NEW v,
         NEW m \in Slots(n), ~b0[m].full,
         NEW s \in States(n), ~s.done, s.b[s.i].full, Ordered(s.b, n), j < n - 1,
         Inserting(s, b0, e0, i0, j, n)
  PROVE  /\ Ordered(insert_step(s, v).b, n)
         /\ ~insert_step(s, v).done
         /\ Inserting(insert_step(s, v), b0, e0, i0, j + 1, n)
<1> DEFINE t == insert_step(s, v)
           D == Away(s.b[s.i], s.i, n)
           H == Hat(b0, e0, n)
<1>1. /\ s.b \in Tables(n) /\ s.i \in Slots(n) /\ s.e \in Cell /\ s.d \in Nat
      /\ s.b[s.i] \in Cell
  BY DEF States, Tables
<1>2. D \in Slots(n) /\ Rank(s.b, s.i, n) = D + 1 /\ Distance(s.b, s.i) = D
  <2>1. D \in Slots(n)
    BY <1>1, CellIs
  <2>2. Rank(s.b, s.i, n) = D + 1
    BY <1>1, RankIs
  <2>3. Distance(s.b, s.i) = D
    BY <1>1, TableIs
  <2> QED BY <2>1, <2>2, <2>3
<1>3. next_bucket(s.b, s.i) = Fwd(s.i, n)
  BY <1>1, TableIs
<1>4. /\ s.i = At(i0, j, n) /\ s.e.full /\ Fits(s.b, s.e, s.i, s.d, n)
      /\ \A x \in Slots(n) : s.b[x].full <=> b0[x].full
      /\ Rearranged(s.b, s.e, H, n)
  BY DEF Inserting
<1>5. s.d \in Slots(n) /\ s.d = Away(s.e, s.i, n)
  BY <1>1, <1>4, CellIs DEF Fits
<1>6. Fwd(s.i, n) = At(i0, j + 1, n)
  BY <1>4, AtIs DEF Slots
<1>7. ~s.b[m].full
  BY <1>4
<1>8. D + 1 <= n - 1
  BY <1>1, <1>2, <1>7, RankBound
<1> HIDE DEF D, H
<1>9. CASE s.d > D
  <2> DEFINE c == [s.b EXCEPT ![s.i] = s.e]
  <2>1. /\ t.b = c /\ t.e = s.b[s.i] /\ t.i = Fwd(s.i, n) /\ t.d = D + 1 /\ ~t.done
    BY <1>2, <1>3, <1>9 DEF insert_step
  <2>2. Rank(s.b, s.i, n) <= s.d
    BY <1>2, <1>5, <1>9 DEF Slots
  <2>3. Ordered(c, n)
    BY <1>1, <1>4, <2>2, PutOrdered
  <2>4. \A x \in Slots(n) : c[x] = IF x = s.i THEN s.e ELSE s.b[x]
    BY <1>1 DEF Tables
  <2>5. \A x \in Slots(n) : c[x].full <=> b0[x].full
    BY <1>1, <1>4, <2>4
  <2>6. Rearranged(c, s.b[s.i], H, n)
    BY <1>1, <1>4, Swapped
  <2>7. Rank(c, s.i, n) = s.d + 1
    BY <1>1, <1>4, <1>5, PutRank
  <2> HIDE DEF c
  <2>8. Away(s.b[s.i], Fwd(s.i, n), n) = D + 1
    BY <1>1, <1>2, <1>8, CellIs DEF D, Slots
  <2>9. ASSUME NEW x \in Slots(n), Fwd(x, n) = Fwd(s.i, n) PROVE D + 1 <= Rank(c, x, n)
    <3>1. x = s.i
      BY <1>1, <2>9, FwdInjective
    <3> QED BY <1>2, <1>5, <1>9, <2>7, <3>1 DEF Slots
  <2>10. Fits(c, s.b[s.i], Fwd(s.i, n), D + 1, n)
    BY <2>8, <2>9 DEF Fits
  <2> HIDE DEF t
  <2>11. Inserting(t, b0, e0, i0, j + 1, n)
    BY <1>6, <2>1, <2>5, <2>6, <2>10 DEF Inserting, H
  <2> QED BY <2>1, <2>3, <2>11 DEF t
<1>10. CASE ~(s.d > D)
  <2>1. /\ t.b = s.b /\ t.e = s.e /\ t.i = Fwd(s.i, n) /\ t.d = s.d + 1 /\ ~t.done
    BY <1>2, <1>3, <1>10 DEF insert_step
  <2>2. s.d + 1 <= Rank(s.b, s.i, n) /\ s.d # n - 1
    BY <1>2, <1>5, <1>8, <1>10 DEF Slots
  <2>3. Away(s.e, Fwd(s.i, n), n) = s.d + 1
    BY <1>1, <1>5, <2>2, CellIs
  <2>4. ASSUME NEW x \in Slots(n), Fwd(x, n) = Fwd(s.i, n) PROVE s.d + 1 <= Rank(s.b, x, n)
    BY <1>1, <2>2, <2>4, FwdInjective
  <2>5. Fits(s.b, s.e, Fwd(s.i, n), s.d + 1, n)
    BY <2>3, <2>4 DEF Fits
  <2> HIDE DEF t
  <2>6. Inserting(t, b0, e0, i0, j + 1, n)
    BY <1>4, <1>6, <2>1, <2>5 DEF Inserting, H
  <2> QED BY <2>1, <2>6 DEF t
<1> QED BY <1>9, <1>10

(* The last step.                                                          *)
LEMMA InsertStepDone ==
  ASSUME NEW n \in Nat \ {0}, NEW b0, NEW e0, NEW i0 \in Slots(n), NEW j, NEW v,
         NEW s \in States(n), ~s.done, ~s.b[s.i].full, Ordered(s.b, n),
         Inserting(s, b0, e0, i0, j, n)
  PROVE  /\ Ordered(insert_step(s, v).b, n)
         /\ insert_step(s, v).done
         /\ Permuted(b0, e0, insert_step(s, v).b, n)
<1> DEFINE c == [s.b EXCEPT ![s.i] = s.e]
           H == Hat(b0, e0, n)
<1>1. s.b \in Tables(n) /\ s.i \in Slots(n) /\ s.e \in Cell /\ s.d \in Nat
  BY DEF States
<1>2. insert_step(s, v).b = c /\ insert_step(s, v).done
  BY DEF insert_step
<1>3. Rank(s.b, s.i, n) <= s.d
  <2>1. Rank(s.b, s.i, n) = 0
    BY <1>1, RankIs
  <2> QED BY <1>1, <2>1
<1>4. s.e.full /\ Fits(s.b, s.e, s.i, s.d, n)
  BY DEF Inserting
<1>5. Ordered(c, n)
  BY <1>1, <1>3, <1>4, PutOrdered
<1>6. \A x \in Slots(n) : c[x] = IF x = s.i THEN s.e ELSE s.b[x]
  BY <1>1 DEF Tables
<1>7. Rearranged(s.b, s.e, H, n)
  BY DEF Inserting
<1>8. Rearranged(c, s.b[s.i], H, n)
  <2> HIDE DEF H
  <2> QED BY <1>1, <1>7, Swapped
<1>9. PICK g : IsPermutation(g, n) /\ \A x \in 0..n : Hat(c, s.b[s.i], n)[x] = H[g[x]]
  BY <1>8 DEF Rearranged
<1> HIDE DEF c, H
<1>10. ~H[g[n]].full
  <2>1. n \in 0..n /\ Hat(c, s.b[s.i], n)[n] = s.b[s.i]
    BY DEF Hat
  <2> QED BY <1>9, <2>1
<1>11. \A x \in Slots(n) : c[x] = H[g[x]]
  <2> SUFFICES ASSUME NEW x \in Slots(n) PROVE c[x] = H[g[x]]
    OBVIOUS
  <2>1. x \in 0..n /\ x # n
    BY DEF Slots
  <2>2. Hat(c, s.b[s.i], n)[x] = c[x]
    BY <2>1 DEF Hat
  <2> QED BY <1>9, <2>1, <2>2
<1>12. Permuted(b0, e0, c, n)
  BY <1>9, <1>10, <1>11 DEF Permuted, H
<1> QED BY <1>2, <1>5, <1>12 DEF c

LEMMA Identity ==
  ASSUME NEW n \in Nat, NEW b, NEW e
  PROVE  Rearranged(b, e, Hat(b, e, n), n)
<1> DEFINE g == [x \in 0..n |-> x]
<1>1. IsPermutation(g, n)
  BY DEF IsPermutation
<1>2. \A x \in 0..n : Hat(b, e, n)[x] = Hat(b, e, n)[g[x]]
  OBVIOUS
<1> QED BY <1>1, <1>2 DEF Rearranged

(* The states that insert_index goes through.                              *)
IsInsertRun(r, b0, i0, d0, e0, v, n) ==
  /\ insert_index(b0, i0, d0, e0, v) = r[n]
  /\ r[0] = [b |-> b0, e |-> e0, i |-> i0, d |-> d0, done |-> FALSE, grow |-> FALSE]
  /\ \A j \in 0..(n - 1) : r[j + 1] = insert_step(r[j], v)
  /\ \A j \in 0..n : r[j] \in States(n)

LEMMA InsertRuns ==
  ASSUME NEW n \in Nat \ {0}, NEW b0 \in Tables(n), NEW e0 \in Cell, NEW i0 \in Slots(n),
         NEW d0 \in Nat, NEW v
  PROVE  \E r : IsInsertRun(r, b0, i0, d0, e0, v, n)
<1> DEFINE S == States(n)
           s0 == [b |-> b0, e |-> e0, i |-> i0, d |-> d0, done |-> FALSE, grow |-> FALSE]
           F == [j \in 1..n |-> [s \in S |-> insert_step(s, v)]]
<1>1. Size(b0) = n
  BY SizeIs DEF Tables
<1>2. s0 \in S
  BY DEF States
<1>3. F \in [1..n -> [S -> S]]
  BY InsertStepType
<1>4. IsLoop(S, s0, F, n)
  BY <1>2, <1>3 DEF IsLoop
<1>5. PICK f : IsRun(f, S, s0, F, n)
  <2> HIDE DEF S, s0, F
  <2> QED BY <1>4, LoopRuns
<1>6. f \in [0..n -> S] /\ f[0] = s0 /\ \A j \in 1..n : f[j] = F[j][f[j - 1]]
  BY <1>5 DEF IsRun
<1>7. \A j \in 1..n : f[j] = insert_step(f[j - 1], v)
  <2> SUFFICES ASSUME NEW j \in 1..n PROVE f[j] = insert_step(f[j - 1], v)
    OBVIOUS
  <2>1. j - 1 \in 0..n
    OBVIOUS
  <2>2. f[j - 1] \in S /\ f[j] = F[j][f[j - 1]]
    BY <1>6, <2>1
  <2> QED BY <2>2
<1> HIDE DEF s0, F
<1>8. f = [j \in 0..n |-> IF j = 0 THEN s0 ELSE insert_step(f[j - 1], v)]
  BY <1>6, <1>7
<1> DEFINE r == CHOOSE g : g = [j \in 0..n |-> IF j = 0 THEN s0 ELSE insert_step(g[j - 1], v)]
<1>9. r = [j \in 0..n |-> IF j = 0 THEN s0 ELSE insert_step(r[j - 1], v)]
  BY <1>8
<1>10. insert_index(b0, i0, d0, e0, v) = r[n]
  BY <1>1 DEF insert_index, s0
<1> HIDE DEF r
<1>11. r[0] = s0
  BY <1>9
<1>12. \A j \in 0..(n - 1) : r[j + 1] = insert_step(r[j], v)
  <2> SUFFICES ASSUME NEW j \in 0..(n - 1) PROVE r[j + 1] = insert_step(r[j], v)
    OBVIOUS
  <2>1. j + 1 \in 0..n /\ j + 1 # 0 /\ (j + 1) - 1 = j
    OBVIOUS
  <2> QED BY <1>9, <2>1
<1>13. \A j \in 0..n : r[j] \in States(n)
  <2> DEFINE P == {j \in 0..n : r[j] \in States(n)}
  <2>1. 0 \in P
    BY <1>2, <1>11
  <2>2. \A j \in 0..n : j \in P /\ j < n => j + 1 \in P
    BY <1>12, InsertStepType
  <2>3. \A j \in 0..n : j \in P
    <3> HIDE DEF P
    <3> QED BY <2>1, <2>2, Steps
  <2> QED BY <2>3
<1> QED BY <1>10, <1>11, <1>12, <1>13 DEF s0, IsInsertRun

LEMMA InsertIndexType ==
  ASSUME NEW n \in Nat \ {0}, NEW b0 \in Tables(n), NEW e0 \in Cell, NEW i0 \in Slots(n),
         NEW d0 \in Nat, NEW v
  PROVE  /\ insert_index(b0, i0, d0, e0, v).b \in Tables(n)
         /\ insert_index(b0, i0, d0, e0, v).grow \in BOOLEAN
<1>1. PICK r : IsInsertRun(r, b0, i0, d0, e0, v, n)
  BY InsertRuns
<1>2. insert_index(b0, i0, d0, e0, v) \in States(n)
  <2>1. n \in 0..n
    OBVIOUS
  <2> QED BY <1>1, <2>1 DEF IsInsertRun
<1> QED BY <1>2 DEF States

(* insert_index keeps the order and loses nothing, when it starts where    *)
(* the entry fits and there is an empty bucket.                            *)
LEMMA InsertIndexIs ==
  ASSUME NEW n \in Nat \ {0}, NEW b0 \in Tables(n), Ordered(b0, n), NEW e0 \in Cell, e0.full,
         NEW i0 \in Slots(n), NEW d0, Fits(b0, e0, i0, d0, n),
         NEW m \in Slots(n), ~b0[m].full, NEW v
  PROVE  /\ Ordered(insert_index(b0, i0, d0, e0, v).b, n)
         /\ Permuted(b0, e0, insert_index(b0, i0, d0, e0, v).b, n)
<1> DEFINE s0 == [b |-> b0, e |-> e0, i |-> i0, d |-> d0, done |-> FALSE, grow |-> FALSE]
           t == Off(i0, m, n)
<1>1. d0 \in Nat
  BY CellIs DEF Fits, Slots
<1>2. PICK r : /\ insert_index(b0, i0, d0, e0, v) = r[n]
               /\ r[0] = s0
               /\ \A j \in 0..(n - 1) : r[j + 1] = insert_step(r[j], v)
               /\ \A j \in 0..n : r[j] \in States(n)
  <2>1. PICK r : IsInsertRun(r, b0, i0, d0, e0, v, n)
    BY <1>1, InsertRuns
  <2> QED BY <2>1 DEF IsInsertRun
<1>3. t \in Slots(n) /\ At(i0, t, n) = m
  BY OffIs
<1>4. t \in 0..(n - 1)
  <2> HIDE DEF t
  <2> QED BY <1>3 DEF Slots
<1> DEFINE P == {j \in 0..n : /\ Ordered(r[j].b, n)
                              /\ \/ r[j].done /\ Permuted(b0, e0, r[j].b, n)
                                 \/ ~r[j].done /\ j <= t /\ Inserting(r[j], b0, e0, i0, j, n)}
<1>5. 0 \in P
  <2> DEFINE s == r[0]
  <2>1. s.b = b0 /\ s.e = e0 /\ s.i = i0 /\ s.d = d0 /\ ~s.done
    BY <1>2
  <2> HIDE DEF s
  <2>2. 0 \in Slots(n) /\ At(i0, 0, n) = i0
    BY AtIs DEF Slots
  <2>3. Inserting(s, b0, e0, i0, 0, n)
    BY <2>1, <2>2, Identity DEF Inserting
  <2>4. Ordered(s.b, n) /\ 0 <= t /\ 0 \in 0..n
    BY <1>4, <2>1
  <2> QED BY <2>1, <2>3, <2>4 DEF s
<1>6. ASSUME NEW j \in 0..n, j \in P, j < n PROVE j + 1 \in P
  <2>1. r[j + 1] = insert_step(r[j], v) /\ j + 1 \in 0..n
    BY <1>2, <1>6
  <2>2. r[j] \in States(n) /\ Ordered(r[j].b, n)
    BY <1>2, <1>6
  <2>3. CASE r[j].done
    <3>1. r[j + 1] = r[j] /\ Permuted(b0, e0, r[j].b, n)
      BY <1>6, <2>1, <2>3 DEF insert_step
    <3> QED BY <2>1, <2>2, <2>3, <3>1
  <2>4. CASE ~r[j].done /\ ~r[j].b[r[j].i].full
    <3>1. Inserting(r[j], b0, e0, i0, j, n)
      BY <1>6, <2>4
    <3>2. Ordered(r[j + 1].b, n) /\ r[j + 1].done /\ Permuted(b0, e0, r[j + 1].b, n)
      BY <2>1, <2>2, <2>4, <3>1, InsertStepDone
    <3> QED BY <2>1, <3>2
  <2>5. CASE ~r[j].done /\ r[j].b[r[j].i].full
    <3>1. Inserting(r[j], b0, e0, i0, j, n) /\ j <= t
      BY <1>6, <2>5
    <3>2. r[j].i # m
      <4>1. ~r[j].b[m].full
        BY <3>1 DEF Inserting
      <4> QED BY <2>5, <4>1
    <3>3. j # t
      BY <1>3, <3>1, <3>2 DEF Inserting
    <3> HIDE DEF t
    <3>4. j < n - 1 /\ j \in Slots(n) /\ j + 1 <= t
      BY <1>4, <1>6, <3>1, <3>3 DEF Slots
    <3>5. /\ Ordered(r[j + 1].b, n) /\ ~r[j + 1].done
          /\ Inserting(r[j + 1], b0, e0, i0, j + 1, n)
      BY <2>1, <2>2, <2>5, <3>1, <3>4, InsertStepOn
    <3> QED BY <2>1, <3>4, <3>5
  <2> QED BY <2>3, <2>4, <2>5
<1>7. n \in P
  <2>1. \A j \in 0..n : j \in P
    <3> HIDE DEF P
    <3> QED BY <1>5, <1>6, Steps
  <2> QED BY <2>1
<1>8. Ordered(r[n].b, n) /\ Permuted(b0, e0, r[n].b, n)
  <2> HIDE DEF t
  <2> QED BY <1>4, <1>7
<1> QED BY <1>2, <1>8

(* What insertion holds on to.                                             *)
LEMMA PermutedHolds ==
  ASSUME NEW n \in Nat \ {0}, NEW b0, NEW e0, e0.full, NEW b, Permuted(b0, e0, b, n)
  PROVE  /\ \A x \in Slots(n) : b[x].full =>
              b[x] = e0 \/ \E y \in Slots(n) : b0[y].full /\ b[x] = b0[y]
         /\ \A y \in Slots(n) : b0[y].full => \E x \in Slots(n) : b[x] = b0[y]
         /\ \E x \in Slots(n) : b[x] = e0
         /\ Distinct(b0, n) /\ (\A y \in Slots(n) : b0[y].full => b0[y].index # e0.index)
              => Distinct(b, n)
<1> DEFINE H == Hat(b0, e0, n)
<1>1. PICK g : /\ IsPermutation(g, n)
               /\ \A x \in Slots(n) : b[x] = H[g[x]]
               /\ ~H[g[n]].full
  BY DEF Permuted
<1>2. H[n] = e0 /\ \A y \in Slots(n) : H[y] = b0[y] /\ y \in 0..n /\ y # n
  BY DEF Hat, Slots
<1>3. \A y \in 0..n : y = n \/ y \in Slots(n)
  BY DEF Slots
<1> HIDE DEF H
<1>4. n \in 0..n
  OBVIOUS
<1>5. ASSUME NEW x \in Slots(n), b[x].full
      PROVE  b[x] = e0 \/ \E y \in Slots(n) : b0[y].full /\ b[x] = b0[y]
  <2>1. g[x] \in 0..n /\ b[x] = H[g[x]]
    BY <1>1, <1>2 DEF IsPermutation
  <2> QED BY <1>2, <1>3, <1>5, <2>1
<1>6. ASSUME NEW y \in 0..n, H[y].full PROVE \E x \in Slots(n) : b[x] = H[y] /\ g[x] = y
  <2>1. PICK x \in 0..n : g[x] = y
    BY <1>1 DEF IsPermutation
  <2>2. x \in Slots(n)
    BY <1>1, <1>3, <1>6, <2>1
  <2> QED BY <1>1, <2>1, <2>2
<1>7. \E x \in Slots(n) : b[x] = e0
  BY <1>2, <1>4, <1>6
<1>8. ASSUME NEW y \in Slots(n), b0[y].full PROVE \E x \in Slots(n) : b[x] = b0[y]
  BY <1>2, <1>6, <1>8
<1>9. ASSUME Distinct(b0, n), \A y \in Slots(n) : b0[y].full => b0[y].index # e0.index
      PROVE  Distinct(b, n)
  <2> SUFFICES ASSUME NEW i \in Slots(n), NEW j \in Slots(n), b[i].full, b[j].full,
                      b[i].index = b[j].index
               PROVE  i = j
    BY DEF Distinct
  <2>1. /\ g[i] \in 0..n /\ g[j] \in 0..n /\ i \in 0..n /\ j \in 0..n
        /\ b[i] = H[g[i]] /\ b[j] = H[g[j]]
    BY <1>1, <1>2 DEF IsPermutation
  <2>2. g[i] = g[j]
    <3>1. CASE g[i] = n /\ g[j] = n
      BY <3>1
    <3>2. CASE g[i] = n /\ g[j] \in Slots(n)
      BY <1>2, <1>9, <2>1, <3>2
    <3>3. CASE g[i] \in Slots(n) /\ g[j] = n
      BY <1>2, <1>9, <2>1, <3>3
    <3>4. CASE g[i] \in Slots(n) /\ g[j] \in Slots(n)
      BY <1>2, <1>9, <2>1, <3>4 DEF Distinct
    <3> QED BY <1>3, <2>1, <3>1, <3>2, <3>3, <3>4
  <2> QED BY <1>1, <2>1, <2>2 DEF IsPermutation
<1> QED BY <1>5, <1>7, <1>8, <1>9

(* With fewer indexes than buckets, and no index twice, a bucket is free.  *)
LEMMA RoomIs ==
  ASSUME NEW n \in Nat \ {0}, NEW b, Distinct(b, n), NEW T, IsFiniteSet(T), Cardinality(T) < n,
         \A x \in Slots(n) : b[x].full => b[x].index \in T
  PROVE  \E m \in Slots(n) : ~b[m].full
<1> SUFFICES ASSUME \A m \in Slots(n) : b[m].full PROVE FALSE
  OBVIOUS
<1> DEFINE f == [x \in Slots(n) |-> b[x].index]
<1>1. f \in Injection(Slots(n), T)
  BY DEF Injection, IsInjective, Distinct
<1>2. Cardinality(Slots(n)) <= Cardinality(T)
  <2> HIDE DEF f
  <2> QED BY <1>1, FS_Injection
<1>3. Cardinality(0..(n - 1)) = n
  <2>1. n - 1 \in Int /\ 0 \in Int /\ ~(0 > n - 1)
    OBVIOUS
  <2>2. Cardinality(0..(n - 1)) = (n - 1) - 0 + 1
    BY <2>1, FS_Interval
  <2> QED BY <2>2
<1>4. Cardinality(T) \in Nat
  BY FS_CardinalityType
<1> QED BY <1>2, <1>3, <1>4 DEF Slots

LEMMA Below ==
  ASSUME NEW L \in Nat
  PROVE  /\ IsFiniteSet(0..(L - 1)) /\ Cardinality(0..(L - 1)) = L
         /\ \A x \in 0..(L - 1) : /\ IsFiniteSet((0..(L - 1)) \ {x})
                                  /\ Cardinality((0..(L - 1)) \ {x}) = L - 1
<1>1. L - 1 \in Int /\ 0 \in Int
  OBVIOUS
<1>2. IsFiniteSet(0..(L - 1)) /\ Cardinality(0..(L - 1)) = IF 0 > L - 1 THEN 0 ELSE (L - 1) - 0 + 1
  BY <1>1, FS_Interval
<1>3. Cardinality(0..(L - 1)) = L
  BY <1>2
<1>4. ASSUME NEW x \in 0..(L - 1)
      PROVE  /\ IsFiniteSet((0..(L - 1)) \ {x})
             /\ Cardinality((0..(L - 1)) \ {x}) = L - 1
  <2> DEFINE T == 0..(L - 1)
  <2>1. IsFiniteSet(T) /\ x \in T /\ Cardinality(T) = L
    BY <1>2, <1>3
  <2> HIDE DEF T
  <2>2. IsFiniteSet(T \ {x}) /\ Cardinality(T \ {x}) = Cardinality(T) - 1
    BY <2>1, FS_RemoveElement
  <2> QED BY <2>1, <2>2 DEF T
<1> QED BY <1>2, <1>3, <1>4

-----------------------------------------------------------------------------
(* Redistributing.                                                         *)

LEMMA FitsHome ==
  ASSUME NEW c \in Nat \ {0}, NEW t \in Tables(c), NEW e \in Cell
  PROVE  /\ bucket_for_hash(t, e.hash) \in Slots(c)
         /\ Fits(t, e, bucket_for_hash(t, e.hash), 0, c)
<1> DEFINE i == bucket_for_hash(t, e.hash)
<1>1. i = Home(e, c) /\ Home(e, c) \in Slots(c)
  <2>1. Size(t) = c
    BY SizeIs DEF Tables
  <2>2. 0 \in Slots(c)
    BY DEF Slots
  <2> QED BY <2>1, <2>2, CellIs DEF bucket_for_hash, Home
<1> HIDE DEF i
<1>2. Away(e, i, c) = 0
  BY <1>1, OffIs DEF Away
<1>3. \A m \in Slots(c) : 0 <= Rank(t, m, c)
  BY RankIs
<1> QED BY <1>1, <1>2, <1>3 DEF Fits, i

LEMMA RehashStepType ==
  ASSUME NEW c \in Nat \ {0}, NEW t \in Tables(c), NEW n \in Nat, NEW b \in Tables(n),
         NEW j \in Slots(n)
  PROVE  rehash_step(t, b, j) \in Tables(c)
<1>1. b[j] \in Cell
  BY DEF Tables
<1>2. bucket_for_hash(t, b[j].hash) \in Slots(c)
  BY <1>1, FitsHome
<1>3. insert_index(t, bucket_for_hash(t, b[j].hash), 0, b[j], 0).b \in Tables(c)
  BY <1>1, <1>2, InsertIndexType
<1> QED BY <1>3 DEF rehash_step

(* t has the entries of the buckets of b before j.                         *)
HasFirst(t, b, j, n, c) ==
  /\ Ordered(t, c)
  /\ Distinct(t, c)
  /\ \A x \in Slots(c) : t[x].full =>
       \E y \in Slots(n) : y < j /\ b[y].full /\ t[x] = b[y]
  /\ \A y \in Slots(n) : y < j /\ b[y].full => \E x \in Slots(c) : t[x] = b[y]

LEMMA RehashStepIs ==
  ASSUME NEW c \in Nat \ {0}, NEW t \in Tables(c), NEW n \in Nat, NEW b \in Tables(n),
         NEW j \in Slots(n), Distinct(b, n), NEW L \in Nat, L <= c,
         \A y \in Slots(n) : b[y].full => b[y].index \in 0..(L - 1),
         HasFirst(t, b, j, n, c)
  PROVE  HasFirst(rehash_step(t, b, j), b, j + 1, n, c)
<1> DEFINE u == rehash_step(t, b, j)
<1>0. \A y \in Slots(n) : y \in Nat /\ (y < j + 1 <=> y < j \/ y = j)
  BY DEF Slots
<1>1. CASE ~b[j].full
  <2>1. u = t
    BY <1>1 DEF rehash_step
  <2>2. ASSUME NEW x \in Slots(c), t[x].full
        PROVE  \E y \in Slots(n) : y < j + 1 /\ b[y].full /\ t[x] = b[y]
    BY <1>0, <2>2 DEF HasFirst
  <2>3. ASSUME NEW y \in Slots(n), y < j + 1, b[y].full PROVE \E x \in Slots(c) : t[x] = b[y]
    BY <1>0, <1>1, <2>3 DEF HasFirst
  <2> QED BY <2>1, <2>2, <2>3 DEF HasFirst
<1>2. CASE b[j].full
  <2> DEFINE i == bucket_for_hash(t, b[j].hash)
             e == b[j]
             T == (0..(L - 1)) \ {e.index}
  <2>1. e \in Cell /\ i \in Slots(c) /\ Fits(t, e, i, 0, c)
    BY FitsHome DEF Tables
  <2>2. u = insert_index(t, i, 0, e, 0).b
    BY <1>2 DEF rehash_step
  <2>3. \A y \in Slots(n) : y < j /\ b[y].full => b[y].index # e.index
    BY <1>0, <1>2 DEF Distinct, Slots
  <2>4. \A x \in Slots(c) : t[x].full => t[x].index # e.index /\ t[x].index \in T
    BY <2>3 DEF HasFirst
  <2>5. IsFiniteSet(T) /\ Cardinality(T) = L - 1
    <3>1. e.index \in 0..(L - 1)
      BY <1>2
    <3> QED BY <3>1, Below
  <2> HIDE DEF T, e
  <2>6. PICK m \in Slots(c) : ~t[m].full
    <3>1. Cardinality(T) < c
      BY <2>5
    <3> QED BY <2>4, <2>5, <3>1, RoomIs DEF HasFirst
  <2>7. e.full /\ Ordered(t, c) /\ Distinct(t, c)
    BY <1>2 DEF e, HasFirst
  <2> HIDE DEF i
  <2>8. Ordered(u, c) /\ Permuted(t, e, u, c)
    BY <2>1, <2>2, <2>6, <2>7, InsertIndexIs
  <2> HIDE DEF u
  <2>9. Distinct(u, c)
    BY <2>4, <2>7, <2>8, PermutedHolds
  <2>12. /\ \A y \in Slots(c) : t[y].full => \E x \in Slots(c) : u[x] = t[y]
         /\ \E x \in Slots(c) : u[x] = e
    BY <2>7, <2>8, PermutedHolds
  <2>10. ASSUME NEW x \in Slots(c), u[x].full
         PROVE  \E y \in Slots(n) : y < j + 1 /\ b[y].full /\ u[x] = b[y]
    <3>1. u[x] = e \/ \E z \in Slots(c) : t[z].full /\ u[x] = t[z]
      BY <2>7, <2>8, <2>10, PermutedHolds
    <3>2. CASE u[x] = e
      BY <1>0, <1>2, <3>2 DEF e
    <3>3. CASE \E z \in Slots(c) : t[z].full /\ u[x] = t[z]
      BY <1>0, <3>3 DEF HasFirst
    <3> QED BY <3>1, <3>2, <3>3
  <2>11. ASSUME NEW y \in Slots(n), y < j + 1, b[y].full PROVE \E x \in Slots(c) : u[x] = b[y]
    <3>1. CASE y = j
      BY <2>12, <3>1 DEF e
    <3>2. CASE y < j
      <4>1. PICK z \in Slots(c) : t[z] = b[y]
        BY <2>11, <3>2 DEF HasFirst
      <4>2. t[z].full
        BY <2>11, <4>1
      <4>3. \E x \in Slots(c) : u[x] = t[z]
        BY <2>12, <4>2
      <4> QED BY <4>1, <4>3
    <3> QED BY <1>0, <2>11, <3>1, <3>2
  <2> QED BY <2>8, <2>9, <2>10, <2>11 DEF HasFirst, u
<1> QED BY <1>1, <1>2

LEMMA RedistributedRuns ==
  ASSUME NEW c \in Nat \ {0}, NEW n \in Nat, NEW b \in Tables(n)
  PROVE  \E r : /\ Redistributed(b, c) = r[n]
                /\ r[0] = [i \in Slots(c) |-> Empty]
                /\ \A j \in 0..(n - 1) : r[j + 1] = rehash_step(r[j], b, j)
                /\ \A j \in 0..n : r[j] \in Tables(c)
<1> DEFINE S == Tables(c)
           t0 == [i \in 0..(c - 1) |-> Empty]
           F == [j \in 1..n |-> [t \in S |-> rehash_step(t, b, j - 1)]]
<1>1. Size(b) = n
  BY SizeIs DEF Tables
<1>2. t0 \in S
  BY Numbers DEF Tables, Slots
<1>3. \A j \in 1..n : j - 1 \in Slots(n)
  BY DEF Slots
<1>4. F \in [1..n -> [S -> S]]
  BY <1>3, RehashStepType
<1>5. IsLoop(S, t0, F, n)
  BY <1>2, <1>4 DEF IsLoop
<1>6. PICK f : IsRun(f, S, t0, F, n)
  <2> HIDE DEF S, t0, F
  <2> QED BY <1>5, LoopRuns
<1>7. f \in [0..n -> S] /\ f[0] = t0 /\ \A j \in 1..n : f[j] = F[j][f[j - 1]]
  BY <1>6 DEF IsRun
<1>8. \A j \in 1..n : f[j] = rehash_step(f[j - 1], b, j - 1)
  <2> SUFFICES ASSUME NEW j \in 1..n PROVE f[j] = rehash_step(f[j - 1], b, j - 1)
    OBVIOUS
  <2>1. j - 1 \in 0..n
    OBVIOUS
  <2>2. f[j - 1] \in S /\ f[j] = F[j][f[j - 1]]
    BY <1>7, <2>1
  <2> QED BY <2>2
<1> HIDE DEF t0, F
<1>9. f = [j \in 0..n |-> IF j = 0 THEN t0 ELSE rehash_step(f[j - 1], b, j - 1)]
  BY <1>7, <1>8
<1> DEFINE r == CHOOSE g :
                  g = [j \in 0..n |-> IF j = 0 THEN t0 ELSE rehash_step(g[j - 1], b, j - 1)]
<1>10. r = [j \in 0..n |-> IF j = 0 THEN t0 ELSE rehash_step(r[j - 1], b, j - 1)]
  BY <1>9
<1>11. Redistributed(b, c) = r[n]
  BY <1>1 DEF Redistributed, t0
<1> HIDE DEF r
<1>12. r[0] = t0
  BY <1>10
<1>13. \A j \in 0..(n - 1) : r[j + 1] = rehash_step(r[j], b, j)
  <2> SUFFICES ASSUME NEW j \in 0..(n - 1) PROVE r[j + 1] = rehash_step(r[j], b, j)
    OBVIOUS
  <2>1. j + 1 \in 0..n /\ j + 1 # 0 /\ (j + 1) - 1 = j
    OBVIOUS
  <2> QED BY <1>10, <2>1
<1>14. \A j \in 0..n : r[j] \in Tables(c)
  <2> DEFINE P == {j \in 0..n : r[j] \in Tables(c)}
  <2>1. 0 \in P
    BY <1>2, <1>12
  <2>2. ASSUME NEW j \in 0..n, j \in P, j < n PROVE j + 1 \in P
    <3>1. j \in 0..(n - 1) /\ j \in Slots(n) /\ j + 1 \in 0..n
      BY <2>2 DEF Slots
    <3>2. r[j] \in Tables(c)
      BY <2>2
    <3>3. r[j + 1] \in Tables(c)
      BY <1>13, <3>1, <3>2, RehashStepType
    <3> QED BY <3>1, <3>3
  <2>3. \A j \in 0..n : j \in P
    <3> HIDE DEF P
    <3> QED BY <2>1, <2>2, Steps
  <2> QED BY <2>3
<1> QED BY <1>11, <1>12, <1>13, <1>14 DEF t0, Slots

(* Redistribution to at least as many buckets as there are values keeps    *)
(* the entries.                                                            *)
LEMMA RedistributedIs ==
  ASSUME NEW c \in Nat \ {0}, NEW n \in Nat, NEW b \in Tables(n),
         Distinct(b, n), NEW L \in Nat, L <= c,
         \A y \in Slots(n) : b[y].full => b[y].index \in 0..(L - 1)
  PROVE  /\ Redistributed(b, c) \in Tables(c)
         /\ HasFirst(Redistributed(b, c), b, n, n, c)
<1>1. PICK r : /\ Redistributed(b, c) = r[n]
               /\ r[0] = [i \in Slots(c) |-> Empty]
               /\ \A j \in 0..(n - 1) : r[j + 1] = rehash_step(r[j], b, j)
               /\ \A j \in 0..n : r[j] \in Tables(c)
  BY RedistributedRuns
<1> DEFINE P == {j \in 0..n : HasFirst(r[j], b, j, n, c)}
<1>2. 0 \in P
  <2> DEFINE t == r[0]
  <2>1. \A x \in Slots(c) : ~t[x].full
    BY <1>1, Numbers
  <2>2. t \in Tables(c)
    BY <1>1
  <2> HIDE DEF t
  <2>3. \A x \in Slots(c) : Rank(t, x, c) = 0
    BY <2>1 DEF Rank
  <2>4. Ordered(t, c)
    BY <2>3, FwdIs DEF Ordered
  <2>5. \A y \in Slots(n) : ~(y < 0)
    BY DEF Slots
  <2>6. HasFirst(t, b, 0, n, c)
    BY <2>1, <2>4, <2>5 DEF HasFirst, Distinct
  <2> QED BY <2>6 DEF t
<1>3. ASSUME NEW j \in 0..n, j \in P, j < n PROVE j + 1 \in P
  <2>1. j \in Slots(n) /\ j + 1 \in 0..n /\ r[j + 1] = rehash_step(r[j], b, j)
    BY <1>1, <1>3 DEF Slots
  <2>2. r[j] \in Tables(c) /\ HasFirst(r[j], b, j, n, c)
    BY <1>1, <1>3
  <2>3. HasFirst(r[j + 1], b, j + 1, n, c)
    BY <2>1, <2>2, RehashStepIs
  <2> QED BY <2>1, <2>3
<1>4. \A j \in 0..n : j \in P
  <2> HIDE DEF P
  <2> QED BY <1>2, <1>3, Steps
<1>5. n \in 0..n
  OBVIOUS
<1> QED BY <1>1, <1>4, <1>5

LEMMA RehashKeeps ==
  ASSUME NEW c \in Nat \ {0}, NEW n \in Nat, NEW b \in Tables(n), NEW vs \in Seq(Entries),
         IndexedIn(b, vs, n), Len(vs) <= c
  PROVE  /\ Redistributed(b, c) \in Tables(c)
         /\ Ordered(Redistributed(b, c), c)
         /\ IndexedIn(Redistributed(b, c), vs, c)
<1> DEFINE r == Redistributed(b, c)
           L == Len(vs)
<1>1. L \in Nat
  OBVIOUS
<1>2. Distinct(b, n) /\ \A y \in Slots(n) : b[y].full => Belongs(b, vs, y)
  BY DEF IndexedIn
<1>3. \A y \in Slots(n) : b[y].full => b[y].index \in 0..(L - 1)
  <2> SUFFICES ASSUME NEW y \in Slots(n), b[y].full PROVE b[y].index \in 0..(L - 1)
    OBVIOUS
  <2>1. b[y].index < L
    BY <1>2 DEF Belongs
  <2>2. b[y] \in Cell
    BY DEF Tables
  <2>3. b[y].index \in 0..MaxSize
    BY <2>2 DEF Cell
  <2> QED BY <1>1, <2>1, <2>3, Numbers
<1>4. r \in Tables(c) /\ HasFirst(r, b, n, n, c)
  BY <1>1, <1>2, <1>3, RedistributedIs
<1>5. \A y \in Slots(n) : y < n
  BY DEF Slots
<1> HIDE DEF r
<1>6. ASSUME NEW x \in Slots(c), r[x].full PROVE Belongs(r, vs, x)
  <2>1. PICK y \in Slots(n) : b[y].full /\ r[x] = b[y]
    BY <1>4, <1>6 DEF HasFirst
  <2> QED BY <1>2, <2>1 DEF Belongs
<1>7. ASSUME NEW p \in 0..(Len(vs) - 1) PROVE \E x \in Slots(c) : r[x].full /\ r[x].index = p
  <2>1. PICK y \in Slots(n) : b[y].full /\ b[y].index = p
    BY <1>7 DEF IndexedIn
  <2>2. \E x \in Slots(c) : r[x] = b[y]
    BY <1>4, <1>5, <2>1 DEF HasFirst
  <2> QED BY <2>1, <2>2
<1> QED BY <1>4, <1>6, <1>7 DEF HasFirst, IndexedIn, r

-----------------------------------------------------------------------------
(* Shifting back.                                                          *)

LEMMA MovableIs ==
  ASSUME NEW n \in Nat \ {0}, NEW b \in Tables(n), NEW x \in Slots(n)
  PROVE  Movable(b, x) <=> Rank(b, x, n) > 1
<1>1. Distance(b, x) = Away(b[x], x, n) /\ b[x] \in Cell
  BY TableIs, RankIs
<1>2. Away(b[x], x, n) \in Slots(n)
  BY <1>1, CellIs
<1> QED BY <1>1, <1>2 DEF Movable, Rank, Slots

LEMMA ShiftRunIs ==
  ASSUME NEW n \in Nat \ {0}, NEW b \in Tables(n), NEW i \in Slots(n)
  PROVE  /\ ShiftRun(b, i) \in Slots(n)
         /\ ShiftRun(b, i) = n - 1 \/ ~Movable(b, At(i, ShiftRun(b, i) + 1, n))
         /\ \A o \in Slots(n) : o < ShiftRun(b, i) => Movable(b, At(i, o + 1, n))
         /\ \A o \in Slots(n) : o = n - 1 \/ ~Movable(b, At(i, o + 1, n)) => ShiftRun(b, i) <= o
<1> DEFINE T == {o \in Slots(n) : o = n - 1 \/ ~Movable(b, At(i, o + 1, n))}
           r == ShiftRun(b, i)
<1>1. Size(b) = n
  BY SizeIs DEF Tables
<1>2. \A o \in 0..(n - 1) : (i + o + 1) % n = At(i, o + 1, n)
  <2> SUFFICES ASSUME NEW o \in 0..(n - 1) PROVE (i + o + 1) % n = At(i, o + 1, n)
    OBVIOUS
  <2> DEFINE x == i + o + 1
  <2>1. i \in 0..(n - 1) /\ x \in 0..(2 * n - 1)
    BY DEF Slots
  <2>2. x % n = IF x < n THEN x ELSE x - n
    <3> HIDE DEF x
    <3> QED BY <2>1, Wrap
  <2> QED BY <2>1, <2>2 DEF At
<1>3. {o \in 0..(n - 1) : o = n - 1 \/ ~Movable(b, (i + o + 1) % n)} = T
  BY <1>2 DEF Slots
<1>4. r = Least(T)
  BY <1>1, <1>3 DEF ShiftRun
<1>5. T \in SUBSET Nat /\ n - 1 \in T
  BY DEF Slots
<1>6. r \in T /\ \A y \in T : r <= y
  <2> HIDE DEF T
  <2> QED BY <1>4, <1>5, LeastIs
<1> HIDE DEF r
<1>7. ASSUME NEW o \in Slots(n), o < r PROVE Movable(b, At(i, o + 1, n))
  <2>1. r \in Nat /\ o \in Nat
    BY <1>6 DEF Slots
  <2>2. ~(r <= o)
    BY <1>7, <2>1
  <2> QED BY <1>6, <2>2
<1> QED BY <1>6, <1>7 DEF r

LEMMA ShiftedIs ==
  ASSUME NEW n \in Nat \ {0}, NEW b \in Tables(n), NEW i \in Slots(n)
  PROVE  /\ backward_shift(b, i) \in Tables(n)
         /\ \A x \in Slots(n) :
              backward_shift(b, i)[x] =
                IF Off(i, x, n) < ShiftRun(b, i) THEN b[Fwd(x, n)]
                ELSE IF Off(i, x, n) = ShiftRun(b, i) THEN Empty ELSE b[x]
<1> DEFINE c == backward_shift(b, i)
           r == ShiftRun(b, i)
<1>1. Size(b) = n /\ DOMAIN b = Slots(n)
  BY SizeIs DEF Tables
<1>2. \A x \in Slots(n) : (x + n - i) % n = Off(i, x, n)
  <2> SUFFICES ASSUME NEW x \in Slots(n) PROVE (x + n - i) % n = Off(i, x, n)
    OBVIOUS
  <2> DEFINE y == x + n - i
  <2>1. x \in 0..(n - 1) /\ i \in 0..(n - 1) /\ y \in 0..(2 * n - 1)
    BY DEF Slots
  <2>2. y % n = IF y < n THEN y ELSE y - n
    <3> HIDE DEF y
    <3> QED BY <2>1, Wrap
  <2> QED BY <2>1, <2>2 DEF Off
<1>3. \A x \in Slots(n) : next_bucket(b, x) = Fwd(x, n)
  BY TableIs
<1> HIDE DEF r
<1>4. c = [x \in Slots(n) |-> IF Off(i, x, n) < r THEN b[Fwd(x, n)]
                              ELSE IF Off(i, x, n) = r THEN Empty ELSE b[x]]
  BY <1>1, <1>2, <1>3 DEF backward_shift, r
<1> HIDE DEF c
<1>5. c \in Tables(n)
  BY <1>4, FwdIs, Numbers DEF Tables
<1> QED BY <1>4, <1>5 DEF c, r

(* Bucket i is emptied and the entries after it are shifted back.          *)
Emptied(b, i) == [b EXCEPT ![i] = Empty]

LEMMA ErasedRank ==
  ASSUME NEW n \in Nat \ {0}, NEW b0 \in Tables(n), NEW i \in Slots(n)
  PROVE  /\ Emptied(b0, i) \in Tables(n)
         /\ \A x \in Slots(n) :
              /\ Emptied(b0, i)[x] = IF x = i THEN Empty ELSE b0[x]
              /\ Rank(Emptied(b0, i), x, n) = IF x = i THEN 0 ELSE Rank(b0, x, n)
BY Numbers DEF Tables, Rank, Emptied

LEMMA ShiftedRank ==
  ASSUME NEW n \in Nat \ {0}, NEW b0 \in Tables(n), NEW i \in Slots(n),
         NEW x \in Slots(n)
  PROVE  /\ Off(i, x, n) < ShiftRun(Emptied(b0, i), i) =>
              /\ Fwd(x, n) # i
              /\ Rank(b0, Fwd(x, n), n) > 1
              /\ backward_shift(Emptied(b0, i), i)[x] = b0[Fwd(x, n)]
              /\ Rank(backward_shift(Emptied(b0, i), i), x, n) = Rank(b0, Fwd(x, n), n) - 1
         /\ Off(i, x, n) = ShiftRun(Emptied(b0, i), i) =>
              /\ backward_shift(Emptied(b0, i), i)[x] = Empty
              /\ Rank(backward_shift(Emptied(b0, i), i), x, n) = 0
         /\ ~(Off(i, x, n) <= ShiftRun(Emptied(b0, i), i)) =>
              /\ x # i
              /\ backward_shift(Emptied(b0, i), i)[x] = b0[x]
              /\ Rank(backward_shift(Emptied(b0, i), i), x, n) = Rank(b0, x, n)
<1> DEFINE b == Emptied(b0, i)
           r == ShiftRun(b, i)
           o == Off(i, x, n)
           c == backward_shift(b, i)
<1>1. b \in Tables(n) /\ \A y \in Slots(n) : /\ b[y] = IF y = i THEN Empty ELSE b0[y]
                                             /\ Rank(b, y, n) = IF y = i THEN 0 ELSE Rank(b0, y, n)
  BY ErasedRank
<1>2. o \in 0..(n - 1) /\ r \in 0..(n - 1) /\ (o = 0 <=> x = i) /\ At(i, o, n) = x
  <2>1. o \in Slots(n) /\ (o = 0 <=> x = i) /\ At(i, o, n) = x
    BY OffIs
  <2>2. r \in Slots(n)
    BY <1>1, ShiftRunIs
  <2> HIDE DEF o, r
  <2> QED BY <2>1, <2>2 DEF Slots
<1>3. c[x] = IF o < r THEN b[Fwd(x, n)] ELSE IF o = r THEN Empty ELSE b[x]
  BY <1>1, ShiftedIs
<1>4. CASE o < r
  <2>1. o \in Slots(n) /\ Fwd(x, n) \in Slots(n) /\ Fwd(x, n) = At(i, o + 1, n)
    <3>1. o \in Slots(n) /\ o < n - 1
      BY <1>2, <1>4 DEF Slots
    <3> HIDE DEF o
    <3> QED BY <1>2, <3>1, AtIs, FwdIs
  <2>2. Movable(b, Fwd(x, n))
    BY <1>1, <1>4, <2>1, ShiftRunIs
  <2>3. Rank(b, Fwd(x, n), n) > 1
    BY <1>1, <2>1, <2>2, MovableIs
  <2>4. Fwd(x, n) # i /\ Rank(b0, Fwd(x, n), n) > 1 /\ c[x] = b0[Fwd(x, n)]
    <3> DEFINE y == Fwd(x, n)
    <3>1. y \in Slots(n) /\ Rank(b, y, n) > 1
      BY <2>1, <2>3
    <3>2. c[x] = b[y]
      BY <1>3, <1>4
    <3> HIDE DEF y, c
    <3>3. y # i
      <4>1. Rank(b, i, n) = 0
        BY <1>1
      <4>2. ~(0 > 1)
        OBVIOUS
      <4> QED BY <3>1, <4>1, <4>2
    <3>4. Rank(b, y, n) = Rank(b0, y, n) /\ b[y] = b0[y]
      BY <1>1, <3>1, <3>3
    <3> QED BY <3>1, <3>2, <3>3, <3>4 DEF y
  <2> DEFINE e == b0[Fwd(x, n)]
  <2>5. e \in Cell /\ Rank(b0, Fwd(x, n), n) \in 0..n /\ (Rank(b0, Fwd(x, n), n) = 0 <=> ~e.full)
    BY <2>1, RankIs
  <2>6. e.full /\ Rank(b0, Fwd(x, n), n) = Away(e, Fwd(x, n), n) + 1
    BY <2>1, <2>4, <2>5, RankIs
  <2>7. Away(e, x, n) \in Slots(n)
        /\ Away(e, Fwd(x, n), n) = IF Away(e, x, n) = n - 1 THEN 0 ELSE Away(e, x, n) + 1
    BY <2>5, CellIs
  <2> HIDE DEF e
  <2>8. Away(e, x, n) + 1 = Away(e, Fwd(x, n), n)
    BY <2>4, <2>6, <2>7 DEF Slots
  <2>9. Rank(c, x, n) = Away(e, x, n) + 1
    BY <2>4, <2>6 DEF Rank, e
  <2>10. Rank(c, x, n) = Rank(b0, Fwd(x, n), n) - 1
    BY <2>6, <2>7, <2>8, <2>9 DEF Slots
  <2> HIDE DEF o, r, c
  <2> QED BY <1>2, <1>4, <2>4, <2>10 DEF o, r, c
<1>5. CASE o = r
  <2>1. c[x] = Empty /\ Rank(c, x, n) = 0
    <3>1. c[x] = Empty
      BY <1>2, <1>3, <1>5
    <3> QED BY <3>1, Numbers DEF Rank
  <2> QED BY <1>2, <1>5, <2>1
<1>6. CASE ~(o <= r)
  <2>1. x # i /\ c[x] = b0[x]
    BY <1>1, <1>2, <1>3, <1>6
  <2>2. Rank(c, x, n) = Rank(b0, x, n)
    BY <2>1 DEF Rank
  <2> QED BY <1>2, <1>6, <2>1, <2>2
<1> QED BY <1>2, <1>4, <1>5, <1>6

(* The order is kept, unless a full table has more than two buckets.       *)
LEMMA ShiftedOrder ==
  ASSUME NEW n \in Nat \ {0}, NEW b0 \in Tables(n), Ordered(b0, n), NEW i \in Slots(n),
         n > 2 => \E m \in Slots(n) : m # i /\ ~b0[m].full
  PROVE  Ordered(backward_shift(Emptied(b0, i), i), n)
<1> DEFINE b == Emptied(b0, i)
           r == ShiftRun(b, i)
           c == backward_shift(b, i)
           R(x) == Rank(b0, x, n)
           Q(x) == Rank(c, x, n)
<1>1. b \in Tables(n) /\ \A y \in Slots(n) : Rank(b, y, n) = IF y = i THEN 0 ELSE R(y)
  BY ErasedRank
<1>2. c \in Tables(n)
  BY <1>1, ShiftedIs
<1>3. r \in 0..(n - 1)
  <2>1. r \in Slots(n)
    BY <1>1, ShiftRunIs
  <2> HIDE DEF r
  <2> QED BY <2>1 DEF Slots
<1>4. \A x \in Slots(n) : R(x) \in 0..n /\ Q(x) \in 0..n
  BY <1>2, RankIs
<1>5. \A x \in Slots(n) : R(Fwd(x, n)) <= R(x) + 1
  BY DEF Ordered
<1>6. r = n - 1 => n <= 2
  <2> SUFFICES ASSUME r = n - 1, n > 2 PROVE FALSE
    OBVIOUS
  <2>1. PICK m \in Slots(n) : m # i /\ ~b0[m].full
    OBVIOUS
  <2> DEFINE o == Off(i, m, n)
  <2>2. o \in Slots(n) /\ o # 0 /\ At(i, o, n) = m
    BY <2>1, OffIs
  <2> HIDE DEF o
  <2>3. o - 1 \in Slots(n) /\ (o - 1) + 1 = o /\ o - 1 < n - 1
    BY <2>2 DEF Slots
  <2>4. Movable(b, m)
    BY <1>1, <2>2, <2>3, ShiftRunIs
  <2>5. Rank(b, m, n) > 1
    BY <1>1, <2>4, MovableIs
  <2>6. Rank(b, m, n) = 0
    <3>1. R(m) = 0
      BY <2>1, RankIs
    <3> QED BY <1>1, <2>1, <3>1
  <2> QED BY <2>5, <2>6
<1>7. ASSUME NEW x \in Slots(n) PROVE Q(Fwd(x, n)) <= Q(x) + 1
  <2> DEFINE o == Off(i, x, n)
             y == Fwd(x, n)
             p == Off(i, y, n)
  <2>1. /\ y \in Slots(n) /\ Fwd(y, n) \in Slots(n)
        /\ o \in Slots(n) /\ p = IF o = n - 1 THEN 0 ELSE o + 1
    BY OffIs, FwdIs
  <2>2. o \in 0..(n - 1) /\ p \in 0..(n - 1)
    <3> HIDE DEF o, p
    <3> QED BY <2>1 DEF Slots
  <2>3. /\ o < r => R(y) > 1 /\ Q(x) = R(y) - 1
        /\ o = r => Q(x) = 0
        /\ ~(o <= r) => Q(x) = R(x)
    BY ShiftedRank
  <2>4. /\ p < r => R(Fwd(y, n)) > 1 /\ Q(y) = R(Fwd(y, n)) - 1
        /\ p = r => Q(y) = 0
        /\ ~(p <= r) => Q(y) = R(y)
    BY <2>1, ShiftedRank
  <2>5. /\ R(x) \in 0..n /\ R(y) \in 0..n /\ R(Fwd(y, n)) \in 0..n
        /\ R(y) <= R(x) + 1 /\ R(Fwd(y, n)) <= R(y) + 1
    BY <1>4, <1>5, <2>1
  <2>6. p = 0 => y = i
    BY <2>1, OffIs
  <2>7. o = r /\ r # n - 1 => R(y) <= 1
    <3> SUFFICES ASSUME o = r, r # n - 1 PROVE R(y) <= 1
      OBVIOUS
    <3>1. ~Movable(b, At(i, r + 1, n))
      BY <1>1, ShiftRunIs
    <3>2. At(i, r + 1, n) = y
      <4>1. At(i, o, n) = x
        BY OffIs
      <4>2. o < n - 1
        <5> HIDE DEF o, r
        <5> QED BY <1>3, <2>2
      <4> HIDE DEF o, r
      <4> QED BY <2>1, <4>1, <4>2, AtIs
    <3>3. ~(Rank(b, y, n) > 1)
      BY <1>1, <2>1, <3>1, <3>2, MovableIs
    <3>4. y # i
      <4>1. p # 0
        <5> HIDE DEF o, p, r, y
        <5> QED BY <1>3, <2>1, <2>2
      <4> QED BY <2>1, <4>1, OffIs
    <3> QED BY <1>1, <2>1, <2>5, <3>3, <3>4
  <2> HIDE DEF o, p, r, R, Q
  <2>8. CASE o < n - 1
    <3>1. p = o + 1
      BY <2>1, <2>2, <2>8
    <3>2. CASE p < r
      BY <1>3, <2>2, <2>3, <2>4, <2>5, <3>1, <3>2
    <3>3. CASE p = r
      BY <1>3, <1>4, <2>2, <2>4, <3>3
    <3>4. CASE p > r
      BY <1>3, <2>2, <2>3, <2>4, <2>5, <2>7, <2>8, <3>1, <3>4
    <3> QED BY <1>3, <2>2, <3>2, <3>3, <3>4
  <2>9. CASE o = n - 1
    <3>1. p = 0 /\ y = i
      BY <2>1, <2>6, <2>9
    <3>2. CASE r = 0
      BY <1>4, <2>4, <3>1, <3>2
    <3>3. CASE r > 0 /\ r < n - 1
      <4>1. Q(y) <= R(y) /\ Q(x) = R(x)
        BY <1>3, <2>2, <2>3, <2>4, <2>5, <2>9, <3>1, <3>3
      <4> QED BY <1>4, <2>1, <2>5, <4>1
    <3>4. CASE r > 0 /\ r = n - 1
      <4>1. n <= 2 /\ Q(y) <= n - 1
        BY <1>3, <1>6, <2>4, <2>5, <3>1, <3>4
      <4> QED BY <1>4, <2>1, <4>1
    <3> QED BY <1>3, <3>2, <3>3, <3>4
  <2> QED BY <2>2, <2>8, <2>9
<1> QED BY <1>7 DEF Ordered

(* Nothing but the entry of bucket i is lost.                              *)
LEMMA ShiftedHolds ==
  ASSUME NEW n \in Nat \ {0}, NEW b0 \in Tables(n), NEW i \in Slots(n)
  PROVE  /\ \A x \in Slots(n) : backward_shift(Emptied(b0, i), i)[x].full =>
              \E y \in Slots(n) : /\ y # i /\ b0[y].full
                                  /\ backward_shift(Emptied(b0, i), i)[x] = b0[y]
         /\ \A y \in Slots(n) : y # i /\ b0[y].full =>
              \E x \in Slots(n) : backward_shift(Emptied(b0, i), i)[x] = b0[y]
         /\ Distinct(b0, n) => Distinct(backward_shift(Emptied(b0, i), i), n)
<1> DEFINE b == Emptied(b0, i)
           r == ShiftRun(b, i)
           c == backward_shift(b, i)
           o(x) == Off(i, x, n)
<1>1. r \in 0..(n - 1) /\ \A x \in Slots(n) : o(x) \in 0..(n - 1)
  <2>1. r \in Slots(n)
    BY ErasedRank, ShiftRunIs
  <2>2. \A x \in Slots(n) : o(x) \in Slots(n)
    BY OffIs
  <2> HIDE DEF r, o
  <2> QED BY <2>1, <2>2 DEF Slots
<1>2. \A x \in Slots(n) : o(x) < r => Fwd(x, n) # i /\ b0[Fwd(x, n)].full /\ c[x] = b0[Fwd(x, n)]
  <2> SUFFICES ASSUME NEW x \in Slots(n), o(x) < r
               PROVE  Fwd(x, n) # i /\ b0[Fwd(x, n)].full /\ c[x] = b0[Fwd(x, n)]
    OBVIOUS
  <2>1. Fwd(x, n) # i /\ Rank(b0, Fwd(x, n), n) > 1 /\ c[x] = b0[Fwd(x, n)]
    BY ShiftedRank
  <2>2. Fwd(x, n) \in Slots(n)
    BY FwdIs
  <2>3. b0[Fwd(x, n)].full
    BY <2>1, <2>2, RankIs
  <2> QED BY <2>1, <2>3
<1>3. \A x \in Slots(n) : /\ o(x) = r => ~c[x].full
                          /\ ~(o(x) <= r) => x # i /\ c[x] = b0[x]
  BY ShiftedRank, Numbers
<1> HIDE DEF c, r
<1>4. ASSUME NEW x \in Slots(n), c[x].full
      PROVE  \E y \in Slots(n) : y # i /\ b0[y].full /\ c[x] = b0[y]
  <2>1. CASE o(x) < r
    BY <1>2, <2>1, FwdIs
  <2>2. CASE ~(o(x) <= r)
    BY <1>3, <1>4, <2>2
  <2>3. o(x) # r
    BY <1>3, <1>4
  <2> HIDE DEF o
  <2> QED BY <1>1, <2>1, <2>2, <2>3
<1>5. ASSUME NEW y \in Slots(n), y # i, b0[y].full PROVE \E x \in Slots(n) : c[x] = b0[y]
  <2>1. CASE ~(o(y) <= r)
    BY <1>3, <2>1
  <2>2. CASE o(y) <= r
    <3>1. o(y) # 0 /\ o(y) \in Slots(n) /\ At(i, o(y), n) = y
      BY <1>5, OffIs
    <3> DEFINE p == o(y)
               x == At(i, p - 1, n)
    <3> HIDE DEF p
    <3>2. p - 1 \in Slots(n) /\ p - 1 < n - 1 /\ p - 1 < r /\ (p - 1) + 1 = p
      BY <1>1, <2>2, <3>1 DEF Slots, p
    <3>3. x \in Slots(n) /\ o(x) = p - 1 /\ Fwd(x, n) = At(i, (p - 1) + 1, n)
      BY <3>2, AtIs
    <3>4. Fwd(x, n) = y
      BY <3>1, <3>2, <3>3 DEF p
    <3> HIDE DEF x
    <3> QED BY <1>2, <3>2, <3>3, <3>4
  <2> QED BY <2>1, <2>2
<1>6. ASSUME Distinct(b0, n) PROVE Distinct(c, n)
  <2> SUFFICES ASSUME NEW x \in Slots(n), NEW y \in Slots(n), c[x].full, c[y].full,
                      c[x].index = c[y].index
               PROVE  x = y
    BY DEF Distinct
  <2>1. o(x) # r /\ o(y) # r
    BY <1>3
  <2>2. o(x) \in Int /\ o(y) \in Int /\ r \in Int
    BY <1>1
  <2>3. /\ Fwd(x, n) \in Slots(n) /\ Fwd(y, n) \in Slots(n)
        /\ o(Fwd(x, n)) = IF o(x) = n - 1 THEN 0 ELSE o(x) + 1
        /\ o(Fwd(y, n)) = IF o(y) = n - 1 THEN 0 ELSE o(y) + 1
    BY OffIs, FwdIs
  <2> HIDE DEF o
  <2>4. CASE o(x) < r /\ o(y) < r
    <3>1. Fwd(x, n) = Fwd(y, n)
      BY <1>2, <1>6, <2>3, <2>4 DEF Distinct
    <3> QED BY <3>1, FwdInjective
  <2>5. CASE o(x) < r /\ ~(o(y) <= r)
    <3>1. Fwd(x, n) = y
      BY <1>2, <1>3, <1>6, <2>3, <2>5 DEF Distinct
    <3> QED BY <1>1, <2>2, <2>3, <2>5, <3>1
  <2>6. CASE ~(o(x) <= r) /\ o(y) < r
    <3>1. Fwd(y, n) = x
      BY <1>2, <1>3, <1>6, <2>3, <2>6 DEF Distinct
    <3> QED BY <1>1, <2>2, <2>3, <2>6, <3>1
  <2>7. CASE ~(o(x) <= r) /\ ~(o(y) <= r)
    BY <1>3, <1>6, <2>7 DEF Distinct
  <2> QED BY <2>1, <2>2, <2>4, <2>5, <2>6, <2>7
<1> QED BY <1>4, <1>5, <1>6 DEF c

-----------------------------------------------------------------------------
(* Renumbering.                                                            *)

ShiftStates(n) == [b : Tables(n), hung : BOOLEAN]

LEMMA HitsAre ==
  ASSUME NEW n \in Nat \ {0}, NEW b \in Tables(n), NEW vs \in Seq(Entries), NEW v \in Nat,
         v + 1 \in DOMAIN vs, NEW delta \in Int
  PROVE  /\ Hits(b, vs, v, delta) \in SUBSET Nat
         /\ Hash[vs[v + 1][1]] % n \in Slots(n)
         /\ \A d \in Slots(n) : ValueProbe(b, vs, v, d) = At(Hash[vs[v + 1][1]] % n, d, n)
         /\ \A d : d \in Hits(b, vs, v, delta) <=>
              /\ d \in Slots(n)
              /\ b[At(Hash[vs[v + 1][1]] % n, d, n)].full
              /\ b[At(Hash[vs[v + 1][1]] % n, d, n)].index = v - delta
<1> DEFINE k == vs[v + 1][1]
<1>1. k \in Keys
  BY DEF Entries
<1>2. Size(b) = n
  BY SizeIs DEF Tables
<1>3. ASSUME NEW d \in Slots(n) PROVE ValueProbe(b, vs, v, d) = At(Hash[k] % n, d, n)
  <2>1. d \in 0..n
    BY DEF Slots
  <2>2. ValueProbe(b, vs, v, d) = Probe(b, k, d)
    BY DEF ValueProbe, Map!KeyAt
  <2> HIDE DEF k
  <2> QED BY <1>1, <2>1, <2>2, ProbeIs
<1>4. Hash[k] % n \in Slots(n)
  <2>1. 0 \in 0..n
    OBVIOUS
  <2> HIDE DEF k
  <2> QED BY <1>1, <2>1, ProbeIs
<1>5. Hits(b, vs, v, delta) =
        {d \in Slots(n) : /\ b[ValueProbe(b, vs, v, d)].full
                          /\ b[ValueProbe(b, vs, v, d)].index = v - delta}
  BY <1>2 DEF Hits, Slots
<1>6. Slots(n) \in SUBSET Nat
  BY DEF Slots
<1> HIDE DEF k
<1> QED BY <1>3, <1>4, <1>5, <1>6 DEF k

LEMMA ShiftStepType ==
  ASSUME NEW n \in Nat \ {0}, NEW s \in ShiftStates(n), NEW vs \in Seq(Entries),
         NEW v \in 0..MaxSize, v + 1 \in DOMAIN vs, NEW delta \in Int
  PROVE  /\ shift_step(s, vs, v, delta) \in ShiftStates(n)
         /\ \A x \in Slots(n) : /\ shift_step(s, vs, v, delta).b[x].full = s.b[x].full
                                /\ shift_step(s, vs, v, delta).b[x].hash = s.b[x].hash
<1> DEFINE T == Hits(s.b, vs, v, delta)
           i == ValueProbe(s.b, vs, v, Least(T))
           t == shift_step(s, vs, v, delta)
<1>1. s.b \in Tables(n) /\ v \in Nat
  BY Numbers DEF ShiftStates
<1>2. CASE s.hung \/ T = {}
  <2>1. t = [b |-> s.b, hung |-> TRUE]
    BY <1>2 DEF shift_step
  <2> QED BY <1>1, <2>1 DEF ShiftStates
<1>3. CASE ~(s.hung \/ T = {})
  <2>1. Least(T) \in T
    BY <1>1, <1>3, HitsAre, LeastIs
  <2>2. i \in Slots(n)
    <3> DEFINE q == Least(T)
               h == Hash[vs[v + 1][1]] % n
    <3>1. q \in Slots(n) /\ h \in Slots(n)
      BY <1>1, <2>1, HitsAre
    <3>2. i = At(h, q, n)
      BY <1>1, <3>1, HitsAre
    <3> HIDE DEF q, h, i
    <3> QED BY <3>1, <3>2, AtIs
  <2>3. t = [b |-> [s.b EXCEPT ![i] = [s.b[i] EXCEPT !.index = v]], hung |-> FALSE]
    BY <1>3 DEF shift_step
  <2> HIDE DEF i, t
  <2>4. s.b[i] \in Cell /\ [s.b[i] EXCEPT !.index = v] \in Cell
    BY <1>1, <2>2 DEF Tables, Cell
  <2>5. t.b \in Tables(n)
    BY <1>1, <2>2, <2>3, <2>4 DEF Tables
  <2>6. \A x \in Slots(n) : t.b[x] = IF x = i THEN [s.b[i] EXCEPT !.index = v] ELSE s.b[x]
    BY <1>1, <2>3 DEF Tables
  <2>7. \A x \in Slots(n) : t.b[x].full = s.b[x].full /\ t.b[x].hash = s.b[x].hash
    BY <2>4, <2>6 DEF Cell
  <2>8. t \in ShiftStates(n)
    BY <2>3, <2>5 DEF ShiftStates
  <2> QED BY <2>7, <2>8 DEF t
<1> QED BY <1>2, <1>3

IsShiftRun(r, b0, vs, from, delta, n) ==
  /\ shift_indexes(b0, vs, from, delta) = r[Len(vs) - from]
  /\ r[0] = [b |-> b0, hung |-> FALSE]
  /\ \A j \in 0..(Len(vs) - from - 1) : r[j + 1] = shift_step(r[j], vs, from + j, delta)
  /\ \A j \in 0..(Len(vs) - from) :
       /\ r[j] \in ShiftStates(n)
       /\ \A x \in Slots(n) : r[j].b[x].full = b0[x].full /\ r[j].b[x].hash = b0[x].hash

LEMMA ShiftIndexRuns ==
  ASSUME NEW n \in Nat \ {0}, NEW b0 \in Tables(n), NEW vs \in Seq(Entries),
         Len(vs) <= MaxSize, NEW from \in 0..Len(vs), NEW delta \in Int
  PROVE  \E r : IsShiftRun(r, b0, vs, from, delta, n)
<1> DEFINE L == Len(vs) - from
           S == ShiftStates(n)
           s0 == [b |-> b0, hung |-> FALSE]
           F == [j \in 1..L |-> [s \in S |-> shift_step(s, vs, from + j - 1, delta)]]
<1>1. Len(vs) \in Nat /\ L \in Nat /\ from \in Nat
  OBVIOUS
<1>2. s0 \in S
  BY DEF ShiftStates
<1>3. ASSUME NEW j \in 1..L, NEW s \in S PROVE shift_step(s, vs, from + j - 1, delta) \in S
  <2>1. from + j - 1 \in 0..MaxSize /\ (from + j - 1) + 1 \in DOMAIN vs
    BY <1>1, Numbers
  <2> QED BY <2>1, ShiftStepType
<1>4. F \in [1..L -> [S -> S]]
  BY <1>3
<1>5. IsLoop(S, s0, F, L)
  BY <1>1, <1>2, <1>4 DEF IsLoop
<1>6. PICK f : IsRun(f, S, s0, F, L)
  <2> HIDE DEF S, s0, F, L
  <2> QED BY <1>5, LoopRuns
<1>7. f \in [0..L -> S] /\ f[0] = s0 /\ \A j \in 1..L : f[j] = F[j][f[j - 1]]
  BY <1>6 DEF IsRun
<1>8. \A j \in 1..L : f[j] = shift_step(f[j - 1], vs, from + j - 1, delta)
  <2> SUFFICES ASSUME NEW j \in 1..L PROVE f[j] = shift_step(f[j - 1], vs, from + j - 1, delta)
    OBVIOUS
  <2>1. j - 1 \in 0..L
    BY <1>1
  <2>2. f[j - 1] \in S /\ f[j] = F[j][f[j - 1]]
    BY <1>7, <2>1
  <2> HIDE DEF L, S
  <2> QED BY <2>2
<1> HIDE DEF s0, F
<1>9. f = [j \in 0..L |-> IF j = 0 THEN s0 ELSE shift_step(f[j - 1], vs, from + j - 1, delta)]
  <2>1. \A j \in 0..L : f[j] = IF j = 0 THEN s0 ELSE shift_step(f[j - 1], vs, from + j - 1, delta)
    <3>1. \A j \in 0..L : j = 0 \/ j \in 1..L
      BY <1>1
    <3> HIDE DEF L
    <3> QED BY <1>7, <1>8, <3>1
  <2>2. f \in [0..L -> S]
    BY <1>7
  <2> HIDE DEF L, S
  <2> QED BY <2>1, <2>2
<1> DEFINE r == CHOOSE g :
                  g = [j \in 0..L |-> IF j = 0 THEN s0
                                      ELSE shift_step(g[j - 1], vs, from + j - 1, delta)]
<1>10. r = [j \in 0..L |-> IF j = 0 THEN s0 ELSE shift_step(r[j - 1], vs, from + j - 1, delta)]
  BY <1>9
<1>11. shift_indexes(b0, vs, from, delta) = r[L]
  BY DEF shift_indexes, s0
<1> HIDE DEF r
<1>12. r[0] = s0
  BY <1>1, <1>10
<1>13. \A j \in 0..(L - 1) : r[j + 1] = shift_step(r[j], vs, from + j, delta)
  <2> SUFFICES ASSUME NEW j \in 0..(L - 1)
               PROVE  r[j + 1] = shift_step(r[j], vs, from + j, delta)
    OBVIOUS
  <2>1. j + 1 \in 0..L /\ j + 1 # 0 /\ (j + 1) - 1 = j /\ from + (j + 1) - 1 = from + j
    BY <1>1
  <2> HIDE DEF L
  <2> QED BY <1>10, <2>1
<1> DEFINE Good(s) == /\ s \in ShiftStates(n)
                      /\ \A x \in Slots(n) : s.b[x].full = b0[x].full /\ s.b[x].hash = b0[x].hash
           P == {j \in 0..L : Good(r[j])}
<1>14. \A j \in 0..L : j \in P
  <2>1. 0 \in P
    <3>1. r[0].b = b0 /\ r[0] \in S
      BY <1>2, <1>12 DEF s0
    <3> QED BY <1>1, <3>1
  <2>2. ASSUME NEW j \in 0..L, j \in P, j < L PROVE j + 1 \in P
    <3>1. j \in 0..(L - 1) /\ j + 1 \in 0..L
      BY <1>1, <2>2
    <3>2. from + j \in 0..MaxSize /\ (from + j) + 1 \in DOMAIN vs
      BY <1>1, <3>1, Numbers
    <3>3. Good(r[j])
      BY <2>2
    <3> HIDE DEF L, S
    <3>4. r[j + 1] = shift_step(r[j], vs, from + j, delta)
      BY <1>13, <3>1
    <3>5. /\ r[j + 1] \in ShiftStates(n)
          /\ \A x \in Slots(n) : /\ r[j + 1].b[x].full = r[j].b[x].full
                                 /\ r[j + 1].b[x].hash = r[j].b[x].hash
      BY <3>2, <3>3, <3>4, ShiftStepType
    <3>6. Good(r[j + 1])
      BY <3>3, <3>5
    <3> HIDE DEF Good
    <3> QED BY <3>1, <3>6
  <2> HIDE DEF P, L
  <2> QED BY <1>1, <2>1, <2>2, Steps
<1>15. \A j \in 0..L : Good(r[j])
  <2> HIDE DEF Good, L
  <2> QED BY <1>14
<1> QED BY <1>11, <1>12, <1>13, <1>15 DEF s0, IsShiftRun

LEMMA ShiftIndexesType ==
  ASSUME NEW n \in Nat \ {0}, NEW b \in Tables(n), NEW vs \in Seq(Entries),
         Len(vs) <= MaxSize, NEW from \in 0..Len(vs), NEW delta \in Int
  PROVE  shift_indexes(b, vs, from, delta).hung \in BOOLEAN
<1>1. PICK r : IsShiftRun(r, b, vs, from, delta, n)
  BY ShiftIndexRuns
<1>2. Len(vs) - from \in 0..(Len(vs) - from)
  OBVIOUS
<1>3. r[Len(vs) - from] \in ShiftStates(n)
  BY <1>1, <1>2 DEF IsShiftRun
<1> QED BY <1>1, <1>3 DEF IsShiftRun, ShiftStates

(* Bucket i is the one a search for the old position of value v ends at.   *)
IsHit(b, vs, v, delta, i, n) ==
  /\ b[i].full
  /\ b[i].index = v - delta
  /\ \/ \A x \in Slots(n) : b[x].full /\ b[x].index = v - delta => x = i
     \/ i = Hash[vs[v + 1][1]] % n

(* The bucket found is bucket i.                                           *)
LEMMA ShiftHit ==
  ASSUME NEW n \in Nat \ {0}, NEW s \in ShiftStates(n), ~s.hung, NEW vs \in Seq(Entries),
         NEW v \in 0..MaxSize, v + 1 \in DOMAIN vs, NEW delta \in Int, NEW i \in Slots(n),
         IsHit(s.b, vs, v, delta, i, n)
  PROVE  /\ ~shift_step(s, vs, v, delta).hung
         /\ \A x \in Slots(n) :
              shift_step(s, vs, v, delta).b[x] =
                IF x = i THEN [s.b[x] EXCEPT !.index = v] ELSE s.b[x]
<1> DEFINE T == Hits(s.b, vs, v, delta)
           h == Hash[vs[v + 1][1]] % n
           q == Least(T)
           t == shift_step(s, vs, v, delta)
<1>1. s.b \in Tables(n) /\ v \in Nat
  BY Numbers DEF ShiftStates
<1>2. /\ T \in SUBSET Nat
      /\ h \in Slots(n)
      /\ \A d \in Slots(n) : ValueProbe(s.b, vs, v, d) = At(h, d, n)
      /\ \A d : d \in T <=> /\ d \in Slots(n)
                            /\ s.b[At(h, d, n)].full
                            /\ s.b[At(h, d, n)].index = v - delta
  BY <1>1, HitsAre
<1> HIDE DEF T, h
<1>3. Off(h, i, n) \in Slots(n) /\ At(h, Off(h, i, n), n) = i
  BY <1>2, OffIs
<1>4. Off(h, i, n) \in T
  BY <1>2, <1>3 DEF IsHit
<1>5. q \in T /\ \A y \in T : q <= y
  BY <1>2, <1>4, LeastIs
<1> HIDE DEF q
<1>6. q \in Slots(n) /\ At(h, q, n) \in Slots(n)
  BY <1>2, <1>5, AtIs
<1>7. ValueProbe(s.b, vs, v, q) = i
  <2>1. CASE \A x \in Slots(n) : s.b[x].full /\ s.b[x].index = v - delta => x = i
    BY <1>2, <1>5, <1>6, <2>1
  <2>2. CASE i = h
    <3>1. 0 \in Slots(n) /\ At(h, 0, n) = i
      BY <1>2, <2>2, AtIs DEF Slots
    <3>2. 0 \in T
      BY <1>2, <3>1 DEF IsHit
    <3>3. q = 0
      BY <1>5, <1>6, <3>2 DEF Slots
    <3> QED BY <1>2, <3>1, <3>3
  <2> QED BY <2>1, <2>2 DEF h, IsHit
<1>8. t = [b |-> [s.b EXCEPT ![i] = [s.b[i] EXCEPT !.index = v]], hung |-> FALSE]
  BY <1>4, <1>7 DEF shift_step, T, q
<1> HIDE DEF t
<1>9. \A x \in Slots(n) : t.b[x] = IF x = i THEN [s.b[x] EXCEPT !.index = v] ELSE s.b[x]
  BY <1>1, <1>8 DEF Tables
<1> QED BY <1>8, <1>9 DEF t

Lowered(c, from, j) ==
  IF c.full /\ c.index \in (from + 1)..(from + j) THEN [c EXCEPT !.index = c.index - 1] ELSE c

HasLater(b, vs, from, n) ==
  \A p \in (from + 1)..Len(vs) : \E i \in Slots(n) : b[i].full /\ b[i].index = p

Down(b, vs, from) == shift_indexes(b, vs, from, 0 - 1)

(* After an erasure all later values get their new positions.              *)
LEMMA ShiftDown ==
  ASSUME NEW n \in Nat \ {0}, NEW b0 \in Tables(n), Distinct(b0, n), NEW vs \in Seq(Entries),
         Len(vs) <= MaxSize, NEW from \in 0..Len(vs),
         HasLater(b0, vs, from, n)
  PROVE  /\ ~Down(b0, vs, from).hung
         /\ Down(b0, vs, from).b \in Tables(n)
         /\ \A x \in Slots(n) :
              Down(b0, vs, from).b[x] = Lowered(b0[x], from, Len(vs) - from)
<1> DEFINE L == Len(vs) - from
           D == 0 - 1
<1>1. Len(vs) \in Nat /\ L \in Nat /\ from \in Nat /\ D \in Int /\ \A v \in Nat : v - D = v + 1
  OBVIOUS
<1> HIDE DEF D
<1>8. PICK r : IsShiftRun(r, b0, vs, from, D, n)
  BY <1>1, ShiftIndexRuns
<1>2. /\ shift_indexes(b0, vs, from, D) = r[L]
      /\ r[0] = [b |-> b0, hung |-> FALSE]
      /\ \A j \in 0..(L - 1) : r[j + 1] = shift_step(r[j], vs, from + j, D)
      /\ \A j \in 0..L : r[j] \in ShiftStates(n)
  BY <1>8 DEF IsShiftRun
<1>3. \A x \in Slots(n) : b0[x] \in Cell /\ b0[x].index \in Nat /\ b0[x].full \in BOOLEAN
  BY Numbers DEF Tables, Cell
<1> DEFINE Good(j) == ~r[j].hung /\ \A x \in Slots(n) : r[j].b[x] = Lowered(b0[x], from, j)
           P == {j \in 0..L : Good(j)}
<1>4. 0 \in P
  <2>1. \A x \in Slots(n) : Lowered(b0[x], from, 0) = b0[x]
    BY <1>1, <1>3 DEF Lowered
  <2>2. ~r[0].hung /\ r[0].b = b0
    BY <1>2
  <2>3. Good(0)
    BY <2>1, <2>2
  <2>4. 0 \in 0..L
    BY <1>1
  <2> HIDE DEF Good, L
  <2> QED BY <2>3, <2>4
<1>5. ASSUME NEW j \in 0..L, j \in P, j < L PROVE j + 1 \in P
  <2> DEFINE v == from + j
             s == r[j]
             t == r[j + 1]
  <2>1. j \in 0..(L - 1) /\ j + 1 \in 0..L /\ j \in Nat
    BY <1>1, <1>5
  <2>2. v \in 0..MaxSize /\ v + 1 \in DOMAIN vs /\ v + 1 \in (from + 1)..Len(vs) /\ v - D = v + 1
    <3>1. v \in Nat /\ v \in 0..Len(vs) /\ v + 1 \in 1..Len(vs) /\ v + 1 \in (from + 1)..Len(vs)
      BY <1>1, <2>1
    <3>2. DOMAIN vs = 1..Len(vs)
      OBVIOUS
    <3> HIDE DEF v
    <3> QED BY <1>1, <3>1, <3>2, Numbers
  <2>3. t = shift_step(s, vs, v, D) /\ s \in ShiftStates(n)
    BY <1>2, <1>5, <2>1
  <2>4. ~s.hung /\ \A x \in Slots(n) : s.b[x] = Lowered(b0[x], from, j)
    BY <1>5
  <2>5. PICK i \in Slots(n) : b0[i].full /\ b0[i].index = v + 1
    BY <2>2 DEF HasLater
  <2> HIDE DEF s, t
  <2>6. \A x \in Slots(n) : s.b[x].full /\ s.b[x].index = v + 1 <=> b0[x].full /\ b0[x].index = v + 1
    <3> SUFFICES ASSUME NEW x \in Slots(n)
                 PROVE  s.b[x].full /\ s.b[x].index = v + 1 <=> b0[x].full /\ b0[x].index = v + 1
      OBVIOUS
    <3>1. CASE b0[x].full /\ b0[x].index \in (from + 1)..(from + j)
      <4>1. s.b[x] = [b0[x] EXCEPT !.index = b0[x].index - 1]
        BY <2>4, <3>1 DEF Lowered
      <4>2. s.b[x].index = b0[x].index - 1
        BY <1>3, <4>1 DEF Cell
      <4> QED BY <1>1, <1>3, <2>1, <3>1, <4>2
    <3>2. CASE ~(b0[x].full /\ b0[x].index \in (from + 1)..(from + j))
      BY <2>4, <3>2 DEF Lowered
    <3> QED BY <3>1, <3>2
  <2>7. IsHit(s.b, vs, v, D, i, n)
    BY <2>2, <2>5, <2>6 DEF Distinct, IsHit
  <2> HIDE DEF v
  <2>8. /\ ~t.hung
        /\ \A x \in Slots(n) : t.b[x] = IF x = i THEN [s.b[x] EXCEPT !.index = v] ELSE s.b[x]
    <3>1. v \in 0..MaxSize /\ v + 1 \in DOMAIN vs /\ s \in ShiftStates(n) /\ ~s.hung /\ D \in Int
      BY <1>1, <2>2, <2>3, <2>4
    <3>2. /\ ~shift_step(s, vs, v, D).hung
          /\ \A x \in Slots(n) :
               shift_step(s, vs, v, D).b[x] =
                 IF x = i THEN [s.b[x] EXCEPT !.index = v] ELSE s.b[x]
      BY <2>7, <3>1, ShiftHit
    <3> QED BY <2>3, <3>2
  <2>9. ASSUME NEW x \in Slots(n) PROVE t.b[x] = Lowered(b0[x], from, j + 1)
    <3>1. CASE x = i
      <4>1. b0[i].index - 1 = v /\ b0[i].index \in (from + 1)..(from + (j + 1))
            /\ ~(b0[i].index \in (from + 1)..(from + j))
        BY <1>1, <2>1, <2>5 DEF v
      <4>2. s.b[i] = b0[i]
        BY <2>4, <4>1 DEF Lowered
      <4> QED BY <2>5, <2>8, <3>1, <4>1, <4>2 DEF Lowered
    <3>2. CASE x # i
      <4>1. b0[x].full => b0[x].index # v + 1
        BY <2>5, <3>2 DEF Distinct
      <4>2. b0[x].full => (b0[x].index \in (from + 1)..(from + (j + 1))
                           <=> b0[x].index \in (from + 1)..(from + j))
        <5>1. b0[x].full => b0[x].index # from + j + 1 /\ b0[x].index \in Nat
          BY <1>3, <4>1 DEF v
        <5> QED BY <1>1, <2>1, <5>1
      <4>3. Lowered(b0[x], from, j + 1) = Lowered(b0[x], from, j)
        BY <4>2 DEF Lowered
      <4> QED BY <2>4, <2>8, <3>2, <4>3
    <3> QED BY <3>1, <3>2
  <2>10. Good(j + 1)
    BY <2>8, <2>9 DEF t
  <2> HIDE DEF Good
  <2> QED BY <2>1, <2>10
<1>6. L \in P
  <2>1. \A j \in 0..L : j \in P
    <3> HIDE DEF P, L
    <3> QED BY <1>1, <1>4, <1>5, Steps
  <2>2. L \in 0..L
    BY <1>1
  <2> HIDE DEF P
  <2> QED BY <2>1, <2>2
<1>7. r[L] \in ShiftStates(n)
  BY <1>1, <1>2
<1> QED BY <1>2, <1>6, <1>7 DEF ShiftStates, D, Down

Raised(c, p, j) ==
  IF c.full /\ c.index \in p..(p + j - 1) THEN [c EXCEPT !.index = c.index + 1] ELSE c

DistinctBut(b, w, n) ==
  \A x, y \in Slots(n) :
    x # w /\ y # w /\ b[x].full /\ b[y].full /\ b[x].index = b[y].index => x = y

AllHome(b, n) == \A x \in Slots(n) : b[x].full => Away(b[x], x, n) = 0

(* The values after position p have their old positions.                   *)
HasNext(b, vs, p, w, n) ==
  \A q \in p..(Len(vs) - 2) : \E i \in Slots(n) :
    /\ i # w /\ b[i].full /\ b[i].index = q
    /\ Home(b[i], n) = Hash[vs[q + 2][1]] % n

Up(b, vs, p) == shift_indexes(b, vs, p + 1, 1)

(* After an insertion at position p, of the entry in bucket w, all later   *)
(* values get their new positions, when every entry is in its ideal bucket.*)
LEMMA ShiftUp ==
  ASSUME NEW n \in Nat \ {0}, NEW b0 \in Tables(n), NEW w \in Slots(n),
         DistinctBut(b0, w, n), AllHome(b0, n),
         NEW vs \in Seq(Entries), Len(vs) <= MaxSize, NEW p \in 0..(Len(vs) - 1),
         HasNext(b0, vs, p, w, n)
  PROVE  /\ ~Up(b0, vs, p).hung
         /\ Up(b0, vs, p).b \in Tables(n)
         /\ \A x \in Slots(n) :
              Up(b0, vs, p).b[x] = IF x = w THEN b0[x] ELSE Raised(b0[x], p, Len(vs) - (p + 1))
<1> DEFINE from == p + 1
           L == Len(vs) - from
           D == 1
<1>1. /\ Len(vs) \in Nat /\ L \in Nat /\ from \in 0..Len(vs) /\ p \in Nat /\ D \in Int
      /\ \A v \in Nat : v - D = v - 1
  OBVIOUS
<1> HIDE DEF D
<1>2. PICK r : IsShiftRun(r, b0, vs, from, D, n)
  <2> HIDE DEF from
  <2> QED BY <1>1, ShiftIndexRuns
<1>3. /\ shift_indexes(b0, vs, from, D) = r[L]
      /\ r[0] = [b |-> b0, hung |-> FALSE]
      /\ \A j \in 0..(L - 1) : r[j + 1] = shift_step(r[j], vs, from + j, D)
      /\ \A j \in 0..L : r[j] \in ShiftStates(n)
  BY <1>2 DEF IsShiftRun
<1>4. \A x \in Slots(n) : b0[x] \in Cell /\ b0[x].index \in Nat /\ b0[x].full \in BOOLEAN
  BY Numbers DEF Tables, Cell
<1> DEFINE Good(j) == /\ ~r[j].hung
                      /\ \A x \in Slots(n) : r[j].b[x] = IF x = w THEN b0[x] ELSE Raised(b0[x], p, j)
           P == {j \in 0..L : Good(j)}
<1>5. 0 \in P
  <2>1. p..(p + 0 - 1) = {}
    BY <1>1
  <2>2. \A x \in Slots(n) : Raised(b0[x], p, 0) = b0[x]
    BY <2>1 DEF Raised
  <2>3. ~r[0].hung /\ r[0].b = b0
    BY <1>3
  <2>4. Good(0)
    BY <2>2, <2>3
  <2>5. 0 \in 0..L
    BY <1>1
  <2> HIDE DEF Good, L
  <2> QED BY <2>4, <2>5
<1>6. ASSUME NEW j \in 0..L, j \in P, j < L PROVE j + 1 \in P
  <2> DEFINE v == from + j
             q == p + j
             s == r[j]
             t == r[j + 1]
  <2>1. j \in 0..(L - 1) /\ j + 1 \in 0..L /\ j \in Nat
    <3>1. L \in Nat /\ j \in 0..L /\ j < L
      BY <1>1, <1>6
    <3> HIDE DEF L
    <3> QED BY <3>1
  <2>2. /\ v \in 0..MaxSize /\ v + 1 \in DOMAIN vs /\ v - D = q /\ v + 1 = q + 2
        /\ q \in p..(Len(vs) - 2) /\ v = q + 1
    <3>1. /\ v \in Nat /\ v \in 0..Len(vs) /\ v + 1 \in 1..Len(vs) /\ v + 1 = q + 2
          /\ q \in p..(Len(vs) - 2) /\ v - 1 = q /\ v = q + 1
      BY <1>1, <2>1
    <3>2. DOMAIN vs = 1..Len(vs)
      OBVIOUS
    <3> HIDE DEF v, q
    <3>3. v - D = q
      BY <1>1, <3>1
    <3>4. v \in 0..MaxSize
      BY <1>1, <3>1, Numbers
    <3> QED BY <3>1, <3>2, <3>3, <3>4
  <2>3. t = shift_step(s, vs, v, D) /\ s \in ShiftStates(n)
    BY <1>3, <1>6, <2>1
  <2>4. ~s.hung /\ \A x \in Slots(n) : s.b[x] = IF x = w THEN b0[x] ELSE Raised(b0[x], p, j)
    BY <1>6
  <2>5. PICK i \in Slots(n) : /\ i # w /\ b0[i].full /\ b0[i].index = q
                              /\ Home(b0[i], n) = Hash[vs[q + 2][1]] % n
    <3> HIDE DEF q
    <3> QED BY <2>2 DEF HasNext
  <2>12. /\ q \in p..(p + (j + 1) - 1)
         /\ \A u \in Nat : u # q => (u \in p..(p + (j + 1) - 1) <=> u \in p..(p + j - 1))
    BY <1>1, <2>1
  <2> HIDE DEF s, t
  <2>6. s.b[i] = b0[i]
    <3>1. ~(q \in p..(p + j - 1))
      BY <1>1, <2>1
    <3> HIDE DEF q
    <3> QED BY <2>4, <2>5, <3>1 DEF Raised
  <2>7. i = Hash[vs[v + 1][1]] % n
    <3>1. Home(b0[i], n) \in Slots(n) /\ Off(Home(b0[i], n), i, n) = 0
      BY <1>4, <2>5, CellIs DEF Away, AllHome
    <3>2. i = Home(b0[i], n)
      BY <3>1, OffIs
    <3> QED BY <2>2, <2>5, <3>2
  <2>8. IsHit(s.b, vs, v, D, i, n)
    BY <2>2, <2>5, <2>6, <2>7 DEF IsHit
  <2> HIDE DEF v
  <2>9. /\ ~t.hung
        /\ \A x \in Slots(n) : t.b[x] = IF x = i THEN [s.b[x] EXCEPT !.index = v] ELSE s.b[x]
    <3>1. v \in 0..MaxSize /\ v + 1 \in DOMAIN vs /\ s \in ShiftStates(n) /\ ~s.hung /\ D \in Int
      BY <1>1, <2>2, <2>3, <2>4
    <3>2. /\ ~shift_step(s, vs, v, D).hung
          /\ \A x \in Slots(n) :
               shift_step(s, vs, v, D).b[x] =
                 IF x = i THEN [s.b[x] EXCEPT !.index = v] ELSE s.b[x]
      BY <2>8, <3>1, ShiftHit
    <3> QED BY <2>3, <3>2
  <2>10. ASSUME NEW x \in Slots(n)
         PROVE  t.b[x] = IF x = w THEN b0[x] ELSE Raised(b0[x], p, j + 1)
    <3>1. CASE x = i
      <4>1. b0[i].index + 1 = v /\ b0[i].index \in p..(p + (j + 1) - 1)
        <5> HIDE DEF q
        <5> QED BY <2>2, <2>5, <2>12
      <4> QED BY <2>5, <2>6, <2>9, <3>1, <4>1 DEF Raised
    <3>2. CASE x = w
      BY <2>4, <2>5, <2>9, <3>2
    <3>3. CASE x # i /\ x # w
      <4>1. b0[x].full => b0[x].index # q
        BY <2>5, <3>3 DEF DistinctBut
      <4>2. b0[x].full => (b0[x].index \in p..(p + (j + 1) - 1) <=> b0[x].index \in p..(p + j - 1))
        <5> HIDE DEF q
        <5> QED BY <1>4, <2>12, <4>1
      <4>3. Raised(b0[x], p, j + 1) = Raised(b0[x], p, j)
        BY <4>2 DEF Raised
      <4> QED BY <2>4, <2>9, <3>3, <4>3
    <3> QED BY <3>1, <3>2, <3>3
  <2>11. Good(j + 1)
    BY <2>9, <2>10 DEF t
  <2> HIDE DEF Good
  <2> QED BY <2>1, <2>11
<1>7. L \in P
  <2>1. \A j \in 0..L : j \in P
    <3> HIDE DEF P, L
    <3> QED BY <1>1, <1>5, <1>6, Steps
  <2>2. L \in 0..L
    BY <1>1
  <2> HIDE DEF P
  <2> QED BY <2>1, <2>2
<1>8. r[L] \in ShiftStates(n)
  BY <1>1, <1>3
<1> QED BY <1>3, <1>7, <1>8 DEF ShiftStates, D, Up

-----------------------------------------------------------------------------
(* Erasing a range.                                                        *)

Lower(c, from, to) ==
  IF c.full /\ c.index >= to THEN [c EXCEPT !.index = c.index - (to - from)] ELSE c

LEMMA LowerIs ==
  ASSUME NEW c \in Cell, NEW from \in Nat, NEW to \in Nat, from < to
  PROVE  /\ Lower(c, from, to) \in Cell
         /\ Lower(c, from, to).full = c.full
         /\ Lower(c, from, to).hash = c.hash
         /\ Lower(c, from, to).index =
              IF c.full /\ c.index >= to THEN c.index - (to - from) ELSE c.index
<1>1. c.index \in 0..MaxSize /\ MaxSize \in Nat
  BY Numbers DEF Cell
<1>2. c.index >= to => c.index - (to - from) \in 0..MaxSize
  BY <1>1
<1>3. \A q \in 0..MaxSize : /\ [c EXCEPT !.index = q] \in Cell
                            /\ [c EXCEPT !.index = q].full = c.full
                            /\ [c EXCEPT !.index = q].hash = c.hash
                            /\ [c EXCEPT !.index = q].index = q
  BY DEF Cell
<1> QED BY <1>2, <1>3 DEF Lower

(* Where the entries sit, whatever their positions.                        *)
SameSpots(b, c, n) == \A x \in Slots(n) : (b[x].full <=> c[x].full) /\ b[x].hash = c[x].hash

LEMMA SameRank ==
  ASSUME NEW n \in Nat \ {0}, NEW b \in Tables(n), NEW c \in Tables(n), SameSpots(b, c, n)
  PROVE  /\ \A x \in Slots(n) : Rank(b, x, n) = Rank(c, x, n)
         /\ Ordered(b, n) <=> Ordered(c, n)
         /\ \A i \in Slots(n) : ShiftRun(b, i) = ShiftRun(c, i)
         /\ \A i \in Slots(n) : SameSpots(Emptied(b, i), Emptied(c, i), n)
<1>1. \A x \in Slots(n) : Rank(b, x, n) = Rank(c, x, n)
  BY DEF SameSpots, Rank, Away, Home
<1>2. Ordered(b, n) <=> Ordered(c, n)
  BY <1>1, FwdIs DEF Ordered
<1>3. ASSUME NEW i \in Slots(n) PROVE ShiftRun(b, i) = ShiftRun(c, i)
  <2>1. /\ ShiftRun(b, i) \in Slots(n) /\ ShiftRun(c, i) \in Slots(n)
        /\ ShiftRun(b, i) = n - 1 \/ ~Movable(b, At(i, ShiftRun(b, i) + 1, n))
        /\ ShiftRun(c, i) = n - 1 \/ ~Movable(c, At(i, ShiftRun(c, i) + 1, n))
    BY ShiftRunIs
  <2>2. /\ \A o \in Slots(n) : o = n - 1 \/ ~Movable(b, At(i, o + 1, n)) => ShiftRun(b, i) <= o
        /\ \A o \in Slots(n) : o = n - 1 \/ ~Movable(c, At(i, o + 1, n)) => ShiftRun(c, i) <= o
    BY ShiftRunIs
  <2>3. \A o \in Slots(n) : o # n - 1 => At(i, o + 1, n) \in Slots(n)
    <3> SUFFICES ASSUME NEW o \in Slots(n), o # n - 1 PROVE At(i, o + 1, n) \in Slots(n)
      OBVIOUS
    <3>1. o + 1 \in Slots(n)
      BY DEF Slots
    <3> QED BY <3>1, AtIs
  <2>4. \A x \in Slots(n) : Movable(b, x) <=> Movable(c, x)
    BY <1>1, MovableIs
  <2>5. ShiftRun(c, i) <= ShiftRun(b, i)
    BY <2>1, <2>2, <2>3, <2>4
  <2>6. ShiftRun(b, i) <= ShiftRun(c, i)
    BY <2>1, <2>2, <2>3, <2>4
  <2> QED BY <2>1, <2>5, <2>6 DEF Slots
<1>4. \A i \in Slots(n) : SameSpots(Emptied(b, i), Emptied(c, i), n)
  BY DEF SameSpots, Emptied, Tables
<1> QED BY <1>1, <1>2, <1>3, <1>4

(* With no displaced entry in bucket 0 a shift does not go beyond the last *)
(* bucket.                                                                 *)
LEMMA NoWrap ==
  ASSUME NEW n \in Nat \ {0}, NEW u \in Tables(n), NEW i \in Slots(n), Rank(u, 0, n) <= 1,
         NEW x \in Slots(n), x < i
  PROVE  Off(i, x, n) > ShiftRun(Emptied(u, i), i)
<1> DEFINE r == ShiftRun(Emptied(u, i), i)
           o == n - 1 - i
<1>1. Emptied(u, i) \in Tables(n) /\ \A y \in Slots(n) :
        Rank(Emptied(u, i), y, n) = IF y = i THEN 0 ELSE Rank(u, y, n)
  BY ErasedRank
<1>2. /\ i \in 0..(n - 1) /\ i # 0 /\ o \in Slots(n) /\ 0 \in Slots(n)
      /\ At(i, o + 1, n) = 0 /\ Off(i, x, n) > o
  BY DEF Slots, At, Off
<1>3. ~Movable(Emptied(u, i), 0)
  <2>1. Rank(Emptied(u, i), 0, n) = Rank(u, 0, n) /\ Rank(u, 0, n) \in 0..n
    BY <1>1, <1>2, RankIs
  <2> QED BY <1>1, <1>2, <2>1, MovableIs
<1>4. r \in Slots(n) /\ r <= o
  <2> HIDE DEF o
  <2> QED BY <1>1, <1>2, <1>3, ShiftRunIs
<1>5. Off(i, x, n) \in Slots(n)
  BY OffIs
<1> HIDE DEF r, o
<1> QED BY <1>2, <1>4, <1>5 DEF Slots, r

(* Shifting back in step with the same buckets that keep their indexes.    *)
LEMMA ShiftTogether ==
  ASSUME NEW n \in Nat \ {0}, NEW u \in Tables(n), NEW b \in Tables(n), NEW i \in Slots(n),
         Rank(u, 0, n) <= 1, NEW from \in Nat, NEW to \in Nat, from < to,
         \A x \in Slots(n) : b[x] = IF x < i THEN Lower(u[x], from, to) ELSE u[x]
  PROVE  /\ \A x \in Slots(n) : x < i => backward_shift(Emptied(u, i), i)[x] = u[x]
         /\ \A x \in Slots(n) : backward_shift(Emptied(b, i), i)[x] =
              IF x < i THEN Lower(backward_shift(Emptied(u, i), i)[x], from, to)
              ELSE backward_shift(Emptied(u, i), i)[x]
<1> DEFINE v == Emptied(u, i)
           c == Emptied(b, i)
           r == ShiftRun(v, i)
<1>1. v \in Tables(n) /\ c \in Tables(n)
  BY ErasedRank
<1>2. SameSpots(b, u, n)
  <2>1. \A x \in Slots(n) : u[x] \in Cell
    BY DEF Tables
  <2> QED BY <2>1, LowerIs DEF SameSpots
<1>3. ShiftRun(c, i) = r
  <2>1. SameSpots(c, v, n)
    BY <1>2, SameRank
  <2> HIDE DEF c, v
  <2> QED BY <1>1, <2>1, SameRank DEF v
<1>4. \A x \in Slots(n) : v[x] = (IF x = i THEN Empty ELSE u[x])
                          /\ c[x] = (IF x = i THEN Empty ELSE b[x])
  BY ErasedRank
<1> HIDE DEF v, c
<1>5. \A x \in Slots(n) :
        backward_shift(v, i)[x] =
          IF Off(i, x, n) < r THEN v[Fwd(x, n)] ELSE IF Off(i, x, n) = r THEN Empty ELSE v[x]
  BY <1>1, ShiftedIs
<1>6. \A x \in Slots(n) :
        backward_shift(c, i)[x] =
          IF Off(i, x, n) < r THEN c[Fwd(x, n)] ELSE IF Off(i, x, n) = r THEN Empty ELSE c[x]
  BY <1>1, <1>3, ShiftedIs
<1>7. r \in Slots(n) /\ \A x \in Slots(n) : Off(i, x, n) \in Slots(n)
  BY <1>1, ShiftRunIs, OffIs
<1>8. ASSUME NEW x \in Slots(n), x < i
      PROVE  backward_shift(v, i)[x] = u[x] /\ backward_shift(c, i)[x] = b[x]
  <2>1. Off(i, x, n) > r
    BY <1>8, NoWrap DEF v
  <2>2. ~(Off(i, x, n) < r) /\ Off(i, x, n) # r /\ x # i
    BY <1>7, <1>8, <2>1 DEF Slots
  <2> HIDE DEF r
  <2> QED BY <1>4, <1>5, <1>6, <2>2
<1>9. ASSUME NEW x \in Slots(n), ~(x < i)
      PROVE  backward_shift(v, i)[x] = backward_shift(c, i)[x]
  <2>1. CASE Off(i, x, n) < r
    <3>1. x # n - 1
      <4>1. x = n - 1 => Off(i, x, n) = n - 1 - i /\ r <= n - 1 - i
        <5> SUFFICES ASSUME x = n - 1 PROVE Off(i, x, n) = n - 1 - i /\ r <= n - 1 - i
          OBVIOUS
        <5>1. Off(i, x, n) = n - 1 - i
          BY DEF Off, Slots
        <5>2. r <= n - 1 - i
          <6>1. CASE i = 0
            BY <1>7, <6>1 DEF Slots
          <6>2. CASE i # 0
            <7>1. 0 \in Slots(n) /\ 0 < i /\ Off(i, 0, n) = n - i
              BY <6>2 DEF Slots, Off
            <7>2. n - i > r
              BY <7>1, NoWrap DEF v
            <7> HIDE DEF r
            <7> QED BY <1>7, <7>2 DEF Slots
          <6> QED BY <6>1, <6>2
        <5> QED BY <5>1, <5>2
      <4> HIDE DEF r
      <4> QED BY <1>7, <2>1, <4>1 DEF Slots
    <3>2. Fwd(x, n) \in Slots(n) /\ ~(Fwd(x, n) < i)
      BY <1>9, <3>1 DEF Fwd, Slots
    <3>3. v[Fwd(x, n)] = c[Fwd(x, n)]
      BY <1>4, <3>2
    <3> HIDE DEF r
    <3> QED BY <1>5, <1>6, <2>1, <3>3
  <2>2. CASE ~(Off(i, x, n) < r)
    <3>1. v[x] = c[x]
      BY <1>4, <1>9
    <3> HIDE DEF r
    <3> QED BY <1>5, <1>6, <2>2, <3>1
  <2> QED BY <2>1, <2>2
<1> QED BY <1>8, <1>9 DEF v, c
RangeStates(n) == [b : Tables(n), i : 0..n]

LEMMA RangeStepType ==
  ASSUME NEW n \in Nat \ {0}, NEW s \in RangeStates(n), NEW from \in Nat, NEW to \in Nat, from < to
  PROVE  range_step(s, from, to) \in RangeStates(n)
<1>1. s.b \in Tables(n) /\ s.i \in 0..n
  BY DEF RangeStates
<1>2. CASE s.i = n
  <2>1. Size(s.b) = n
    BY <1>1, SizeIs DEF Tables
  <2> QED BY <1>2, <2>1 DEF range_step
<1>3. CASE s.i # n
  <2> DEFINE i == s.i
             x == s.b[i].index
  <2>1. i \in Slots(n) /\ i + 1 \in 0..n /\ i \in 0..n
    BY <1>1, <1>3 DEF Slots
  <2>2. Size(s.b) = n /\ s.b[i] \in Cell
    BY <1>1, <2>1, TableIs DEF Tables
  <2>3. CASE ~s.b[i].full \/ x < from
    <3>1. range_step(s, from, to) = [b |-> s.b, i |-> i + 1]
      BY <1>3, <2>2, <2>3 DEF range_step
    <3> QED BY <1>1, <2>1, <3>1 DEF RangeStates
  <2>4. CASE ~(~s.b[i].full \/ x < from) /\ x < to
    <3>1. range_step(s, from, to) = [b |-> backward_shift(Emptied(s.b, i), i), i |-> i]
      BY <1>3, <2>2, <2>4 DEF range_step, Emptied
    <3>2. backward_shift(Emptied(s.b, i), i) \in Tables(n)
      BY <1>1, <2>1, ErasedRank, ShiftedIs
    <3> QED BY <2>1, <3>1, <3>2 DEF RangeStates
  <2>5. CASE ~(~s.b[i].full \/ x < from) /\ ~(x < to)
    <3>1. range_step(s, from, to)
            = [b |-> [s.b EXCEPT ![i] = [@ EXCEPT !.index = x - (to - from)]], i |-> i + 1]
      BY <1>3, <2>2, <2>5 DEF range_step
    <3>2. x \in 0..MaxSize
      BY <2>2, CellIs, <2>1
    <3>3. x - (to - from) \in 0..MaxSize
      BY <3>2, <2>5, Numbers
    <3>4. [s.b[i] EXCEPT !.index = x - (to - from)] \in Cell
      BY <2>2, <3>3 DEF Cell
    <3>5. [s.b EXCEPT ![i] = [@ EXCEPT !.index = x - (to - from)]] \in Tables(n)
      BY <1>1, <2>1, <3>4 DEF Tables
    <3> QED BY <2>1, <3>1, <3>5 DEF RangeStates
  <2> QED BY <2>3, <2>4, <2>5
<1> QED BY <1>2, <1>3

(* Before step j the buckets before s.i are done; u are the buckets        *)
(* without renumbering.                                                    *)
Erasing(s, u, b0, from, to, j, n) ==
  /\ Ordered(u, n) /\ Distinct(u, n) /\ Rank(u, 0, n) <= 1
  /\ \A x \in Slots(n) : s.b[x] = IF x < s.i THEN Lower(u[x], from, to) ELSE u[x]
  /\ \A x \in Slots(n) : x < s.i /\ u[x].full => u[x].index < from \/ u[x].index >= to
  /\ \A x \in Slots(n) : u[x].full => \E y \in Slots(n) : b0[y].full /\ u[x] = b0[y]
  /\ \A y \in Slots(n) : b0[y].full /\ (b0[y].index < from \/ b0[y].index >= to) =>
       \E x \in Slots(n) : u[x] = b0[y]
  /\ s.i < n => \E G \in SUBSET (from..(to - 1)) :
                  /\ j <= s.i + Cardinality(G)
                  /\ \A x \in Slots(n) : u[x].full => u[x].index \notin G

LEMMA EraseNext ==
  ASSUME NEW n \in Nat \ {0}, NEW s \in RangeStates(n), NEW b0 \in Tables(n), NEW j \in Nat,
         NEW from \in Nat, NEW to \in Nat, from < to, NEW L \in Nat, n > 2 => L < n,
         \A x \in Slots(n) : b0[x].full => b0[x].index \in 0..(L - 1),
         NEW u \in Tables(n), Erasing(s, u, b0, from, to, j, n)
  PROVE  \E v \in Tables(n) : Erasing(range_step(s, from, to), v, b0, from, to, j + 1, n)
<1>1. s.b \in Tables(n) /\ s.i \in 0..n /\ Size(s.b) = n
  BY SizeIs DEF RangeStates, Tables
<1>2. CASE s.i = n
  <2>1. range_step(s, from, to) = s
    BY <1>1, <1>2 DEF range_step
  <2> QED BY <1>2, <2>1 DEF Erasing
<1>3. CASE s.i # n
  <2> DEFINE i == s.i
             t == range_step(s, from, to)
  <2>1. i \in Slots(n) /\ i \in Nat /\ i < n /\ i + 1 \in Nat
    BY <1>1, <1>3 DEF Slots
  <2>2. s.b[i] = u[i] /\ u[i] \in Cell /\ u[i].index \in Nat
    <3>1. ~(i < i)
      BY <2>1
    <3>2. s.b[i] = u[i]
      BY <2>1, <3>1 DEF Erasing
    <3>3. u[i] \in Cell
      BY <2>1 DEF Tables
    <3> QED BY <2>1, <3>2, <3>3, CellIs, Numbers
  <2>3. PICK G \in SUBSET (from..(to - 1)) :
              /\ j <= i + Cardinality(G)
              /\ \A x \in Slots(n) : u[x].full => u[x].index \notin G
    BY <2>1 DEF Erasing
  <2>4. IsFiniteSet(G) /\ Cardinality(G) \in Nat
    <3>1. IsFiniteSet(from..(to - 1))
      <4>1. from \in Int /\ to - 1 \in Int
        OBVIOUS
      <4> QED BY <4>1, FS_Interval
    <3>2. IsFiniteSet(G)
      BY <3>1, FS_Subset
    <3> QED BY <3>2, FS_CardinalityType
  <2>5. CASE u[i].full => u[i].index < from \/ u[i].index >= to
    <3>1. /\ t.i = i + 1
          /\ \A x \in Slots(n) : t.b[x] = IF x = i THEN Lower(u[x], from, to) ELSE s.b[x]
      <4>1. CASE ~u[i].full \/ u[i].index < from
        <5>1. t = [b |-> s.b, i |-> i + 1]
          BY <1>1, <1>3, <2>2, <4>1 DEF range_step
        <5>2. Lower(u[i], from, to) = u[i]
          BY <2>2, <4>1 DEF Lower
        <5> QED BY <2>2, <5>1, <5>2
      <4>2. CASE ~(~u[i].full \/ u[i].index < from)
        <5>1. ~(u[i].index < to) /\ u[i].full /\ u[i].index >= to
          BY <2>2, <2>5, <4>2
        <5>2. t = [b |-> [s.b EXCEPT ![i] = [@ EXCEPT !.index = u[i].index - (to - from)]],
                   i |-> i + 1]
          BY <1>1, <1>3, <2>2, <4>2, <5>1 DEF range_step
        <5>3. Lower(u[i], from, to) = [u[i] EXCEPT !.index = u[i].index - (to - from)]
          BY <5>1 DEF Lower
        <5> QED BY <1>1, <2>1, <2>2, <5>2, <5>3 DEF Tables
      <4> QED BY <4>1, <4>2
    <3>2. \A x \in Slots(n) : (x < i + 1) <=> (x < i \/ x = i)
      BY <2>1 DEF Slots
    <3>3. \A x \in Slots(n) : t.b[x] = IF x < t.i THEN Lower(u[x], from, to) ELSE u[x]
      <4>1. \A x \in Slots(n) : s.b[x] = IF x < i THEN Lower(u[x], from, to) ELSE u[x]
        BY DEF Erasing
      <4> HIDE DEF t, i
      <4> QED BY <3>1, <3>2, <4>1
    <3>4. \A x \in Slots(n) : x < t.i /\ u[x].full => u[x].index < from \/ u[x].index >= to
      <4>1. \A x \in Slots(n) : x < i /\ u[x].full => u[x].index < from \/ u[x].index >= to
        BY DEF Erasing
      <4> HIDE DEF t, i
      <4> QED BY <2>5, <3>1, <3>2, <4>1
    <3>5. j + 1 <= t.i + Cardinality(G)
      BY <2>1, <2>3, <2>4, <3>1
    <3>6. Erasing(t, u, b0, from, to, j + 1, n)
      <4> HIDE DEF t
      <4> QED BY <2>3, <3>3, <3>4, <3>5 DEF Erasing
    <3> QED BY <3>6
  <2>6. CASE ~(u[i].full => u[i].index < from \/ u[i].index >= to)
    <3> DEFINE p == u[i].index
               v == backward_shift(Emptied(u, i), i)
    <3>1. u[i].full /\ p \in from..(to - 1) /\ p < to /\ ~(p < from)
      BY <2>2, <2>6
    <3>2. t = [b |-> backward_shift(Emptied(s.b, i), i), i |-> i]
      BY <1>1, <1>3, <2>2, <3>1 DEF range_step, Emptied
    <3>3. v \in Tables(n)
      BY <2>1, ErasedRank, ShiftedIs
    <3>4. \A x \in Slots(n) : u[x].full => \E y \in Slots(n) : b0[y].full /\ u[x] = b0[y]
      BY DEF Erasing
    <3>5. n > 2 => \E m \in Slots(n) : m # i /\ ~u[m].full
      <4> HAVE n > 2
      <4>1. IsFiniteSet(0..(L - 1)) /\ Cardinality(0..(L - 1)) < n
        BY Below
      <4>2. \A x \in Slots(n) : u[x].full => u[x].index \in 0..(L - 1)
        BY <3>4
      <4>3. Distinct(u, n)
        BY DEF Erasing
      <4>4. PICK m \in Slots(n) : ~u[m].full
        BY <4>1, <4>2, <4>3, RoomIs
      <4> QED BY <3>1, <4>4
    <3>6. Ordered(v, n)
      BY <2>1, <3>5, ShiftedOrder DEF Erasing
    <3>7. Rank(u, 0, n) <= 1
      BY DEF Erasing
    <3>8. \A x \in Slots(n) : s.b[x] = IF x < i THEN Lower(u[x], from, to) ELSE u[x]
      BY DEF Erasing
    <3>9. /\ \A x \in Slots(n) : x < i => v[x] = u[x]
          /\ \A x \in Slots(n) : t.b[x] = IF x < t.i THEN Lower(v[x], from, to) ELSE v[x]
      <4>1. /\ \A x \in Slots(n) : x < i => v[x] = u[x]
            /\ \A x \in Slots(n) : backward_shift(Emptied(s.b, i), i)[x] =
                 IF x < i THEN Lower(v[x], from, to) ELSE v[x]
        <5>1. s.b \in Tables(n) /\ i \in Slots(n)
          BY <1>1, <2>1
        <5> HIDE DEF i, v
        <5>2. /\ \A x \in Slots(n) : x < i => backward_shift(Emptied(u, i), i)[x] = u[x]
              /\ \A x \in Slots(n) : backward_shift(Emptied(s.b, i), i)[x] =
                   IF x < i THEN Lower(backward_shift(Emptied(u, i), i)[x], from, to)
                   ELSE backward_shift(Emptied(u, i), i)[x]
          BY <5>1, <3>7, <3>8, ShiftTogether
        <5> QED BY <5>2 DEF v
      <4>2. t.b = backward_shift(Emptied(s.b, i), i) /\ t.i = i
        BY <3>2
      <4> HIDE DEF t, v, i
      <4> QED BY <4>1, <4>2
    <3>10. /\ \A x \in Slots(n) : v[x].full =>
                 \E y \in Slots(n) : y # i /\ u[y].full /\ v[x] = u[y]
           /\ \A y \in Slots(n) : y # i /\ u[y].full => \E x \in Slots(n) : v[x] = u[y]
           /\ Distinct(v, n)
      <4>1. Distinct(u, n)
        BY DEF Erasing
      <4> HIDE DEF i
      <4> QED BY <2>1, <4>1, ShiftedHolds
    <3>11. Rank(v, 0, n) <= 1
      <4>1. 0 \in Slots(n)
        BY DEF Slots
      <4>2. CASE i = 0
        <5>1. Off(i, 0, n) = 0 /\ ShiftRun(Emptied(u, i), i) \in Nat
          <6>1. Emptied(u, i) \in Tables(n)
            BY <2>1, ErasedRank
          <6>2. ShiftRun(Emptied(u, i), i) \in Slots(n)
            BY <2>1, <6>1, ShiftRunIs
          <6> QED BY <4>2, <6>2 DEF Off, Slots
        <5>2. Off(i, 0, n) < ShiftRun(Emptied(u, i), i) =>
                Rank(v, 0, n) = Rank(u, Fwd(0, n), n) - 1
          BY <2>1, <4>1, ShiftedRank
        <5>3. Off(i, 0, n) = ShiftRun(Emptied(u, i), i) => Rank(v, 0, n) = 0
          BY <2>1, <4>1, ShiftedRank
        <5>4. Rank(u, Fwd(0, n), n) <= Rank(u, 0, n) + 1
          BY <4>1 DEF Erasing, Ordered
        <5>5. Fwd(0, n) \in Slots(n)
          BY <4>1, FwdIs
        <5>6. Rank(u, 0, n) \in 0..n /\ Rank(u, Fwd(0, n), n) \in 0..n
          BY <4>1, <5>5, RankIs
        <5> HIDE DEF v
        <5> QED BY <3>7, <5>1, <5>2, <5>3, <5>4, <5>6
      <4>3. CASE i # 0
        <5>1. 0 < i
          BY <2>1, <4>3
        <5>2. v[0] = u[0]
          BY <3>9, <4>1, <5>1
        <5>3. Rank(v, 0, n) = Rank(u, 0, n)
          BY <5>2 DEF Rank
        <5> QED BY <3>7, <5>3
      <4> QED BY <4>2, <4>3
    <3>12. \A x \in Slots(n) : x < t.i /\ v[x].full => v[x].index < from \/ v[x].index >= to
      <4>1. \A x \in Slots(n) : x < i /\ u[x].full => u[x].index < from \/ u[x].index >= to
        BY DEF Erasing
      <4>2. t.i = i
        BY <3>2
      <4> HIDE DEF t, v, i
      <4> QED BY <3>9, <4>1, <4>2
    <3>13. \A x \in Slots(n) : v[x].full => \E y \in Slots(n) : b0[y].full /\ v[x] = b0[y]
      <4> HIDE DEF v, i
      <4> QED BY <3>4, <3>10
    <3>14. \A y \in Slots(n) : b0[y].full /\ (b0[y].index < from \/ b0[y].index >= to) =>
             \E x \in Slots(n) : v[x] = b0[y]
      <4> SUFFICES ASSUME NEW y \in Slots(n), b0[y].full, b0[y].index < from \/ b0[y].index >= to
                   PROVE  \E x \in Slots(n) : v[x] = b0[y]
        OBVIOUS
      <4>1. PICK x \in Slots(n) : u[x] = b0[y]
        BY DEF Erasing
      <4>2. x # i
        BY <2>6, <4>1
      <4> HIDE DEF v, i
      <4> QED BY <3>10, <4>1, <4>2
    <3>15. /\ G \cup {p} \in SUBSET (from..(to - 1))
           /\ j + 1 <= t.i + Cardinality(G \cup {p})
           /\ \A x \in Slots(n) : v[x].full => v[x].index \notin G \cup {p}
      <4>1. p \notin G
        BY <2>1, <2>3, <3>1
      <4>2. Cardinality(G \cup {p}) = Cardinality(G) + 1
        BY <2>4, <4>1, FS_AddElement
      <4>3. \A x \in Slots(n) : v[x].full => v[x].index \notin G \cup {p}
        <5> SUFFICES ASSUME NEW x \in Slots(n), v[x].full PROVE v[x].index \notin G \cup {p}
          OBVIOUS
        <5>1. PICK y \in Slots(n) : y # i /\ u[y].full /\ v[x] = u[y]
          BY <3>10
        <5>2. u[y].index # p
          BY <2>1, <3>1, <5>1 DEF Erasing, Distinct
        <5>3. u[y].index \notin G
          BY <2>3, <5>1
        <5> HIDE DEF v, p
        <5> QED BY <5>1, <5>2, <5>3
      <4>4. t.i = i
        BY <3>2
      <4> HIDE DEF v, t, p
      <4> QED BY <2>1, <2>3, <2>4, <3>1, <4>2, <4>3, <4>4
    <3>16. v \in Tables(n) /\ Erasing(t, v, b0, from, to, j + 1, n)
      <4> HIDE DEF v, t, p
      <4> QED BY <3>3, <3>6, <3>9, <3>10, <3>11, <3>12, <3>13, <3>14, <3>15 DEF Erasing
    <3> QED BY <3>16
  <2> QED BY <2>5, <2>6
<1> QED BY <1>2, <1>3

IsRangeRun(r, b0, from, to, n, N) ==
  /\ range_erase(b0, from, to) = r[N].b
  /\ r[0] = [b |-> b0, i |-> 0]
  /\ \A j \in 0..(N - 1) : r[j + 1] = range_step(r[j], from, to)
  /\ \A j \in 0..N : r[j] \in RangeStates(n)

LEMMA RangeRuns ==
  ASSUME NEW n \in Nat \ {0}, NEW b0 \in Tables(n),
         NEW from \in Nat, NEW to \in Nat, from < to
  PROVE  \E r : IsRangeRun(r, b0, from, to, n, 2 * n)
<1> DEFINE N == 2 * n
           S == RangeStates(n)
           s0 == [b |-> b0, i |-> 0]
           F == [j \in 1..N |-> [s \in S |-> range_step(s, from, to)]]
<1>1. N \in Nat /\ 2 * Size(b0) = N
  BY SizeIs DEF Tables
<1>2. s0 \in S
  BY DEF RangeStates
<1>3. \A j \in 1..N : \A s \in S : range_step(s, from, to) \in S
  BY RangeStepType
<1>4. F \in [1..N -> [S -> S]]
  BY <1>3
<1>5. IsLoop(S, s0, F, N)
  BY <1>1, <1>2, <1>4 DEF IsLoop
<1>6. PICK f : IsRun(f, S, s0, F, N)
  <2> HIDE DEF S, s0, F, N
  <2> QED BY <1>5, LoopRuns
<1>7. f \in [0..N -> S] /\ f[0] = s0 /\ \A j \in 1..N : f[j] = F[j][f[j - 1]]
  BY <1>6 DEF IsRun
<1>8. \A j \in 1..N : f[j] = range_step(f[j - 1], from, to)
  <2> SUFFICES ASSUME NEW j \in 1..N PROVE f[j] = range_step(f[j - 1], from, to)
    OBVIOUS
  <2>1. j - 1 \in 0..N
    BY <1>1
  <2>2. f[j - 1] \in S /\ f[j] = F[j][f[j - 1]]
    BY <1>7, <2>1
  <2> HIDE DEF N, S
  <2> QED BY <2>2
<1> HIDE DEF s0, F
<1>9. f = [j \in 0..N |-> IF j = 0 THEN s0 ELSE range_step(f[j - 1], from, to)]
  <2>1. \A j \in 0..N : f[j] = IF j = 0 THEN s0 ELSE range_step(f[j - 1], from, to)
    <3>1. \A j \in 0..N : j = 0 \/ j \in 1..N
      BY <1>1
    <3> HIDE DEF N
    <3> QED BY <1>7, <1>8, <3>1
  <2>2. f \in [0..N -> S]
    BY <1>7
  <2> HIDE DEF N, S
  <2> QED BY <2>1, <2>2
<1> DEFINE r == CHOOSE g :
                  g = [j \in 0..N |-> IF j = 0 THEN s0 ELSE range_step(g[j - 1], from, to)]
<1>10. r = [j \in 0..N |-> IF j = 0 THEN s0 ELSE range_step(r[j - 1], from, to)]
  BY <1>9
<1>11. range_erase(b0, from, to) = r[N].b
  BY <1>1 DEF range_erase, s0
<1> HIDE DEF r
<1>12. r[0] = s0
  BY <1>1, <1>10
<1>13. \A j \in 0..(N - 1) : r[j + 1] = range_step(r[j], from, to)
  <2> SUFFICES ASSUME NEW j \in 0..(N - 1) PROVE r[j + 1] = range_step(r[j], from, to)
    OBVIOUS
  <2>1. j + 1 \in 0..N /\ j + 1 # 0 /\ (j + 1) - 1 = j
    BY <1>1
  <2> HIDE DEF N
  <2> QED BY <1>10, <2>1
<1> DEFINE P == {j \in 0..N : r[j] \in S}
<1>14. \A j \in 0..N : j \in P
  <2>1. 0 \in P
    BY <1>1, <1>2, <1>12
  <2>2. ASSUME NEW j \in 0..N, j \in P, j < N PROVE j + 1 \in P
    <3>1. j \in 0..(N - 1) /\ j + 1 \in 0..N
      BY <1>1, <2>2
    <3>2. r[j + 1] \in S
      <4>1. r[j] \in S /\ r[j + 1] = range_step(r[j], from, to)
        BY <1>13, <2>2, <3>1
      <4> HIDE DEF N
      <4> QED BY <4>1, RangeStepType
    <3> QED BY <3>1, <3>2
  <2> HIDE DEF P, N
  <2> QED BY <1>1, <2>1, <2>2, Steps
<1>15. \A j \in 0..N : r[j] \in S
  <2> HIDE DEF N, S
  <2> QED BY <1>14
<1>16. IsRangeRun(r, b0, from, to, n, N)
  <2> HIDE DEF N
  <2> QED BY <1>11, <1>12, <1>13, <1>15 DEF s0, IsRangeRun
<1> QED BY <1>16

(* c has the entries of b outside from..to - 1, renumbered.                *)
Outside(e, from, to) == e.full /\ (e.index < from \/ e.index >= to)

LowersTo(b, c, from, to, n) ==
  /\ \A x \in Slots(n) : c[x].full =>
       \E y \in Slots(n) : Outside(b[y], from, to) /\ c[x] = Lower(b[y], from, to)
  /\ \A y \in Slots(n) : Outside(b[y], from, to) =>
       \E x \in Slots(n) : c[x] = Lower(b[y], from, to)

(* Two entries outside the range keep different positions.                 *)
LEMMA LowerOnce ==
  ASSUME NEW e \in Cell, NEW f \in Cell, NEW from \in Nat, NEW to \in Nat, from < to,
         Outside(e, from, to), Outside(f, from, to),
         Lower(e, from, to).index = Lower(f, from, to).index
  PROVE  e.index = f.index
<1>1. \A p, q \in Nat :
        /\ p < from \/ p >= to
        /\ q < from \/ q >= to
        /\ (IF p >= to THEN p - (to - from) ELSE p) = (IF q >= to THEN q - (to - from) ELSE q)
        => p = q
  OBVIOUS
<1>2. e.index \in Nat /\ f.index \in Nat
  BY Numbers DEF Cell
<1>3. \A g \in Cell : g.full =>
        Lower(g, from, to).index = IF g.index >= to THEN g.index - (to - from) ELSE g.index
  <2> SUFFICES ASSUME NEW g \in Cell, g.full
               PROVE  Lower(g, from, to).index =
                        IF g.index >= to THEN g.index - (to - from) ELSE g.index
    OBVIOUS
  <2>1. CASE g.index >= to
    <3>1. Lower(g, from, to) = [g EXCEPT !.index = g.index - (to - from)]
      BY <2>1 DEF Lower
    <3> QED BY <2>1, <3>1 DEF Cell
  <2>2. CASE ~(g.index >= to)
    <3>1. Lower(g, from, to) = g
      BY <2>2 DEF Lower
    <3> QED BY <2>2, <3>1
  <2> QED BY <2>1, <2>2
<1> QED BY <1>1, <1>2, <1>3 DEF Outside

(* erase(first, last), with no entry wrapped around to bucket 0.           *)
LEMMA RangeEraseIs ==
  ASSUME NEW n \in Nat \ {0}, NEW b0 \in Tables(n), Ordered(b0, n), Distinct(b0, n),
         Rank(b0, 0, n) <= 1, NEW L \in Nat, L <= n, n > 2 => L < n,
         \A x \in Slots(n) : b0[x].full => b0[x].index \in 0..(L - 1),
         NEW from \in Nat, NEW to \in Nat, from < to, to <= L
  PROVE  /\ range_erase(b0, from, to) \in Tables(n)
         /\ Ordered(range_erase(b0, from, to), n)
         /\ Distinct(range_erase(b0, from, to), n)
         /\ LowersTo(b0, range_erase(b0, from, to), from, to, n)
<1> DEFINE N == 2 * n
<1>1. PICK r : IsRangeRun(r, b0, from, to, n, N)
  BY RangeRuns
<1>2. N \in Nat /\ N \in 0..N /\ N = 2 * n
  OBVIOUS
<1> DEFINE Good(j) == \E u \in Tables(n) : Erasing(r[j], u, b0, from, to, j, n)
           P == {j \in 0..N : Good(j)}
<1>3. \A j \in 0..N : j \in P
  <2>1. 0 \in P
    <3>1. r[0].b = b0 /\ r[0].i = 0 /\ 0 < n
      BY <1>1 DEF IsRangeRun
    <3>2. \A x \in Slots(n) : ~(x < 0)
      BY DEF Slots
    <3>3. 0 <= 0 + Cardinality({})
      BY FS_EmptySet
    <3>4. {} \in SUBSET (from..(to - 1)) /\ \A x \in Slots(n) : b0[x].index \notin {}
      OBVIOUS
    <3>5. \E G \in SUBSET (from..(to - 1)) :
                  /\ 0 <= r[0].i + Cardinality(G)
                  /\ \A x \in Slots(n) : b0[x].full => b0[x].index \notin G
      BY <3>1, <3>3, <3>4
    <3>6. Erasing(r[0], b0, b0, from, to, 0, n)
      BY <3>1, <3>2, <3>5 DEF Erasing
    <3>7. Good(0)
      BY <3>6
    <3> HIDE DEF Good
    <3> QED BY <1>2, <3>7
  <2>2. ASSUME NEW j \in 0..N, j \in P, j < N PROVE j + 1 \in P
    <3>1. j \in Nat /\ j \in 0..(N - 1) /\ j + 1 \in 0..N
      BY <1>2, <2>2
    <3>2. r[j] \in RangeStates(n) /\ r[j + 1] = range_step(r[j], from, to)
      <4> HIDE DEF N
      <4> QED BY <1>1, <2>2, <3>1 DEF IsRangeRun
    <3>3. PICK u \in Tables(n) : Erasing(r[j], u, b0, from, to, j, n)
      BY <2>2
    <3>4. \E v \in Tables(n) : Erasing(range_step(r[j], from, to), v, b0, from, to, j + 1, n)
      BY <3>1, <3>2, <3>3, EraseNext
    <3>5. Good(j + 1)
      BY <3>2, <3>4
    <3> HIDE DEF Good
    <3> QED BY <3>1, <3>5
  <2> HIDE DEF P, N
  <2> QED BY <1>2, <2>1, <2>2, Steps
<1>4. PICK u \in Tables(n) : Erasing(r[N], u, b0, from, to, N, n)
  <2>1. N \in P
    BY <1>2, <1>3
  <2> QED BY <2>1
<1> DEFINE c == range_erase(b0, from, to)
<1>5. r[N] \in RangeStates(n) /\ c = r[N].b
  <2> HIDE DEF N
  <2> QED BY <1>1, <1>2 DEF IsRangeRun
<1>6. r[N].i = n
  <2>1. r[N].i \in 0..n
    BY <1>5 DEF RangeStates
  <2>2. CASE r[N].i < n
    <3>1. PICK G \in SUBSET (from..(to - 1)) : N <= r[N].i + Cardinality(G)
      BY <1>4, <2>2 DEF Erasing
    <3>2. G \in SUBSET (0..(L - 1))
      BY <3>1
    <3>3. IsFiniteSet(0..(L - 1)) /\ Cardinality(0..(L - 1)) = L
      BY Below
    <3>4. Cardinality(G) \in Nat /\ Cardinality(G) <= L
      BY <3>2, <3>3, FS_Subset, FS_CardinalityType
    <3> HIDE DEF c
    <3> QED BY <2>1, <2>2, <3>1, <3>4
  <2> QED BY <2>1, <2>2
<1>7. /\ Ordered(u, n) /\ Distinct(u, n)
      /\ \A x \in Slots(n) : c[x] = Lower(u[x], from, to)
      /\ \A x \in Slots(n) : u[x].full => u[x].index < from \/ u[x].index >= to
      /\ \A x \in Slots(n) : u[x].full => \E y \in Slots(n) : b0[y].full /\ u[x] = b0[y]
      /\ \A y \in Slots(n) : b0[y].full /\ (b0[y].index < from \/ b0[y].index >= to) =>
           \E x \in Slots(n) : u[x] = b0[y]
  <2>1. \A x \in Slots(n) : x < n
    BY DEF Slots
  <2> HIDE DEF N, c
  <2> QED BY <1>4, <1>5, <1>6, <2>1 DEF Erasing
<1>8. c \in Tables(n)
  BY <1>5 DEF RangeStates
<1> HIDE DEF c
<1>9. \A x \in Slots(n) : u[x] \in Cell
  BY DEF Tables
<1>10. SameSpots(u, c, n)
  BY SMTT(30), <1>7, <1>9, LowerIs DEF SameSpots
<1>11. Ordered(c, n)
  BY <1>7, <1>8, <1>10, SameRank
<1>12. Distinct(c, n)
  <2> SUFFICES ASSUME NEW x \in Slots(n), NEW y \in Slots(n), c[x].full, c[y].full,
                      c[x].index = c[y].index
               PROVE  x = y
    BY DEF Distinct
  <2>1. u[x].full /\ u[y].full
    BY <1>10 DEF SameSpots
  <2>2. u[x].index = u[y].index
    BY <1>7, <1>9, <2>1, LowerOnce DEF Outside
  <2> QED BY <1>7, <2>1, <2>2 DEF Distinct
<1>13. \A x \in Slots(n) : c[x].full => u[x].full
  BY <1>10 DEF SameSpots
<1>14. \A x \in Slots(n) : c[x].full =>
         \E y \in Slots(n) : /\ b0[y].full
                             /\ b0[y].index < from \/ b0[y].index >= to
                             /\ c[x] = Lower(b0[y], from, to)
  <2> SUFFICES ASSUME NEW x \in Slots(n), c[x].full
               PROVE  \E y \in Slots(n) : /\ b0[y].full
                                          /\ b0[y].index < from \/ b0[y].index >= to
                                          /\ c[x] = Lower(b0[y], from, to)
    OBVIOUS
  <2>1. u[x].full
    BY <1>13
  <2>2. PICK y \in Slots(n) : b0[y].full /\ u[x] = b0[y]
    BY <1>7, <2>1
  <2> QED BY <1>7, <2>1, <2>2
<1>15. \A y \in Slots(n) : b0[y].full /\ (b0[y].index < from \/ b0[y].index >= to) =>
         \E x \in Slots(n) : c[x] = Lower(b0[y], from, to)
  <2> SUFFICES ASSUME NEW y \in Slots(n), b0[y].full, b0[y].index < from \/ b0[y].index >= to
               PROVE  \E x \in Slots(n) : c[x] = Lower(b0[y], from, to)
    OBVIOUS
  <2>1. PICK x \in Slots(n) : u[x] = b0[y]
    BY <1>7
  <2>2. c[x] = Lower(b0[y], from, to)
    BY <1>7, <2>1
  <2> QED BY <2>2
<1>16. LowersTo(b0, c, from, to, n)
  BY <1>14, <1>15 DEF LowersTo, Outside
<1> QED BY <1>8, <1>11, <1>12, <1>16 DEF c

-----------------------------------------------------------------------------
(* The values.                                                             *)

DistinctKeys(vs) == \A p, q \in DOMAIN vs : vs[p][1] = vs[q][1] => p = q

LEMMA ConcatIs ==
  ASSUME NEW S, NEW s \in Seq(S), NEW t \in Seq(S)
  PROVE  /\ s \o t \in Seq(S)
         /\ Len(s) \in Nat /\ Len(t) \in Nat
         /\ Len(s \o t) = Len(s) + Len(t)
         /\ \A p \in 1..Len(s) : (s \o t)[p] = s[p]
         /\ Len(t) = 1 => (s \o t)[Len(s) + 1] = t[1]
<1>1. s \o t \in Seq(S)
  OBVIOUS
<1>2. Len(s) \in Nat /\ Len(t) \in Nat
  OBVIOUS
<1>3. Len(s \o t) = Len(s) + Len(t)
  OBVIOUS
<1>4. \A p \in 1..Len(s) : (s \o t)[p] = s[p]
  OBVIOUS
<1>5. Len(t) = 1 => (s \o t)[Len(s) + 1] = t[1]
  <2>1. \A p \in 1..(Len(s) + Len(t)) :
          (s \o t)[p] = IF p <= Len(s) THEN s[p] ELSE t[p - Len(s)]
    OBVIOUS
  <2> HAVE Len(t) = 1
  <2> DEFINE p == Len(s) + 1
  <2>2. p \in 1..(Len(s) + Len(t)) /\ ~(p <= Len(s)) /\ p - Len(s) = 1
    BY <1>2
  <2> HIDE DEF p
  <2>3. (s \o t)[p] = t[1]
    BY <2>1, <2>2
  <2> QED BY <2>3 DEF p
<1> QED BY <1>1, <1>2, <1>3, <1>4, <1>5

LEMMA WithoutOf ==
  ASSUME NEW S, NEW vs \in Seq(S), NEW i \in Nat, NEW j \in Nat, i <= j, j <= Len(vs)
  PROVE  /\ Map!Without(vs, i, j) \in Seq(S)
         /\ Len(Map!Without(vs, i, j)) = Len(vs) - (j - i)
         /\ \A p \in 1..(Len(vs) - (j - i)) :
              Map!Without(vs, i, j)[p] = IF p <= i THEN vs[p] ELSE vs[p + (j - i)]
<1> DEFINE s == SubSeq(vs, 1, i)
           t == SubSeq(vs, j + 1, Len(vs))
<1>1. Len(vs) \in Nat /\ vs \in Seq(S)
  OBVIOUS
<1>2. s \in Seq(S) /\ Len(s) = i /\ \A p \in 1..i : s[p] = vs[p]
  <2> QED BY <1>1
<1>3. t \in Seq(S) /\ Len(t) = Len(vs) - j /\ \A p \in 1..(Len(vs) - j) : t[p] = vs[j + p]
  <2> QED BY <1>1
<1>4. Map!Without(vs, i, j) = s \o t
  BY DEF Map!Without
<1> HIDE DEF s, t
<1>5. s \o t \in Seq(S) /\ Len(s \o t) = Len(vs) - (j - i)
  <2>1. s \o t \in Seq(S) /\ Len(s \o t) = Len(s) + Len(t)
    BY <1>2, <1>3, ConcatIs
  <2>2. i + (Len(vs) - j) = Len(vs) - (j - i)
    BY <1>1
  <2> QED BY <1>2, <1>3, <2>1, <2>2
<1>6. \A p \in 1..(Len(vs) - (j - i)) : (s \o t)[p] = IF p <= i THEN vs[p] ELSE vs[p + (j - i)]
  <2> SUFFICES ASSUME NEW p \in 1..(Len(vs) - (j - i))
               PROVE  (s \o t)[p] = IF p <= i THEN vs[p] ELSE vs[p + (j - i)]
    OBVIOUS
  <2>1. CASE p <= i
    BY <1>1, <1>2, <1>3, <2>1
  <2>2. CASE ~(p <= i)
    <3>1. p - i \in 1..(Len(vs) - j) /\ j + (p - i) = p + (j - i)
      BY <1>1, <2>2
    <3>2. (s \o t)[p] = t[p - i]
      BY <1>1, <1>2, <1>3, <2>2
    <3> QED BY <1>3, <2>2, <3>1, <3>2
  <2> QED BY <2>1, <2>2
<1> QED BY <1>4, <1>5, <1>6

LEMMA WithoutIs ==
  ASSUME NEW vs \in Seq(Entries), NEW i \in Nat, NEW j \in Nat, i <= j, j <= Len(vs)
  PROVE  /\ Map!Without(vs, i, j) \in Seq(Entries)
         /\ Len(Map!Without(vs, i, j)) = Len(vs) - (j - i)
         /\ \A p \in 1..(Len(vs) - (j - i)) :
              Map!Without(vs, i, j)[p] = IF p <= i THEN vs[p] ELSE vs[p + (j - i)]
BY WithoutOf

LEMMA WithoutKeys ==
  ASSUME NEW vs \in Seq(Entries), NEW i \in Nat, NEW j \in Nat, i <= j, j <= Len(vs),
         DistinctKeys(vs)
  PROVE  DistinctKeys(Map!Without(vs, i, j))
<1> DEFINE w == Map!Without(vs, i, j)
           f(p) == IF p <= i THEN p ELSE p + (j - i)
<1>1. /\ w \in Seq(Entries) /\ Len(w) = Len(vs) - (j - i) /\ Len(vs) \in Nat
      /\ \A p \in 1..(Len(vs) - (j - i)) : w[p] = IF p <= i THEN vs[p] ELSE vs[p + (j - i)]
  BY WithoutIs
<1>2. DOMAIN w = 1..(Len(vs) - (j - i)) /\ DOMAIN vs = 1..Len(vs)
  BY <1>1
<1> HIDE DEF w
<1> SUFFICES ASSUME NEW p \in DOMAIN w, NEW q \in DOMAIN w, w[p][1] = w[q][1] PROVE p = q
  BY DEF DistinctKeys, w
<1>3. p \in 1..(Len(vs) - (j - i)) /\ q \in 1..(Len(vs) - (j - i))
  BY <1>2
<1>4. f(p) \in DOMAIN vs /\ f(q) \in DOMAIN vs /\ (f(p) = f(q) => p = q)
  BY SMTT(30), <1>1, <1>2, <1>3
<1>5. w[p] = vs[f(p)] /\ w[q] = vs[f(q)]
  BY <1>1, <1>3
<1> HIDE DEF f
<1> QED BY <1>4, <1>5 DEF DistinctKeys

LEMMA InsertedOf ==
  ASSUME NEW S, NEW vs \in Seq(S), NEW i \in 0..Len(vs), NEW e \in S
  PROVE  /\ Map!InsertedAt(vs, i, e) \in Seq(S)
         /\ Len(Map!InsertedAt(vs, i, e)) = Len(vs) + 1
         /\ \A p \in 1..(Len(vs) + 1) : Map!InsertedAt(vs, i, e)[p] =
              IF p <= i THEN vs[p] ELSE IF p = i + 1 THEN e ELSE vs[p - 1]
<1> DEFINE s == SubSeq(vs, 1, i)
           m == <<e>>
           t == SubSeq(vs, i + 1, Len(vs))
<1>1. vs \in Seq(S) /\ Len(vs) \in Nat /\ i \in Nat /\ i <= Len(vs)
  OBVIOUS
<1>2. s \in Seq(S) /\ Len(s) = i /\ \A p \in 1..i : s[p] = vs[p]
  <2> QED BY <1>1
<1>3. t \in Seq(S) /\ Len(t) = Len(vs) - i /\ \A p \in 1..(Len(vs) - i) : t[p] = vs[i + p]
  <2> QED BY <1>1
<1>4. m \in Seq(S) /\ Len(m) = 1 /\ m[1] = e
  <2> QED OBVIOUS
<1>5. Map!InsertedAt(vs, i, e) = (s \o m) \o t
  BY DEF Map!InsertedAt
<1> HIDE DEF s, t, m
<1> DEFINE u == s \o m
<1>6. /\ u \in Seq(S) /\ Len(u) = i + 1
      /\ \A p \in 1..(i + 1) : u[p] = IF p <= i THEN vs[p] ELSE e
  <2>1. u \in Seq(S) /\ Len(u) = i + 1
    <3>1. s \o m \in Seq(S) /\ Len(s \o m) = Len(s) + Len(m)
      BY <1>2, <1>4, ConcatIs
    <3> QED BY <1>1, <1>2, <1>4, <3>1
  <2>2. \A p \in 1..i : u[p] = s[p]
    BY <1>1, <1>2, <1>4
  <2>3. u[i + 1] = m[1]
    <3>1. (s \o m)[Len(s) + 1] = m[1]
      BY <1>2, <1>4, ConcatIs
    <3> QED BY <1>2, <3>1
  <2>4. \A p \in 1..(i + 1) : (p \in 1..i /\ p <= i) \/ (p = i + 1 /\ ~(p <= i))
    BY <1>1
  <2> HIDE DEF u
  <2> QED BY <1>2, <1>4, <2>1, <2>2, <2>3, <2>4
<1> HIDE DEF u
<1>7. u \o t \in Seq(S) /\ Len(u \o t) = Len(vs) + 1
  <2>1. u \o t \in Seq(S) /\ Len(u \o t) = Len(u) + Len(t)
    BY <1>3, <1>6, ConcatIs
  <2>2. (i + 1) + (Len(vs) - i) = Len(vs) + 1
    BY <1>1
  <2> QED BY <1>3, <1>6, <2>1, <2>2
<1>8. \A p \in 1..(Len(vs) + 1) :
        (u \o t)[p] = IF p <= i THEN vs[p] ELSE IF p = i + 1 THEN e ELSE vs[p - 1]
  <2> SUFFICES ASSUME NEW p \in 1..(Len(vs) + 1)
               PROVE  (u \o t)[p] =
                        IF p <= i THEN vs[p] ELSE IF p = i + 1 THEN e ELSE vs[p - 1]
    OBVIOUS
  <2>1. CASE p <= i + 1
    <3>1. (u \o t)[p] = u[p]
      BY <1>1, <1>3, <1>6, <2>1
    <3> QED BY <1>1, <1>6, <2>1, <3>1
  <2>2. CASE ~(p <= i + 1)
    <3>1. p - (i + 1) \in 1..(Len(vs) - i) /\ i + (p - (i + 1)) = p - 1
      BY <1>1, <2>2
    <3>2. (u \o t)[p] = t[p - (i + 1)]
      BY <1>1, <1>3, <1>6, <2>2
    <3>3. ~(p <= i) /\ p # i + 1
      BY <1>1, <2>2
    <3> QED BY <1>3, <3>1, <3>2, <3>3
  <2> QED BY <2>1, <2>2
<1>9. Map!InsertedAt(vs, i, e) = u \o t
  BY <1>5 DEF u
<1> HIDE DEF u
<1> QED BY <1>7, <1>8, <1>9

LEMMA InsertedIs ==
  ASSUME NEW vs \in Seq(Entries), NEW i \in 0..Len(vs), NEW e \in Entries
  PROVE  /\ Map!InsertedAt(vs, i, e) \in Seq(Entries)
         /\ Len(Map!InsertedAt(vs, i, e)) = Len(vs) + 1
         /\ \A p \in 1..(Len(vs) + 1) : Map!InsertedAt(vs, i, e)[p] =
              IF p <= i THEN vs[p] ELSE IF p = i + 1 THEN e ELSE vs[p - 1]
BY InsertedOf

LEMMA InsertedKeys ==
  ASSUME NEW vs \in Seq(Entries), NEW i \in 0..Len(vs), NEW e \in Entries, DistinctKeys(vs),
         \A p \in DOMAIN vs : vs[p][1] # e[1]
  PROVE  DistinctKeys(Map!InsertedAt(vs, i, e))
<1> DEFINE w == Map!InsertedAt(vs, i, e)
           f(p) == IF p <= i THEN p ELSE p - 1
<1>1. /\ w \in Seq(Entries) /\ Len(w) = Len(vs) + 1 /\ Len(vs) \in Nat /\ i \in Nat /\ i <= Len(vs)
      /\ \A p \in 1..(Len(vs) + 1) :
           w[p] = IF p <= i THEN vs[p] ELSE IF p = i + 1 THEN e ELSE vs[p - 1]
  <2>1. Len(vs) \in Nat /\ i \in Nat /\ i <= Len(vs)
    OBVIOUS
  <2> QED BY <2>1, InsertedIs
<1>2. DOMAIN w = 1..(Len(vs) + 1) /\ DOMAIN vs = 1..Len(vs)
  BY <1>1
<1> HIDE DEF w
<1> SUFFICES ASSUME NEW p \in DOMAIN w, NEW q \in DOMAIN w, w[p][1] = w[q][1] PROVE p = q
  BY DEF DistinctKeys, w
<1>3. p \in 1..(Len(vs) + 1) /\ q \in 1..(Len(vs) + 1)
  BY <1>2
<1>4. \A x \in 1..(Len(vs) + 1) : x # i + 1 => f(x) \in DOMAIN vs /\ w[x] = vs[f(x)]
  BY <1>1, <1>2
<1>5. w[i + 1] = e
  <2>1. i + 1 \in 1..(Len(vs) + 1) /\ ~(i + 1 <= i)
    BY <1>1
  <2> QED BY <1>1, <2>1
<1>6. p # i + 1 /\ q # i + 1 /\ f(p) = f(q) => p = q
  BY <1>1, <1>3
<1>7. (p = i + 1) <=> (q = i + 1)
  <2> HIDE DEF f
  <2> QED BY <1>3, <1>4, <1>5
<1>8. CASE p = i + 1
  BY <1>7, <1>8
<1>9. CASE p # i + 1
  <2>1. f(p) \in DOMAIN vs /\ f(q) \in DOMAIN vs /\ vs[f(p)][1] = vs[f(q)][1]
    <3> HIDE DEF f
    <3> QED BY <1>3, <1>4, <1>7, <1>9
  <2>2. f(p) = f(q)
    <3> HIDE DEF f
    <3> QED BY <2>1 DEF DistinctKeys
  <2> QED BY <1>6, <1>7, <1>9, <2>2
<1> QED BY <1>8, <1>9

-----------------------------------------------------------------------------
(* Tables and their values.                                                *)

(* n buckets hold the values vs.                                           *)
Sound(b, vs, n) ==
  /\ b \in Tables(n)
  /\ vs \in Seq(Entries)
  /\ Len(vs) <= n
  /\ n > 2 => Len(vs) < n
  /\ Len(vs) <= MaxSize
  /\ Ordered(b, n)
  /\ IndexedIn(b, vs, n)
  /\ DistinctKeys(vs)

LEMMA LowerHolds ==
  ASSUME NEW n \in Nat \ {0}, NEW b \in Tables(n), NEW c \in Tables(n),
         NEW vs \in Seq(Entries), IndexedIn(b, vs, n), Distinct(c, n),
         NEW from \in Nat, NEW to \in Nat, from < to, to <= Len(vs),
         LowersTo(b, c, from, to, n)
  PROVE  IndexedIn(c, Map!Without(vs, from, to), n)
<1> DEFINE w == Map!Without(vs, from, to)
           k == to - from
<1>1. /\ w \in Seq(Entries) /\ Len(w) = Len(vs) - k /\ Len(vs) \in Nat
      /\ \A p \in 1..(Len(vs) - k) : w[p] = IF p <= from THEN vs[p] ELSE vs[p + k]
  BY SMTT(30), WithoutIs
<1>2. k \in Nat /\ from + k = to /\ k > 0
  OBVIOUS
<1> HIDE DEF w, k
<1>3. ASSUME NEW y \in Slots(n), Outside(b[y], from, to)
      PROVE  /\ Lower(b[y], from, to).full
             /\ Lower(b[y], from, to).hash = b[y].hash
             /\ Lower(b[y], from, to).index =
                  IF b[y].index >= to THEN b[y].index - k ELSE b[y].index
             /\ b[y].index \in Nat /\ b[y].index < Len(vs)
             /\ b[y].hash = truncate_hash(Hash[vs[b[y].index + 1][1]])
  <2>1. b[y] \in Cell /\ b[y].full /\ b[y].index \in Nat
    BY <1>3, Numbers DEF Tables, Cell, Outside
  <2>2. Belongs(b, vs, y)
    BY <2>1 DEF IndexedIn
  <2>3. CASE b[y].index >= to
    <3>1. Lower(b[y], from, to) = [b[y] EXCEPT !.index = b[y].index - k]
      BY <2>1, <2>3 DEF Lower, k
    <3> QED BY <2>1, <2>2, <2>3, <3>1 DEF Belongs, Cell
  <2>4. CASE ~(b[y].index >= to)
    <3>1. Lower(b[y], from, to) = b[y]
      BY <2>1, <2>4 DEF Lower
    <3> QED BY <2>1, <2>2, <2>4, <3>1 DEF Belongs
  <2> QED BY <2>3, <2>4
<1>4. ASSUME NEW x \in Slots(n), c[x].full PROVE Belongs(c, w, x)
  <2>1. PICK y \in Slots(n) : Outside(b[y], from, to) /\ c[x] = Lower(b[y], from, to)
    BY <1>4 DEF LowersTo
  <2> DEFINE p == b[y].index
             q == c[x].index
  <2>2. /\ q = (IF p >= to THEN p - k ELSE p) /\ c[x].hash = b[y].hash
        /\ p \in Nat /\ p < Len(vs) /\ b[y].hash = truncate_hash(Hash[vs[p + 1][1]])
    BY <1>3, <2>1
  <2>3. p < from \/ p >= to
    BY <2>1 DEF Outside
  <2> HIDE DEF p, q
  <2>4. /\ q \in Nat /\ q < Len(vs) - k /\ q + 1 \in 1..(Len(vs) - k)
        /\ p < from => q + 1 <= from /\ q + 1 = p + 1
        /\ ~(p < from) => ~(q + 1 <= from) /\ (q + 1) + k = p + 1
    BY <1>1, <1>2, <2>2, <2>3
  <2>5. w[q + 1] = vs[p + 1]
    <3>1. w[q + 1] = IF q + 1 <= from THEN vs[q + 1] ELSE vs[(q + 1) + k]
      BY <1>1, <2>4
    <3> QED BY <2>4, <3>1
  <2> QED BY <1>1, <2>2, <2>4, <2>5 DEF Belongs, q
<1>5. ASSUME NEW q \in 0..(Len(w) - 1) PROVE \E x \in Slots(n) : c[x].full /\ c[x].index = q
  <2> DEFINE p == IF q < from THEN q ELSE q + k
  <2>1. /\ p \in 0..(Len(vs) - 1) /\ (p < from \/ p >= to)
        /\ q = IF p >= to THEN p - k ELSE p
    BY <1>1, <1>2
  <2> HIDE DEF p
  <2>2. PICK y \in Slots(n) : b[y].full /\ b[y].index = p
    BY <2>1 DEF IndexedIn
  <2>3. Outside(b[y], from, to)
    BY <2>1, <2>2 DEF Outside
  <2>4. PICK x \in Slots(n) : c[x] = Lower(b[y], from, to)
    BY <2>3 DEF LowersTo
  <2>5. c[x].full /\ c[x].index = IF p >= to THEN p - k ELSE p
    BY <1>3, <2>2, <2>3, <2>4
  <2> QED BY <2>1, <2>5
<1> QED BY <1>4, <1>5 DEF IndexedIn, w

LEMMA SoundRoom ==
  ASSUME NEW n \in Nat \ {0}, NEW b, NEW vs, Sound(b, vs, n)
  PROVE  /\ Len(vs) \in Nat
         /\ \A x \in Slots(n) : b[x].full => b[x].index \in 0..(Len(vs) - 1)
         /\ Len(vs) < n => \E m \in Slots(n) : ~b[m].full
<1>1. Len(vs) \in Nat /\ b \in Tables(n)
  BY DEF Sound
<1>2. \A x \in Slots(n) : b[x].full => b[x].index \in 0..(Len(vs) - 1)
  <2> SUFFICES ASSUME NEW x \in Slots(n), b[x].full PROVE b[x].index \in 0..(Len(vs) - 1)
    OBVIOUS
  <2>1. b[x].index \in Nat
    BY <1>1, Numbers DEF Tables, Cell
  <2>2. b[x].index < Len(vs)
    BY DEF Sound, IndexedIn, Belongs
  <2> QED BY <1>1, <2>1, <2>2
<1>3. ASSUME Len(vs) < n PROVE \E m \in Slots(n) : ~b[m].full
  <2>1. IsFiniteSet(0..(Len(vs) - 1)) /\ Cardinality(0..(Len(vs) - 1)) < n
    BY <1>1, <1>3, Below
  <2>2. Distinct(b, n)
    BY DEF Sound, IndexedIn
  <2> QED BY <1>2, <2>1, <2>2, RoomIs
<1> QED BY <1>1, <1>2, <1>3

(* erase(first, last).                                                     *)
LEMMA RangeSound ==
  ASSUME NEW n \in Nat \ {0}, NEW b, NEW vs, Sound(b, vs, n), Rank(b, 0, n) <= 1,
         NEW from \in Nat, NEW to \in Nat, from < to, to <= Len(vs)
  PROVE  Sound(range_erase(b, from, to), Map!Without(vs, from, to), n)
<1> DEFINE c == range_erase(b, from, to)
           w == Map!Without(vs, from, to)
           L == Len(vs)
<1>1. /\ b \in Tables(n) /\ Ordered(b, n) /\ IndexedIn(b, vs, n) /\ DistinctKeys(vs)
      /\ vs \in Seq(Entries) /\ L \in Nat /\ L <= n /\ (n > 2 => L < n) /\ L <= MaxSize
      /\ to <= L /\ from <= to
  BY DEF Sound
<1>2. Distinct(b, n)
  BY <1>1 DEF IndexedIn
<1>3. \A x \in Slots(n) : b[x].full => b[x].index \in 0..(L - 1)
  BY SoundRoom
<1>4. c \in Tables(n) /\ Ordered(c, n) /\ Distinct(c, n) /\ LowersTo(b, c, from, to, n)
  <2> HIDE DEF L
  <2> QED BY <1>1, <1>2, <1>3, RangeEraseIs
<1> HIDE DEF c
<1>6. IndexedIn(c, w, n)
  BY <1>1, <1>4, LowerHolds
<1>7. w \in Seq(Entries) /\ Len(w) = L - (to - from) /\ DistinctKeys(w)
  <2>1. w \in Seq(Entries) /\ Len(w) = L - (to - from)
    <3>1. vs \in Seq(Entries) /\ from <= to /\ to <= Len(vs)
      BY <1>1
    <3> QED BY <3>1, WithoutIs
  <2>2. DistinctKeys(w)
    BY <1>1, WithoutKeys
  <2> QED BY <2>1, <2>2
<1> HIDE DEF w
<1>8. Len(w) < L
  BY <1>1, <1>7
<1>9. Len(w) <= n /\ (n > 2 => Len(w) < n) /\ Len(w) <= MaxSize
  BY <1>1, <1>7, <1>8, Numbers
<1> QED BY <1>4, <1>6, <1>7, <1>9 DEF Sound, c, w

(* erase_value_from_bucket: what it makes of bucket i of b.                *)
Renumbered(b, i, vs) == shift_indexes(b, Map!Without(vs, b[i].index, b[i].index + 1), b[i].index, 0 - 1)

LEMMA EraseSound ==
  ASSUME NEW n \in Nat \ {0}, NEW b, NEW vs, Sound(b, vs, n), NEW i \in Slots(n), b[i].full
  PROVE  /\ ~Renumbered(b, i, vs).hung
         /\ b[i].index \in 0..(Len(vs) - 1)
         /\ Sound(backward_shift(Emptied(Renumbered(b, i, vs).b, i), i),
                  Map!Without(vs, b[i].index, b[i].index + 1), n)
<1> DEFINE p == b[i].index
           w == Map!Without(vs, p, p + 1)
           L == Len(vs)
           s == Renumbered(b, i, vs).b
           v == backward_shift(Emptied(b, i), i)
           c == backward_shift(Emptied(s, i), i)
<1>1. /\ b \in Tables(n) /\ Ordered(b, n) /\ IndexedIn(b, vs, n) /\ DistinctKeys(vs)
      /\ vs \in Seq(Entries) /\ L \in Nat /\ L <= n /\ (n > 2 => L < n) /\ L <= MaxSize
  BY DEF Sound
<1>2. Distinct(b, n)
  BY <1>1 DEF IndexedIn
<1>3. \A x \in Slots(n) : b[x].full => b[x].index \in 0..(L - 1)
  BY SoundRoom
<1>4. p \in 0..(L - 1)
  BY <1>3
<1>5. w \in Seq(Entries) /\ Len(w) = L - 1 /\ DistinctKeys(w)
  <2>1. vs \in Seq(Entries) /\ p \in Nat /\ p + 1 \in Nat /\ p <= p + 1 /\ p + 1 <= Len(vs)
    BY <1>1, <1>4
  <2>2. w \in Seq(Entries) /\ Len(w) = L - ((p + 1) - p)
    <3> HIDE DEF p
    <3> QED BY <2>1, WithoutIs
  <2>3. DistinctKeys(w)
    <3> HIDE DEF p
    <3> QED BY <1>1, <2>1, WithoutKeys
  <2> HIDE DEF w
  <2> QED BY <1>1, <1>4, <2>2, <2>3
<1> HIDE DEF w
<1>6. /\ ~Renumbered(b, i, vs).hung
      /\ s \in Tables(n)
      /\ \A x \in Slots(n) : s[x] = Lowered(b[x], p, L - 1 - p)
  <2>1. p \in 0..Len(w) /\ Len(w) <= MaxSize /\ Len(w) - p = L - 1 - p
    <3> HIDE DEF p, L
    <3> QED BY <1>1, <1>4, <1>5, Numbers
  <2>2. \A q \in (p + 1)..Len(w) : \E x \in Slots(n) : b[x].full /\ b[x].index = q
    <3> SUFFICES ASSUME NEW q \in (p + 1)..Len(w)
                 PROVE  \E x \in Slots(n) : b[x].full /\ b[x].index = q
      OBVIOUS
    <3>1. q \in 0..(L - 1)
      <4> HIDE DEF p, L
      <4> QED BY <1>1, <1>4, <1>5
    <3> QED BY <1>1, <3>1 DEF IndexedIn
  <2>3. Renumbered(b, i, vs) = Down(b, w, p)
    BY DEF Renumbered, Down, w
  <2> HIDE DEF p
  <2>4. /\ ~Down(b, w, p).hung
        /\ Down(b, w, p).b \in Tables(n)
        /\ \A x \in Slots(n) : Down(b, w, p).b[x] = Lowered(b[x], p, Len(w) - p)
    <3>1. HasLater(b, w, p, n)
      BY <2>2 DEF HasLater
    <3> QED BY SMTT(30), <1>1, <1>2, <1>5, <2>1, <3>1, ShiftDown
  <2> HIDE DEF L
  <2> QED BY <2>1, <2>3, <2>4
<1> HIDE DEF s
<1>8. \A x \in Slots(n) : s[x] = Lower(b[x], p, p + 1)
  <2> SUFFICES ASSUME NEW x \in Slots(n) PROVE s[x] = Lower(b[x], p, p + 1)
    OBVIOUS
  <2>1. s[x] = Lowered(b[x], p, L - 1 - p)
    BY <1>6
  <2> DEFINE q == b[x].index
  <2>2. q \in Nat
    BY <1>1, Numbers DEF Tables, Cell
  <2>3. CASE b[x].full
    <3>1. q \in 0..(L - 1)
      BY <1>3, <2>3
    <3>2. q >= p + 1 <=> q \in (p + 1)..(p + (L - 1 - p))
      <4> HIDE DEF p, q, L
      <4> QED BY <1>1, <1>4, <3>1
    <3>3. q - ((p + 1) - p) = q - 1
      <4> HIDE DEF p, q, L
      <4> QED BY <1>1, <1>4, <3>1
    <3>4. CASE q >= p + 1
      <4>1. Lower(b[x], p, p + 1) = [b[x] EXCEPT !.index = q - ((p + 1) - p)]
        BY <2>3, <3>4 DEF Lower
      <4>2. Lowered(b[x], p, L - 1 - p) = [b[x] EXCEPT !.index = q - 1]
        BY <2>3, <3>2, <3>4 DEF Lowered
      <4> QED BY <2>1, <3>3, <4>1, <4>2
    <3>5. CASE ~(q >= p + 1)
      <4>1. Lower(b[x], p, p + 1) = b[x]
        BY <3>5 DEF Lower
      <4>2. Lowered(b[x], p, L - 1 - p) = b[x]
        BY <3>2, <3>5 DEF Lowered
      <4> QED BY <2>1, <4>1, <4>2
    <3> QED BY <3>4, <3>5
  <2>4. CASE ~b[x].full
    BY <2>1, <2>4 DEF Lower, Lowered
  <2> QED BY <2>3, <2>4
<1> HIDE DEF p
<1>9. p \in Nat /\ p + 1 \in Nat /\ p < p + 1 /\ p + 1 <= Len(vs)
  BY <1>1, <1>4
<1>10. \A e \in Cell : /\ Lower(e, p, p + 1) \in Cell
                       /\ Lower(e, p, p + 1).full <=> e.full
                       /\ Lower(e, p, p + 1).hash = e.hash
  BY <1>9, LowerIs
<1>11. \A x \in Slots(n) : b[x] \in Cell
  BY <1>1 DEF Tables
<1>12. SameSpots(b, s, n)
  BY <1>8, <1>10, <1>11 DEF SameSpots
<1>13. /\ v \in Tables(n) /\ c \in Tables(n)
       /\ Emptied(b, i) \in Tables(n) /\ Emptied(s, i) \in Tables(n)
  BY <1>1, <1>6, ErasedRank, ShiftedIs
<1>14. ShiftRun(Emptied(b, i), i) = ShiftRun(Emptied(s, i), i)
  <2>1. SameSpots(Emptied(b, i), Emptied(s, i), n)
    BY <1>1, <1>6, <1>12, SameRank
  <2> QED BY <1>13, <2>1, SameRank
<1>15. \A x \in Slots(n) : /\ Emptied(b, i)[x] = IF x = i THEN Empty ELSE b[x]
                           /\ Emptied(s, i)[x] = IF x = i THEN Empty ELSE s[x]
  BY <1>1, <1>6, ErasedRank
<1>16. Lower(Empty, p, p + 1) = Empty
  BY Numbers DEF Lower
<1>17. \A x \in Slots(n) : Emptied(s, i)[x] = Lower(Emptied(b, i)[x], p, p + 1)
  BY <1>8, <1>15, <1>16
<1>18. \A x \in Slots(n) : c[x] = Lower(v[x], p, p + 1)
  <2> SUFFICES ASSUME NEW x \in Slots(n) PROVE c[x] = Lower(v[x], p, p + 1)
    OBVIOUS
  <2> DEFINE r == ShiftRun(Emptied(b, i), i)
             o == Off(i, x, n)
  <2>1. v[x] = IF o < r THEN Emptied(b, i)[Fwd(x, n)]
               ELSE IF o = r THEN Empty ELSE Emptied(b, i)[x]
    BY <1>13, ShiftedIs
  <2>2. c[x] = IF o < r THEN Emptied(s, i)[Fwd(x, n)]
               ELSE IF o = r THEN Empty ELSE Emptied(s, i)[x]
    BY <1>13, <1>14, ShiftedIs
  <2>3. Fwd(x, n) \in Slots(n)
    BY FwdIs
  <2> HIDE DEF r, o, v, c
  <2> QED BY <1>16, <1>17, <2>1, <2>2, <2>3
<1>19. /\ \A x \in Slots(n) : v[x].full => \E y \in Slots(n) : y # i /\ b[y].full /\ v[x] = b[y]
       /\ \A y \in Slots(n) : y # i /\ b[y].full => \E x \in Slots(n) : v[x] = b[y]
       /\ Distinct(v, n)
  BY <1>1, <1>2, ShiftedHolds
<1>20. Ordered(v, n)
  <2>1. n > 2 => \E m \in Slots(n) : m # i /\ ~b[m].full
    <3> HAVE n > 2
    <3>1. PICK m \in Slots(n) : ~b[m].full
      BY <1>1, SoundRoom
    <3> QED BY <3>1
  <2> QED BY <1>1, <2>1, ShiftedOrder
<1> HIDE DEF v, c
<1>21. \A x \in Slots(n) : v[x] \in Cell
  BY <1>13 DEF Tables
<1>22. SameSpots(v, c, n)
  BY <1>10, <1>18, <1>21 DEF SameSpots
<1>23. Ordered(c, n)
  BY <1>13, <1>20, <1>22, SameRank
<1>24. \A y \in Slots(n) : b[y].full /\ y # i <=> Outside(b[y], p, p + 1)
  <2> SUFFICES ASSUME NEW y \in Slots(n), b[y].full PROVE y # i <=> Outside(b[y], p, p + 1)
    BY DEF Outside
  <2>1. b[y].index \in Nat
    BY <1>1, Numbers DEF Tables, Cell
  <2>2. b[y].index = p <=> y = i
    BY <1>2 DEF Distinct, p
  <2> QED BY <1>9, <2>1, <2>2 DEF Outside
<1>25. LowersTo(b, c, p, p + 1, n)
  <2>1. \A x \in Slots(n) : c[x].full <=> v[x].full
    BY <1>22 DEF SameSpots
  <2>2. \A x \in Slots(n) : c[x].full =>
          \E y \in Slots(n) : Outside(b[y], p, p + 1) /\ c[x] = Lower(b[y], p, p + 1)
    BY <1>18, <1>19, <1>24, <2>1
  <2>3. \A y \in Slots(n) : Outside(b[y], p, p + 1) =>
          \E x \in Slots(n) : c[x] = Lower(b[y], p, p + 1)
    BY <1>18, <1>19, <1>24
  <2> QED BY <2>2, <2>3 DEF LowersTo
<1>26. Distinct(c, n)
  <2> SUFFICES ASSUME NEW x \in Slots(n), NEW y \in Slots(n), c[x].full, c[y].full,
                      c[x].index = c[y].index
               PROVE  x = y
    BY DEF Distinct
  <2>1. v[x].full /\ v[y].full
    BY <1>22 DEF SameSpots
  <2>2. PICK x0 \in Slots(n) : Outside(b[x0], p, p + 1) /\ v[x] = b[x0]
    BY <1>19, <1>24, <2>1
  <2>3. PICK y0 \in Slots(n) : Outside(b[y0], p, p + 1) /\ v[y] = b[y0]
    BY <1>19, <1>24, <2>1
  <2>4. v[x].index = v[y].index
    BY <1>9, <1>18, <1>21, <2>1, <2>2, <2>3, LowerOnce
  <2> QED BY <1>19, <2>1, <2>4 DEF Distinct
<1>27. IndexedIn(c, w, n)
  BY <1>1, <1>9, <1>13, <1>25, <1>26, LowerHolds DEF w
<1>28. Len(w) <= n /\ (n > 2 => Len(w) < n) /\ Len(w) <= MaxSize
  <2> HIDE DEF L
  <2> QED BY <1>1, <1>5, Numbers
<1>29. Sound(c, w, n)
  BY <1>5, <1>13, <1>23, <1>27, <1>28 DEF Sound
<1> QED BY <1>4, <1>6, <1>29 DEF c, w, p, s

(* unordered_erase exchanges the positions of two entries first.           *)
SwapIndexes(b, i, l) == [b EXCEPT ![i].index = b[l].index, ![l].index = b[i].index]

SwapValues(vs, p, q) == [vs EXCEPT ![p] = vs[q], ![q] = vs[p]]

LEMMA SwapValuesIs ==
  ASSUME NEW vs \in Seq(Entries), NEW p \in DOMAIN vs, NEW q \in DOMAIN vs
  PROVE  /\ SwapValues(vs, p, q) \in Seq(Entries)
         /\ Len(SwapValues(vs, p, q)) = Len(vs)
         /\ \A x \in DOMAIN vs : SwapValues(vs, p, q)[x] =
              IF x = p THEN vs[q] ELSE IF x = q THEN vs[p] ELSE vs[x]
         /\ DistinctKeys(vs) => DistinctKeys(SwapValues(vs, p, q))
<1> DEFINE w == SwapValues(vs, p, q)
           S == Entries
<1>1. vs[p] \in S /\ vs[q] \in S
  OBVIOUS
<1>2. w \in Seq(S) /\ Len(w) = Len(vs) /\ DOMAIN w = DOMAIN vs
  <2> DEFINE u == [vs EXCEPT ![p] = vs[q]]
  <2>1. vs \in Seq(S)
    OBVIOUS
  <2> HIDE DEF S
  <2>2. u \in Seq(S) /\ Len(u) = Len(vs) /\ DOMAIN u = DOMAIN vs
    BY <1>1, <2>1
  <2>3. w = [u EXCEPT ![q] = vs[p]]
    BY DEF SwapValues
  <2> HIDE DEF u, w
  <2> QED BY <1>1, <2>2, <2>3
<1>3. \A x \in DOMAIN vs : w[x] = IF x = p THEN vs[q] ELSE IF x = q THEN vs[p] ELSE vs[x]
  BY DEF SwapValues
<1> HIDE DEF w, S
<1>4. ASSUME DistinctKeys(vs) PROVE DistinctKeys(w)
  <2> DEFINE f(x) == IF x = p THEN q ELSE IF x = q THEN p ELSE x
  <2>1. \A x \in DOMAIN vs : f(x) \in DOMAIN vs /\ w[x] = vs[f(x)]
    BY <1>3
  <2>2. \A x, y \in DOMAIN vs : f(x) = f(y) => x = y
    OBVIOUS
  <2> HIDE DEF f
  <2> QED BY <1>2, <1>4, <2>1, <2>2 DEF DistinctKeys
<1> QED BY <1>2, <1>3, <1>4 DEF w, S

LEMMA SwapSound ==
  ASSUME NEW n \in Nat \ {0}, NEW b, NEW vs, Sound(b, vs, n), NEW i \in Slots(n), b[i].full,
         NEW l \in Slots(n), b[l].full, i # l
  PROVE  /\ b[i].index + 1 \in DOMAIN vs /\ b[l].index + 1 \in DOMAIN vs
         /\ SwapIndexes(b, i, l)[i].full
         /\ SwapIndexes(b, i, l)[i].index = b[l].index
         /\ Sound(SwapIndexes(b, i, l), SwapValues(vs, b[i].index + 1, b[l].index + 1), n)
<1> DEFINE c == SwapIndexes(b, i, l)
           p == b[i].index
           q == b[l].index
           w == SwapValues(vs, p + 1, q + 1)
<1>1. /\ b \in Tables(n) /\ Ordered(b, n) /\ IndexedIn(b, vs, n) /\ DistinctKeys(vs)
      /\ vs \in Seq(Entries)
  BY DEF Sound
<1>2. Distinct(b, n)
  BY <1>1 DEF IndexedIn
<1>3. /\ \A x \in Slots(n) : b[x].full => b[x].index \in 0..(Len(vs) - 1)
      /\ Len(vs) \in Nat
  BY SoundRoom
<1>4. p \in Nat /\ q \in Nat /\ p + 1 \in DOMAIN vs /\ q + 1 \in DOMAIN vs /\ p # q
  <2>1. p \in 0..(Len(vs) - 1) /\ q \in 0..(Len(vs) - 1) /\ p # q
    BY <1>2, <1>3 DEF Distinct
  <2> HIDE DEF p, q
  <2> QED BY <1>1, <1>3, <2>1
<1>5. \A x \in Slots(n) : b[x] \in Cell
  BY <1>1 DEF Tables
<1>6. \A x \in Slots(n) : c[x] = IF x = i THEN [b[i] EXCEPT !.index = q]
                                 ELSE IF x = l THEN [b[l] EXCEPT !.index = p] ELSE b[x]
  BY <1>1 DEF SwapIndexes, Tables
<1>7. /\ c \in Tables(n)
      /\ \A x \in Slots(n) :
           /\ c[x].full <=> b[x].full
           /\ c[x].hash = b[x].hash
           /\ c[x].index = IF x = i THEN q ELSE IF x = l THEN p ELSE b[x].index
  <2>1. p \in 0..MaxSize /\ q \in 0..MaxSize
    BY <1>5 DEF Cell
  <2>2. DOMAIN c = Slots(n) /\ c = [x \in Slots(n) |-> c[x]]
    BY <1>1 DEF SwapIndexes, Tables
  <2> HIDE DEF c, p, q
  <2>3. \A x \in Slots(n) :
           /\ c[x] \in Cell
           /\ c[x].full <=> b[x].full
           /\ c[x].hash = b[x].hash
           /\ c[x].index = IF x = i THEN q ELSE IF x = l THEN p ELSE b[x].index
    <3> SUFFICES ASSUME NEW x \in Slots(n)
                 PROVE  /\ c[x] \in Cell
                        /\ c[x].full <=> b[x].full
                        /\ c[x].hash = b[x].hash
                        /\ c[x].index = IF x = i THEN q ELSE IF x = l THEN p ELSE b[x].index
      OBVIOUS
    <3>1. CASE x = i
      BY <1>5, <1>6, <2>1, <3>1 DEF Cell
    <3>2. CASE x = l /\ x # i
      BY <1>5, <1>6, <2>1, <3>2 DEF Cell
    <3>3. CASE x # i /\ x # l
      BY <1>5, <1>6, <3>3
    <3> QED BY <3>1, <3>2, <3>3
  <2>4. c \in Tables(n)
    BY <2>2, <2>3 DEF Tables
  <2> QED BY <2>3, <2>4
<1> HIDE DEF c
<1>8. Ordered(c, n)
  <2>1. SameSpots(b, c, n)
    BY <1>7 DEF SameSpots
  <2> QED BY <1>1, <1>7, <2>1, SameRank
<1>9. /\ w \in Seq(Entries) /\ Len(w) = Len(vs) /\ DistinctKeys(w)
      /\ \A x \in DOMAIN vs : w[x] =
           IF x = p + 1 THEN vs[q + 1] ELSE IF x = q + 1 THEN vs[p + 1] ELSE vs[x]
  <2> HIDE DEF p, q
  <2> QED BY <1>1, <1>4, SwapValuesIs
<1> HIDE DEF w
<1>10. Distinct(c, n)
  <2> SUFFICES ASSUME NEW x \in Slots(n), NEW y \in Slots(n), c[x].full, c[y].full,
                      c[x].index = c[y].index
               PROVE  x = y
    BY DEF Distinct
  <2>1. b[x].full /\ b[y].full
    BY <1>7
  <2>2. \A z \in Slots(n) : b[z].full => (b[z].index = p <=> z = i) /\ (b[z].index = q <=> z = l)
    BY <1>2 DEF Distinct
  <2>3. b[x].index = b[y].index => x = y
    BY <1>2, <2>1 DEF Distinct
  <2>4. c[x].index = IF x = i THEN q ELSE IF x = l THEN p ELSE b[x].index
    BY <1>7
  <2>5. c[y].index = IF y = i THEN q ELSE IF y = l THEN p ELSE b[y].index
    BY <1>7
  <2> HIDE DEF p, q
  <2> QED BY <1>4, <2>1, <2>2, <2>3, <2>4, <2>5
<1>11. ASSUME NEW x \in Slots(n), c[x].full PROVE Belongs(c, w, x)
  <2>1. b[x].full
    BY <1>7, <1>11
  <2> DEFINE r == b[x].index
             t == c[x].index
  <2>2. r \in 0..(Len(vs) - 1) /\ r + 1 \in DOMAIN vs
    BY <1>1, <1>3, <2>1
  <2>3. b[x].hash = truncate_hash(Hash[vs[r + 1][1]])
    BY <1>1, <2>1 DEF IndexedIn, Belongs
  <2>4. (r = p <=> x = i) /\ (r = q <=> x = l)
    BY <1>2, <2>1 DEF Distinct
  <2>5. t = (IF x = i THEN q ELSE IF x = l THEN p ELSE r) /\ c[x].hash = b[x].hash
    BY <1>7
  <2> HIDE DEF p, q, r, t
  <2>6. t \in Nat /\ t + 1 \in DOMAIN vs /\ t < Len(vs) /\ w[t + 1] = vs[r + 1]
    <3>1. CASE x = i
      <4>1. t = q /\ r = p
        BY <2>4, <2>5, <3>1
      <4>2. w[q + 1] = vs[p + 1] /\ q < Len(vs)
        BY <1>1, <1>3, <1>4, <1>9
      <4> QED BY <1>4, <4>1, <4>2
    <3>2. CASE x = l /\ x # i
      <4>1. t = p /\ r = q
        BY <2>4, <2>5, <3>2
      <4>2. w[p + 1] = vs[q + 1] /\ p < Len(vs)
        BY <1>1, <1>3, <1>4, <1>9
      <4> QED BY <1>4, <4>1, <4>2
    <3>3. CASE x # i /\ x # l
      <4>1. t = r /\ r # p /\ r # q
        BY <2>4, <2>5, <3>3
      <4>2. r + 1 # p + 1 /\ r + 1 # q + 1 /\ r \in Nat /\ r < Len(vs)
        BY <1>3, <1>4, <2>2, <4>1
      <4>3. w[r + 1] = vs[r + 1]
        BY <1>9, <2>2, <4>2
      <4> QED BY <2>2, <4>1, <4>2, <4>3
    <3> QED BY <3>1, <3>2, <3>3
  <2> QED BY <1>9, <2>3, <2>5, <2>6 DEF Belongs, t
<1>12. ASSUME NEW r \in 0..(Len(w) - 1) PROVE \E x \in Slots(n) : c[x].full /\ c[x].index = r
  <2>1. CASE r = p
    BY <1>7, <2>1
  <2>2. CASE r = q
    BY <1>7, <2>2
  <2>3. CASE r # p /\ r # q
    <3>1. PICK x \in Slots(n) : b[x].full /\ b[x].index = r
      BY <1>1, <1>9 DEF IndexedIn
    <3> QED BY <1>7, <2>3, <3>1
  <2> QED BY <2>1, <2>2, <2>3
<1>13. IndexedIn(c, w, n)
  BY <1>10, <1>11, <1>12 DEF IndexedIn
<1>14. Sound(c, w, n)
  BY <1>7, <1>8, <1>9, <1>13 DEF Sound
<1> QED BY <1>4, <1>7, <1>14 DEF c, w, p, q

(* The last value takes the place of an erased one.                        *)
LEMMA SwappedOutIs ==
  ASSUME NEW vs \in Seq(Entries), NEW p \in 0..(Len(vs) - 1)
  PROVE  Map!Without(SwapValues(vs, p + 1, Len(vs)), Len(vs) - 1, Len(vs)) = Map!SwappedOut(vs, p)
<1> DEFINE L == Len(vs)
           s == SwapValues(vs, p + 1, L)
           w == Map!Without(s, L - 1, L)
           e == [vs EXCEPT ![p + 1] = vs[L]]
           u == SubSeq(e, 1, L - 1)
           S == Entries
<1>1. /\ vs \in Seq(S) /\ L \in Nat /\ L >= 1 /\ p + 1 \in DOMAIN vs /\ L \in DOMAIN vs
      /\ DOMAIN vs = 1..L /\ vs[L] \in S
  OBVIOUS
<1>2. /\ s \in Seq(S) /\ Len(s) = L
      /\ \A x \in DOMAIN vs : s[x] =
           IF x = p + 1 THEN vs[L] ELSE IF x = L THEN vs[p + 1] ELSE vs[x]
  <2>1. vs \in Seq(Entries) /\ p + 1 \in DOMAIN vs /\ L \in DOMAIN vs /\ L = Len(vs)
    BY <1>1
  <2> DEFINE P == p + 1
  <2>2. P \in DOMAIN vs
    BY <2>1
  <2> HIDE DEF L, P
  <2> HIDE DEF S
  <2>3. SwapValues(vs, P, L) \in Seq(Entries)
    BY <2>1, <2>2, SwapValuesIs
  <2>4. Len(SwapValues(vs, P, L)) = Len(vs)
    BY <2>1, <2>2, SwapValuesIs
  <2>5. \A x \in DOMAIN vs : SwapValues(vs, P, L)[x] =
             IF x = P THEN vs[L] ELSE IF x = L THEN vs[P] ELSE vs[x]
    BY <2>1, <2>2 DEF SwapValues
  <2> QED BY <2>1, <2>3, <2>4, <2>5 DEF P, S
<1>3. e \in Seq(S) /\ Len(e) = L /\ \A x \in 1..L : e[x] = IF x = p + 1 THEN vs[L] ELSE vs[x]
  <2> HIDE DEF S, L
  <2> QED BY <1>1 DEF L
<1> HIDE DEF s, e
<1>4. u \in Seq(S) /\ Len(u) = L - 1 /\ \A x \in 1..(L - 1) : u[x] = e[x]
  <2> HIDE DEF S, L
  <2> QED BY <1>1, <1>3
<1>5. /\ w \in Seq(S) /\ Len(w) = L - 1
      /\ \A x \in 1..(L - 1) : w[x] = s[x]
  <2> DEFINE M == L - 1
  <2>1. s \in Seq(Entries) /\ M \in Nat /\ L \in Nat /\ M <= L /\ L <= Len(s)
    BY <1>1, <1>2
  <2>2. L - (L - M) = M /\ \A x \in 1..M : x <= M
    BY <1>1
  <2> HIDE DEF L, M
  <2>3. /\ Map!Without(s, M, L) \in Seq(Entries) /\ Len(Map!Without(s, M, L)) = Len(s) - (L - M)
        /\ \A x \in 1..(Len(s) - (L - M)) :
             Map!Without(s, M, L)[x] = IF x <= M THEN s[x] ELSE s[x + (L - M)]
    BY SMTT(30), <2>1, WithoutIs
  <2>4. w = Map!Without(s, M, L)
    BY DEF M
  <2> HIDE DEF w
  <2>5. w \in Seq(Entries) /\ Len(w) = M /\ \A x \in 1..M : w[x] = s[x]
    BY <1>2, <2>2, <2>3, <2>4
  <2> QED BY <2>5 DEF M
<1>6. \A x \in 1..(L - 1) : s[x] = e[x]
  <2>1. \A x \in 1..(L - 1) : x \in DOMAIN vs /\ x \in 1..L /\ x # L
    <3> HIDE DEF L, S
    <3> QED BY <1>1
  <2> HIDE DEF L
  <2> QED BY <1>2, <1>3, <2>1
<1> HIDE DEF w, u, S, L
<1>7. w = u
  BY <1>1, <1>4, <1>5, <1>6
<1> QED BY <1>7 DEF w, u, s, e, L, Map!SwappedOut

(* Insertion starts where the entry fits: at its ideal bucket, or where    *)
(* the search for the key stopped.                                         *)
LEMMA StartFits ==
  ASSUME NEW n, IsCount(n), NEW b \in Tables(n), NEW vs, NEW k \in Keys, NEW p,
         NEW m \in Slots(n), ~b[m].full, NEW d, d = 0 \/ d = StopAt(b, vs, k)
  PROVE  /\ Probe(b, k, d) \in Slots(n)
         /\ Fits(b, Entry(p, truncate_hash(Hash[k])), Probe(b, k, d), d, n)
<1> DEFINE h == Hash[k] % n
           e == Entry(p, truncate_hash(Hash[k]))
           i == Probe(b, k, d)
<1>1. n \in Nat \ {0}
  BY DEF IsCount
<1>2. Hash[k] \in Nat /\ h \in Slots(n)
  <2>1. 0 \in 0..n
    BY <1>1
  <2> QED BY <1>1, <2>1, ProbeIs
<1>3. d \in Slots(n)
  <2>1. CASE d = 0
    BY <1>1, <2>1 DEF Slots
  <2>2. CASE d = StopAt(b, vs, k)
    <3> DEFINE o == Off(h, m, n)
    <3>1. o \in Slots(n) /\ At(h, o, n) = m
      BY <1>1, <1>2, OffIs
    <3> HIDE DEF o
    <3>2. o \in 0..n
      BY <1>1, <3>1 DEF Slots
    <3>3. ~b[Probe(b, k, o)].full
      BY <1>1, <3>1, <3>2, ProbeIs
    <3>4. StopAt(b, vs, k) \in 0..n /\ StopAt(b, vs, k) <= o
      BY <1>1, <3>2, <3>3, StopIs
    <3> QED BY <1>1, <2>2, <3>1, <3>4 DEF Slots
  <2> QED BY <2>1, <2>2
<1>4. i = At(h, d, n) /\ i \in Slots(n)
  <2>1. d \in 0..n
    BY <1>1, <1>3 DEF Slots
  <2> QED BY <1>1, <2>1, ProbeIs
<1> HIDE DEF i
<1>5. d = Away(e, i, n)
  <2>1. PICK x \in Nat : n = Pow2[x]
    BY DEF IsCount
  <2>2. truncate_hash(Hash[k]) % n = h
    BY <1>2, <2>1, TruncatedFits DEF IsCount
  <2>3. Home(e, n) = h
    BY <2>2 DEF Home, Entry
  <2> HIDE DEF h
  <2>4. Off(h, i, n) = d
    BY <1>1, <1>2, <1>3, <1>4, AtIs
  <2> QED BY <2>3, <2>4 DEF Away
<1>6. ASSUME NEW x \in Slots(n), Fwd(x, n) = i PROVE d <= Rank(b, x, n)
  <2>1. Rank(b, x, n) \in Nat
    BY <1>1, RankIs
  <2>2. CASE d = 0
    BY <2>1, <2>2
  <2>3. CASE d # 0
    <3> DEFINE c == d - 1
    <3>1. c \in Slots(n) /\ c < n - 1 /\ c + 1 = d /\ c \in 0..n
      BY <1>1, <1>3, <2>3 DEF Slots
    <3> HIDE DEF c, h
    <3>2. At(h, c, n) \in Slots(n) /\ Fwd(At(h, c, n), n) = i
      BY <1>1, <1>2, <1>4, <3>1, AtIs
    <3>3. x = At(h, c, n)
      BY <1>1, <1>6, <3>2, FwdInjective
    <3>4. x = Probe(b, k, c)
      BY <1>1, <3>1, <3>3, ProbeIs DEF h
    <3>5. c < StopAt(b, vs, k)
      BY <1>1, <1>3, <2>3, <3>1 DEF Slots
    <3>6. Rank(b, x, n) > c
      BY <1>1, <3>1, <3>4, <3>5, StopIs
    <3> QED BY <1>1, <1>3, <2>1, <3>1, <3>6 DEF Slots
  <2> QED BY <2>2, <2>3
<1> QED BY <1>4, <1>5, <1>6 DEF Fits, i

(* c has e in bucket w and the entries of b in others.                     *)
PlacedAt(b, e, c, w, n) ==
  /\ c[w] = e
  /\ \A x \in Slots(n) : x # w /\ c[x].full => \E y \in Slots(n) : b[y].full /\ c[x] = b[y]
  /\ \A y \in Slots(n) : b[y].full => \E x \in Slots(n) : x # w /\ c[x] = b[y]
  /\ \A x, y \in Slots(n) : x # w /\ y # w /\ c[x].full /\ c[y].full
                              /\ c[x].index = c[y].index => x = y

LEMMA Placed ==
  ASSUME NEW n \in Nat \ {0}, NEW b, Distinct(b, n), NEW e, e.full, NEW c, Permuted(b, e, c, n)
  PROVE  \E w \in Slots(n) : PlacedAt(b, e, c, w, n)
<1> DEFINE H == Hat(b, e, n)
<1>1. PICK g : /\ IsPermutation(g, n)
               /\ \A x \in Slots(n) : c[x] = H[g[x]]
               /\ ~H[g[n]].full
  BY DEF Permuted
<1>2. H[n] = e /\ \A x \in Slots(n) : H[x] = b[x]
  BY DEF Hat, Slots
<1>3. \A x \in 0..n : x = n \/ x \in Slots(n)
  BY DEF Slots
<1>4. n \in 0..n /\ n \notin Slots(n) /\ Slots(n) \subseteq 0..n
  BY DEF Slots
<1> HIDE DEF H
<1>5. PICK w \in 0..n : g[w] = n
  BY <1>1, <1>4 DEF IsPermutation
<1>6. w \in Slots(n) /\ c[w] = e
  BY <1>1, <1>2, <1>3, <1>5
<1>7. \A x \in Slots(n) : x # w => g[x] \in Slots(n) /\ c[x] = b[g[x]]
  BY <1>1, <1>2, <1>3, <1>4, <1>5 DEF IsPermutation
<1>8. ASSUME NEW y \in Slots(n), b[y].full PROVE \E x \in Slots(n) : x # w /\ c[x] = b[y]
  <2>1. PICK x \in 0..n : g[x] = y
    BY <1>1, <1>4 DEF IsPermutation
  <2>2. x # n
    BY <1>1, <1>2, <1>8, <2>1
  <2>3. x \in Slots(n) /\ x # w
    BY <1>3, <1>4, <1>5, <2>1, <2>2
  <2> QED BY <1>7, <2>1, <2>3
<1>9. ASSUME NEW x \in Slots(n), NEW y \in Slots(n), x # w, y # w, c[x].full, c[y].full,
             c[x].index = c[y].index
      PROVE  x = y
  <2>1. g[x] = g[y]
    BY <1>7, <1>9 DEF Distinct
  <2> QED BY <1>1, <1>4, <2>1 DEF IsPermutation
<1>10. \A x \in Slots(n) : x # w /\ c[x].full => \E y \in Slots(n) : b[y].full /\ c[x] = b[y]
  BY <1>7
<1>11. PlacedAt(b, e, c, w, n)
  BY <1>6, <1>8, <1>9, <1>10 DEF PlacedAt
<1> QED BY <1>6, <1>11

(* After renumbering from position p on the buckets belong to the values   *)
(* with the new one.                                                       *)
LEMMA RaisedHolds ==
  ASSUME NEW n \in Nat \ {0}, NEW b, NEW vs, Sound(b, vs, n), NEW p \in 0..Len(vs),
         NEW k \in Keys, NEW v \in Vals, NEW e, e = Entry(p, truncate_hash(Hash[k])),
         NEW c \in Tables(n), NEW w \in Slots(n), PlacedAt(b, e, c, w, n),
         NEW t \in Tables(n),
         \A x \in Slots(n) : t[x] = IF x = w THEN c[x] ELSE Raised(c[x], p, Len(vs) - p)
  PROVE  /\ IndexedIn(t, Map!InsertedAt(vs, p, <<k, v>>), n)
         /\ SameSpots(c, t, n)
<1> DEFINE L == Len(vs)
           s == Map!InsertedAt(vs, p, <<k, v>>)
<1>1. /\ b \in Tables(n) /\ IndexedIn(b, vs, n) /\ vs \in Seq(Entries)
      /\ L \in Nat /\ p \in Nat /\ p <= L
  BY DEF Sound
<1>2. \A x \in Slots(n) : b[x].full => b[x].index \in 0..(L - 1)
  BY SoundRoom
<1>3. /\ s \in Seq(Entries) /\ Len(s) = L + 1
      /\ \A q \in 1..(L + 1) :
           s[q] = IF q <= p THEN vs[q] ELSE IF q = p + 1 THEN <<k, v>> ELSE vs[q - 1]
  <2> DEFINE kv == <<k, v>>
  <2>1. kv \in Entries
    BY DEF Entries
  <2> HIDE DEF kv
  <2>2. /\ Map!InsertedAt(vs, p, kv) \in Seq(Entries)
        /\ Len(Map!InsertedAt(vs, p, kv)) = Len(vs) + 1
        /\ \A q \in 1..(Len(vs) + 1) : Map!InsertedAt(vs, p, kv)[q] =
             IF q <= p THEN vs[q] ELSE IF q = p + 1 THEN kv ELSE vs[q - 1]
    BY <1>1, <2>1, InsertedIs
  <2> QED BY <2>2 DEF kv
<1> HIDE DEF s
<1>4. \A x \in Slots(n) : c[x] \in Cell /\ c[x].index \in Nat
  BY Numbers DEF Tables, Cell
<1>5. ASSUME NEW x \in Slots(n), x # w, c[x].full
      PROVE  /\ c[x].index \in 0..(L - 1)
             /\ c[x].hash = truncate_hash(Hash[vs[c[x].index + 1][1]])
  <2>1. PICK y \in Slots(n) : b[y].full /\ c[x] = b[y]
    BY <1>5 DEF PlacedAt
  <2>2. Belongs(b, vs, y)
    BY <1>1, <2>1 DEF IndexedIn
  <2> QED BY <1>2, <2>1, <2>2 DEF Belongs
<1>6. ASSUME NEW x \in Slots(n), x # w
      PROVE  /\ t[x].full <=> c[x].full
             /\ t[x].hash = c[x].hash
             /\ c[x].full =>
                  t[x].index = IF c[x].index >= p THEN c[x].index + 1 ELSE c[x].index
  <2> DEFINE q == c[x].index
  <2>1. t[x] = Raised(c[x], p, L - p)
    BY <1>6
  <2>2. CASE c[x].full
    <3>1. q \in 0..(L - 1)
      BY <1>5, <1>6, <2>2
    <3>2. q \in p..(p + (L - p) - 1) <=> q >= p
      <4> HIDE DEF L, q
      <4> QED BY <1>1, <3>1
    <3>3. CASE q >= p
      <4>1. t[x] = [c[x] EXCEPT !.index = q + 1]
        BY <2>1, <2>2, <3>2, <3>3 DEF Raised
      <4> QED BY <1>4, <3>3, <4>1 DEF Cell
    <3>4. CASE ~(q >= p)
      <4>1. t[x] = c[x]
        BY <2>1, <2>2, <3>2, <3>4 DEF Raised
      <4> QED BY <3>4, <4>1
    <3> QED BY <3>3, <3>4
  <2>3. CASE ~c[x].full
    BY <2>1, <2>3 DEF Raised
  <2> QED BY <2>2, <2>3
<1>7. t[w] = e /\ c[w] = e
  BY DEF PlacedAt
<1>8. e.full /\ e.index = p /\ e.hash = truncate_hash(Hash[k])
  BY DEF Entry
<1>9. SameSpots(c, t, n)
  BY <1>6, <1>7 DEF SameSpots
<1>10. Distinct(t, n)
  <2> SUFFICES ASSUME NEW x \in Slots(n), NEW y \in Slots(n), t[x].full, t[y].full,
                      t[x].index = t[y].index
               PROVE  x = y
    BY DEF Distinct
  <2>1. \A z \in Slots(n) : z # w /\ t[z].full => t[z].index # p
    <3> SUFFICES ASSUME NEW z \in Slots(n), z # w, t[z].full PROVE t[z].index # p
      OBVIOUS
    <3>1. t[z].index = IF c[z].index >= p THEN c[z].index + 1 ELSE c[z].index
      BY <1>6
    <3>2. c[z].index \in Nat
      BY <1>4
    <3> QED BY <1>1, <3>1, <3>2
  <2>2. x = w <=> y = w
    BY <1>7, <1>8, <2>1
  <2>3. ASSUME x # w, y # w PROVE x = y
    <3>1. c[x].full /\ c[y].full
      BY <1>6, <2>3
    <3>2. t[x].index = IF c[x].index >= p THEN c[x].index + 1 ELSE c[x].index
      BY <1>6, <2>3, <3>1
    <3>3. t[y].index = IF c[y].index >= p THEN c[y].index + 1 ELSE c[y].index
      BY <1>6, <2>3, <3>1
    <3>5. \A i, j \in Nat :
            (IF i >= p THEN i + 1 ELSE i) = (IF j >= p THEN j + 1 ELSE j) => i = j
      BY <1>1
    <3>6. c[x].index \in Nat /\ c[y].index \in Nat
      BY <1>4
    <3>4. c[x].index = c[y].index
      BY <3>2, <3>3, <3>5, <3>6
    <3> QED BY <2>3, <3>1, <3>4 DEF PlacedAt
  <2> QED BY <2>2, <2>3
<1>11. ASSUME NEW x \in Slots(n), t[x].full PROVE Belongs(t, s, x)
  <2>1. CASE x = w
    <3>1. p + 1 \in 1..(L + 1) /\ ~(p + 1 <= p) /\ p < L + 1
      BY <1>1
    <3>2. s[p + 1] = <<k, v>>
      BY <1>3, <3>1
    <3>3. s[p + 1][1] = k
      BY <3>2
    <3> QED BY <1>3, <1>7, <1>8, <2>1, <3>1, <3>3 DEF Belongs
  <2>2. CASE x # w
    <3> DEFINE q == c[x].index
               r == t[x].index
    <3>1. c[x].full /\ r = (IF q >= p THEN q + 1 ELSE q) /\ t[x].hash = c[x].hash
      BY <1>6, <1>11, <2>2
    <3>2. q \in 0..(L - 1) /\ c[x].hash = truncate_hash(Hash[vs[q + 1][1]])
      BY <1>5, <2>2, <3>1
    <3> HIDE DEF q, r
    <3>3. /\ r < L + 1 /\ r + 1 \in 1..(L + 1)
          /\ q >= p => ~(r + 1 <= p) /\ r + 1 # p + 1 /\ (r + 1) - 1 = q + 1
          /\ ~(q >= p) => r + 1 <= p /\ r + 1 = q + 1
      BY <1>1, <3>1, <3>2
    <3>4. s[r + 1] = vs[q + 1]
      <4>1. s[r + 1] = IF r + 1 <= p THEN vs[r + 1]
                       ELSE IF r + 1 = p + 1 THEN <<k, v>> ELSE vs[(r + 1) - 1]
        BY <1>3, <3>3
      <4> QED BY <3>3, <4>1
    <3> QED BY <1>3, <3>1, <3>2, <3>3, <3>4 DEF Belongs, r
  <2> QED BY <2>1, <2>2
<1>12. ASSUME NEW r \in 0..(Len(s) - 1) PROVE \E x \in Slots(n) : t[x].full /\ t[x].index = r
  <2>1. CASE r = p
    BY <1>7, <1>8, <2>1
  <2>2. CASE r # p
    <3> DEFINE q == IF r > p THEN r - 1 ELSE r
    <3>1. q \in 0..(L - 1) /\ r = IF q >= p THEN q + 1 ELSE q
      BY <1>1, <1>3, <2>2
    <3> HIDE DEF q
    <3>2. PICK y \in Slots(n) : b[y].full /\ b[y].index = q
      BY <1>1, <3>1 DEF IndexedIn
    <3>3. PICK x \in Slots(n) : x # w /\ c[x] = b[y]
      BY <3>2 DEF PlacedAt
    <3>4. t[x].full /\ t[x].index = IF q >= p THEN q + 1 ELSE q
      BY <1>6, <3>2, <3>3
    <3> QED BY <3>1, <3>4
  <2> QED BY <2>1, <2>2
<1> QED BY <1>9, <1>10, <1>11, <1>12 DEF IndexedIn, s

(* insert_impl: what it makes of the buckets, and of the positions after.  *)
PutIn(b, p, k, v, d, vs) ==
  insert_index(b, Probe(b, k, d), d, Entry(p, truncate_hash(Hash[k])),
               Len(Map!InsertedAt(vs, p, <<k, v>>)))

Moved(b, p, k, v, d, vs) ==
  Up(PutIn(b, p, k, v, d, vs).b, Map!InsertedAt(vs, p, <<k, v>>), p)

(* At the end, or with no displaced entry afterwards.                      *)
Aligned(b) == \A x \in DOMAIN b : b[x].full => Distance(b, x) = 0

LEMMA InsertSound ==
  ASSUME NEW n, IsCount(n), NEW b, NEW vs, Sound(b, vs, n), NEW st, NEW k \in Keys,
         NEW d, d = 0 \/ d = StopAt(b, st, k), NEW p \in 0..Len(vs), NEW v \in Vals,
         \A q \in DOMAIN vs : vs[q][1] # k, Len(vs) < MaxSize, Len(vs) < n,
         n > 2 => Len(vs) + 1 < n,
         p = Len(vs) \/ Aligned(Moved(b, p, k, v, d, vs).b)
  PROVE  /\ PutIn(b, p, k, v, d, vs).grow \in BOOLEAN
         /\ Moved(b, p, k, v, d, vs).hung = FALSE
         /\ Sound(Moved(b, p, k, v, d, vs).b, Map!InsertedAt(vs, p, <<k, v>>), n)
<1> DEFINE L == Len(vs)
           e == Entry(p, truncate_hash(Hash[k]))
           i == Probe(b, k, d)
           put == PutIn(b, p, k, v, d, vs)
           c == put.b
           s == Map!InsertedAt(vs, p, <<k, v>>)
           t == Moved(b, p, k, v, d, vs).b
<1>1. /\ b \in Tables(n) /\ Ordered(b, n) /\ IndexedIn(b, vs, n) /\ DistinctKeys(vs)
      /\ vs \in Seq(Entries) /\ L \in Nat /\ n \in Nat \ {0} /\ p \in Nat /\ p <= L
      /\ L < n /\ L < MaxSize
  BY DEF Sound, IsCount
<1>2. Distinct(b, n)
  BY <1>1 DEF IndexedIn
<1>3. PICK m \in Slots(n) : ~b[m].full
  BY <1>1, SoundRoom
<1>4. i \in Slots(n) /\ Fits(b, e, i, d, n)
  BY <1>1, <1>3, StartFits
<1>5. e \in Cell /\ e.full /\ e.index = p
  <2>1. truncate_hash(Hash[k]) \in 0..(TruncatedHashes - 1)
    <3>1. Hash[k] \in Nat
      BY HashAssumption
    <3> QED BY <3>1, Numbers, DivMod DEF truncate_hash
  <2>2. p \in 0..MaxSize
    BY <1>1, Numbers
  <2> QED BY <2>1, <2>2 DEF Entry, Cell
<1>6. d \in Nat
  <2>1. d = Away(e, i, n)
    BY <1>4 DEF Fits
  <2> HIDE DEF e, i
  <2>2. Away(e, i, n) \in Slots(n)
    BY <1>1, <1>4, <1>5, CellIs
  <2> QED BY <2>1, <2>2 DEF Slots
<1>7. /\ put.grow \in BOOLEAN
      /\ c \in Tables(n)
      /\ Ordered(c, n)
      /\ Permuted(b, e, c, n)
  <2> DEFINE z == Len(s)
  <2>1. put = insert_index(b, i, d, e, z)
    BY DEF PutIn
  <2> HIDE DEF e, i, z
  <2>2. insert_index(b, i, d, e, z).b \in Tables(n) /\ insert_index(b, i, d, e, z).grow \in BOOLEAN
    BY <1>1, <1>4, <1>5, <1>6, InsertIndexType
  <2>3. Ordered(insert_index(b, i, d, e, z).b, n) /\ Permuted(b, e, insert_index(b, i, d, e, z).b, n)
    BY <1>1, <1>3, <1>4, <1>5, InsertIndexIs
  <2> HIDE DEF put
  <2> QED BY <2>1, <2>2, <2>3
<1>8. PICK w \in Slots(n) : PlacedAt(b, e, c, w, n)
  <2> HIDE DEF e, c
  <2> QED BY <1>1, <1>2, <1>5, <1>7, Placed
<1>9. /\ s \in Seq(Entries) /\ Len(s) = L + 1 /\ Len(s) <= MaxSize /\ DistinctKeys(s)
      /\ \A q \in 1..(L + 1) :
           s[q] = IF q <= p THEN vs[q] ELSE IF q = p + 1 THEN <<k, v>> ELSE vs[q - 1]
  <2> DEFINE kv == <<k, v>>
  <2>1. kv \in Entries /\ kv[1] = k
    BY DEF Entries
  <2> HIDE DEF kv
  <2>2. \A q \in DOMAIN vs : vs[q][1] # kv[1]
    BY <2>1
  <2>3. DistinctKeys(Map!InsertedAt(vs, p, kv))
    BY <1>1, <2>1, <2>2, InsertedKeys
  <2>4. /\ Map!InsertedAt(vs, p, kv) \in Seq(Entries)
        /\ Len(Map!InsertedAt(vs, p, kv)) = Len(vs) + 1
        /\ \A q \in 1..(Len(vs) + 1) : Map!InsertedAt(vs, p, kv)[q] =
             IF q <= p THEN vs[q] ELSE IF q = p + 1 THEN kv ELSE vs[q - 1]
    BY <1>1, <2>1, InsertedIs
  <2>5. L + 1 <= MaxSize
    BY <1>1, Numbers
  <2> QED BY <2>3, <2>4, <2>5 DEF kv
<1> HIDE DEF c, s, e
<1>10. Moved(b, p, k, v, d, vs) = Up(c, s, p)
  BY DEF Moved, c, s
<1>11. /\ ~Moved(b, p, k, v, d, vs).hung
       /\ t \in Tables(n)
       /\ \A x \in Slots(n) : t[x] = IF x = w THEN c[x] ELSE Raised(c[x], p, L - p)
  <2>1. CASE p = L
    <3> DEFINE from == p + 1
               D == 1
    <3>1. from \in 0..Len(s) /\ Len(s) - from = 0 /\ D \in Int
      BY <1>1, <1>9, <2>1
    <3> HIDE DEF from, D
    <3>2. PICK r : IsShiftRun(r, c, s, from, D, n)
      BY <1>1, <1>7, <1>9, <3>1, ShiftIndexRuns
    <3>3. shift_indexes(c, s, from, D) = [b |-> c, hung |-> FALSE]
      BY <3>1, <3>2 DEF IsShiftRun
    <3>4. Up(c, s, p) = [b |-> c, hung |-> FALSE]
      BY <3>3 DEF Up, from, D
    <3>5. t = c /\ ~Moved(b, p, k, v, d, vs).hung
      BY <1>10, <3>4
    <3>6. p..(p + (L - p) - 1) = {}
      BY <1>1, <2>1
    <3>7. \A x \in Slots(n) : Raised(c[x], p, L - p) = c[x]
      BY <3>6 DEF Raised
    <3> HIDE DEF t
    <3> QED BY <1>7, <3>5, <3>7
  <2>2. CASE p # L
    <3>1. Aligned(t)
      BY <2>2
    <3>2. p \in 0..(Len(s) - 1) /\ p + 1 \in 0..Len(s)
      BY <1>1, <1>9
    <3>3. AllHome(c, n)
      <4> DEFINE from == p + 1
                 D == 1
      <4>1. from \in 0..Len(s) /\ Len(s) - from \in 0..(Len(s) - from) /\ D \in Int
        BY <1>9, <3>2
      <4>2. Up(c, s, p) = shift_indexes(c, s, from, D)
        BY DEF Up
      <4> HIDE DEF from, D
      <4>3. PICK r : IsShiftRun(r, c, s, from, D, n)
        BY <1>1, <1>7, <1>9, <4>1, ShiftIndexRuns
      <4>4. /\ Up(c, s, p) \in ShiftStates(n)
            /\ \A x \in Slots(n) : /\ Up(c, s, p).b[x].full = c[x].full
                                   /\ Up(c, s, p).b[x].hash = c[x].hash
        BY <4>1, <4>2, <4>3 DEF IsShiftRun
      <4>5. /\ t \in Tables(n)
            /\ \A x \in Slots(n) : t[x].full = c[x].full /\ t[x].hash = c[x].hash
        BY <1>10, <4>4 DEF ShiftStates
      <4> HIDE DEF t
      <4>6. ASSUME NEW x \in Slots(n), c[x].full PROVE Away(c[x], x, n) = 0
        <5>1. Distance(t, x) = 0
          BY <3>1, <4>5, <4>6 DEF Aligned, Tables
        <5>2. Distance(t, x) = Away(t[x], x, n)
          BY <1>1, <4>5, TableIs
        <5>3. Away(t[x], x, n) = Away(c[x], x, n)
          BY <4>5 DEF Away, Home
        <5> QED BY <5>1, <5>2, <5>3
      <4> QED BY <4>6 DEF AllHome
    <3>4. DistinctBut(c, w, n)
      BY <1>8 DEF PlacedAt, DistinctBut
    <3>5. HasNext(c, s, p, w, n)
      <4> SUFFICES ASSUME NEW q \in p..(Len(s) - 2)
                   PROVE  \E x \in Slots(n) :
                            /\ x # w /\ c[x].full /\ c[x].index = q
                            /\ Home(c[x], n) = Hash[s[q + 2][1]] % n
        BY DEF HasNext
      <4>1. /\ q \in 0..(L - 1) /\ q + 2 \in 1..(L + 1) /\ q \in Nat
            /\ ~(q + 2 <= p) /\ q + 2 # p + 1 /\ (q + 2) - 1 = q + 1
        BY <1>1, <1>9
      <4>2. s[q + 2] = vs[q + 1]
        <5>1. s[q + 2] = IF q + 2 <= p THEN vs[q + 2]
                         ELSE IF q + 2 = p + 1 THEN <<k, v>> ELSE vs[(q + 2) - 1]
          BY <1>9, <4>1
        <5> QED BY <4>1, <5>1
      <4>3. PICK y \in Slots(n) : b[y].full /\ b[y].index = q
        BY <1>1, <4>1 DEF IndexedIn
      <4>4. Belongs(b, vs, y)
        BY <1>1, <4>3 DEF IndexedIn
      <4>5. Home(b[y], n) = Hash[vs[b[y].index + 1][1]] % n
        BY <1>1, <4>1, <4>3, <4>4, HomeOfKey
      <4>6. PICK x \in Slots(n) : x # w /\ c[x] = b[y]
        BY <1>8, <4>3 DEF PlacedAt
      <4> QED BY <4>2, <4>3, <4>5, <4>6
    <3>6. /\ ~Up(c, s, p).hung
          /\ Up(c, s, p).b \in Tables(n)
          /\ \A x \in Slots(n) :
               Up(c, s, p).b[x] = IF x = w THEN c[x] ELSE Raised(c[x], p, Len(s) - (p + 1))
      BY <1>1, <1>7, <1>9, <3>2, <3>3, <3>4, <3>5, ShiftUp
    <3>7. Len(s) - (p + 1) = L - p
      BY <1>1, <1>9
    <3> QED BY <1>10, <3>6, <3>7
  <2> QED BY <2>1, <2>2
<1> HIDE DEF t
<1>12. IndexedIn(t, s, n) /\ SameSpots(c, t, n)
  BY <1>1, <1>7, <1>8, <1>11, RaisedHolds DEF e, s
<1>13. Ordered(t, n)
  BY <1>1, <1>7, <1>11, <1>12, SameRank
<1>14. Len(s) <= n /\ (n > 2 => Len(s) < n)
  BY <1>1, <1>9
<1>15. Sound(t, s, n)
  BY <1>9, <1>11, <1>12, <1>13, <1>14 DEF Sound
<1>16. Moved(b, p, k, v, d, vs).hung \in BOOLEAN
  <2> DEFINE from == p + 1
             D == 1
  <2>1. from \in 0..Len(s) /\ D \in Int
    BY <1>1, <1>9
  <2>2. Moved(b, p, k, v, d, vs) = shift_indexes(c, s, from, D)
    BY <1>10 DEF Up
  <2> HIDE DEF from, D
  <2> QED BY <1>1, <1>7, <1>9, <2>1, <2>2, ShiftIndexesType
<1> QED BY <1>7, <1>11, <1>15, <1>16 DEF t, s
=============================================================================
